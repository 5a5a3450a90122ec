------------------------------ MODULE MCPairing ------------------------------
(* Instances of Pairing for TLC: either joiners that scan one of two offers,   *)
(* or joiners that type one of two codes.                                      *)
EXTENDS Pairing, TLC

CONSTANTS q1, q2, l1, c1, c2, c3
Scans == {q1, q2, l1}
Codes == {c1, c2, c3}
Everyone == Scans \cup Codes
OneLegacy == {l1}
AnyJoiner == Permutations({q1, q2}) \cup Permutations(Codes)

VARIABLE joiners

MCInit == Init /\ joiners \in {Scans, Codes}

With(someone, Act) == joiners = someone /\ Act /\ UNCHANGED joiners

MCNext ==
  \/ With(Scans, StartOffer) \/ With(Codes, StartCodeOffer)
  \/ \E r \in Scans, o \in 1 .. NOffer : With(Scans, SubmitRequest(r, o))
  \/ \E r \in Codes, typed \in 0 .. NCode : With(Codes, typed <= lastCode /\ SubmitCodeRequest(r, typed))
  \/ \E r \in joiners :
       \/ With(joiners, ConfirmRight(r)) \/ With(joiners, ConfirmWrong(r))
       \/ With(joiners, Approve(r)) \/ With(joiners, Deny(r))
       \/ With(joiners, PollApproved(r)) \/ With(joiners, PollDenied(r))
       \/ With(joiners, AdoptCallback(r))
  \/ With(joiners, Tick) \/ With(joiners, Restart)

MCSpec == MCInit /\ [][MCNext]_<<vars, joiners>>
=============================================================================
