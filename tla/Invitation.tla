----------------------------- MODULE Invitation -----------------------------
(***************************************************************************)
(* What pairing promises of each request to join: it waits for the user,   *)
(* it is granted at most once, the secrets of a granted request leave at   *)
(* most once, and a request that is over stays over.                       *)
(***************************************************************************)
CONSTANT Request

VARIABLE invitation

Status == {"none", "waiting", "granted", "delivered", "over"}

Init == invitation = [r \in Request |-> "none"]

Moves(r, from, to) ==
  /\ invitation[r] = from
  /\ invitation' = [invitation EXCEPT ![r] = to]

Ask(r) == Moves(r, "none", "waiting")
Grant(r) == Moves(r, "waiting", "granted")
Deliver(r) == Moves(r, "granted", "delivered")

\* Refused, expired or forgotten, any number of them at a time.
Lapse ==
  \E S \in SUBSET {r \in Request : invitation[r] \in {"waiting", "granted"}} :
    invitation' = [r \in Request |-> IF r \in S THEN "over" ELSE invitation[r]]

Next == Lapse \/ \E r \in Request : Ask(r) \/ Grant(r) \/ Deliver(r)

Spec == Init /\ [][Next]_invitation
=============================================================================
