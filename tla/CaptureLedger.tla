---------------------------- MODULE CaptureLedger ----------------------------
(***************************************************************************)
(* What the inbox promises of each capture, whatever the runs that serve   *)
(* it: it is accepted once, woven into the memory in one step, here or on  *)
(* another device that sends it woven, and only the user takes it back.  A *)
(* run, its batch, its aborts and its crashes are invisible here           *)
(* (ARCHITECTURE section 9: the cycle is idempotent and safe to run again; *)
(* POST /capture is idempotent on the client's id).                        *)
(***************************************************************************)
CONSTANT Capture

VARIABLE ledger

Status == {"absent", "waiting", "refused", "woven"}

Init == ledger \in [Capture -> {"absent", "refused"}]

Moves(c, from, to) ==
  /\ ledger[c] \in from
  /\ ledger' = [ledger EXCEPT ![c] = to]

Accept(c) == Moves(c, {"absent"}, "waiting")
Weave(c) == Moves(c, {"waiting"}, "woven")
Receive(c) == Moves(c, {"absent", "waiting", "refused"}, "woven")
TakeBack(c) == Moves(c, {"refused", "woven"}, "waiting")

Next == \E c \in Capture : Accept(c) \/ Weave(c) \/ Receive(c) \/ TakeBack(c)

Spec == Init /\ [][Next]_ledger
=============================================================================
