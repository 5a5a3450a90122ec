---------------------------- MODULE LwwRegister ----------------------------
(* What replication promises of a singleton row (`space`, `sync_owner`): each  *)
(* replica holds nothing or a value somebody wrote, every write outranks what  *)
(* its author held, a copy is only replaced by one of a higher rank, and only  *)
(* a device that adopts another memory forgets.                                *)
EXTENDS Naturals

CONSTANTS Device, Stamp

VARIABLES written,  \* the stamps of the writes made so far, anywhere
          copy      \* copy[d]: the stamp of the row at d, 0 without one

ARInit == /\ written \subseteq Stamp
          /\ copy \in [Device -> written \cup {0}]

Write(d) == \E s \in Stamp \ written :
              /\ s > copy[d]
              /\ written' = written \cup {s}
              /\ copy' = [copy EXCEPT ![d] = s]

Learn(d) == \E s \in written :
              /\ s > copy[d]
              /\ copy' = [copy EXCEPT ![d] = s]
              /\ UNCHANGED written

Forget(d) == /\ copy' = [copy EXCEPT ![d] = 0]
             /\ UNCHANGED written

(* Another row of the same clock was written. *)
Elsewhere == \E s \in Stamp \ written : written' = written \cup {s} /\ UNCHANGED copy

ARNext == Elsewhere \/ \E d \in Device : Write(d) \/ Learn(d) \/ Forget(d)

ARSpec == ARInit /\ [][ARNext]_<<written, copy>>
=============================================================================
