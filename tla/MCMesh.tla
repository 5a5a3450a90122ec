------------------------------- MODULE MCMesh -------------------------------
(* Instances of Mesh for TLC: the member m of one memory, the stranger x of    *)
(* another, and j, which may have shared the memory of x or lived alone.       *)
EXTENDS Mesh

CONSTANTS m, x, j

Two == {m, j}
Three == {m, x, j}
OnlyJ == {j}
OnlyM == {m}
OldMembers == {x, j}
Founders == {m, x}
Nobody == {}

SharedWithX == [d \in Three |-> IF d = m THEN m ELSE x]
MemberAndJoiner == [d \in Two |-> IF d = m THEN m ELSE None]

MPullsFromJ == {<<m, j>>}
BothWays == {<<m, j>>, <<j, m>>}
XPushesToJ == {<<x, j>>}
TakenByM == {<<m, m>>}
NoPair == {}
=============================================================================
