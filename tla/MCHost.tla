-------------------------------- MODULE MCHost --------------------------------
(* Host for TLC: two requests, two processes or peers, two devices, two        *)
(* entities and a fact, and the functions of MCFunctions on small arguments.   *)
EXTENDS Host, MCFunctions, TLC

CONSTANTS
  h1, h2,           \* requests, pulls or searches under way at the same time
  p1, p2,           \* processes that use the local engine, backends of a home, peers
  u1, u2, u3,       \* their cycles and digests
  d1, d2,           \* a member and a joiner, or two members
  k1, k2, f1        \* two entities and a fact

Requests == {h1, h2}
Places == {p1, p2}
Silent == {p2}
Users == {u1, u2, u3}
Devices == {d1, d2}
Showing == {d1}
TwoEntities == {k1, k2}
OneFact == {f1}
OnlyOne == {1}
Settings == {"instance_id", "fetch_resources"}
TwoValues == {1, 2}
Weights == {0, 1}

HomeOfUsers == [u \in Users |-> IF u = u3 THEN p2 ELSE p1]
Names == {"ann", "Ann", "bob"}
FoldOfNames == [n \in Names |-> IF n = "Ann" THEN "ann" ELSE n]
FirstNames == [e \in TwoEntities |-> IF e = k1 THEN "ann" ELSE "bob"]
Questions == {[kind |-> "rename", e |-> k1, to |-> "Ann"], [kind |-> "negation", e |-> k2],
              [kind |-> "type", e |-> k2], [kind |-> "merge", a |-> k1, b |-> k2], [kind |-> "predicate"]}
OneRelation == {"r1"}
OneNote == {"n1"}
TwoEntries == {"x1", "x2"}
OneOffer == {k1}
AboutFact == [f \in OneFact |-> k2]
Starts == [p \in Places |-> IF p = p1 THEN 1 ELSE None]

\* Requests, pulls and searches have no identity of their own.
AnyOrder == Permutations({h1, h2})
=============================================================================
