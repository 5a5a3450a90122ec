------------------------------ MODULE Louvain -------------------------------
(***************************************************************************)
(* The zones of the living map: graph_communities.py and the numbering of  *)
(* api/app.py (canonical_community_ids).                                   *)
(*                                                                         *)
(* A level starts with every node alone.  Passes visit the nodes in order; *)
(* each moves to the neighbouring community that gains the most            *)
(* modularity, ties going to the smallest index, until a pass moves        *)
(* nothing.  The communities become the nodes of the next level, until     *)
(* none merges.                                                            *)
(*                                                                         *)
(* The weights are integers and the gains are scaled by 2 m^2, so that no  *)
(* division is left; resolution is 1.0.  The order of the input plays no   *)
(* part, weights being summed per pair before the first level: a graph is  *)
(* a function on the pairs of nodes.                                       *)
(***************************************************************************)
EXTENDS Naturals, Integers, FiniteSets, Functions

CONSTANTS
  NNode,    \* nodes of the map, 1..NNode in the order of their ids
  Weight,   \* weights an edge may have, 0 for no edge
  MaxPass,  \* _MAX_PASSES
  MaxLevel  \* _MAX_LEVELS

LouvainAssumption ==
  /\ NNode \in Nat \ {0} /\ Weight \subseteq Nat
  /\ MaxPass \in Nat \ {0} /\ MaxLevel \in Nat \ {0}

VARIABLES
  edges,       \* the map that is asked for
  adj, selfW,  \* the graph of this level, and its self-loops
  com,         \* community of each node of this level
  stot,        \* total degree of each community, the visited node out of its own
  at,          \* node to visit, 0 before the first level
  moved, pass, level,
  membership,  \* node of this level that each node of the map is in
  zones        \* the answer: community_id of each node, <<>> before

louvainVars == <<edges, adj, selfW, com, stot, at, moved, pass, level, membership, zones>>

Nodes == 1..NNode
Pairs(V) == {p \in V \X V : p[1] < p[2]}
Key(a, b) == IF a < b THEN <<a, b>> ELSE <<b, a>>
Least(S) == CHOOSE x \in S : \A y \in S : x <= y

-----------------------------------------------------------------------------
(* One level.  Its nodes are the domain of com. *)

Here == DOMAIN com
W(a, b) == IF a = b THEN 0 ELSE adj[Key(a, b)]
Degree(V, w, s, u) == SumFunction([v \in V |-> IF v = u THEN 2 * s[u] ELSE w[Key(u, v)]])
TotalWeight == SumFunction(adj) + SumFunction(selfW)

\* What leads from u into community c.
Into(u, c) == SumFunctionOnSet([v \in Here |-> W(u, v)], {v \in Here : com[v] = c})
Neighbouring(u) == {com[v] : v \in {v \in Here : W(u, v) # 0}}

\* 2 m^2 times the gain of moving u to c, with u out of the total of its own.
ScaledGain(u, c) ==
  LET m == TotalWeight
      k == Degree(Here, adj, selfW, u)
      Out(d) == IF d = com[u] THEN stot[d] - k ELSE stot[d]
  IN (Out(com[u]) * k - 2 * m * Into(u, com[u])) + (2 * m * Into(u, c) - Out(c) * k)

\* Mutant: what is lost by leaving is not counted.
BestIgnoringLoss(u) ==
  LET Gain(c) == 2 * TotalWeight * Into(u, c) - stot[c] * Degree(Here, adj, selfW, u)
      better == {c \in Neighbouring(u) : Gain(c) > 0}
  IN IF better = {} THEN com[u] ELSE Least({c \in better : \A d \in better : Gain(d) <= Gain(c)})

\* Staying scores 0; only a real gain moves, the smallest index among equals.
Best(u) ==
  LET better == {c \in Neighbouring(u) : ScaledGain(u, c) > 0}
  IN IF better = {} THEN com[u]
     ELSE Least({c \in better : \A d \in better : ScaledGain(u, d) <= ScaledGain(u, c)})

\* Communities renumbered in order of first appearance.
Compressed ==
  LET First(u) == Least({v \in Here : com[v] = com[u]})
  IN [u \in Here |-> Cardinality({First(v) : v \in {v \in Here : First(v) <= First(u)}})]

StartLevel(V, w, s) ==
  /\ adj' = w /\ selfW' = s
  /\ com' = [u \in V |-> u]
  /\ stot' = [u \in V |-> Degree(V, w, s, u)]
  /\ at' = 1 /\ moved' = FALSE /\ pass' = 1

\* canonical_community_ids: the largest first, then the one with the smallest id.
CanonicalIds(group) ==
  LET Members(i) == {j \in Nodes : group[j] = group[i]}
      Before(i, j) == \/ Cardinality(Members(i)) > Cardinality(Members(j))
                      \/ /\ Cardinality(Members(i)) = Cardinality(Members(j))
                         /\ Least(Members(i)) < Least(Members(j))
  IN [j \in Nodes |-> Cardinality({Least(Members(i)) : i \in {i \in Nodes : Before(i, j)}})]

-----------------------------------------------------------------------------
Init ==
  /\ edges \in [Pairs(Nodes) -> Weight]
  /\ adj = edges /\ selfW = [u \in Nodes |-> 0]
  /\ com = [u \in Nodes |-> u] /\ stot = [u \in Nodes |-> 0]
  /\ at = 0 /\ moved = FALSE /\ pass = 0 /\ level = 1
  /\ membership = [u \in Nodes |-> u]
  /\ zones = <<>>

\* The degrees are summed, and nothing moves on a map without weight.
BeginLevel ==
  /\ at = 0 /\ zones = <<>>
  /\ IF TotalWeight = 0
     THEN /\ zones' = CanonicalIds(membership)
          /\ UNCHANGED <<adj, selfW, com, stot, at, moved, pass>>
     ELSE StartLevel(Here, adj, selfW) /\ UNCHANGED zones
  /\ UNCHANGED <<edges, level, membership>>

Visit ==
  LET k == Degree(Here, adj, selfW, at)
      best == Best(at)
  IN
  /\ at \in Here /\ zones = <<>>
  /\ stot' = [c \in Here |-> (IF c = com[at] THEN stot[c] - k ELSE stot[c])
                             + (IF c = best THEN k ELSE 0)]
  /\ com' = [com EXCEPT ![at] = best]
  /\ moved' = (moved \/ best # com[at])
  /\ at' = at + 1
  /\ UNCHANGED <<edges, adj, selfW, pass, level, membership, zones>>

EndOfPass == at = Cardinality(Here) + 1 /\ zones = <<>>

NextPass ==
  /\ EndOfPass /\ moved /\ pass < MaxPass
  /\ at' = 1 /\ moved' = FALSE /\ pass' = pass + 1
  /\ UNCHANGED <<edges, adj, selfW, com, stot, level, membership, zones>>

\* _aggregate: what is inside a community becomes its self-loop.
Aggregated(V, c) ==
  LET Inside(a) == {p \in Pairs(V) : c[p[1]] = a /\ c[p[2]] = a}
      Between(q) == {p \in Pairs(V) : Key(c[p[1]], c[p[2]]) = q}
      Group == 1..Cardinality({c[u] : u \in V})
  IN [adj |-> [q \in Pairs(Group) |-> SumFunctionOnSet(adj, Between(q))],
      selfW |-> [a \in Group |-> SumFunctionOnSet(adj, Inside(a))
                                  + SumFunctionOnSet(selfW, {u \in V : c[u] = a})]]

\* Collapses the communities; a level that merged nothing, or everything, is the last.
EndLevel ==
  LET c == Compressed
      k == Cardinality({c[u] : u \in Here})
      group == [i \in Nodes |-> c[membership[i]]]
      collapsed == Aggregated(Here, c)
  IN
  /\ EndOfPass /\ (~moved \/ pass = MaxPass)
  /\ IF k = Cardinality(Here)
     THEN /\ zones' = CanonicalIds(membership)
          /\ UNCHANGED <<adj, selfW, com, stot, at, moved, pass, level, membership>>
     ELSE /\ membership' = group
          /\ level' = level + 1
          /\ StartLevel(1..k, collapsed.adj, collapsed.selfW)
          /\ zones' = IF k = 1 \/ level = MaxLevel THEN CanonicalIds(group) ELSE zones
  /\ UNCHANGED edges

Next == BeginLevel \/ Visit \/ NextPass \/ EndLevel

Spec == Init /\ [][Next]_louvainVars

-----------------------------------------------------------------------------
TypeOK ==
  /\ edges \in [Pairs(Nodes) -> Weight]
  /\ \E k \in Nodes :
       /\ adj \in [Pairs(1..k) -> Nat] /\ selfW \in [1..k -> Nat]
       /\ com \in [1..k -> 1..k] /\ stot \in [1..k -> Nat]
       /\ membership \in [Nodes -> 1..k]
       /\ at \in 0..k+1
  /\ moved \in BOOLEAN /\ pass \in 0..MaxPass /\ level \in 1..MaxLevel + 1
  /\ zones = <<>> \/ zones \in [Nodes -> 0..NNode - 1]

-----------------------------------------------------------------------------
\* The definition the gains stand for: 4 m^2 times the modularity of a partition
\* of the map that was asked for.
Modularity(group) ==
  LET m == SumFunction(edges)
      D == [i \in Nodes |-> Degree(Nodes, edges, [u \in Nodes |-> 0], i)]
      Zone(g) == {i \in Nodes : group[i] = g}
      OfZone(g) == SumFunctionOnSet(D, Zone(g))
  IN SumFunction([g \in {group[i] : i \in Nodes} |->
       4 * m * SumFunctionOnSet(edges, Pairs(Zone(g))) - OfZone(g) * OfZone(g)])

Groups == [i \in Nodes |-> com[membership[i]]]
SameZones(f, g) == \A i, j \in Nodes : f[i] = f[j] <=> g[i] = g[j]

\* Each move raises the modularity of the whole map, at every level and whatever was
\* collapsed before, and nothing else changes the zones: "a node only leaves for a
\* real gain".  This is what makes the loops end.
Climbs == SameZones(Groups, Groups') \/ Modularity(Groups') > Modularity(Groups)
ClimbsModularity == [][Climbs]_louvainVars
=============================================================================
