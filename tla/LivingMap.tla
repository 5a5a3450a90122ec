------------------------------ MODULE LivingMap ------------------------------
(***************************************************************************)
(* The map: its filters, its zones and their names.                        *)
(*                                                                         *)
(* api/app.py, GET /graph after its queries (Desk has those), and          *)
(* graph_clusters.py.  Functions of their arguments: the module declares   *)
(* no variable, and MCHost checks the statements at its end on all small   *)
(* arguments.  Louvain has the communities.                                *)
(*                                                                         *)
(* A graph has nodes, numbered in the order of the response, and edges,    *)
(* pairs of nodes.  Strengths and positions are integers, the labels that  *)
(* a model gives are opaque.                                               *)
(***************************************************************************)
EXTENDS Integers, FiniteSets, Sequences
LOCAL INSTANCE SequencesExt
LOCAL INSTANCE FiniteSetsExt

CONSTANTS TopN,           \* _TOP_N: the entities that define a zone
          MinClusterSize, \* MIN_CLUSTER_SIZE
          None

MapAssumption == TopN \in Nat \ {0} /\ MinClusterSize \in Nat

-----------------------------------------------------------------------------
(* Filters. *)

\* Both ends of an edge must survive.
Prune(g, keep) ==
  [nodes |-> g.nodes \cap keep, edges |-> {e \in g.edges : e[1] \in keep /\ e[2] \in keep}]

Degree(g, n) == Cardinality({e \in g.edges : e[1] = n}) + Cardinality({e \in g.edges : e[2] = n})

\* memory_strength x (degree + 1)
NodeScore(g, strength, n) == strength[n] * (Degree(g, n) + 1)

\* A stable sort, best first.
Outranks(score, m, n) == score[m] > score[n] \/ (score[m] = score[n] /\ m < n)
Best(members, score, k) ==
  {n \in members : Cardinality({m \in members : Outranks(score, m, n)}) < k}

\* The focus, its neighbours, and the edges that touch it.
EgoFilter(g, focus) ==
  LET kept == {e \in g.edges : e[1] \in focus \/ e[2] \in focus} IN
  IF focus \cap g.nodes = {} THEN [nodes |-> {}, edges |-> {}]
  ELSE [nodes |-> g.nodes \cap (focus \cup UNION {{e[1], e[2]} : e \in kept}), edges |-> kept]

\* ceil(size * pct) of each community, one at least; pct is a fraction <<num, den>>.
TopPctPerCluster(g, score, community, pct) ==
  LET share(size) == (size * pct[1] + pct[2] - 1) \div pct[2]
      quota(size) == IF share(size) < 1 THEN 1 ELSE share(size)
      of(c) == {n \in g.nodes : community[n] = c}
  IN Prune(g, UNION {Best(of(community[n]), score, quota(Cardinality(of(community[n])))) : n \in g.nodes})

\* The filters of the endpoint, in their order.  The degrees are those before the prunings
\* by salience: top_pct and max_nodes rank by the same scores.
Filtered(g, strength, community, q) ==
  LET valued == Prune(g, q.keep)
      ego == IF q.focus = {} THEN valued ELSE EgoFilter(valued, q.focus)
      score == [n \in ego.nodes |-> NodeScore(ego, strength, n)]
      linked == IF q.isolated THEN ego ELSE Prune(ego, {n \in ego.nodes : Degree(ego, n) > 0})
      topped == IF q.pct = None THEN linked ELSE TopPctPerCluster(linked, score, community, q.pct)
  IN IF Cardinality(topped.nodes) > q.max THEN Prune(topped, Best(topped.nodes, score, q.max)) ELSE topped

-----------------------------------------------------------------------------
(* Names of zones (build_clusters). *)

\* Communities large enough to be a zone; a member is [label, kind], best first.
Zones(members) == {c \in DOMAIN members : Len(members[c]) >= MinClusterSize}

\* The labels of the best entities; their set is the signature under which a name is kept.
TopEntities(ms) ==
  LET entities == SelectSeq(ms, LAMBDA m : m.kind = "entity")
  IN {entities[i].label : i \in 1..(IF Len(entities) < TopN THEN Len(entities) ELSE TopN)}

\* cache: the labels kept, by signature.  answer: what one call of the model gives for the
\* zones it is asked about, {} when it fails or no key is set.
BuildClusters(cache, members, answer) ==
  LET sig == [c \in Zones(members) |-> TopEntities(members[c])]
      named == {c \in Zones(members) : sig[c] # {}}
      known == {c \in named : sig[c] \in DOMAIN cache}
      given == (named \ known) \cap DOMAIN answer
      label(c) == IF c \in known THEN cache[sig[c]] ELSE IF c \in given THEN answer[c] ELSE None
  IN [labels |-> [c \in Zones(members) |-> label(c)],  \* None: "Cluster <id>"
      cache |-> [s \in DOMAIN cache \cup {sig[c] : c \in given} |->
        IF s \in DOMAIN cache THEN cache[s] ELSE answer[CHOOSE c \in given : sig[c] = s]]]

-----------------------------------------------------------------------------
(* The outline of a zone (_convex_hull, the monotone chain). *)

Cross(o, a, b) == (a[1] - o[1]) * (b[2] - o[2]) - (a[2] - o[2]) * (b[1] - o[1])

\* The chain up to where adding p turns left.
Extend(chain, p) ==
  LET keep == Max({l \in 0..Len(chain) : l < 2 \/ Cross(chain[l - 1], chain[l], p) > 0})
  IN Append(SubSeq(chain, 1, keep), p)

Chain(pts) == FoldLeft(Extend, <<>>, pts)

ConvexHull(points) ==
  LET pts == SetToSortSeq(points, LAMBDA a, b : a[1] < b[1] \/ (a[1] = b[1] /\ a[2] < b[2]))
  IN IF Len(pts) <= 2 THEN pts ELSE Front(Chain(pts)) \o Front(Chain(Reverse(pts)))

-----------------------------------------------------------------------------
(* What they promise. *)

\* "both endpoints survive": no filter leaves an edge to a node that is not there; "the
\* endpoint never returns an unbounded hairball"; who is left out of a community is not
\* more salient than who is kept.
FiltersKeepTheirWord(g, strength, community, q) ==
  LET f == Filtered(g, strength, community, q)
      full == Filtered(g, strength, community, [q EXCEPT !.pct = None, !.max = Cardinality(g.nodes)])
      score == [n \in full.nodes |-> NodeScore(full, strength, n)]
  IN /\ f.nodes \subseteq g.nodes \cap q.keep /\ f.edges \subseteq g.edges
     /\ \A e \in f.edges : {e[1], e[2]} \subseteq f.nodes
     /\ Cardinality(f.nodes) <= q.max
     /\ \A m \in full.nodes \ f.nodes, n \in f.nodes : community[m] = community[n] => score[m] <= score[n]
     /\ \A e \in full.edges : {e[1], e[2]} \subseteq f.nodes => e \in f.edges

\* A zone bears the name that was given for its own entities, or a generic one that is
\* NOT kept; no name that was kept is lost.
NamesFitZones(cache, members, answer) ==
  LET b == BuildClusters(cache, members, answer) IN
  /\ \A c \in Zones(members) : b.labels[c] # None =>
       /\ TopEntities(members[c]) \in DOMAIN b.cache
       /\ b.labels[c] = b.cache[TopEntities(members[c])]
  /\ \A c \in Zones(members) : b.labels[c] = None =>
       c \notin DOMAIN answer \/ TopEntities(members[c]) = {}
  /\ \A s \in DOMAIN cache : s \in DOMAIN b.cache /\ b.cache[s] = cache[s]
  /\ \A s \in DOMAIN b.cache : b.cache[s] # None

\* p is no corner: it lies within two or three of the other points.
Between(p, a, b) ==
  /\ Cross(a, b, p) = 0
  /\ (p[1] - a[1]) * (p[1] - b[1]) <= 0 /\ (p[2] - a[2]) * (p[2] - b[2]) <= 0
Inside(p, a, b, c) == Cross(a, b, p) > 0 /\ Cross(b, c, p) > 0 /\ Cross(c, a, p) > 0
Corner(p, points) ==
  LET others == points \ {p} IN
  \A a, b \in others : ~Between(p, a, b) /\ \A c \in others : ~Inside(p, a, b, c)

\* The outline goes once around the zone by its corners, counterclockwise.
HullIsOutline(points) ==
  LET hull == ConvexHull(points)
      next(i) == IF i = Len(hull) THEN 1 ELSE i + 1
  IN /\ {hull[i] : i \in DOMAIN hull} = {p \in points : Corner(p, points)}
     /\ Len(hull) = Cardinality({p \in points : Corner(p, points)})
     /\ Len(hull) > 2 => \A i \in DOMAIN hull : Cross(hull[i], hull[next(i)], hull[next(next(i))]) > 0
=============================================================================
