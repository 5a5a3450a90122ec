-------------------------------- MODULE Recall --------------------------------
(***************************************************************************)
(* What a search of the memory answers.                                    *)
(*                                                                         *)
(* mcp_server/server.py, search_memory; entity_search.py, which it calls;  *)
(* the springs of the map, which are another search by vectors             *)
(* (graph_layout.py).  Functions of their arguments, like LivingMap: no    *)
(* variable, and MCHost checks the statements at the end.                  *)
(*                                                                         *)
(* The core gives, for each index, its nearest hits, nearest first: pairs  *)
(* [id, score].  Scores are integers, and the texts are left out: a row    *)
(* matches the words of the query or not.                                  *)
(***************************************************************************)
EXTENDS Naturals, FiniteSets, Sequences
LOCAL INSTANCE SequencesExt
LOCAL INSTANCE FiniteSetsExt

CONSTANTS Lots,      \* limit of one answer
          SpringK,   \* _SEMANTIC_K: springs that an entity asks for
          SpringMin  \* _SEMANTIC_MIN_SCORE

RecallAssumption == Lots \in Nat \ {0} /\ SpringK \in Nat \ {0} /\ SpringMin \in Nat

-----------------------------------------------------------------------------
(* search_memory *)

AtMost(limit) == Min({Lots, Max({1, limit})})
Upto(s, limit) == SubSeq(s, 1, Min({limit, Len(s)}))

\* The rows of the hits; the vector of a note that is gone is skipped.
NoteHits(hits, rows) == SelectSeq(hits, LAMBDA h : h.id \in rows)

\* Each list of the core keeps its order, equal scores as well: notes, entities, resources.
ByScore(found) ==
  LET before(i, j) == found[i].score > found[j].score \/ (found[i].score = found[j].score /\ i < j)
      order == SetToSortSeq(DOMAIN found, before)
  IN [k \in DOMAIN found |-> found[order[k]]]

\* m: the index of the notes, their rows, entities, resources and, newest first, the
\* notes and captures whose text matches.  down: the embedder or the core fails.
Answer(m, limit, down) ==
  LET found == NoteHits(Upto(m.index, AtMost(limit)), m.rows)
               \o Upto(m.entities, AtMost(limit)) \o Upto(m.resources, AtMost(limit))
  IN IF down \/ found = <<>>
     THEN [hits |-> Upto(m.text, AtMost(limit)), awake |-> {}]
     ELSE [hits |-> Upto(ByScore(found), AtMost(limit)),
           \* every note that was found is reactivated, shown or not
           awake |-> {h.id : h \in ToSet(NoteHits(Upto(m.index, AtMost(limit)), m.rows))}]

-----------------------------------------------------------------------------
(* semantic_edges: rows is a sequence of ids; near[{a, b}] the similarity of two. *)

SpringsOf(ids, near, a) ==
  LET closer(b, c) == near[{a, b}] > near[{a, c}] \/ (near[{a, b}] = near[{a, c}] /\ b < c)
      others == ids \ {a}
  IN {{a, b} : b \in {x \in others : /\ Cardinality({c \in others : closer(c, x)}) < SpringK
                                     /\ near[{a, x}] >= SpringMin}}

\* Each pair once, in the order of the rows of the query.
SemanticEdges(rows, near) ==
  LET ids == ToSet(rows)
      seen(i) == UNION {SpringsOf(ids, near, rows[j]) : j \in 1..i}
      new(i) == SpringsOf(ids, near, rows[i]) \ seen(i - 1)
  IN IF Len(rows) < 3 THEN {}
     ELSE UNION {{[from |-> rows[i], to |-> CHOOSE b \in e : b # rows[i]] : e \in new(i)} : i \in DOMAIN rows}

-----------------------------------------------------------------------------
(* What they promise. *)

\* "merged into one score-sorted list": nothing that was left out is nearer than what is
\* shown, unless a vector without a note took its place in the index; nothing is shown
\* twice; the words are searched only when the vectors give nothing.
SearchGivesTheNearest(m, limit, down) ==
  LET a == Answer(m, limit, down)
      shown == ToSet(a.hits)
      orphans == Cardinality({i \in DOMAIN m.index : m.index[i].id \notin m.rows})
      known == {h \in ToSet(m.index) : h.id \in m.rows} \cup ToSet(m.entities) \cup ToSet(m.resources)
  IN /\ Len(a.hits) <= AtMost(limit) /\ Len(a.hits) = Cardinality(shown)
     /\ ~down /\ known # {} /\ orphans = 0 =>
          /\ shown \subseteq known
          /\ \A h \in known \ shown : \A s \in shown : s.score >= h.score
          /\ known \ shown # {} => Len(a.hits) = AtMost(limit)
          /\ \A i \in 1..(Len(a.hits) - 1) : a.hits[i].score >= a.hits[i + 1].score
     /\ shown \subseteq ToSet(m.text) \/ ~down
     /\ \A h \in shown : h.id \in m.rows \/ h \notin ToSet(m.index)
     /\ {h.id : h \in shown} \cap m.rows \subseteq a.awake \/ shown \subseteq ToSet(m.text)

\* "the core runs the same rule": whatever the order in which the rows come, the springs
\* are the same, each pair once, between entities that are close enough, and at least one
\* end of each has the other among its SpringK nearest.
SpringsAreOne(rows, other, near) ==
  LET pairs(s) == {{e.from, e.to} : e \in s} IN
  /\ pairs(SemanticEdges(rows, near)) = pairs(SemanticEdges(other, near))
  /\ Cardinality(SemanticEdges(rows, near)) = Cardinality(pairs(SemanticEdges(rows, near)))
  /\ \A p \in pairs(SemanticEdges(rows, near)) : Cardinality(p) = 2 /\ near[p] >= SpringMin
=============================================================================
