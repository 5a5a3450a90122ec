------------------------------ MODULE MCFunctions ------------------------------
(* The components that are functions of their arguments -- the filters and the *)
(* names of the map, the searches, the harness of the classification -- on all *)
(* small arguments.  TLC evaluates the assumptions when it checks MCHost.      *)
EXTENDS Integers, FiniteSets, Sequences

CONSTANT Unset  \* no value

M == INSTANCE LivingMap WITH None <- Unset, TopN <- 2, MinClusterSize <- 2
Q == INSTANCE Recall WITH Lots <- 2, SpringK <- 1, SpringMin <- 1
Y == INSTANCE ParityGate WITH None <- Unset, Window <- 4,
       Size <- [half \in {"note", "graph"} |-> IF half = "note" THEN 8 ELSE 16]

ASSUME FunctionsAssumption == M!MapAssumption /\ Q!RecallAssumption /\ Y!ParityAssumption

\* LivingMap on all graphs of three nodes, all lists of labels and small clouds of points.
Graphs == [nodes : {1..3}, edges : SUBSET {<<1, 2>>, <<2, 3>>, <<3, 1>>}]
Queries == [keep : SUBSET (1..3), focus : {{}, {1}}, isolated : BOOLEAN, pct : {Unset, <<1, 2>>}, max : 1..3]
Entities(labels) == [i \in DOMAIN labels |-> [label |-> labels[i], kind |-> "entity"]]
Lists == {Entities(l) : l \in {<<"a", "b", "x">>, <<"c">>, <<"b", "c">>}}
         \cup {Entities(<<"a">>) \o <<[label |-> "n", kind |-> "note"]>>, <<[label |-> "n", kind |-> "note"], [label |-> "m", kind |-> "note"]>>}
Caches == UNION {[s -> {"old"}] : s \in SUBSET {{"a"}, {"a", "b"}, {"b", "c"}}}
Answers == UNION {[s -> {"new"}] : s \in SUBSET {1, 2}}

ASSUME FiltersAreTrue ==
  \A g \in Graphs, strength \in [1..3 -> 0..1], community \in [1..3 -> 1..2], q \in Queries :
    M!FiltersKeepTheirWord(g, strength, community, q)
ASSUME NamesAreTrue ==
  \A cache \in Caches, members \in [1..2 -> Lists], answer \in Answers : M!NamesFitZones(cache, members, answer)
ASSUME OutlinesAreTrue ==
  \A points \in SUBSET ((1..3) \X (1..3)) : Cardinality(points) <= 5 => M!HullIsOutline(points)

\* Recall on all short lists of hits, and on all similarities of four entities.
Hit(id, score) == [id |-> id, score |-> score]
Hits(a, b) == {<<>>} \cup {<<Hit(a, s)>> : s \in 1..3}
              \cup {<<Hit(a, q[1]), Hit(b, q[2])>> : q \in {p \in (1..3) \X (1..3) : p[1] >= p[2]}}
Memories == [index : Hits("n1", "n2"), rows : SUBSET {"n1", "n2"}, entities : Hits("e1", "e2"),
             resources : Hits("r1", "r2"), text : {<<>>, <<Hit("n1", 0), Hit("c1", 0)>>}]
Similarities == [{{1, 2}, {1, 3}, {1, 4}, {2, 3}, {2, 4}, {3, 4}} -> 0..2]

ASSUME SearchIsTrue ==
  \A m \in Memories, limit \in 0..3, down \in BOOLEAN : Q!SearchGivesTheNearest(m, limit, down)
ASSUME SpringsAreTrue ==
  \A near \in Similarities, other \in {<<1, 2, 3, 4>>, <<4, 2, 3, 1>>} : Q!SpringsAreOne(<<2, 3, 1, 4>>, other, near)

\* ParityGate on all short replies of a model, and on two months around the end of a year.
Memory(text, kind) == [text |-> text, kind |-> kind]
NoteReplies == [memories : {<<>>, <<Memory(Unset, "task")>>, <<Memory("m", Unset), Memory("m", "idea")>>, <<Memory("m", "idea")>>},
                single : {Unset, Memory("s", "task")}, cancels : BOOLEAN, language : {Unset, "fr"}]
GraphEntity(name, facts) == [name |-> name, facts |-> facts]
FactsSaid == [persistence : {Unset, 1, 2, 4}, evidence : {"hedged"}, dates : BOOLEAN]
GraphReplies == [entities : {{}, {GraphEntity("e", <<>>)}, {GraphEntity("e", <<[persistence |-> 2, evidence |-> "hedged", dates |-> FALSE]>>)}},
                 relations : {{}, {{"e", "o"}}}, entries : {{}, {"x"}}, obsoleted : {{}, {"f"}},
                 resources : {{}, {"e"}}, language : {Unset, "en"}]
Reply(tokens, truncated, json) == [failed |-> FALSE, tokens |-> tokens, truncated |-> truncated, json |-> json]
Replies(jsons) == {[failed |-> TRUE, tokens |-> Unset, truncated |-> FALSE, json |-> Unset]}
                  \cup {Reply(n, cut, j) : n \in {Unset, 0, 2, 4}, cut \in BOOLEAN, j \in jsons \cup {Unset}}
Case(guarded, ambiguous, note, graph) == [guarded |-> guarded, ambiguous |-> ambiguous, note |-> note, graph |-> graph]
Whole(json) == Reply(2, FALSE, json)
FewNotes == {n \in NoteReplies : ~n.cancels /\ n.language = "fr" /\ n.single = Unset}
FewGraphs == {g \in GraphReplies : g.language = "en" /\ g.obsoleted = {}}
OneCase == {<<Case(guarded, ambiguous, Whole(n), Whole(g))>> : guarded, ambiguous \in BOOLEAN, n \in NoteReplies, g \in GraphReplies}
           \cup {<<Case(TRUE, ambiguous, n, g)>> : ambiguous \in BOOLEAN,
                 n \in Replies(FewNotes), g \in Replies({r \in FewGraphs : r.relations = {} /\ r.resources = {}})}
SomeCases == {Case(TRUE, ambiguous, n, Whole(g)) : ambiguous \in BOOLEAN,
              n \in {Whole(r) : r \in FewNotes} \cup {Reply(2, TRUE, Unset)}, g \in {r \in FewGraphs : r.entities = {} /\ r.relations = {}}}
Nights == {<<y, m, d>> : y \in {2023, 2024}, m \in {1, 2, 3, 11, 12}, d \in {1, 15, 28}} \cup {<<2024, 1, 31>>, <<2024, 3, 30>>}

ASSUME GateVerdictIsTrue == \A cases \in OneCase \cup (SomeCases \X SomeCases) : Y!GateIsFair(cases)
ASSUME GateHalvesAreTrue ==
  \A n \in NoteReplies, g \in GraphReplies, dates \in [{"note", "graph"} -> {Unset, "old", "new"}] : Y!HalvesAreApart(n, g, dates)
ASSUME GateOrderIsTrue ==
  /\ \A persistence \in 1..5, existing \in BOOLEAN, mentions \in 0..4 : Y!GatesAreOrdered(persistence, existing, mentions)
  /\ \A n \in FewNotes, g \in FewGraphs, first \in {<<>>} \cup {<<f>> : f \in FactsSaid}, f \in FactsSaid :
       Y!MoreIsNotLess(Y!MergeHalves(n, g), GraphEntity("e", first), f)
  /\ \A f \in FactsSaid : Y!FactGate(f) # "asserted"
ASSUME GateDatesAreTrue ==
  \A date, today \in Nights, kind \in {"episode", "event", "task"} :  Y!BareDayLands(date, today, kind)
================================================================================
