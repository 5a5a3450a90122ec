------------------------------ MODULE ParityGate ------------------------------
(***************************************************************************)
(* The harness that says whether a model may classify the captures.        *)
(*                                                                         *)
(* scripts/parity: split.py asks the two halves of the classification and  *)
(* merges them, gate.py gives the verdict, score.py says again where the   *)
(* core would put a fact, an entity, a date.  Functions of their           *)
(* arguments, like LivingMap and Recall: no variable, and MCHost checks    *)
(* the statements at the end.                                              *)
(*                                                                         *)
(* Confidences are in hundredths, a name or a text is a value, a date is   *)
(* <<year, month, day>>.  Left out: the prices, the prints, and the scores *)
(* of the second stage.                                                    *)
(***************************************************************************)
EXTENDS Integers, FiniteSets, Sequences
LOCAL INSTANCE FiniteSetsExt
LOCAL INSTANCE SequencesExt

CONSTANTS
  Window,  \* num_ctx
  Size,    \* Size[half]: characters of its prompt
  None

ParityAssumption == Window \in Nat \ {0} /\ Size \in [{"note", "graph"} -> Nat]

-----------------------------------------------------------------------------
(* split.py *)

\* dates[half]: the DATES block that its prompt carries.  None: the harness stops.
System(half, dates) ==
  IF dates["note"] = None \/ dates["note"] # dates["graph"] THEN None
  ELSE <<half, dates[half]>> \o (IF half = "graph" THEN <<"types", "projects">> ELSE <<>>) \o <<"author">>

\* A truncated output is no JSON, whatever it holds.
Parsed(reply) == IF reply.truncated THEN None ELSE reply.json

\* The lists of the graph come from its half only, the language from the note if it says one.
MergeHalves(note, graph) ==
  LET of(half, field, empty) == IF half = None THEN empty ELSE half[field] IN
  IF note = None /\ graph = None THEN None
  ELSE [memories |-> of(note, "memories", <<>>), single |-> of(note, "single", None),
        cancels |-> of(note, "cancels", FALSE),
        language |-> IF of(note, "language", None) # None THEN note.language ELSE of(graph, "language", None),
        entities |-> of(graph, "entities", {}), relations |-> of(graph, "relations", {}),
        entries |-> of(graph, "entries", {}), obsoleted |-> of(graph, "obsoleted", {}),
        resources |-> of(graph, "resources", {})]

-----------------------------------------------------------------------------
(* score.py *)

\* The list, each text once, or the fields in the singular when there is no list.
Souvenirs(p) ==
  LET said(m) == [text |-> m.text, kind |-> IF m.kind = None THEN "note" ELSE m.kind]
      list == p.memories
      first(i) == list[i].text # None /\ \A j \in 1..(i - 1) : list[j].text # list[i].text
  IN IF list # <<>> THEN {said(list[i]) : i \in {k \in DOMAIN list : first(k)}}
     ELSE IF p.single = None \/ p.single.text = None THEN {} ELSE {said(p.single)}

\* rien_garde: nothing of what the core would keep.
NothingKept(p) ==
  /\ Souvenirs(p) = {} /\ ~p.cancels
  /\ p.relations = {} /\ p.entries = {} /\ p.resources = {} /\ p.obsoleted = {}
  /\ \A e \in p.entities : e.facts = <<>>

Confidence(persistence, evidence, existing, mentions) ==
  LET base == CASE evidence = "hedged" -> 65 [] evidence = "implicit" -> 40 [] OTHER -> 92
      bonus == (IF existing THEN 5 ELSE 0) + Min({2 * mentions, 5})
               + CASE persistence = 5 -> 20 [] persistence = 4 -> 15 [] persistence = 3 -> 5
                   [] persistence = 1 -> -10 [] OTHER -> 0
      score == IF evidence = "hedged" THEN Min({base + bonus, 84}) ELSE base + bonus
  IN Max({0, Min({100, score})})

\* A persistence that is not given counts for 3.
Persistence(f) == IF f.persistence = None THEN 3 ELSE f.persistence
FactGate(f) ==
  LET c == Confidence(Persistence(f), f.evidence, FALSE, 1)
  IN IF c > 85 THEN "asserted" ELSE IF c >= 50 THEN "proposed" ELSE "in review"

\* Linked, or strong enough: one fact alone must be stronger, and more than a date.
CreationGate(p, e) ==
  LET strongest == Max({Persistence(e.facts[i]) : i \in DOMAIN e.facts})
      threshold == IF Len(e.facts) <= 1 THEN 4 ELSE 2
      linked == (\E r \in p.relations : e.name \in r) \/ e.name \in p.resources
      known == /\ e.facts # <<>> /\ strongest >= threshold
               /\ ~(Len(e.facts) = 1 /\ e.facts[1].dates)
  IN IF linked \/ known THEN "created" ELSE IF Souvenirs(p) # {} THEN "proposed" ELSE "ignored"

Days(y, m) == CASE m \in {4, 6, 9, 11} -> 30
                [] m = 2 -> IF (y % 4 = 0 /\ y % 100 # 0) \/ y % 400 = 0 THEN 29 ELSE 28
                [] OTHER -> 31
Upto(a, b) == a[1] < b[1] \/ (a[1] = b[1] /\ (a[2] < b[2] \/ (a[2] = b[2] /\ a[3] <= b[3])))

\* A day without a month goes to the side that the kind opens, when it exists there.
SnapBareDay(date, today, kind, monthSaid) ==
  LET past == kind = "episode"
      y == IF past /\ date[2] = 1 THEN date[1] - 1 ELSE IF ~past /\ date[2] = 12 THEN date[1] + 1 ELSE date[1]
      m == IF past THEN (IF date[2] = 1 THEN 12 ELSE date[2] - 1) ELSE (date[2] % 12) + 1
  IN IF kind \notin {"episode", "event", "task"} \/ monthSaid \/ Upto(date, today) = past
        \/ date[3] > Days(y, m)
     THEN date ELSE <<y, m, date[3]>>

-----------------------------------------------------------------------------
(* gate.py *)

\* What condemns a half.
HalfFails(half, reply) ==
  \/ reply.failed
  \/ reply.tokens # None /\ (reply.tokens >= Window \/ reply.tokens < Size[half] \div 8)
  \/ Parsed(reply) = None

\* Only a note, an entry, a fact or a relation is a durable trace here.
Blocking(case) ==
  LET p == MergeHalves(Parsed(case.note), Parsed(case.graph)) IN
  \/ HalfFails("note", case.note) \/ HalfFails("graph", case.graph)
  \/ \E m \in Souvenirs(p) : m.kind \notin {"note", "task", "event", "episode"}
  \/ /\ case.guarded
     /\ Souvenirs(p) = {} /\ p.entries = {} /\ p.relations = {}
     /\ \A e \in p.entities : e.facts = <<>>

\* The cases played, up to the first vice unless all of them are asked for; an ambiguous
\* case never counts.
Blockers(cases, failFast) ==
  LET vices == {i \in DOMAIN cases : Blocking(cases[i]) /\ ~cases[i].ambiguous}
  IN IF failFast /\ vices # {} THEN {Min(vices)} ELSE vices
Go(cases, failFast) == Blockers(cases, failFast) = {}

-----------------------------------------------------------------------------
(* What they promise. *)

\* "Rendre un NO-GO en minutes": stopping at the first vice changes no verdict, an
\* ambiguous case neither; and after a GO every other case was asked whole, answered by
\* both halves, and left something that the core keeps.
GateIsFair(cases) ==
  LET clear == SelectSeq(cases, LAMBDA c : ~c.ambiguous) IN
  /\ Go(cases, TRUE) = Go(cases, FALSE) /\ Go(cases, TRUE) = Go(clear, TRUE)
  /\ Go(cases, TRUE) => \A i \in DOMAIN clear :
       LET p == MergeHalves(Parsed(clear[i].note), Parsed(clear[i].graph)) IN
       /\ ~clear[i].note.truncated /\ ~clear[i].graph.truncated
       /\ p # None /\ p.memories = clear[i].note.json.memories /\ p.entities = clear[i].graph.json.entities
       /\ clear[i].guarded => ~NothingKept(p)

\* "une seule moitie perdue laisse l'autre exploitable": the loss of a half takes nothing of
\* what the other says, and neither is asked with a calendar that is not the other's.
HalvesAreApart(note, graph, dates) ==
  /\ LET both == MergeHalves(note, graph) IN
     /\ both.memories = MergeHalves(note, None).memories
     /\ both.entities = MergeHalves(None, graph).entities /\ both.resources = MergeHalves(None, graph).resources
     /\ both.language \in {MergeHalves(note, None).language, MergeHalves(None, graph).language}
     /\ NothingKept(both) = (NothingKept(MergeHalves(note, None)) /\ NothingKept(MergeHalves(None, graph)))
  /\ (System("note", dates) = None) = (System("graph", dates) = None)
  /\ System("note", dates) # None => System("note", dates)[2] = System("graph", dates)[2]

\* What is said with reserve is never asserted, however lasting, known or repeated; and
\* more persistence, evidence or mentions never puts a fact in a worse place.
GatesAreOrdered(persistence, existing, mentions) ==
  LET c(p, e, x, n) == Confidence(p, e, x, n) IN
  /\ c(persistence, "hedged", existing, mentions) <= 85
  /\ c(persistence, "explicit", existing, mentions) >= c(persistence, "hedged", existing, mentions)
  /\ c(persistence, "hedged", existing, mentions) >= c(persistence, "implicit", existing, mentions)
  /\ \A e \in {"explicit", "hedged", "implicit"} :
       /\ persistence < 5 => c(persistence, e, existing, mentions) <= c(persistence + 1, e, existing, mentions)
       /\ c(persistence, e, existing, mentions) <= c(persistence, e, TRUE, mentions + 1)

\* One more fact never unmakes an entity that was created or proposed.
MoreIsNotLess(p, e, fact) ==
  LET rank(x) == CASE x = "ignored" -> 0 [] x = "proposed" -> 1 [] OTHER -> 2
  IN rank(CreationGate(p, e)) <= rank(CreationGate(p, [e EXCEPT !.facts = Append(@, fact)]))

\* A day of this month ends up before tomorrow for an episode and after today for the
\* rest, keeps its number, exists, and moves by a month at most: it stays on the wrong
\* side only when the other month has no such day.
BareDayLands(date, today, kind) ==
  LET snapped == SnapBareDay(date, today, kind, FALSE)
      months(d) == 12 * d[1] + d[2]
  IN /\ snapped[3] = date[3] /\ snapped[3] <= Days(snapped[1], snapped[2]) /\ snapped[2] \in 1..12
     /\ months(snapped) - months(date) \in {-1, 0, 1}
     /\ months(date) = months(today) /\ date[3] <= 28 => (Upto(snapped, today) <=> kind = "episode")
=============================================================================
