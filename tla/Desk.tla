--------------------------------- MODULE Desk ---------------------------------
(***************************************************************************)
(* What the user does with the rows the cycle derived, and where each row  *)
(* is shown.                                                               *)
(*                                                                         *)
(* api/app.py, dream_cycle/validation.py, mcp_server/server.py: relations, *)
(* notes, facts that await validation, project entries and the offers to   *)
(* attach a capture, as gestures; the map, the fiche, the lists and the    *)
(* queues of "A valider", as the operators below that compute what is      *)
(* shown.                                                                  *)
(*                                                                         *)
(* As in Review, a handler that reads its rows before its transaction is a *)
(* Check and a Commit.  A row is None until it exists and again once it is *)
(* deleted.  Left out: texts, predicates, dates, the strength of memories, *)
(* order and limits of lists (LivingMap has the filters of the map).       *)
(***************************************************************************)
EXTENDS Naturals, FiniteSets

CONSTANTS
  Entity,      \* names of entities; a name is also the id of the row it gets
  Project,     \* those whose type is project
  OldProject,  \* a project that exists
  Relation,    \* ids of relations
  Note, Fact,  \* notes, and facts that await validation
  About,       \* About[f]: the name the pending fact f is about
  Entry,       \* ids of project entries, a bound
  FirstEntry,  \* one that exists
  Offer,       \* the projects to which the core proposes to attach a capture
  Handler,     \* bound: requests served at the same time
  MaxRequest,  \* bound: gestures of the user
  None         \* no row

EntityRow == [status : {"active", "pending"}, hidden : BOOLEAN, into : Entity \cup {None}]
RelationRow == [from : Entity, to : Entity, review : {"pending", "confirmed"}]
FactRow == [source : Fact \cup Entry, e : Entity, hidden : BOOLEAN, obsolete : BOOLEAN]
EntryRow == [project : Project, capture : Note \cup Offer \cup Entry]

\* A capture has the name of the note, the entry or the offer that came of it: one of
\* them.  None is neither a row nor what a view shows.
DeskAssumption ==
  /\ OldProject \in Project /\ Project \subseteq Entity /\ FirstEntry \in Entry
  /\ About \in [Fact -> Entity] /\ Offer \subseteq Project
  /\ Fact \cap Entry = {} /\ Relation \cap (Fact \cup Entry) = {}
  /\ Offer \cap (Note \cup Entry) = {} /\ MaxRequest \in Nat
  /\ None \notin Entity /\ None # "pending"
  /\ None \notin EntityRow /\ None \notin RelationRow /\ None \notin EntryRow
  /\ None \notin [entries : SUBSET Entry, facts : SUBSET FactRow]

VARIABLES
  entity,      \* of each name: its row, or None before the entity is born
  birth,       \* status of its creation proposal
  relation, note, asked, fact, entry, offer,
  doing,       \* what each handler has read
  served,      \* gestures so far
  verdicts,    \* history: validation events of each pending fact, by answer
  fate,        \* history of each entry id: unused, kept once it was written, detached by the user
  crossed      \* history: the entries that had changed since a transaction read them, and the
               \* relations written after one of their ends was absorbed

rows == <<entity, birth, relation, note, asked, fact, entry, offer>>
deskVars == <<rows, doing, served, verdicts, fate, crossed>>

Idle == [op |-> "idle"]
Fresh == [status |-> "active", hidden |-> FALSE, into |-> None]
Born == {e \in Entity : entity[e] # None}
Live == {e \in Born : entity[e].into = None}
Drawn == {r \in Relation : relation[r] # None}
Held == {i \in Entry : entry[i] # None}
Unused == {i \in Entry : fate[i] = "unused"}

\* The survivor that answers to a name, aliases included (find_entity, in the core).
Find(e) == IF entity[e] = None THEN None
           ELSE IF entity[e].into = None THEN e ELSE entity[e].into

\* One entity, the others not born or of a type that awaits an answer; what the cycle
\* just wrote: perhaps a relation it doubts, a note it doubts or not, an entry.
Init ==
  /\ \E later \in {None, Fresh, [Fresh EXCEPT !.status = "pending"]} :
       entity = [e \in Entity |-> IF e = OldProject THEN Fresh ELSE later]
  /\ birth = [e \in Entity |-> IF entity[e] = None THEN "pending" ELSE "accepted"]
  /\ \E e \in Born : relation \in
       [Relation -> {None, [from |-> OldProject, to |-> e, review |-> "pending"]}]
  /\ note \in [Note -> [review : {"pending", "confirmed"}, hidden : {FALSE}, mentions : {OldProject}]]
  /\ asked = Fact /\ fact = {}
  /\ entry = [i \in Entry |-> IF i = FirstEntry THEN [project |-> OldProject, capture |-> i] ELSE None]
  /\ offer = [p \in Offer |-> "pending"]
  /\ doing = [h \in Handler |-> Idle] /\ served = 0
  /\ verdicts = [f \in Fact |-> [yes |-> 0, no |-> 0]] /\ crossed = {}
  /\ fate = [i \in Entry |-> IF i = FirstEntry THEN "kept" ELSE "unused"]

Count == served < MaxRequest /\ served' = served + 1

(***************************************************************************)
(* Gestures of one statement or one transaction.                           *)
(***************************************************************************)
\* archive, unarchive: neither looks at the other columns.
HideEntity(e, hidden) ==
  /\ Count /\ entity[e] # None
  /\ entity' = [entity EXCEPT ![e].hidden = hidden]
  /\ UNCHANGED <<birth, relation, note, asked, fact, entry, offer, doing, verdicts, fate, crossed>>

\* Facts, relations and mentions go to the survivor; project entries do not.  Merges of
\* rows that are absorbed already are the subject of EntityMerge.
Merge(absorbed, canonical) ==
  LET to(e) == IF e = absorbed THEN canonical ELSE e IN
  /\ Count /\ {absorbed, canonical} \subseteq Live /\ absorbed # canonical
  /\ entity' = [entity EXCEPT ![absorbed].into = canonical]
  /\ fact' = {[f EXCEPT !.e = to(f.e)] : f \in fact}
  /\ relation' = [r \in Relation |-> IF relation[r] = None THEN None
       ELSE [relation[r] EXCEPT !.from = to(relation[r].from), !.to = to(relation[r].to)]]
  /\ note' = [n \in Note |-> [note[n] EXCEPT !.mentions = to(note[n].mentions)]]
  /\ UNCHANGED <<birth, asked, entry, offer, doing, verdicts, fate, crossed>>

\* The core decides: an entity known under the name by then is completed, not doubled.
AcceptBirth(e) ==
  /\ Count /\ birth[e] = "pending"
  /\ birth' = [birth EXCEPT ![e] = "accepted"]
  /\ entity' = [entity EXCEPT ![e] = IF @ = None THEN Fresh ELSE @]
  /\ UNCHANGED <<relation, note, asked, fact, entry, offer, doing, verdicts, fate, crossed>>

RejectBirth(e) ==
  /\ Count /\ birth[e] = "pending"
  /\ birth' = [birth EXCEPT ![e] = "rejected"]
  /\ UNCHANGED <<entity, relation, note, asked, fact, entry, offer, doing, verdicts, fate, crossed>>

ConfirmRelation(r) ==
  /\ Count /\ relation[r] # None /\ relation[r].review = "pending"
  /\ relation' = [relation EXCEPT ![r].review = "confirmed"]
  /\ UNCHANGED <<entity, birth, note, asked, fact, entry, offer, doing, verdicts, fate, crossed>>

\* Also the refusal of a pending relation.
DeleteRelation(r) ==
  /\ Count /\ relation[r] # None
  /\ relation' = [relation EXCEPT ![r] = None]
  /\ UNCHANGED <<entity, birth, note, asked, fact, entry, offer, doing, verdicts, fate, crossed>>

HideNote(n, hidden) ==
  /\ Count
  /\ note' = [note EXCEPT ![n].hidden = hidden]
  /\ UNCHANGED <<entity, birth, relation, asked, fact, entry, offer, doing, verdicts, fate, crossed>>

\* Its archiving is not looked at: a refused note may be accepted from a stale list.
ConfirmNote(n) ==
  /\ Count /\ note[n].review = "pending"
  /\ note' = [note EXCEPT ![n].review = "confirmed"]
  /\ UNCHANGED <<entity, birth, relation, asked, fact, entry, offer, doing, verdicts, fate, crossed>>

\* archive, unarchive, obsolete, restore.
LifeOfFact(f, column, value) ==
  /\ Count /\ f \in fact
  /\ fact' = (fact \ {f}) \cup {[f EXCEPT ![column] = value]}
  /\ UNCHANGED <<entity, birth, relation, note, asked, entry, offer, doing, verdicts, fate, crossed>>

NewFact(source, e) == [source |-> source, e |-> e, hidden |-> FALSE, obsolete |-> FALSE]

Given(v, confirmed) == IF confirmed THEN [v EXCEPT !.yes = @ + 1] ELSE [v EXCEPT !.no = @ + 1]

\* One transaction, from the app or from an MCP client: an event, the fact on whoever
\* answers to the name -- a shell is created when nobody does -- and one question less.
Validate(f, confirmed) ==
  LET home == IF Find(About[f]) = None THEN About[f] ELSE Find(About[f]) IN
  /\ Count /\ f \in asked
  /\ asked' = asked \ {f} /\ verdicts' = [verdicts EXCEPT ![f] = Given(@, confirmed)]
  /\ IF confirmed
     THEN /\ entity' = [entity EXCEPT ![home] = IF @ = None THEN Fresh ELSE @]
          /\ fact' = fact \cup {NewFact(f, home)}
     ELSE UNCHANGED <<entity, fact>>
  /\ UNCHANGED <<birth, relation, note, entry, offer, doing, fate, crossed>>

(***************************************************************************)
(* Gestures that read first.                                               *)
(***************************************************************************)
Begin(h, job) ==
  /\ Count /\ doing[h] = Idle
  /\ doing' = [doing EXCEPT ![h] = job]
  /\ UNCHANGED <<rows, verdicts, fate, crossed>>

CheckCreate(h, r, a, b) ==
  /\ {a, b} \subseteq Live
  /\ Begin(h, [op |-> "create", r |-> r, from |-> a, to |-> b])

\* The capture of a note, an entry or an offer comes along; a merged project will do.
CheckPromote(h, n, p) == Begin(h, [op |-> "promote", n |-> n, p |-> p])

CheckMove(h, i, p) ==
  /\ i \in Held /\ p \in Project \cap Born
  /\ Begin(h, [op |-> "move", i |-> i, read |-> entry[i], p |-> p])

\* Not onto its own project, nor onto one that has an entry of the same capture.
CheckAttach(h, i, p) ==
  /\ i \in Held /\ p \in Project \cap Born
  /\ \A j \in Held : entry[j].capture = entry[i].capture => entry[j].project # p
  /\ Begin(h, [op |-> "attach", i |-> i, read |-> entry[i], p |-> p])

CheckDetach(h, i) ==
  /\ i \in Held
  /\ Begin(h, [op |-> "detach", i |-> i, read |-> entry[i]])

CheckReclassify(h, i, e) ==
  /\ i \in Held /\ e \in Born
  /\ Begin(h, [op |-> "reclassify", i |-> i, read |-> entry[i], e |-> e])

CheckAcceptOffer(h, p) ==
  /\ offer[p] = "pending" /\ p \in Born
  /\ Begin(h, [op |-> "accept offer", p |-> p])

CheckRejectOffer(h, p) ==
  /\ offer[p] = "pending"
  /\ Begin(h, [op |-> "reject offer", p |-> p])

-----------------------------------------------------------------------------
\* An entry that another request changed after this one read it.
Crossing(job) == crossed' = IF entry[job.i] = job.read THEN crossed ELSE crossed \cup {job.i}

\* INSERT OR IGNORE on the id of the client; the review status is confirmed by default.
Create(job) ==
  /\ job.op = "create"
  /\ relation' = [relation EXCEPT ![job.r] =
       IF @ = None THEN [from |-> job.from, to |-> job.to, review |-> "confirmed"] ELSE @]
  /\ crossed' = IF {job.from, job.to} \subseteq Live THEN crossed ELSE crossed \cup {job.r}
  /\ UNCHANGED <<entity, birth, note, asked, fact, entry, offer, verdicts, fate>>

Insert(p, capture) ==
  \E j \in Unused : /\ entry' = [entry EXCEPT ![j] = [project |-> p, capture |-> capture]]
                   /\ fate' = [fate EXCEPT ![j] = "kept"]

\* add_project_entry: an entry of its own, whatever entries the capture already has.  The
\* core finds the project by its name: the row that bears it, or its survivor if that one
\* is a project.
AddEntry(p, capture) == \E q \in {p, Find(p)} \cap Project : Insert(q, capture)

\* The project is created or reused by its name; the note is put away.
Promote(job) ==
  /\ job.op = "promote"
  /\ entity' = [entity EXCEPT ![job.p] = IF @ = None THEN Fresh ELSE @]
  /\ AddEntry(job.p, job.n)
  /\ note' = [note EXCEPT ![job.n].hidden = TRUE]
  /\ UNCHANGED <<birth, relation, asked, fact, offer, verdicts, crossed>>

\* Answers "moved" whether or not the entry is still there.
Move(job) ==
  /\ job.op = "move"
  /\ entry' = [entry EXCEPT ![job.i] = IF @ = None THEN None ELSE [@ EXCEPT !.project = job.p]]
  /\ Crossing(job)
  /\ UNCHANGED <<entity, birth, relation, note, asked, fact, offer, verdicts, fate>>

Attach(job) ==
  /\ job.op = "attach"
  /\ Insert(job.p, job.read.capture)
  /\ UNCHANGED <<entity, birth, relation, note, asked, fact, offer, verdicts, crossed>>

Detach(job) ==
  /\ job.op = "detach"
  /\ entry' = [entry EXCEPT ![job.i] = None]
  /\ fate' = [fate EXCEPT ![job.i] = "detached"]
  /\ Crossing(job)
  /\ UNCHANGED <<entity, birth, relation, note, asked, fact, offer, verdicts>>

\* Mutant: the entry is left beside the fact it became.
ReclassifyOnly(job) ==
  /\ job.op = "reclassify"
  /\ fact' = fact \cup {NewFact(job.i, job.e)}
  /\ Crossing(job)
  /\ UNCHANGED <<entity, birth, relation, note, asked, entry, offer, verdicts, fate>>

\* On any row of the entity, an absorbed one included.
Reclassify(job) ==
  /\ job.op = "reclassify"
  /\ fact' = fact \cup {NewFact(job.i, job.e)}
  /\ entry' = [entry EXCEPT ![job.i] = None]
  /\ Crossing(job)
  /\ UNCHANGED <<entity, birth, relation, note, asked, offer, verdicts, fate>>

AcceptOffer(job) ==
  /\ job.op = "accept offer"
  /\ AddEntry(job.p, job.p)
  /\ offer' = [offer EXCEPT ![job.p] = "accepted"]
  /\ UNCHANGED <<entity, birth, relation, note, asked, fact, verdicts, crossed>>

RejectOffer(job) ==
  /\ job.op = "reject offer"
  /\ offer' = [offer EXCEPT ![job.p] = "rejected"]
  /\ UNCHANGED <<entity, birth, relation, note, asked, fact, entry, verdicts, fate, crossed>>

Commit(h) ==
  /\ \/ Create(doing[h]) \/ Promote(doing[h]) \/ Move(doing[h]) \/ Attach(doing[h])
     \/ Detach(doing[h]) \/ Reclassify(doing[h]) \/ AcceptOffer(doing[h]) \/ RejectOffer(doing[h])
  /\ doing' = [doing EXCEPT ![h] = Idle]
  /\ UNCHANGED served

Check(h) ==
  \/ \E r \in Relation, a, b \in Entity : CheckCreate(h, r, a, b)
  \/ \E n \in Note, p \in Project : CheckPromote(h, n, p)
  \/ \E i \in Entry : \/ \E p \in Project : CheckMove(h, i, p) \/ CheckAttach(h, i, p)
                      \/ CheckDetach(h, i)
                      \/ \E e \in Entity : CheckReclassify(h, i, e)
  \/ \E p \in Offer : CheckAcceptOffer(h, p) \/ CheckRejectOffer(h, p)

-----------------------------------------------------------------------------
(***************************************************************************)
(* What is shown.                                                          *)
(***************************************************************************)
Shown(e, archivedToo) ==
  /\ e \in Live /\ entity[e].status = "active"
  /\ archivedToo \/ ~entity[e].hidden

Settled(r) == r \in Drawn /\ relation[r].review # "pending"

\* GET /graph before its filters: entities, notes, relations.
MapEntities(archivedToo) == {e \in Entity : Shown(e, archivedToo)}
MapNotes == {n \in Note : ~note[n].hidden /\ note[n].review # "pending"}
MapEdges(archivedToo) ==
  {r \in Relation : /\ Settled(r)
                    /\ {relation[r].from, relation[r].to} \subseteq MapEntities(archivedToo)}

\* GET /entity: 410 for an absorbed row, 404 for none; the relations of both sides.
Fiche(e) ==
  IF e \notin Live THEN None
  ELSE [facts |-> {f \in fact : f.e = e /\ ~f.hidden /\ ~f.obsolete},
        relations |-> {r \in Relation : Settled(r) /\ relation[r].from = e},
        incoming |-> {r \in Relation : Settled(r) /\ relation[r].to = e}]

ProjectsList == {p \in Project : Shown(p, FALSE)}
ProjectState(p) ==
  IF p \notin Project \cap Born THEN None
  ELSE [entries |-> {i \in Held : entry[i].project = p},
        facts |-> {f \in fact : f.e = p /\ ~f.hidden /\ ~f.obsolete}]

\* GET /atomic-notes, whose default view hides what awaits validation.
NotesList(review) ==
  {n \in Note : /\ ~note[n].hidden
                /\ IF review = None THEN note[n].review # "pending" ELSE note[n].review = review}

\* The queues of "A valider".
RelationsPending ==
  {r \in Drawn : relation[r].review = "pending" /\ {relation[r].from, relation[r].to} \subseteq Born}
PendingFacts == asked
BirthQueue(status) == {e \in Entity : birth[e] = status}
OfferQueue(status) == {p \in Offer : offer[p] = status}

\* The facts that came out of a capture, whatever became of them.
Generated(capture) == {f \in fact : f.source = capture}

\* What an MCP client is told of a name: all facts and outgoing relations of the row that
\* bears it, tombstone or not, the relations that await validation among them.
McpEntity(e) ==
  IF entity[e] = None THEN None
  ELSE [facts |-> {f \in fact : f.e = e},
        relations |-> {r \in Drawn : relation[r].from = e}]

-----------------------------------------------------------------------------
Next ==
  \/ \E e \in Entity :
       \/ \E hidden \in BOOLEAN : HideEntity(e, hidden)
       \/ \E c \in Entity : Merge(e, c)
       \/ AcceptBirth(e) \/ RejectBirth(e)
  \/ \E r \in Relation : ConfirmRelation(r) \/ DeleteRelation(r)
  \/ \E n \in Note : ConfirmNote(n) \/ \E hidden \in BOOLEAN : HideNote(n, hidden)
  \/ \E f \in fact, column \in {"hidden", "obsolete"}, value \in BOOLEAN : LifeOfFact(f, column, value)
  \/ \E f \in Fact, confirmed \in BOOLEAN : Validate(f, confirmed)
  \/ \E h \in Handler : Check(h) \/ Commit(h)

Spec == Init /\ [][Next]_deskVars

-----------------------------------------------------------------------------
TypeOK ==
  /\ entity \in [Entity -> {None} \cup EntityRow]
  /\ birth \in [Entity -> {"pending", "accepted", "rejected"}]
  /\ relation \in [Relation -> {None} \cup RelationRow]
  /\ note \in [Note -> [review : {"pending", "confirmed"}, hidden : BOOLEAN, mentions : Entity]]
  /\ asked \subseteq Fact
  /\ fact \subseteq FactRow
  /\ entry \in [Entry -> EntryRow \cup {None}]
  /\ offer \in [Offer -> {"pending", "accepted", "rejected"}]
  /\ served \in 0..MaxRequest
  /\ verdicts \in [Fact -> [yes : Nat, no : Nat]]
  /\ fate \in [Entry -> {"unused", "kept", "detached"}] /\ crossed \subseteq Entry \cup Relation

-----------------------------------------------------------------------------
(***************************************************************************)
(* Each row in its place.                                                  *)
(***************************************************************************)

\* A relation that awaits validation is in its queue.  A confirmed one joins two living
\* entities, to which the merges brought it, so that the fiches of both show it and the
\* map as soon as both are active: all but one created from ends read before one of them
\* was absorbed.
RelationsInPlace ==
  \A r \in Drawn :
    LET a == relation[r].from
        b == relation[r].to
    IN /\ relation[r].review = "pending" => r \in RelationsPending
       /\ Settled(r) /\ r \notin crossed =>
            /\ {a, b} \subseteq Live /\ r \in Fiche(a).relations /\ r \in Fiche(b).incoming
            /\ entity[a].status = "active" /\ entity[b].status = "active" => r \in MapEdges(TRUE)

\* A note that is listed, drawn or asked about mentions a living entity.
NotesInPlace ==
  \A n \in NotesList(None) \cup NotesList("pending") \cup MapNotes : note[n].mentions \in Live

\* A pending fact is asked until one single answer, from the app or from an MCP client:
\* a yes is one fact for good, on a row that exists, and a no is none.  (Whether that row
\* is a living one is up to the find_entity of the core, and to the entity the user picked.)
FactsInPlace ==
  /\ \A f \in Fact : /\ verdicts[f].yes + verdicts[f].no = IF f \in PendingFacts THEN 0 ELSE 1
                     /\ Cardinality(Generated(f)) = verdicts[f].yes
  /\ \A x \in fact : x.e \in Born /\ x \in McpEntity(x.e).facts

\* Until the user detaches it, an entry is there or is a fact, whatever requests overlap
\* on it.  It is one of the two, once, and detached is gone, unless a transaction wrote
\* it after another had changed it: overlapping requests do turn one entry into two
\* facts, or into a fact that was detached.  An offer that awaits has left no entry.  (Two
\* attaches that overlap, and an attach and an offer, leave two entries of one capture.)
EntriesInPlace ==
  /\ \A p \in OfferQueue("pending"), i \in Held : entry[i].capture # p
  /\ \A i \in Entry : fate[i] = "kept" => i \in Held \/ Generated(i) # {}
  /\ \A i \in Entry \ (Unused \cup crossed) :
       (IF i \in Held THEN 1 ELSE 0) + Cardinality(Generated(i)) = IF fate[i] = "detached" THEN 0 ELSE 1

\* A name whose birth was accepted has a row; an entry is in a project that opens, and
\* that is on the list of projects when it is shown.  (One absorbed, archived or of a
\* type that awaits an answer is not: its entries open by their project alone.)
NoDeadEnd ==
  /\ BirthQueue("accepted") \subseteq Born
  /\ \A i \in Held : LET p == entry[i].project IN
       ProjectState(p) # None /\ (Shown(p, FALSE) => p \in ProjectsList)

\* What gestures, answers and merges that cross one another keep of each row, with the
\* exceptions its part names.
EachInItsPlace == RelationsInPlace /\ NotesInPlace /\ FactsInPlace /\ EntriesInPlace /\ NoDeadEnd
=============================================================================
