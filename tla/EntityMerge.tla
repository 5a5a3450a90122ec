----------------------------- MODULE EntityMerge -----------------------------
(***************************************************************************)
(* Merging duplicate entities, and the requests that name an entity.       *)
(*                                                                         *)
(* api/app.py: merge_proposal_accept and _reroute_to_canonical,            *)
(* merge_proposal_reject, the relation endpoints, the project-entry        *)
(* endpoints and inbox_reprocess.  The core proposes that two entities are *)
(* one; the user accepts, choosing the side that survives, or rejects.     *)
(* Nothing is deleted: the absorbed row stays as a tombstone that names    *)
(* its survivor, and is hidden from the lists, the search and the graph.   *)
(*                                                                         *)
(* Most handlers read first, outside any transaction, and write in one     *)
(* transaction afterwards.  FastAPI serves them on threads, so other       *)
(* requests commit in between: such a handler is a Check and a Commit, and *)
(* `doing` holds what the check has read.                                  *)
(*                                                                         *)
(* Names, types, aliases and notes are left out: an entity is its id.      *)
(***************************************************************************)
EXTENDS Naturals, FiniteSets

CONSTANTS
  Entity,    \* rows of `entities`, all created already
  Fact,      \* ids of facts
  Link,      \* ids of relations
  Entry,     \* ids of project entries
  Capture,   \* captures the rows derive from
  Source,    \* the capture each fact, relation and entry derives from
  Proposal,  \* merge proposals the core may raise
  Sides,     \* the two entities each proposal is about
  Handler,   \* bound: requests served at the same time
  None       \* NULL

ASSUME ProposalAssumption ==
  \A p \in Proposal : \E a, b \in Entity : a # b /\ Sides[p] = {a, b}
ASSUME NoneAssumption == None \notin Entity
ASSUME SourceAssumption == Source \in [Fact \cup Link \cup Entry -> Capture]

VARIABLES
  merged,    \* merged_into_id of each entity
  status,    \* of each proposal
  home,      \* entity_id of each fact, None when there is no such row
  from, to,  \* entity_from and entity_to of each relation, None when there is no such row
  project,   \* project_id of each project entry, None when there is no such row
  doing,     \* what each handler has read and is about to write
  staleId    \* history: a transaction has acted on an entity that was absorbed by then

vars == <<merged, status, home, from, to, project, doing, staleId>>
rowVars == <<home, from, to, project>>

Idle == [op |-> "idle"]
Job == {Idle}
  \cup [op : {"accept"}, p : Proposal, absorbed : Entity, canonical : Entity]
  \cup [op : {"reject"}, p : Proposal]
  \cup [op : {"relate"}, l : Link, a : Entity, b : Entity]
  \cup [op : {"attach"}, n : Entry, e : Entity]
  \cup [op : {"reclassify"}, n : Entry, f : Fact, e : Entity]

Live(e) == merged[e] = None
LiveEntities == {e \in Entity : Live(e)}

\* The transaction acts on these ids, which the handler read earlier.
ActsOn(S) == staleId' = (staleId \/ \E e \in S : ~Live(e))

-----------------------------------------------------------------------------
Init ==
  /\ merged = [e \in Entity |-> None]
  /\ status = [p \in Proposal |-> "absent"]
  /\ home = [f \in Fact |-> None]
  /\ from = [l \in Link |-> None] /\ to = [l \in Link |-> None]
  /\ project = [n \in Entry |-> None]
  /\ doing = [h \in Handler |-> Idle]
  /\ staleId = FALSE

(***************************************************************************)
(* The core, in transactions of its own: the cycle routes a capture, or a  *)
(* validated fact finds its entity, by name and among the survivors; the   *)
(* scan of a new entity proposes a merge with one it resembles.            *)
(***************************************************************************)
RouteFact(f, e) ==
  /\ home[f] = None /\ Live(e)
  /\ home' = [home EXCEPT ![f] = e]
  /\ UNCHANGED <<merged, status, from, to, project, doing, staleId>>

RouteRelation(l, a, b) ==
  /\ from[l] = None /\ Live(a) /\ Live(b)
  /\ from' = [from EXCEPT ![l] = a] /\ to' = [to EXCEPT ![l] = b]
  /\ UNCHANGED <<merged, status, home, project, doing, staleId>>

RouteEntry(n, e) ==
  /\ project[n] = None /\ Live(e)
  /\ project' = [project EXCEPT ![n] = e]
  /\ UNCHANGED <<merged, status, home, from, to, doing, staleId>>

Propose(p) ==
  /\ status[p] = "absent"
  /\ \A e \in Sides[p] : Live(e)
  /\ status' = [status EXCEPT ![p] = "pending"]
  /\ UNCHANGED <<merged, rowVars, doing, staleId>>

(***************************************************************************)
(* The checks.                                                             *)
(***************************************************************************)
Begin(h, job) ==
  /\ doing[h] = Idle
  /\ doing' = [doing EXCEPT ![h] = job]
  /\ UNCHANGED <<merged, status, rowVars, staleId>>

\* The proposal must be pending and the survivor one of its sides; whether a
\* side has been absorbed meanwhile is not looked at.
CheckAccept(h, p, canonical) ==
  /\ status[p] = "pending"
  /\ canonical \in Sides[p]
  /\ \E absorbed \in Sides[p] \ {canonical} :
       Begin(h, [op |-> "accept", p |-> p, absorbed |-> absorbed, canonical |-> canonical])

CheckReject(h, p) ==
  /\ status[p] = "pending"
  /\ Begin(h, [op |-> "reject", p |-> p])

\* Both ends exist and are not absorbed.
CheckRelate(h, l, a, b) ==
  /\ Live(a) /\ Live(b)
  /\ Begin(h, [op |-> "relate", l |-> l, a |-> a, b |-> b])

\* `new` is the copy to be written: the target has no entry of that capture yet.
CheckAttach(h, n, new, e) ==
  /\ project[n] \notin {None, e}
  /\ project[new] = None /\ Source[new] = Source[n]
  /\ \A m \in Entry : Source[m] = Source[n] => project[m] # e
  /\ Begin(h, [op |-> "attach", n |-> new, e |-> e])

CheckReclassify(h, n, f, e) ==
  /\ project[n] # None
  /\ Source[f] = Source[n]
  /\ Begin(h, [op |-> "reclassify", n |-> n, f |-> f, e |-> e])

(***************************************************************************)
(* The transactions.                                                       *)
(***************************************************************************)
Moved(col, absorbed, canonical) ==
  [x \in DOMAIN col |-> IF col[x] = absorbed THEN canonical ELSE col[x]]

\* Mutant: the relations that lead to the absorbed entity stay.
RerouteOutgoingOnly(absorbed, canonical) ==
  /\ home' = Moved(home, absorbed, canonical)
  /\ from' = Moved(from, absorbed, canonical)
  /\ UNCHANGED <<to, project>>

\* _reroute_to_canonical: facts and both ends of the relations, not the
\* project entries.
Reroute(absorbed, canonical) ==
  /\ home' = Moved(home, absorbed, canonical)
  /\ from' = Moved(from, absorbed, canonical)
  /\ to' = Moved(to, absorbed, canonical)
  /\ UNCHANGED project

\* Mutant: the absorbed entity is not marked.
AcceptUnmarked(job) ==
  /\ job.op = "accept"
  /\ Reroute(job.absorbed, job.canonical)
  /\ status' = [status EXCEPT ![job.p] = "accepted"]
  /\ ActsOn({job.absorbed, job.canonical})
  /\ UNCHANGED merged

\* Whatever the proposal and the two entities have become since the check.
Accept(job) ==
  /\ job.op = "accept"
  /\ Reroute(job.absorbed, job.canonical)
  /\ merged' = [merged EXCEPT ![job.absorbed] = job.canonical]
  /\ status' = [status EXCEPT ![job.p] = "accepted"]
  /\ ActsOn({job.absorbed, job.canonical})

\* Mutant: a word of its own for the answer.
RejectAsRefused(job) ==
  /\ job.op = "reject"
  /\ status' = [status EXCEPT ![job.p] = "refused"]
  /\ UNCHANGED <<merged, rowVars, staleId>>

Reject(job) ==
  /\ job.op = "reject"
  /\ status' = [status EXCEPT ![job.p] = "rejected"]
  /\ UNCHANGED <<merged, rowVars, staleId>>

\* INSERT OR IGNORE: a relation with that id stays as it is.
Relate(job) ==
  /\ job.op = "relate"
  /\ IF from[job.l] = None
     THEN /\ from' = [from EXCEPT ![job.l] = job.a]
          /\ to' = [to EXCEPT ![job.l] = job.b]
          /\ ActsOn({job.a, job.b})
     ELSE UNCHANGED <<from, to, staleId>>
  /\ UNCHANGED <<merged, status, home, project>>

\* The id of the copy is drawn at random: nothing else has taken it.
Attach(job) ==
  /\ job.op = "attach"
  /\ project[job.n] = None
  /\ project' = [project EXCEPT ![job.n] = job.e]
  /\ ActsOn({job.e})
  /\ UNCHANGED <<merged, status, home, from, to>>

\* insert_fact draws an id, or reinforces the fact that says the same; then the
\* entry goes.
Reclassify(job) ==
  /\ job.op = "reclassify"
  /\ \/ home[job.f] = None /\ home' = [home EXCEPT ![job.f] = job.e]
     \/ (\E f \in Fact : home[f] = job.e) /\ UNCHANGED home
  /\ project' = [project EXCEPT ![job.n] = None]
  /\ ActsOn({job.e})
  /\ UNCHANGED <<merged, status, from, to>>

Commit(h) ==
  /\ \/ Accept(doing[h]) \/ Reject(doing[h]) \/ Relate(doing[h])
     \/ Attach(doing[h]) \/ Reclassify(doing[h])
  /\ doing' = [doing EXCEPT ![h] = Idle]

\* The database is busy, or the connection drops: nothing is written.
GiveUp(h) ==
  /\ doing[h] # Idle
  /\ doing' = [doing EXCEPT ![h] = Idle]
  /\ UNCHANGED <<merged, status, rowVars, staleId>>

(***************************************************************************)
(* Requests whose one statement finds its rows by itself: what they read   *)
(* before it only picks the error to answer.                               *)
(***************************************************************************)

\* The target is any project, absorbed or not.
MoveEntry(n, e) ==
  /\ project[n] # None
  /\ project' = [project EXCEPT ![n] = e]
  /\ ActsOn({e})
  /\ UNCHANGED <<merged, status, home, from, to, doing>>

Detach(n) ==
  /\ project[n] # None
  /\ project' = [project EXCEPT ![n] = None]
  /\ UNCHANGED <<merged, status, home, from, to, doing, staleId>>

\* The rows a capture gave are deleted; the cycle will route it again.
Reprocess(c) ==
  LET Kept(col) == [x \in DOMAIN col |-> IF Source[x] = c THEN None ELSE col[x]] IN
  /\ home' = Kept(home) /\ from' = Kept(from) /\ to' = Kept(to) /\ project' = Kept(project)
  /\ UNCHANGED <<merged, status, doing, staleId>>

DeleteRelation(l) ==
  /\ from[l] # None
  /\ from' = [from EXCEPT ![l] = None] /\ to' = [to EXCEPT ![l] = None]
  /\ UNCHANGED <<merged, status, home, project, doing, staleId>>

-----------------------------------------------------------------------------
Core == \/ \E f \in Fact, e \in Entity : RouteFact(f, e)
        \/ \E l \in Link, a, b \in Entity : RouteRelation(l, a, b)
        \/ \E n \in Entry, e \in Entity : RouteEntry(n, e)
        \/ \E p \in Proposal : Propose(p)

Check(h) ==
  \/ \E p \in Proposal : CheckReject(h, p) \/ \E e \in Entity : CheckAccept(h, p, e)
  \/ \E l \in Link, a, b \in Entity : CheckRelate(h, l, a, b)
  \/ \E n, new \in Entry, e \in Entity : CheckAttach(h, n, new, e)
  \/ \E n \in Entry, f \in Fact, e \in Entity : CheckReclassify(h, n, f, e)

AtOnce == \/ \E n \in Entry : Detach(n) \/ \E e \in Entity : MoveEntry(n, e)
          \/ \E c \in Capture : Reprocess(c)
          \/ \E l \in Link : DeleteRelation(l)

Next == Core \/ AtOnce \/ \E h \in Handler : Check(h) \/ Commit(h) \/ GiveUp(h)

Spec == Init /\ [][Next]_vars

-----------------------------------------------------------------------------
TypeOK ==
  /\ merged \in [Entity -> Entity \cup {None}]
  /\ status \in [Proposal -> {"absent", "pending", "accepted", "rejected"}]
  /\ home \in [Fact -> Entity \cup {None}]
  /\ from \in [Link -> Entity \cup {None}]
  /\ to \in [Link -> Entity \cup {None}]
  /\ project \in [Entry -> Entity \cup {None}]
  /\ doing \in [Handler -> Job]
  /\ staleId \in BOOLEAN
-----------------------------------------------------------------------------
(***************************************************************************)
(* Properties.                                                             *)
(***************************************************************************)

\* Following merged_into_id from any entity comes to a survivor: no set of
\* tombstones point only at one another ("they get pointed at the survivor",
\* entity_get).
RedirectsEnd == \A S \in SUBSET Entity : S # {} => \E e \in S : merged[e] \notin S

\* No fact and no end of a relation is on a tombstone, where no list shows it.
FactsVisible == \A f \in Fact : home[f] \in LiveEntities \cup {None}
RelationsVisible == \A l \in Link : {from[l], to[l]} \subseteq LiveEntities \cup {None}

\* Whatever requests cross one another, a fact or a relation disappears from
\* view, and a redirection turns in circles, only after some transaction has
\* acted on the id of an entity absorbed before it.
HiddenOnlyByStaleIds == staleId \/ (RedirectsEnd /\ FactsVisible /\ RelationsVisible)

\* A set of entities that a merge never divides.
MergeClosed(S) == \A e \in Entity : merged[e] # None => (e \in S <=> merged[e] \in S)

\* Under the same condition, the two sides of every accepted proposal are one
\* entity from then on, whatever was accepted, rejected or retried around it.
AcceptedStaysMerged ==
  staleId \/ \A p \in Proposal : status[p] = "accepted" =>
    \A S \in SUBSET Entity : MergeClosed(S) => (Sides[p] \subseteq S \/ Sides[p] \cap S = {})
=============================================================================
