------------------------------- MODULE Review -------------------------------
(***************************************************************************)
(* Answering the questions of the core, and editing a fiche.               *)
(*                                                                         *)
(* api/app.py: the accept and reject endpoints of the rename, negation,    *)
(* predicate, entity-type and merge proposals, the edition of an entity    *)
(* and of a fact, and the life of a fact (archived, obsolete, restored).   *)
(*                                                                         *)
(* A handler reads its rows outside any transaction and writes them in one *)
(* transaction later; requests served on other threads commit in between.  *)
(* Such a handler is a Check and a Commit, and `doing` holds what it read. *)
(* A handler whose one statement finds its rows by itself is one action.   *)
(*                                                                         *)
(* The summary of an entity is derived from its name and facts: an edit    *)
(* flags it stale and the cycle regenerates it.  Left out: the texts, the  *)
(* mentions of notes, which predicates a fact may take beyond the two      *)
(* names a predicate question is about, and the relations, from which the  *)
(* summary is made too, and whose gestures (Desk) flag none.  EntityMerge  *)
(* has the identities.                                                     *)
(***************************************************************************)
EXTENDS Naturals, FiniteSets

CONSTANTS
  Entity,     \* rows of `entities`
  Fact,       \* rows of `facts`
  Name,       \* names an entity may bear
  Fold,       \* Fold[n]: n in lower case
  FirstName,  \* the name each entity is born with
  Question,   \* the proposals: records of the kinds below
  Handler,    \* bound: requests served at the same time
  MaxRequest, \* bound: requests that read before they write
  None        \* NULL

ReviewAssumption ==
  /\ FirstName \in [Entity -> Name] /\ DOMAIN Fold = Name
  /\ None \notin Entity
  /\ Question \subseteq [kind : {"rename"}, e : Entity, to : Name]
               \cup [kind : {"negation", "type"}, e : Entity]
               \cup [kind : {"merge"}, a : Entity, b : Entity]
               \cup [kind : {"predicate"}]

VARIABLES
  name, aliases,  \* of each entity
  stale,          \* entities whose summary_stale is set
  merged,         \* merged_into_id of each entity
  standing,       \* status of each entity
  home,           \* entity_id of each fact
  candidate,      \* facts under the predicate that a predicate question wants renamed
  gone,           \* which of archived_at and obsoleted_at each fact has
  status,         \* of each question
  doing,          \* what each handler has read and is about to write
  served,         \* requests begun, for the bound
  owed,           \* history: entities edited since their summary was last regenerated
  borne,          \* history: the names each entity has to answer to
  outdated         \* history: a transaction wrote from a row that had changed since it was read

rowVars == <<name, aliases, stale, merged, standing, home, candidate, gone, status>>
reviewVars == <<rowVars, doing, served, owed, borne, outdated>>

Idle == [op |-> "idle"]
Row == [name : Name, aliases : SUBSET Name]
ReadRow(e) == [name |-> name[e], aliases |-> aliases[e]]

-----------------------------------------------------------------------------
Init ==
  /\ name = FirstName /\ aliases = [e \in Entity |-> {}]
  /\ stale = {}
  /\ merged = [e \in Entity |-> None]
  /\ standing = [e \in Entity |->
       IF [kind |-> "type", e |-> e] \in Question THEN "pending" ELSE "active"]
  /\ home \in [Fact -> Entity] /\ candidate = Fact
  /\ gone = [f \in Fact |-> {}]
  /\ status = [q \in Question |-> "pending"]
  /\ doing = [h \in Handler |-> Idle] /\ served = 0
  /\ owed = {} /\ borne = [e \in Entity |-> {FirstName[e]}]
  /\ outdated = FALSE

(***************************************************************************)
(* The checks: what a handler reads before its transaction.                *)
(***************************************************************************)
Begin(h, job) ==
  /\ doing[h] = Idle /\ served < MaxRequest
  /\ doing' = [doing EXCEPT ![h] = job] /\ served' = served + 1
  /\ UNCHANGED <<rowVars, owed, borne, outdated>>

Pending(q) == status[q] = "pending"

CheckReject(h, q) == Pending(q) /\ Begin(h, [op |-> "reject", q |-> q])

CheckAcceptRename(h, q) ==
  /\ q.kind = "rename" /\ Pending(q)
  /\ Begin(h, [op |-> "accept rename", q |-> q, read |-> ReadRow(q.e)])

\* The fact must belong to the entity of the question and not be obsolete.
CheckAcceptNegation(h, q, f) ==
  /\ q.kind = "negation" /\ Pending(q)
  /\ home[f] = q.e /\ "obsolete" \notin gone[f]
  /\ Begin(h, [op |-> "accept negation", q |-> q, f |-> f])

CheckAcceptPredicate(h, q) ==
  /\ q.kind = "predicate" /\ Pending(q)
  /\ Begin(h, [op |-> "accept predicate", q |-> q])

CheckAcceptType(h, q) ==
  /\ q.kind = "type" /\ Pending(q)
  /\ Begin(h, [op |-> "accept type", q |-> q])

\* Reads the aliases of the survivor and the name of the absorbed.
CheckAcceptMerge(h, q, canonical) ==
  /\ q.kind = "merge" /\ Pending(q) /\ canonical \in {q.a, q.b}
  /\ \E absorbed \in {q.a, q.b} \ {canonical} :
       Begin(h, [op |-> "accept merge", q |-> q, absorbed |-> absorbed, canonical |-> canonical,
                 read |-> [name |-> name[absorbed], aliases |-> aliases[canonical]]])

\* PATCH /entity: the row may be that of an absorbed entity.
CheckRename(h, e, new) == Begin(h, [op |-> "rename", e |-> e, to |-> new, read |-> ReadRow(e)])

(***************************************************************************)
(* The transactions.                                                       *)
(***************************************************************************)
\* Mutant: the action is written for the answer.
SettleAsClosed(q, answer) == status' = [status EXCEPT ![q] = "resolved"]

Settle(q, answer) == status' = [status EXCEPT ![q] = answer]

\* Mutant: the name that is left is not kept.
WriteNameOnly(e, read, new) ==
  /\ name' = [name EXCEPT ![e] = new]
  /\ aliases' = [aliases EXCEPT ![e] = {a \in read.aliases : Fold[a] # Fold[new]}]
  /\ stale' = stale \cup {e} /\ owed' = owed \cup {e}
  /\ borne' = [borne EXCEPT ![e] = @ \cup {new}]
  /\ outdated' = (outdated \/ read # ReadRow(e))

\* The old name becomes an alias, and the new one is no alias any more in any case
\* of letters.
WriteName(e, read, new) ==
  /\ name' = [name EXCEPT ![e] = new]
  /\ aliases' = [aliases EXCEPT ![e] =
       {a \in read.aliases \cup {read.name} : Fold[a] # Fold[new]}]
  /\ stale' = stale \cup {e} /\ owed' = owed \cup {e}
  /\ borne' = [borne EXCEPT ![e] = @ \cup {new}]
  /\ outdated' = (outdated \/ read # ReadRow(e))

\* A name that differs by its case only is a new name here...
Rename(job) ==
  /\ job.op = "rename"
  /\ IF job.to # job.read.name
     THEN WriteName(job.e, job.read, job.to)
     ELSE UNCHANGED <<name, aliases, stale, owed, borne, outdated>>
  /\ UNCHANGED <<merged, standing, home, candidate, gone, status>>

\* ... and none here, where the question is closed as accepted all the same.
AcceptRename(job) ==
  /\ job.op = "accept rename"
  /\ IF Fold[job.q.to] # Fold[job.read.name]
     THEN WriteName(job.q.e, job.read, job.q.to)
     ELSE UNCHANGED <<name, aliases, stale, owed, borne, outdated>>
  /\ Settle(job.q, "accepted")
  /\ UNCHANGED <<merged, standing, home, candidate, gone>>

\* The summary that is flagged is that of the entity of the question.
AcceptNegation(job) ==
  /\ job.op = "accept negation"
  /\ gone' = [gone EXCEPT ![job.f] = @ \cup {"obsolete"}]
  /\ stale' = stale \cup {job.q.e}
  /\ owed' = owed \cup {home[job.f]}
  /\ outdated' = (outdated \/ home[job.f] # job.q.e)
  /\ Settle(job.q, "accepted")
  /\ UNCHANGED <<name, aliases, merged, standing, home, candidate, borne>>

\* Mutant: the rows are renamed first, so that none is found to flag.
AcceptPredicateRenamingFirst(job) ==
  /\ job.op = "accept predicate"
  /\ owed' = owed \cup {home[f] : f \in candidate}
  /\ candidate' = {}
  /\ Settle(job.q, "accepted")
  /\ UNCHANGED <<name, aliases, stale, merged, standing, home, gone, borne, outdated>>

\* Flags the entities that carry the candidate, then renames it everywhere.
AcceptPredicate(job) ==
  /\ job.op = "accept predicate"
  /\ stale' = stale \cup {home[f] : f \in candidate}
  /\ owed' = owed \cup {home[f] : f \in candidate}
  /\ candidate' = {}
  /\ Settle(job.q, "accepted")
  /\ UNCHANGED <<name, aliases, merged, standing, home, gone, borne, outdated>>

AcceptType(job) ==
  /\ job.op = "accept type"
  /\ standing' = [standing EXCEPT ![job.q.e] = "active"]
  /\ Settle(job.q, "accepted")
  /\ UNCHANGED <<name, aliases, stale, merged, home, candidate, gone, owed, borne, outdated>>

\* The facts move, the absorbed row points at the survivor, and the survivor takes
\* the name of the absorbed, not its aliases.  No summary is flagged.
AcceptMerge(job) ==
  LET e == job.canonical
      d == job.absorbed
  IN
  /\ job.op = "accept merge"
  /\ home' = [f \in Fact |-> IF home[f] = d THEN e ELSE home[f]]
  /\ aliases' = [aliases EXCEPT ![e] = job.read.aliases \cup {job.read.name}]
  /\ merged' = [merged EXCEPT ![d] = e]
  /\ borne' = [borne EXCEPT ![e] = @ \cup {name[d]}]
  /\ outdated' = (outdated \/ job.read # [name |-> name[d], aliases |-> aliases[e]])
  /\ Settle(job.q, "accepted")
  /\ UNCHANGED <<name, stale, standing, candidate, gone, owed>>

Refuse(job, kind) ==
  /\ job.op = "reject" /\ job.q.kind = kind
  /\ Settle(job.q, "rejected")
  /\ UNCHANGED <<name, aliases, stale, merged, home, candidate, gone, owed, borne, outdated>>

RejectMerge(job) == Refuse(job, "merge") /\ UNCHANGED standing
RejectPredicate(job) == Refuse(job, "predicate") /\ UNCHANGED standing
RejectRename(job) == Refuse(job, "rename") /\ UNCHANGED standing
RejectNegation(job) == Refuse(job, "negation") /\ UNCHANGED standing

\* Refusing a type also puts its candidate away.
RejectType(job) == Refuse(job, "type") /\ standing' = [standing EXCEPT ![job.q.e] = "archived"]

Reject(job) ==
  \/ RejectMerge(job) \/ RejectPredicate(job) \/ RejectRename(job) \/ RejectNegation(job) \/ RejectType(job)

Commit(h) ==
  /\ \/ Rename(doing[h]) \/ AcceptRename(doing[h]) \/ AcceptNegation(doing[h])
     \/ AcceptPredicate(doing[h]) \/ AcceptType(doing[h]) \/ AcceptMerge(doing[h])
     \/ Reject(doing[h])
  /\ doing' = [doing EXCEPT ![h] = Idle]
  /\ UNCHANGED served

(***************************************************************************)
(* Requests whose transaction finds its rows by itself, and the cycle.     *)
(***************************************************************************)

\* The entity whose summary is flagged is the one the fact is on by then.
FlagHome(f) == stale' = stale \cup {home[f]} /\ owed' = owed \cup {home[f]}

\* archive, unarchive, obsolete, restore.
SetTimestamp(f, columns) ==
  /\ gone' = [gone EXCEPT ![f] = columns]
  /\ FlagHome(f)
  /\ UNCHANGED <<name, aliases, merged, standing, home, candidate, status,
                 doing, served, borne, outdated>>

LifeOfFact(f) == \E c \in {"archived", "obsolete"} :
  SetTimestamp(f, gone[f] \cup {c}) \/ SetTimestamp(f, gone[f] \ {c})

\* Another value, or another predicate.
UpdateFact(f) ==
  /\ candidate' \in {candidate \cup {f}, candidate \ {f}}
  /\ FlagHome(f)
  /\ UNCHANGED <<name, aliases, merged, standing, home, gone, status,
                 doing, served, borne, outdated>>

\* step_resummarize, in the core: the stale entities that are not absorbed.
Resummarize(e) ==
  /\ e \in stale /\ merged[e] = None
  /\ stale' = stale \ {e} /\ owed' = owed \ {e}
  /\ UNCHANGED <<name, aliases, merged, standing, home, candidate, gone, status,
                 doing, served, borne, outdated>>

-----------------------------------------------------------------------------
Check(h) ==
  \/ \E q \in Question :
       \/ CheckReject(h, q) \/ CheckAcceptRename(h, q) \/ CheckAcceptPredicate(h, q)
       \/ CheckAcceptType(h, q)
       \/ \E f \in Fact : CheckAcceptNegation(h, q, f)
       \/ \E e \in Entity : CheckAcceptMerge(h, q, e)
  \/ \E e \in Entity, new \in Name : CheckRename(h, e, new)

Next == \/ \E h \in Handler : Check(h) \/ Commit(h)
        \/ \E f \in Fact : LifeOfFact(f) \/ UpdateFact(f)
        \/ \E e \in Entity : Resummarize(e)

Spec == Init /\ [][Next]_reviewVars

-----------------------------------------------------------------------------
Job == {Idle}
  \cup [op : {"reject", "accept predicate", "accept type"}, q : Question]
  \cup [op : {"accept rename"}, q : Question, read : Row]
  \cup [op : {"accept negation"}, q : Question, f : Fact]
  \cup [op : {"accept merge"}, q : Question, absorbed : Entity, canonical : Entity, read : Row]
  \cup [op : {"rename"}, e : Entity, to : Name, read : Row]

TypeOK ==
  /\ name \in [Entity -> Name] /\ aliases \in [Entity -> SUBSET Name]
  /\ stale \subseteq Entity /\ merged \in [Entity -> Entity \cup {None}]
  /\ standing \in [Entity -> {"pending", "active", "archived"}]
  /\ home \in [Fact -> Entity] /\ candidate \subseteq Fact
  /\ gone \in [Fact -> SUBSET {"archived", "obsolete"}]
  /\ status \in [Question -> {"pending", "accepted", "rejected"}]
  /\ doing \in [Handler -> Job] /\ served \in 0..MaxRequest
  /\ owed \subseteq Entity /\ borne \in [Entity -> SUBSET Name]
  /\ outdated \in BOOLEAN

-----------------------------------------------------------------------------
(***************************************************************************)
(* Properties.                                                             *)
(***************************************************************************)

\* Whatever edits, merges and answers cross one another, a fiche that was edited
\* since its summary was regenerated is flagged for the next cycle ("sans ca la
\* fiche continuerait d'afficher une phrase construite sur l'ancien nom et plus
\* rien ne la regenererait", predicate_proposal_accept), unless a transaction
\* wrote from a row that had changed since it was read.  (A negation accepted across a
\* merge is such a one: it flags the entity of the question, not the survivor.)
EditsFlagSummary == outdated \/ \A e \in owed : merged[e] = None => e \in stale

\* "A rename keeps the old canonical_name as an alias so the resolver still
\* matches future mentions of the old name" (update_entity): under the same
\* condition an entity answers, in some case of letters, to every name it bore
\* and to the name of whatever was merged into it.
NamesAreKept ==
  outdated \/ \A e \in Entity : \A n \in borne[e] :
    \E known \in {name[e]} \cup aliases[e] : Fold[known] = Fold[n]
=============================================================================
