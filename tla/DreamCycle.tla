----------------------------- MODULE DreamCycle -----------------------------
(***************************************************************************)
(* The inbox and the run that empties it.                                  *)
(*                                                                         *)
(* dream_cycle/cycle.py (_run_dream_cycle, _process_entry, _batch_classify *)
(* and the steps that end a run), the counters of dream_cycle_run, and the *)
(* inbox endpoints of api/app.py (capture, requeue, reprocess).            *)
(*                                                                         *)
(* A run works on the snapshot of the queue it took when it started, while *)
(* the endpoints and the pages of other devices go on changing the inbox   *)
(* under it, and while the MCP tool may start a cycle that takes no lock.  *)
(* The Rust core is external: classifying may fail, and route_capture      *)
(* commits in one transaction the derived rows of a capture and its        *)
(* 'processed' mark, which other devices receive together.  Captures are   *)
(* numbered in the order of created_at, the order of a run.                *)
(***************************************************************************)
EXTENDS Integers, FiniteSets

CONSTANTS
  NCapture,      \* captures 1 .. NCapture may be posted
  Bad,           \* those the classifier always rejects (a content error)
  Run,           \* runs that may be active
  Outside,       \* those of the MCP tool and the command line, which take no lock
  MaxReprocess,  \* bound: user requests to replay a capture
  MaxArrive,     \* bound: woven captures that come from another device
  MaxKill        \* bound: process deaths

Capture == 1 .. NCapture
Half == {"note", "graph"}

ASSUME CaptureAssumption == NCapture \in Nat /\ Bad \subseteq Capture
ASSUME BoundAssumption == MaxReprocess \in Nat /\ MaxArrive \in Nat /\ MaxKill \in Nat

VARIABLES
  inbox,        \* status of each capture; processed_at is NULL for 'queued'
  derived,      \* how many sets of derived rows each capture has
  routedFrom,   \* history: halves of the classification each capture was routed from
  stale,        \* captures whose entities carry summary_stale
  outdated,     \* captures whose entities have a summary newer than their vector
  pc,           \* where each run is
  todo,         \* captures of its snapshot still to process
  hand,         \* halves of the classification it holds for each capture
  touched,      \* captures whose entities it has routed or re-summarized (all_entity_ids)
  marked,       \* history: captures marked since it began, by it, another run or another device
  before,       \* processed_before of dream_cycle_run
  twins,        \* history: captures that two runs or two devices had to weave at once
  reprocessed,  \* replays asked for so far
  arrived,      \* woven captures received so far
  killed        \* process deaths so far

inboxVars == <<inbox, derived, routedFrom>>
memoryVars == <<stale, outdated>>
runVars == <<pc, todo, hand, touched, marked, before>>
countVars == <<reprocessed, arrived, killed>>
vars == <<inboxVars, memoryVars, runVars, twins, countVars>>

Active(r) == pc[r] # "idle"
Queue == {c \in Capture : inbox[c] = "queued"}
Processed == {c \in Capture : inbox[c] \in {"processed", "failed"}}
\* The loop takes the oldest capture of its snapshot.
Oldest(r) == {c \in todo[r] : \A d \in todo[r] : c <= d}

\* Two runs have it in their snapshots.
Contended(c) == \E r, s \in Run : r # s /\ c \in todo[r] \cap todo[s]

NoHand == [c \in Capture |-> {}]

\* The locals of a run go with it.
Forget(r) ==
  /\ pc' = [pc EXCEPT ![r] = "idle"]
  /\ todo' = [todo EXCEPT ![r] = {}]
  /\ hand' = [hand EXCEPT ![r] = NoHand]
  /\ touched' = [touched EXCEPT ![r] = {}]
  /\ marked' = [marked EXCEPT ![r] = {}]
  /\ before' = [before EXCEPT ![r] = 0]

\* A capture is marked 'processed' under the runs at work.
Mark(c) ==
  /\ inbox' = [inbox EXCEPT ![c] = "processed"]
  /\ marked' = [r \in Run |-> IF Active(r) THEN marked[r] \cup {c} ELSE marked[r]]

-----------------------------------------------------------------------------
(***************************************************************************)
(* Rows marked 'failed' by an earlier release may be there from the start. *)
(***************************************************************************)
Init ==
  /\ inbox \in [Capture -> {"absent", "failed"}]
  /\ derived = [c \in Capture |-> 0]
  /\ routedFrom = [c \in Capture |-> {}]
  /\ stale = {} /\ outdated = {}
  /\ pc = [r \in Run |-> "idle"]
  /\ todo = [r \in Run |-> {}]
  /\ hand = [r \in Run |-> NoHand]
  /\ touched = [r \in Run |-> {}]
  /\ marked = [r \in Run |-> {}]
  /\ before = [r \in Run |-> 0]
  /\ twins = {}
  /\ reprocessed = 0 /\ arrived = 0 /\ killed = 0

(***************************************************************************)
(* The inbox endpoints.                                                    *)
(***************************************************************************)

\* Mutant: INSERT OR REPLACE, so a retry queues the capture again.
PostReplacing(c) ==
  /\ inbox' = [inbox EXCEPT ![c] = "queued"]
  /\ UNCHANGED <<derived, routedFrom, memoryVars, runVars, twins, countVars>>

\* POST /capture: INSERT OR IGNORE on the client's id, so a retry is a no-op.
Post(c) ==
  /\ inbox[c] = "absent"
  /\ inbox' = [inbox EXCEPT ![c] = "queued"]
  /\ UNCHANGED <<derived, routedFrom, memoryVars, runVars, twins, countVars>>

\* Mutant: a status nobody selects.
RequeueAsPending(c) ==
  /\ inbox[c] = "failed"
  /\ inbox' = [inbox EXCEPT ![c] = "pending"]
  /\ UNCHANGED <<derived, routedFrom, memoryVars, runVars, twins, countVars>>

\* POST /inbox/{id}/requeue: only a failed entry.
Requeue(c) ==
  /\ inbox[c] = "failed"
  /\ inbox' = [inbox EXCEPT ![c] = "queued"]
  /\ UNCHANGED <<derived, routedFrom, memoryVars, runVars, twins, countVars>>

\* Mutant: the derived rows of the capture stay.
ReprocessKeepingRows(c) ==
  /\ inbox[c] # "absent"
  /\ reprocessed < MaxReprocess
  /\ inbox' = [inbox EXCEPT ![c] = "queued"]
  /\ twins' = IF Contended(c) THEN twins ELSE twins \ {c}
  /\ reprocessed' = reprocessed + 1
  /\ UNCHANGED <<derived, routedFrom, memoryVars, runVars, arrived, killed>>

\* POST /inbox/{id}/reprocess: the derived rows go and the capture is queued
\* again, in one transaction.  Nothing sets the status 'running' that would
\* make it a 409, so a run in progress does not prevent it.
Reprocess(c) ==
  /\ inbox[c] # "absent"
  /\ reprocessed < MaxReprocess
  /\ inbox' = [inbox EXCEPT ![c] = "queued"]
  /\ derived' = [derived EXCEPT ![c] = 0]
  /\ twins' = IF Contended(c) THEN twins ELSE twins \ {c}
  /\ reprocessed' = reprocessed + 1
  /\ UNCHANGED <<routedFrom, memoryVars, runVars, arrived, killed>>

\* A page of another device, which holds or held the weave, is merged
\* (pull_from_peer, apply_pushed): a capture it has routed comes marked, with
\* its derived rows.  A run that still has it in its snapshot weaves it again,
\* and two devices that routed it without syncing keep both sets of rows, for
\* the core's dedup_after_pull to reconcile.
Arrive(c) ==
  /\ arrived < MaxArrive
  /\ Mark(c)
  /\ derived' = [derived EXCEPT ![c] = @ + 1]
  /\ routedFrom' = [routedFrom EXCEPT ![c] = Half]
  /\ twins' = IF derived[c] > 0 \/ \E r \in Run : c \in todo[r] THEN twins \cup {c} ELSE twins
  /\ arrived' = arrived + 1
  /\ UNCHANGED <<memoryVars, pc, todo, hand, touched, before, reprocessed, killed>>

\* A fact of a woven capture is edited: its entity's summary is stale.
EditFact(c) ==
  /\ derived[c] > 0
  /\ stale' = stale \cup {c}
  /\ UNCHANGED <<inboxVars, outdated, runVars, twins, countVars>>

(***************************************************************************)
(* A run.                                                                  *)
(***************************************************************************)

\* What CycleLock shows of the lock, as long as no lock file outlives its age.
LockIsFree(r) == r \notin Outside => \A s \in Run \ Outside : ~Active(s)

\* Mutant: the batch threshold applied to every run.
StartFromTwo(r) ==
  /\ pc[r] = "idle"
  /\ LockIsFree(r)
  /\ Cardinality(Queue) >= 2 \/ stale # {}
  /\ before' = [before EXCEPT ![r] = Cardinality(Processed)]
  /\ todo' = [todo EXCEPT ![r] = Queue]
  /\ twins' = twins \cup {c \in Queue : \E s \in Run : c \in todo[s]}
  /\ pc' = [pc EXCEPT ![r] = "looping"]
  /\ UNCHANGED <<inboxVars, memoryVars, hand, touched, marked, countVars>>

\* Mutant: an empty queue ends the run before the stale flags are looked at.
StartWhenQueued(r) ==
  /\ pc[r] = "idle"
  /\ LockIsFree(r)
  /\ Queue # {}
  /\ before' = [before EXCEPT ![r] = Cardinality(Processed)]
  /\ todo' = [todo EXCEPT ![r] = Queue]
  /\ twins' = twins \cup {c \in Queue : \E s \in Run : c \in todo[s]}
  /\ pc' = [pc EXCEPT ![r] = "looping"]
  /\ UNCHANGED <<inboxVars, memoryVars, hand, touched, marked, countVars>>

\* processed_before, then the SELECT that fixes what the run will process.
\* An empty queue still goes through the re-summary when a summary is stale.
Start(r) ==
  /\ pc[r] = "idle"
  /\ LockIsFree(r)
  /\ Queue # {} \/ stale # {}
  /\ before' = [before EXCEPT ![r] = Cardinality(Processed)]
  /\ todo' = [todo EXCEPT ![r] = Queue]
  /\ twins' = twins \cup {c \in Queue : \E s \in Run : c \in todo[s]}
  /\ \E use_batch \in IF r \in Outside THEN {FALSE} ELSE BOOLEAN :
       pc' = [pc EXCEPT ![r] = IF use_batch /\ Cardinality(Queue) >= 2
                               THEN "batch" ELSE "looping"]
  /\ UNCHANGED <<inboxVars, memoryVars, hand, touched, marked, countVars>>

\* Mutant: what came back is taken as it is.
MergeAnyHalf(halves) == halves
\* A capture that misses a half is not half classified: it is not classified.
Merge(halves) == IF halves = Half THEN Half ELSE {}

\* _batch_classify: two requests per capture, whose answers come back (or do
\* not) independently; a failed or late batch leaves the run without any.
BatchClassify(r) ==
  /\ pc[r] = "batch"
  /\ pc' = [pc EXCEPT ![r] = "looping"]
  /\ \E got \in [todo[r] -> SUBSET Half] :
       /\ \A c \in todo[r] \cap Bad : got[c] # Half
       /\ hand' = [hand EXCEPT ![r] = [c \in Capture |->
                      IF c \in todo[r] THEN Merge(got[c]) ELSE {}]]
  /\ UNCHANGED <<inboxVars, memoryVars, todo, touched, marked, before, twins, countVars>>

\* Mutant: the capture is marked when it is classified, before it is routed.
ClassifyMarking(r) ==
  /\ pc[r] = "looping"
  /\ pc' = [pc EXCEPT ![r] = "classified"]
  /\ \E c \in Oldest(r) :
       /\ hand[r][c] # {} \/ c \notin Bad
       /\ hand' = [hand EXCEPT ![r][c] = IF @ = {} THEN Half ELSE @]
       /\ inbox' = [inbox EXCEPT ![c] = "processed"]
  /\ UNCHANGED <<derived, routedFrom, memoryVars, todo, touched, marked, before, twins, countVars>>

\* The next capture: its batched classification, or both calls now.
Classify(r) ==
  /\ pc[r] = "looping"
  /\ pc' = [pc EXCEPT ![r] = "classified"]
  /\ \E c \in Oldest(r) :
       /\ hand[r][c] # {} \/ c \notin Bad
       /\ hand' = [hand EXCEPT ![r][c] = IF @ = {} THEN Half ELSE @]
  /\ UNCHANGED <<inboxVars, memoryVars, todo, touched, marked, before, twins, countVars>>

\* route_capture, in the core: the derived rows and the 'processed' mark; the
\* facts written, if any, flag the summaries of their entities.
Route(r) ==
  /\ pc[r] = "classified"
  /\ pc' = [pc EXCEPT ![r] = "looping"]
  /\ \E c \in Oldest(r) :
       /\ todo' = [todo EXCEPT ![r] = @ \ {c}]
       /\ touched' = [touched EXCEPT ![r] = @ \cup {c}]
       /\ Mark(c)
       /\ derived' = [derived EXCEPT ![c] = @ + 1]
       /\ routedFrom' = [routedFrom EXCEPT ![c] = hand[r][c]]
       /\ hand' = [hand EXCEPT ![r][c] = {}]
       /\ stale' \in {stale, stale \cup {c}}
  /\ UNCHANGED <<outdated, before, twins, countVars>>

\* The loop is over: validate_pending on the new facts.
Validate(r) ==
  /\ pc[r] = "looping" /\ todo[r] = {}
  /\ pc' = [pc EXCEPT ![r] = "resummarizing"]
  /\ UNCHANGED <<inboxVars, memoryVars, todo, hand, touched, marked, before, twins, countVars>>

\* step_resummarize on the touched and the stale: an HTTP error stops the pass
\* after `done`, and the other flags survive.  What is regenerated joins the
\* touched, to be vectorized with them.
Resummarize(r) ==
  /\ pc[r] = "resummarizing"
  /\ pc' = [pc EXCEPT ![r] = "vectorizing"]
  /\ \E done \in SUBSET (touched[r] \cup stale) :
       /\ stale' = stale \ done
       /\ outdated' = outdated \cup done
       /\ touched' = [touched EXCEPT ![r] = @ \cup done]
  /\ UNCHANGED <<inboxVars, todo, hand, marked, before, twins, countVars>>
ResummarizeAll(r) == Resummarize(r) /\ stale' = {}

\* step6_vectorize on the touched.  The core skips an entity it cannot embed,
\* and raises nothing: its vector stays the old one until it is touched again.
Vectorize(r) ==
  /\ pc[r] = "vectorizing"
  /\ pc' = [pc EXCEPT ![r] = "reporting"]
  /\ \E done \in SUBSET touched[r] : outdated' = outdated \ done
  /\ UNCHANGED <<inboxVars, stale, todo, hand, touched, marked, before, twins, countVars>>

\* Mutant: the count before the run is forgotten.
ClaimTotal(r) == Cardinality(Processed)
\* notes_processed: the difference of two counts.
Claim(r) == Cardinality(Processed) - before[r]

\* Decay, then back in dream_cycle_run, the row of the run.
Report(r) ==
  /\ pc[r] = "reporting"
  /\ Forget(r)
  /\ UNCHANGED <<inboxVars, memoryVars, twins, countVars>>

\* Any exception raised in the loop or after it ends the run.  That includes a
\* content error: the handler meant to mark the entry 'failed' is never
\* reached, because evaluating `anthropic.APIError` raises on the local
\* boolean that line 440 binds to that name.
Abort(r) ==
  /\ pc[r] \in {"looping", "classified", "resummarizing", "vectorizing", "reporting"}
  /\ Forget(r)
  /\ UNCHANGED <<inboxVars, memoryVars, twins, countVars>>

\* The process dies with its runs.
Kill ==
  /\ killed < MaxKill
  /\ \E r \in Run : Active(r)
  /\ killed' = killed + 1
  /\ pc' = [r \in Run |-> "idle"]
  /\ todo' = [r \in Run |-> {}]
  /\ hand' = [r \in Run |-> NoHand]
  /\ touched' = [r \in Run |-> {}]
  /\ marked' = [r \in Run |-> {}]
  /\ before' = [r \in Run |-> 0]
  /\ UNCHANGED <<inboxVars, memoryVars, twins, reprocessed, arrived>>

Next ==
  \/ \E c \in Capture : Post(c) \/ Requeue(c) \/ Reprocess(c) \/ EditFact(c) \/ Arrive(c)
  \/ \E r \in Run : \/ Start(r) \/ BatchClassify(r) \/ Classify(r) \/ Route(r)
                    \/ Validate(r) \/ Resummarize(r) \/ Vectorize(r)
                    \/ Report(r) \/ Abort(r)
  \/ Kill

Spec == Init /\ [][Next]_vars

(***************************************************************************)
(* The scheduler starts a run again as long as there is work, a run goes   *)
(* on, and the network and the model are not down for ever: a call tried   *)
(* again and again succeeds at last.                                       *)
(***************************************************************************)
FairSpec ==
  /\ Spec
  /\ \A r \in Run :
       /\ WF_vars(Start(r)) /\ WF_vars(BatchClassify(r))
       /\ SF_vars(Classify(r)) /\ SF_vars(Route(r)) /\ SF_vars(Validate(r))
       /\ SF_vars(ResummarizeAll(r)) /\ SF_vars(Vectorize(r)) /\ WF_vars(Report(r))
       /\ WF_vars(Abort(r))

-----------------------------------------------------------------------------
TypeOK ==
  /\ inbox \in [Capture -> {"absent", "queued", "processed", "failed"}]
  /\ derived \in [Capture -> Nat]
  /\ routedFrom \in [Capture -> SUBSET Half]
  /\ stale \subseteq Capture /\ outdated \subseteq Capture
  /\ pc \in [Run -> {"idle", "batch", "looping", "classified", "resummarizing",
                     "vectorizing", "reporting"}]
  /\ todo \in [Run -> SUBSET Capture]
  /\ hand \in [Run -> [Capture -> SUBSET Half]]
  /\ touched \in [Run -> SUBSET Capture]
  /\ marked \in [Run -> SUBSET Capture]
  /\ before \in [Run -> 0 .. NCapture]
  /\ twins \subseteq Capture
  /\ reprocessed \in 0 .. MaxReprocess
  /\ arrived \in 0 .. MaxArrive
  /\ killed \in 0 .. MaxKill

-----------------------------------------------------------------------------
(***************************************************************************)
(* Properties.                                                             *)
(***************************************************************************)

\* Whatever aborts, crashes, batches and replays, a capture marked 'processed'
\* has its derived rows exactly once, and one that waits has none: nothing is
\* consumed without being woven, nothing is woven twice (inbox_reprocess: "so
\* the re-run can't duplicate them"; ARCHITECTURE section 9: the cycle is
\* idempotent, hence safe to run again).  Only a capture that two runs or two
\* devices had to weave at once escapes it.
WovenExactlyOnce ==
  \A c \in Capture \ twins : derived[c] = IF inbox[c] = "processed" THEN 1 ELSE 0

\* Even a capture that several runs and devices weave at once, while the user
\* replays it, is never consumed without being woven.
NothingConsumed == \A c \in Capture : inbox[c] = "processed" => derived[c] > 0

\* A batch whose answers come back in pieces never weaves half a capture
\* (_batch_classify: writing half a result would lose the note or the graph).
NeverHalfClassified == \A c \in Capture : derived[c] > 0 => routedFrom[c] = Half

\* What a run claims is the difference of two counts of a table that replays,
\* other runs and the pages of other devices change in between.  It may be too
\* small, even negative; it is never more than what was marked while the run
\* worked, by it or by others.
NeverOverclaims ==
  \A r \in Run \ Outside : pc[r] = "reporting" => Claim(r) <= Cardinality(marked[r])

\* A run that ends, however it ends, leaves in the queue every capture of its
\* snapshot that it has not routed and nobody else has woven.
UnroutedStaysQueued ==
  \A r \in Run : \A c \in todo[r] \ twins : inbox[c] = "queued"

\* Each capture posted is eventually woven, though runs abort on network
\* errors at any point and the user replays captures.
QueuedGetsWoven == \A c \in Capture : inbox[c] = "queued" ~> inbox[c] = "processed"

\* An edited fact is eventually reflected in the summary of its entity, even
\* if passes stop half-way, runs abort at any step and the process dies: the
\* flag outlives them, and alone is enough for a run.
EditReachesSummary == \A c \in Capture : c \in stale ~> c \notin stale

\* ARCHITECTURE section 2, "Resilience par entree": a content error marks that
\* entry failed and the run goes on, so the other captures are woven.
ContentErrorIsContained ==
  \A c \in Capture \ Bad : inbox[c] = "queued" ~> inbox[c] = "processed"

(***************************************************************************)
(* The inbox implements the ledger: a run shows only as the weaving of one *)
(* capture after the other.                                                *)
(***************************************************************************)
ledger == [c \in Capture |->
  CASE inbox[c] = "absent" -> "absent"
    [] inbox[c] = "queued" -> "waiting"
    [] inbox[c] = "failed" -> "refused"
    [] inbox[c] = "processed" -> IF derived[c] = 1 \/ c \in twins THEN "woven" ELSE "duplicated"]

Ledger == INSTANCE CaptureLedger WITH ledger <- ledger
ImplementsLedger == Ledger!Spec
=============================================================================
