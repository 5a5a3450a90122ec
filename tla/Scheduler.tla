------------------------------ MODULE Scheduler ------------------------------
(***************************************************************************)
(* app.py: _scheduler_loop, which weaves the queue by itself and sees to   *)
(* the weekly digest, one thread per backend.                              *)
(*                                                                         *)
(* Time is what the loop compares: whether a scheduled hour has passed     *)
(* since the marker file was touched, whether an hour has passed since the *)
(* digest was looked at.  The recurring frequencies differ by their hours  *)
(* only: another choice may move the last of them.  A run is what          *)
(* CycleLock and DreamCycle say: it takes the captures queued when it      *)
(* begins, one run at a time.                                              *)
(***************************************************************************)
EXTENDS Naturals, FiniteSets

CONSTANTS
  Capture,    \* captures of a behaviour
  MaxQueued,  \* SYNAPSE_CONSOLIDATION_MAX_QUEUED
  Me, Others, \* this device, and other devices that may own the cycle
  MaxOutage,  \* bound: runs and digests that fail for want of a model to call
  MaxRestart, \* bound: deaths of the process
  MaxSwitch,  \* bound: choices of a frequency
  NoDevice

ASSUME SchedulerAssumption ==
  /\ MaxQueued \in Nat \ {0} /\ {MaxOutage, MaxRestart, MaxSwitch} \subseteq Nat
  /\ Me \notin Others /\ NoDevice \notin Others \cup {Me}

VARIABLES
  inbox,     \* absent, queued or woven
  overdue,   \* the captures that were queued when the last scheduled hour passed
  due,       \* the marker is older than the last scheduled hour
  edited,    \* some summary is stale
  instant,   \* the cycle frequency is "instant"
  holder,    \* the owner of the cycle
  notWeaving,\* _not_weaving: the owner that refused us
  at,        \* where the loop is
  taken,     \* the captures its run has read
  straddled, \* history: a scheduled hour passed inside the run of the loop
  skipped,   \* history: the marker was touched for such a run, and no hour has passed since
  manual,    \* what the run asked by the app has read: a set of at most one set
  hour,      \* an hour has passed since _last_digest_check
  content,   \* the week has something to tell
  digest,    \* the note of the week is written
  outages, restarts, switches

queueVars == <<inbox, overdue, due, edited>>
loopVars == <<at, taken, straddled, skipped>>
digestVars == <<hour, content, digest>>
boundVars == <<outages, restarts, switches>>
schedulerVars == <<queueVars, loopVars, digestVars, boundVars, instant, holder, notWeaving, manual>>

Queued == {c \in Capture : inbox[c] = "queued"}
Busy == manual # {} \/ at = "weaving"

\* _should_consolidate, once there is a queue or a stale summary.
Worthwhile ==
  IF Queued = {} THEN edited
  ELSE instant \/ Cardinality(Queued) >= MaxQueued \/ due

Init ==
  /\ inbox = [c \in Capture |-> "absent"]
  /\ overdue = {} /\ due = TRUE /\ edited = FALSE
  /\ instant = FALSE /\ holder = Me /\ notWeaving = NoDevice
  /\ at = "digest" /\ taken = {} /\ straddled = FALSE /\ skipped = FALSE
  /\ manual = {}
  /\ hour = TRUE /\ content = FALSE /\ digest = FALSE
  /\ outages = 0 /\ restarts = 0 /\ switches = 0

(***************************************************************************)
(* An iteration of the loop.                                               *)
(***************************************************************************)

\* Mutant: a backend that does not weave writes no digest.
CheckDigestOfWeaver ==
  /\ at = "digest" /\ at' = "queue"
  /\ hour' = FALSE
  /\ \/ /\ digest' = (digest \/ (hour /\ content /\ notWeaving = NoDevice))
        /\ UNCHANGED outages
     \/ /\ hour /\ content /\ ~digest /\ outages < MaxOutage
        /\ outages' = outages + 1 /\ UNCHANGED digest
  /\ UNCHANGED <<queueVars, taken, straddled, skipped, content, restarts, switches, instant, holder, notWeaving, manual>>

\* At most every hour: _ensure_weekly_digest, which writes nothing for an
\* empty week, and whose failure waits for the next hour.
CheckDigest ==
  /\ at = "digest" /\ at' = "queue"
  /\ hour' = FALSE
  /\ \/ /\ digest' = (digest \/ (hour /\ content))
        /\ UNCHANGED outages
     \/ /\ hour /\ content /\ ~digest /\ outages < MaxOutage
        /\ outages' = outages + 1 /\ UNCHANGED digest
  /\ UNCHANGED <<queueVars, taken, straddled, skipped, content, restarts, switches, instant, holder, notWeaving, manual>>

\* The counts are read, and say whether a run is worth its while.
Look ==
  /\ at = "queue"
  /\ at' = IF Worthwhile THEN "chosen" ELSE "digest"
  /\ UNCHANGED <<queueVars, taken, straddled, skipped, digestVars, boundVars, instant, holder, notWeaving, manual>>

\* dream_cycle_run: the cycle belongs to another device, which is noted ...
NotOwner ==
  /\ at = "chosen" /\ at' = "digest"
  /\ holder # Me
  /\ notWeaving' = holder
  /\ UNCHANGED <<queueVars, taken, straddled, skipped, digestVars, boundVars, instant, holder, manual>>

\* ... or another run has the lock ...
LockBusy ==
  /\ at = "chosen" /\ at' = "digest"
  /\ holder = Me /\ manual # {}
  /\ UNCHANGED <<queueVars, taken, straddled, skipped, digestVars, boundVars, instant, holder, notWeaving, manual>>

\* Mutant: a backend that was refused once waits to be told.
BeginUnlessNotWeaving ==
  /\ at = "chosen"
  /\ holder = Me /\ manual = {}
  /\ IF notWeaving = NoDevice
     THEN at' = "weaving" /\ taken' = Queued /\ straddled' = FALSE
     ELSE at' = "digest" /\ UNCHANGED <<taken, straddled>>
  /\ UNCHANGED <<queueVars, skipped, digestVars, boundVars, instant, holder, notWeaving, manual>>

\* ... or the run begins with what is queued now.
Begin ==
  /\ at = "chosen" /\ at' = "weaving"
  /\ holder = Me /\ manual = {}
  /\ taken' = Queued /\ straddled' = FALSE
  /\ UNCHANGED <<queueVars, skipped, digestVars, boundVars, instant, holder, notWeaving, manual>>

Woven(cs) == inbox' = [c \in Capture |-> IF c \in cs THEN "woven" ELSE inbox[c]]

\* The run ends: its captures are woven, the stale summaries written again.
End ==
  /\ at = "weaving" /\ at' = "marking"
  /\ Woven(taken) /\ taken' = {} /\ edited' = FALSE
  /\ UNCHANGED <<overdue, due, straddled, skipped, digestVars, boundVars, instant, holder, notWeaving, manual>>

\* Mutant: an aborted run counts as a pass.
AbortMarked ==
  /\ at = "weaving" /\ at' = "digest"
  /\ outages < MaxOutage /\ outages' = outages + 1
  /\ \E done \in SUBSET taken : Woven(done)
  /\ taken' = {} /\ due' = FALSE
  /\ UNCHANGED <<overdue, edited, straddled, skipped, digestVars, restarts, switches, instant, holder, notWeaving, manual>>

\* It is aborted after some captures: the loop tries again at its next turn.
Abort ==
  /\ at = "weaving" /\ at' = "digest"
  /\ outages < MaxOutage /\ outages' = outages + 1
  /\ \E done \in SUBSET taken : Woven(done)
  /\ taken' = {}
  /\ UNCHANGED <<overdue, due, edited, straddled, skipped, digestVars, restarts, switches, instant, holder, notWeaving, manual>>

\* _mark_consolidated and _note_weaving.
Mark ==
  /\ at = "marking" /\ at' = "digest"
  /\ due' = FALSE /\ skipped' = straddled
  /\ notWeaving' = NoDevice
  /\ UNCHANGED <<inbox, overdue, edited, taken, straddled, digestVars, boundVars, instant, holder, manual>>

Loop == \/ CheckDigest \/ Look \/ NotOwner \/ LockBusy \/ Begin \/ End \/ Abort \/ Mark

(***************************************************************************)
(* The app, the clock and the machine.                                     *)
(***************************************************************************)
Outer == <<loopVars, digestVars, boundVars, instant, holder, notWeaving, manual>>

Post(c) ==
  /\ inbox[c] = "absent"
  /\ inbox' = [inbox EXCEPT ![c] = "queued"]
  /\ content' = TRUE
  /\ UNCHANGED <<overdue, due, edited, loopVars, hour, digest, boundVars, instant, holder, notWeaving, manual>>

Edit == ~edited /\ edited' = TRUE /\ UNCHANGED <<inbox, overdue, due, Outer>>

\* A scheduled hour passes.
SlotPasses ==
  /\ due' = TRUE /\ overdue' = Queued
  /\ straddled' = (at \in {"weaving", "marking"})
  /\ skipped' = FALSE
  /\ UNCHANGED <<inbox, edited, at, taken, digestVars, boundVars, instant, holder, notWeaving, manual>>

HourPasses ==
  /\ ~hour /\ hour' = TRUE
  /\ UNCHANGED <<queueVars, loopVars, content, digest, boundVars, instant, holder, notWeaving, manual>>

WeekTurns ==
  /\ content' = FALSE /\ digest' = FALSE
  /\ UNCHANGED <<queueVars, loopVars, hour, boundVars, instant, holder, notWeaving, manual>>

\* PUT /config/cycle-frequency: "instant" or one of the recurring choices, which move the
\* last scheduled hour.  It may be the same; an earlier one, which a pass has served; or a
\* later one, since the last pass, when those who waited for the former hour waited too.
SetFrequency ==
  /\ switches < MaxSwitch /\ switches' = switches + 1
  /\ instant' \in BOOLEAN
  /\ \/ UNCHANGED <<due, overdue, straddled, skipped>>
     \/ due' = FALSE /\ overdue' = {} /\ straddled' = FALSE /\ skipped' = FALSE
     \/ /\ due' = TRUE /\ skipped' = FALSE
        /\ \E later \in SUBSET Queued :
             /\ overdue \cap Queued \subseteq later /\ overdue' = later
             /\ straddled' = (at \in {"weaving", "marking"} /\ ~(later \subseteq taken))
  /\ UNCHANGED <<inbox, edited, at, taken, digestVars, outages, restarts, holder, notWeaving, manual>>

OwnerMoves ==
  /\ holder' \in (Others \cup {Me}) \ {holder}
  /\ UNCHANGED <<queueVars, loopVars, digestVars, boundVars, instant, notWeaving, manual>>

\* POST /dream-cycle/run: the same guards, and no marker.
ManualBegin ==
  /\ holder = Me /\ ~Busy
  /\ manual' = {Queued}
  /\ UNCHANGED <<queueVars, loopVars, digestVars, boundVars, instant, holder, notWeaving>>

ManualEnd ==
  /\ manual # {} /\ manual' = {}
  /\ Woven(UNION manual) /\ edited' = FALSE
  /\ UNCHANGED <<overdue, due, loopVars, digestVars, boundVars, instant, holder, notWeaving>>

\* The process dies; the marker file and the queue stay.
Restart ==
  /\ restarts < MaxRestart /\ restarts' = restarts + 1
  /\ at' = "digest" /\ taken' = {} /\ manual' = {}
  /\ hour' = TRUE /\ notWeaving' = NoDevice
  /\ UNCHANGED <<queueVars, straddled, skipped, content, digest, outages, switches, instant, holder>>

Next ==
  \/ Loop
  \/ \E c \in Capture : Post(c)
  \/ Edit \/ SlotPasses \/ HourPasses \/ WeekTurns \/ SetFrequency \/ OwnerMoves
  \/ ManualBegin \/ ManualEnd \/ Restart

Spec == Init /\ [][Next]_schedulerVars

(***************************************************************************)
(* The loop never stops, the clock moves on, a run ends.  Captures,        *)
(* requests and the moves of the ownership are never owed.                 *)
(***************************************************************************)
SchedulerFairness ==
  /\ WF_schedulerVars(Loop) /\ WF_schedulerVars(ManualEnd)
  /\ WF_schedulerVars(SlotPasses) /\ WF_schedulerVars(HourPasses)

FairSpec == Spec /\ SchedulerFairness
-----------------------------------------------------------------------------
FlagsOK ==
  /\ due \in BOOLEAN /\ edited \in BOOLEAN /\ instant \in BOOLEAN
  /\ straddled \in BOOLEAN /\ skipped \in BOOLEAN
  /\ hour \in BOOLEAN /\ content \in BOOLEAN /\ digest \in BOOLEAN

TypeOK ==
  /\ FlagsOK
  /\ inbox \in [Capture -> {"absent", "queued", "woven"}]
  /\ overdue \subseteq Capture /\ taken \subseteq Capture
  /\ holder \in Others \cup {Me} /\ notWeaving \in Others \cup {NoDevice}
  /\ at \in {"digest", "queue", "chosen", "weaving", "marking"}
  /\ manual \subseteq SUBSET Capture
  /\ outages \in 0 .. MaxOutage /\ restarts \in 0 .. MaxRestart /\ switches \in 0 .. MaxSwitch

\* "A slot missed because the Mac was asleep/off is recovered on the next tick"
\* (_should_consolidate): a capture that was waiting when a scheduled hour
\* passed keeps a pass owed to it, through aborted runs, deaths and refusals,
\* until it is woven or the user chooses other hours, of which a pass has served
\* the last.  The marker is the end of a run and not its beginning: an hour that
\* passes inside a run is the one exception.
SlotOwesPass == due \/ skipped \/ overdue \cap Queued = {}

\* Once this device owns the cycle for good, every capture is woven
\* (_scheduler_loop: "retry next tick").
CapturesAreWoven ==
  <>[](holder = Me) => \A c \in Capture : inbox[c] = "queued" ~> inbox[c] = "woven"

\* "So it never silently goes missing" (_ensure_weekly_digest): a week with
\* something to tell gets its digest, unless the week ends first, whatever
\* fails and whoever owns the cycle.
DigestAppears == content /\ ~digest ~> digest \/ ~content
=============================================================================
