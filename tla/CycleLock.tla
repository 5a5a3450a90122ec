------------------------------ MODULE CycleLock ------------------------------
(***************************************************************************)
(* The lock file that keeps dream cycles apart, and the run registry.      *)
(*                                                                         *)
(* api/app.py: cycle_lock, dream_cycle_run, _finish_run and                *)
(* _recover_interrupted_runs.  A home directory may be served by several   *)
(* backend processes; each has threads that start runs (the scheduler loop *)
(* and the HTTP workers).  The MCP server and `python -m dream_cycle` also *)
(* run a cycle, and take no lock: they are the Outside processes.          *)
(*                                                                         *)
(* Time advances by Tick, in a unit of the modeller's choice: Stale is     *)
(* _LOCK_STALE_SECONDS in that unit, MaxRun the longest a run may last.    *)
(* The code's own numbers are 1800 s for the first and, for one batch poll *)
(* alone, 3600 s for the second.                                           *)
(***************************************************************************)
EXTENDS Naturals, FiniteSets

CONSTANTS
  Backend,     \* backend processes that share one home directory
  Thread,      \* their threads that call dream_cycle_run
  Home,        \* the backend each thread belongs to
  Scheduler,   \* the threads that retry for ever (_scheduler_loop)
  Outside,     \* cycles started by the MCP tool or the command line
  Stale,       \* a lock file older than this is taken for abandoned
  MaxRun,      \* no run holds the lock longer than this
  MaxCrash,    \* bound: process deaths in a behaviour
  NoOne        \* the lock file does not exist

ASSUME ThreadAssumption ==
  /\ Home \in [Thread -> Backend]
  /\ Scheduler \subseteq Thread
  /\ NoOne \notin Thread
  /\ Outside \cap Thread = {}
ASSUME TimeAssumption == Stale \in Nat /\ MaxRun \in Nat /\ MaxCrash \in Nat

VARIABLES
  pc,        \* where each thread is in dream_cycle_run
  lockBy,    \* which thread created the lock file (the file itself holds a pid nobody reads)
  lockAge,   \* age of the lock file, saturating at Stale + 1
  elapsed,   \* how long each thread has been inside the lock
  row,       \* status of the cycle_runs row of each thread's current run
  orphan,    \* how the threads of the other rows left 'running' were lost
  boot,      \* down, recovering (inside _recover_interrupted_runs) or up
  owner,     \* who holds the replicated cycle ownership, seen from this home
  outside,   \* the lock-free cycles now running
  crashes,   \* process deaths so far
  tainted,   \* history: a lock file has outlived Stale, and the runs that may have seen it are not all over
  late       \* history: the runs that took the lock while a startup recovery, having found no fresh lock, was about to rewrite the rows

vars == <<pc, lockBy, lockAge, elapsed, row, orphan, boot, owner, outside,
          crashes, tainted, late>>

Phase == {"idle", "unlinking", "opening", "entered", "weaving", "finishing", "releasing"}

\* Inside the `with cycle_lock():` block.
Inside(t) == pc[t] \in {"entered", "weaving", "finishing", "releasing"}
Holders == {t \in Thread : Inside(t)}
Weavers == {t \in Thread : pc[t] = "weaving"}

\* Mutants: an age limit off by one; a stale lock that is never recovered.
LockIsStaleAtLimit == lockBy # NoOne /\ lockAge >= Stale
LockIsNeverStale == FALSE
LockIsStale == lockBy # NoOne /\ lockAge > Stale
Unlink == lockBy' = NoOne /\ lockAge' = 0

Goto(t, from, to) == pc[t] = from /\ pc' = [pc EXCEPT ![t] = to]

-----------------------------------------------------------------------------
Init ==
  /\ pc = [t \in Thread |-> "idle"]
  /\ lockBy = NoOne /\ lockAge = 0
  /\ elapsed = [t \in Thread |-> 0]
  /\ row = [t \in Thread |-> "none"]
  /\ orphan = {}
  /\ boot = [b \in Backend |-> "down"]
  /\ owner = "none"
  /\ outside = {}
  /\ crashes = 0
  /\ tainted = FALSE
  /\ late = {}

(***************************************************************************)
(* A run, one action per step that another process can see.               *)
(***************************************************************************)

\* ensure_cycle_owner lets the run in (claiming an unowned space), then the
\* age of the lock file is read.
Begin(t) ==
  /\ boot[Home[t]] = "up"
  /\ owner # "other"
  /\ Goto(t, "idle", IF LockIsStale THEN "unlinking" ELSE "opening")
  /\ owner' = "self"
  /\ UNCHANGED <<lockBy, lockAge, elapsed, row, orphan, boot, outside, crashes, tainted, late>>

\* The unlink of a lock judged stale: it removes whatever file is there now.
UnlinkStale(t) ==
  /\ Goto(t, "unlinking", "opening")
  /\ Unlink
  /\ UNCHANGED <<elapsed, row, orphan, boot, owner, outside, crashes, tainted, late>>

\* open(O_CREAT | O_EXCL) succeeds ...
Acquire(t) ==
  /\ Goto(t, "opening", "entered")
  /\ lockBy = NoOne
  /\ lockBy' = t /\ lockAge' = 0
  /\ elapsed' = [elapsed EXCEPT ![t] = 0]
  /\ late' = IF \E b \in Backend : boot[b] = "recovering" THEN late \cup {t} ELSE late
  /\ UNCHANGED <<row, orphan, boot, owner, outside, crashes, tainted>>

\* ... or fails: 409 "a dream cycle is already running".
Refuse(t) ==
  /\ Goto(t, "opening", "idle")
  /\ lockBy # NoOne
  /\ UNCHANGED <<lockBy, lockAge, elapsed, row, orphan, boot, owner, outside, crashes, tainted, late>>

InsertRow(t) ==
  /\ Goto(t, "entered", "weaving")
  /\ row' = [row EXCEPT ![t] = "running"]
  /\ UNCHANGED <<lockBy, lockAge, elapsed, orphan, boot, owner, outside, crashes, tainted, late>>

\* run_dream_cycle returns or raises.
EndCycle(t) ==
  /\ Goto(t, "weaving", "finishing")
  /\ UNCHANGED <<lockBy, lockAge, elapsed, row, orphan, boot, owner, outside, crashes, tainted, late>>

FinishRow(t) ==
  /\ Goto(t, "finishing", "releasing")
  /\ \E status \in {"ok", "error"} : row' = [row EXCEPT ![t] = status]
  /\ UNCHANGED <<lockBy, lockAge, elapsed, orphan, boot, owner, outside, crashes, tainted, late>>

\* The database refuses the INSERT, a count or _finish_run: the exception
\* leaves through `finally`, and a row already inserted stays 'running'.
DbError(t) ==
  /\ pc[t] \in {"entered", "finishing"}
  /\ pc' = [pc EXCEPT ![t] = "releasing"]
  /\ orphan' = IF pc[t] = "finishing" /\ row[t] = "running"
               THEN orphan \cup {"unfinished"} ELSE orphan
  /\ row' = [row EXCEPT ![t] = "none"]
  /\ UNCHANGED <<lockBy, lockAge, elapsed, boot, owner, outside, crashes, tainted, late>>

\* `finally: _LOCK_PATH.unlink(missing_ok=True)`, whosever file it is.
Release(t) ==
  /\ Goto(t, "releasing", "idle")
  /\ Unlink
  /\ tainted' = (tainted /\ \E u \in Thread \ {t} : Inside(u) \/ pc[u] = "unlinking")
  /\ late' = late \ {t}
  /\ UNCHANGED <<elapsed, row, orphan, boot, owner, outside, crashes>>

Step(t) == \/ UnlinkStale(t) \/ Acquire(t) \/ Refuse(t) \/ InsertRow(t)
           \/ EndCycle(t) \/ FinishRow(t) \/ Release(t)

(***************************************************************************)
(* Process death and startup.                                              *)
(***************************************************************************)

\* The process dies: its threads vanish, the lock file and the rows remain.
Crash(b) ==
  LET dead == {t \in Thread : Home[t] = b} IN
  /\ boot[b] # "down"
  /\ crashes < MaxCrash
  /\ crashes' = crashes + 1
  /\ boot' = [boot EXCEPT ![b] = "down"]
  /\ pc' = [t \in Thread |-> IF t \in dead THEN "idle" ELSE pc[t]]
  /\ orphan' = IF \E t \in dead : row[t] = "running"
               THEN orphan \cup {"killed"} ELSE orphan
  /\ row' = [t \in Thread |-> IF t \in dead THEN "none" ELSE row[t]]
  /\ late' = late \ dead
  /\ UNCHANGED <<lockBy, lockAge, elapsed, owner, outside, tainted>>

\* Mutant: the startup does not look at the lock file.
StartupIgnoringLock(b) ==
  /\ boot[b] = "down"
  /\ boot' = [boot EXCEPT ![b] = "recovering"]
  /\ UNCHANGED <<pc, lockBy, lockAge, elapsed, row, orphan, owner, outside, crashes, tainted, late>>

\* _recover_interrupted_runs looks at the lock file: a fresh one means "a
\* cycle may genuinely be running in another process", and nothing is done.
Startup(b) ==
  /\ boot[b] = "down"
  /\ boot' = [boot EXCEPT ![b] =
                IF lockBy # NoOne /\ ~LockIsStale THEN "up" ELSE "recovering"]
  /\ UNCHANGED <<pc, lockBy, lockAge, elapsed, row, orphan, owner, outside, crashes, tainted, late>>

\* ... otherwise every 'running' row becomes an error.
Recover(b) ==
  /\ boot[b] = "recovering"
  /\ boot' = [boot EXCEPT ![b] = "up"]
  /\ row' = [t \in Thread |-> IF row[t] = "running" THEN "error" ELSE row[t]]
  /\ orphan' = {}
  /\ UNCHANGED <<pc, lockBy, lockAge, elapsed, owner, outside, crashes, tainted, late>>

(***************************************************************************)
(* The environment.                                                        *)
(***************************************************************************)

\* Mutant: the poll of the batch has no deadline.
TickWithoutDeadline ==
  /\ lockBy # NoOne \/ Holders # {}
  /\ elapsed' = [t \in Thread |-> IF Inside(t) THEN elapsed[t] + 1 ELSE elapsed[t]]
  /\ lockAge' = IF lockBy # NoOne /\ lockAge <= Stale THEN lockAge + 1 ELSE lockAge
  /\ tainted' = (tainted \/ (lockBy # NoOne /\ lockAge >= Stale))
  /\ UNCHANGED <<pc, lockBy, row, orphan, boot, owner, outside, crashes, late>>

\* Time passes for the lock file and for the runs, which release the lock
\* within MaxRun of taking it.
Tick ==
  /\ \A t \in Holders : elapsed[t] < MaxRun
  /\ lockBy # NoOne \/ Holders # {}
  /\ elapsed' = [t \in Thread |-> IF Inside(t) THEN elapsed[t] + 1 ELSE elapsed[t]]
  /\ lockAge' = IF lockBy # NoOne /\ lockAge <= Stale THEN lockAge + 1 ELSE lockAge
  /\ tainted' = (tainted \/ (lockBy # NoOne /\ lockAge >= Stale))
  /\ UNCHANGED <<pc, lockBy, row, orphan, boot, owner, outside, crashes, late>>

\* A claim made on this device or on another one becomes the claim of record.
OwnerMoves ==
  /\ owner' \in {"self", "other"} \ {owner}
  /\ UNCHANGED <<pc, lockBy, lockAge, elapsed, row, orphan, boot, outside, crashes, tainted, late>>

\* The MCP tool and the command line call run_dream_cycle directly.
OutsideStarts(o) ==
  /\ o \notin outside /\ outside' = outside \cup {o}
  /\ UNCHANGED <<pc, lockBy, lockAge, elapsed, row, orphan, boot, owner, crashes, tainted, late>>
OutsideEnds(o) ==
  /\ o \in outside /\ outside' = outside \ {o}
  /\ UNCHANGED <<pc, lockBy, lockAge, elapsed, row, orphan, boot, owner, crashes, tainted, late>>

Next ==
  \/ \E t \in Thread : Begin(t) \/ Step(t) \/ DbError(t)
  \/ \E b \in Backend : Crash(b) \/ Startup(b) \/ Recover(b)
  \/ Tick
  \/ OwnerMoves
  \/ \E o \in Outside : OutsideStarts(o) \/ OutsideEnds(o)

Spec == Init /\ [][Next]_vars

(***************************************************************************)
(* Threads and startups make progress, time passes, and the scheduler      *)
(* comes back every 30 s (there is work to do, for it looks at the queue   *)
(* first).  Crashes, database errors, ownership moves, requests and        *)
(* lock-free cycles are never owed.                                        *)
(***************************************************************************)
FairSpec ==
  /\ Spec
  /\ WF_vars(Tick)
  /\ \A t \in Thread : WF_vars(Step(t))
  /\ \A t \in Scheduler : WF_vars(Begin(t))
  /\ \A b \in Backend : WF_vars(Startup(b)) /\ WF_vars(Recover(b))

-----------------------------------------------------------------------------
TypeOK ==
  /\ pc \in [Thread -> Phase]
  /\ lockBy \in Thread \cup {NoOne}
  /\ lockAge \in 0 .. Stale + 1
  /\ elapsed \in [Thread -> 0 .. MaxRun]
  /\ row \in [Thread -> {"none", "running", "ok", "error"}]
  /\ orphan \subseteq {"killed", "unfinished"}
  /\ boot \in [Backend -> {"down", "recovering", "up"}]
  /\ owner \in {"none", "self", "other"}
  /\ outside \subseteq Outside
  /\ crashes \in 0 .. MaxCrash
  /\ tainted \in BOOLEAN
  /\ late \subseteq Thread
-----------------------------------------------------------------------------
(***************************************************************************)
(* Properties.                                                             *)
(***************************************************************************)

\* "The lock prevents overlap" (app.py:52): two locked runs are never inside
\* the lock at once.
MutualExclusion == \A t, u \in Holders : t = u

\* What cycle_lock does guarantee: two runs overlap only after a lock file has
\* been left to outlive _LOCK_STALE_SECONDS, and exclusion is restored as soon
\* as the runs that may have seen that file are over.
ExclusiveUnlessStale == tainted \/ MutualExclusion

\* "A fresh lock file means a cycle may genuinely be running in another
\* process, leave it alone" (_recover_interrupted_runs): while a run weaves in
\* one backend, the startup of another never reports it as interrupted, unless
\* its lock was left to outlive _LOCK_STALE_SECONDS, or it took the lock after
\* that startup had looked for one and before it rewrote the rows.
LiveRunNotInterrupted ==
  tainted \/ \A t \in Weavers \ late : row[t] = "running"

\* A lock file left by a dead process never locks the memory for good: as long
\* as this device keeps the ownership, the lock keeps being granted.
LockKeepsBeingGranted == <>[](owner # "other") => []<>(Holders # {})
=============================================================================
