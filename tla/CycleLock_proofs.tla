--------------------------- MODULE CycleLock_proofs ---------------------------
(***************************************************************************)
(* Proofs about CycleLock, for any number of backends, threads and         *)
(* lock-free cycles, and for any Stale, MaxRun and MaxCrash.               *)
(***************************************************************************)
EXTENDS CycleLock, TLAPS

(***************************************************************************)
(* While no lock file has outlived Stale, the file on disk is that of the  *)
(* run inside the lock and no thread is about to unlink it.                *)
(***************************************************************************)
LockIsRespected ==
  ~tainted => /\ \A t \in Thread : Inside(t) => lockBy = t
              /\ \A t \in Thread : pc[t] # "unlinking"
              /\ lockBy # NoOne => lockAge <= Stale

\* A startup that is about to rewrite the rows found no fresh lock, so the runs
\* now inside the lock took it since; and only their rows can have been
\* rewritten.
RecoveryFoundNoRun ==
  ~tainted => /\ (\E b \in Backend : boot[b] = "recovering") =>
                    \A t \in Thread : Inside(t) => t \in late
              /\ \A t \in Weavers \ late : row[t] = "running"

-----------------------------------------------------------------------------
(***************************************************************************)
(* Every variable keeps its type: phases, the age of the lock file (it     *)
(* saturates), run times, row statuses, process states.                    *)
(***************************************************************************)
THEOREM TypeCorrect == Spec => []TypeOK
<1> USE DEF TypeOK, Phase
<1>1. Init => TypeOK
  <2> SUFFICES ASSUME Init PROVE TypeOK
    OBVIOUS
  <2>1. 0 \in 0 .. Stale + 1 /\ 0 \in 0 .. MaxRun /\ 0 \in 0 .. MaxCrash
    BY TimeAssumption
  <2>2. QED
    BY <2>1 DEF Init
<1>2. TypeOK /\ [Next]_vars => TypeOK'
  <2> SUFFICES ASSUME TypeOK, [Next]_vars PROVE TypeOK'
    OBVIOUS
  <2> USE ThreadAssumption, TimeAssumption DEF Goto, Unlink
  <2>1. ASSUME NEW t \in Thread, Begin(t) PROVE TypeOK'
    BY <2>1 DEF Begin
  <2>2. ASSUME NEW t \in Thread, Step(t) PROVE TypeOK'
    <3>1. CASE UnlinkStale(t)
      BY <3>1 DEF UnlinkStale
    <3>2. CASE Acquire(t)
      BY <3>2 DEF Acquire
    <3>3. CASE Refuse(t)
      BY <3>3 DEF Refuse
    <3>4. CASE InsertRow(t)
      BY <3>4 DEF InsertRow
    <3>5. CASE EndCycle(t)
      BY <3>5 DEF EndCycle
    <3>6. CASE FinishRow(t)
      BY <3>6 DEF FinishRow
    <3>7. CASE Release(t)
      BY <3>7 DEF Release
    <3>8. QED
      BY <2>2, <3>1, <3>2, <3>3, <3>4, <3>5, <3>6, <3>7 DEF Step
  <2>3. ASSUME NEW t \in Thread, DbError(t) PROVE TypeOK'
    BY <2>3 DEF DbError
  <2>4. ASSUME NEW b \in Backend, Crash(b) PROVE TypeOK'
    BY <2>4 DEF Crash
  <2>5. ASSUME NEW b \in Backend, Startup(b) PROVE TypeOK'
    BY <2>5 DEF Startup
  <2>6. ASSUME NEW b \in Backend, Recover(b) PROVE TypeOK'
    BY <2>6 DEF Recover
  <2>7. ASSUME Tick PROVE TypeOK'
    BY <2>7 DEF Tick, Holders, Inside
  <2>8. ASSUME OwnerMoves PROVE TypeOK'
    BY <2>8 DEF OwnerMoves
  <2>9. ASSUME NEW o \in Outside, OutsideStarts(o) \/ OutsideEnds(o) PROVE TypeOK'
    BY <2>9 DEF OutsideStarts, OutsideEnds
  <2>10. CASE UNCHANGED vars
    BY <2>10 DEF vars
  <2>11. QED
    BY <2>1, <2>2, <2>3, <2>4, <2>5, <2>6, <2>7, <2>8, <2>9, <2>10 DEF Next
<1>3. QED
  BY <1>1, <1>2, PTL DEF Spec

-----------------------------------------------------------------------------
(***************************************************************************)
(* LockIsRespected is inductive together with the types.                   *)
(***************************************************************************)
LEMMA LockIsRespectedStep ==
  TypeOK /\ LockIsRespected /\ [Next]_vars => LockIsRespected'
<1> SUFFICES ASSUME TypeOK, LockIsRespected, [Next]_vars PROVE LockIsRespected'
  OBVIOUS
<1> USE ThreadAssumption, TimeAssumption
        DEF TypeOK, Phase, LockIsRespected, Inside, Goto, Unlink, LockIsStale
<1>1. ASSUME NEW t \in Thread, Begin(t) PROVE LockIsRespected'
  BY <1>1 DEF Begin
<1>2. ASSUME NEW t \in Thread, Step(t) PROVE LockIsRespected'
  <2>1. CASE UnlinkStale(t)
    BY <2>1 DEF UnlinkStale
  <2>2. CASE Acquire(t)
    BY <2>2 DEF Acquire
  <2>3. CASE Refuse(t)
    BY <2>3 DEF Refuse
  <2>4. CASE InsertRow(t)
    BY <2>4 DEF InsertRow
  <2>5. CASE EndCycle(t)
    BY <2>5 DEF EndCycle
  <2>6. CASE FinishRow(t)
    BY <2>6 DEF FinishRow
  <2>7. CASE Release(t)
    BY <2>7 DEF Release
  <2>8. QED
    BY <1>2, <2>1, <2>2, <2>3, <2>4, <2>5, <2>6, <2>7 DEF Step
<1>3. ASSUME NEW t \in Thread, DbError(t) PROVE LockIsRespected'
  BY <1>3 DEF DbError
<1>4. ASSUME NEW b \in Backend, Crash(b) PROVE LockIsRespected'
  BY <1>4 DEF Crash
<1>5. ASSUME NEW b \in Backend, Startup(b) \/ Recover(b) PROVE LockIsRespected'
  BY <1>5 DEF Startup, Recover
<1>6. ASSUME Tick PROVE LockIsRespected'
  <2>1. pc' = pc /\ lockBy' = lockBy
    BY <1>6 DEF Tick
  <2>2. CASE tainted \/ (lockBy # NoOne /\ lockAge >= Stale)
    BY <1>6, <2>2 DEF Tick
  <2>3. CASE ~tainted /\ ~(lockBy # NoOne /\ lockAge >= Stale)
    <3>1. lockBy # NoOne => lockAge' <= Stale
      BY <1>6, <2>3 DEF Tick
    <3>2. QED
      BY <2>1, <2>3, <3>1
  <2>4. QED
    BY <2>2, <2>3
<1>7. ASSUME OwnerMoves PROVE LockIsRespected'
  BY <1>7 DEF OwnerMoves
<1>8. ASSUME NEW o \in Outside, OutsideStarts(o) \/ OutsideEnds(o) PROVE LockIsRespected'
  BY <1>8 DEF OutsideStarts, OutsideEnds
<1>9. CASE UNCHANGED vars
  BY <1>9 DEF vars
<1>10. QED
  BY <1>1, <1>2, <1>3, <1>4, <1>5, <1>6, <1>7, <1>8, <1>9 DEF Next

(***************************************************************************)
(* cycle_lock excludes: two runs are inside the lock together only after a *)
(* lock file was left to outlive _LOCK_STALE_SECONDS.                      *)
(***************************************************************************)
THEOREM LockExcludes == Spec => []ExclusiveUnlessStale
<1>1. Init => LockIsRespected
  BY DEF Init, LockIsRespected, Inside
<1>2. LockIsRespected => ExclusiveUnlessStale
  BY DEF LockIsRespected, ExclusiveUnlessStale, MutualExclusion, Holders
<1>3. QED
  BY <1>1, <1>2, LockIsRespectedStep, TypeCorrect, PTL DEF Spec

-----------------------------------------------------------------------------
(***************************************************************************)
(* RecoveryFoundNoRun is inductive together with the types and             *)
(* LockIsRespected: a startup goes on to rewrite the rows only when it saw *)
(* no fresh lock, which the run inside the lock would have shown it.       *)
(***************************************************************************)
LEMMA RecoveryFoundNoRunStep ==
  TypeOK /\ LockIsRespected /\ RecoveryFoundNoRun /\ [Next]_vars => RecoveryFoundNoRun'
<1> SUFFICES ASSUME TypeOK, LockIsRespected, RecoveryFoundNoRun, [Next]_vars
             PROVE  RecoveryFoundNoRun'
  OBVIOUS
<1> USE ThreadAssumption DEF TypeOK, Phase, RecoveryFoundNoRun, Weavers, Inside, Goto, Unlink
<1>1. ASSUME NEW t \in Thread, Begin(t) PROVE RecoveryFoundNoRun'
  BY <1>1 DEF Begin
<1>2. ASSUME NEW t \in Thread, Step(t) PROVE RecoveryFoundNoRun'
  <2>1. CASE UnlinkStale(t)
    BY <2>1 DEF UnlinkStale
  <2>2. CASE Acquire(t)
    BY <2>2 DEF Acquire
  <2>3. CASE Refuse(t)
    BY <2>3 DEF Refuse
  <2>4. CASE InsertRow(t)
    BY <2>4 DEF InsertRow
  <2>5. CASE EndCycle(t)
    BY <2>5 DEF EndCycle
  <2>6. CASE FinishRow(t)
    BY <2>6 DEF FinishRow
  <2>7. CASE Release(t)
    <3>1. CASE ~tainted
      BY <2>7, <3>1 DEF Release
    <3>2. CASE tainted
      <4>1. ~tainted' => \A u \in Thread \ {t} : ~Inside(u)
        BY <2>7, <3>2 DEF Release
      <4>2. ~tainted' => \A u \in Thread : ~Inside(u)'
        BY <2>7, <4>1 DEF Release
      <4>3. QED
        BY <4>2
    <3>3. QED
      BY <3>1, <3>2
  <2>8. QED
    BY <1>2, <2>1, <2>2, <2>3, <2>4, <2>5, <2>6, <2>7 DEF Step
<1>3. ASSUME NEW t \in Thread, DbError(t) PROVE RecoveryFoundNoRun'
  BY <1>3 DEF DbError
<1>4. ASSUME NEW b \in Backend, Crash(b) PROVE RecoveryFoundNoRun'
  BY <1>4 DEF Crash
<1>5. ASSUME NEW b \in Backend, Startup(b) PROVE RecoveryFoundNoRun'
  <2>1. CASE ~tainted /\ boot'[b] = "recovering"
    <3>1. lockBy = NoOne
      BY <1>5, <2>1, TimeAssumption DEF Startup, LockIsStale, LockIsRespected
    <3>2. \A t \in Thread : ~Inside(t)
      BY <2>1, <3>1 DEF LockIsRespected
    <3>3. QED
      BY <1>5, <3>2 DEF Startup
  <2>2. CASE tainted \/ boot'[b] # "recovering"
    BY <1>5, <2>2 DEF Startup
  <2>3. QED
    BY <2>1, <2>2
<1>6. ASSUME NEW b \in Backend, Recover(b) PROVE RecoveryFoundNoRun'
  BY <1>6 DEF Recover
<1>7. ASSUME Tick PROVE RecoveryFoundNoRun'
  BY <1>7 DEF Tick
<1>8. ASSUME OwnerMoves PROVE RecoveryFoundNoRun'
  BY <1>8 DEF OwnerMoves
<1>9. ASSUME NEW o \in Outside, OutsideStarts(o) \/ OutsideEnds(o)
      PROVE RecoveryFoundNoRun'
  BY <1>9 DEF OutsideStarts, OutsideEnds
<1>10. CASE UNCHANGED vars
  BY <1>10 DEF vars
<1>11. QED
  BY <1>1, <1>2, <1>3, <1>4, <1>5, <1>6, <1>7, <1>8, <1>9, <1>10 DEF Next

(***************************************************************************)
(* Startup recovery spares the live runs of every backend of the home,     *)
(* whatever the number of backends, the deaths and the database errors:    *)
(* only a run whose lock outlived _LOCK_STALE_SECONDS, or one that took    *)
(* the lock between that startup's look at it and its UPDATE, can be       *)
(* reported as interrupted while it weaves.                                *)
(***************************************************************************)
THEOREM RecoverySparesLiveRuns == Spec => []LiveRunNotInterrupted
<1>1. Init => LockIsRespected /\ RecoveryFoundNoRun
  BY DEF Init, LockIsRespected, RecoveryFoundNoRun, Inside, Weavers
<1>2. TypeOK /\ LockIsRespected /\ RecoveryFoundNoRun /\ [Next]_vars
        => LockIsRespected' /\ RecoveryFoundNoRun'
  BY LockIsRespectedStep, RecoveryFoundNoRunStep
<1>3. RecoveryFoundNoRun => LiveRunNotInterrupted
  BY DEF RecoveryFoundNoRun, LiveRunNotInterrupted
<1>4. QED
  BY <1>1, <1>2, <1>3, TypeCorrect, PTL DEF Spec
=============================================================================
