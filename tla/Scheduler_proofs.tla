--------------------------- MODULE Scheduler_proofs ---------------------------
(***************************************************************************)
(* Proofs about Scheduler, for any set of captures and of other devices,   *)
(* any threshold, and any number of outages and restarts.                  *)
(***************************************************************************)
EXTENDS Scheduler, TLAPS

(***************************************************************************)
(* What the marker says of the captures that were waiting when the last    *)
(* scheduled hour passed: a run that began since has read them all, and a  *)
(* run that ended has woven them, unless the hour passed inside it.        *)
(***************************************************************************)
PassInv ==
  /\ SlotOwesPass
  /\ at = "weaving" => straddled \/ overdue \cap Queued \subseteq taken
  /\ at = "marking" => taken = {} /\ (straddled \/ overdue \cap Queued = {})
  /\ \A c \in overdue : inbox[c] # "absent"

\* Captures are queued, woven, and never lost.
LEMMA WovenShrinks ==
  ASSUME TypeOK, NEW cs, Woven(cs)
  PROVE  /\ Queued' = Queued \ cs
         /\ \A c \in overdue : inbox[c] # "absent" => inbox'[c] # "absent"
         /\ inbox' \in [Capture -> {"absent", "queued", "woven"}]
BY DEF TypeOK, Woven, Queued

(***************************************************************************)
(* Every variable keeps its type.                                          *)
(***************************************************************************)
THEOREM TypeCorrect == Spec => []TypeOK
<1>1. Init => TypeOK
  <2>1. Init => FlagsOK
    BY DEF Init, FlagsOK
  <2>2. QED
    BY <2>1, SchedulerAssumption DEF Init, TypeOK
<1>2. TypeOK /\ [Next]_schedulerVars => FlagsOK'
  <2> SUFFICES ASSUME FlagsOK, [Next]_schedulerVars PROVE FlagsOK'
    BY DEF TypeOK
  <2> USE DEF FlagsOK, queueVars, loopVars, digestVars, boundVars, Outer
  <2>1. ASSUME Loop PROVE FlagsOK'
    <3>1. CASE CheckDigest
      BY <3>1 DEF CheckDigest
    <3>2. CASE Look \/ NotOwner \/ LockBusy \/ Begin
      BY <3>2 DEF Look, NotOwner, LockBusy, Begin
    <3>3. CASE End
      BY <3>3 DEF End
    <3>4. CASE Abort
      BY <3>4 DEF Abort
    <3>5. CASE Mark
      BY <3>5 DEF Mark
    <3>6. QED
      BY <2>1, <3>1, <3>2, <3>3, <3>4, <3>5 DEF Loop
  <2>2. ASSUME NEW c \in Capture, Post(c) PROVE FlagsOK'
    BY <2>2 DEF Post
  <2>3. CASE SlotPasses
    <3>1. UNCHANGED <<edited, instant, hour, content, digest>> /\ due' = TRUE /\ skipped' = FALSE
      BY <2>3 DEF SlotPasses
    <3>2. straddled' \in BOOLEAN
      BY <2>3 DEF SlotPasses
    <3>3. QED
      BY <3>1, <3>2
  <2>4. CASE ManualBegin \/ ManualEnd \/ Restart
    BY <2>4 DEF ManualBegin, ManualEnd, Restart
  <2>5. CASE Edit \/ HourPasses \/ WeekTurns \/ OwnerMoves
    BY <2>5 DEF Edit, HourPasses, WeekTurns, OwnerMoves
  <2>6. CASE SetFrequency
    <3>1. UNCHANGED <<edited, hour, content, digest>> /\ instant' \in BOOLEAN
      BY <2>6 DEF SetFrequency
    <3>2. due' \in BOOLEAN /\ straddled' \in BOOLEAN /\ skipped' \in BOOLEAN
      BY <2>6 DEF SetFrequency
    <3>3. QED
      BY <3>1, <3>2
  <2>7. CASE UNCHANGED schedulerVars
    BY <2>7 DEF schedulerVars
  <2>8. QED
    BY <2>1, <2>2, <2>3, <2>4, <2>5, <2>6, <2>7 DEF Next
<1>3. TypeOK /\ [Next]_schedulerVars => TypeOK'
  <2> SUFFICES ASSUME TypeOK, FlagsOK', [Next]_schedulerVars PROVE TypeOK'
    BY <1>2
  <2> USE SchedulerAssumption DEF TypeOK, queueVars, loopVars, digestVars, boundVars, Outer
  <2>1. CASE CheckDigest
    BY <2>1 DEF CheckDigest
  <2>2. CASE Look \/ LockBusy \/ Mark
    BY <2>2 DEF Look, LockBusy, Mark
  <2>3. CASE NotOwner
    BY <2>3 DEF NotOwner
  <2>4. CASE Begin
    BY <2>4 DEF Begin, Queued
  <2>5. CASE End
    BY <2>5, WovenShrinks DEF End
  <2>6. CASE Abort
    BY <2>6, WovenShrinks DEF Abort
  <2>7. ASSUME NEW c \in Capture, Post(c) PROVE TypeOK'
    BY <2>7 DEF Post
  <2>8. CASE Edit \/ SlotPasses \/ HourPasses \/ WeekTurns
    BY <2>8 DEF Edit, SlotPasses, HourPasses, WeekTurns, Queued
  <2>9. CASE OwnerMoves
    BY <2>9 DEF OwnerMoves
  <2>10. CASE ManualBegin
    BY <2>10 DEF ManualBegin, Queued
  <2>11. CASE ManualEnd
    BY <2>11, WovenShrinks DEF ManualEnd
  <2>12. CASE Restart
    BY <2>12 DEF Restart
  <2>13. CASE SetFrequency
    <3>1. overdue' \subseteq Capture
      BY <2>13 DEF SetFrequency, Queued
    <3>2. switches' \in 0 .. MaxSwitch
      BY <2>13 DEF SetFrequency
    <3>3. QED
      BY <2>13, <3>1, <3>2 DEF SetFrequency
  <2>14. CASE UNCHANGED schedulerVars
    BY <2>14 DEF schedulerVars
  <2>15. QED
    BY <2>1, <2>2, <2>3, <2>4, <2>5, <2>6, <2>7, <2>8, <2>9, <2>10, <2>11, <2>12, <2>13, <2>14
       DEF Next, Loop
<1>4. QED
  BY <1>1, <1>3, PTL DEF Spec

-----------------------------------------------------------------------------
LEMMA PassStep == TypeOK /\ PassInv /\ [Next]_schedulerVars => PassInv'
<1> SUFFICES ASSUME TypeOK, PassInv, [Next]_schedulerVars PROVE PassInv'
  OBVIOUS
<1> USE DEF PassInv, SlotOwesPass, queueVars, loopVars, digestVars, boundVars, Outer
<1>1. ASSUME UNCHANGED <<inbox, overdue, due, skipped, straddled, taken>>,
             at' \in {at, "digest", "queue", "chosen"}
      PROVE  PassInv'
  BY <1>1 DEF Queued
<1>2. CASE CheckDigest \/ Look \/ NotOwner \/ LockBusy
  BY <1>1, <1>2 DEF CheckDigest, Look, NotOwner, LockBusy
<1>3. CASE Begin
  BY <1>3 DEF Begin, Queued
<1>4. CASE End
  <2>1. at = "weaving" /\ at' = "marking" /\ Woven(taken) /\ taken' = {}
        /\ UNCHANGED <<overdue, due, straddled, skipped>>
    BY <1>4 DEF End
  <2>2. /\ Queued' = Queued \ taken
        /\ \A c \in overdue : inbox[c] # "absent" => inbox'[c] # "absent"
    BY <2>1, WovenShrinks
  <2>3. QED
    BY <2>1, <2>2
<1>5. CASE Abort
  <2>1. PICK done \in SUBSET taken : Woven(done)
    BY <1>5 DEF Abort
  <2>2. /\ Queued' = Queued \ done
        /\ \A c \in overdue : inbox[c] # "absent" => inbox'[c] # "absent"
    BY <2>1, WovenShrinks
  <2>3. at' = "digest" /\ UNCHANGED <<overdue, due, straddled, skipped>>
    BY <1>5 DEF Abort
  <2>4. QED
    BY <2>2, <2>3
<1>6. CASE Mark
  <2>1. /\ at = "marking" /\ at' = "digest" /\ due' = FALSE /\ skipped' = straddled
        /\ UNCHANGED <<inbox, overdue>>
    BY <1>6 DEF Mark
  <2>2. Queued' = Queued
    BY <2>1 DEF Queued
  <2>3. QED
    BY <2>1, <2>2
\* A capture that is posted was not overdue: it was absent.
<1>7. ASSUME NEW c \in Capture, Post(c) PROVE PassInv'
  <2>1. c \notin overdue /\ Queued' = Queued \cup {c} /\ \A d \in overdue : inbox'[d] # "absent"
    BY <1>7 DEF Post, Queued, TypeOK
  <2>2. UNCHANGED <<overdue, due, skipped, straddled, taken, at>>
    BY <1>7 DEF Post
  <2>3. QED
    BY <2>1, <2>2
<1>8. CASE SlotPasses
  <2>1. /\ due' /\ overdue' = Queued /\ straddled' = (at \in {"weaving", "marking"})
        /\ UNCHANGED <<inbox, at, taken>>
    BY <1>8 DEF SlotPasses
  <2>2. QED
    BY <2>1 DEF Queued
<1>9. CASE Edit \/ HourPasses \/ WeekTurns \/ OwnerMoves \/ ManualBegin
  BY <1>1, <1>9 DEF Edit, HourPasses, WeekTurns, OwnerMoves, ManualBegin
<1>10. CASE ManualEnd
  <2>1. /\ Queued' = Queued \ UNION manual
        /\ \A c \in overdue : inbox[c] # "absent" => inbox'[c] # "absent"
    BY <1>10, WovenShrinks DEF ManualEnd
  <2>2. UNCHANGED <<overdue, due, skipped, straddled, taken, at>>
    BY <1>10 DEF ManualEnd
  <2>3. QED
    BY <2>1, <2>2
<1>11. CASE Restart
  <2>1. at' = "digest" /\ UNCHANGED <<inbox, overdue, due, skipped>>
    BY <1>11 DEF Restart
  <2>2. QED
    BY <2>1 DEF Queued
\* Other hours: the same last one, one that a pass has served, or one that is due.
<1>12. CASE SetFrequency
  <2>1. UNCHANGED <<inbox, at, taken>> /\ Queued' = Queued
    BY <1>12 DEF SetFrequency, Queued
  <2>2. CASE UNCHANGED <<due, overdue, straddled, skipped>>
    BY <2>1, <2>2
  <2>3. CASE due' = FALSE /\ overdue' = {} /\ straddled' = FALSE /\ skipped' = FALSE
    BY <2>1, <2>3
  <2>4. ASSUME NEW later \in SUBSET Queued, due', overdue' = later,
               straddled' = (at \in {"weaving", "marking"} /\ ~(later \subseteq taken))
        PROVE  PassInv'
    BY <2>1, <2>4 DEF Queued
  <2>5. QED
    BY <1>12, <2>2, <2>3, <2>4 DEF SetFrequency
<1>13. CASE UNCHANGED schedulerVars
  BY <1>1, <1>13 DEF schedulerVars
<1>14. QED
  BY <1>2, <1>3, <1>4, <1>5, <1>6, <1>7, <1>8, <1>9, <1>10, <1>11, <1>12, <1>13 DEF Next, Loop

(***************************************************************************)
(* A scheduled hour that finds captures waiting leaves them a pass, which  *)
(* no outage, refusal, death or run of the app takes away before they are  *)
(* woven, unless the hour passed inside the run whose end touched the      *)
(* marker, or the user chose other hours since (_should_consolidate,       *)
(* _mark_consolidated, put_cycle_frequency).                               *)
(***************************************************************************)
THEOREM SlotsAreRecovered == Spec => []SlotOwesPass
<1>1. Init => PassInv
  BY DEF Init, PassInv, SlotOwesPass
<1>2. PassInv => SlotOwesPass
  BY DEF PassInv
<1>3. QED
  BY <1>1, <1>2, PassStep, TypeCorrect, PTL DEF Spec
=============================================================================
