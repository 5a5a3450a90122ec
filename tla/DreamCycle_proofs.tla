-------------------------- MODULE DreamCycle_proofs --------------------------
(***************************************************************************)
(* Proofs about DreamCycle, for any number of captures, runs, rejected     *)
(* captures, replays and process deaths.                                   *)
(***************************************************************************)
EXTENDS DreamCycle, TLAPS, FiniteSetTheorems

(***************************************************************************)
(* The classification a run holds is whole or empty, and so is the one     *)
(* each capture was routed from.                                           *)
(***************************************************************************)
HandsAreWhole ==
  /\ \A r \in Run : \A c \in Capture : hand[r][c] \in {{}, Half}
  /\ \A r \in Run : pc[r] = "classified" => \A c \in Oldest(r) : hand[r][c] = Half
  /\ NeverHalfClassified

\* An idle run has forgotten everything, and a capture that two runs have in
\* their snapshots is known as such.
RunsForget ==
  \A r \in Run : ~Active(r) => todo[r] = {} /\ touched[r] = {} /\ marked[r] = {}
ContentionIsKnown ==
  \A r, s \in Run : \A c \in todo[r] \cap todo[s] : r # s => c \in twins

WeaveInv == RunsForget /\ ContentionIsKnown /\ UnroutedStaysQueued /\ WovenExactlyOnce

-----------------------------------------------------------------------------
LEMMA CaptureFinite ==
  ASSUME NEW S \in SUBSET Capture
  PROVE  IsFiniteSet(S) /\ Cardinality(S) \in 0 .. NCapture
<1>1. IsFiniteSet(Capture) /\ Cardinality(Capture) = NCapture
  BY CaptureAssumption, FS_Interval DEF Capture
<1>2. IsFiniteSet(S) /\ Cardinality(S) <= NCapture
  BY <1>1, FS_Subset
<1>3. QED
  BY <1>2, CaptureAssumption, FS_CardinalityType

LEMMA MergeIsWhole == ASSUME NEW h PROVE Merge(h) \in {{}, Half}
BY DEF Merge

(***************************************************************************)
(* Every variable keeps its type.                                          *)
(***************************************************************************)
THEOREM TypeCorrect == Spec => []TypeOK
<1> USE DEF TypeOK, NoHand
<1>1. Init => TypeOK
  <2> SUFFICES ASSUME Init PROVE TypeOK
    OBVIOUS
  <2>1. 0 \in 0 .. NCapture /\ 0 \in 0 .. MaxReprocess /\ 0 \in 0 .. MaxArrive /\ 0 \in 0 .. MaxKill
    BY CaptureAssumption, BoundAssumption
  <2>2. QED
    BY <2>1 DEF Init
<1>2. TypeOK /\ [Next]_vars => TypeOK'
  <2> SUFFICES ASSUME TypeOK, [Next]_vars PROVE TypeOK'
    OBVIOUS
  <2> USE DEF inboxVars, memoryVars, runVars, countVars, Forget
  <2>1. ASSUME NEW c \in Capture, Post(c) \/ Requeue(c) \/ EditFact(c) PROVE TypeOK'
    BY <2>1 DEF Post, Requeue, EditFact
  <2>1a. ASSUME NEW c \in Capture, Arrive(c) PROVE TypeOK'
    BY <2>1a, BoundAssumption DEF Arrive, Mark
  <2>2. ASSUME NEW c \in Capture, Reprocess(c) PROVE TypeOK'
    BY <2>2, BoundAssumption DEF Reprocess
  <2>3. ASSUME NEW r \in Run, Start(r) PROVE TypeOK'
    <3>1. Queue \in SUBSET Capture /\ Cardinality(Processed) \in 0 .. NCapture
      BY CaptureFinite DEF Queue, Processed
    <3>2. QED
      BY <2>3, <3>1 DEF Start
  <2>4. ASSUME NEW r \in Run, BatchClassify(r) PROVE TypeOK'
    <3>1. PICK got \in [todo[r] -> SUBSET Half] :
            hand' = [hand EXCEPT ![r] = [c \in Capture |->
                        IF c \in todo[r] THEN Merge(got[c]) ELSE {}]]
      BY <2>4 DEF BatchClassify
    <3>2. [c \in Capture |-> IF c \in todo[r] THEN Merge(got[c]) ELSE {}]
            \in [Capture -> SUBSET Half]
      BY MergeIsWhole
    <3>3. hand' \in [Run -> [Capture -> SUBSET Half]]
      BY <3>1, <3>2
    <3>4. QED
      BY <2>4, <3>3 DEF BatchClassify
  <2>5. ASSUME NEW r \in Run, Classify(r) PROVE TypeOK'
    BY <2>5 DEF Classify, Oldest
  <2>6. ASSUME NEW r \in Run, Route(r) PROVE TypeOK'
    BY <2>6 DEF Route, Oldest, Mark
  <2>7. ASSUME NEW r \in Run, Validate(r) \/ Vectorize(r) PROVE TypeOK'
    BY <2>7 DEF Validate, Vectorize
  <2>8. ASSUME NEW r \in Run, Resummarize(r) PROVE TypeOK'
    BY <2>8 DEF Resummarize
  <2>9. ASSUME NEW r \in Run, Report(r) PROVE TypeOK'
    BY <2>9, CaptureAssumption DEF Report
  <2>10. ASSUME NEW r \in Run, Abort(r) PROVE TypeOK'
    BY <2>10, CaptureAssumption DEF Abort
  <2>11. CASE Kill
    BY <2>11, BoundAssumption, CaptureAssumption DEF Kill
  <2>12. CASE UNCHANGED vars
    BY <2>12 DEF vars
  <2>13. QED
    BY <2>1, <2>1a, <2>2, <2>3, <2>4, <2>5, <2>6, <2>7, <2>8, <2>9, <2>10, <2>11, <2>12 DEF Next
<1>3. QED
  BY <1>1, <1>2, PTL DEF Spec

-----------------------------------------------------------------------------
(***************************************************************************)
(* WeaveInv is inductive together with the types.                          *)
(***************************************************************************)
LEMMA WeaveStep == TypeOK /\ WeaveInv /\ [Next]_vars => WeaveInv'
<1> SUFFICES ASSUME TypeOK, WeaveInv, [Next]_vars PROVE WeaveInv'
  OBVIOUS
<1> USE DEF TypeOK, WeaveInv, RunsForget, ContentionIsKnown, UnroutedStaysQueued, WovenExactlyOnce,
            Active, Forget, inboxVars, memoryVars, runVars, countVars
<1>1. ASSUME NEW c \in Capture, Post(c) PROVE WeaveInv'
  BY <1>1 DEF Post
<1>2. ASSUME NEW c \in Capture, Requeue(c) PROVE WeaveInv'
  BY <1>2 DEF Requeue
<1>3. ASSUME NEW c \in Capture, Reprocess(c) PROVE WeaveInv'
  BY <1>3 DEF Reprocess, Contended
<1>4. ASSUME NEW c \in Capture, EditFact(c) PROVE WeaveInv'
  BY <1>4 DEF EditFact
<1>4a. ASSUME NEW c \in Capture, Arrive(c) PROVE WeaveInv'
  BY <1>4a DEF Arrive, Mark
<1>5. ASSUME NEW r \in Run, Start(r) PROVE WeaveInv'
  <2>1. todo' = [todo EXCEPT ![r] = Queue] /\ pc'[r] # "idle" /\ \A s \in Run : s # r => pc'[s] = pc[s]
    BY <1>5 DEF Start
  <2>2. twins' = twins \cup {c \in Queue : \E s \in Run : c \in todo[s]} /\ Queue \subseteq Capture
    BY <1>5 DEF Start, Queue
  <2>3. UNCHANGED <<inbox, derived, touched, marked>>
    BY <1>5 DEF Start
  <2>4. RunsForget' /\ ContentionIsKnown'
    BY <2>1, <2>2, <2>3
  <2>5. UnroutedStaysQueued' /\ WovenExactlyOnce'
    BY <2>1, <2>2, <2>3 DEF Queue
  <2>6. QED
    BY <2>4, <2>5
<1>6. ASSUME NEW r \in Run, BatchClassify(r) PROVE WeaveInv'
  BY <1>6 DEF BatchClassify
<1>7. ASSUME NEW r \in Run, Classify(r) PROVE WeaveInv'
  BY <1>7 DEF Classify
<1>8. ASSUME NEW r \in Run, Route(r) PROVE WeaveInv'
  <2>1. PICK c \in Oldest(r) :
          /\ todo' = [todo EXCEPT ![r] = @ \ {c}]
          /\ touched' = [touched EXCEPT ![r] = @ \cup {c}]
          /\ Mark(c)
          /\ derived' = [derived EXCEPT ![c] = @ + 1]
    BY <1>8 DEF Route
  <2>2. c \in todo[r] /\ c \in Capture
    BY DEF Oldest
  <2>3. pc' = [pc EXCEPT ![r] = "looping"] /\ pc[r] = "classified" /\ twins' = twins
    BY <1>8 DEF Route
  <2>4. RunsForget' /\ ContentionIsKnown'
    BY <2>1, <2>3 DEF Mark
  <2>5. inbox' = [inbox EXCEPT ![c] = "processed"]
    BY <2>1 DEF Mark
  <2>6. UnroutedStaysQueued'
    BY <2>1, <2>2, <2>3, <2>5
  <2>7. WovenExactlyOnce'
    BY <2>1, <2>2, <2>3, <2>5
  <2>8. QED
    BY <2>4, <2>6, <2>7
<1>9. ASSUME NEW r \in Run, Validate(r) \/ Resummarize(r) \/ Vectorize(r) PROVE WeaveInv'
  <2>1. CASE Validate(r)
    BY <2>1 DEF Validate
  <2>2. CASE Resummarize(r)
    BY <2>2 DEF Resummarize
  <2>3. CASE Vectorize(r)
    BY <2>3 DEF Vectorize
  <2>4. QED
    BY <1>9, <2>1, <2>2, <2>3
<1>10. ASSUME NEW r \in Run, Report(r) \/ Abort(r) PROVE WeaveInv'
  <2>1. /\ pc' = [pc EXCEPT ![r] = "idle"] /\ todo' = [todo EXCEPT ![r] = {}]
        /\ touched' = [touched EXCEPT ![r] = {}] /\ marked' = [marked EXCEPT ![r] = {}]
        /\ inbox' = inbox /\ derived' = derived /\ twins' = twins
    BY <1>10 DEF Report, Abort
  <2>2. RunsForget' /\ ContentionIsKnown'
    BY <2>1
  <2>3. UnroutedStaysQueued' /\ WovenExactlyOnce'
    BY <2>1
  <2>4. QED
    BY <2>2, <2>3
<1>11. CASE Kill
  BY <1>11 DEF Kill
<1>12. CASE UNCHANGED vars
  BY <1>12 DEF vars
<1>13. QED
  BY <1>1, <1>2, <1>3, <1>4, <1>4a, <1>5, <1>6, <1>7, <1>8, <1>9, <1>10, <1>11, <1>12 DEF Next

\* No capture is posted, no run is active at the beginning.
LEMMA WeaveInit == Init => WeaveInv
BY DEF Init, WeaveInv, RunsForget, ContentionIsKnown, UnroutedStaysQueued, WovenExactlyOnce, Active

(***************************************************************************)
(* A processed capture has been woven once, and a waiting one not at all,  *)
(* through any aborts, crashes, replays, overlapping cycles and pages of   *)
(* other devices, unless two runs or two devices had it to weave at once.  *)
(***************************************************************************)
THEOREM ExactlyOnce == Spec => []WovenExactlyOnce
<1>1. TypeOK /\ WeaveInv /\ [Next]_vars => WeaveInv'
  BY WeaveStep
<1>2. WeaveInv => WovenExactlyOnce
  BY DEF WeaveInv
<1>3. QED
  BY <1>1, <1>2, WeaveInit, TypeCorrect, PTL DEF Spec

(***************************************************************************)
(* No half of a classification is ever woven, however the answers of a     *)
(* batch come back and even when runs overlap.                             *)
(***************************************************************************)
LEMMA HandsStep ==
  TypeOK /\ HandsAreWhole /\ [Next]_vars => HandsAreWhole'
<1> SUFFICES ASSUME TypeOK, HandsAreWhole, [Next]_vars PROVE HandsAreWhole'
  OBVIOUS
<1> USE DEF TypeOK, HandsAreWhole, NeverHalfClassified, NoHand, Forget, Oldest,
            inboxVars, memoryVars, runVars, countVars
<1>1. ASSUME NEW c \in Capture, Post(c) \/ Requeue(c) \/ Reprocess(c) \/ EditFact(c)
      PROVE  HandsAreWhole'
  BY <1>1 DEF Post, Requeue, Reprocess, EditFact
<1>1a. ASSUME NEW c \in Capture, Arrive(c) PROVE HandsAreWhole'
  BY <1>1a DEF Arrive
<1>2. ASSUME NEW r \in Run, Start(r) PROVE HandsAreWhole'
  BY <1>2 DEF Start
<1>3. ASSUME NEW r \in Run, BatchClassify(r) PROVE HandsAreWhole'
  BY <1>3, MergeIsWhole DEF BatchClassify
<1>4. ASSUME NEW r \in Run, Classify(r) PROVE HandsAreWhole'
  <2>1. PICK c \in Oldest(r) : hand' = [hand EXCEPT ![r][c] = IF @ = {} THEN Half ELSE @]
    BY <1>4 DEF Classify
  <2>2. c \in Capture /\ Oldest(r) \subseteq {c} /\ Oldest(r)' = Oldest(r)
    BY <1>4, <2>1 DEF Classify, Capture
  <2>3. hand'[r][c] = Half
    BY <2>1, <2>2
  <2>4. \A s \in Run : \A d \in Capture : hand'[s][d] \in {hand[s][d], Half}
    BY <2>1, <2>2
  <2>5. \A s \in Run : s # r => hand'[s] = hand[s] /\ pc'[s] = pc[s]
    BY <1>4, <2>1 DEF Classify
  <2>6. todo' = todo /\ derived' = derived /\ routedFrom' = routedFrom
    BY <1>4 DEF Classify
  <2>7. NeverHalfClassified'
    BY <2>6
  <2>8. \A s \in Run : \A d \in Capture : hand'[s][d] \in {{}, Half}
    BY <2>4
  <2>9. ASSUME NEW s \in Run, pc'[s] = "classified", NEW d \in Oldest(s)' PROVE hand'[s][d] = Half
    <3>1. CASE s = r
      BY <2>2, <2>3, <2>9, <3>1
    <3>2. CASE s # r
      BY <2>5, <2>6, <2>9, <3>2
    <3>3. QED
      BY <3>1, <3>2
  <2>10. QED
    BY <2>7, <2>8, <2>9
<1>5. ASSUME NEW r \in Run, Route(r) PROVE HandsAreWhole'
  BY <1>5 DEF Route
<1>6a. ASSUME NEW r \in Run, Validate(r) \/ Resummarize(r) \/ Vectorize(r)
       PROVE  HandsAreWhole'
  <2>1. PICK next \in {"resummarizing", "vectorizing", "reporting"} :
          /\ pc' = [pc EXCEPT ![r] = next]
          /\ UNCHANGED <<todo, hand, derived, routedFrom>>
    BY <1>6a DEF Validate, Resummarize, Vectorize
  <2>2. QED
    BY <2>1
<1>6b. ASSUME NEW r \in Run, Report(r) \/ Abort(r) PROVE HandsAreWhole'
  <2>1. pc' = [pc EXCEPT ![r] = "idle"] /\ hand' = [hand EXCEPT ![r] = [c \in Capture |-> {}]]
        /\ todo' = [todo EXCEPT ![r] = {}] /\ derived' = derived /\ routedFrom' = routedFrom
    BY <1>6b DEF Report, Abort
  <2>2. QED
    BY <2>1
<1>7. CASE Kill
  BY <1>7 DEF Kill
<1>8. CASE UNCHANGED vars
  BY <1>8 DEF vars
<1>9. QED
  BY <1>1, <1>1a, <1>2, <1>3, <1>4, <1>5, <1>6a, <1>6b, <1>7, <1>8 DEF Next

THEOREM NoHalfWoven == Spec => []NeverHalfClassified
<1>1. Init => HandsAreWhole
  BY DEF Init, HandsAreWhole, NeverHalfClassified, NoHand
<1>2. HandsAreWhole => NeverHalfClassified
  BY DEF HandsAreWhole
<1>3. QED
  BY <1>1, <1>2, HandsStep, TypeCorrect, PTL DEF Spec

(***************************************************************************)
(* The inbox implements the ledger: whatever a run does, the user sees     *)
(* captures accepted once, woven one at a time and taken back on request.  *)
(***************************************************************************)
THEOREM LedgerRefinement == Spec => ImplementsLedger
<1>1. Init => Ledger!Init
  BY DEF Init, Ledger!Init, ledger
<1>2. TypeOK /\ WeaveInv /\ [Next]_vars => [Ledger!Next]_ledger
  <2> SUFFICES ASSUME TypeOK, WeaveInv, [Next]_vars PROVE Ledger!Next \/ ledger' = ledger
    OBVIOUS
  <2> USE DEF TypeOK, inboxVars, memoryVars, runVars, countVars
  <2> DEFINE state(i, d, w) ==
        CASE i = "absent" -> "absent" [] i = "queued" -> "waiting" [] i = "failed" -> "refused"
          [] i = "processed" -> IF d = 1 \/ w THEN "woven" ELSE "duplicated"
  <2>0. /\ ledger = [c \in Capture |-> state(inbox[c], derived[c], c \in twins)]
        /\ ledger' = [c \in Capture |-> state(inbox'[c], derived'[c], c \in twins')]
    BY DEF ledger
  <2>1. ASSUME NEW c \in Capture, inbox[c] = "processed" PROVE ledger[c] = "woven"
    BY <2>0, <2>1 DEF WeaveInv, WovenExactlyOnce
  <2>2. ASSUME NEW c \in Capture, \A e \in Capture \ {c} : ledger'[e] = ledger[e]
        PROVE  ledger' = [ledger EXCEPT ![c] = ledger'[c]]
    <3>1. DOMAIN ledger = Capture /\ DOMAIN ledger' = Capture
      BY DEF ledger
    <3>2. \A e \in Capture : ledger'[e] = [ledger EXCEPT ![c] = ledger'[c]][e]
      BY <2>2, <3>1
    <3>3. QED
      BY <2>0, <3>1, <3>2
  <2>2a. ASSUME NEW c \in Capture, \A e \in Capture \ {c} : ledger'[e] = ledger[e],
                ledger'[c] = ledger[c]
         PROVE  ledger' = ledger
    <3>1. \A e \in Capture : ledger'[e] = ledger[e]
      BY <2>2a
    <3>2. QED
      BY <2>0, <3>1
  <2>3. ASSUME NEW c \in Capture,
               \A e \in Capture \ {c} : /\ inbox'[e] = inbox[e] /\ derived'[e] = derived[e]
                                        /\ e \in twins' <=> e \in twins
        PROVE  \A e \in Capture \ {c} : ledger'[e] = ledger[e]
    BY <2>0, <2>3
  <2>4. ASSUME NEW c \in Capture, Post(c) PROVE Ledger!Accept(c)
    <3>1. ledger[c] = "absent" /\ ledger'[c] = "waiting"
      BY <2>0, <2>4 DEF Post
    <3>2. \A e \in Capture \ {c} : ledger'[e] = ledger[e]
      BY <2>3, <2>4 DEF Post
    <3>3. QED
      BY <2>2, <3>1, <3>2 DEF Ledger!Accept, Ledger!Moves
  <2>5. ASSUME NEW c \in Capture, Requeue(c) PROVE Ledger!TakeBack(c)
    <3>1. ledger[c] = "refused" /\ ledger'[c] = "waiting"
      BY <2>0, <2>5 DEF Requeue
    <3>2. \A e \in Capture \ {c} : ledger'[e] = ledger[e]
      BY <2>3, <2>5 DEF Requeue
    <3>3. QED
      BY <2>2, <3>1, <3>2 DEF Ledger!TakeBack, Ledger!Moves
  <2>6. ASSUME NEW c \in Capture, Reprocess(c) PROVE Ledger!TakeBack(c) \/ ledger' = ledger
    <3>1. ledger'[c] = "waiting" /\ ledger[c] \in {"waiting", "refused", "woven"}
      BY <2>0, <2>1, <2>6 DEF Reprocess
    <3>2. \A e \in Capture \ {c} : ledger'[e] = ledger[e]
      BY <2>3, <2>6 DEF Reprocess
    <3>3. ledger' = [ledger EXCEPT ![c] = "waiting"]
      BY <2>2, <3>1, <3>2
    <3>4. CASE ledger[c] = "waiting"
      BY <2>2a, <3>1, <3>2, <3>4
    <3>5. CASE ledger[c] \in {"refused", "woven"}
      BY <3>3, <3>5 DEF Ledger!TakeBack, Ledger!Moves
    <3>6. QED
      BY <3>1, <3>4, <3>5
  <2>7. ASSUME NEW c \in Capture, Arrive(c) PROVE Ledger!Receive(c) \/ ledger' = ledger
    <3>1. ledger'[c] = "woven"
      <4>1. inbox'[c] = "processed" /\ derived'[c] = derived[c] + 1
        BY <2>7 DEF Arrive, Mark
      <4>2. derived'[c] = 1 \/ c \in twins'
        BY <2>7, <4>1 DEF Arrive
      <4>3. QED
        BY <2>0, <4>1, <4>2
    <3>2. \A e \in Capture \ {c} : ledger'[e] = ledger[e]
      BY <2>3, <2>7 DEF Arrive, Mark
    <3>3. ledger' = [ledger EXCEPT ![c] = "woven"]
      BY <2>2, <3>1, <3>2
    <3>4. ledger[c] \in {"absent", "waiting", "refused", "woven"}
      BY <2>0, <2>1
    <3>5. CASE ledger[c] = "woven"
      BY <2>2a, <3>1, <3>2, <3>5
    <3>6. CASE ledger[c] \in {"absent", "waiting", "refused"}
      BY <3>3, <3>6 DEF Ledger!Receive, Ledger!Moves
    <3>7. QED
      BY <3>4, <3>5, <3>6
  <2>8. ASSUME NEW r \in Run, Route(r) PROVE Ledger!Next \/ ledger' = ledger
    <3>1. PICK c \in Oldest(r) : Mark(c) /\ derived' = [derived EXCEPT ![c] = @ + 1] /\ twins' = twins
      BY <2>8 DEF Route
    <3>2. c \in Capture /\ inbox'[c] = "processed"
      BY <3>1 DEF Oldest, Mark
    <3>3. \A e \in Capture \ {c} : ledger'[e] = ledger[e]
      BY <2>3, <3>1, <3>2 DEF Mark
    <3>4. CASE c \in twins
      <4>1. ledger'[c] = "woven"
        BY <2>0, <3>1, <3>2, <3>4
      <4>2. ledger' = [ledger EXCEPT ![c] = "woven"]
        BY <2>2, <3>2, <3>3, <4>1
      <4>3. ledger[c] \in {"absent", "waiting", "refused", "woven"}
        BY <2>0, <2>1, <3>2
      <4>4. CASE ledger[c] = "woven"
        BY <2>2a, <3>2, <3>3, <4>1, <4>4
      <4>5. CASE ledger[c] \in {"absent", "waiting", "refused"}
        BY <3>2, <4>2, <4>5 DEF Ledger!Next, Ledger!Receive, Ledger!Moves
      <4>6. QED
        BY <4>3, <4>4, <4>5
    <3>5. CASE c \notin twins
      <4>1. inbox[c] = "queued" /\ derived[c] = 0
        BY <3>2, <3>5 DEF Oldest, WeaveInv, UnroutedStaysQueued, WovenExactlyOnce
      <4>2. ledger[c] = "waiting" /\ ledger'[c] = "woven"
        BY <2>0, <3>1, <3>2, <4>1
      <4>3. QED
        BY <2>2, <3>2, <3>3, <4>2 DEF Ledger!Next, Ledger!Weave, Ledger!Moves
    <3>6. QED
      BY <3>4, <3>5
  <2>9. ASSUME NEW r \in Run, Start(r) PROVE ledger' = ledger
    <3>1. /\ UNCHANGED <<inbox, derived>>
          /\ \A c \in Capture : inbox[c] = "processed" => (c \in twins' <=> c \in twins)
      BY <2>9 DEF Start, Queue
    <3>2. \A c \in Capture : ledger'[c] = ledger[c]
      BY <2>0, <3>1
    <3>3. QED
      BY <2>0, <3>2
  <2>10. ASSUME UNCHANGED <<inbox, derived, twins>> PROVE ledger' = ledger
    BY <2>10 DEF ledger
  <2>11. ASSUME NEW c \in Capture, EditFact(c) PROVE UNCHANGED <<inbox, derived, twins>>
    BY <2>11 DEF EditFact
  <2>12. ASSUME NEW r \in Run,
                BatchClassify(r) \/ Classify(r) \/ Validate(r)
                \/ Resummarize(r) \/ Vectorize(r) \/ Report(r) \/ Abort(r)
         PROVE  UNCHANGED <<inbox, derived, twins>>
    BY <2>12 DEF BatchClassify, Classify, Validate, Resummarize, Vectorize, Report, Abort
  <2>13. Kill \/ UNCHANGED vars => UNCHANGED <<inbox, derived, twins>>
    BY DEF Kill, vars
  <2>14. QED
    BY <2>4, <2>5, <2>6, <2>7, <2>8, <2>9, <2>10, <2>11, <2>12, <2>13 DEF Next, Ledger!Next
<1>3. QED
  BY <1>1, <1>2, WeaveInit, WeaveStep, TypeCorrect, PTL DEF Spec, ImplementsLedger, Ledger!Spec

-----------------------------------------------------------------------------
(***************************************************************************)
(* Whatever runs and devices weave it at once, a capture that is marked    *)
(* has been woven.                                                         *)
(***************************************************************************)
THEOREM MarkedIsWoven == Spec => []NothingConsumed
<1>1. Init => NothingConsumed
  BY DEF Init, NothingConsumed
<1>2. TypeOK /\ NothingConsumed /\ [Next]_vars => NothingConsumed'
  <2> SUFFICES ASSUME TypeOK, NothingConsumed, [Next]_vars PROVE NothingConsumed'
    OBVIOUS
  <2> USE DEF TypeOK, NothingConsumed, inboxVars, memoryVars, runVars, countVars
  <2>1. ASSUME NEW c \in Capture, Post(c) \/ Requeue(c) \/ Reprocess(c) PROVE NothingConsumed'
    BY <2>1 DEF Post, Requeue, Reprocess
  <2>1a. ASSUME NEW c \in Capture, Arrive(c) PROVE NothingConsumed'
    BY <2>1a DEF Arrive, Mark
  <2>2. ASSUME NEW r \in Run, Route(r) PROVE NothingConsumed'
    <3>1. PICK c \in Oldest(r) : /\ inbox' = [inbox EXCEPT ![c] = "processed"]
                                 /\ derived' = [derived EXCEPT ![c] = @ + 1]
      BY <2>2 DEF Route, Mark
    <3>2. QED
      BY <3>1 DEF Oldest
  <2>3. ASSUME UNCHANGED <<inbox, derived>> PROVE NothingConsumed'
    BY <2>3
  <2>4. ASSUME NEW c \in Capture, EditFact(c) PROVE UNCHANGED <<inbox, derived>>
    BY <2>4 DEF EditFact
  <2>5. ASSUME NEW r \in Run,
               Start(r) \/ BatchClassify(r) \/ Classify(r) \/ Validate(r)
               \/ Resummarize(r) \/ Vectorize(r) \/ Report(r) \/ Abort(r)
        PROVE  UNCHANGED <<inbox, derived>>
    BY <2>5 DEF Start, BatchClassify, Classify, Validate, Resummarize, Vectorize, Report, Abort
  <2>6. Kill \/ UNCHANGED vars => UNCHANGED <<inbox, derived>>
    BY DEF Kill, vars
  <2>7. QED
    BY <2>1, <2>1a, <2>2, <2>3, <2>4, <2>5, <2>6 DEF Next
<1>3. QED
  BY <1>1, <1>2, TypeCorrect, PTL DEF Spec

-----------------------------------------------------------------------------
(***************************************************************************)
(* What counts as processed while a run works was so when it began, or has *)
(* been marked since.                                                      *)
(***************************************************************************)
CountInv ==
  \A r \in Run : Active(r) =>
    \E P \in SUBSET Capture : /\ Cardinality(P) = before[r]
                             /\ Processed \subseteq P \cup marked[r]

\* CountInv is preserved by what marks captures, and by what takes the mark away.
LEMMA CountGrowsWithMarks ==
  ASSUME CountInv, NEW N \in SUBSET Capture,
         Processed' \subseteq Processed \cup N, before' = before,
         \A r \in Run : pc'[r] # "idle" => pc[r] # "idle" /\ marked[r] \cup N \subseteq marked'[r]
  PROVE  CountInv'
<1> SUFFICES ASSUME NEW r \in Run, pc'[r] # "idle"
             PROVE  \E P \in SUBSET Capture : /\ Cardinality(P) = before'[r]
                                             /\ Processed' \subseteq P \cup marked'[r]
  BY DEF CountInv, Active
<1>1. PICK P \in SUBSET Capture : Cardinality(P) = before[r] /\ Processed \subseteq P \cup marked[r]
  BY DEF CountInv, Active
<1>2. Processed' \subseteq P \cup marked'[r]
  BY <1>1
<1>3. QED
  BY <1>1, <1>2

LEMMA CountStep == TypeOK /\ TypeOK' /\ CountInv /\ [Next]_vars => CountInv'
<1> SUFFICES ASSUME TypeOK, TypeOK', CountInv, [Next]_vars PROVE CountInv'
  OBVIOUS
<1> USE DEF TypeOK, Active, inboxVars, memoryVars, runVars, countVars
<1>0. ASSUME Processed' \subseteq Processed, before' = before, marked' = marked,
             \A r \in Run : pc'[r] # "idle" => pc[r] # "idle"
      PROVE  CountInv'
  <2> DEFINE N == {}
  <2>1. N \in SUBSET Capture /\ Processed' \subseteq Processed \cup N
    BY <1>0
  <2>2. \A r \in Run : pc'[r] # "idle" => pc[r] # "idle" /\ marked[r] \cup N \subseteq marked'[r]
    BY <1>0
  <2> HIDE DEF N
  <2>3. QED
    BY <1>0, <2>1, <2>2, CountGrowsWithMarks
<1>1. ASSUME NEW c \in Capture, Post(c) \/ Requeue(c) \/ Reprocess(c) PROVE CountInv'
  <2>1. Processed' \subseteq Processed /\ UNCHANGED <<before, pc, marked>>
    BY <1>1 DEF Processed, Post, Requeue, Reprocess
  <2>2. QED
    BY <1>0, <2>1
<1>2. ASSUME NEW c \in Capture, Mark(c), UNCHANGED before,
             \A r \in Run : pc'[r] # "idle" => pc[r] # "idle"
      PROVE  CountInv'
  <2> DEFINE N == {c}
  <2>1. N \in SUBSET Capture /\ Processed' \subseteq Processed \cup N
    BY <1>2 DEF Mark, Processed
  <2>2. \A r \in Run : pc'[r] # "idle" => pc[r] # "idle" /\ marked[r] \cup N \subseteq marked'[r]
    BY <1>2 DEF Mark
  <2> HIDE DEF N
  <2>3. QED
    BY <1>2, <2>1, <2>2, CountGrowsWithMarks
<1>3. ASSUME NEW c \in Capture, Arrive(c) PROVE CountInv'
  BY <1>2, <1>3 DEF Arrive
<1>4. ASSUME NEW r \in Run, Route(r) PROVE CountInv'
  <2>1. PICK c \in Oldest(r) : Mark(c) /\ before' = before
    BY <1>4 DEF Route
  <2>2. c \in Capture /\ \A s \in Run : pc'[s] # "idle" => pc[s] # "idle"
    BY <1>4 DEF Oldest, Route
  <2>3. QED
    BY <1>2, <2>1, <2>2
<1>5. ASSUME NEW r \in Run, Start(r) PROVE CountInv'
  <2>1. /\ before' = [before EXCEPT ![r] = Cardinality(Processed)] /\ marked' = marked
        /\ Processed' = Processed /\ \A s \in Run : s # r => pc'[s] = pc[s]
    BY <1>5 DEF Start, Processed
  <2>2. ASSUME NEW s \in Run, Active(s)'
        PROVE  \E P \in SUBSET Capture : Cardinality(P) = before'[s] /\ Processed' \subseteq P \cup marked'[s]
    <3>1. CASE s = r
      BY <2>1, <3>1 DEF Processed
    <3>2. CASE s # r
      <4>1. PICK P \in SUBSET Capture : Cardinality(P) = before[s] /\ Processed \subseteq P \cup marked[s]
        BY <2>1, <2>2, <3>2 DEF CountInv
      <4>2. before'[s] = before[s] /\ marked'[s] = marked[s]
        BY <2>1, <3>2
      <4>3. QED
        BY <2>1, <4>1, <4>2
    <3>3. QED
      BY <3>1, <3>2
  <2>3. QED
    BY <2>2 DEF CountInv
<1>6. ASSUME NEW r \in Run, Report(r) \/ Abort(r) PROVE CountInv'
  <2>1. /\ pc' = [pc EXCEPT ![r] = "idle"] /\ marked' = [marked EXCEPT ![r] = {}]
        /\ before' = [before EXCEPT ![r] = 0] /\ inbox' = inbox
    BY <1>6 DEF Report, Abort, Forget
  <2>2. Processed' = Processed
    BY <2>1 DEF Processed
  <2>3. \A s \in Run : Active(s)' => Active(s) /\ before'[s] = before[s] /\ marked'[s] = marked[s]
    BY <2>1
  <2>4. QED
    BY <2>2, <2>3 DEF CountInv
<1>7. ASSUME NEW r \in Run, BatchClassify(r) \/ Classify(r) \/ Validate(r) \/ Resummarize(r) \/ Vectorize(r)
      PROVE  CountInv'
  <2>1. pc[r] # "idle" /\ UNCHANGED <<before, marked, inbox>> /\ \A s \in Run : s # r => pc'[s] = pc[s]
    BY <1>7 DEF BatchClassify, Classify, Validate, Resummarize, Vectorize
  <2>2. Processed' \subseteq Processed
    BY <2>1 DEF Processed
  <2>3. \A s \in Run : pc'[s] # "idle" => pc[s] # "idle"
    BY <2>1
  <2>4. QED
    BY <1>0, <2>1, <2>2, <2>3
<1>8. ASSUME UNCHANGED <<inbox, before, pc, marked>> PROVE CountInv'
  <2>1. Processed' \subseteq Processed
    BY <1>8 DEF Processed
  <2>2. QED
    BY <1>0, <1>8, <2>1
<1>9. ASSUME NEW c \in Capture, EditFact(c) PROVE CountInv'
  BY <1>8, <1>9 DEF EditFact
<1>10. CASE Kill
  BY <1>10 DEF Kill, CountInv
<1>11. CASE UNCHANGED vars
  BY <1>8, <1>11 DEF vars
<1>12. QED
  BY <1>1, <1>3, <1>4, <1>5, <1>6, <1>7, <1>9, <1>10, <1>11 DEF Next

(***************************************************************************)
(* The notes a run claims are at most the captures marked while it worked, *)
(* by it, by a cycle that takes no lock or by a page of another device,    *)
(* whatever is replayed, requeued or posted under it.                      *)
(***************************************************************************)
THEOREM ClaimsAreEarned == Spec => []NeverOverclaims
<1>1. Init => CountInv
  BY DEF Init, CountInv, Active
<1>2. TypeOK /\ TypeOK' /\ CountInv /\ [Next]_vars => CountInv'
  BY CountStep
<1>3. TypeOK /\ CountInv => NeverOverclaims
  <2> SUFFICES ASSUME TypeOK, CountInv, NEW r \in Run \ Outside, pc[r] = "reporting"
               PROVE  Claim(r) <= Cardinality(marked[r])
    BY DEF NeverOverclaims
  <2>1. PICK P \in SUBSET Capture : Cardinality(P) = before[r] /\ Processed \subseteq P \cup marked[r]
    BY DEF CountInv, Active
  <2>2. marked[r] \in SUBSET Capture /\ Processed \in SUBSET Capture
    BY DEF TypeOK, Processed
  <2>3. IsFiniteSet(P) /\ IsFiniteSet(marked[r]) /\ IsFiniteSet(P \cup marked[r])
    BY <2>2, CaptureFinite, FS_Union
  <2>4. Cardinality(Processed) <= Cardinality(P \cup marked[r])
    BY <2>1, <2>3, FS_Subset
  <2>5. /\ Cardinality(P \cup marked[r])
              = Cardinality(P) + Cardinality(marked[r]) - Cardinality(P \cap marked[r])
        /\ IsFiniteSet(P \cap marked[r])
    BY <2>3, FS_Union, FS_Intersection
  <2>6. /\ Cardinality(P) \in Nat /\ Cardinality(marked[r]) \in Nat
        /\ Cardinality(P \cap marked[r]) \in Nat /\ Cardinality(Processed) \in Nat
        /\ Cardinality(P \cup marked[r]) \in Nat
    BY <2>2, <2>3, <2>5, CaptureFinite, FS_CardinalityType, CaptureAssumption
  <2>7. QED
    BY <2>1, <2>4, <2>5, <2>6 DEF Claim
<1>4. QED
  BY <1>1, <1>2, <1>3, TypeCorrect, PTL DEF Spec
=============================================================================
