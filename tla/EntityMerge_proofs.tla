-------------------------- MODULE EntityMerge_proofs --------------------------
(***************************************************************************)
(* Proofs about EntityMerge, for any entities, rows, proposals and any     *)
(* number of requests served at the same time.                             *)
(***************************************************************************)
EXTENDS EntityMerge, TLAPS

\* What an accepting handler has read: two different sides of its proposal.
AcceptsTwoSides ==
  \A h \in Handler : doing[h].op = "accept" =>
    /\ Sides[doing[h].p] = {doing[h].absorbed, doing[h].canonical}
    /\ doing[h].absorbed # doing[h].canonical

\* The fields of a job, by its op.
LEMMA JobFields ==
  ASSUME NEW j \in Job
  PROVE  /\ j.op = "accept" => j.p \in Proposal /\ j.absorbed \in Entity /\ j.canonical \in Entity
         /\ j.op = "reject" => j.p \in Proposal
         /\ j.op = "relate" => j.l \in Link /\ j.a \in Entity /\ j.b \in Entity
         /\ j.op = "attach" => j.n \in Entry /\ j.e \in Entity
         /\ j.op = "reclassify" => j.n \in Entry /\ j.f \in Fact /\ j.e \in Entity
BY DEF Job, Idle

LEMMA MovedKeepsType ==
  ASSUME NEW D, NEW col \in [D -> Entity \cup {None}], NEW a \in Entity, NEW c \in Entity
  PROVE  Moved(col, a, c) \in [D -> Entity \cup {None}]
BY DEF Moved

(***************************************************************************)
(* Every column keeps its type; a job is always one of those a check makes. *)
(***************************************************************************)
THEOREM TypeCorrect == Spec => []TypeOK
<1>1. Init => TypeOK
  BY DEF Init, TypeOK, Job
<1>2. TypeOK /\ [Next]_vars => TypeOK'
  <2> SUFFICES ASSUME TypeOK, [Next]_vars PROVE TypeOK'
    OBVIOUS
  <2>1. CASE Core
    BY <2>1 DEF TypeOK, Core, RouteFact, RouteRelation, RouteEntry, Propose, rowVars
  <2>2. CASE AtOnce
    <3>1. CASE \E l \in Link : DeleteRelation(l)
      BY <3>1 DEF TypeOK, DeleteRelation
    <3>2. ASSUME NEW c \in Capture, Reprocess(c) PROVE TypeOK'
      BY <3>2 DEF TypeOK, Reprocess
    <3>3. ASSUME NEW n \in Entry, Detach(n) \/ \E e \in Entity : MoveEntry(n, e) PROVE TypeOK'
      BY <3>3 DEF TypeOK, Detach, MoveEntry, ActsOn
    <3>4. QED
      BY <2>2, <3>1, <3>2, <3>3 DEF AtOnce
  <2>3. ASSUME NEW h \in Handler, Check(h) PROVE TypeOK'
    <3>1. ASSUME NEW job \in Job, Begin(h, job) PROVE TypeOK'
      BY <3>1 DEF Begin, TypeOK, rowVars
    <3>2. ASSUME NEW p \in Proposal, CheckReject(h, p) PROVE TypeOK'
      BY <3>1, <3>2 DEF CheckReject, Job
    <3>3. ASSUME NEW p \in Proposal, NEW e \in Entity, CheckAccept(h, p, e) PROVE TypeOK'
      BY <3>1, <3>3, ProposalAssumption DEF CheckAccept, Job
    <3>4. ASSUME NEW l \in Link, NEW a \in Entity, NEW b \in Entity, CheckRelate(h, l, a, b)
          PROVE  TypeOK'
      BY <3>1, <3>4 DEF CheckRelate, Job
    <3>5. ASSUME NEW n \in Entry, NEW new \in Entry, NEW e \in Entity, CheckAttach(h, n, new, e)
          PROVE  TypeOK'
      BY <3>1, <3>5 DEF CheckAttach, Job
    <3>6. ASSUME NEW n \in Entry, NEW f \in Fact, NEW e \in Entity, CheckReclassify(h, n, f, e)
          PROVE  TypeOK'
      BY <3>1, <3>6 DEF CheckReclassify, Job
    <3>7. QED
      BY <2>3, <3>2, <3>3, <3>4, <3>5, <3>6 DEF Check
  <2>4. ASSUME NEW h \in Handler, Commit(h) PROVE TypeOK'
    <3> DEFINE j == doing[h]
    <3>1. doing' \in [Handler -> Job]
      BY <2>4 DEF Commit, TypeOK, Job
    <3>2. j \in Job
      BY DEF TypeOK
    <3> HIDE DEF j
    <3>3. CASE Accept(j)
      <4>1. j.p \in Proposal /\ j.absorbed \in Entity /\ j.canonical \in Entity
        BY <3>2, <3>3, JobFields DEF Accept
      <4>2. QED
        BY <3>1, <3>3, <4>1, MovedKeepsType DEF Accept, Reroute, ActsOn, TypeOK
    <3>4. CASE Reject(j)
      BY <3>1, <3>2, <3>4, JobFields DEF Reject, TypeOK, rowVars
    <3>5. CASE Relate(j)
      BY <3>1, <3>2, <3>5, JobFields DEF Relate, ActsOn, TypeOK
    <3>6. CASE Attach(j)
      BY <3>1, <3>2, <3>6, JobFields DEF Attach, ActsOn, TypeOK
    <3>7. CASE Reclassify(j)
      BY <3>1, <3>2, <3>7, JobFields DEF Reclassify, ActsOn, TypeOK
    <3>8. QED
      BY <2>4, <3>3, <3>4, <3>5, <3>6, <3>7 DEF Commit, j
  <2>5. ASSUME NEW h \in Handler, GiveUp(h) PROVE TypeOK'
    BY <2>5 DEF GiveUp, TypeOK, rowVars, Job
  <2>6. CASE UNCHANGED vars
    BY <2>6 DEF vars, TypeOK
  <2>7. QED
    BY <2>1, <2>2, <2>3, <2>4, <2>5, <2>6 DEF Next
<1>3. QED
  BY <1>1, <1>2, PTL DEF Spec

-----------------------------------------------------------------------------
LEMMA TwoSidesInit == Init => AcceptsTwoSides
BY DEF Init, AcceptsTwoSides, Idle

LEMMA TwoSidesStep == TypeOK /\ AcceptsTwoSides /\ [Next]_vars => AcceptsTwoSides'
<1> SUFFICES ASSUME TypeOK, AcceptsTwoSides, [Next]_vars PROVE AcceptsTwoSides'
  OBVIOUS
<1>1. CASE UNCHANGED doing
  BY <1>1 DEF AcceptsTwoSides
<1>2. ASSUME NEW h \in Handler, doing' = [doing EXCEPT ![h] = Idle] PROVE AcceptsTwoSides'
  BY <1>2 DEF AcceptsTwoSides, TypeOK, Idle
<1>3. ASSUME NEW h \in Handler, NEW job, Begin(h, job), job.op # "accept"
      PROVE  AcceptsTwoSides'
  BY <1>3 DEF AcceptsTwoSides, TypeOK, Begin
<1>4. ASSUME NEW h \in Handler, NEW p \in Proposal, NEW e \in Entity, CheckAccept(h, p, e)
      PROVE  AcceptsTwoSides'
  <2>1. PICK a \in Sides[p] \ {e} :
          Begin(h, [op |-> "accept", p |-> p, absorbed |-> a, canonical |-> e])
    BY <1>4 DEF CheckAccept
  <2>2. Sides[p] = {a, e} /\ a # e
    BY <1>4, <2>1, ProposalAssumption DEF CheckAccept
  <2>3. doing' = [doing EXCEPT ![h] = [op |-> "accept", p |-> p, absorbed |-> a, canonical |-> e]]
    BY <2>1 DEF Begin
  <2>4. QED
    BY <2>2, <2>3 DEF AcceptsTwoSides, TypeOK
<1>5. ASSUME NEW h \in Handler, Check(h) PROVE AcceptsTwoSides'
  BY <1>3, <1>4, <1>5 DEF Check, CheckReject, CheckRelate, CheckAttach,
    CheckReclassify
<1>6. CASE Core \/ AtOnce \/ UNCHANGED vars
  BY <1>1, <1>6 DEF Core, RouteFact, RouteRelation, RouteEntry, Propose, AtOnce, Reprocess,
    DeleteRelation, Detach, MoveEntry, vars
<1>7. QED
  BY <1>2, <1>5, <1>6 DEF Next, Commit, GiveUp

-----------------------------------------------------------------------------
\* What the two safety properties need of a step that leaves the redirections
\* and the accepted proposals alone.
Settles == UNCHANGED merged /\ \A p \in Proposal : status'[p] = "accepted" => status[p] = "accepted"

\* A merge of two survivors lengthens the redirections and makes no circle.
LEMMA MergeKeepsRedirects ==
  ASSUME TypeOK, RedirectsEnd, NEW a \in Entity, NEW c \in Entity, a # c, Live(a), Live(c),
         merged' = [merged EXCEPT ![a] = c]
  PROVE  RedirectsEnd'
<1> SUFFICES ASSUME NEW S \in SUBSET Entity, S # {} PROVE \E e \in S : merged'[e] \notin S
  BY DEF RedirectsEnd
<1>1. CASE c \in S
  BY <1>1, NoneAssumption DEF Live, TypeOK
<1>2. CASE c \notin S /\ a \in S
  BY <1>2 DEF TypeOK
<1>3. CASE c \notin S /\ a \notin S
  BY <1>3 DEF RedirectsEnd, TypeOK
<1>4. QED
  BY <1>1, <1>2, <1>3

\* A merge of two survivors overwrites no redirection: what no merge divided
\* before is still undivided.
LEMMA MergeClosedBefore ==
  ASSUME TypeOK, NEW a \in Entity, NEW c \in Entity, Live(a),
         merged' = [merged EXCEPT ![a] = c], NEW S \in SUBSET Entity, MergeClosed(S)'
  PROVE  MergeClosed(S) /\ (a \in S <=> c \in S)
BY NoneAssumption DEF MergeClosed, Live, TypeOK

\* The rows that pointed at the absorbed entity point at the survivor.
LEMMA RerouteToSurvivor ==
  ASSUME NEW D, NEW col \in [D -> Entity \cup {None}], NEW a \in Entity, NEW c \in Entity,
         a # c, TypeOK, Live(c), merged' = [merged EXCEPT ![a] = c],
         NEW x \in D, col[x] \in LiveEntities \cup {None}
  PROVE  Moved(col, a, c)[x] \in LiveEntities' \cup {None}
BY NoneAssumption DEF Moved, LiveEntities, Live, TypeOK

\* An accepted merge whose two sides are survivors.
LEMMA AcceptStep ==
  ASSUME TypeOK, AcceptsTwoSides, HiddenOnlyByStaleIds, AcceptedStaysMerged,
         NEW h \in Handler, Accept(doing[h])
  PROVE  HiddenOnlyByStaleIds' /\ AcceptedStaysMerged'
<1> DEFINE j == doing[h]
           a == j.absorbed
           c == j.canonical
<1>1. j.op = "accept" /\ j \in Job
  BY DEF Accept, TypeOK
<1>2. j.p \in Proposal /\ a \in Entity /\ c \in Entity /\ a # c /\ Sides[j.p] = {a, c}
  BY <1>1, JobFields DEF AcceptsTwoSides
<1>3. /\ home' = Moved(home, a, c) /\ from' = Moved(from, a, c) /\ to' = Moved(to, a, c)
      /\ merged' = [merged EXCEPT ![a] = c]
      /\ status' = [status EXCEPT ![j.p] = "accepted"]
      /\ staleId' = (staleId \/ \E e \in {a, c} : ~Live(e))
  BY DEF Accept, Reroute, ActsOn
<1> HIDE DEF j, a, c
<1>4. CASE staleId'
  BY <1>4 DEF HiddenOnlyByStaleIds, AcceptedStaysMerged
<1>5. CASE ~staleId'
  <2>1. ~staleId /\ Live(a) /\ Live(c)
    BY <1>3, <1>5
  <2>2. RedirectsEnd'
    BY <1>2, <1>3, <2>1, MergeKeepsRedirects DEF HiddenOnlyByStaleIds
  <2>3. FactsVisible'
    BY <1>2, <1>3, <2>1, RerouteToSurvivor DEF HiddenOnlyByStaleIds, FactsVisible, TypeOK
  <2>4. RelationsVisible'
    <3> SUFFICES ASSUME NEW l \in Link
                 PROVE  from'[l] \in LiveEntities' \cup {None} /\ to'[l] \in LiveEntities' \cup {None}
      BY DEF RelationsVisible
    <3>1. from[l] \in LiveEntities \cup {None} /\ to[l] \in LiveEntities \cup {None}
      BY <2>1 DEF HiddenOnlyByStaleIds, RelationsVisible
    <3>2. from \in [Link -> Entity \cup {None}] /\ to \in [Link -> Entity \cup {None}]
      BY DEF TypeOK
    <3>3. QED
      BY <1>2, <1>3, <2>1, <3>1, <3>2, RerouteToSurvivor
  <2>5. AcceptedStaysMerged'
    <3> SUFFICES ASSUME NEW p \in Proposal, status'[p] = "accepted",
                        NEW S \in SUBSET Entity, MergeClosed(S)'
                 PROVE  Sides[p] \subseteq S \/ Sides[p] \cap S = {}
      BY DEF AcceptedStaysMerged
    <3>1. MergeClosed(S) /\ (a \in S <=> c \in S)
      BY <1>2, <1>3, <2>1, MergeClosedBefore
    <3>2. CASE p = j.p
      BY <1>2, <3>1, <3>2
    <3>3. CASE p # j.p
      <4>1. status[p] = "accepted"
        BY <1>3, <3>3 DEF TypeOK
      <4>2. QED
        BY <2>1, <3>1, <4>1 DEF AcceptedStaysMerged
    <3>4. QED
      BY <3>2, <3>3
  <2>6. QED
    BY <2>2, <2>3, <2>4, <2>5 DEF HiddenOnlyByStaleIds
<1>6. QED
  BY <1>4, <1>5

\* A step that merges nothing and puts rows on survivors only, or on ids it
\* declares stale.
LEMMA QuietStep ==
  ASSUME TypeOK, HiddenOnlyByStaleIds, AcceptedStaysMerged, Settles,
         staleId => staleId',
         ~staleId' => /\ \A f \in Fact : home'[f] \in {home[f], None} \cup LiveEntities
                      /\ \A l \in Link : /\ from'[l] \in {from[l], None} \cup LiveEntities
                                         /\ to'[l] \in {to[l], None} \cup LiveEntities
  PROVE  HiddenOnlyByStaleIds' /\ AcceptedStaysMerged'
<1>1. CASE staleId'
  BY <1>1 DEF HiddenOnlyByStaleIds, AcceptedStaysMerged
<1>2. CASE ~staleId'
  <2>1. ~staleId /\ RedirectsEnd /\ FactsVisible /\ RelationsVisible
    BY <1>2 DEF HiddenOnlyByStaleIds
  <2>2. LiveEntities' = LiveEntities /\ RedirectsEnd'
    BY <2>1 DEF Settles, LiveEntities, Live, RedirectsEnd
  <2>3. FactsVisible'
    BY <1>2, <2>1, <2>2 DEF FactsVisible
  <2>4. RelationsVisible'
    BY <1>2, <2>1, <2>2 DEF RelationsVisible
  <2>5. \A S \in SUBSET Entity : MergeClosed(S)' => MergeClosed(S)
    BY DEF Settles, MergeClosed
  <2>6. AcceptedStaysMerged'
    BY <2>1, <2>5 DEF AcceptedStaysMerged, Settles
  <2>7. QED
    BY <2>2, <2>3, <2>4, <2>6 DEF HiddenOnlyByStaleIds
<1>3. QED
  BY <1>1, <1>2

LEMMA MergeInit == Init => HiddenOnlyByStaleIds /\ AcceptedStaysMerged
BY NoneAssumption DEF Init, HiddenOnlyByStaleIds, AcceptedStaysMerged, RedirectsEnd, FactsVisible,
  RelationsVisible

LEMMA MergeStep ==
  TypeOK /\ AcceptsTwoSides /\ HiddenOnlyByStaleIds /\ AcceptedStaysMerged /\ [Next]_vars
  => HiddenOnlyByStaleIds' /\ AcceptedStaysMerged'
<1> SUFFICES ASSUME TypeOK, AcceptsTwoSides, HiddenOnlyByStaleIds, AcceptedStaysMerged, [Next]_vars
             PROVE  HiddenOnlyByStaleIds' /\ AcceptedStaysMerged'
  OBVIOUS
<1>1. CASE Core
  <2>1. Settles /\ staleId' = staleId
    BY <1>1 DEF Core, RouteFact, RouteRelation, RouteEntry, Propose, Settles, TypeOK, rowVars
  <2>2. /\ \A f \in Fact : home'[f] \in {home[f], None} \cup LiveEntities
        /\ \A l \in Link : /\ from'[l] \in {from[l], None} \cup LiveEntities
                           /\ to'[l] \in {to[l], None} \cup LiveEntities
    BY <1>1 DEF Core, RouteFact, RouteRelation, RouteEntry, Propose, TypeOK, rowVars, LiveEntities
  <2>3. QED
    BY <2>1, <2>2, QuietStep
<1>2. CASE AtOnce
  <2>1. UNCHANGED <<merged, status>>
    BY <1>2 DEF AtOnce, Reprocess, DeleteRelation, Detach, MoveEntry
  <2>2. staleId => staleId'
    BY <1>2 DEF AtOnce, Reprocess, DeleteRelation, Detach, MoveEntry, ActsOn
  <2>3. /\ \A f \in Fact : home'[f] \in {home[f], None} \cup LiveEntities
        /\ \A l \in Link : /\ from'[l] \in {from[l], None} \cup LiveEntities
                           /\ to'[l] \in {to[l], None} \cup LiveEntities
    BY <1>2 DEF AtOnce, Reprocess, DeleteRelation, Detach, MoveEntry, TypeOK
  <2>4. QED
    BY <2>1, <2>2, <2>3, QuietStep DEF Settles
<1>3. ASSUME NEW h \in Handler, Check(h) \/ GiveUp(h)
      PROVE  HiddenOnlyByStaleIds' /\ AcceptedStaysMerged'
  <2>1. UNCHANGED <<merged, status, rowVars, staleId>>
    BY <1>3 DEF Check, CheckReject, CheckAccept, CheckRelate, CheckAttach,
      CheckReclassify, Begin, GiveUp
  <2>2. QED
    BY <2>1, QuietStep DEF Settles, rowVars
<1>4. ASSUME NEW h \in Handler, Commit(h) PROVE HiddenOnlyByStaleIds' /\ AcceptedStaysMerged'
  <2> DEFINE j == doing[h]
  <2>1. j \in Job
    BY DEF TypeOK
  <2>2. CASE Accept(j)
    BY <2>2, AcceptStep
  <2> HIDE DEF j
  <2>3. CASE Reject(j)
    BY <2>1, <2>3, JobFields, QuietStep DEF Reject, Settles, TypeOK, rowVars
  <2>4. CASE Relate(j)
    <3>1. Settles /\ (staleId => staleId') /\ home' = home
      BY <2>4 DEF Relate, Settles, ActsOn
    <3>2. ~staleId' => \A l \in Link : /\ from'[l] \in {from[l], None} \cup LiveEntities
                                       /\ to'[l] \in {to[l], None} \cup LiveEntities
      BY <2>1, <2>4, JobFields DEF Relate, ActsOn, LiveEntities, TypeOK
    <3>3. QED
      BY <3>1, <3>2, QuietStep
  <2>5. CASE Attach(j)
    <3>1. UNCHANGED <<merged, status, home, from, to>>
      BY <2>5 DEF Attach
    <3>2. staleId => staleId'
      BY <2>5 DEF Attach, ActsOn
    <3>3. QED
      BY <3>1, <3>2, QuietStep DEF Settles
  <2>6. CASE Reclassify(j)
    <3>1. Settles /\ (staleId => staleId') /\ UNCHANGED <<from, to>>
      BY <2>6 DEF Reclassify, Settles, ActsOn
    <3>2. ~staleId' => \A f \in Fact : home'[f] \in {home[f], None} \cup LiveEntities
      BY <2>1, <2>6, JobFields DEF Reclassify, ActsOn, LiveEntities, TypeOK
    <3>3. QED
      BY <3>1, <3>2, QuietStep
  <2>7. QED
    BY <1>4, <2>2, <2>3, <2>4, <2>5, <2>6 DEF Commit, j
<1>5. CASE UNCHANGED vars
  BY <1>5, QuietStep DEF vars, Settles
<1>6. QED
  BY <1>1, <1>2, <1>3, <1>4, <1>5 DEF Next

(***************************************************************************)
(* Facts, relations and redirections are lost only through stale ids, and  *)
(* accepted merges last, for any number of entities and of requests.       *)
(***************************************************************************)
THEOREM MergesAreSound == Spec => [](HiddenOnlyByStaleIds /\ AcceptedStaysMerged)
<1> DEFINE IInv == AcceptsTwoSides /\ HiddenOnlyByStaleIds /\ AcceptedStaysMerged
<1>1. Init => IInv
  BY TwoSidesInit, MergeInit
<1>2. TypeOK /\ IInv /\ [Next]_vars => IInv'
  BY TwoSidesStep, MergeStep
<1>3. IInv => HiddenOnlyByStaleIds /\ AcceptedStaysMerged
  OBVIOUS
<1>4. QED
  BY <1>1, <1>2, <1>3, TypeCorrect, PTL DEF Spec

\* As long as no transaction acts on the id of an entity absorbed before it, merges hide no
\* fact and no end of a relation, and make no circle; two acceptances of one proposal with
\* opposite survivors do (merge_proposal_accept), the second acting on an absorbed id.
THEOREM NothingHidden == Spec => []HiddenOnlyByStaleIds
BY MergesAreSound, PTL

\* Under the same condition, an accepted proposal stays carried out.
THEOREM AcceptedMergesLast == Spec => []AcceptedStaysMerged
BY MergesAreSound, PTL
=============================================================================
