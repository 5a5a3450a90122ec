----------------------------- MODULE Host_proofs -----------------------------
(***************************************************************************)
(* Proofs about the parts of Host, for any number of requests, devices,    *)
(* processes, settings and rows.                                           *)
(***************************************************************************)
EXTENDS Host, Sequences, Sums, FiniteSetTheorems, TLAPS

\* A behaviour is one of one part, from beginning to end.
LEMMA PartStays == [Next]_vars => part' = part
BY DEF Next, vars, Only, Config, Install, Session, Access, Review, Zones, Desk, Pull, Join, Home, Choice

-----------------------------------------------------------------------------
(***************************************************************************)
(* The choice of a model.  While no mode changed between the two tests of  *)
(* one choice, a caller at its second test has not been told that the mode *)
(* is local, and one that keeps a client has known the cloud.              *)
(***************************************************************************)
CallerOK(c) ==
  \/ caller[c] = G!Quiet
  \/ /\ caller[c].at \in {"first", "second", "client"}
     /\ choice \in caller[c].modes
     /\ caller[c].ready => G!Ready(choice, secret, server)
     /\ caller[c].at = "second" => slipped \/ choice # "local"
     /\ caller[c].at = "client" => slipped \/ "cloud" \in caller[c].modes

CallType == [kind : {"none", "core", "cycle", "names"},
             at : {"idle", "first", "second", "client"}, modes : SUBSET G!Mode, ready : BOOLEAN]
ChoiceTypes ==
  /\ choice \in G!Mode /\ secret \in BOOLEAN /\ server \in BOOLEAN /\ slipped \in BOOLEAN
  /\ caller \in [Request -> CallType]
ChoiceInv == ChoiceTypes /\ (\A c \in Request : CallerOK(c)) /\ G!NothingLeaks

LEMMA ChoiceInit == G!Init => ChoiceInv
<1> SUFFICES ASSUME G!Init PROVE ChoiceInv
  OBVIOUS
<1>1. ChoiceTypes
  BY DEF G!Init, ChoiceTypes, CallType, G!Quiet, G!Mode
<1>2. \A c \in Request : CallerOK(c)
  BY DEF G!Init, CallerOK
<1>3. G!NothingLeaks
  BY DEF G!Init, G!NothingLeaks
<1>4. QED
  BY <1>1, <1>2, <1>3 DEF ChoiceInv

\* A caller that ends or goes on leaves the others as they are, and so do the settings.
LEMMA ChoiceMoves ==
  ASSUME ChoiceInv, NEW c \in Request, UNCHANGED <<choice, secret, server, changes, slipped>>,
         \/ G!Ends(c)
         \/ G!Goes(c, "second") /\ (slipped \/ choice # "local")
         \/ G!Goes(c, "client") /\ (slipped \/ choice = "cloud"),
         caller[c] # G!Quiet
  PROVE  ChoiceTypes' /\ \A b \in Request : CallerOK(b)'
<1> USE DEF ChoiceInv, ChoiceTypes, G!Ends, G!Goes
<1>1. ChoiceTypes'
  <2>1. G!Quiet \in CallType
    BY DEF G!Quiet, CallType
  <2>2. CASE G!Ends(c)
    BY <2>1, <2>2
  <2>3. ASSUME NEW to \in {"second", "client"}, G!Goes(c, to) PROVE caller' \in [Request -> CallType]
    <3>1. [caller[c] EXCEPT !.at = to] \in CallType
      BY DEF CallType
    <3>2. QED
      BY <2>3, <3>1
  <2>4. QED
    BY <2>2, <2>3
<1>2. ASSUME NEW b \in Request, b # c PROVE CallerOK(b)'
  BY <1>2 DEF CallerOK
<1>3. CallerOK(c)'
  <2>1. CASE G!Ends(c)
    BY <2>1 DEF CallerOK
  <2>2. CASE ~G!Ends(c)
    <3>1. CallerOK(c)
      OBVIOUS
    <3> DEFINE after == caller'[c]
    <3>2. /\ after.at \in {"second", "client"}
          /\ after.modes = caller[c].modes /\ after.ready = caller[c].ready
          /\ after.at = "second" => slipped \/ choice # "local"
          /\ after.at = "client" => slipped \/ choice = "cloud"
      BY <2>2 DEF CallType
    <3> HIDE DEF after
    <3>3. choice \in caller[c].modes /\ (caller[c].ready => G!Ready(choice, secret, server))
      BY <3>1 DEF CallerOK
    <3>4. QED
      BY <3>2, <3>3 DEF CallerOK, after
  <2>3. QED
    BY <2>1, <2>2
<1>4. QED
  BY <1>1, <1>2, <1>3

LEMMA ChoiceStep == ChoiceInv /\ [G!Next]_(G!choiceVars) => ChoiceInv'
<1> SUFFICES ASSUME ChoiceInv, [G!Next]_(G!choiceVars) PROVE ChoiceInv'
  OBVIOUS
<1>1. CASE UNCHANGED G!choiceVars
  BY <1>1 DEF G!choiceVars, ChoiceInv, ChoiceTypes, CallerOK, G!NothingLeaks
<1>2. ASSUME NEW m \in G!Mode, NEW k \in BOOLEAN, NEW complete \in BOOLEAN, G!Become(m, k, complete)
      PROVE  ChoiceInv'
  <2>1. ChoiceTypes'
    BY <1>2 DEF G!Become, ChoiceInv, ChoiceTypes, CallType, G!Quiet, G!Mode
  <2>2. ASSUME NEW c \in Request PROVE CallerOK(c)'
    <3>1. CASE caller[c] = G!Quiet
      BY <1>2, <3>1 DEF G!Become, CallerOK
    <3>2. CASE caller[c] # G!Quiet
      <4> DEFINE after == caller'[c]
      <4>1. /\ after.at = caller[c].at /\ after.modes = caller[c].modes \cup {m}
            /\ after.ready = (caller[c].ready /\ G!Ready(m, k, complete))
        BY <1>2, <3>2 DEF G!Become, ChoiceInv, ChoiceTypes, CallType
      <4> HIDE DEF after
      <4>2. /\ caller[c].at \in {"first", "second", "client"}
            /\ caller[c].at = "second" => slipped \/ choice # "local"
            /\ caller[c].at = "client" => slipped \/ "cloud" \in caller[c].modes
        BY <3>2 DEF ChoiceInv, CallerOK
      <4>3. choice' = m /\ secret' = k /\ server' = complete
            /\ (slipped \/ (m # choice /\ caller[c].at = "second") => slipped')
        BY <1>2 DEF G!Become
      <4>4. QED
        BY <4>1, <4>2, <4>3 DEF CallerOK, after
    <3>3. QED
      BY <3>1, <3>2
  <2>3. G!NothingLeaks'
    BY <1>2 DEF G!Become, ChoiceInv, G!NothingLeaks
  <2>4. QED
    BY <2>1, <2>2, <2>3 DEF ChoiceInv
<1>3. ASSUME NEW c \in Request, NEW kind \in {"core", "cycle", "names"}, G!Ask(c, kind)
      PROVE  ChoiceInv'
  <2> DEFINE asking == [kind |-> kind, at |-> "first", modes |-> {choice}, ready |-> G!Ready(choice, secret, server)]
  <2>1. G!Ready(choice, secret, server) \in BOOLEAN
    BY DEF G!Ready, ChoiceInv, ChoiceTypes
  <2>2. ChoiceTypes'
    BY <1>3, <2>1 DEF G!Ask, ChoiceInv, ChoiceTypes, CallType
  <2>3. ASSUME NEW b \in Request PROVE CallerOK(b)'
    <3>1. CASE b = c
      <4>1. caller'[b] = asking
        BY <1>3, <3>1 DEF G!Ask, ChoiceInv, ChoiceTypes, CallType
      <4>2. QED
        BY <1>3, <4>1 DEF G!Ask, CallerOK
    <3>2. CASE b # c
      BY <1>3, <3>2 DEF G!Ask, ChoiceInv, ChoiceTypes, CallType, CallerOK
    <3>3. QED
      BY <3>1, <3>2
  <2>4. G!NothingLeaks'
    BY <1>3 DEF G!Ask, ChoiceInv, G!NothingLeaks
  <2>5. QED
    BY <2>2, <2>3, <2>4 DEF ChoiceInv
<1>4. ASSUME NEW c \in Request, caller[c].at # "idle" PROVE caller[c] # G!Quiet /\ CallerOK(c)
  BY <1>4 DEF ChoiceInv, G!Quiet
<1>5. ASSUME NEW c \in Request, G!First(c) PROVE ChoiceInv'
  <2>1. caller[c] # G!Quiet /\ CallerOK(c)
    BY <1>4, <1>5 DEF G!First
  <2>2. ChoiceTypes' /\ \A b \in Request : CallerOK(b)'
    BY <1>5, <2>1, ChoiceMoves DEF G!First, G!Refused
  <2>3. G!NothingLeaks'
    BY <1>5, <2>1 DEF G!First, G!Refused, G!Sent, G!NothingLeaks, ChoiceInv, CallerOK
  <2>4. QED
    BY <2>2, <2>3 DEF ChoiceInv
<1>6. ASSUME NEW c \in Request, G!Second(c) PROVE ChoiceInv'
  <2>1. caller[c] # G!Quiet /\ CallerOK(c)
    BY <1>4, <1>6 DEF G!Second
  <2>2. ChoiceTypes' /\ \A b \in Request : CallerOK(b)'
    BY <1>6, <2>1, ChoiceMoves DEF G!Second, G!Anthropic, G!Refused, CallerOK, ChoiceInv, ChoiceTypes, G!Mode
  <2>3. G!NothingLeaks'
    BY <1>6, <2>1 DEF G!Second, G!Anthropic, G!Refused, G!Sent, G!NothingLeaks, G!Ready, ChoiceInv, CallerOK, ChoiceTypes, G!Mode
  <2>4. QED
    BY <2>2, <2>3 DEF ChoiceInv
<1>7. ASSUME NEW c \in Request, G!Requests(c) PROVE ChoiceInv'
  BY <1>4, <1>7 DEF G!Requests, G!Sent, ChoiceInv, ChoiceTypes, CallerOK, G!NothingLeaks
<1>8. ASSUME NEW c \in Request, G!Closes(c) PROVE ChoiceInv'
  <2>1. ChoiceTypes' /\ \A b \in Request : CallerOK(b)'
    BY <1>4, <1>8, ChoiceMoves DEF G!Closes
  <2>2. QED
    BY <1>8, <2>1 DEF G!Closes, ChoiceInv, G!NothingLeaks
<1>9. QED
  BY <1>1, <1>2, <1>3, <1>5, <1>6, <1>7, <1>8
  DEF G!Next, G!PutMode, G!PutEndpoint, G!PutKey, ChoiceInv, ChoiceTypes

\* The steps of this part are those of ModelChoice.
LEMMA ChoiceAlone ==
  /\ Init /\ part = "choice" => G!Init
  /\ [Next]_vars /\ part = "choice" => [G!Next]_(G!choiceVars)
<1>1. Init /\ part = "choice" => G!Init
  BY DEF Init
<1>2. ASSUME part = "choice", Next PROVE G!Next
  BY <1>2 DEF Next, Only, Config, Install, Session, Access, Review, Zones, Desk, Pull, Join, Home, Choice,
              G!Next, G!Mode
<1>3. QED
  BY <1>1, <1>2 DEF vars, choosing, G!choiceVars

-----------------------------------------------------------------------------
(***************************************************************************)
(* Reading a peer.  From its page on, a pull knows its peer by the         *)
(* certificate of the session, that of a member; the rows before its place *)
(* are merged, and so are those before each cursor.                        *)
(***************************************************************************)
PullType == [at : {"idle", "probe", "status", "page", "advance", "embed"},
             x : Address \cup {None}, hint : Peer \cup {None}, fp : Peer \cup {None},
             peer : Peer \cup {None}, since : 0..NRow, notes : SUBSET P!Row]
PullTypes ==
  /\ member \subseteq Peer /\ found \in [Peer -> Address \cup {None}]
  /\ pin \in [Peer -> Peer \cup {None}] /\ cursor \in [Peer -> 0..NRow]
  /\ pull \in [Request -> PullType]
PullOK(t) ==
  pull[t].at \in {"page", "advance"} =>
    /\ pull[t].peer \in member /\ pull[t].peer = pull[t].fp
    /\ P!RowOf(pull[t].peer, 1, pull[t].since) \subseteq have
PullInv == PullTypes /\ (\A t \in Request : PullOK(t)) /\ P!PullIsSound

LEMMA PullStart == P!Init => PullInv
<1> SUFFICES ASSUME P!Init PROVE PullInv
  OBVIOUS
<1> USE PartsAssumption DEF P!PullAssumption
<1>1. P!Idle \in PullType
  BY DEF P!Idle, PullType
<1>2. PullTypes
  BY <1>1 DEF P!Init, PullTypes
<1>3. \A t \in Request : PullOK(t)
  BY DEF P!Init, PullOK, P!Idle
<1>4. P!PullIsSound
  BY DEF P!Init, P!PullIsSound, P!CursorBehindRows, P!PinsAreTrue, P!OnlyMembersMerged,
         P!VectorsFollow, P!RowOf
<1>5. QED
  BY <1>2, <1>3, <1>4 DEF PullInv

\* One pull moves: the others, whose rows stay merged, are as they were.
LEMMA PullGoes ==
  ASSUME PullInv, NEW t \in Request, NEW local \in PullType, P!Goes(t, local),
         have \subseteq have', member' = member,
         local.at \in {"page", "advance"} =>
           /\ local.peer \in member /\ local.peer = local.fp
           /\ P!RowOf(local.peer, 1, local.since) \subseteq have'
  PROVE  /\ pull' \in [Request -> PullType]
         /\ \A b \in Request : PullOK(b)'
         /\ pull'[t] = local
         /\ \A b \in Request \ {t} : pull'[b] = pull[b]
<1>1. pull' \in [Request -> PullType]
  BY DEF P!Goes, PullInv, PullTypes
<1>2. pull'[t] = local /\ \A b \in Request \ {t} : pull'[b] = pull[b]
  BY DEF P!Goes, PullInv, PullTypes
<1>3. ASSUME NEW b \in Request PROVE PullOK(b)'
  <2>1. CASE b = t
    BY <1>2, <2>1 DEF PullOK
  <2>2. CASE b # t
    <3>1. pull'[b] = pull[b] /\ PullOK(b)
      BY <1>2, <2>2 DEF PullInv
    <3>2. QED
      BY <3>1 DEF PullOK
  <2>3. QED
    BY <2>1, <2>2
<1>4. QED
  BY <1>1, <1>2, <1>3

LEMMA PullStep == PullInv /\ [P!Next]_(P!pullVars) => PullInv'
<1> SUFFICES ASSUME PullInv, [P!Next]_(P!pullVars) PROVE PullInv'
  OBVIOUS
<1> USE PartsAssumption DEF P!PullAssumption
<1>a. P!Idle \in PullType /\ P!Idle.notes = {} /\ P!Idle.at = "idle"
  BY DEF P!Idle, PullType
<1>1. CASE UNCHANGED P!pullVars
  BY <1>1 DEF P!pullVars, PullInv, PullTypes, PullOK, P!PullIsSound, P!CursorBehindRows, P!PinsAreTrue,
              P!OnlyMembersMerged, P!VectorsFollow
<1>2. ASSUME UNCHANGED <<member, pin, cursor, have, vector, pull, forgotten>>,
             found' \in [Peer -> Address \cup {None}]
      PROVE PullInv'
  BY <1>2 DEF PullInv, PullTypes, PullOK, P!PullIsSound, P!CursorBehindRows, P!PinsAreTrue,
              P!OnlyMembersMerged, P!VectorsFollow
<1>3. ASSUME NEW p \in Peer, P!Announced(p) \/ P!Removed(p) PROVE PullInv'
  BY <1>2, <1>3 DEF P!Announced, P!Removed, PullInv, PullTypes
<1>4. ASSUME NEW p \in Peer, NEW x \in Address, P!Resolved(p, x) \/ P!Unresolved(p, x) \/ P!Moves(p, x)
      PROVE PullInv'
  BY <1>2, <1>4 DEF P!Resolved, P!Unresolved, P!Moves, PullInv, PullTypes
\* A pull that moves with its notes, or gives them up.
<1>5. ASSUME NEW t \in Request, NEW local \in PullType, P!Goes(t, local), local.at \notin {"page", "advance"},
             \/ local.notes = pull[t].notes /\ UNCHANGED forgotten
             \/ forgotten' = forgotten \cup pull[t].notes,
             UNCHANGED <<member, found, cursor, have, vector>>,
             pin' \in [Peer -> Peer \cup {None}], \A p \in Peer : pin'[p] \in {None, p}
      PROVE  PullInv'
  <2>1. /\ pull' \in [Request -> PullType] /\ \A b \in Request : PullOK(b)'
        /\ pull'[t] = local /\ \A b \in Request \ {t} : pull'[b] = pull[b]
    BY <1>5, PullGoes
  <2>2. PullTypes'
    BY <1>5, <2>1 DEF PullInv, PullTypes
  <2>3. P!VectorsFollow'
    BY <1>5, <2>1 DEF PullInv, P!PullIsSound, P!VectorsFollow
  <2>4. (P!CursorBehindRows /\ P!PinsAreTrue /\ P!OnlyMembersMerged)'
    BY <1>5 DEF PullInv, P!PullIsSound, P!CursorBehindRows, P!PinsAreTrue, P!OnlyMembersMerged
  <2>5. QED
    BY <2>1, <2>2, <2>3, <2>4 DEF PullInv, P!PullIsSound
<1>6. ASSUME NEW t \in Request, P!Gives(t), UNCHANGED <<member, found, cursor, have, vector>>,
             pin' \in [Peer -> Peer \cup {None}], \A p \in Peer : pin'[p] \in {None, p}
      PROVE  PullInv'
  BY <1>5, <1>6, <1>a DEF P!Gives
<1>7. ASSUME NEW t \in Request, P!Begin(t) PROVE PullInv'
  <2>1. pull[t].notes = {} /\ UNCHANGED forgotten /\ UNCHANGED <<member, found, cursor, have, vector, pin>>
        /\ pin \in [Peer -> Peer \cup {None}] /\ \A p \in Peer : pin[p] \in {None, p}
    BY <1>7, <1>a DEF P!Begin, PullInv, PullTypes, P!PullIsSound, P!PinsAreTrue
  <2>2. CASE \E p \in P!KnownPeers : P!Goes(t, [P!Idle EXCEPT !.at = "probe", !.x = found[p], !.hint = p])
    <3>1. PICK p \in P!KnownPeers : P!Goes(t, [P!Idle EXCEPT !.at = "probe", !.x = found[p], !.hint = p])
      BY <2>2
    <3> DEFINE local == [P!Idle EXCEPT !.at = "probe", !.x = found[p], !.hint = p]
    <3>2. p \in Peer /\ found[p] \in Address \cup {None}
      BY DEF P!KnownPeers, PullInv, PullTypes
    <3>3. local \in PullType /\ local.at = "probe" /\ local.notes = {}
      BY <1>a, <3>2 DEF PullType
    <3>4. P!Goes(t, local)
      BY <3>1
    <3> HIDE DEF local
    <3>5. QED
      BY <1>5, <2>1, <3>3, <3>4
  <2>3. CASE \E x \in Address : P!Goes(t, [P!Idle EXCEPT !.at = "probe", !.x = x])
    <3>1. PICK x \in Address : P!Goes(t, [P!Idle EXCEPT !.at = "probe", !.x = x])
      BY <2>3
    <3> DEFINE local == [P!Idle EXCEPT !.at = "probe", !.x = x]
    <3>2. local \in PullType /\ local.at = "probe" /\ local.notes = {}
      BY <1>a DEF PullType
    <3>3. P!Goes(t, local)
      BY <3>1
    <3> HIDE DEF local
    <3>4. QED
      BY <1>5, <2>1, <3>2, <3>3
  <2>4. QED
    BY <1>7, <2>2, <2>3 DEF P!Begin
<1>8. ASSUME NEW t \in Request, P!Probe(t) PROVE PullInv'
  <2>1. pin' \in [Peer -> Peer \cup {None}] /\ \A p \in Peer : pin'[p] \in {None, p}
    BY <1>8 DEF P!Probe, PullInv, PullTypes, P!PullIsSound, P!PinsAreTrue
  <2>2. CASE P!Gives(t)
    BY <1>6, <1>8, <2>1, <2>2 DEF P!Probe
  <2>3. CASE ~P!Gives(t)
    <3>1. PICK p \in Peer : P!Goes(t, [pull[t] EXCEPT !.at = "status", !.fp = p]) /\ UNCHANGED forgotten
      BY <1>8, <2>3 DEF P!Probe, P!At
    <3> DEFINE local == [pull[t] EXCEPT !.at = "status", !.fp = p]
    <3>2. pull[t] \in PullType
      BY DEF PullInv, PullTypes
    <3>3. local \in PullType /\ local.at = "status" /\ local.notes = pull[t].notes
      BY <3>2 DEF PullType
    <3>4. P!Goes(t, local)
      BY <3>1
    <3> HIDE DEF local
    <3>5. QED
      BY <1>5, <1>8, <2>1, <3>1, <3>3, <3>4 DEF P!Probe
  <2>4. QED
    BY <2>2, <2>3
<1>9. ASSUME NEW t \in Request, P!Status(t) PROVE PullInv'
  <2>1. PICK p \in Peer :
          /\ p = pull[t].fp
          /\ pin' = IF pin[p] = None THEN [pin EXCEPT ![p] = pull[t].fp] ELSE pin
          /\ IF pin[p] \in {None, pull[t].fp} /\ p \in member
             THEN P!Goes(t, [pull[t] EXCEPT !.at = "page", !.peer = p, !.since = cursor[p]]) /\ UNCHANGED forgotten
             ELSE P!Gives(t)
    BY <1>9 DEF P!Status, P!Answers
  <2>2. pin' \in [Peer -> Peer \cup {None}] /\ \A q \in Peer : pin'[q] \in {None, q}
    BY <2>1 DEF PullInv, PullTypes, P!PullIsSound, P!PinsAreTrue
  <2>3. CASE P!Gives(t)
    BY <1>6, <1>9, <2>2, <2>3 DEF P!Status
  <2>4. CASE ~P!Gives(t)
    <3> DEFINE local == [pull[t] EXCEPT !.at = "page", !.peer = p, !.since = cursor[p]]
    <3>1. p \in member /\ P!Goes(t, local) /\ UNCHANGED forgotten
      BY <2>1, <2>4
    <3>2. pull[t] \in PullType /\ cursor[p] \in 0..NRow
      BY DEF PullInv, PullTypes
    <3>3. /\ local \in PullType /\ local.at = "page" /\ local.notes = pull[t].notes
          /\ local.peer = p /\ local.fp = p /\ local.since = cursor[p]
      BY <2>1, <3>2 DEF PullType
    <3> HIDE DEF local
    <3>4. P!RowOf(p, 1, cursor[p]) \subseteq have
      BY DEF PullInv, P!PullIsSound, P!CursorBehindRows
    <3>5. UNCHANGED <<member, found, cursor, have, vector>>
      BY <1>9 DEF P!Status
    <3>6. /\ pull' \in [Request -> PullType] /\ \A b \in Request : PullOK(b)'
          /\ pull'[t] = local /\ \A b \in Request \ {t} : pull'[b] = pull[b]
      BY <3>1, <3>3, <3>4, <3>5, PullGoes
    <3>7. PullTypes'
      BY <2>2, <3>5, <3>6 DEF PullInv, PullTypes
    <3>8. P!VectorsFollow'
      BY <3>1, <3>3, <3>5, <3>6 DEF PullInv, P!PullIsSound, P!VectorsFollow
    <3>9. (P!CursorBehindRows /\ P!PinsAreTrue /\ P!OnlyMembersMerged)'
      BY <2>2, <3>5 DEF PullInv, P!PullIsSound, P!CursorBehindRows, P!PinsAreTrue, P!OnlyMembersMerged
    <3>10. QED
      BY <3>6, <3>7, <3>8, <3>9 DEF PullInv, P!PullIsSound
  <2>5. QED
    BY <2>3, <2>4
<1>10. ASSUME NEW t \in Request, P!Page(t) PROVE PullInv'
  <2> DEFINE upto == IF pull[t].since + PageLimit < NRow THEN pull[t].since + PageLimit ELSE NRow
             rows == P!RowOf(pull[t].fp, pull[t].since + 1, upto)
             local == [pull[t] EXCEPT !.at = "advance", !.since = upto, !.notes = @ \cup rows]
  <2>1. /\ pull[t].fp \in Peer /\ have' = have \cup rows /\ P!Goes(t, local) /\ pull[t].at = "page"
        /\ UNCHANGED <<member, found, pin, cursor, vector, forgotten>>
    BY <1>10 DEF P!Page, P!Answers
  <2>2. /\ pull[t] \in PullType /\ PullOK(t)
    BY DEF PullInv, PullTypes
  <2>3. pull[t].since \in 0..NRow /\ upto \in 0..NRow
    BY <2>2 DEF PullType
  <2>4. rows \subseteq P!Row
    BY <2>1, <2>3 DEF P!RowOf, P!Row
  <2>5. P!RowOf(pull[t].fp, 1, upto) = P!RowOf(pull[t].fp, 1, pull[t].since) \cup rows
    <3> HIDE DEF upto
    <3>1. pull[t].since <= upto
      BY <2>3 DEF upto
    <3>2. \A n : n \in 1..upto <=> n \in 1..pull[t].since \/ n \in (pull[t].since + 1)..upto
      BY <2>3, <3>1
    <3>3. QED
      BY <3>2 DEF P!RowOf
  <2>6. /\ local \in PullType /\ local.at = "advance" /\ local.notes = pull[t].notes \cup rows
        /\ local.peer = pull[t].peer /\ local.fp = pull[t].fp /\ local.since = upto
    <3> HIDE DEF upto, rows
    <3>1. QED
      BY <2>2, <2>3, <2>4 DEF PullType
  <2>7. P!RowOf(pull[t].peer, 1, upto) \subseteq have' /\ pull[t].peer \in member /\ pull[t].peer = pull[t].fp
    BY <2>1, <2>2, <2>5 DEF PullOK
  <2> HIDE DEF local
  <2>8. /\ pull' \in [Request -> PullType] /\ \A b \in Request : PullOK(b)'
        /\ pull'[t] = local /\ \A b \in Request \ {t} : pull'[b] = pull[b]
    BY <2>1, <2>6, <2>7, PullGoes
  <2> HIDE DEF rows, upto
  <2>9. PullTypes'
    BY <2>1, <2>8 DEF PullInv, PullTypes
  <2>10. P!VectorsFollow'
    BY <2>1, <2>6, <2>8 DEF PullInv, P!PullIsSound, P!VectorsFollow
  <2>11. P!OnlyMembersMerged'
    <3>1. \A r \in rows : r[1] \in member
      BY <2>7 DEF rows, P!RowOf
    <3>2. QED
      BY <2>1, <3>1 DEF PullInv, P!PullIsSound, P!OnlyMembersMerged
  <2>12. (P!CursorBehindRows /\ P!PinsAreTrue)'
    BY <2>1 DEF PullInv, P!PullIsSound, P!CursorBehindRows, P!PinsAreTrue
  <2>13. QED
    BY <2>8, <2>9, <2>10, <2>11, <2>12 DEF PullInv, P!PullIsSound
<1>11. ASSUME NEW t \in Request, P!Advance(t) PROVE PullInv'
  <2> DEFINE where == IF pull[t].since < NRow THEN "page" ELSE "embed"
             local == [pull[t] EXCEPT !.at = where]
  <2>1. /\ pull[t].at = "advance" /\ cursor' = [cursor EXCEPT ![pull[t].peer] = pull[t].since]
        /\ P!Goes(t, local) /\ UNCHANGED <<member, found, pin, have, vector, forgotten>>
    BY <1>11 DEF P!Advance
  <2>2. pull[t] \in PullType /\ PullOK(t) /\ where \in {"page", "embed"}
    BY DEF PullInv, PullTypes
  <2>3. /\ local \in PullType /\ local.notes = pull[t].notes
        /\ local.peer = pull[t].peer /\ local.fp = pull[t].fp /\ local.since = pull[t].since
    <3> HIDE DEF where
    <3>1. QED
      BY <2>2 DEF PullType
  <2> HIDE DEF local, where
  <2>4. pull[t].peer \in member /\ pull[t].peer = pull[t].fp /\ P!RowOf(pull[t].peer, 1, pull[t].since) \subseteq have
    BY <2>1, <2>2 DEF PullOK
  <2>5. /\ pull' \in [Request -> PullType] /\ \A b \in Request : PullOK(b)'
        /\ pull'[t] = local /\ \A b \in Request \ {t} : pull'[b] = pull[b]
    BY <2>1, <2>3, <2>4, PullGoes
  <2>6. PullTypes'
    <3>1. pull[t].since \in 0..NRow
      BY <2>2 DEF PullType
    <3>2. QED
      BY <2>1, <2>5, <3>1 DEF PullInv, PullTypes
  <2>7. P!VectorsFollow'
    BY <2>1, <2>3, <2>5 DEF PullInv, P!PullIsSound, P!VectorsFollow
  <2>8. (P!PinsAreTrue /\ P!OnlyMembersMerged)'
    BY <2>1 DEF PullInv, P!PullIsSound, P!OnlyMembersMerged, P!PinsAreTrue
  <2>9. P!CursorBehindRows'
    <3>1. ASSUME NEW p \in Peer PROVE P!RowOf(p, 1, cursor'[p]) \subseteq have'
      <4>1. CASE p = pull[t].peer
        BY <2>1, <2>4, <4>1 DEF PullInv, PullTypes
      <4>2. CASE p # pull[t].peer
        BY <2>1, <4>2 DEF PullInv, PullTypes, P!PullIsSound, P!CursorBehindRows
      <4>3. QED
        BY <4>1, <4>2
    <3>2. QED
      BY <3>1 DEF P!CursorBehindRows, P!RowOf
  <2>10. QED
    BY <2>5, <2>6, <2>7, <2>8, <2>9 DEF PullInv, P!PullIsSound
<1>12. ASSUME NEW t \in Request, P!Embed(t) PROVE PullInv'
  <2>1. /\ P!Goes(t, P!Idle) /\ UNCHANGED <<member, found, pin, cursor, have>>
    BY <1>12 DEF P!Embed
  <2>2. PICK done \in SUBSET pull[t].notes :
          vector' = vector \cup done /\ forgotten' = (forgotten \cup pull[t].notes) \ done
    BY <1>12 DEF P!Embed
  <2>3. /\ pull' \in [Request -> PullType] /\ \A b \in Request : PullOK(b)'
        /\ pull'[t] = P!Idle /\ \A b \in Request \ {t} : pull'[b] = pull[b]
    BY <2>1, <1>a, PullGoes
  <2>4. P!VectorsFollow'
    BY <2>1, <2>2, <2>3 DEF PullInv, P!PullIsSound, P!VectorsFollow
  <2>5. QED
    BY <2>1, <2>3, <2>4 DEF PullInv, PullTypes, P!PullIsSound, P!CursorBehindRows, P!PinsAreTrue,
                            P!OnlyMembersMerged
<1>13. ASSUME NEW t \in Request, P!Push(t, "phone") PROVE PullInv'
  <2> DEFINE local == [P!Idle EXCEPT !.at = "embed", !.notes = {<<"phone", 1>>}]
  <2>1. /\ pull[t] = P!Idle /\ have' = have \cup {<<"phone", 1>>} /\ P!Goes(t, local)
        /\ UNCHANGED <<member, found, pin, cursor, vector, forgotten>>
    BY <1>13 DEF P!Push
  <2>2. local \in PullType /\ local.at = "embed" /\ local.notes = {<<"phone", 1>>}
    <3>1. {<<"phone", 1>>} \in SUBSET P!Row
      BY DEF P!Row
    <3>2. QED
      BY <1>a, <3>1 DEF PullType
  <2> HIDE DEF local
  <2>3. /\ pull' \in [Request -> PullType] /\ \A b \in Request : PullOK(b)'
        /\ pull'[t] = local /\ \A b \in Request \ {t} : pull'[b] = pull[b]
    BY <2>1, <2>2, PullGoes
  <2>4. P!VectorsFollow'
    BY <1>a, <2>1, <2>2, <2>3 DEF PullInv, P!PullIsSound, P!VectorsFollow
  <2>5. QED
    BY <2>1, <2>3, <2>4 DEF PullInv, PullTypes, P!PullIsSound, P!CursorBehindRows, P!PinsAreTrue,
                            P!OnlyMembersMerged
<1>14. ASSUME NEW t \in Request, P!Breaks(t) PROVE PullInv'
  BY <1>6, <1>14 DEF P!Breaks, PullInv, PullTypes, P!PullIsSound, P!PinsAreTrue
<1>15. ASSUME P!Dies PROVE PullInv'
  <2>1. PullTypes' /\ \A t \in Request : PullOK(t)'
    BY <1>15, <1>a DEF P!Dies, PullInv, PullTypes, PullOK
  <2>2. P!VectorsFollow'
    BY <1>15 DEF P!Dies, PullInv, P!PullIsSound, P!VectorsFollow
  <2>3. QED
    BY <1>15, <2>1, <2>2 DEF P!Dies, PullInv, P!PullIsSound, P!CursorBehindRows, P!PinsAreTrue,
                            P!OnlyMembersMerged
<1>16. QED
  BY <1>1, <1>3, <1>4, <1>7, <1>8, <1>9, <1>10, <1>11, <1>12, <1>13, <1>14, <1>15 DEF P!Next

LEMMA PullAlone ==
  /\ Init /\ part = "pull" => P!Init
  /\ [Next]_vars /\ part = "pull" => [P!Next]_(P!pullVars)
<1>1. Init /\ part = "pull" => P!Init
  BY DEF Init
<1>2. ASSUME part = "pull", Next PROVE P!Next
  BY <1>2 DEF Next, Only, Config, Install, Session, Access, Review, Zones, Desk, Pull, Join, Home, Choice, P!Next
<1>3. QED
  BY <1>1, <1>2 DEF vars, pulling, P!pullVars

\* For any number of peers, addresses, pulls and rows: whatever happens to the network
\* between two requests, a pull skips no row, confuses no two peers and lets no stranger in,
\* and its notes get a vector unless a failure or a death came between the page and that.
THEOREM PullsAreSound == Spec => []PullIsSound
<1> DEFINE Inv == part = "pull" => PullInv
<1>1. Init => Inv
  BY PullAlone, PullStart
<1>2. Inv /\ [Next]_vars => Inv'
  BY PartStays, PullAlone, PullStep
<1>3. Inv => PullIsSound
  BY DEF PullInv, PullIsSound
<1>4. QED
  BY <1>1, <1>2, <1>3, PTL DEF Spec

-----------------------------------------------------------------------------
(***************************************************************************)
(* Who is let in.  What a joiner adopts, or is about to, is the token of   *)
(* the installation of its member or one that this member issued to it;    *)
(* no token that was issued is that of an installation.                    *)
(***************************************************************************)
TokenFor(t, b, d) == t = D!Install(b) \/ (t \in issued /\ \E n \in 1..MaxIssue : t = <<b, d, n>>)

AccessInv ==
  /\ DOMAIN adopted = Device /\ DOMAIN invited = Device /\ link \in [Device -> Device \cup {None}]
  /\ \A t \in issued : \E b, d \in Device, n \in 1..MaxIssue : t = <<b, d, n>>
  /\ \A d \in Device : invited[d] # <<>> => \E b \in Device : TokenFor(invited[d], b, d)
  /\ \A d \in Device : link[d] # None => TokenFor(adopted[d], link[d], d)

LEMMA AccessInit == D!Init => AccessInv
BY DEF D!Init, AccessInv

LEMMA AccessEnters == AccessInv => D!PairedStillEnters
<1> USE PartsAssumption DEF D!AccessAssumption
<1> SUFFICES ASSUME AccessInv, NEW d \in Device, link[d] # None, d \notin revoked[link[d]]
             PROVE  D!Enters(d, link[d])
  BY DEF D!PairedStillEnters
<1>1. TokenFor(adopted[d], link[d], d) /\ link[d] \in Device
  BY DEF AccessInv
<1>2. D!Presented(d) = adopted[d]
  BY <1>1 DEF D!Presented, TokenFor, D!Install
<1>3. CASE adopted[d] = D!Install(link[d])
  <2>1. adopted[d] \notin issued
    BY <1>1, <1>3 DEF AccessInv, D!Install
  <2>2. QED
    BY <1>2, <1>3, <2>1 DEF D!Enters
<1>4. CASE adopted[d] \in issued /\ \E n \in 1..MaxIssue : adopted[d] = <<link[d], d, n>>
  BY <1>2, <1>4 DEF D!Enters
<1>5. QED
  BY <1>1, <1>3, <1>4 DEF TokenFor

\* A token that was issued stays issued.
LEMMA TokenStays ==
  ASSUME issued \subseteq issued', NEW t, NEW b, NEW d, TokenFor(t, b, d)
  PROVE  TokenFor(t, b, d)'
BY DEF TokenFor, D!Install

LEMMA AccessStep == AccessInv /\ [D!Next]_(D!accessVars) => AccessInv'
<1> SUFFICES ASSUME AccessInv, [D!Next]_(D!accessVars) PROVE AccessInv'
  OBVIOUS
<1> USE PartsAssumption DEF D!AccessAssumption
<1>1. CASE UNCHANGED D!accessVars
  BY <1>1 DEF D!accessVars, AccessInv, TokenFor
\* Steps that touch no token.
<1>2. CASE UNCHANGED <<adopted, issued, invited, link>>
  BY <1>2 DEF AccessInv, TokenFor
<1>3. ASSUME NEW b \in Device, NEW d \in Device, D!Approve(b, d) PROVE AccessInv'
  <2>1. CASE UNCHANGED issued /\ invited' = [invited EXCEPT ![d] = D!Install(b)]
    BY <1>3, <2>1 DEF D!Approve, AccessInv, TokenFor
  <2>2. CASE \E n \in 1..MaxIssue : issued' = issued \cup {<<b, d, n>>} /\ invited' = [invited EXCEPT ![d] = <<b, d, n>>]
    <3>1. PICK n \in 1..MaxIssue : issued' = issued \cup {<<b, d, n>>} /\ invited' = [invited EXCEPT ![d] = <<b, d, n>>]
      BY <2>2
    <3>2. UNCHANGED <<adopted, link>>
      BY <1>3 DEF D!Approve
    <3>3. \A t \in issued' : \E c, e \in Device, m \in 1..MaxIssue : t = <<c, e, m>>
      BY <3>1 DEF AccessInv
    <3>4. ASSUME NEW e \in Device, invited'[e] # <<>> PROVE \E c \in Device : TokenFor(invited[e], c, e)'
      <4>1. CASE e = d
        BY <3>1, <4>1 DEF AccessInv, TokenFor
      <4>2. CASE e # d
        BY <3>1, <3>4, <4>2, TokenStays DEF AccessInv
      <4>3. QED
        BY <4>1, <4>2
    <3>5. ASSUME NEW e \in Device, link'[e] # None PROVE TokenFor(adopted[e], link[e], e)'
      BY <3>1, <3>2, <3>5, TokenStays DEF AccessInv
    <3>6. QED
      BY <3>1, <3>2, <3>3, <3>4, <3>5 DEF AccessInv
  <2>3. QED
    BY <1>3, <2>1, <2>2 DEF D!Approve, D!Issued
<1>4. ASSUME NEW d \in Device, D!Lose(d) PROVE AccessInv'
  BY <1>4 DEF D!Lose, AccessInv, TokenFor
<1>5. ASSUME NEW d \in Device, D!Join(d) PROVE AccessInv'
  <2>1. PICK b \in Device : TokenFor(invited[d], b, d)
    BY <1>5 DEF D!Join, AccessInv
  <2>2. invited[d][1] = b
    BY <2>1 DEF TokenFor, D!Install
  <2>3. adopted' = [adopted EXCEPT ![d] = invited[d]] /\ link' = [link EXCEPT ![d] = b]
        /\ invited' = [invited EXCEPT ![d] = <<>>] /\ UNCHANGED issued
    BY <1>5, <2>2 DEF D!Join
  <2>4. QED
    BY <2>1, <2>3 DEF AccessInv, TokenFor
<1>6. ASSUME NEW d \in Device, D!Answer(d) PROVE AccessInv'
  <2>1. PICK n \in 1..MaxIssue : issued' = issued \cup {<<d, link[d], n>>}
    BY <1>6 DEF D!Answer, D!Issued
  <2>2. UNCHANGED <<adopted, invited, link>> /\ link[d] \in Device
    BY <1>6 DEF D!Answer, AccessInv
  <2>3. QED
    BY <2>1, <2>2, TokenStays DEF AccessInv
<1>7. ASSUME NEW d \in Device, NEW b \in Device, D!Pull(d, b) \/ D!Revoke(b, d) \/ D!Restore(b, d) PROVE AccessInv'
  BY <1>2, <1>7 DEF D!Pull, D!Revoke, D!Restore
<1>8. QED
  BY <1>1, <1>3, <1>4, <1>5, <1>6, <1>7 DEF D!Next

LEMMA AccessAlone ==
  /\ Init /\ part = "access" => D!Init
  /\ [Next]_vars /\ part = "access" => [D!Next]_(D!accessVars)
<1>1. Init /\ part = "access" => D!Init
  BY DEF Init
<1>2. ASSUME part = "access", Next PROVE D!Next
  BY <1>2 DEF Next, Only, Config, Install, Session, Access, Review, Zones, Desk, Pull, Join, Home, Choice, D!Next
<1>3. QED
  BY <1>1, <1>2 DEF vars, access, D!accessVars

\* For any number of devices and tokens: the member of its last pairing lets a device in
\* for as long as it does not hold it for revoked.
THEOREM ThePairedEnter == Spec => []PairedStillEnters
<1> DEFINE Inv == part = "access" => AccessInv
<1>1. Init => Inv
  BY AccessAlone, AccessInit
<1>2. Inv /\ [Next]_vars => Inv'
  BY PartStays, AccessAlone, AccessStep
<1>3. Inv => PairedStillEnters
  BY AccessEnters DEF PairedStillEnters
<1>4. QED
  BY <1>1, <1>2, <1>3, PTL DEF Spec

-----------------------------------------------------------------------------
(***************************************************************************)
(* The sessions of the local engine.  The level of a process counts its    *)
(* open sessions, a session that starts holds the lock of its process, and *)
(* unless something disturbed them the open sessions are of one process.   *)
(***************************************************************************)
In(p) == {u \in User : HomeOf[u] = p /\ session[u] = "in"}

SessionTypes ==
  /\ session \in [User -> {"out", "starting", "in"}]
  /\ verrou \in [Backend -> User \cup {None}]
  /\ niveau \in [Backend -> Nat] /\ proc \in [Backend -> BOOLEAN]
  /\ engine \in [Backend -> {"none", "loading", "serving"}]
  /\ stray \in {"none", "loading", "serving"} /\ disturbed \in BOOLEAN
Counted == \A p \in Backend : IsFiniteSet(In(p)) /\ niveau[p] = Cardinality(In(p))
Locked ==
  /\ \A u \in User : session[u] = "starting" => verrou[HomeOf[u]] = u
  /\ \A p \in Backend : verrou[p] # None => session[verrou[p]] = "starting" /\ HomeOf[verrou[p]] = p /\ niveau[p] = 0
Owned ==
  /\ \A p \in Backend : engine[p] # "none" => niveau[p] > 0 \/ verrou[p] # None
  /\ \A p \in Backend : niveau[p] > 0 /\ ~proc[p] => engine[p] = "none"
Together == disturbed \/ \A u, v \in S!Open : HomeOf[u] = HomeOf[v]
Answering == disturbed \/ S!Served \/ \A u \in User : session[u] # "in"
SessionInv == SessionTypes /\ Counted /\ Locked /\ Owned /\ Together /\ Answering

LEMMA SessionInit == S!Init => SessionInv
<1> SUFFICES ASSUME S!Init PROVE SessionInv
  OBVIOUS
<1>1. SessionTypes /\ Locked /\ Owned /\ Together /\ Answering
  BY DEF S!Init, SessionTypes, Locked, Owned, Together, Answering, S!Open
<1>2. Counted
  <2>1. \A p \in Backend : In(p) = {} /\ niveau[p] = 0
    BY DEF S!Init, In
  <2>2. QED
    BY <2>1, FS_EmptySet DEF Counted
<1>3. QED
  BY <1>1, <1>2 DEF SessionInv

\* The level of a process whose sessions are as they were.
LEMMA CountStays ==
  ASSUME NEW p \in Backend, IsFiniteSet(In(p)), niveau[p] = Cardinality(In(p)),
         niveau'[p] = niveau[p], \A u \in User : HomeOf[u] = p => (session'[u] = "in" <=> session[u] = "in")
  PROVE  (IsFiniteSet(In(p)) /\ niveau[p] = Cardinality(In(p)))'
<1>1. In(p)' = In(p)
  BY DEF In
<1>2. QED
  BY <1>1

\* ... with a session more, and with one less.
LEMMA CountEnters ==
  ASSUME NEW u \in User, SessionTypes, Counted, HomeOf[u] \in Backend, session[u] # "in",
         session' = [session EXCEPT ![u] = "in"], niveau' = [niveau EXCEPT ![HomeOf[u]] = @ + 1]
  PROVE  Counted'
<1>1. ASSUME NEW p \in Backend, p = HomeOf[u] PROVE (IsFiniteSet(In(p)) /\ niveau[p] = Cardinality(In(p)))'
  <2>1. In(p)' = In(p) \cup {u} /\ u \notin In(p)
    BY <1>1 DEF In, SessionTypes
  <2>2. IsFiniteSet(In(p)) /\ niveau[p] = Cardinality(In(p))
    BY DEF Counted
  <2>3. IsFiniteSet(In(p) \cup {u}) /\ Cardinality(In(p) \cup {u}) = Cardinality(In(p)) + 1
    BY <2>1, <2>2, FS_AddElement
  <2>4. niveau'[p] = niveau[p] + 1
    BY <1>1 DEF SessionTypes
  <2>5. QED
    BY <2>1, <2>2, <2>3, <2>4
<1>2. ASSUME NEW p \in Backend, p # HomeOf[u] PROVE (IsFiniteSet(In(p)) /\ niveau[p] = Cardinality(In(p)))'
  BY <1>2, CountStays DEF Counted, SessionTypes
<1>3. QED
  BY <1>1, <1>2 DEF Counted

LEMMA CountLeaves ==
  ASSUME NEW u \in User, SessionTypes, Counted, HomeOf[u] \in Backend, session[u] = "in",
         session' = [session EXCEPT ![u] = "out"], niveau' = [niveau EXCEPT ![HomeOf[u]] = @ - 1]
  PROVE  Counted' /\ niveau[HomeOf[u]] > 0
         /\ (niveau[HomeOf[u]] = 1 => \A v \in User : HomeOf[v] = HomeOf[u] => session'[v] # "in")
<1> DEFINE h == HomeOf[u]
<1>1. In(h)' = In(h) \ {u} /\ u \in In(h)
  BY DEF In, SessionTypes
<1>2. IsFiniteSet(In(h)) /\ niveau[h] = Cardinality(In(h))
  BY DEF Counted
<1>3. IsFiniteSet(In(h) \ {u}) /\ Cardinality(In(h) \ {u}) = Cardinality(In(h)) - 1
  BY <1>1, <1>2, FS_RemoveElement
<1>4. niveau'[h] = niveau[h] - 1 /\ niveau[h] \in Nat
  BY DEF SessionTypes
<1>5. Cardinality(In(h) \ {u}) \in Nat
  BY <1>3, FS_CardinalityType
<1>6. niveau[h] > 0
  BY <1>2, <1>3, <1>4, <1>5
<1>7. ASSUME niveau[h] = 1, NEW v \in User, HomeOf[v] = h PROVE session'[v] # "in"
  <2>1. In(h) \ {u} = {}
    BY <1>2, <1>3, <1>7, FS_EmptySet
  <2>2. QED
    BY <1>1, <1>7, <2>1 DEF In
<1>8. ASSUME NEW p \in Backend PROVE (IsFiniteSet(In(p)) /\ niveau[p] = Cardinality(In(p)))'
  <2>1. CASE p = h
    BY <1>1, <1>2, <1>3, <1>4, <2>1
  <2>2. CASE p # h
    BY <2>2, CountStays DEF Counted, SessionTypes
  <2>3. QED
    BY <2>1, <2>2
<1>9. QED
  BY <1>6, <1>7, <1>8 DEF Counted

\* What a step that opens or ends sessions leaves of the history.
LEMMA SessionsTogether ==
  ASSUME NEW extra \in BOOLEAN, SessionTypes, S!Disturbed(S!Open', extra)
  PROVE  /\ disturbed' \in BOOLEAN /\ Together'
         /\ ~disturbed' /\ (\E u \in User : session'[u] = "in") => ~disturbed /\ ~extra
<1>1. disturbed' \in BOOLEAN
  BY DEF S!Disturbed
<1>2. Together'
  BY DEF S!Disturbed, Together
<1>3. (\E u \in User : session'[u] = "in") => S!Open' # {}
  BY DEF S!Open
<1>4. QED
  BY <1>1, <1>2, <1>3 DEF S!Disturbed

LEMMA SessionStep == SessionInv /\ [S!Next]_(S!sessionVars) => SessionInv'
<1> SUFFICES ASSUME SessionInv, [S!Next]_(S!sessionVars) PROVE SessionInv'
  OBVIOUS
<1> USE PartsAssumption DEF S!SessionAssumption
<1>a. SessionTypes /\ Counted /\ Locked /\ Owned /\ Together /\ Answering
  BY DEF SessionInv
<1>b. S!Served \in BOOLEAN
  BY DEF S!Served
<1>1. CASE UNCHANGED S!sessionVars
  <2>1. \A p : In(p)' = In(p)
    BY <1>1 DEF S!sessionVars, In
  <2>2. QED
    BY <1>1, <2>1 DEF S!sessionVars, SessionInv, SessionTypes, Counted, Locked, Owned, Together, Answering,
                      S!Open, S!Served
<1>2. ASSUME NEW u \in User, S!Join(u) PROVE SessionInv'
  <2> DEFINE h == HomeOf[u]
  <2>1. /\ session[u] = "out" /\ verrou[h] = None /\ (niveau[h] > 0 \/ S!Served)
        /\ session' = [session EXCEPT ![u] = "in"] /\ niveau' = [niveau EXCEPT ![h] = @ + 1]
        /\ proc' = (IF niveau[h] = 0 THEN [proc EXCEPT ![h] = FALSE] ELSE proc)
        /\ S!Disturbed(S!Open \cup {u}, ~S!Served) /\ UNCHANGED <<verrou, engine, stray>>
    BY <1>2 DEF S!Join
  <2>2. h \in Backend
    OBVIOUS
  <2>3. S!Open' = S!Open \cup {u}
    BY <1>a, <2>1 DEF S!Open, SessionTypes
  <2>4. /\ disturbed' \in BOOLEAN /\ Together'
        /\ ~disturbed' /\ (\E v \in User : session'[v] = "in") => ~disturbed /\ S!Served
    BY <1>a, <1>b, <2>1, <2>3, SessionsTogether
  <2>5. SessionTypes'
    BY <1>a, <2>1, <2>2, <2>4 DEF SessionTypes
  <2>6. Counted'
    BY <1>a, <2>1, <2>2, CountEnters
  <2>7. Locked'
    BY <1>a, <2>1, <2>2 DEF Locked, SessionTypes
  <2>8. Owned'
    BY <1>a, <2>1, <2>2 DEF Owned, SessionTypes
  <2>9. Answering'
    BY <2>1, <2>4 DEF Answering, S!Served
  <2>10. QED
    BY <2>4, <2>5, <2>6, <2>7, <2>8, <2>9 DEF SessionInv
<1>3. ASSUME NEW u \in User, S!Launch(u) PROVE SessionInv'
  <2> DEFINE h == HomeOf[u]
  <2>1. /\ session[u] = "out" /\ verrou[h] = None /\ niveau[h] = 0 /\ ~S!Served
        /\ session' = [session EXCEPT ![u] = "starting"] /\ verrou' = [verrou EXCEPT ![h] = u]
        /\ engine' = [engine EXCEPT ![h] = "loading"]
        /\ S!Disturbed(S!Open \cup {u}, FALSE) /\ UNCHANGED <<niveau, proc, stray>>
    BY <1>3 DEF S!Launch
  <2>2. h \in Backend
    OBVIOUS
  <2>3. S!Open' = S!Open \cup {u}
    BY <1>a, <2>1 DEF S!Open, SessionTypes
  <2>4. /\ disturbed' \in BOOLEAN /\ Together'
        /\ ~disturbed' /\ (\E v \in User : session'[v] = "in") => ~disturbed
    BY <1>a, <2>1, <2>3, SessionsTogether
  <2>5. SessionTypes'
    BY <1>a, <2>1, <2>2, <2>4 DEF SessionTypes
  <2>6. Counted'
    BY <1>a, <2>1, CountStays DEF Counted, SessionTypes
  <2>7. Locked'
    BY <1>a, <2>1, <2>2 DEF Locked, SessionTypes
  <2>8. Owned'
    BY <1>a, <2>1, <2>2 DEF Owned, SessionTypes
  <2>9. Answering'
    <3>1. \A v \in User : session'[v] = "in" => session[v] = "in"
      BY <1>a, <2>1 DEF SessionTypes
    <3>2. QED
      BY <1>a, <2>1, <2>4, <3>1 DEF Answering
  <2>10. QED
    BY <2>4, <2>5, <2>6, <2>7, <2>8, <2>9 DEF SessionInv
<1>4. ASSUME NEW u \in User, S!Started(u) PROVE SessionInv'
  <2> DEFINE h == HomeOf[u]
  <2>1. /\ session[u] = "starting" /\ engine[h] # "none" /\ S!Served
        /\ session' = [session EXCEPT ![u] = "in"] /\ verrou' = [verrou EXCEPT ![h] = None]
        /\ niveau' = [niveau EXCEPT ![h] = 1] /\ proc' = [proc EXCEPT ![h] = TRUE]
        /\ UNCHANGED <<engine, stray, disturbed>>
    BY <1>4 DEF S!Started
  <2>2. h \in Backend /\ verrou[h] = u /\ niveau[h] = 0
    BY <1>a, <2>1 DEF Locked
  <2>3. S!Open' = S!Open
    BY <1>a, <2>1 DEF S!Open, SessionTypes
  <2>4. niveau' = [niveau EXCEPT ![h] = @ + 1]
    BY <2>1, <2>2
  <2>5. SessionTypes'
    BY <1>a, <2>1, <2>2 DEF SessionTypes
  <2>6. Counted'
    BY <1>a, <2>1, <2>2, <2>4, CountEnters
  <2>7. Locked'
    BY <1>a, <2>1, <2>2 DEF Locked, SessionTypes
  <2>8. Owned'
    BY <1>a, <2>1, <2>2 DEF Owned, SessionTypes
  <2>9. Answering' /\ Together'
    BY <1>a, <2>1, <2>3 DEF Answering, Together, S!Served
  <2>10. QED
    BY <2>5, <2>6, <2>7, <2>8, <2>9 DEF SessionInv
<1>5. ASSUME NEW u \in User, S!NotStarted(u) PROVE SessionInv'
  <2> DEFINE h == HomeOf[u]
  <2>1. /\ session[u] = "starting" /\ (engine[h] = "none" \/ ~S!Served)
        /\ session' = [session EXCEPT ![u] = "out"] /\ verrou' = [verrou EXCEPT ![h] = None]
        /\ engine' = [engine EXCEPT ![h] = "none"]
        /\ S!Disturbed(S!Open \ {u}, FALSE) /\ UNCHANGED <<niveau, proc, stray>>
    BY <1>5 DEF S!NotStarted
  <2>2. h \in Backend /\ verrou[h] = u /\ niveau[h] = 0
    BY <1>a, <2>1 DEF Locked
  <2>3. S!Open' = S!Open \ {u}
    BY <1>a, <2>1 DEF S!Open, SessionTypes
  <2>4. /\ disturbed' \in BOOLEAN /\ Together'
        /\ ~disturbed' /\ (\E v \in User : session'[v] = "in") => ~disturbed
    BY <1>a, <2>1, <2>3, SessionsTogether
  <2>5. SessionTypes'
    BY <1>a, <2>1, <2>2, <2>4 DEF SessionTypes
  <2>6. Counted'
    BY <1>a, <2>1, CountStays DEF Counted, SessionTypes
  <2>7. Locked'
    BY <1>a, <2>1, <2>2 DEF Locked, SessionTypes
  <2>8. Owned'
    BY <1>a, <2>1, <2>2 DEF Owned, SessionTypes
  <2>9. Answering'
    <3>1. \A v \in User : session'[v] = "in" => session[v] = "in"
      BY <1>a, <2>1 DEF SessionTypes
    <3>2. S!Served => S!Served'
      BY <1>a, <2>1 DEF S!Served, SessionTypes
    <3>3. QED
      BY <1>a, <2>4, <3>1, <3>2 DEF Answering
  <2>10. QED
    BY <2>4, <2>5, <2>6, <2>7, <2>8, <2>9 DEF SessionInv
<1>6. ASSUME NEW u \in User, S!Retry(u) PROVE SessionInv'
  <2> DEFINE h == HomeOf[u]
  <2>1. /\ session[u] = "starting" /\ ~S!Served /\ engine' = [engine EXCEPT ![h] = "loading"]
        /\ UNCHANGED <<session, verrou, niveau, proc, stray, disturbed>>
    BY <1>6 DEF S!Retry
  <2>2. h \in Backend /\ verrou[h] = u /\ niveau[h] = 0
    BY <1>a, <2>1 DEF Locked
  <2>3. SessionTypes'
    BY <1>a, <2>1, <2>2 DEF SessionTypes
  <2>4. Counted'
    BY <1>a, <2>1, CountStays DEF Counted
  <2>5. Locked' /\ Owned'
    BY <1>a, <2>1, <2>2 DEF Locked, Owned, SessionTypes
  <2>6. Together' /\ Answering'
    BY <1>a, <2>1 DEF Together, Answering, S!Open
  <2>7. QED
    BY <2>3, <2>4, <2>5, <2>6 DEF SessionInv
<1>7. ASSUME NEW u \in User, S!Leave(u) PROVE SessionInv'
  <2> DEFINE h == HomeOf[u]
  <2>1. /\ session[u] = "in" /\ verrou[h] = None
        /\ session' = [session EXCEPT ![u] = "out"] /\ niveau' = [niveau EXCEPT ![h] = @ - 1]
        /\ engine' = (IF niveau[h] = 1 /\ proc[h] THEN [engine EXCEPT ![h] = "none"] ELSE engine)
        /\ proc' = (IF niveau[h] = 1 THEN [proc EXCEPT ![h] = FALSE] ELSE proc)
        /\ S!Disturbed(S!Open \ {u}, FALSE) /\ UNCHANGED <<verrou, stray>>
    BY <1>7 DEF S!Leave
  <2>2. h \in Backend
    OBVIOUS
  <2>3. S!Open' = S!Open \ {u}
    BY <1>a, <2>1 DEF S!Open, SessionTypes
  <2>4. /\ disturbed' \in BOOLEAN /\ Together'
        /\ ~disturbed' /\ (\E v \in User : session'[v] = "in") => ~disturbed
    BY <1>a, <2>1, <2>3, SessionsTogether
  <2>5. /\ Counted' /\ niveau[h] > 0
        /\ niveau[h] = 1 => \A v \in User : HomeOf[v] = h => session'[v] # "in"
    BY <1>a, <2>1, <2>2, CountLeaves
  <2>6. SessionTypes'
    <3>1. niveau' \in [Backend -> Nat]
      BY <1>a, <2>1, <2>2, <2>5 DEF SessionTypes
    <3>2. engine' \in [Backend -> {"none", "loading", "serving"}] /\ proc' \in [Backend -> BOOLEAN]
      BY <1>a, <2>1, <2>2 DEF SessionTypes
    <3>3. QED
      BY <1>a, <2>1, <2>2, <2>4, <3>1, <3>2 DEF SessionTypes
  <2>7. Locked'
    BY <1>a, <2>1, <2>2 DEF Locked, SessionTypes
  <2>8. Owned'
    <3>1. ASSUME NEW p \in Backend, p # h
          PROVE  niveau'[p] = niveau[p] /\ engine'[p] = engine[p] /\ proc'[p] = proc[p] /\ verrou'[p] = verrou[p]
      BY <1>a, <2>1, <3>1 DEF SessionTypes
    <3>2. CASE niveau[h] = 1
      BY <1>a, <2>1, <2>2, <3>1, <3>2 DEF Owned, SessionTypes
    <3>3. CASE niveau[h] # 1
      <4>1. niveau[h] \in Nat
        BY <1>a, <2>2 DEF SessionTypes
      <4>2. niveau'[h] = niveau[h] - 1 /\ niveau'[h] > 0 /\ engine' = engine /\ proc' = proc
        BY <1>a, <2>1, <2>2, <2>5, <3>3, <4>1 DEF SessionTypes
      <4>3. QED
        BY <1>a, <2>1, <2>5, <3>1, <4>2 DEF Owned
    <3>4. QED
      BY <3>2, <3>3
  <2>9. Answering'
    <3>1. \A v \in User : session'[v] = "in" => session[v] = "in"
      BY <1>a, <2>1 DEF SessionTypes
    <3>2. CASE engine' = engine
      BY <1>a, <2>1, <2>4, <3>1, <3>2 DEF Answering, S!Served
    <3>3. CASE engine' # engine
      <4>1. \A v \in User : HomeOf[v] = h => session'[v] # "in"
        BY <2>1, <2>5, <3>3
      <4>2. u \in S!Open /\ \A v \in User : session[v] = "in" => v \in S!Open
        BY <2>1 DEF S!Open
      <4>3. QED
        BY <1>a, <2>4, <3>1, <4>1, <4>2 DEF Answering, Together
    <3>4. QED
      BY <3>2, <3>3
  <2>10. QED
    BY <2>4, <2>5, <2>6, <2>7, <2>8, <2>9 DEF SessionInv
\* Steps of the engines, or of the server of a developer.
<1>8. ASSUME NEW p \in Backend, S!Loaded(p) PROVE SessionInv'
  <2>1. /\ engine[p] = "loading" /\ engine' = [engine EXCEPT ![p] = IF S!Served THEN "none" ELSE "serving"]
        /\ UNCHANGED <<session, verrou, niveau, proc, stray, disturbed>>
    BY <1>8 DEF S!Loaded
  <2>2. SessionTypes' /\ Locked'
    BY <1>a, <2>1 DEF SessionTypes, Locked
  <2>3. Counted'
    BY <1>a, <2>1, CountStays DEF Counted
  <2>4. Owned'
    BY <1>a, <2>1 DEF Owned, SessionTypes
  <2>5. S!Served'
    BY <1>a, <2>1 DEF S!Served, SessionTypes
  <2>6. Together' /\ Answering'
    BY <1>a, <2>1, <2>5 DEF Together, Answering, S!Open
  <2>7. QED
    BY <2>2, <2>3, <2>4, <2>6 DEF SessionInv
<1>9. ASSUME NEW p \in Backend, S!Falls(p) PROVE SessionInv'
  <2> DEFINE extra == \E u \in User : session[u] = "in"
  <2>1. /\ engine' = [engine EXCEPT ![p] = "none"] /\ S!Disturbed(S!Open, extra)
        /\ UNCHANGED <<session, verrou, niveau, proc, stray>>
    BY <1>9 DEF S!Falls
  <2>2. S!Open' = S!Open /\ extra \in BOOLEAN
    BY <2>1 DEF S!Open
  <2>3. /\ disturbed' \in BOOLEAN /\ Together'
        /\ ~disturbed' /\ (\E v \in User : session'[v] = "in") => ~disturbed /\ ~extra
    BY <1>a, <2>1, <2>2, SessionsTogether
  <2>4. SessionTypes' /\ Locked'
    BY <1>a, <2>1, <2>3 DEF SessionTypes, Locked
  <2>5. Counted'
    BY <1>a, <2>1, CountStays DEF Counted
  <2>6. Owned'
    BY <1>a, <2>1 DEF Owned, SessionTypes
  <2>7. Answering'
    BY <2>1, <2>3 DEF Answering
  <2>8. QED
    BY <2>3, <2>4, <2>5, <2>6, <2>7 DEF SessionInv
<1>10. ASSUME S!ByHand PROVE SessionInv'
  <2> DEFINE extra == stray # "none"
  <2>1. /\ stray' \in {"none", "serving"} /\ (extra \/ stray' = "serving") /\ S!Disturbed(S!Open, extra)
        /\ UNCHANGED <<session, verrou, niveau, proc, engine>>
    BY <1>10 DEF S!ByHand
  <2>2. S!Open' = S!Open /\ extra \in BOOLEAN
    BY <2>1 DEF S!Open
  <2>3. /\ disturbed' \in BOOLEAN /\ Together'
        /\ ~disturbed' /\ (\E v \in User : session'[v] = "in") => ~disturbed /\ ~extra
    BY <1>a, <2>1, <2>2, SessionsTogether
  <2>4. SessionTypes' /\ Locked'
    BY <1>a, <2>1, <2>3 DEF SessionTypes, Locked
  <2>5. Counted'
    BY <1>a, <2>1, CountStays DEF Counted
  <2>6. Owned'
    BY <1>a, <2>1 DEF Owned
  <2>7. Answering'
    BY <2>1, <2>3 DEF Answering, S!Served
  <2>8. QED
    BY <2>3, <2>4, <2>5, <2>6, <2>7 DEF SessionInv
<1>11. ASSUME S!StrayLoaded PROVE SessionInv'
  <2>1. /\ stray = "loading" /\ stray' = (IF S!Served THEN "none" ELSE "serving")
        /\ UNCHANGED <<session, verrou, niveau, proc, engine, disturbed>>
    BY <1>11 DEF S!StrayLoaded
  <2>2. SessionTypes' /\ Locked' /\ Owned'
    BY <1>a, <2>1 DEF SessionTypes, Locked, Owned
  <2>3. Counted'
    BY <1>a, <2>1, CountStays DEF Counted
  <2>4. S!Served'
    BY <1>a, <2>1 DEF S!Served
  <2>5. Together' /\ Answering'
    BY <1>a, <2>1, <2>4 DEF Together, Answering, S!Open
  <2>6. QED
    BY <2>2, <2>3, <2>5 DEF SessionInv
<1>12. ASSUME NEW p \in Backend, S!Perish(p) PROVE SessionInv'
  <2>1. /\ stray = "none" /\ stray' = engine[p] /\ engine' = [engine EXCEPT ![p] = "none"]
        /\ session' = [u \in User |-> IF u \in S!Of(p) THEN "out" ELSE session[u]]
        /\ verrou' = [verrou EXCEPT ![p] = None] /\ niveau' = [niveau EXCEPT ![p] = 0]
        /\ proc' = [proc EXCEPT ![p] = FALSE] /\ S!Disturbed(S!Open \ S!Of(p), FALSE)
    BY <1>12 DEF S!Perish
  <2>2. S!Open' = S!Open \ S!Of(p)
    BY <2>1 DEF S!Open
  <2>3. /\ disturbed' \in BOOLEAN /\ Together'
        /\ ~disturbed' /\ (\E v \in User : session'[v] = "in") => ~disturbed
    BY <1>a, <2>1, <2>2, SessionsTogether
  <2>4. SessionTypes'
    BY <1>a, <2>1, <2>3 DEF SessionTypes
  <2>5. Locked'
    BY <1>a, <2>1 DEF Locked, SessionTypes, S!Of
  <2>6. Counted'
    <3>1. ASSUME NEW q \in Backend, q # p PROVE (IsFiniteSet(In(q)) /\ niveau[q] = Cardinality(In(q)))'
      BY <1>a, <2>1, <3>1, CountStays DEF Counted, SessionTypes, S!Of
    <3>2. In(p)' = {} /\ niveau'[p] = 0
      BY <1>a, <2>1 DEF In, S!Of, SessionTypes
    <3>3. QED
      BY <3>1, <3>2, FS_EmptySet DEF Counted
  <2>7. Owned'
    BY <1>a, <2>1 DEF Owned, SessionTypes
  <2>8. Answering'
    <3>1. \A v \in User : session'[v] = "in" => session[v] = "in"
      BY <1>a, <2>1 DEF SessionTypes
    <3>2. S!Served => S!Served'
      BY <1>a, <2>1 DEF S!Served, SessionTypes
    <3>3. QED
      BY <1>a, <2>3, <3>1, <3>2 DEF Answering
  <2>9. QED
    BY <2>3, <2>4, <2>5, <2>6, <2>7, <2>8 DEF SessionInv
<1>13. QED
  BY <1>1, <1>2, <1>3, <1>4, <1>5, <1>6, <1>7, <1>8, <1>9, <1>10, <1>11, <1>12 DEF S!Next

LEMMA SessionAlone ==
  /\ Init /\ part = "session" => S!Init
  /\ [Next]_vars /\ part = "session" => [S!Next]_(S!sessionVars)
<1>1. Init /\ part = "session" => S!Init
  BY DEF Init
<1>2. ASSUME part = "session", Next PROVE S!Next
  BY <1>2 DEF Next, Only, Config, Install, Session, Access, Review, Zones, Desk, Pull, Join, Home, Choice, S!Next
<1>3. QED
  BY <1>1, <1>2 DEF vars, sessions, S!sessionVars

\* For any number of processes, cycles and digests: the engine answers as long as a
\* session is open, and no process keeps one once its sessions are over.
THEOREM EnginesLast == Spec => []EngineLastsItsSessions
<1> DEFINE Inv == part = "session" => SessionInv
<1>1. Init => Inv
  BY SessionAlone, SessionInit
<1>2. Inv /\ [Next]_vars => Inv'
  BY PartStays, SessionAlone, SessionStep
<1>3. Inv => EngineLastsItsSessions
  BY DEF SessionInv, Answering, Owned, EngineLastsItsSessions, S!EngineLastsItsSessions
<1>4. QED
  BY <1>1, <1>2, <1>3, PTL DEF Spec

-----------------------------------------------------------------------------
(***************************************************************************)
(* The installation of the engine.  Unless it was removed under a thread,  *)
(* one thread installs at a time and no half piece is renamed into place;  *)
(* if it found no archive of another version, the archives are of its own, *)
(* and the pieces behind it are in place.                                  *)
(***************************************************************************)
InstallerType == [at : I!Place, piece : I!Piece, version : I!Version]
InstallTypes ==
  /\ dir \in [I!Piece -> 0..I!Half] /\ beside \in [I!Piece -> 0..I!Half] /\ tar \in [I!Piece -> 0..I!Half]
  /\ json \in 0..MaxVersion /\ published \in I!Version
  /\ installer \in [Slot -> InstallerType]
  /\ replaced \subseteq {"engine", "rests"}

\* The thread that installs, and nobody beside it.
Alone ==
  overrun \/ \A i \in Slot : installer[i].at # "idle" =>
    progress = "telechargement" /\ \A j \in Slot : installer[j].at # "idle" => j = i
Under(i) ==
  LET k == installer[i].piece
      v == installer[i].version IN
  installer[i].at # "idle" =>
    /\ \A j \in I!Piece : tar[j] \in {0, I!Half, v} /\ (j < k => dir[j] = v)
    /\ installer[i].at = "extracting" => tar[k] = v /\ beside[k] = I!Half
    /\ installer[i].at = "swap" => beside[k] = v
    /\ installer[i].at = "rename" => dir[k] = 0 /\ beside[k] = v
    /\ installer[i].at \in {"unlink", "finish"} => dir[k] = v
    /\ installer[i].at = "finish" => k = NPiece
Whole(i) ==
  LET k == installer[i].piece IN
  /\ installer[i].at = "extracting" => tar[k] \in I!Version /\ beside[k] = I!Half
  /\ installer[i].at \in {"swap", "rename"} => beside[k] # I!Half
Order(i) == /\ Whole(i) /\ \A j \in I!Piece : dir[j] # I!Half
            /\ "rests" \in replaced \/ Under(i)
Clean ==
  \/ overrun
  \/ /\ \A i \in Slot : Order(i)
     /\ \A k \in I!Piece : dir[k] # I!Half
     /\ \A i \in Slot : installer[i].at # "idle" /\ json # 0 => "engine" \in replaced
     /\ replaced = {} /\ json # 0 => \A k \in I!Piece : dir[k] = json

\* The mode is local, or about to be, with an engine; nobody removes it meanwhile.
Local ==
  \/ crossed
  \/ /\ mode = "local" \/ check => json # 0
     /\ removing => mode # "local" /\ ~check
InstallInv == InstallTypes /\ Alone /\ Clean /\ Local

LEMMA InstallInit == I!Init => InstallInv
<1> SUFFICES ASSUME I!Init PROVE InstallInv
  OBVIOUS
<1> USE PartsAssumption DEF I!InstallAssumption
<1>1. InstallTypes
  BY DEF I!Init, InstallTypes, InstallerType, I!Idle, I!Empty, I!Void, I!Half, I!Piece, I!Version, I!Place
<1>2. Alone /\ Clean
  BY DEF I!Init, Alone, Clean, Order, Whole, Under, I!Idle, I!Void, I!Empty, I!Half, I!Piece
<1>3. Local
  BY DEF I!Init, Local
<1>4. QED
  BY <1>1, <1>2, <1>3 DEF InstallInv

\* A thread goes on, or gives up with a message.
LEMMA InstallerMoves ==
  ASSUME InstallTypes, Alone, NEW i \in Slot, installer[i].at # "idle", NEW next \in InstallerType,
         installer' = [installer EXCEPT ![i] = next], UNCHANGED overrun,
         next.at = "idle" \/ UNCHANGED progress
  PROVE  /\ installer' \in [Slot -> InstallerType] /\ Alone' /\ installer'[i] = next
         /\ overrun \/ \A j \in Slot \ {i} : installer'[j].at = "idle"
<1>1. installer' \in [Slot -> InstallerType] /\ installer'[i] = next
  BY DEF InstallTypes
<1>2. \A j \in Slot \ {i} : installer'[j] = installer[j]
  BY DEF InstallTypes
<1>3. overrun \/ \A j \in Slot \ {i} : installer'[j].at = "idle"
  BY <1>2 DEF Alone
<1>4. Alone'
  BY <1>1, <1>2, <1>3 DEF Alone
<1>5. QED
  BY <1>1, <1>3, <1>4

\* ... with the disk in order for what it does next, or with its record written.
LEMMA InstallerGoes ==
  ASSUME InstallInv, NEW i \in Slot, installer[i].at # "idle", NEW next \in InstallerType,
         installer' = [installer EXCEPT ![i] = next],
         UNCHANGED <<overrun, published, mode, check, removing, crossed>>,
         replaced' \subseteq replaced, "rests" \in replaced => "rests" \in replaced',
         next.at = "idle" \/ UNCHANGED <<progress, replaced, json>>,
         dir' \in [I!Piece -> 0..I!Half], beside' \in [I!Piece -> 0..I!Half], tar' \in [I!Piece -> 0..I!Half],
         json' \in 0..MaxVersion, json' = 0 => json = 0,
         ~overrun /\ installer'[i] = next =>
           /\ Order(i)'
           /\ UNCHANGED <<json, replaced>> \/ \A k \in I!Piece : dir'[k] = json'
              \/ replaced' # {}
  PROVE  InstallInv'
<1>1. /\ installer' \in [Slot -> InstallerType] /\ Alone' /\ installer'[i] = next
      /\ overrun \/ \A j \in Slot \ {i} : installer'[j].at = "idle"
  BY InstallerMoves DEF InstallInv
<1>2. InstallTypes'
  BY <1>1 DEF InstallInv, InstallTypes
<1>3. Clean'
  <2>1. CASE overrun
    BY <2>1 DEF Clean
  <2>2. CASE ~overrun
    <3>1. \A j \in I!Piece : dir'[j] # I!Half
      BY <1>1, <2>2 DEF Order
    <3>2. \A j \in Slot : Order(j)'
      BY <1>1, <2>2, <3>1 DEF Order, Whole, Under
    <3>3. json # 0 => "engine" \in replaced
      BY <2>2 DEF InstallInv, Clean
    <3>4. \A j \in Slot : installer'[j].at # "idle" /\ json' # 0 => "engine" \in replaced'
      BY <1>1, <2>2, <3>3
    <3>5. replaced' = {} /\ json' # 0 => \A k \in I!Piece : dir'[k] = json'
      BY <1>1, <2>2, <3>3
    <3>6. QED
      BY <3>1, <3>2, <3>4, <3>5 DEF Clean
  <2>3. QED
    BY <2>1, <2>2
<1>4. Local'
  BY DEF InstallInv, Local
<1>5. QED
  BY <1>1, <1>2, <1>3, <1>4 DEF InstallInv

\* What is known of the thread at work.
LEMMA InstallerKnown ==
  ASSUME InstallInv, NEW i \in Slot, installer[i].at # "idle"
  PROVE  /\ installer[i].piece \in 1..NPiece /\ installer[i].version \in 1..MaxVersion
         /\ installer[i].at \in I!Place /\ I!Idle \in InstallerType /\ I!Idle.at = "idle"
         /\ ~overrun => Order(i) /\ (json # 0 => "engine" \in replaced)
         /\ ~overrun => \A j \in Slot \ {i} : installer[j].at = "idle"
<1> USE PartsAssumption DEF I!InstallAssumption
<1>1. installer[i] \in InstallerType
  BY DEF InstallInv, InstallTypes
<1>2. I!Idle \in InstallerType /\ I!Idle.at = "idle"
  BY DEF I!Idle, InstallerType, I!Place, I!Piece, I!Version
<1>3. ~overrun => Order(i) /\ (json # 0 => "engine" \in replaced)
  BY DEF InstallInv, Clean
<1>4. ~overrun => \A j \in Slot \ {i} : installer[j].at = "idle"
  BY DEF InstallInv, Alone
<1>5. QED
  BY <1>1, <1>2, <1>3, <1>4 DEF InstallerType, I!Piece, I!Version

\* The next place of a thread.
LEMMA InstallerNext ==
  ASSUME InstallTypes, NEW i \in Slot, NEW to \in I!Place
  PROVE  LET next == [installer[i] EXCEPT !.at = to] IN
         /\ next \in InstallerType /\ next.at = to
         /\ next.piece = installer[i].piece /\ next.version = installer[i].version
<1>1. installer[i] \in InstallerType
  BY DEF InstallTypes
<1>2. QED
  BY <1>1 DEF InstallerType

\* One step of an installation.
LEMMA InstallGoesOn == ASSUME InstallInv, NEW i \in Slot, I!Step(i) PROVE InstallInv'
<1> USE PartsAssumption DEF I!InstallAssumption
<1> DEFINE k == installer[i].piece
           v == installer[i].version
<1>a. InstallTypes
  BY DEF InstallInv
<1>b. installer[i].at # "idle"
  BY DEF I!Step, I!Download, I!Extract, I!Extracted, I!Swap, I!Rename, I!Unlink, I!Finish
<1>c. /\ k \in 1..NPiece /\ v \in 1..MaxVersion /\ I!Idle \in InstallerType /\ I!Idle.at = "idle"
      /\ ~overrun => Order(i) /\ (json # 0 => "engine" \in replaced)
      /\ ~overrun => \A j \in Slot \ {i} : installer[j].at = "idle"
  BY <1>b, InstallerKnown
<1>d. \A to \in I!Place :
        LET next == [installer[i] EXCEPT !.at = to] IN
        /\ next \in InstallerType /\ next.at = to /\ next.piece = k /\ next.version = v
  BY <1>a, InstallerNext
<1>e. ASSUME I!Fails(i), UNCHANGED <<overrun, replaced, published, mode, check, removing, crossed, json>>,
             dir' \in [I!Piece -> 0..I!Half], beside' \in [I!Piece -> 0..I!Half], tar' \in [I!Piece -> 0..I!Half],
             ~overrun => \A j \in I!Piece : dir'[j] # I!Half
      PROVE  InstallInv'
  <2>1. ~overrun /\ installer'[i] = I!Idle => Order(i)'
    BY <1>c, <1>e DEF Order, Whole, Under
  <2>2. QED
    BY <1>a, <1>b, <1>c, <1>e, <2>1, InstallerGoes DEF I!Fails, InstallTypes
<1>f. {"download", "extract", "extracting", "swap", "rename", "unlink", "finish"} \subseteq I!Place
  BY DEF I!Place
<1>g. /\ {0, I!Half, v} \subseteq 0..I!Half /\ I!Version \subseteq 0..I!Half
      /\ 0 \notin I!Version /\ I!Half \notin I!Version /\ k \in I!Piece
  BY <1>c DEF I!Half, I!Version, I!Piece
<1>1. CASE I!Download(i)
  <2>1. UNCHANGED <<overrun, replaced, published, mode, check, removing, crossed, json, dir, beside>>
    BY <1>1 DEF I!Download, I!Elsewhere, I!choice
  <2>2. tar' \in [I!Piece -> 0..I!Half]
    <3>1. \E new \in {0, I!Half, v} : tar' = tar \/ tar' = [tar EXCEPT ![k] = new]
      BY <1>1, <1>g DEF I!Download, I!Void
    <3>2. QED
      BY <1>a, <1>g, <3>1 DEF InstallTypes
  <2>3. CASE I!Fails(i)
    BY <1>a, <1>c, <1>e, <2>1, <2>2, <2>3 DEF InstallTypes, Order
  <2>4. CASE ~I!Fails(i)
    <3> DEFINE next == [installer[i] EXCEPT !.at = "extract"]
    <3>1. /\ installer' = [installer EXCEPT ![i] = next] /\ UNCHANGED progress
          /\ \/ tar[k] \in I!Version /\ UNCHANGED tar
             \/ tar' = [tar EXCEPT ![k] = v]
      BY <1>1, <2>4 DEF I!Download, I!GoesTo
    <3>2. next \in InstallerType /\ next.at = "extract" /\ next.piece = k /\ next.version = v
      BY <1>d, <1>f
    <3> HIDE DEF next
    <3>3. ~overrun /\ installer'[i] = next => Order(i)'
      BY <1>a, <1>b, <1>c, <2>1, <3>1, <3>2 DEF Order, Whole, Under, InstallTypes
    <3>4. QED
      BY <1>a, <1>b, <1>c, <2>1, <2>2, <3>1, <3>2, <3>3, InstallerGoes DEF InstallTypes
  <2>5. QED
    BY <2>3, <2>4
<1>2. CASE I!Extract(i)
  <2>1. UNCHANGED <<overrun, replaced, published, mode, check, removing, crossed, json, dir, tar>>
    BY <1>2 DEF I!Extract, I!Elsewhere, I!choice
  <2>2. beside' \in [I!Piece -> 0..I!Half]
    BY <1>2, <1>a, <1>c DEF I!Extract, InstallTypes, I!Piece, I!Half, I!Void
  <2>3. CASE I!Fails(i)
    BY <1>a, <1>c, <1>e, <2>1, <2>2, <2>3 DEF InstallTypes, Order
  <2>4. CASE ~I!Fails(i)
    <3> DEFINE next == [installer[i] EXCEPT !.at = "extracting"]
    <3>1. /\ installer' = [installer EXCEPT ![i] = next] /\ UNCHANGED progress
          /\ tar[k] \in I!Version /\ beside' = [beside EXCEPT ![k] = I!Half]
      BY <1>2, <2>4 DEF I!Extract, I!GoesTo
    <3>2. next \in InstallerType /\ next.at = "extracting" /\ next.piece = k /\ next.version = v
      BY <1>d, <1>f
    <3> HIDE DEF next
    <3>3. ~overrun /\ installer'[i] = next => Order(i)'
      BY <1>a, <1>b, <1>c, <1>g, <2>1, <3>1, <3>2 DEF Order, Whole, Under, InstallTypes
    <3>4. QED
      BY <1>a, <1>b, <1>c, <2>1, <2>2, <3>1, <3>2, <3>3, InstallerGoes DEF InstallTypes
  <2>5. QED
    BY <2>3, <2>4
<1>3. CASE I!Extracted(i)
  <2>1. UNCHANGED <<overrun, replaced, published, mode, check, removing, crossed, json, dir, tar>>
    BY <1>3 DEF I!Extracted, I!Elsewhere, I!choice
  <2>2. beside' \in [I!Piece -> 0..I!Half]
    <3>1. \E new \in I!Version \cup {I!Half} : beside' = beside \/ beside' = [beside EXCEPT ![k] = new]
      BY <1>3, <1>g DEF I!Extracted
    <3>2. QED
      BY <1>a, <1>g, <3>1 DEF InstallTypes
  <2>3. CASE I!Fails(i)
    BY <1>a, <1>c, <1>e, <2>1, <2>2, <2>3 DEF InstallTypes, Order
  <2>4. CASE ~I!Fails(i)
    <3> DEFINE next == [installer[i] EXCEPT !.at = "swap"]
               other == \E j \in Slot \ {i} : installer[j].piece = k /\ installer[j].at = "extracting"
    <3>1. /\ installer' = [installer EXCEPT ![i] = next] /\ UNCHANGED progress
          /\ tar[k] \in I!Version /\ beside[k] = I!Half /\ ~other => beside' = [beside EXCEPT ![k] = tar[k]]
      BY <1>3, <2>4 DEF I!Extracted, I!GoesTo
    <3>2. next \in InstallerType /\ next.at = "swap" /\ next.piece = k /\ next.version = v
      BY <1>d, <1>f
    <3> HIDE DEF next
    <3>3. ASSUME ~overrun, installer'[i] = next PROVE Order(i)'
      <4>1. Order(i) /\ installer[i].at = "extracting" /\ installer[i].at # "idle"
        BY <1>3, <1>c, <3>3 DEF I!Extracted
      <4>2. tar[k] \in I!Version /\ beside[k] = I!Half /\ ~other
        BY <1>c, <3>3, <4>1 DEF Order, Whole
      <4>3. beside'[k] = tar[k] /\ beside'[k] # I!Half
        BY <1>a, <1>g, <3>1, <4>2 DEF InstallTypes
      <4>4. Whole(i)'
        BY <3>2, <3>3, <4>3 DEF Whole
      <4>5. "rests" \in replaced \/ tar[k] = v
        BY <4>1 DEF Order, Under
      <4>6. "rests" \in replaced \/ Under(i)'
        BY <2>1, <3>2, <3>3, <4>1, <4>3, <4>5 DEF Order, Under
      <4>7. QED
        BY <2>1, <4>1, <4>4, <4>6 DEF Order
    <3>4. QED
      BY <1>a, <1>b, <1>c, <2>1, <2>2, <3>1, <3>2, <3>3, InstallerGoes DEF InstallTypes
  <2>5. QED
    BY <2>3, <2>4
<1>4. CASE I!Swap(i)
  <2> DEFINE next == [installer[i] EXCEPT !.at = "rename"]
  <2>1. /\ installer' = [installer EXCEPT ![i] = next] /\ dir' = [dir EXCEPT ![k] = 0]
        /\ UNCHANGED <<overrun, replaced, published, mode, check, removing, crossed, json, beside, tar, progress>>
    BY <1>4 DEF I!Swap, I!GoesTo, I!Elsewhere, I!choice, I!Void
  <2>2. next \in InstallerType /\ next.at = "rename" /\ next.piece = k /\ next.version = v
    BY <1>d, <1>f
  <2> HIDE DEF next
  <2>3. dir' \in [I!Piece -> 0..I!Half]
    BY <1>a, <1>g, <2>1 DEF InstallTypes
  <2>4. ~overrun /\ installer'[i] = next => Order(i)'
    BY <1>4, <1>a, <1>b, <1>c, <1>g, <2>1, <2>2 DEF Order, Whole, Under, InstallTypes, I!Swap
  <2>5. QED
    BY <1>a, <1>b, <1>c, <2>1, <2>2, <2>3, <2>4, InstallerGoes DEF InstallTypes
<1>5. CASE I!Rename(i)
  <2>1. UNCHANGED <<overrun, replaced, published, mode, check, removing, crossed, json, tar>>
    BY <1>5 DEF I!Rename, I!Elsewhere, I!choice
  <2>2. dir' \in [I!Piece -> 0..I!Half] /\ beside' \in [I!Piece -> 0..I!Half]
    BY <1>5, <1>a, <1>c DEF I!Rename, InstallTypes, I!Piece, I!Half, I!Void
  <2>3. CASE I!Fails(i)
    <3>1. ~overrun => \A j \in I!Piece : dir'[j] # I!Half
      BY <1>5, <1>a, <1>c, <2>3 DEF I!Rename, Order, Whole, InstallTypes
    <3>2. QED
      BY <1>e, <2>1, <2>2, <2>3, <3>1, <1>a DEF InstallTypes
  <2>4. CASE ~I!Fails(i)
    <3> DEFINE next == [installer[i] EXCEPT !.at = "unlink"]
    <3>1. /\ installer' = [installer EXCEPT ![i] = next] /\ UNCHANGED progress
          /\ dir' = [dir EXCEPT ![k] = beside[k]]
      BY <1>5, <2>4 DEF I!Rename, I!GoesTo
    <3>2. next \in InstallerType /\ next.at = "unlink" /\ next.piece = k /\ next.version = v
      BY <1>d, <1>f
    <3> HIDE DEF next
    <3>3. ~overrun /\ installer'[i] = next => Order(i)'
      BY <1>5, <1>a, <1>b, <1>c, <2>1, <3>1, <3>2 DEF Order, Whole, Under, InstallTypes, I!Rename, I!Piece
    <3>4. QED
      BY <1>a, <1>b, <1>c, <2>1, <2>2, <3>1, <3>2, <3>3, InstallerGoes DEF InstallTypes
  <2>5. QED
    BY <2>3, <2>4
<1>6. CASE I!Unlink(i)
  <2>1. UNCHANGED <<overrun, replaced, published, mode, check, removing, crossed, json, dir, beside>>
        /\ tar' = [tar EXCEPT ![k] = 0]
    BY <1>6 DEF I!Unlink, I!Elsewhere, I!choice, I!Void
  <2>2. tar' \in [I!Piece -> 0..I!Half]
    BY <1>a, <1>g, <2>1 DEF InstallTypes
  <2>3. CASE I!Fails(i)
    BY <1>a, <1>c, <1>e, <2>1, <2>2, <2>3 DEF InstallTypes, Order
  <2>4. CASE ~I!Fails(i)
    <3> DEFINE next == IF k = NPiece THEN [installer[i] EXCEPT !.at = "finish"]
                                     ELSE [installer[i] EXCEPT !.at = "download", !.piece = k + 1]
    <3>1. installer' = [installer EXCEPT ![i] = next] /\ UNCHANGED progress
      BY <1>6, <2>4 DEF I!Unlink
    <3>2. /\ next \in InstallerType /\ next.version = v
          /\ IF k = NPiece THEN next.at = "finish" /\ next.piece = k ELSE next.at = "download" /\ next.piece = k + 1
      <4>1. CASE k = NPiece
        BY <1>d, <1>f, <4>1
      <4>2. CASE k # NPiece
        <5>1. k + 1 \in I!Piece
          BY <1>c, <4>2 DEF I!Piece
        <5>2. installer[i] \in InstallerType
          BY <1>a DEF InstallTypes
        <5>3. QED
          BY <1>f, <4>2, <5>1, <5>2 DEF InstallerType
      <4>3. QED
        BY <4>1, <4>2
    <3> HIDE DEF next
    <3>3. ASSUME ~overrun, installer'[i] = next PROVE Order(i)'
      <4>1. Order(i) /\ installer[i].at = "unlink" /\ installer[i].at # "idle"
        BY <1>6, <1>c, <3>3 DEF I!Unlink
      <4>2. Whole(i)'
        BY <3>2, <3>3 DEF Whole
      <4>3. ASSUME "rests" \notin replaced PROVE Under(i)'
        <5>1. dir[k] = v /\ \A j \in I!Piece : tar[j] \in {0, I!Half, v} /\ (j < k => dir[j] = v)
          BY <4>1, <4>3 DEF Order, Under
        <5>2. \A j \in I!Piece : j < k + 1 => j < k \/ j = k
          BY <1>c DEF I!Piece
        <5>3. \A j \in I!Piece : tar'[j] \in {0, I!Half, v}
          BY <1>a, <2>1, <5>1 DEF InstallTypes
        <5>4. CASE k = NPiece
          BY <2>1, <3>2, <3>3, <5>1, <5>3, <5>4 DEF Under
        <5>5. CASE k # NPiece
          BY <2>1, <3>2, <3>3, <5>1, <5>2, <5>3, <5>5 DEF Under
        <5>6. QED
          BY <5>4, <5>5
      <4>4. QED
        BY <2>1, <4>1, <4>2, <4>3 DEF Order
    <3>4. QED
      BY <1>a, <1>b, <1>c, <2>1, <2>2, <3>1, <3>2, <3>3, InstallerGoes DEF InstallTypes
  <2>5. QED
    BY <2>3, <2>4
<1>7. CASE I!Finish(i)
  <2>1. UNCHANGED <<overrun, published, mode, check, removing, crossed, tar, dir, beside>>
    BY <1>7 DEF I!Finish, I!choice
  <2>2. CASE I!Fails(i) /\ UNCHANGED <<json, replaced>>
    BY <1>a, <1>c, <1>e, <2>1, <2>2 DEF InstallTypes, Order
  <2>3. CASE ~(I!Fails(i) /\ UNCHANGED <<json, replaced>>)
    <3>1. json' = v /\ installer' = [installer EXCEPT ![i] = I!Idle] /\ replaced' = replaced \ {"engine"}
      BY <1>7, <2>3 DEF I!Finish
    <3>2. ASSUME ~overrun, installer'[i] = I!Idle
          PROVE  Order(i)' /\ (replaced' # {} \/ \A j \in I!Piece : dir'[j] = json')
      <4>1. Order(i)'
        BY <1>c, <2>1, <3>1, <3>2 DEF Order, Whole, Under
      <4>2. ASSUME replaced' = {} PROVE \A j \in I!Piece : dir'[j] = json'
        <5>1. k = NPiece /\ dir[k] = v /\ \A j \in I!Piece : j < k => dir[j] = v
          BY <1>7, <1>b, <1>c, <3>1, <3>2, <4>2 DEF I!Finish, Order, Under
        <5>2. \A j \in I!Piece : j < k \/ j = k
          BY <5>1 DEF I!Piece
        <5>3. QED
          BY <2>1, <3>1, <5>1, <5>2
      <4>3. QED
        BY <4>1, <4>2
    <3>3. json' \in 0..MaxVersion /\ (json' = 0 => json = 0)
      BY <1>c, <3>1
    <3>4. QED
      BY <1>a, <1>b, <1>c, <2>1, <3>1, <3>2, <3>3, InstallerGoes DEF InstallTypes
  <2>4. QED
    BY <2>2, <2>3
<1>8. QED
  BY <1>1, <1>2, <1>3, <1>4, <1>5, <1>6, <1>7 DEF I!Step

LEMMA InstallStep == InstallInv /\ [I!Next]_(I!installVars) => InstallInv'
<1> SUFFICES ASSUME InstallInv, [I!Next]_(I!installVars) PROVE InstallInv'
  OBVIOUS
<1> USE PartsAssumption DEF I!InstallAssumption
<1>a. InstallTypes /\ Alone /\ Clean /\ Local
  BY DEF InstallInv
<1>b. I!Idle \in InstallerType /\ I!Idle.at = "idle"
  BY DEF I!Idle, InstallerType, I!Place, I!Piece, I!Version
<1>1. CASE UNCHANGED I!installVars
  BY <1>1 DEF I!installVars, I!disk, I!choice, InstallInv, InstallTypes, Alone, Clean, Order, Whole, Under, Local
<1>2. ASSUME NEW i \in Slot, I!Install(i) PROVE InstallInv'
  <2> DEFINE next == [at |-> "download", piece |-> 1, version |-> published]
  <2>1. /\ progress # "telechargement" /\ progress' = "telechargement"
        /\ installer' = [installer EXCEPT ![i] = next]
        /\ UNCHANGED <<mode, check, removing, crossed, dir, beside, tar, json, published, overrun>>
    BY <1>2 DEF I!Install, I!choice
  <2>2. next \in InstallerType /\ next.at = "download" /\ next.piece = 1 /\ next.version = published
    BY <1>a DEF InstallerType, InstallTypes, I!Place, I!Piece
  <2> HIDE DEF next
  <2>a. replaced' \subseteq {"engine", "rests"} /\ (json # 0 => "engine" \in replaced')
        /\ ("rests" \in replaced' <=> \E k \in I!Piece : tar[k] \notin {0, I!Half, published})
    BY <1>2 DEF I!Install, I!Void
  <2>3. InstallTypes'
    BY <1>a, <2>1, <2>2, <2>a DEF InstallTypes
  <2>4. overrun \/ \A j \in Slot \ {i} : installer'[j].at = "idle"
    BY <1>a, <2>1 DEF Alone, InstallTypes
  <2>5. Alone'
    BY <2>1, <2>4 DEF Alone
  <2>6. Local'
    BY <1>a, <2>1 DEF Local
  <2>7. ASSUME ~overrun PROVE Order(i)' /\ \A j \in I!Piece : dir[j] # I!Half
    <3>1. installer'[i] = next
      BY <1>a, <2>1 DEF InstallTypes
    <3>2. \A j \in I!Piece : dir[j] # I!Half
      BY <1>a, <2>7 DEF Clean
    <3>3. Whole(i)'
      BY <2>2, <3>1 DEF Whole
    <3>4. ASSUME "rests" \notin replaced' PROVE Under(i)'
      <4>1. \A k \in I!Piece : tar[k] \in {0, I!Half, published}
        BY <2>a, <3>4
      <4>2. \A j \in I!Piece : ~(j < 1)
        BY DEF I!Piece
      <4>3. QED
        BY <2>1, <2>2, <3>1, <4>1, <4>2 DEF Under
    <3>5. QED
      BY <2>1, <3>2, <3>3, <3>4 DEF Order
  <2>8. Clean'
    <3>1. CASE overrun
      BY <2>1, <3>1 DEF Clean
    <3>2. CASE ~overrun
      <4>1. \A j \in Slot : Order(j)'
        BY <2>1, <2>4, <2>7, <3>2 DEF Order, Whole, Under
      <4>2. replaced' = {} => json' = 0
        BY <2>1, <2>a
      <4>3. QED
        BY <2>1, <2>7, <2>a, <3>2, <4>1, <4>2 DEF Clean
    <3>3. QED
      BY <3>1, <3>2
  <2>9. QED
    BY <2>3, <2>5, <2>6, <2>8 DEF InstallInv
\* The handlers leave an installation as it is, all but a removal.
<1>3. ASSUME UNCHANGED <<root, dir, beside, tar, json, progress, installer, overrun, replaced>>,
             published' \in I!Version, Local'
      PROVE  InstallInv'
  BY <1>a, <1>3 DEF InstallInv, InstallTypes, Alone, Clean, Order, Whole, Under
<1>4. ASSUME I!CheckLocal \/ I!PutLocal \/ I!PutMode \/ I!BeginRemoval PROVE InstallInv'
  <2>1. UNCHANGED <<root, dir, beside, tar, json, progress, installer, overrun, replaced, published>>
    BY <1>4 DEF I!CheckLocal, I!PutLocal, I!PutMode, I!BeginRemoval, I!Around, I!disk
  <2>2. CASE I!CheckLocal
    BY <1>a, <1>3, <2>1, <2>2 DEF I!CheckLocal, I!Installed, I!Void, Local, InstallTypes
  <2>3. CASE I!PutLocal
    BY <1>a, <1>3, <2>1, <2>3 DEF I!PutLocal, Local, InstallTypes
  <2>4. CASE I!PutMode
    BY <1>a, <1>3, <2>1, <2>4 DEF I!PutMode, Local, InstallTypes
  <2>5. CASE I!BeginRemoval
    BY <1>a, <1>3, <2>1, <2>5 DEF I!BeginRemoval, Local, InstallTypes
  <2>6. QED
    BY <1>4, <2>2, <2>3, <2>4, <2>5
<1>5. ASSUME I!Publish PROVE InstallInv'
  <2>1. UNCHANGED <<root, dir, beside, tar, json, progress, installer, overrun, replaced>> /\ published' \in I!Version
    BY <1>a, <1>5 DEF I!Publish, I!disk, I!Version, InstallTypes
  <2>2. Local'
    BY <1>a, <1>5 DEF I!Publish, I!disk, I!choice, Local
  <2>3. QED
    BY <1>3, <2>1, <2>2
<1>6. ASSUME I!Remove PROVE InstallInv'
  <2>1. InstallTypes'
    BY <1>a, <1>6 DEF I!Remove, I!Empty, I!Void, I!Half, I!Piece, InstallTypes
  <2>2. Local'
    BY <1>a, <1>6 DEF I!Remove, Local
  <2>3. overrun' \/ \A i \in Slot : installer'[i].at = "idle"
    BY <1>6 DEF I!Remove, I!Installing
  <2>4. Alone' /\ Clean'
    <3>1. json' = 0 /\ \A k \in I!Piece : dir'[k] # I!Half
      BY <1>6 DEF I!Remove, I!Void, I!Empty, I!Half
    <3>2. QED
      BY <2>3, <3>1 DEF Alone, Clean, Order, Whole, Under
  <2>5. QED
    BY <2>1, <2>2, <2>4 DEF InstallInv
<1>7. ASSUME I!Dies PROVE InstallInv'
  <2>1. InstallTypes' /\ \A i \in Slot : installer'[i].at = "idle"
    BY <1>a, <1>b, <1>7 DEF I!Dies, I!disk, InstallTypes
  <2>2. Local'
    BY <1>a, <1>7 DEF I!Dies, I!disk, Local
  <2>3. Alone' /\ Clean'
    BY <1>a, <1>7, <2>1 DEF I!Dies, I!disk, Alone, Clean, Order, Whole, Under
  <2>4. QED
    BY <2>1, <2>2, <2>3 DEF InstallInv
<1>8. QED
  BY <1>1, <1>2, <1>4, <1>5, <1>6, <1>7, InstallGoesOn DEF I!Next

LEMMA InstallAlone ==
  /\ Init /\ part = "install" => I!Init
  /\ [Next]_vars /\ part = "install" => [I!Next]_(I!installVars)
<1>1. Init /\ part = "install" => I!Init
  BY DEF Init
<1>2. ASSUME part = "install", Next PROVE I!Next
  BY <1>2 DEF Next, Only, Config, Install, Session, Access, Review, Zones, Desk, Pull, Join, Home, Choice,
              I!Next, I!Step
<1>3. QED
  BY <1>1, <1>2 DEF vars, install, I!installVars, I!disk, I!choice

\* For any number of pieces, versions and threads, whatever stops or kills an installation:
\* while installe.json is there no piece is half extracted, over an installed engine too; it
\* vouches for every piece, but while an engine is replaced, after that was broken off, or
\* over archives of another version; and the mode is local only with an engine, but after a
\* removal that overlapped the choice of the mode.  The first two do not hold of an engine
\* that was removed under a thread installing it (moteur_local.py, app.py put_llm_mode).
THEOREM EnginesAreUsable == Spec => []EngineIsUsable
<1> DEFINE Inv == part = "install" => InstallInv
<1>1. Init => Inv
  BY InstallAlone, InstallInit
<1>2. Inv /\ [Next]_vars => Inv'
  BY PartStays, InstallAlone, InstallStep
<1>3. Inv => EngineIsUsable
  BY DEF InstallInv, Clean, Local, EngineIsUsable, I!EngineIsUsable, I!InstalledIsWhole,
         I!LocalMeansInstalled, I!NoHalfPiece, I!Void
<1>4. QED
  BY <1>1, <1>2, <1>3, PTL DEF Spec

-----------------------------------------------------------------------------
(***************************************************************************)
(* The fiches.  The two properties are inductive once what is edited by a    *)
(* request that is under way is known to be an entity.                     *)
(***************************************************************************)
ReviewTypes ==
  /\ DOMAIN name = Entity /\ DOMAIN aliases = Entity /\ DOMAIN borne = Entity /\ DOMAIN merged = Entity
  /\ home \in [Fact -> Entity] /\ candidate \subseteq Fact /\ owed \subseteq Entity
  /\ DOMAIN doing = Request
JobOK(job) ==
  /\ job.op = "rename" => job.e \in Entity
  /\ job.op = "accept rename" => job.q.e \in Entity
  /\ job.op = "accept negation" => job.f \in Fact
  /\ job.op = "accept merge" => job.canonical \in Entity
ReviewInv ==
  ReviewTypes /\ (\A h \in Request : JobOK(doing[h])) /\ R!EditsFlagSummary /\ R!NamesAreKept

LEMMA ReviewInit == R!Init => ReviewInv
<1> SUFFICES ASSUME R!Init PROVE ReviewInv
  OBVIOUS
<1> USE PartsAssumption DEF R!ReviewAssumption
<1>1. ReviewTypes
  BY DEF R!Init, ReviewTypes
<1>2. \A h \in Request : JobOK(doing[h])
  BY DEF R!Init, R!Idle, JobOK
<1>3. R!EditsFlagSummary /\ R!NamesAreKept
  BY DEF R!Init, R!EditsFlagSummary, R!NamesAreKept
<1>4. QED
  BY <1>1, <1>2, <1>3 DEF ReviewInv

\* A check only tells a handler what to do.
LEMMA ReviewChecks == ASSUME ReviewInv, NEW h \in Request, R!Check(h) PROVE ReviewInv'
<1> USE PartsAssumption DEF R!ReviewAssumption
<1>1. ASSUME NEW job, R!Begin(h, job), JobOK(job) PROVE ReviewInv'
  <2>1. /\ UNCHANGED <<name, aliases, stale, merged, home, candidate, owed, borne, outdated>>
        /\ doing' = [doing EXCEPT ![h] = job]
    BY <1>1 DEF R!Begin, R!rowVars
  <2>2. \A g \in Request : JobOK(doing[g])'
    BY <1>1, <2>1 DEF ReviewInv, ReviewTypes, JobOK
  <2>3. QED
    BY <2>1, <2>2 DEF ReviewInv, ReviewTypes, R!EditsFlagSummary, R!NamesAreKept
<1>2. ASSUME NEW q, R!CheckReject(h, q) PROVE ReviewInv'
  BY <1>1, <1>2 DEF R!CheckReject, JobOK
<1>3. ASSUME NEW q \in Question, R!CheckAcceptRename(h, q) PROVE ReviewInv'
  BY <1>1, <1>3 DEF R!CheckAcceptRename, JobOK
<1>4. ASSUME NEW q, R!CheckAcceptPredicate(h, q) PROVE ReviewInv'
  BY <1>1, <1>4 DEF R!CheckAcceptPredicate, JobOK
<1>5. ASSUME NEW q, R!CheckAcceptType(h, q) PROVE ReviewInv'
  BY <1>1, <1>5 DEF R!CheckAcceptType, JobOK
<1>6. ASSUME NEW q, NEW f \in Fact, R!CheckAcceptNegation(h, q, f) PROVE ReviewInv'
  BY <1>1, <1>6 DEF R!CheckAcceptNegation, JobOK
<1>7. ASSUME NEW q, NEW e \in Entity, R!CheckAcceptMerge(h, q, e) PROVE ReviewInv'
  <2>1. PICK absorbed : R!Begin(h, [op |-> "accept merge", q |-> q, absorbed |-> absorbed, canonical |-> e,
                 read |-> [name |-> name[absorbed], aliases |-> aliases[e]]])
    BY <1>7 DEF R!CheckAcceptMerge
  <2>2. QED
    BY <1>1, <2>1 DEF JobOK
<1>8. ASSUME NEW e \in Entity, NEW new, R!CheckRename(h, e, new) PROVE ReviewInv'
  BY <1>1, <1>8 DEF R!CheckRename, JobOK
<1>9. QED
  BY <1>2, <1>3, <1>4, <1>5, <1>6, <1>7, <1>8 DEF R!Check

Rows ==
  /\ DOMAIN name = Entity /\ DOMAIN aliases = Entity /\ DOMAIN borne = Entity /\ DOMAIN merged = Entity
  /\ owed \subseteq Entity

\* The name that is left stays known, and so does each name known before.
LEMMA NameIsWritten ==
  ASSUME ReviewInv, NEW e \in Entity, NEW read, NEW new, R!WriteName(e, read, new), UNCHANGED merged
  PROVE  Rows' /\ R!EditsFlagSummary' /\ R!NamesAreKept'
<1>1. Rows'
  BY DEF R!WriteName, ReviewInv, ReviewTypes, Rows
<1>2. R!EditsFlagSummary'
  BY DEF R!WriteName, ReviewInv, R!EditsFlagSummary
<1>3. ASSUME ~outdated', NEW x \in Entity, NEW n \in borne'[x]
      PROVE  \E known \in {name'[x]} \cup aliases'[x] : Fold[known] = Fold[n]
  <2>1. ~outdated /\ read = R!ReadRow(e)
    BY <1>3 DEF R!WriteName
  <2>2. \A m \in borne[x] : \E known \in {name[x]} \cup aliases[x] : Fold[known] = Fold[m]
    BY <2>1 DEF ReviewInv, R!NamesAreKept
  <2>3. CASE x # e
    <3>1. name'[x] = name[x] /\ aliases'[x] = aliases[x] /\ borne'[x] = borne[x]
      BY <2>3 DEF R!WriteName, ReviewInv, ReviewTypes
    <3>2. QED
      BY <1>3, <2>2, <3>1
  <2>4. CASE x = e
    <3>1. /\ name'[x] = new /\ borne'[x] = borne[x] \cup {new}
          /\ aliases'[x] = {a \in aliases[x] \cup {name[x]} : Fold[a] # Fold[new]}
      BY <2>1, <2>4 DEF R!WriteName, R!ReadRow, ReviewInv, ReviewTypes
    <3>2. CASE Fold[n] = Fold[new]
      BY <3>1, <3>2
    <3>3. CASE Fold[n] # Fold[new]
      <4>1. PICK known \in {name[x]} \cup aliases[x] : Fold[known] = Fold[n]
        BY <1>3, <2>2, <3>1, <3>3
      <4>2. QED
        BY <3>1, <3>3, <4>1
    <3>4. QED
      BY <3>2, <3>3
  <2>5. QED
    BY <2>3, <2>4
<1>4. R!NamesAreKept'
  BY <1>3 DEF R!NamesAreKept
<1>5. QED
  BY <1>1, <1>2, <1>4

\* A transaction that touches no name, and flags what it owes.
LEMMA NamesStay ==
  ASSUME ReviewInv, UNCHANGED <<name, aliases, merged, borne>>, outdated => outdated', owed' \subseteq Entity,
         outdated' \/ \A e \in owed' : e \in stale' \/ (e \in owed /\ e \notin stale)
  PROVE  Rows' /\ R!EditsFlagSummary' /\ R!NamesAreKept'
<1>1. Rows' /\ R!NamesAreKept'
  BY DEF ReviewInv, ReviewTypes, Rows, R!NamesAreKept
<1>2. R!EditsFlagSummary'
  BY DEF ReviewInv, R!EditsFlagSummary
<1>3. QED
  BY <1>1, <1>2

LEMMA ReviewCommits == ASSUME ReviewInv, NEW h \in Request, R!Commit(h) PROVE ReviewInv'
<1> USE PartsAssumption DEF R!ReviewAssumption
<1> DEFINE job == doing[h]
           Good == Rows' /\ R!EditsFlagSummary' /\ R!NamesAreKept'
<1>a. JobOK(job) /\ ReviewTypes
  BY DEF ReviewInv
<1>1. ASSUME R!Rename(job) PROVE Good
  <2>1. CASE R!WriteName(job.e, job.read, job.to)
    BY <1>a, <1>1, <2>1, NameIsWritten DEF R!Rename, JobOK
  <2>2. CASE UNCHANGED <<name, aliases, stale, owed, borne, outdated>>
    BY <1>a, <1>1, <2>2, NamesStay DEF R!Rename, ReviewTypes
  <2>3. QED
    BY <1>1, <2>1, <2>2 DEF R!Rename
<1>2. ASSUME R!AcceptRename(job) PROVE Good
  <2>1. CASE R!WriteName(job.q.e, job.read, job.q.to)
    BY <1>a, <1>2, <2>1, NameIsWritten DEF R!AcceptRename, JobOK
  <2>2. CASE UNCHANGED <<name, aliases, stale, owed, borne, outdated>>
    BY <1>a, <1>2, <2>2, NamesStay DEF R!AcceptRename, ReviewTypes
  <2>3. QED
    BY <1>2, <2>1, <2>2 DEF R!AcceptRename
<1>3. ASSUME R!AcceptNegation(job) PROVE Good
  <2>1. /\ stale' = stale \cup {job.q.e} /\ owed' = owed \cup {home[job.f]}
        /\ outdated' = (outdated \/ home[job.f] # job.q.e) /\ UNCHANGED <<name, aliases, merged, borne>>
    BY <1>3 DEF R!AcceptNegation
  <2>2. home[job.f] \in Entity
    BY <1>a, <1>3 DEF JobOK, R!AcceptNegation, ReviewTypes
  <2>3. QED
    BY <1>a, <2>1, <2>2, NamesStay DEF ReviewTypes
<1>4. ASSUME R!AcceptPredicate(job) PROVE Good
  <2>1. /\ stale' = stale \cup {home[f] : f \in candidate} /\ owed' = owed \cup {home[f] : f \in candidate}
        /\ UNCHANGED <<name, aliases, merged, borne, outdated>>
    BY <1>4 DEF R!AcceptPredicate
  <2>2. QED
    BY <1>a, <2>1, NamesStay DEF ReviewTypes
<1>5. ASSUME R!AcceptType(job) PROVE Good
  BY <1>a, <1>5, NamesStay DEF R!AcceptType, ReviewTypes
<1>6. ASSUME R!AcceptMerge(job) PROVE Good
  <2> DEFINE e == job.canonical
             d == job.absorbed
  <2>1. /\ job.op = "accept merge" /\ merged' = [merged EXCEPT ![d] = e]
        /\ aliases' = [aliases EXCEPT ![e] = job.read.aliases \cup {job.read.name}]
        /\ borne' = [borne EXCEPT ![e] = @ \cup {name[d]}]
        /\ outdated' = (outdated \/ job.read # [name |-> name[d], aliases |-> aliases[e]])
        /\ UNCHANGED <<name, stale, owed>>
    BY <1>6 DEF R!AcceptMerge
  <2>2. e \in Entity
    BY <1>a, <2>1 DEF JobOK
  <2> HIDE DEF e, d
  <2>3. Rows'
    BY <2>1 DEF ReviewInv, ReviewTypes, Rows
  <2>4. R!EditsFlagSummary'
    <3>1. \A x \in Entity : merged'[x] = None => merged[x] = None
      BY <2>1, <2>2 DEF ReviewInv, ReviewTypes
    <3>2. QED
      BY <1>a, <2>1, <3>1 DEF ReviewInv, ReviewTypes, R!EditsFlagSummary
  <2>5. ASSUME ~outdated', NEW x \in Entity, NEW n \in borne'[x]
        PROVE  \E known \in {name'[x]} \cup aliases'[x] : Fold[known] = Fold[n]
    <3>1. ~outdated /\ job.read = [name |-> name[d], aliases |-> aliases[e]]
      BY <2>1, <2>5
    <3>2. aliases' = [aliases EXCEPT ![e] = aliases[e] \cup {name[d]}]
      <4>1. job.read.aliases = aliases[e] /\ job.read.name = name[d]
        BY <3>1
      <4>2. QED
        BY <2>1, <4>1
    <3>3. aliases[x] \subseteq aliases'[x] /\ (x = e => name[d] \in aliases'[x])
      BY <2>2, <3>2 DEF ReviewInv, ReviewTypes
    <3>4. n \in borne[x] \/ (x = e /\ n = name[d])
      BY <2>1, <2>5 DEF ReviewInv, ReviewTypes
    <3>5. \A m \in borne[x] : \E known \in {name[x]} \cup aliases[x] : Fold[known] = Fold[m]
      BY <3>1 DEF ReviewInv, R!NamesAreKept
    <3>6. QED
      BY <2>1, <3>3, <3>4, <3>5
  <2>6. R!NamesAreKept'
    BY <2>5 DEF R!NamesAreKept
  <2>7. QED
    BY <2>3, <2>4, <2>6
<1>7. ASSUME R!Reject(job) PROVE Good
  <2>1. UNCHANGED <<name, aliases, stale, merged, owed, borne, outdated>>
    BY <1>7 DEF R!Reject, R!RejectMerge, R!RejectPredicate, R!RejectRename, R!RejectNegation, R!RejectType,
                R!Refuse
  <2>2. QED
    BY <1>a, <2>1, NamesStay DEF ReviewTypes
<1>8. Good
  BY <1>1, <1>2, <1>3, <1>4, <1>5, <1>6, <1>7 DEF R!Commit
<1>9. doing' = [doing EXCEPT ![h] = R!Idle]
  BY DEF R!Commit
<1>10. \A g \in Request : JobOK(doing[g])'
  BY <1>9 DEF ReviewInv, ReviewTypes, JobOK, R!Idle
<1>11. home' \in [Fact -> Entity] /\ candidate' \subseteq Fact
  <2>1. CASE R!AcceptMerge(job)
    BY <1>a, <2>1 DEF R!AcceptMerge, JobOK, ReviewTypes
  <2>2. CASE ~R!AcceptMerge(job)
    BY <1>a, <2>2 DEF R!Commit, R!Rename, R!AcceptRename, R!AcceptNegation, R!AcceptPredicate, R!AcceptType,
       R!Reject, R!RejectMerge, R!RejectPredicate, R!RejectRename, R!RejectNegation, R!RejectType, R!Refuse, ReviewTypes
  <2>3. QED
    BY <2>1, <2>2
<1>12. QED
  BY <1>8, <1>9, <1>10, <1>11 DEF ReviewInv, ReviewTypes, Rows

LEMMA ReviewStep == ReviewInv /\ [R!Next]_(R!reviewVars) => ReviewInv'
<1> SUFFICES ASSUME ReviewInv, [R!Next]_(R!reviewVars) PROVE ReviewInv'
  OBVIOUS
<1>1. CASE UNCHANGED R!reviewVars
  BY <1>1 DEF R!reviewVars, R!rowVars, ReviewInv, ReviewTypes, JobOK, R!EditsFlagSummary, R!NamesAreKept
<1>2. ASSUME UNCHANGED <<name, aliases, merged, home, borne, doing, outdated>>,
             candidate' \subseteq Fact, owed' \subseteq Entity,
             \A e \in owed' : e \in stale' \/ (e \in owed /\ e \notin stale)
      PROVE ReviewInv'
  <2>1. Rows' /\ R!EditsFlagSummary' /\ R!NamesAreKept'
    BY <1>2, NamesStay
  <2>2. QED
    BY <1>2, <2>1 DEF ReviewInv, ReviewTypes, Rows, JobOK
<1>3. ASSUME NEW f \in Fact, R!LifeOfFact(f) \/ R!UpdateFact(f) PROVE ReviewInv'
  <2>1. R!FlagHome(f) /\ UNCHANGED <<name, aliases, merged, home, borne, doing, outdated>>
        /\ candidate' \subseteq Fact
    BY <1>3 DEF R!LifeOfFact, R!SetTimestamp, R!UpdateFact, ReviewInv, ReviewTypes
  <2>2. QED
    BY <1>2, <2>1 DEF R!FlagHome, ReviewInv, ReviewTypes
<1>4. ASSUME NEW e \in Entity, R!Resummarize(e) PROVE ReviewInv'
  BY <1>2, <1>4 DEF R!Resummarize, ReviewInv, ReviewTypes
<1>5. QED
  BY <1>1, <1>3, <1>4, ReviewChecks, ReviewCommits DEF R!Next

LEMMA ReviewAlone ==
  /\ Init /\ part = "review" => R!Init
  /\ [Next]_vars /\ part = "review" => [R!Next]_(R!reviewVars)
<1>1. Init /\ part = "review" => R!Init
  BY DEF Init
<1>2. ASSUME part = "review", Next PROVE R!Next
  BY <1>2 DEF Next, Only, Config, Install, Session, Access, Review, Zones, Desk, Pull, Join, Home, Choice, R!Next
<1>3. QED
  BY <1>1, <1>2 DEF vars, review, R!reviewVars, R!rowVars

LEMMA ReviewHolds == Spec => [](part = "review" => ReviewInv)
<1> DEFINE Inv == part = "review" => ReviewInv
<1>1. Init => Inv
  BY ReviewAlone, ReviewInit
<1>2. Inv /\ [Next]_vars => Inv'
  BY PartStays, ReviewAlone, ReviewStep
<1>3. QED
  BY <1>1, <1>2, PTL DEF Spec

\* For any number of fiches, questions and requests that cross one another: a fiche whose
\* facts or name were edited since its summary was regenerated is flagged for the next
\* cycle, until a transaction writes from a row that has changed since it was read,
\* as a negation accepted across a merge does.  Edits of relations are not in Review.
THEOREM SummariesAreFlagged == Spec => []EditsFlagSummary
<1>1. (part = "review" => ReviewInv) => EditsFlagSummary
  BY DEF ReviewInv, EditsFlagSummary
<1>2. QED
  BY <1>1, ReviewHolds, PTL

\* ... and, with the same exception, which is the race of two renames too, an entity answers
\* to every name it bore.
THEOREM NamesStayKnown == Spec => []NamesAreKept
<1>1. (part = "review" => ReviewInv) => NamesAreKept
  BY DEF ReviewInv, NamesAreKept
<1>2. QED
  BY <1>1, ReviewHolds, PTL

-----------------------------------------------------------------------------
(***************************************************************************)
(* Joining a space.  The one thread works for the last search; the members *)
(* it has not asked yet have no request of it, and those it left behind    *)
(* hold none that is alive, unless its proof went unheard.                 *)
(***************************************************************************)
AskState == {"none", "awaiting", "pending", "approved", "denied", "expired", "given"}
ThreadType == [at : {"ask", "confirm", "poll", "apply", "call"}, n : J!Search, left : J!Lists]
JoinTypes ==
  /\ search \in J!Busy \cup {"idle", "not_found", "denied", "expired", "failed", "done"}
  /\ thread \in [Request -> {J!Off} \cup ThreadType]
  /\ asks \in [J!Search -> [Device -> AskState]]
  /\ searches \in 0..MaxSearch

Candidates(list) == {list[i] : i \in 1..Len(list)}
Unasked(l) == IF l.at = "ask" THEN Candidates(l.left) ELSE Candidates(Tail(l.left))
Knows(l) ==
  /\ l.n = searches
  /\ l.at # "ask" => l.left # <<>>
  /\ \A m \in Unasked(l) : asks[l.n][m] = "none"
  /\ l.at \in {"ask", "confirm"} =>
       \A m \in Device : asks[l.n][m] \in {"pending", "approved"} => <<l.n, m>> \in unheard
  /\ l.n \in applied <=> l.at = "call"
  /\ l.at \in {"apply", "call"} => asks[l.n][Head(l.left)] = "given"
OneThread ==
  /\ \A t, u \in Request : thread[t] # J!Off /\ thread[u] # J!Off => t = u
  /\ search \in J!Busy <=> \E t \in Request : thread[t] # J!Off
Requests ==
  \A n \in J!Search, m \in Device :
    /\ asks[n][m] \in {"pending", "approved", "denied", "given"} => m \in Right
    /\ asks[n][m] \in {"approved", "given"} => <<n, m, "approved">> \in said
    /\ asks[n][m] = "denied" => <<n, m, "denied">> \in said
    /\ n > searches => asks[n][m] = "none"
Answers ==
  /\ applied \subseteq 1..searches /\ called \subseteq J!Search \X Device
  /\ search # "idle" => searches >= 1
  /\ \A n \in applied : \E m \in Right : asks[n][m] = "given" /\ <<n, m, "approved">> \in said
  /\ search = "done" => searches \in applied
  /\ search \in {"not_found", "denied", "expired"} => searches \notin applied
  /\ search = "denied" => \E m \in Right : <<searches, m, "denied">> \in said
  /\ search = "not_found" => \A m \in Device :
       asks[searches][m] \in {"pending", "approved"} => <<searches, m>> \in unheard
  /\ \A c \in called : c[1] \in applied /\ asks[c[1]][c[2]] = "given"
JoinInv ==
  /\ JoinTypes /\ OneThread /\ Requests /\ Answers
  /\ \A t \in Request : thread[t] # J!Off => Knows(thread[t])

\* A list of candidates has two members at most, not the same.
LEMMA CandidatesLeft ==
  ASSUME NEW list \in J!Lists, list # <<>>
  PROVE  /\ Head(list) \in Device /\ Tail(list) \in J!Lists
         /\ Candidates(Tail(list)) \subseteq (Device \ {Head(list)}) \cap Candidates(list)
<1>1. CASE \E m \in Device : list = <<m>>
  <2>1. PICK m \in Device : list = <<m>>
    BY <1>1
  <2>2. Head(list) = m /\ Tail(list) = <<>>
    BY <2>1
  <2>3. <<>> \in J!Lists /\ Candidates(<<>>) = {}
    BY DEF J!Lists, Candidates
  <2>4. QED
    BY <2>2, <2>3
<1>2. CASE \E m, o \in Device : list = <<m, o>>
  <2>1. PICK m, o \in Device : list = <<m, o>>
    BY <1>2
  <2>2. Head(list) = m /\ Tail(list) = <<o>> /\ m # o
    <3>1. Len(list) = 2 /\ list[1] = m /\ list[2] = o
      BY <2>1
    <3>2. list[1] # list[2]
      BY <3>1 DEF J!Lists
    <3>3. QED
      BY <2>1, <3>1, <3>2
  <2>3. <<o>> \in J!Lists
    BY DEF J!Lists
  <2>4. Candidates(<<o>>) = {o}
    BY DEF Candidates
  <2>5. o \in Candidates(list)
    <3>1. 2 \in 1..Len(list) /\ list[2] = o
      BY <2>1
    <3>2. QED
      BY <3>1 DEF Candidates
  <2>6. Head(list) \in Device /\ Tail(list) \in J!Lists
    BY <2>2, <2>3
  <2>7. Candidates(Tail(list)) = {o}
    BY <2>2, <2>4
  <2>8. o \in (Device \ {Head(list)}) \cap Candidates(list)
    BY <2>2, <2>5
  <2>9. QED
    BY <2>6, <2>7, <2>8
<1>3. QED
  BY <1>1, <1>2 DEF J!Lists

LEMMA CandidatesAre == ASSUME NEW list \in J!Lists PROVE Candidates(list) \subseteq Device
<1>1. CASE list = <<>>
  BY <1>1 DEF Candidates
<1>2. CASE \E m \in Device : list = <<m>>
  BY <1>2 DEF Candidates
<1>3. CASE \E m, o \in Device : list = <<m, o>>
  BY <1>3 DEF Candidates
<1>4. QED
  BY <1>1, <1>2, <1>3 DEF J!Lists

LEMMA JoinInit == J!Init => JoinInv
<1> SUFFICES ASSUME J!Init PROVE JoinInv
  OBVIOUS
<1> USE PartsAssumption DEF J!SearchAssumption
<1>1. JoinTypes /\ \A t \in Request : thread[t] = J!Off
  BY DEF J!Init, JoinTypes, J!Search, AskState
<1>2. OneThread
  BY <1>1 DEF J!Init, OneThread, J!Busy
<1>3. Requests
  BY DEF J!Init, Requests
<1>4. Answers
  BY DEF J!Init, Answers
<1>5. QED
  BY <1>1, <1>2, <1>3, <1>4 DEF JoinInv

\* The thread becomes `next`, or ends: the others are not there.
LEMMA JoinGoes ==
  ASSUME JoinInv, NEW t \in Request, thread[t] # J!Off, NEW next \in {J!Off} \cup ThreadType,
         thread' = [thread EXCEPT ![t] = next], searches' = searches,
         next # J!Off => Knows(next)', search' \in J!Busy <=> next # J!Off,
         search' \in J!Busy \cup {"idle", "not_found", "denied", "expired", "failed", "done"},
         asks' \in [J!Search -> [Device -> AskState]], Requests', Answers'
  PROVE  JoinInv'
<1>1. \A u \in Request \ {t} : thread[u] = J!Off /\ thread'[u] = J!Off
  BY DEF JoinInv, JoinTypes, OneThread
<1>2. thread'[t] = next /\ thread' \in [Request -> {J!Off} \cup ThreadType]
  BY DEF JoinInv, JoinTypes
<1>3. JoinTypes'
  BY <1>2 DEF JoinInv, JoinTypes
<1>4. OneThread'
  BY <1>1, <1>2 DEF OneThread
<1>5. ASSUME NEW u \in Request, thread'[u] # J!Off PROVE Knows(thread[u])'
  <2>1. u = t /\ thread'[u] = next
    BY <1>1, <1>2, <1>5
  <2>2. QED
    BY <1>2, <1>5, <2>1 DEF Knows, Unasked
<1>6. QED
  BY <1>3, <1>4, <1>5 DEF JoinInv

\* What is known of the thread at work.
LEMMA JoinKnown ==
  ASSUME JoinInv, NEW t \in Request, thread[t] # J!Off
  PROVE  /\ thread[t] \in ThreadType /\ Knows(thread[t]) /\ thread[t].n = searches
         /\ thread[t].n \in J!Search /\ thread[t].left \in J!Lists /\ search \in J!Busy
         /\ thread[t].left # <<>> =>
              /\ J!Of(t) = Head(thread[t].left) /\ J!Of(t) \in Device /\ J!Asked(t) \in AskState
              /\ Tail(thread[t].left) \in J!Lists
              /\ Candidates(Tail(thread[t].left)) \subseteq (Device \ {J!Of(t)}) \cap Candidates(thread[t].left)
<1>1. thread[t] \in ThreadType /\ Knows(thread[t])
  BY DEF JoinInv, JoinTypes
<1>2. thread[t].n \in J!Search /\ thread[t].left \in J!Lists /\ thread[t].n = searches
  BY <1>1 DEF ThreadType, Knows
<1>3. search \in J!Busy
  BY DEF JoinInv, OneThread
<1>4. thread[t].left # <<>> =>
        /\ Head(thread[t].left) \in Device /\ Tail(thread[t].left) \in J!Lists
        /\ Candidates(Tail(thread[t].left)) \subseteq (Device \ {Head(thread[t].left)}) \cap Candidates(thread[t].left)
  BY <1>2, CandidatesLeft
<1>5. J!Of(t) = Head(thread[t].left) /\ J!Asked(t) = asks[thread[t].n][J!Of(t)]
  BY DEF J!Of, J!Asked
<1>6. thread[t].left # <<>> => J!Asked(t) \in AskState
  BY <1>2, <1>4, <1>5 DEF JoinInv, JoinTypes
<1>7. QED
  BY <1>1, <1>2, <1>3, <1>4, <1>5, <1>6

\* A member's record of a request changes, and no other.
LEMMA AskBecomes ==
  ASSUME JoinInv, NEW t \in Request, thread[t] # J!Off, thread[t].left # <<>>, NEW value \in AskState,
         J!Becomes(t, value)
  PROVE  /\ asks' \in [J!Search -> [Device -> AskState]]
         /\ asks'[searches][J!Of(t)] = value
         /\ \A n \in J!Search, m \in Device :
              n # searches \/ m # J!Of(t) => asks'[n][m] = asks[n][m]
<1>1. searches \in J!Search /\ J!Of(t) \in Device /\ thread[t].n = searches
  BY JoinKnown
<1>2. asks' = [asks EXCEPT ![searches] = [asks[searches] EXCEPT ![J!Of(t)] = value]]
  BY <1>1 DEF J!Becomes
<1>3. asks[searches] \in [Device -> AskState] /\ asks \in [J!Search -> [Device -> AskState]]
  BY <1>1 DEF JoinInv, JoinTypes
<1>4. [asks[searches] EXCEPT ![J!Of(t)] = value] \in [Device -> AskState]
  BY <1>1, <1>3
<1>5. QED
  BY <1>1, <1>2, <1>3, <1>4

\* The thread goes to its next place, or to the next candidate.
LEMMA ThreadGoes ==
  ASSUME JoinInv, NEW t \in Request, thread[t] # J!Off,
         NEW to \in {"ask", "confirm", "poll", "apply", "call"}, J!Goes(t, to)
  PROVE  \E next \in ThreadType :
           /\ thread' = [thread EXCEPT ![t] = next] /\ next # J!Off
           /\ next.at = to /\ next.n = thread[t].n /\ next.left = thread[t].left
<1> DEFINE next == [thread[t] EXCEPT !.at = to]
<1>1. thread[t] \in ThreadType
  BY JoinKnown
<1>2. next \in ThreadType /\ next.at = to /\ next.n = thread[t].n /\ next.left = thread[t].left
  BY <1>1 DEF ThreadType
<1>3. thread' = [thread EXCEPT ![t] = next]
  BY DEF J!Goes
<1> HIDE DEF next
<1>4. next # J!Off
  BY <1>2 DEF J!Off, ThreadType
<1>5. QED
  BY <1>2, <1>3, <1>4

LEMMA ThreadSkips ==
  ASSUME JoinInv, NEW t \in Request, thread[t] # J!Off, thread[t].left # <<>>, J!Skips(t)
  PROVE  \E next \in ThreadType :
           /\ thread' = [thread EXCEPT ![t] = next] /\ next # J!Off
           /\ next.at = "ask" /\ next.n = thread[t].n /\ next.left = Tail(thread[t].left)
<1> DEFINE next == [thread[t] EXCEPT !.at = "ask", !.left = Tail(@)]
<1>1. thread[t] \in ThreadType /\ Tail(thread[t].left) \in J!Lists
  BY JoinKnown
<1>2. next \in ThreadType /\ next.at = "ask" /\ next.n = thread[t].n /\ next.left = Tail(thread[t].left)
  BY <1>1 DEF ThreadType
<1>3. thread' = [thread EXCEPT ![t] = next]
  BY <1>1 DEF J!Skips, ThreadType, JoinInv, JoinTypes
<1> HIDE DEF next
<1>4. next # J!Off
  BY <1>2 DEF J!Off, ThreadType
<1>5. QED
  BY <1>2, <1>3, <1>4

\* Before the payload is applied, nothing that was answered is about this search.
LEMMA AnswersStay ==
  ASSUME JoinInv, NEW t \in Request, thread[t] # J!Off, thread[t].at # "call",
         UNCHANGED <<said, applied, called, searches>>,
         \A n \in J!Search, m \in Device : n # searches => asks'[n][m] = asks[n][m],
         search' \notin {"idle", "done"},
         search' = "denied" => \E m \in Right : <<searches, m, "denied">> \in said,
         search' = "not_found" => \A m \in Device :
           asks'[searches][m] \in {"pending", "approved"} => <<searches, m>> \in unheard'
  PROVE  Answers'
<1> USE PartsAssumption DEF J!SearchAssumption
<1>1. searches \notin applied /\ searches >= 1
  BY JoinKnown DEF Knows, J!Search
<1>2. applied \subseteq J!Search /\ called \subseteq J!Search \X Device
  BY DEF JoinInv, Answers, JoinTypes, J!Search
<1>3. ASSUME NEW n \in applied PROVE \E m \in Right : asks'[n][m] = "given" /\ <<n, m, "approved">> \in said'
  BY <1>1, <1>2, <1>3 DEF JoinInv, Answers
<1>4. ASSUME NEW c \in called PROVE c[1] \in applied /\ asks'[c[1]][c[2]] = "given"
  <2>1. c[1] \in J!Search /\ c[2] \in Device /\ c[1] \in applied /\ asks[c[1]][c[2]] = "given"
    BY <1>2, <1>4 DEF JoinInv, Answers
  <2>2. QED
    BY <1>1, <2>1
<1>5. applied \subseteq 1..searches
  BY DEF JoinInv, Answers
<1>6. QED
  BY <1>1, <1>2, <1>3, <1>4, <1>5 DEF Answers

\* The joiner.
LEMMA JoinerSteps ==
  ASSUME JoinInv, NEW t \in Request,
         \/ J!NotFound(t) \/ J!Ask(t) \/ J!Confirm(t) \/ J!Poll(t) \/ J!TimesOut(t) \/ J!Apply(t)
         \/ J!ApplyFails(t) \/ J!CallBack(t)
  PROVE  JoinInv'
<1> USE PartsAssumption DEF J!SearchAssumption
<1> DEFINE l == thread[t]
           Statuses == J!Busy \cup {"idle", "not_found", "denied", "expired", "failed", "done"}
<1>a. thread[t] # J!Off /\ searches' = searches
  BY DEF J!NotFound, J!Ask, J!Confirm, J!Poll, J!TimesOut, J!Apply, J!ApplyFails, J!CallBack, J!Off,
         JoinInv, JoinTypes, ThreadType
<1>b. /\ l \in ThreadType /\ Knows(l) /\ l.n = searches
      /\ searches \in J!Search /\ search \in J!Busy
      /\ l.left # <<>> => /\ J!Of(t) = Head(l.left) /\ J!Of(t) \in Device /\ J!Asked(t) \in AskState
                          /\ Candidates(Tail(l.left)) \subseteq (Device \ {J!Of(t)}) \cap Candidates(l.left)
  BY <1>a, JoinKnown
<1>c. J!Busy \subseteq Statuses /\ J!Off \in {J!Off} \cup ThreadType /\ Requests /\ Answers
      /\ asks \in [J!Search -> [Device -> AskState]]
  BY DEF JoinInv, JoinTypes
<1>d. J!Busy \cap {"idle", "not_found", "denied", "expired", "failed", "done"} = {}
  BY DEF J!Busy
<1>e. J!Asked(t) = asks[searches][J!Of(t)]
  BY <1>b DEF J!Asked
<1>f. l.left # <<>> => \A m \in Candidates(Tail(l.left)) :
                          m \in Device /\ m # J!Of(t) /\ asks[searches][m] = "none"
  BY <1>b DEF Knows, Unasked
<1>g. l.at # "ask" => l.left # <<>>
  BY <1>b DEF Knows
\* A search that ends, the requests as they are.
<1>1. ASSUME NEW how \in {"not_found", "denied", "expired", "failed"}, J!Ends(t, how), l.at # "call",
             UNCHANGED <<asks, said, applied, called, unheard>>,
             how = "denied" => \E m \in Right : <<searches, m, "denied">> \in said,
             how = "not_found" => l.at = "ask"
      PROVE  JoinInv'
  <2>1. search' = how /\ thread' = [thread EXCEPT ![t] = J!Off]
    BY <1>1 DEF J!Ends
  <2>2. how = "not_found" => \A m \in Device :
          asks[searches][m] \in {"pending", "approved"} => <<searches, m>> \in unheard
    BY <1>1, <1>b DEF Knows
  <2>3. Answers'
    BY <1>1, <1>a, <2>1, <2>2, AnswersStay
  <2>4. Requests'
    BY <1>1, <1>a, <1>c DEF Requests
  <2>5. QED
    BY <1>1, <1>a, <1>c, <1>d, <2>1, <2>3, <2>4, JoinGoes
\* A search that goes on.
<1>2. ASSUME l.left # <<>>, l.at # "call", search' \in J!Busy, UNCHANGED <<said, applied, called>>,
             NEW next \in ThreadType, thread' = [thread EXCEPT ![t] = next], next # J!Off, Knows(next)',
             asks' \in [J!Search -> [Device -> AskState]],
             \A n \in J!Search, m \in Device : n # searches \/ m # J!Of(t) => asks'[n][m] = asks[n][m],
             /\ asks'[searches][J!Of(t)] \in {"pending", "approved", "denied", "given"} => J!Of(t) \in Right
             /\ asks'[searches][J!Of(t)] \in {"approved", "given"} => <<searches, J!Of(t), "approved">> \in said
             /\ asks'[searches][J!Of(t)] = "denied" => <<searches, J!Of(t), "denied">> \in said
      PROVE  JoinInv'
  <2>1. Answers'
    BY <1>2, <1>a, <1>d, AnswersStay
  <2>2. Requests'
    <3>1. ASSUME NEW n \in J!Search, NEW m \in Device
          PROVE  /\ asks'[n][m] \in {"pending", "approved", "denied", "given"} => m \in Right
                 /\ asks'[n][m] \in {"approved", "given"} => <<n, m, "approved">> \in said
                 /\ asks'[n][m] = "denied" => <<n, m, "denied">> \in said
                 /\ n > searches => asks'[n][m] = "none"
      <4>1. CASE n = searches /\ m = J!Of(t)
        <5>1. ~(searches > searches)
          BY <1>b DEF J!Search
        <5>2. QED
          BY <1>2, <4>1, <5>1
      <4>2. CASE ~(n = searches /\ m = J!Of(t))
        BY <1>2, <1>c, <4>2 DEF Requests
      <4>3. QED
        BY <4>1, <4>2
    <3>2. QED
      BY <1>2, <1>a, <3>1 DEF Requests
  <2>3. QED
    BY <1>2, <1>a, <1>c, <2>1, <2>2, JoinGoes
\* ... with what the thread knows of the candidates that are left.
<1>3. ASSUME l.left # <<>>, l.at # "call", search' \in J!Busy, UNCHANGED <<said, applied, called>>,
             NEW next \in ThreadType, thread' = [thread EXCEPT ![t] = next], next # J!Off,
             next.n = searches, next.at # "call",
             \/ next.at = "ask" /\ next.left = Tail(l.left)
             \/ next.at # "ask" /\ next.left = l.left,
             next.at = "apply" => asks'[searches][J!Of(t)] = "given",
             next.at \in {"ask", "confirm"} => \A m \in Device :
               asks'[searches][m] \in {"pending", "approved"} => <<searches, m>> \in unheard',
             \/ UNCHANGED asks
             \/ \E value \in AskState :
                  /\ J!Becomes(t, value)
                  /\ value \in {"pending", "approved", "denied", "given"} => J!Of(t) \in Right
                  /\ value \in {"approved", "given"} => <<searches, J!Of(t), "approved">> \in said
                  /\ value = "denied" => <<searches, J!Of(t), "denied">> \in said
      PROVE  JoinInv'
  <2>1. /\ asks' \in [J!Search -> [Device -> AskState]]
        /\ \A n \in J!Search, m \in Device : n # searches \/ m # J!Of(t) => asks'[n][m] = asks[n][m]
        /\ asks'[searches][J!Of(t)] \in {"pending", "approved", "denied", "given"} => J!Of(t) \in Right
        /\ asks'[searches][J!Of(t)] \in {"approved", "given"} => <<searches, J!Of(t), "approved">> \in said
        /\ asks'[searches][J!Of(t)] = "denied" => <<searches, J!Of(t), "denied">> \in said
    <3>1. CASE UNCHANGED asks
      BY <1>3, <1>b, <1>c, <3>1 DEF Requests
    <3>2. CASE ~UNCHANGED asks
      <4>1. PICK value \in AskState :
                  /\ J!Becomes(t, value)
                  /\ value \in {"pending", "approved", "denied", "given"} => J!Of(t) \in Right
                  /\ value \in {"approved", "given"} => <<searches, J!Of(t), "approved">> \in said
                  /\ value = "denied" => <<searches, J!Of(t), "denied">> \in said
        BY <1>3, <3>2
      <4>2. /\ asks' \in [J!Search -> [Device -> AskState]]
            /\ asks'[searches][J!Of(t)] = value
            /\ \A n \in J!Search, m \in Device :
                 n # searches \/ m # J!Of(t) => asks'[n][m] = asks[n][m]
        BY <1>3, <1>a, <4>1, AskBecomes
      <4>3. QED
        BY <4>1, <4>2
    <3>3. QED
      BY <3>1, <3>2
  <2>2. Unasked(next) = Candidates(Tail(l.left))
    BY <1>3 DEF Unasked
  <2>3. \A m \in Unasked(next) : asks'[searches][m] = "none"
    BY <1>3, <1>b, <1>f, <2>1, <2>2
  <2>4. searches \notin applied
    BY <1>3, <1>b DEF Knows
  <2>5. next.at = "apply" => J!Of(t) = Head(next.left)
    BY <1>3, <1>b
  <2>6. Knows(next)'
    BY <1>3, <1>a, <2>3, <2>4, <2>5 DEF Knows, Unasked
  <2>7. QED
    BY <1>2, <1>3, <2>1, <2>6
<1>4. CASE J!NotFound(t)
  BY <1>1, <1>4 DEF J!NotFound
<1>5. CASE J!TimesOut(t)
  BY <1>1, <1>5 DEF J!TimesOut
<1>6. CASE J!ApplyFails(t)
  BY <1>1, <1>6 DEF J!ApplyFails
<1>7. CASE J!Ask(t)
  <2>1. l.at = "ask" /\ l.left # <<>> /\ UNCHANGED <<said, applied, called, unheard>>
    BY <1>7 DEF J!Ask
  <2>2. \A m \in Device : asks[searches][m] \in {"pending", "approved"} => <<searches, m>> \in unheard
    BY <1>b, <2>1 DEF Knows
  <2>3. \/ UNCHANGED asks
        \/ J!Becomes(t, "awaiting") /\ "awaiting" \in AskState
    BY <1>7 DEF J!Ask, AskState
  <2>4. \A m \in Device : asks'[searches][m] \in {"pending", "approved"} => <<searches, m>> \in unheard'
    <3>1. CASE UNCHANGED asks
      BY <2>1, <2>2, <3>1
    <3>2. CASE J!Becomes(t, "awaiting") /\ "awaiting" \in AskState
      BY <1>a, <1>b, <2>1, <2>2, <3>2, AskBecomes
    <3>3. QED
      BY <2>3, <3>1, <3>2
  <2>5. CASE J!Skips(t)
    <3>1. PICK next \in ThreadType :
           /\ thread' = [thread EXCEPT ![t] = next] /\ next # J!Off
           /\ next.at = "ask" /\ next.n = thread[t].n /\ next.left = Tail(thread[t].left)
      BY <1>a, <2>1, <2>5, ThreadSkips
    <3>2. search' \in J!Busy
      BY <1>b, <2>5 DEF J!Skips
    <3>3. QED
      BY <1>3, <1>b, <2>1, <2>3, <2>4, <3>1, <3>2
  <2>6. CASE J!Goes(t, "confirm") /\ UNCHANGED search
    <3>1. PICK next \in ThreadType :
           /\ thread' = [thread EXCEPT ![t] = next] /\ next # J!Off
           /\ next.at = "confirm" /\ next.n = thread[t].n /\ next.left = thread[t].left
      BY <1>a, <2>6, ThreadGoes
    <3>2. search' \in J!Busy
      BY <1>b, <2>6
    <3>3. QED
      BY <1>3, <1>b, <2>1, <2>3, <2>4, <3>1, <3>2
  <2>7. QED
    BY <1>7, <2>5, <2>6 DEF J!Ask
<1>8. CASE J!Confirm(t)
  <2>1. l.at = "confirm" /\ l.left # <<>> /\ UNCHANGED <<said, applied, called>>
    BY <1>8, <1>g DEF J!Confirm
  <2>2. \A m \in Device : asks[searches][m] \in {"pending", "approved"} => <<searches, m>> \in unheard
    BY <1>b, <2>1 DEF Knows
  <2>3. CASE J!Skips(t) /\ UNCHANGED <<asks, unheard>>
    <3>1. PICK next \in ThreadType :
           /\ thread' = [thread EXCEPT ![t] = next] /\ next # J!Off
           /\ next.at = "ask" /\ next.n = thread[t].n /\ next.left = Tail(thread[t].left)
      BY <1>a, <2>1, <2>3, ThreadSkips
    <3>2. search' \in J!Busy
      BY <1>b, <2>3 DEF J!Skips
    <3>3. QED
      BY <1>3, <1>b, <2>1, <2>2, <2>3, <3>1, <3>2
  <2>4. CASE J!Of(t) \in Right /\ J!Becomes(t, "pending")
    <3>1. "pending" \in AskState
      BY DEF AskState
    <3>2. CASE search' = "waiting_approval" /\ J!Goes(t, "poll")
      <4>1. PICK next \in ThreadType :
             /\ thread' = [thread EXCEPT ![t] = next] /\ next # J!Off
             /\ next.at = "poll" /\ next.n = thread[t].n /\ next.left = thread[t].left
        BY <1>a, <3>2, ThreadGoes
      <4>2. search' \in J!Busy
        BY <3>2 DEF J!Busy
      <4>3. QED
        BY <1>3, <1>b, <2>1, <2>4, <3>1, <4>1, <4>2
    <3>3. CASE J!Skips(t) /\ unheard' = unheard \cup {<<l.n, J!Of(t)>>}
      <4>1. PICK next \in ThreadType :
             /\ thread' = [thread EXCEPT ![t] = next] /\ next # J!Off
             /\ next.at = "ask" /\ next.n = thread[t].n /\ next.left = Tail(thread[t].left)
        BY <1>a, <2>1, <3>3, ThreadSkips
      <4>2. search' \in J!Busy
        BY <1>b, <3>3 DEF J!Skips
      <4>3. \A m \in Device : asks'[searches][m] \in {"pending", "approved"} => <<searches, m>> \in unheard'
        BY <1>a, <1>b, <2>1, <2>2, <2>4, <3>1, <3>3, AskBecomes
      <4>4. QED
        BY <1>3, <1>b, <2>1, <2>4, <3>1, <4>1, <4>2, <4>3
    <3>4. CASE J!Skips(t) /\ UNCHANGED <<asks, unheard>>
      BY <2>3, <3>4
    <3>5. QED
      BY <1>8, <2>3, <2>4, <3>2, <3>3 DEF J!Confirm
  <2>5. QED
    BY <1>8, <2>3, <2>4 DEF J!Confirm
<1>9. CASE J!Poll(t)
  <2>1. l.at = "poll" /\ l.left # <<>> /\ UNCHANGED <<said, applied, called, unheard>>
    BY <1>9, <1>g DEF J!Poll
  <2>2. CASE J!Asked(t) = "approved" /\ J!Becomes(t, "given")
    <3>1. "given" \in AskState /\ J!Of(t) \in Right /\ <<searches, J!Of(t), "approved">> \in said
      BY <1>b, <1>c, <1>e, <2>1, <2>2 DEF Requests, AskState
    <3>2. asks'[searches][J!Of(t)] = "given"
      BY <1>a, <2>1, <2>2, <3>1, AskBecomes
    <3>3. CASE search' = "applying" /\ J!Goes(t, "apply")
      <4>1. PICK next \in ThreadType :
             /\ thread' = [thread EXCEPT ![t] = next] /\ next # J!Off
             /\ next.at = "apply" /\ next.n = thread[t].n /\ next.left = thread[t].left
        BY <1>a, <3>3, ThreadGoes
      <4>2. search' \in J!Busy
        BY <3>3 DEF J!Busy
      <4>3. QED
        BY <1>3, <1>b, <2>1, <2>2, <3>1, <3>2, <4>1, <4>2
    <3>4. CASE UNCHANGED <<search, thread>>
      <4>1. PICK next : next = l
        OBVIOUS
      <4>2. thread' = [thread EXCEPT ![t] = next]
        BY <3>4, <4>1 DEF JoinInv, JoinTypes
      <4>3. QED
        BY <1>3, <1>a, <1>b, <2>1, <2>2, <3>1, <3>4, <4>1, <4>2
    <3>5. QED
      BY <1>9, <2>1, <2>2, <3>3, <3>4 DEF J!Poll
  <2>3. CASE J!Asked(t) = "denied" /\ J!Ends(t, "denied") /\ UNCHANGED asks
    <3>1. J!Of(t) \in Right /\ <<searches, J!Of(t), "denied">> \in said
      BY <1>b, <1>c, <1>e, <2>1, <2>3 DEF Requests
    <3>2. QED
      BY <1>1, <2>1, <2>3, <3>1
  <2>4. CASE J!Ends(t, "expired") /\ UNCHANGED asks
    BY <1>1, <2>1, <2>4
  <2>5. QED
    BY <1>9, <2>2, <2>3, <2>4 DEF J!Poll
<1>10. CASE J!Apply(t)
  <2>1. /\ l.at = "apply" /\ l.left # <<>> /\ applied' = applied \cup {searches}
        /\ J!Goes(t, "call") /\ UNCHANGED <<search, asks, said, called, unheard>>
    BY <1>10, <1>b, <1>g DEF J!Apply
  <2>2. PICK next \in ThreadType :
         /\ thread' = [thread EXCEPT ![t] = next] /\ next # J!Off
         /\ next.at = "call" /\ next.n = thread[t].n /\ next.left = thread[t].left
    BY <1>a, <2>1, ThreadGoes
  <2>3. asks[searches][J!Of(t)] = "given" /\ J!Of(t) = Head(l.left)
    BY <1>b, <2>1 DEF Knows
  <2>4. J!Of(t) \in Right /\ <<searches, J!Of(t), "approved">> \in said
    BY <1>b, <1>c, <2>1, <2>3 DEF Requests
  <2>5. Knows(next)'
    <3>1. Unasked(next) = Candidates(Tail(l.left))
      BY <2>2 DEF Unasked
    <3>2. \A m \in Unasked(next) : asks'[searches][m] = "none"
      BY <1>f, <2>1, <3>1
    <3>3. QED
      BY <1>a, <1>b, <2>1, <2>2, <2>3, <3>2 DEF Knows, Unasked
  <2>6. Answers'
    <3>1. applied' \subseteq 1..searches
      <4>1. searches \in 1..searches
        BY <1>b DEF J!Search
      <4>2. applied \subseteq 1..searches
        BY <1>c DEF Answers
      <4>3. QED
        BY <1>a, <2>1, <4>1, <4>2
    <3>2. \A n \in applied' : \E m \in Right : asks'[n][m] = "given" /\ <<n, m, "approved">> \in said'
      BY <1>c, <2>1, <2>3, <2>4 DEF Answers
    <3>3. search' \notin {"idle", "done", "not_found", "denied", "expired"}
      BY <1>b, <1>d, <2>1
    <3>4. QED
      BY <1>a, <1>c, <2>1, <3>1, <3>2, <3>3 DEF Answers
  <2>7. Requests' /\ search' \in J!Busy
    BY <1>a, <1>b, <1>c, <2>1 DEF Requests
  <2>8. QED
    BY <1>a, <1>c, <2>1, <2>2, <2>5, <2>6, <2>7, JoinGoes
<1>11. CASE J!CallBack(t)
  <2>1. /\ l.at = "call" /\ l.left # <<>> /\ called' \in {called, called \cup {<<searches, J!Of(t)>>}}
        /\ search' = "done" /\ thread' = [thread EXCEPT ![t] = J!Off]
        /\ UNCHANGED <<asks, said, applied, unheard>>
    BY <1>11, <1>b, <1>g DEF J!CallBack, J!Ends
  <2>2. asks[searches][J!Of(t)] = "given" /\ searches \in applied /\ J!Of(t) \in Device
    BY <1>b, <2>1 DEF Knows
  <2>3. Answers'
    <3>1. called' \subseteq J!Search \X Device /\ \A c \in called' : c[1] \in applied /\ asks[c[1]][c[2]] = "given"
      BY <1>b, <1>c, <2>1, <2>2 DEF Answers
    <3>2. searches >= 1
      BY <1>b DEF J!Search
    <3>3. QED
      BY <1>a, <1>c, <2>1, <2>2, <3>1, <3>2 DEF Answers
  <2>4. Requests'
    BY <1>a, <1>c, <2>1 DEF Requests
  <2>5. QED
    BY <1>a, <1>c, <1>d, <2>1, <2>3, <2>4, JoinGoes
<1>12. QED
  BY <1>4, <1>5, <1>6, <1>7, <1>8, <1>9, <1>10, <1>11

\* The members decide, or let a request die: a thread that is owed an answer has it, and
\* the requests that were not made are still not.
LEMMA MemberSteps ==
  ASSUME JoinInv, NEW n \in J!Search, NEW m \in Device, NEW value \in {"approved", "denied", "expired"},
         asks' = [asks EXCEPT ![n][m] = value],
         UNCHANGED <<search, thread, searches, applied, called, unheard, dead>>,
         asks[n][m] \in {"awaiting", "pending", "approved", "denied"},
         \/ value = "expired" /\ UNCHANGED said
         \/ value # "expired" /\ asks[n][m] = "pending" /\ said' = said \cup {<<n, m, value>>}
  PROVE  JoinInv'
<1>1. /\ asks' \in [J!Search -> [Device -> AskState]] /\ asks'[n][m] = value
      /\ \A k \in J!Search, d \in Device : k # n \/ d # m => asks'[k][d] = asks[k][d]
  <2>1. asks \in [J!Search -> [Device -> AskState]] /\ asks[n] \in [Device -> AskState] /\ value \in AskState
    BY DEF JoinInv, JoinTypes, AskState
  <2>2. [asks[n] EXCEPT ![m] = value] \in [Device -> AskState]
    BY <2>1
  <2>3. asks' = [asks EXCEPT ![n] = [asks[n] EXCEPT ![m] = value]]
    OBVIOUS
  <2>4. QED
    BY <2>1, <2>2, <2>3
<1>2. ASSUME NEW k \in J!Search, NEW d \in Device
      PROVE  /\ asks[k][d] = "none" => asks'[k][d] = "none"
             /\ asks[k][d] = "given" => asks'[k][d] = "given"
             /\ asks'[k][d] \in {"pending", "approved"} => asks[k][d] \in {"pending", "approved"}
  <2>1. CASE k = n /\ d = m
    BY <1>1, <2>1
  <2>2. CASE k # n \/ d # m
    BY <1>1, <2>2
  <2>3. QED
    BY <2>1, <2>2
<1>3. said \subseteq said'
  OBVIOUS
<1>4. JoinTypes' /\ OneThread'
  BY <1>1 DEF JoinInv, JoinTypes, OneThread
<1>5. Requests'
  <2>1. ASSUME NEW k \in J!Search, NEW d \in Device
        PROVE  /\ asks'[k][d] \in {"pending", "approved", "denied", "given"} => d \in Right
               /\ asks'[k][d] \in {"approved", "given"} => <<k, d, "approved">> \in said'
               /\ asks'[k][d] = "denied" => <<k, d, "denied">> \in said'
               /\ k > searches => asks'[k][d] = "none"
    <3>1. /\ asks[k][d] \in {"pending", "approved", "denied", "given"} => d \in Right
          /\ asks[k][d] \in {"approved", "given"} => <<k, d, "approved">> \in said
          /\ asks[k][d] = "denied" => <<k, d, "denied">> \in said
          /\ k > searches => asks[k][d] = "none"
      BY DEF JoinInv, Requests
    <3>2. CASE k = n /\ d = m
      BY <1>1, <1>3, <3>1, <3>2
    <3>3. CASE k # n \/ d # m
      BY <1>1, <1>3, <3>1, <3>3
    <3>4. QED
      BY <3>2, <3>3
  <2>2. QED
    BY <2>1 DEF Requests
<1>6. searches >= 1 => searches \in J!Search
  BY PartsAssumption DEF J!SearchAssumption, JoinInv, JoinTypes, J!Search
<1>7. Answers'
  <2>1. applied \subseteq J!Search /\ Right \subseteq Device
    BY PartsAssumption DEF J!SearchAssumption, JoinInv, Answers, JoinTypes, J!Search
  <2>2. \A k \in applied' : \E d \in Right : asks'[k][d] = "given" /\ <<k, d, "approved">> \in said'
    BY <1>2, <1>3, <2>1 DEF JoinInv, Answers
  <2>3. \A c \in called' : c[1] \in applied' /\ asks'[c[1]][c[2]] = "given"
    <3>1. \A c \in called : c[1] \in J!Search /\ c[2] \in Device /\ c[1] \in applied /\ asks[c[1]][c[2]] = "given"
      BY DEF JoinInv, Answers
    <3>2. QED
      BY <1>2, <3>1
  <2>4. search' = "not_found" => \A d \in Device :
          asks'[searches][d] \in {"pending", "approved"} => <<searches, d>> \in unheard
    <3>1. search = "not_found" => searches \in J!Search
      BY <1>6 DEF JoinInv, Answers
    <3>2. QED
      BY <1>2, <3>1 DEF JoinInv, Answers
  <2>5. search' = "denied" => \E d \in Right : <<searches, d, "denied">> \in said'
    BY <1>3 DEF JoinInv, Answers
  <2>6. QED
    BY <2>2, <2>3, <2>4, <2>5 DEF JoinInv, Answers
<1>8. ASSUME NEW t \in Request, thread'[t] # J!Off PROVE Knows(thread[t])'
  <2>1. thread[t] # J!Off /\ thread'[t] = thread[t]
    BY <1>8
  <2>2. /\ thread[t] \in ThreadType /\ Knows(thread[t]) /\ thread[t].n \in J!Search
        /\ thread[t].left # <<>> => Head(thread[t].left) \in Device
    BY <2>1, JoinKnown DEF J!Of
  <2>3. Unasked(thread[t]) \subseteq Device
    <3>1. CASE thread[t].at = "ask"
      BY <2>2, <3>1, CandidatesAre DEF Unasked, ThreadType
    <3>2. CASE thread[t].at # "ask"
      <4>1. thread[t].left # <<>>
        BY <2>2, <3>2 DEF Knows
      <4>2. Tail(thread[t].left) \in J!Lists
        BY <2>1, <4>1, JoinKnown
      <4>3. QED
        BY <3>2, <4>2, CandidatesAre DEF Unasked
    <3>3. QED
      BY <3>1, <3>2
  <2> DEFINE l == thread[t]
  <2>4. \A d \in Unasked(l) : asks'[l.n][d] = "none"
    BY <1>2, <2>2, <2>3 DEF Knows
  <2>5. l.at \in {"ask", "confirm"} =>
          \A d \in Device : asks'[l.n][d] \in {"pending", "approved"} => <<l.n, d>> \in unheard
    BY <1>2, <2>2 DEF Knows
  <2>6. l.at \in {"apply", "call"} => asks'[l.n][Head(l.left)] = "given"
    BY <1>2, <2>2 DEF Knows
  <2>7. QED
    BY <2>1, <2>2, <2>4, <2>5, <2>6 DEF Knows, Unasked
<1>9. QED
  BY <1>4, <1>5, <1>7, <1>8 DEF JoinInv

\* A search starts, when none is under way.
LEMMA SearchStarts == ASSUME JoinInv, NEW t \in Request, J!Start(t) PROVE JoinInv'
<1> USE PartsAssumption DEF J!SearchAssumption
<1>1. PICK list \in J!Lists : thread' = [thread EXCEPT ![t] = [at |-> "ask", n |-> searches + 1, left |-> list]]
  BY DEF J!Start
<1>p. PICK next : next = [at |-> "ask", n |-> searches + 1, left |-> list]
  OBVIOUS
<1>2. /\ searches' = searches + 1 /\ search' = "searching"
      /\ UNCHANGED <<asks, said, applied, called, unheard, dead>>
      /\ searches \in 0..MaxSearch /\ searches < MaxSearch
  BY DEF J!Start, JoinInv, JoinTypes
<1>3. searches + 1 \in J!Search /\ searches + 1 \in 0..MaxSearch /\ searches + 1 > searches
  BY <1>2 DEF J!Search
<1>4. next \in ThreadType /\ next.at = "ask" /\ next.n = searches + 1 /\ next.left = list
  BY <1>p, <1>3 DEF ThreadType
<1>5. thread \in [Request -> {J!Off} \cup ThreadType] /\ \A u \in Request : thread[u] = J!Off
  BY DEF J!Start, JoinInv, JoinTypes, OneThread
<1>6. thread' = [thread EXCEPT ![t] = next]
  BY <1>1, <1>p
<1>7. thread' \in [Request -> {J!Off} \cup ThreadType] /\ thread'[t] = next
      /\ \A u \in Request : u # t => thread'[u] = J!Off
  BY <1>4, <1>5, <1>6
<1>8. next # J!Off
  BY <1>4 DEF J!Off, ThreadType
<1>9. search' \in J!Busy /\ search' \notin {"idle", "done", "not_found", "denied", "expired"}
  BY <1>2 DEF J!Busy
<1>10. JoinTypes'
  BY <1>2, <1>3, <1>7, <1>9 DEF JoinInv, JoinTypes
<1>11. OneThread'
  BY <1>7, <1>8, <1>9 DEF OneThread
<1>12. \A n \in J!Search, m \in Device : n > searches => asks[n][m] = "none"
  BY DEF JoinInv, Requests
<1>13. Requests'
  <2>1. \A n \in J!Search : n > searches + 1 => n > searches
    BY <1>2 DEF J!Search
  <2>2. QED
    BY <1>2, <1>12, <2>1 DEF JoinInv, Requests
<1>14. Answers'
  <2>1. applied \subseteq 1..searches
    BY DEF JoinInv, Answers
  <2>2. applied \subseteq 1..(searches + 1) /\ searches + 1 >= 1
    BY <1>2, <2>1
  <2>3. QED
    BY <1>2, <1>9, <2>2 DEF JoinInv, Answers
<1>15. Knows(next)'
  <2>1. Unasked(next) \subseteq Device
    BY <1>4, CandidatesAre DEF Unasked
  <2>2. searches + 1 \notin applied
    <3>1. applied \subseteq 1..searches
      BY DEF JoinInv, Answers
    <3>2. searches + 1 \notin 1..searches
      BY <1>2
    <3>3. QED
      BY <3>1, <3>2
  <2>3. \A m \in Device : asks[searches + 1][m] = "none"
    BY <1>3, <1>12
  <2>4. QED
    BY <1>2, <1>4, <2>1, <2>2, <2>3 DEF Knows, Unasked
<1>16. ASSUME NEW u \in Request, thread'[u] # J!Off PROVE Knows(thread[u])'
  <2>1. thread'[u] = next
    BY <1>7, <1>16
  <2>2. QED
    BY <1>15, <2>1 DEF Knows, Unasked
<1>17. QED
  BY <1>10, <1>11, <1>13, <1>14, <1>16 DEF JoinInv

LEMMA JoinStep == JoinInv /\ [J!Next]_(J!searchVars) => JoinInv'
<1> SUFFICES ASSUME JoinInv, [J!Next]_(J!searchVars) PROVE JoinInv'
  OBVIOUS
<1>1. CASE UNCHANGED J!searchVars
  <2>1. UNCHANGED <<search, thread, searches, asks, said, applied, called, unheard>>
    BY <1>1 DEF J!searchVars
  <2>2. JoinTypes' /\ OneThread' /\ Requests' /\ Answers'
    BY <2>1 DEF JoinInv, JoinTypes, OneThread, Requests, Answers
  <2>3. ASSUME NEW t \in Request, thread'[t] # J!Off PROVE Knows(thread[t])'
    BY <2>1, <2>3 DEF JoinInv, Knows, Unasked
  <2>4. QED
    BY <2>2, <2>3 DEF JoinInv
<1>2. ASSUME NEW n \in J!Search, NEW m \in Device, J!Expire(n, m) PROVE JoinInv'
  BY <1>2, MemberSteps DEF J!Expire
<1>3. ASSUME NEW n \in J!Search, NEW m \in Device, NEW answer \in {"approved", "denied"}, J!Decide(n, m, answer)
      PROVE  JoinInv'
  BY <1>3, MemberSteps DEF J!Decide
<1>4. CASE J!Dies
  <2>1. /\ search' = "idle" /\ thread' = [t \in Request |-> J!Off]
        /\ UNCHANGED <<searches, asks, said, applied, called, unheard>>
    BY <1>4 DEF J!Dies
  <2>2. JoinTypes' /\ OneThread' /\ Requests'
    BY <2>1 DEF JoinInv, JoinTypes, OneThread, Requests, J!Busy
  <2>3. Answers'
    BY <2>1 DEF JoinInv, Answers
  <2>4. QED
    BY <2>1, <2>2, <2>3 DEF JoinInv
<1>5. QED
  BY <1>1, <1>2, <1>3, <1>4, JoinerSteps, SearchStarts DEF J!Next

\* What the user is told follows.
LEMMA JoinTells == JoinInv => J!JoinTellsTheTruth
<1> SUFFICES ASSUME JoinInv PROVE J!JoinTellsTheTruth
  OBVIOUS
<1>1. Cardinality(J!On) <= 1
  <2>1. CASE J!On = {}
    BY <2>1, FS_EmptySet
  <2>2. CASE J!On # {}
    <3>1. PICK t : J!On = {t}
      BY <2>2 DEF J!On, JoinInv, OneThread
    <3>2. QED
      BY <3>1, FS_Singleton
  <2>3. QED
    BY <2>1, <2>2
<1>2. search \in J!Busy <=> J!On # {}
  BY DEF J!On, JoinInv, OneThread
<1>3. J!Cardinality(J!On) = Cardinality(J!On)
  BY DEF J!Cardinality, Cardinality
<1>4. Answers
  BY DEF JoinInv
<1>5. QED
  BY <1>1, <1>2, <1>3, <1>4 DEF Answers, J!JoinTellsTheTruth

LEMMA JoinAlone ==
  /\ Init /\ part = "join" => J!Init
  /\ [Next]_vars /\ part = "join" => [J!Next]_(J!searchVars)
<1>1. Init /\ part = "join" => J!Init
  BY DEF Init
<1>2. ASSUME [Next]_vars, part = "join" PROVE [J!Next]_(J!searchVars)
  BY <1>2, ZenonT(60) DEF Next, vars, joining, J!searchVars, J!Next, J!Search, Only,
     Config, Install, Session, Access, Review, Zones, Desk, Pull, Join, Home, Choice
<1>3. QED
  BY <1>1, <1>2

-----------------------------------------------------------------------------
(***************************************************************************)
(* The identity of a home.  As long as one process at most makes a pair,   *)
(* the certificate is not there before its key is, and is made once; as    *)
(* long as one request at most makes a token, no other has been accepted.  *)
(***************************************************************************)
BackendType == [at : {"off", "load", "loaded", "serving"} \cup H!Making,
                pair : H!Pair \ {Torn}, cache : H!Bearer \ {Torn}]
ServedType == [of : Backend \cup {None}, at : {"none", "open", "write"}, new : H!Bearer \ {Torn}]
HomeTypes ==
  /\ cert \in H!Pair /\ key \in H!Pair /\ bearer \in H!Bearer
  /\ backend \in [Backend -> BackendType] /\ serving \in [Request -> ServedType]
  /\ pairs \in 0..MaxPair /\ bearers \in 0..MaxToken
  /\ pinned \subseteq 1..MaxPair /\ accepted \subseteq 1..MaxToken
HomeWork ==
  /\ cert = None \/ key # None
  /\ \A p \in Backend : backend[p].at \in H!Making =>
       backend[p].pair # None /\ (backend[p].at # "make" => key # None)
  /\ \A h \in Request : serving[h].at # "none" => serving[h].new # None /\ serving[h].of \in Backend
Files ==
  /\ \A p, q \in Backend : backend[p].at \in H!Making /\ backend[q].at \in H!Making => p = q
  /\ \A p \in Backend :
       /\ backend[p].at \in {"make", "key", "halfway"} => cert = None
       /\ backend[p].at = "halfway" => key = backend[p].pair
       /\ backend[p].at = "cert" => cert = Torn /\ key = backend[p].pair
  /\ cert \notin {None, Torn} => key = cert
  /\ cert = Torn => torn \/ \E p \in Backend : backend[p].at = "cert"
  /\ \A f \in pinned : cert = f
Tokens ==
  /\ \A h, g \in Request : serving[h] # H!Served /\ serving[g] # H!Served => h = g
  /\ \A h \in Request : serving[h] # H!Served =>
       accepted = {} /\ bearer \in {None, Torn} /\ \A p \in Backend : backend[p].cache = None
  /\ \A t \in accepted : bearer = t
  /\ \A p \in Backend : backend[p].cache \in {None, bearer}
HomeInv == HomeTypes /\ HomeWork /\ (raced \/ Files) /\ (doubled \/ Tokens)

\* The numbers of the pairs and of the tokens are none of the two marks.
LEMMA PairsAre ==
  /\ H!Pair = {None, Torn} \cup 1..MaxPair /\ H!Bearer = {None, Torn} \cup 1..MaxToken
  /\ None # Torn /\ None \notin 1..MaxPair /\ Torn \notin 1..MaxPair
  /\ None \notin 1..MaxToken /\ Torn \notin 1..MaxToken
BY PartsAssumption DEF H!IdentityAssumption, H!Pair, H!Bearer

LEMMA HomeInit == H!Init => HomeInv
<1> SUFFICES ASSUME H!Init PROVE HomeInv
  OBVIOUS
<1>1. HomeTypes
  <2>1. H!Stopped \in BackendType /\ H!Served \in ServedType
    BY PairsAre DEF H!Stopped, H!Served, BackendType, ServedType
  <2>2. pairs \in 0..MaxPair /\ bearers \in 0..MaxToken
    BY PartsAssumption DEF H!IdentityAssumption, H!Init
  <2>3. QED
    BY <2>1, <2>2, PairsAre DEF H!Init, HomeTypes
<1>2. HomeWork
  BY DEF H!Init, HomeWork, H!Stopped, H!Served, H!Making
<1>3. Files
  BY PairsAre DEF H!Init, Files, H!Stopped, H!Making
<1>4. Tokens
  BY DEF H!Init, Tokens, H!Stopped, H!Served
<1>5. QED
  BY <1>1, <1>2, <1>3, <1>4 DEF HomeInv

\* A process goes to another place, or stops.
LEMMA HomeGoes ==
  ASSUME HomeTypes, NEW p \in Backend, NEW to \in {"off", "load", "loaded", "serving"} \cup H!Making,
         H!Goes(p, to)
  PROVE  /\ backend' \in [Backend -> BackendType]
         /\ backend'[p].at = to /\ backend'[p].pair = backend[p].pair /\ backend'[p].cache = backend[p].cache
         /\ \A q \in Backend : q # p => backend'[q] = backend[q]
<1>1. backend \in [Backend -> BackendType] /\ backend[p] \in BackendType
  BY DEF HomeTypes
<1>2. [backend[p] EXCEPT !.at = to] \in BackendType
  BY <1>1 DEF BackendType
<1>3. backend' = [backend EXCEPT ![p] = [backend[p] EXCEPT !.at = to]]
  BY DEF H!Goes
<1>4. QED
  BY <1>1, <1>2, <1>3 DEF BackendType

LEMMA HomeStops ==
  ASSUME HomeTypes, NEW p \in Backend, backend' = [backend EXCEPT ![p] = H!Stopped]
  PROVE  /\ backend' \in [Backend -> BackendType]
         /\ backend'[p].at = "off" /\ backend'[p].pair = None /\ backend'[p].cache = None
         /\ \A q \in Backend : q # p => backend'[q] = backend[q]
<1>1. backend \in [Backend -> BackendType]
  BY DEF HomeTypes
<1>2. H!Stopped \in BackendType /\ H!Stopped.at = "off" /\ H!Stopped.pair = None /\ H!Stopped.cache = None
  BY PairsAre DEF BackendType, H!Stopped
<1>3. backend'[p] = H!Stopped
  BY <1>1
<1>4. QED
  BY <1>1, <1>2, <1>3

\* Only process p changes, and it makes no pair, or goes on with the one it makes, while
\* the files stay as they are.
LEMMA FilesStay ==
  ASSUME HomeInv, NEW p \in Backend, UNCHANGED <<cert, key, torn, raced>>,
         \A q \in Backend : q # p => backend'[q].at = backend[q].at /\ backend'[q].pair = backend[q].pair,
         backend'[p].at \notin H!Making, backend[p].at \notin H!Making,
         pinned' \in {pinned, pinned \cup H!Fingerprint}
  PROVE  (raced \/ Files)'
<1> SUFFICES ASSUME ~raced PROVE Files'
  OBVIOUS
<1>1. Files
  BY DEF HomeInv
<1>2. \A q \in Backend : backend'[q].at \in H!Making => q # p /\ backend[q].at = backend'[q].at
                                                        /\ backend[q].pair = backend'[q].pair
  OBVIOUS
<1>3. \A f \in pinned' : cert = f
  BY <1>1 DEF Files, H!Fingerprint
<1>4. cert = Torn => torn \/ \E q \in Backend : backend'[q].at = "cert"
  BY <1>1 DEF Files, H!Making
<1>5. \A q \in Backend :
        /\ backend'[q].at \in {"make", "key", "halfway"} => cert = None
        /\ backend'[q].at = "halfway" => key = backend'[q].pair
        /\ backend'[q].at = "cert" => cert = Torn /\ key = backend'[q].pair
  BY <1>1, <1>2 DEF Files, H!Making
<1>6. QED
  BY <1>1, <1>2, <1>3, <1>4, <1>5 DEF Files

\* The tokens and the caches stay as they are, or a cache is emptied.
LEMMA TokensStay ==
  ASSUME HomeInv, UNCHANGED <<bearer, serving, accepted, doubled>>,
         \A q \in Backend : backend'[q].cache \in {None, backend[q].cache}
  PROVE  (doubled \/ Tokens)'
BY DEF HomeInv, Tokens

\* What is at work stays so, when the files do.
LEMMA WorkStays ==
  ASSUME HomeInv, UNCHANGED <<cert, key, serving>>,
         \A q \in Backend : backend'[q].at \in H!Making => backend'[q].at = backend[q].at /\ backend'[q].pair = backend[q].pair
  PROVE  HomeWork'
BY DEF HomeInv, HomeWork

LEMMA HomeStarts == ASSUME HomeInv, NEW p \in Backend, H!Start(p) PROVE HomeInv'
<1>1. /\ backend[p] = H!Stopped /\ backend[p].at = "off" /\ HomeTypes
      /\ UNCHANGED <<cert, key, bearer, serving, bearers, ended, pinned, accepted, torn, doubled>>
  BY DEF H!Start, HomeInv, H!Stopped
<1>2. CASE cert # None /\ key # None /\ H!Goes(p, "load") /\ UNCHANGED <<pairs, raced>>
  <2>1. /\ backend' \in [Backend -> BackendType] /\ backend'[p].at = "load"
        /\ backend'[p].cache = backend[p].cache /\ \A q \in Backend : q # p => backend'[q] = backend[q]
    BY <1>1, <1>2, HomeGoes
  <2>2. HomeTypes'
    BY <1>1, <1>2, <2>1 DEF HomeTypes
  <2>3. HomeWork'
    BY <1>1, <2>1, WorkStays DEF H!Making
  <2>4. (raced \/ Files)'
    BY <1>1, <1>2, <2>1, FilesStay DEF H!Making
  <2>5. (doubled \/ Tokens)'
    BY <1>1, <2>1, TokensStay
  <2>6. QED
    BY <2>2, <2>3, <2>4, <2>5 DEF HomeInv
<1>3. CASE /\ cert = None \/ key = None
           /\ pairs < MaxPair /\ pairs' = pairs + 1
           /\ backend' = [backend EXCEPT ![p].at = "make", ![p].pair = pairs + 1]
           /\ raced' = (raced \/ \E q \in Backend \ {p} : backend[q].at \in H!Making)
  <2>1. pairs + 1 \in 1..MaxPair /\ pairs' \in 0..MaxPair
    BY <1>1, <1>3, PartsAssumption DEF HomeTypes, H!IdentityAssumption
  <2>2. PICK made : made = pairs + 1
    OBVIOUS
  <2>3. [backend[p] EXCEPT !.at = "make", !.pair = made] \in BackendType
    BY <1>1, <2>1, <2>2, PairsAre DEF HomeTypes, BackendType, H!Making
  <2>4. backend' = [backend EXCEPT ![p] = [backend[p] EXCEPT !.at = "make", !.pair = made]]
    BY <1>3, <2>2
  <2>5. /\ backend' \in [Backend -> BackendType] /\ backend'[p].at = "make" /\ backend'[p].pair = made
        /\ backend'[p].cache = backend[p].cache /\ \A q \in Backend : q # p => backend'[q] = backend[q]
    BY <1>1, <2>3, <2>4 DEF HomeTypes, BackendType
  <2>6. HomeTypes'
    BY <1>1, <2>1, <2>5 DEF HomeTypes
  <2>7. made # None
    BY <2>1, <2>2, PairsAre
  <2>8. HomeWork'
    BY <1>1, <2>5, <2>7 DEF HomeInv, HomeWork
  <2>9. cert = None
    BY <1>3 DEF HomeInv, HomeWork
  <2>10. (raced \/ Files)'
    <3> SUFFICES ASSUME ~raced' PROVE Files'
      OBVIOUS
    <3>1. ~raced /\ \A q \in Backend : q # p => backend[q].at \notin H!Making
      BY <1>3
    <3>2. Files
      BY <3>1 DEF HomeInv
    <3>3. \A q \in Backend : backend'[q].at \in H!Making => q = p
      BY <2>5, <3>1
    <3>4. QED
      BY <1>1, <2>5, <2>9, <3>2, <3>3, PairsAre DEF Files, H!Making
  <2>11. (doubled \/ Tokens)'
    BY <1>1, <2>5, TokensStay
  <2>12. QED
    BY <2>6, <2>8, <2>10, <2>11 DEF HomeInv
<1>4. QED
  BY <1>2, <1>3 DEF H!Start

\* ensure_cert goes on: the key, then the certificate.
LEMMA HomeMakes == ASSUME HomeInv, NEW p \in Backend, H!Make(p) PROVE HomeInv'
<1>1. HomeTypes /\ UNCHANGED <<bearer, serving, pairs, bearers, ended, pinned, accepted, torn, raced, doubled>>
  BY DEF H!Make, HomeInv
<1>3. PICK to \in {"key", "halfway", "cert", "load"} :
        /\ H!Goes(p, to)
        /\ to = "key" => backend[p].at = "make" /\ key' = Torn /\ cert' = cert
        /\ to = "halfway" => backend[p].at = "key" /\ key' = backend[p].pair /\ cert' = cert
        /\ to = "cert" => backend[p].at = "halfway" /\ cert' = Torn /\ key' = key
        /\ to = "load" => backend[p].at = "cert" /\ cert' = backend[p].pair /\ key' = key
  BY DEF H!Make, H!OpenKey, H!WriteKey, H!OpenCert, H!WriteCert
<1>4. /\ backend' \in [Backend -> BackendType] /\ backend'[p].at = to
      /\ backend'[p].pair = backend[p].pair /\ backend'[p].cache = backend[p].cache
      /\ \A q \in Backend : q # p => backend'[q] = backend[q]
  BY <1>1, <1>3, HomeGoes DEF H!Making
<1>5. backend[p].pair \in 1..MaxPair /\ backend[p].at \in H!Making /\ (backend[p].at # "make" => key # None)
  <2>1. backend[p].at \in H!Making
    BY <1>3 DEF H!Making
  <2>2. backend[p].pair \in H!Pair \ {Torn}
    BY <1>1 DEF HomeTypes, BackendType
  <2>3. QED
    BY <2>1, <2>2, PairsAre DEF HomeInv, HomeWork
<1>6. HomeTypes'
  BY <1>1, <1>3, <1>4, <1>5, PairsAre DEF HomeTypes
<1>7. key' # None /\ (cert' = cert \/ cert' # None)
  BY <1>3, <1>5, PairsAre
<1>8. HomeWork'
  BY <1>1, <1>4, <1>5, <1>7 DEF HomeInv, HomeWork
<1>9. (raced \/ Files)'
  <2> SUFFICES ASSUME ~raced PROVE Files'
    BY <1>1
  <2>1. Files
    BY DEF HomeInv
  <2>2. \A q \in Backend : q # p => backend[q].at \notin H!Making /\ backend'[q].at \notin H!Making
    BY <1>4, <1>5, <2>1 DEF Files
  <2>3. pinned = {}
    <3>1. cert \in {None, Torn}
      BY <1>5, <2>1 DEF Files, H!Making
    <3>2. QED
      BY <1>1, <2>1, <3>1, PairsAre DEF Files, HomeTypes
  <2>4. backend[p].at \in {"make", "key", "halfway"} => cert = None
    BY <2>1 DEF Files
  <2>5. /\ backend[p].at = "halfway" => key = backend[p].pair
        /\ backend[p].at = "cert" => cert = Torn /\ key = backend[p].pair
    BY <2>1 DEF Files
  <2>6. /\ backend'[p].at \in {"make", "key", "halfway"} => cert' = None
        /\ backend'[p].at = "halfway" => key' = backend'[p].pair
        /\ backend'[p].at = "cert" => cert' = Torn /\ key' = backend'[p].pair
        /\ cert' \notin {None, Torn} => key' = cert'
        /\ cert' = Torn => backend'[p].at = "cert"
    BY <1>3, <1>4, <1>5, <2>4, <2>5, PairsAre
  <2>7. QED
    BY <1>1, <2>2, <2>3, <2>6 DEF Files, H!Making
<1>10. (doubled \/ Tokens)'
  BY <1>1, <1>4, TokensStay
<1>11. QED
  BY <1>6, <1>8, <1>9, <1>10 DEF HomeInv

\* The socket, the announcement and the offers of a pairing.
LEMMA HomeServes ==
  ASSUME HomeInv, NEW p \in Backend, H!Load(p) \/ H!Announce(p) \/ H!OfferPairing(p) PROVE HomeInv'
<1>1. /\ HomeTypes /\ backend[p].at \notin H!Making
      /\ UNCHANGED <<cert, key, bearer, serving, pairs, bearers, ended, accepted, torn, raced, doubled>>
      /\ pinned' \in {pinned, pinned \cup H!Fingerprint}
  BY DEF H!Load, H!Announce, H!OfferPairing, HomeInv, H!Making
<1>2. \/ H!Goes(p, "loaded") \/ H!Goes(p, "serving")
      \/ backend' = [backend EXCEPT ![p] = H!Stopped]
      \/ UNCHANGED backend
  BY DEF H!Load, H!Announce, H!OfferPairing
<1>3. /\ backend' \in [Backend -> BackendType] /\ backend'[p].at \notin H!Making
      /\ backend'[p].cache \in {None, backend[p].cache}
      /\ \A q \in Backend : q # p => backend'[q] = backend[q]
  <2>1. CASE H!Goes(p, "loaded") \/ H!Goes(p, "serving")
    BY <1>1, <2>1, HomeGoes DEF H!Making
  <2>2. CASE backend' = [backend EXCEPT ![p] = H!Stopped]
    BY <1>1, <2>2, HomeStops DEF H!Making
  <2>3. CASE UNCHANGED backend
    BY <1>1, <2>3 DEF HomeTypes
  <2>4. QED
    BY <1>2, <2>1, <2>2, <2>3
<1>4. pinned' \subseteq 1..MaxPair
  BY <1>1, PairsAre DEF HomeTypes, H!Fingerprint
<1>5. HomeTypes'
  BY <1>1, <1>3, <1>4 DEF HomeTypes
<1>6. HomeWork'
  BY <1>1, <1>3, WorkStays
<1>7. (raced \/ Files)'
  BY <1>1, <1>3, FilesStay
<1>8. (doubled \/ Tokens)'
  BY <1>1, <1>3, TokensStay
<1>9. QED
  BY <1>5, <1>6, <1>7, <1>8 DEF HomeInv

LEMMA HomeDies == ASSUME HomeInv, NEW p \in Backend, H!Dies(p) PROVE HomeInv'
<1>1. /\ HomeTypes /\ UNCHANGED <<cert, key, bearer, pairs, bearers, pinned, accepted, raced, doubled>>
      /\ backend' = [backend EXCEPT ![p] = H!Stopped]
      /\ torn' = (torn \/ backend[p].at = "cert")
      /\ serving' = [h \in Request |-> IF serving[h].of = p THEN H!Served ELSE serving[h]]
  BY DEF H!Dies, HomeInv
<1>2. /\ backend' \in [Backend -> BackendType] /\ backend'[p].at = "off" /\ backend'[p].cache = None
      /\ \A q \in Backend : q # p => backend'[q] = backend[q]
  BY <1>1, HomeStops
<1>3. H!Served \in ServedType /\ H!Served.at = "none"
  BY PairsAre DEF H!Served, ServedType
<1>4. \A h \in Request : serving'[h] \in {H!Served, serving[h]}
  BY <1>1
<1>5. HomeTypes'
  <2>1. serving' \in [Request -> ServedType]
    BY <1>1, <1>3 DEF HomeTypes
  <2>2. QED
    BY <1>1, <1>2, <2>1 DEF HomeTypes
<1>6. HomeWork'
  BY <1>1, <1>2, <1>3, <1>4 DEF HomeInv, HomeWork, H!Making
<1>7. (raced \/ Files)'
  <2> SUFFICES ASSUME ~raced PROVE Files'
    BY <1>1
  <2>1. Files
    BY DEF HomeInv
  <2>2. \A q \in Backend : backend'[q].at \in H!Making => q # p /\ backend'[q] = backend[q]
    BY <1>2 DEF H!Making
  <2>3. cert = Torn => torn' \/ \E q \in Backend : backend'[q].at = "cert"
    BY <1>1, <1>2, <2>1 DEF Files
  <2>4. QED
    BY <1>1, <2>1, <2>2, <2>3 DEF Files, H!Making
<1>8. (doubled \/ Tokens)'
  BY <1>1, <1>2, <1>4 DEF HomeInv, Tokens
<1>9. QED
  BY <1>5, <1>6, <1>7, <1>8 DEF HomeInv

\* The caches change and nothing else of the processes.
LEMMA FilesOfTokens ==
  ASSUME HomeInv, UNCHANGED <<cert, key, pinned, torn, raced>>,
         \A q \in Backend : backend'[q].at = backend[q].at /\ backend'[q].pair = backend[q].pair
  PROVE  (raced \/ Files)'
BY DEF HomeInv, Files

\* A request ends with a token.
LEMMA HomeHolds ==
  ASSUME HomeTypes, NEW h \in Request, NEW p \in Backend, NEW token \in 1..MaxToken, H!Holds(h, p, token)
  PROVE  /\ backend' \in [Backend -> BackendType] /\ serving' \in [Request -> ServedType]
         /\ backend'[p].cache = token /\ \A q \in Backend : q # p => backend'[q] = backend[q]
         /\ \A q \in Backend : backend'[q].at = backend[q].at /\ backend'[q].pair = backend[q].pair
         /\ serving'[h] = H!Served /\ \A g \in Request : g # h => serving'[g] = serving[g]
         /\ accepted' = accepted \cup {token} /\ accepted' \subseteq 1..MaxToken
<1>1. backend \in [Backend -> BackendType] /\ backend[p] \in BackendType /\ serving \in [Request -> ServedType]
  BY DEF HomeTypes
<1>2. [backend[p] EXCEPT !.cache = token] \in BackendType
  BY <1>1, PairsAre DEF BackendType
<1>3. backend' = [backend EXCEPT ![p] = [backend[p] EXCEPT !.cache = token]]
  BY DEF H!Holds
<1>4. /\ backend' \in [Backend -> BackendType]
      /\ backend'[p].cache = token /\ backend'[p].at = backend[p].at /\ backend'[p].pair = backend[p].pair
      /\ \A q \in Backend : q # p => backend'[q] = backend[q]
  BY <1>1, <1>2, <1>3 DEF BackendType
<1>5. H!Served \in ServedType
  BY PairsAre DEF H!Served, ServedType
<1>6. serving' \in [Request -> ServedType] /\ serving'[h] = H!Served
      /\ \A g \in Request : g # h => serving'[g] = serving[g]
  BY <1>1, <1>5 DEF H!Holds
<1>7. accepted' = accepted \cup {token} /\ accepted' \subseteq 1..MaxToken
  BY DEF H!Holds, HomeTypes
<1>8. QED
  BY <1>4, <1>6, <1>7

LEMMA HomeReads == ASSUME HomeInv, NEW h \in Request, NEW p \in Backend, H!Read(h, p) PROVE HomeInv'
<1>1. /\ HomeTypes /\ serving[h] = H!Served
      /\ UNCHANGED <<cert, key, bearer, pairs, ended, pinned, torn, raced>>
  BY DEF H!Read, HomeInv
<1>2. H!Served.at = "none"
  BY DEF H!Served
<1>c. backend[p].cache \in {None} \cup 1..MaxToken /\ bearer \in {None, Torn} \cup 1..MaxToken
  BY <1>1, PairsAre DEF HomeTypes, BackendType
<1>3. CASE /\ backend[p].cache # None \/ bearer \notin {None, Torn}
           /\ H!Holds(h, p, IF backend[p].cache # None THEN backend[p].cache ELSE bearer)
           /\ UNCHANGED <<bearers, doubled>>
  <2>1. PICK token : token = IF backend[p].cache # None THEN backend[p].cache ELSE bearer
    OBVIOUS
  <2>2. token \in 1..MaxToken /\ H!Holds(h, p, token)
    BY <1>3, <1>c, <2>1
  <2>3. /\ backend' \in [Backend -> BackendType] /\ serving' \in [Request -> ServedType]
        /\ backend'[p].cache = token /\ \A q \in Backend : q # p => backend'[q] = backend[q]
        /\ \A q \in Backend : backend'[q].at = backend[q].at /\ backend'[q].pair = backend[q].pair
        /\ serving'[h] = H!Served /\ \A g \in Request : g # h => serving'[g] = serving[g]
        /\ accepted' = accepted \cup {token} /\ accepted' \subseteq 1..MaxToken
    BY <1>1, <2>2, HomeHolds
  <2>4. HomeTypes'
    BY <1>1, <1>3, <2>3 DEF HomeTypes
  <2>5. HomeWork'
    BY <1>1, <1>2, <2>3 DEF HomeInv, HomeWork
  <2>6. (raced \/ Files)'
    BY <1>1, <2>3, FilesOfTokens
  <2>7. (doubled \/ Tokens)'
    <3> SUFFICES ASSUME ~doubled PROVE Tokens'
      BY <1>3
    <3>1. Tokens
      BY DEF HomeInv
    <3>2. token = bearer
      BY <2>1, <2>2, <1>c, <3>1 DEF Tokens
    <3>3. \A g \in Request : serving[g] = H!Served
      BY <1>3, <1>c, <2>1, <2>2, <3>1, <3>2 DEF Tokens
    <3>4. QED
      BY <1>1, <2>3, <3>1, <3>2, <3>3 DEF Tokens
  <2>8. QED
    BY <2>4, <2>5, <2>6, <2>7 DEF HomeInv
<1>4. CASE /\ backend[p].cache = None /\ bearer \in {None, Torn}
           /\ bearers < MaxToken /\ bearers' = bearers + 1
           /\ serving' = [serving EXCEPT ![h] = [of |-> p, at |-> "open", new |-> bearers + 1]]
           /\ doubled' = (doubled \/ \E other \in Request : serving[other] # H!Served)
           /\ UNCHANGED <<backend, accepted>>
  <2>1. bearers + 1 \in 1..MaxToken /\ bearers' \in 0..MaxToken
    BY <1>1, <1>4, PartsAssumption DEF HomeTypes, H!IdentityAssumption
  <2>2. PICK made : made = bearers + 1
    OBVIOUS
  <2>3. PICK asking : asking = [of |-> p, at |-> "open", new |-> made]
    OBVIOUS
  <2>4. asking \in ServedType /\ asking.of = p /\ asking.new # None
    BY <2>1, <2>2, <2>3, PairsAre DEF ServedType
  <2>5. /\ serving' \in [Request -> ServedType] /\ serving'[h] = asking
        /\ \A g \in Request : g # h => serving'[g] = serving[g]
    BY <1>1, <1>4, <2>2, <2>3, <2>4 DEF HomeTypes
  <2>6. HomeTypes'
    BY <1>1, <1>4, <2>1, <2>5 DEF HomeTypes
  <2>7. HomeWork'
    BY <1>1, <1>4, <2>4, <2>5 DEF HomeInv, HomeWork
  <2>8. (raced \/ Files)'
    BY <1>1, <1>4, FilesOfTokens
  <2>9. (doubled \/ Tokens)'
    <3> SUFFICES ASSUME ~doubled' PROVE Tokens'
      OBVIOUS
    <3>1. ~doubled /\ \A g \in Request : serving[g] = H!Served
      BY <1>4
    <3>2. Tokens
      BY <3>1 DEF HomeInv
    <3>3. \A g, k \in Request : serving'[g] # H!Served /\ serving'[k] # H!Served => g = k
      BY <2>5, <3>1
    <3>4. accepted = {}
      BY <1>1, <1>4, <3>2, PairsAre DEF Tokens, HomeTypes
    <3>5. ASSUME NEW q \in Backend PROVE backend[q].cache = None
      <4>1. backend[q].cache \in {None} \cup 1..MaxToken
        BY <1>1, PairsAre DEF HomeTypes, BackendType
      <4>2. QED
        BY <1>4, <3>2, <4>1, PairsAre DEF Tokens
    <3>6. QED
      BY <1>1, <1>4, <3>2, <3>3, <3>4, <3>5 DEF Tokens
  <2>10. QED
    BY <2>6, <2>7, <2>8, <2>9 DEF HomeInv
<1>5. QED
  BY <1>3, <1>4 DEF H!Read

LEMMA HomeWrites ==
  ASSUME HomeInv, NEW h \in Request, H!OpenToken(h) \/ H!WriteToken(h) \/ H!NotWritten(h) PROVE HomeInv'
<1>1. /\ HomeTypes /\ serving[h].at \in {"open", "write"}
      /\ UNCHANGED <<cert, key, pairs, bearers, ended, pinned, torn, raced>>
  BY DEF H!OpenToken, H!WriteToken, H!NotWritten, HomeInv
<1>2. H!Served.at = "none"
  BY DEF H!Served
<1>3. serving[h] # H!Served /\ serving[h] \in ServedType
  BY <1>1, <1>2 DEF HomeTypes
<1>4. serving[h].new \in 1..MaxToken /\ serving[h].of \in Backend
  <2>1. serving[h].new \in H!Bearer \ {Torn}
    BY <1>3 DEF ServedType
  <2>2. QED
    BY <1>1, <2>1, PairsAre DEF HomeInv, HomeWork
<1>5. ~doubled => /\ accepted = {} /\ (\A p \in Backend : backend[p].cache = None)
                  /\ \A g \in Request : g # h => serving[g] = H!Served
  BY <1>3 DEF HomeInv, Tokens
<1>6. CASE H!OpenToken(h)
  <2>1. /\ bearer' = Torn /\ UNCHANGED <<backend, accepted, doubled>>
        /\ serving' = [serving EXCEPT ![h] = [serving[h] EXCEPT !.at = "write"]]
    BY <1>6 DEF H!OpenToken
  <2>2. PICK asking : asking = [serving[h] EXCEPT !.at = "write"]
    OBVIOUS
  <2>3. asking \in ServedType /\ asking.new = serving[h].new /\ asking.of = serving[h].of
    BY <1>3, <2>2 DEF ServedType
  <2>4. /\ serving' \in [Request -> ServedType] /\ serving'[h] = asking
        /\ \A g \in Request : g # h => serving'[g] = serving[g]
    BY <1>1, <2>1, <2>2, <2>3 DEF HomeTypes
  <2>5. HomeTypes'
    BY <1>1, <2>1, <2>4, PairsAre DEF HomeTypes
  <2>6. HomeWork'
    BY <1>1, <1>4, <2>1, <2>3, <2>4, PairsAre DEF HomeInv, HomeWork
  <2>7. (raced \/ Files)'
    BY <1>1, <2>1, FilesOfTokens
  <2>8. (doubled \/ Tokens)'
    <3> SUFFICES ASSUME ~doubled PROVE Tokens'
      BY <2>1
    <3>1. QED
      BY <1>5, <2>1, <2>4 DEF Tokens
  <2>9. QED
    BY <2>5, <2>6, <2>7, <2>8 DEF HomeInv
<1>7. CASE H!WriteToken(h) \/ H!NotWritten(h)
  <2>1. /\ H!Holds(h, serving[h].of, serving[h].new)
        /\ \/ bearer' = serving[h].new /\ doubled' = doubled
           \/ bearer' = bearer /\ doubled' = TRUE
    BY <1>7 DEF H!WriteToken, H!NotWritten
  <2>2. PICK p \in Backend, token \in 1..MaxToken : p = serving[h].of /\ token = serving[h].new
    BY <1>4
  <2>3. /\ backend' \in [Backend -> BackendType] /\ serving' \in [Request -> ServedType]
        /\ backend'[p].cache = token /\ \A q \in Backend : q # p => backend'[q] = backend[q]
        /\ \A q \in Backend : backend'[q].at = backend[q].at /\ backend'[q].pair = backend[q].pair
        /\ serving'[h] = H!Served /\ \A g \in Request : g # h => serving'[g] = serving[g]
        /\ accepted' = accepted \cup {token} /\ accepted' \subseteq 1..MaxToken
    BY <1>1, <2>1, <2>2, HomeHolds
  <2>4. HomeTypes'
    BY <1>1, <1>4, <2>1, <2>3, PairsAre DEF HomeTypes
  <2>5. HomeWork'
    BY <1>1, <1>2, <2>3 DEF HomeInv, HomeWork
  <2>6. (raced \/ Files)'
    BY <1>1, <2>3, FilesOfTokens
  <2>7. (doubled \/ Tokens)'
    <3> SUFFICES ASSUME ~doubled' PROVE Tokens'
      OBVIOUS
    <3>1. ~doubled /\ bearer' = token
      BY <2>1, <2>2
    <3>2. QED
      BY <1>5, <2>3, <3>1 DEF Tokens
  <2>8. QED
    BY <2>4, <2>5, <2>6, <2>7 DEF HomeInv
<1>8. QED
  BY <1>6, <1>7

LEMMA HomeStep == HomeInv /\ [H!Next]_(H!identityVars) => HomeInv'
<1> SUFFICES ASSUME HomeInv, [H!Next]_(H!identityVars) PROVE HomeInv'
  OBVIOUS
<1>1. CASE UNCHANGED H!identityVars
  BY <1>1 DEF H!identityVars, HomeInv, HomeTypes, HomeWork, Files, Tokens
<1>2. QED
  BY <1>1, HomeStarts, HomeMakes, HomeServes, HomeDies, HomeReads, HomeWrites DEF H!Next

LEMMA HomeLasts == HomeInv => H!IdentityLasts
<1> SUFFICES ASSUME HomeInv PROVE H!IdentityLasts
  OBVIOUS
<1>1. ASSUME ~raced
      PROVE  /\ \A f \in pinned : cert = f /\ key = f
             /\ ~torn /\ (\A p \in Backend : backend[p].at \notin H!Making) => H!Loadable \/ cert = None \/ key = None
  <2>1. Files
    BY <1>1 DEF HomeInv
  <2>2. pinned \subseteq 1..MaxPair
    BY DEF HomeInv, HomeTypes
  <2>3. \A f \in pinned : cert = f /\ key = f
    BY <2>1, <2>2, PairsAre DEF Files
  <2>4. ~torn /\ (\A p \in Backend : backend[p].at \notin H!Making) => H!Loadable \/ cert = None
    BY <2>1 DEF Files, H!Loadable, H!Making
  <2>5. QED
    BY <2>3, <2>4
<1>2. ASSUME ~doubled
      PROVE  (\A t \in accepted : bearer = t) /\ \A p \in Backend : backend[p].cache \in {None, bearer}
  BY <1>2 DEF HomeInv, Tokens
<1>3. QED
  BY <1>1, <1>2 DEF H!IdentityLasts

LEMMA HomeAlone ==
  /\ Init /\ part = "home" => H!Init
  /\ [Next]_vars /\ part = "home" => [H!Next]_(H!identityVars)
<1>1. Init /\ part = "home" => H!Init
  BY DEF Init
<1>2. ASSUME part = "home", Next PROVE H!Next
  BY <1>2 DEF Next, Only, Config, Install, Session, Access, Review, Zones, Desk, Pull, Join, Home, Choice, H!Next
<1>3. QED
  BY <1>1, <1>2 DEF vars, identity, H!identityVars

\* For any number of devices, threads and starts: the status of a join is that of the one
\* search, and only an approved payload is applied; what was pinned is what a home serves,
\* unless two processes made a certificate at once, and it can start, unless one died inside
\* the write of the certificate too; the token accepted once stays, unless another was made
\* beside it or could not be written (api/join.py, api/tls.py ensure_cert, api/access.py
\* resolve_token).
THEOREM ArrivalsTell == Spec => []ArrivesAsItself
<1> DEFINE Inv == (part = "join" => JoinInv) /\ (part = "home" => HomeInv)
<1>1. Init => Inv
  BY JoinAlone, JoinInit, HomeAlone, HomeInit
<1>2. Inv /\ [Next]_vars => Inv'
  BY PartStays, JoinAlone, JoinStep, HomeAlone, HomeStep
<1>3. Inv => ArrivesAsItself
  BY JoinTells, HomeLasts DEF ArrivesAsItself
<1> HIDE DEF Inv
<1>4. QED
  BY <1>1, <1>2, <1>3, PTL DEF Spec

-----------------------------------------------------------------------------
(***************************************************************************)
(* The settings.  A setter that is alone has read what was acknowledged,   *)
(* writes an inode that is not the file of the settings, and renames what  *)
(* it has written.                                                         *)
(***************************************************************************)
SettingTypes ==
  /\ file \in C!Inode \cup {None} /\ tmp \in C!Inode \cup {None}
  /\ text \in [C!Inode -> C!Settings \cup {C!NoJson}] /\ fd \in [Request -> C!Inode \cup {None}]
  /\ step \in [Request -> {"idle", "loaded", "open", "written", "applying"}]
  /\ draft \in [Request -> C!Draft] /\ saved \in C!Settings
Setter(r) ==
  /\ step[r] \in {"loaded", "open", "written"} =>
       draft[r].data = [saved EXCEPT ![draft[r].field] = draft[r].data[draft[r].field]]
  /\ step[r] = "open" => tmp # None /\ fd[r] = tmp /\ text[tmp] = C!NoJson
  /\ step[r] # "open" => fd[r] = None
  /\ step[r] = "written" => tmp # None /\ text[tmp] = draft[r].data
  /\ step[r] = "applying" => draft[r].data = saved
OneSetter == \A r, q \in Request : step[r] # "idle" /\ step[q] # "idle" => r = q
CoreTold == forced \/ switch = C!FetchResources(saved) \/ \E r \in Request : step[r] = "applying"
AloneWrites ==
  /\ SettingTypes /\ OneSetter /\ (\A r \in Request : Setter(r))
  /\ (tmp # None => tmp # file) /\ C!Load = saved /\ CoreTold
ConfigInv == overlapped \/ AloneWrites

\* There is always an inode that is not the file of the settings.
LEMMA InodeLeft == ASSUME NEW f PROVE \E i \in C!Inode : i # f /\ i # None
<1>1. C!Cardinality(Request) = Cardinality(Request)
  BY DEF C!Cardinality, Cardinality
<1>2. Cardinality(Request) \in Nat
  BY PartsAssumption, FS_CardinalityType DEF C!ConfigAssumption, C!IsFiniteSet, IsFiniteSet
<1>3. 1 \in C!Inode /\ 2 \in C!Inode /\ C!Inode \subseteq Nat
  BY <1>1, <1>2 DEF C!Inode
<1>4. None \notin C!Inode
  BY <1>3, PartsAssumption DEF C!ConfigAssumption
<1>5. QED
  BY <1>3, <1>4

\* No settings are torn.
LEMMA NotTorn ==
  /\ C!NoJson \notin C!Settings /\ C!Nothing \in C!Settings /\ None \notin C!Inode
  /\ {"instance_id", "fetch_resources"} \subseteq Field
<1>1. "instance_id" \in Field /\ {"instance_id", "fetch_resources"} \subseteq Field
  BY PartsAssumption DEF C!ConfigAssumption
<1>2. DOMAIN C!NoJson = {}
  BY DEF C!NoJson
<1>3. \A s \in C!Settings : DOMAIN s = Field
  BY DEF C!Settings
<1>4. C!Nothing \in C!Settings
  BY DEF C!Nothing, C!Settings
<1>5. None \notin C!Inode
  <2>1. C!Cardinality(Request) = Cardinality(Request)
    BY DEF C!Cardinality, Cardinality
  <2>2. Cardinality(Request) \in Nat
    BY PartsAssumption, FS_CardinalityType DEF C!ConfigAssumption, C!IsFiniteSet, IsFiniteSet
  <2>3. C!Inode \subseteq Nat
    BY <2>1, <2>2 DEF C!Inode
  <2>4. QED
    BY <2>3, PartsAssumption DEF C!ConfigAssumption
<1>6. QED
  BY <1>1, <1>2, <1>3, <1>4, <1>5

LEMMA ConfigInit == C!Init => ConfigInv
<1> SUFFICES ASSUME C!Init PROVE AloneWrites
  BY DEF ConfigInv
<1>1. C!Blank \in C!Draft
  BY NotTorn DEF C!Blank, C!Draft
<1>2. SettingTypes
  BY <1>1, NotTorn DEF C!Init, SettingTypes
<1>3. OneSetter /\ \A r \in Request : Setter(r)
  BY DEF C!Init, OneSetter, Setter
<1>4. C!Load = saved /\ (tmp # None => tmp # file)
  BY DEF C!Init, C!Load
<1>5. CoreTold
  <2>1. saved["fetch_resources"] = None
    BY NotTorn DEF C!Init, C!Nothing
  <2>2. switch = FetchByDefault
    BY DEF C!Init
  <2>3. QED
    BY <2>1, <2>2 DEF CoreTold, C!FetchResources
<1>6. QED
  BY <1>2, <1>3, <1>4, <1>5 DEF AloneWrites

\* What the settings hold stays, when their file does.
LEMMA LoadStays ==
  ASSUME SettingTypes, UNCHANGED file, file # None => text'[file] = text[file]
  PROVE  C!Load' = C!Load
BY DEF C!Load, SettingTypes

\* A name or a writer keeps what its inode holds.
LEMMA FreedKeeps ==
  ASSUME NEW t \in [C!Inode -> C!Settings \cup {C!NoJson}], NEW named, NEW writers
  PROVE  /\ C!Freed(t, named, writers) \in [C!Inode -> C!Settings \cup {C!NoJson}]
         /\ \A i \in C!Inode : i \in named => C!Freed(t, named, writers)[i] = t[i]
BY DEF C!Freed

LEMMA ConfigBegins ==
  ASSUME AloneWrites, NEW r \in Request, NEW f \in Field, NEW v \in Value \cup {None}, C!Begin(r, f, v), ~overlapped'
  PROVE  AloneWrites'
<1>1. /\ UNCHANGED <<file, tmp, text, fd, switch, saved, forced>>
      /\ step[r] = "idle" /\ step' = [step EXCEPT ![r] = "loaded"]
      /\ draft' = [draft EXCEPT ![r] = [data |-> [C!Load EXCEPT ![f] = v], field |-> f]]
      /\ \A q \in Request : step[q] = "idle"
  BY DEF C!Begin
<1>2. SettingTypes /\ C!Load = saved
  BY DEF AloneWrites
<1>3. PICK data : data = [saved EXCEPT ![f] = v]
  OBVIOUS
<1>4. data \in C!Settings /\ data = [saved EXCEPT ![f] = data[f]]
  BY <1>2, <1>3 DEF SettingTypes, C!Settings
<1>5. PICK d : d = [data |-> data, field |-> f]
  OBVIOUS
<1>6. d \in C!Draft /\ d.data = data /\ d.field = f
  BY <1>4, <1>5 DEF C!Draft
<1>7. draft' = [draft EXCEPT ![r] = d]
  BY <1>1, <1>2, <1>3, <1>5
<1>8. SettingTypes'
  BY <1>1, <1>2, <1>6, <1>7 DEF SettingTypes
<1>9. step'[r] = "loaded" /\ draft'[r] = d /\ \A q \in Request : q # r => step'[q] = "idle"
  BY <1>1, <1>2, <1>7 DEF SettingTypes
<1>10. OneSetter'
  BY <1>9 DEF OneSetter
<1>11. \A q \in Request : fd[q] = None
  BY <1>1 DEF AloneWrites, Setter
<1>12. ASSUME NEW q \in Request PROVE Setter(q)'
  <2>1. CASE q = r
    BY <1>1, <1>4, <1>6, <1>9, <1>11, <2>1 DEF Setter
  <2>2. CASE q # r
    BY <1>1, <1>9, <1>11, <2>2 DEF Setter
  <2>3. QED
    BY <2>1, <2>2
<1>13. C!Load' = saved' /\ (tmp' # None => tmp' # file')
  BY <1>1, <1>2, LoadStays DEF AloneWrites
<1>14. CoreTold'
  <2>1. forced \/ switch = C!FetchResources(saved)
    BY <1>1 DEF AloneWrites, CoreTold
  <2>2. QED
    BY <1>1, <2>1 DEF CoreTold, C!FetchResources
<1>15. QED
  BY <1>8, <1>10, <1>12, <1>13, <1>14 DEF AloneWrites

\* A setter at work goes to another step, the others being idle: what it owes to AloneWrites.
LEMMA SetterGoes ==
  ASSUME AloneWrites, NEW r \in Request, step[r] # "idle",
         NEW to \in {"idle", "loaded", "open", "written", "applying"}, step' = [step EXCEPT ![r] = to],
         \A q \in Request : q # r => fd'[q] = fd[q]
  PROVE  /\ step' \in [Request -> {"idle", "loaded", "open", "written", "applying"}] /\ step'[r] = to
         /\ OneSetter' /\ \A q \in Request : q # r => Setter(q)' /\ step[q] = "idle" /\ step'[q] = "idle"
<1>1. /\ step' \in [Request -> {"idle", "loaded", "open", "written", "applying"}] /\ step'[r] = to
      /\ \A q \in Request : q # r => step[q] = "idle" /\ step'[q] = "idle"
  BY DEF AloneWrites, SettingTypes, OneSetter
<1>2. \A q \in Request : q # r => fd'[q] = None
  BY <1>1 DEF AloneWrites, Setter
<1>3. QED
  BY <1>1, <1>2 DEF OneSetter, Setter

LEMMA ConfigOpens == ASSUME AloneWrites, NEW r \in Request, C!OpenTmp(r) PROVE AloneWrites'
<1>1. PICK i : i = IF tmp = None THEN C!NewInode ELSE tmp
  OBVIOUS
<1>2. /\ step[r] = "loaded" /\ tmp' = i /\ fd' = [fd EXCEPT ![r] = i] /\ text' = [text EXCEPT ![i] = C!NoJson]
      /\ step' = [step EXCEPT ![r] = "open"]
      /\ UNCHANGED <<file, draft, switch, saved, forced>>
  BY <1>1 DEF C!OpenTmp
<1>3. SettingTypes /\ (tmp # None => tmp # file)
  BY DEF AloneWrites
<1>4. \A q \in Request : fd[q] = None
  BY <1>2 DEF AloneWrites, OneSetter, Setter
<1>5. i \in C!Inode /\ i # file
  <2>1. CASE tmp # None
    BY <1>1, <1>3, <2>1 DEF SettingTypes
  <2>2. CASE tmp = None
    <3>1. \E j \in C!Inode : j \notin {file, tmp} \cup {fd[q] : q \in Request}
      BY <1>4, <2>2, InodeLeft
    <3>2. C!NewInode \in C!Inode /\ C!NewInode # file
      BY <3>1 DEF C!NewInode
    <3>3. QED
      BY <1>1, <2>2, <3>2
  <2>3. QED
    BY <2>1, <2>2
<1>6. fd' \in [Request -> C!Inode \cup {None}] /\ fd'[r] = i /\ \A q \in Request : q # r => fd'[q] = fd[q]
  BY <1>2, <1>3, <1>5 DEF SettingTypes
<1>7. text' \in [C!Inode -> C!Settings \cup {C!NoJson}] /\ text'[i] = C!NoJson
      /\ (file # None => text'[file] = text[file])
  BY <1>2, <1>3, <1>5 DEF SettingTypes
<1>8. /\ step' \in [Request -> {"idle", "loaded", "open", "written", "applying"}] /\ step'[r] = "open"
      /\ OneSetter' /\ \A q \in Request : q # r => Setter(q)' /\ step[q] = "idle" /\ step'[q] = "idle"
  BY <1>2, <1>6, SetterGoes
<1>9. SettingTypes'
  BY <1>2, <1>3, <1>5, <1>6, <1>7, <1>8 DEF SettingTypes
<1>10. Setter(r)'
  <2>1. draft[r].data = [saved EXCEPT ![draft[r].field] = draft[r].data[draft[r].field]]
    BY <1>2 DEF AloneWrites, Setter
  <2>2. tmp' # None
    BY <1>2, <1>5, NotTorn
  <2>3. QED
    BY <1>2, <1>6, <1>7, <1>8, <2>1, <2>2 DEF Setter
<1>11. C!Load' = saved' /\ (tmp' # None => tmp' # file')
  BY <1>2, <1>3, <1>5, <1>7, LoadStays DEF AloneWrites
<1>12. CoreTold'
  <2>1. forced \/ switch = C!FetchResources(saved)
    BY <1>2, <1>8 DEF AloneWrites, CoreTold
  <2>2. QED
    BY <1>2, <2>1 DEF CoreTold, C!FetchResources
<1>13. QED
  BY <1>8, <1>9, <1>10, <1>11, <1>12 DEF AloneWrites

LEMMA ConfigWrites == ASSUME AloneWrites, NEW r \in Request, C!WriteTmp(r) PROVE AloneWrites'
<1>1. /\ step[r] = "open" /\ fd' = [fd EXCEPT ![r] = None] /\ step' = [step EXCEPT ![r] = "written"]
      /\ UNCHANGED <<file, tmp, draft, switch, saved, forced>>
  BY DEF C!WriteTmp
<1>2. SettingTypes /\ Setter(r) /\ (tmp # None => tmp # file)
  BY DEF AloneWrites
<1>3. /\ tmp # None /\ fd[r] = tmp /\ text[tmp] = C!NoJson /\ tmp \in C!Inode /\ tmp # file
      /\ draft[r].data = [saved EXCEPT ![draft[r].field] = draft[r].data[draft[r].field]]
  BY <1>1, <1>2 DEF Setter, SettingTypes
<1>4. PICK data : data = draft[r].data
  OBVIOUS
<1>5. data \in C!Settings
  BY <1>2, <1>4 DEF SettingTypes, C!Draft
<1>6. PICK t : t = [text EXCEPT ![tmp] = data]
  OBVIOUS
<1>7. text' = C!Freed(t, {file, tmp}, Request \ {r})
  BY <1>3, <1>4, <1>6 DEF C!WriteTmp
<1>8. t \in [C!Inode -> C!Settings \cup {C!NoJson}] /\ t[tmp] = data /\ (file # None => t[file] = text[file])
  BY <1>2, <1>3, <1>5, <1>6 DEF SettingTypes
<1>9. /\ text' \in [C!Inode -> C!Settings \cup {C!NoJson}] /\ text'[tmp] = data
      /\ (file # None => text'[file] = text[file])
  BY <1>2, <1>3, <1>7, <1>8, FreedKeeps DEF SettingTypes
<1>10. fd' \in [Request -> C!Inode \cup {None}] /\ fd'[r] = None /\ \A q \in Request : q # r => fd'[q] = fd[q]
  BY <1>1, <1>2 DEF SettingTypes
<1>11. /\ step' \in [Request -> {"idle", "loaded", "open", "written", "applying"}] /\ step'[r] = "written"
       /\ OneSetter' /\ \A q \in Request : q # r => Setter(q)' /\ step[q] = "idle" /\ step'[q] = "idle"
  BY <1>1, <1>10, SetterGoes
<1>12. SettingTypes'
  BY <1>1, <1>2, <1>9, <1>10, <1>11 DEF SettingTypes
<1>13. Setter(r)'
  BY <1>1, <1>3, <1>4, <1>9, <1>10, <1>11 DEF Setter
<1>14. C!Load' = saved' /\ (tmp' # None => tmp' # file')
  BY <1>1, <1>2, <1>9, LoadStays DEF AloneWrites
<1>15. CoreTold'
  <2>1. forced \/ switch = C!FetchResources(saved)
    BY <1>1, <1>11 DEF AloneWrites, CoreTold
  <2>2. QED
    BY <1>1, <2>1 DEF CoreTold, C!FetchResources
<1>16. QED
  BY <1>11, <1>12, <1>13, <1>14, <1>15 DEF AloneWrites

LEMMA ConfigReplaces == ASSUME AloneWrites, NEW r \in Request, C!Replace(r) PROVE AloneWrites'
<1>1. PICK to \in {"idle", "applying"} : to = IF draft[r].field = "fetch_resources" THEN "applying" ELSE "idle"
  OBVIOUS
<1>2. /\ step[r] = "written" /\ tmp # None /\ file' = tmp /\ tmp' = None
      /\ text' = C!Freed(text, {tmp}, Request)
      /\ saved' = [saved EXCEPT ![draft[r].field] = draft[r].data[draft[r].field]]
      /\ step' = [step EXCEPT ![r] = to]
      /\ draft' = IF step'[r] = "idle" THEN [draft EXCEPT ![r] = C!Blank] ELSE draft
      /\ UNCHANGED <<fd, switch, forced>>
  BY <1>1 DEF C!Replace
<1>3. SettingTypes /\ Setter(r)
  BY DEF AloneWrites
<1>4. saved' = draft[r].data /\ text[tmp] = draft[r].data /\ fd[r] = None /\ tmp \in C!Inode
  BY <1>2, <1>3 DEF Setter, SettingTypes
<1>5. /\ step' \in [Request -> {"idle", "loaded", "open", "written", "applying"}] /\ step'[r] = to
      /\ OneSetter' /\ \A q \in Request : q # r => Setter(q)' /\ step[q] = "idle" /\ step'[q] = "idle"
  BY <1>2, SetterGoes
<1>6. draft[r] \in C!Draft /\ draft[r].data \in C!Settings /\ draft[r].field \in Field
  BY <1>3 DEF SettingTypes, C!Draft
<1>7. C!Blank \in C!Draft
  BY NotTorn DEF C!Blank, C!Draft
<1>8. text' \in [C!Inode -> C!Settings \cup {C!NoJson}] /\ text'[tmp] = text[tmp]
  BY <1>2, <1>3, <1>4, FreedKeeps DEF SettingTypes
<1>9. draft' \in [Request -> C!Draft] /\ (to = "applying" => draft'[r] = draft[r])
  <2>1. CASE to = "idle"
    BY <1>2, <1>3, <1>5, <1>7, <2>1 DEF SettingTypes
  <2>2. CASE to = "applying"
    BY <1>2, <1>3, <1>5, <2>2 DEF SettingTypes
  <2>3. QED
    BY <1>1, <2>1, <2>2
<1>10. SettingTypes'
  BY <1>2, <1>3, <1>4, <1>5, <1>6, <1>8, <1>9 DEF SettingTypes
<1>11. Setter(r)'
  BY <1>1, <1>2, <1>4, <1>5, <1>9 DEF Setter
<1>12. C!Load' = saved'
  <2>1. text'[file'] # C!NoJson /\ file' # None /\ text'[file'] = saved'
    BY <1>2, <1>4, <1>6, <1>8, NotTorn
  <2>2. QED
    BY <2>1 DEF C!Load
<1>13. CoreTold'
  <2>1. CASE to = "applying"
    BY <1>5, <2>1 DEF CoreTold
  <2>2. CASE to = "idle"
    <3>1. draft[r].field # "fetch_resources"
      BY <1>1, <2>2
    <3>2. saved'["fetch_resources"] = saved["fetch_resources"]
      BY <1>2, <1>3, <3>1, NotTorn DEF SettingTypes, C!Settings
    <3>3. forced \/ switch = C!FetchResources(saved)
      BY <1>2, <1>5 DEF AloneWrites, CoreTold
    <3>4. QED
      BY <1>2, <3>2, <3>3 DEF CoreTold, C!FetchResources
  <2>3. QED
    BY <1>1, <2>1, <2>2
<1>14. QED
  BY <1>2, <1>5, <1>10, <1>11, <1>12, <1>13 DEF AloneWrites

LEMMA ConfigApplies == ASSUME AloneWrites, NEW r \in Request, C!ApplyFetch(r) PROVE AloneWrites'
<1>1. /\ step[r] = "applying" /\ switch' = C!FetchResources(draft[r].data)
      /\ step' = [step EXCEPT ![r] = "idle"] /\ draft' = [draft EXCEPT ![r] = C!Blank]
      /\ UNCHANGED <<file, tmp, text, fd, saved>>
  BY DEF C!ApplyFetch
<1>2. SettingTypes /\ Setter(r) /\ draft[r].data = saved /\ fd[r] = None
  BY <1>1 DEF AloneWrites, Setter
<1>3. /\ step' \in [Request -> {"idle", "loaded", "open", "written", "applying"}] /\ step'[r] = "idle"
      /\ OneSetter' /\ \A q \in Request : q # r => Setter(q)' /\ step[q] = "idle" /\ step'[q] = "idle"
  BY <1>1, SetterGoes
<1>4. C!Blank \in C!Draft
  BY NotTorn DEF C!Blank, C!Draft
<1>5. SettingTypes'
  BY <1>1, <1>2, <1>3, <1>4 DEF SettingTypes
<1>6. Setter(r)'
  BY <1>1, <1>2, <1>3 DEF Setter
<1>7. C!Load' = saved' /\ (tmp' # None => tmp' # file')
  BY <1>1, <1>2, LoadStays DEF AloneWrites
<1>8. CoreTold'
  BY <1>1, <1>2 DEF CoreTold, C!FetchResources
<1>9. QED
  BY <1>3, <1>5, <1>6, <1>7, <1>8 DEF AloneWrites

LEMMA ConfigRelaunches == ASSUME AloneWrites, C!Relaunch PROVE AloneWrites'
<1>1. /\ step' = [r \in Request |-> "idle"] /\ draft' = [r \in Request |-> C!Blank]
      /\ fd' = [r \in Request |-> None] /\ text' = C!Freed(text, {file, tmp}, {})
      /\ UNCHANGED <<file, tmp, saved>>
  BY DEF C!Relaunch
<1>2. SettingTypes /\ C!Load = saved
  BY DEF AloneWrites
<1>3. C!Blank \in C!Draft
  BY NotTorn DEF C!Blank, C!Draft
<1>4. text' \in [C!Inode -> C!Settings \cup {C!NoJson}] /\ (file # None => text'[file] = text[file])
  BY <1>1, <1>2, FreedKeeps DEF SettingTypes
<1>5. SettingTypes'
  BY <1>1, <1>2, <1>3, <1>4 DEF SettingTypes
<1>6. OneSetter' /\ \A r \in Request : Setter(r)'
  BY <1>1 DEF OneSetter, Setter
<1>7. C!Load' = saved' /\ (tmp' # None => tmp' # file')
  BY <1>1, <1>2, <1>4, LoadStays DEF AloneWrites
<1>8. CoreTold'
  <2>1. forced' = TRUE \/ switch' = C!FetchResources(saved)
    BY <1>2 DEF C!Relaunch
  <2>2. QED
    BY <1>1, <2>1 DEF CoreTold, C!FetchResources
<1>9. QED
  BY <1>5, <1>6, <1>7, <1>8 DEF AloneWrites

LEMMA ConfigStep == ConfigInv /\ [C!Next]_(C!configVars) => ConfigInv'
<1> SUFFICES ASSUME ConfigInv, [C!Next]_(C!configVars), ~overlapped' PROVE AloneWrites'
  BY DEF ConfigInv
<1>1. ~overlapped
  BY DEF C!Next, C!configVars, C!Begin, C!OpenTmp, C!WriteTmp, C!Replace, C!ReplaceFails, C!ApplyFetch, C!Relaunch
<1>2. AloneWrites
  BY <1>1 DEF ConfigInv
<1>3. CASE UNCHANGED C!configVars
  BY <1>2, <1>3 DEF C!configVars, AloneWrites, SettingTypes, OneSetter, Setter, CoreTold, C!Load, C!FetchResources
<1>4. ASSUME NEW r \in Request PROVE ~C!ReplaceFails(r)
  BY <1>2 DEF C!ReplaceFails, AloneWrites, Setter
<1>5. QED
  BY <1>2, <1>3, <1>4, ConfigBegins, ConfigOpens, ConfigWrites, ConfigReplaces, ConfigApplies, ConfigRelaunches
     DEF C!Next

LEMMA ConfigSurvives == ConfigInv => C!SettingsSurvive
BY DEF ConfigInv, AloneWrites, CoreTold, C!SettingsSurvive

LEMMA ConfigAlone ==
  /\ Init /\ part = "config" => C!Init
  /\ [Next]_vars /\ part = "config" => [C!Next]_(C!configVars)
<1>1. Init /\ part = "config" => C!Init
  BY DEF Init
<1>2. ASSUME part = "config", Next PROVE C!Next
  BY <1>2 DEF Next, Only, Config, Install, Session, Access, Review, Zones, Desk, Pull, Join, Home, Choice, C!Next
<1>3. QED
  BY <1>1, <1>2 DEF vars, config, C!configVars

\* For any number of requests, settings and values: setters that do not overlap lose
\* nothing, and no call leaves for a model that no mode chosen since its caller began sends
\* it to, unless the mode changed between the two tests of one choice (config_store.py,
\* llm_target.py, anthropic_client.py).
THEOREM SettingsAreKept == Spec => []SettingsHold
<1> DEFINE Inv == (part = "config" => ConfigInv) /\ (part = "choice" => ChoiceInv)
<1>1. Init => Inv
  BY ConfigAlone, ConfigInit, ChoiceAlone, ChoiceInit
<1>2. Inv /\ [Next]_vars => Inv'
  BY PartStays, ConfigAlone, ConfigStep, ChoiceAlone, ChoiceStep
<1>3. Inv => SettingsHold
  BY ConfigSurvives DEF SettingsHold, ChoiceInv
<1> HIDE DEF Inv
<1>4. QED
  BY <1>1, <1>2, <1>3, PTL DEF Spec

-----------------------------------------------------------------------------
(***************************************************************************)
(* The desk.  What a row refers to is born, and stays so; a relation that  *)
(* no merge crossed, and a note, refer to living entities; what a handler  *)
(* has read still is of a kind that it may write; an entry is a row or a   *)
(* fact until it is detached, and one of them at most unless two requests  *)
(* crossed on it.                                                          *)
(***************************************************************************)
DeskTypes ==
  /\ entity \in [Entity -> {None} \cup K!EntityRow]
  /\ birth \in [Entity -> {"pending", "accepted", "rejected"}]
  /\ relation \in [Relation -> {None} \cup K!RelationRow]
  /\ note \in [Note -> [review : {"pending", "confirmed"}, hidden : BOOLEAN, mentions : Entity]]
  /\ asked \subseteq Fact /\ fact \subseteq K!FactRow
  /\ entry \in [Entry -> K!EntryRow \cup {None}]
  /\ offer \in [Offer -> {"pending", "accepted", "rejected"}]
  /\ verdicts \in [Fact -> [yes : {0, 1}, no : {0, 1}]]
  /\ fate \in [Entry -> {"unused", "kept", "detached"}] /\ crossings \subseteq Entry \cup Relation
  /\ DOMAIN gesture = Request
  /\ \A e \in Entity : entity[e] # None /\ entity[e].into # None => entity[entity[e].into] # None
Births ==
  /\ \A e \in Entity : birth[e] = "accepted" => entity[e] # None
  /\ \A r \in Relation : relation[r] # None =>
       entity[relation[r].from] # None /\ entity[relation[r].to] # None
  /\ \A i \in Entry : entry[i] # None => entity[entry[i].project] # None
Living ==
  /\ \A r \in Relation \ crossings : relation[r] # None =>
       relation[r].from \in K!Live /\ relation[r].to \in K!Live
  /\ \A n \in Note : note[n].mentions \in K!Live
  /\ \A x \in fact : entity[x.e] # None
Offers == \A p \in Offer, i \in Entry : offer[p] = "pending" /\ entry[i] # None => entry[i].capture # p
Job(j) ==
  /\ j.op = "create" => /\ j.r \in Relation /\ j.from \in Entity /\ j.to \in Entity
                        /\ entity[j.from] # None /\ entity[j.to] # None
  /\ j.op = "promote" => j.n \in Note /\ j.p \in Project
  /\ j.op \in {"move", "attach", "detach", "reclassify"} =>
       j.i \in Entry /\ j.read \in K!EntryRow /\ fate[j.i] # "unused"
  /\ j.op \in {"move", "attach"} => j.p \in Project /\ entity[j.p] # None
  /\ j.op = "attach" => \A p \in Offer : offer[p] = "pending" => j.read.capture # p
  /\ j.op = "reclassify" => j.e \in Entity /\ entity[j.e] # None
  /\ j.op = "accept offer" => j.p \in Offer /\ entity[j.p] # None
  /\ j.op = "reject offer" => j.p \in Offer
FactsOnce ==
  /\ \A x, y \in fact : x.source = y.source /\ x.source \notin crossings => x = y
  /\ \A x \in fact : x.source \in Fact => x.source \notin asked
  /\ \A f \in Fact : verdicts[f].yes + verdicts[f].no = IF f \in asked THEN 0 ELSE 1
  /\ \A f \in Fact : verdicts[f].yes = 1 <=> \E x \in fact : x.source = f
EntryOnce(i) ==
  /\ ~(entry[i] # None /\ fate[i] = "detached")
  /\ \A x \in fact : x.source = i => entry[i] = None /\ fate[i] # "detached"
EntriesOnce ==
  /\ \A i \in Entry : fate[i] = "unused" => entry[i] = None /\ \A x \in fact : x.source # i
  /\ \A i \in Entry : fate[i] = "kept" => entry[i] # None \/ \E x \in fact : x.source = i
  /\ \A i \in Entry \ crossings : EntryOnce(i)
DeskInv == DeskTypes /\ Births /\ Living /\ Offers /\ (\A h \in Request : Job(gesture[h])) /\ FactsOnce /\ EntriesOnce

LEMMA DeskFacts ==
  /\ OldProject \in Project /\ Project \subseteq Entity /\ FirstEntry \in Entry
  /\ About \in [Fact -> Entity] /\ Offer \subseteq Project
  /\ Fact \cap Entry = {} /\ Relation \cap (Fact \cup Entry) = {} /\ Offer \cap (Note \cup Entry) = {}
  /\ None \notin Entity /\ None # "pending"
  /\ None \notin K!EntityRow /\ None \notin K!RelationRow /\ None \notin K!EntryRow
  /\ None \notin [entries : SUBSET Entry, facts : SUBSET K!FactRow]
BY PartsAssumption DEF K!DeskAssumption

LEMMA FreshRow == K!Fresh \in K!EntityRow /\ K!Fresh # None /\ K!Fresh.into = None
<1>1. K!Fresh \in K!EntityRow /\ K!Fresh.into = None
  BY DEF K!Fresh, K!EntityRow
<1>2. QED
  BY <1>1, DeskFacts

LEMMA DeskInit == K!Init => DeskInv
<1> SUFFICES ASSUME K!Init PROVE DeskInv
  OBVIOUS
<1>1. PICK later \in {None, K!Fresh, [K!Fresh EXCEPT !.status = "pending"]} :
        entity = [e \in Entity |-> IF e = OldProject THEN K!Fresh ELSE later]
  BY DEF K!Init
<1>2. later \in {None} \cup K!EntityRow
  <2>1. [K!Fresh EXCEPT !.status = "pending"] \in K!EntityRow
    BY DEF K!Fresh, K!EntityRow
  <2>2. QED
    BY <1>1, <2>1, FreshRow
<1>l. later # None => later.into = None
  <2>1. [K!Fresh EXCEPT !.status = "pending"].into = None
    BY DEF K!Fresh
  <2>2. QED
    BY <1>1, <2>1, FreshRow
<1>s. \A b \in Entity : entity[b] # None => entity[b].into = None
  BY <1>1, <1>l, FreshRow
<1>3. entity \in [Entity -> {None} \cup K!EntityRow] /\ entity[OldProject] # None
  BY <1>1, <1>2, FreshRow, DeskFacts
<1>4. PICK e \in Entity : entity[e] # None /\
        relation \in [Relation -> {None, [from |-> OldProject, to |-> e, review |-> "pending"]}]
  BY DEF K!Init, K!Born
<1>5. [from |-> OldProject, to |-> e, review |-> "pending"] \in K!RelationRow
  BY DeskFacts DEF K!RelationRow
<1>6. \A r \in Relation : relation[r] # None => relation[r].from = OldProject /\ relation[r].to = e
  BY <1>4
<1>7. birth = [b \in Entity |-> IF entity[b] = None THEN "pending" ELSE "accepted"]
  BY DEF K!Init
<1>8. entry = [i \in Entry |-> IF i = FirstEntry THEN [project |-> OldProject, capture |-> i] ELSE None]
  BY DEF K!Init
<1>9. [project |-> OldProject, capture |-> FirstEntry] \in K!EntryRow
  BY DeskFacts DEF K!EntryRow
<1>10. \A i \in Entry : entry[i] # None =>
         i = FirstEntry /\ entry[i].project = OldProject /\ entry[i].capture = FirstEntry
  BY <1>8
<1>11. entry \in [Entry -> K!EntryRow \cup {None}]
  BY <1>8, <1>9
<1>12. note \in [Note -> [review : {"pending", "confirmed"}, hidden : BOOLEAN, mentions : Entity]]
  <2>1. [review : {"pending", "confirmed"}, hidden : {FALSE}, mentions : {OldProject}]
          \subseteq [review : {"pending", "confirmed"}, hidden : BOOLEAN, mentions : Entity]
    BY DeskFacts
  <2>2. note \in [Note -> [review : {"pending", "confirmed"}, hidden : {FALSE}, mentions : {OldProject}]]
    BY DEF K!Init
  <2>3. QED
    BY <2>1, <2>2
<1>13. /\ asked = Fact /\ fact = {} /\ offer = [p \in Offer |-> "pending"]
       /\ gesture = [h \in Request |-> K!Idle] /\ verdicts = [f \in Fact |-> [yes |-> 0, no |-> 0]]
       /\ fate = [i \in Entry |-> IF i = FirstEntry THEN "kept" ELSE "unused"] /\ crossings = {}
  BY DEF K!Init
<1>14. DeskTypes
  BY <1>3, <1>4, <1>5, <1>7, <1>11, <1>12, <1>13, <1>s DEF DeskTypes
<1>15. Births
  BY <1>3, <1>4, <1>6, <1>7, <1>10 DEF Births
<1>16. Offers
  BY <1>10, DeskFacts DEF Offers
<1>17. \A h \in Request : Job(gesture[h])
  BY <1>13 DEF Job, K!Idle
<1>18. FactsOnce
  BY <1>13 DEF FactsOnce
<1>19. EntriesOnce
  <2>1. entry[FirstEntry] # None /\ \A i \in Entry : i # FirstEntry => entry[i] = None
    BY <1>8, <1>9, DeskFacts
  <2>2. QED
    BY <1>13, <2>1 DEF EntriesOnce, EntryOnce
<1>20. Living
  <2>1. \A b \in Entity : entity[b] # None => b \in K!Live
    BY <1>s DEF K!Live, K!Born
  <2>2. \A n \in Note : note[n].mentions = OldProject
    BY DEF K!Init
  <2>3. \A r \in Relation : relation[r] # None => relation[r].from \in K!Live /\ relation[r].to \in K!Live
    BY <1>3, <1>4, <1>6, <2>1, DeskFacts
  <2>4. QED
    BY <1>3, <1>13, <2>1, <2>2, <2>3, DeskFacts DEF Living
<1>21. QED
  BY <1>14, <1>15, <1>16, <1>17, <1>18, <1>19, <1>20 DEF DeskInv

\* Nobody is unborn, no id of an entry is used again, and no offer awaits again.
Onward ==
  /\ \A e \in Entity : entity[e] # None => entity'[e] # None
  /\ \A i \in Entry : fate[i] # "unused" => fate'[i] # "unused"
  /\ \A p \in Offer : offer'[p] = "pending" => offer[p] = "pending"

LEMMA JobStays ==
  ASSUME NEW j, Job(j), Onward PROVE Job(j)'
<1> USE DEF Job, Onward
<1>1. Project \subseteq Entity /\ Offer \subseteq Entity
  BY DeskFacts
<1>2. j.op = "create" => /\ j.r \in Relation /\ j.from \in Entity /\ j.to \in Entity
                        /\ entity'[j.from] # None /\ entity'[j.to] # None
  OBVIOUS
<1>3. j.op \in {"move", "attach"} => j.p \in Project /\ entity'[j.p] # None
  BY <1>1
<1>4. j.op = "accept offer" => j.p \in Offer /\ entity'[j.p] # None
  BY <1>1
<1>5. j.op = "attach" => \A p \in Offer : offer'[p] = "pending" => j.read.capture # p
  OBVIOUS
<1>6. j.op \in {"move", "attach", "detach", "reclassify"} =>
        j.i \in Entry /\ j.read \in K!EntryRow /\ fate'[j.i] # "unused"
  OBVIOUS
<1>7. j.op = "reclassify" => j.e \in Entity /\ entity'[j.e] # None
  OBVIOUS
<1>8. QED
  BY <1>2, <1>3, <1>4, <1>5, <1>6, <1>7

\* A step that leaves the requests as they are.
LEMMA JobsStay ==
  ASSUME DeskInv, Onward, UNCHANGED gesture PROVE \A h \in Request : Job(gesture[h])'
<1>1. ASSUME NEW h \in Request PROVE Job(gesture[h])'
  <2>1. PICK j : j = gesture[h]
    OBVIOUS
  <2>2. Job(j)
    BY <2>1 DEF DeskInv
  <2>3. Job(j)'
    BY <2>2, JobStays
  <2>4. QED
    BY <2>1, <2>3 DEF Job
<1>2. QED
  BY <1>1

\* A step that ends a request.
LEMMA JobEnds ==
  ASSUME DeskInv, NEW h \in Request, Onward, gesture' = [gesture EXCEPT ![h] = K!Idle]
  PROVE  DOMAIN gesture' = Request /\ \A g \in Request : Job(gesture[g])'
<1>1. DOMAIN gesture' = Request /\ gesture'[h] = K!Idle /\ \A g \in Request : g # h => gesture'[g] = gesture[g]
  BY DEF DeskInv, DeskTypes
<1>2. ASSUME NEW g \in Request PROVE Job(gesture[g])'
  <2>1. PICK j : j = gesture'[g]
    OBVIOUS
  <2>2. CASE g = h
    BY <1>1, <2>2 DEF Job, K!Idle
  <2>3. CASE g # h
    <3>1. Job(j)
      BY <1>1, <2>1, <2>3 DEF DeskInv
    <3>2. Job(j)'
      BY <3>1, JobStays
    <3>3. QED
      BY <2>1, <3>2 DEF Job
  <2>4. QED
    BY <2>2, <2>3
<1>3. QED
  BY <1>1, <1>2

\* A step that begins a request.
LEMMA JobBegins ==
  ASSUME DeskInv, NEW h \in Request, NEW job, Job(job), K!Begin(h, job)
  PROVE  DeskInv'
<1>1. /\ gesture' = [gesture EXCEPT ![h] = job]
      /\ UNCHANGED <<entity, birth, relation, note, asked, fact, entry, offer, verdicts, fate, crossings>>
  BY DEF K!Begin, K!rows
<1>2. DOMAIN gesture' = Request /\ gesture'[h] = job /\ \A g \in Request : g # h => gesture'[g] = gesture[g]
  BY <1>1 DEF DeskInv, DeskTypes
<1>3. Onward
  BY <1>1 DEF Onward
<1>4. ASSUME NEW g \in Request PROVE Job(gesture[g])'
  <2>1. PICK j : j = gesture'[g]
    OBVIOUS
  <2>2. Job(j)
    BY <1>2, <2>1 DEF DeskInv
  <2>3. Job(j)'
    BY <1>3, <2>2, JobStays
  <2>4. QED
    BY <2>1, <2>3 DEF Job
<1>5. DeskTypes'
  BY <1>1, <1>2 DEF DeskInv, DeskTypes
<1>6. Births' /\ Offers' /\ FactsOnce' /\ EntriesOnce'
  BY <1>1 DEF DeskInv, Births, Offers, FactsOnce, EntriesOnce, EntryOnce
<1>7. Living'
  BY <1>1 DEF DeskInv, Living, K!Live, K!Born
<1>8. QED
  BY <1>4, <1>5, <1>6, <1>7 DEF DeskInv

LEMMA DeskChecks == ASSUME DeskInv, NEW h \in Request, K!Check(h) PROVE DeskInv'
<1>1. ASSUME NEW r \in Relation, NEW a \in Entity, NEW b \in Entity, K!CheckCreate(h, r, a, b) PROVE DeskInv'
  <2>1. entity[a] # None /\ entity[b] # None
    BY <1>1 DEF K!CheckCreate, K!Live, K!Born
  <2>2. Job([op |-> "create", r |-> r, from |-> a, to |-> b])
    BY <2>1 DEF Job
  <2>3. QED
    BY <1>1, <2>2, JobBegins DEF K!CheckCreate
<1>2. ASSUME NEW n \in Note, NEW p \in Project, K!CheckPromote(h, n, p) PROVE DeskInv'
  <2>1. Job([op |-> "promote", n |-> n, p |-> p])
    BY DEF Job
  <2>2. QED
    BY <1>2, <2>1, JobBegins DEF K!CheckPromote
<1>3. ASSUME NEW i \in Entry, i \in K!Held
      PROVE  entry[i] \in K!EntryRow /\ entry[i] # None /\ fate[i] # "unused"
  BY <1>3 DEF K!Held, DeskInv, DeskTypes, EntriesOnce
<1>4. ASSUME NEW i \in Entry, NEW p \in Project, K!CheckMove(h, i, p) PROVE DeskInv'
  <2>1. entry[i] \in K!EntryRow /\ entity[p] # None /\ fate[i] # "unused"
    BY <1>3, <1>4 DEF K!CheckMove, K!Born
  <2>2. Job([op |-> "move", i |-> i, read |-> entry[i], p |-> p])
    BY <2>1 DEF Job
  <2>3. QED
    BY <1>4, <2>2, JobBegins DEF K!CheckMove
<1>5. ASSUME NEW i \in Entry, NEW p \in Project, K!CheckAttach(h, i, p) PROVE DeskInv'
  <2>1. entry[i] \in K!EntryRow /\ entity[p] # None /\ entry[i] # None /\ fate[i] # "unused"
    BY <1>3, <1>5 DEF K!CheckAttach, K!Born
  <2>2. \A q \in Offer : offer[q] = "pending" => entry[i].capture # q
    BY <2>1 DEF DeskInv, Offers
  <2>3. Job([op |-> "attach", i |-> i, read |-> entry[i], p |-> p])
    BY <2>1, <2>2 DEF Job
  <2>4. QED
    BY <1>5, <2>3, JobBegins DEF K!CheckAttach
<1>6. ASSUME NEW i \in Entry, K!CheckDetach(h, i) PROVE DeskInv'
  <2>1. entry[i] \in K!EntryRow /\ fate[i] # "unused"
    BY <1>3, <1>6 DEF K!CheckDetach
  <2>2. Job([op |-> "detach", i |-> i, read |-> entry[i]])
    BY <2>1 DEF Job
  <2>3. QED
    BY <1>6, <2>2, JobBegins DEF K!CheckDetach
<1>7. ASSUME NEW i \in Entry, NEW e \in Entity, K!CheckReclassify(h, i, e) PROVE DeskInv'
  <2>1. entry[i] \in K!EntryRow /\ fate[i] # "unused" /\ entity[e] # None
    BY <1>3, <1>7 DEF K!CheckReclassify, K!Born
  <2>2. Job([op |-> "reclassify", i |-> i, read |-> entry[i], e |-> e])
    BY <2>1 DEF Job
  <2>3. QED
    BY <1>7, <2>2, JobBegins DEF K!CheckReclassify
<1>8. ASSUME NEW p \in Offer, K!CheckAcceptOffer(h, p) PROVE DeskInv'
  <2>1. entity[p] # None
    BY <1>8 DEF K!CheckAcceptOffer, K!Born
  <2>2. Job([op |-> "accept offer", p |-> p])
    BY <2>1 DEF Job
  <2>3. QED
    BY <1>8, <2>2, JobBegins DEF K!CheckAcceptOffer
<1>9. ASSUME NEW p \in Offer, K!CheckRejectOffer(h, p) PROVE DeskInv'
  <2>1. Job([op |-> "reject offer", p |-> p])
    BY DEF Job
  <2>2. QED
    BY <1>9, <2>1, JobBegins DEF K!CheckRejectOffer
<1>10. QED
  BY <1>1, <1>2, <1>4, <1>5, <1>6, <1>7, <1>8, <1>9 DEF K!Check

\* The parts of the invariant that the entities, or the facts, leave alone.
LEMMA BirthsStay ==
  ASSUME DeskInv, Onward, UNCHANGED <<relation, entry>>,
         \A e \in Entity : birth'[e] = "accepted" => entity'[e] # None
  PROVE  Births'
<1>1. \A r \in Relation : relation[r] # None => relation[r].from \in Entity /\ relation[r].to \in Entity
  BY DEF DeskInv, DeskTypes, K!RelationRow
<1>2. \A i \in Entry : entry[i] # None => entry[i].project \in Entity
  BY DeskFacts DEF DeskInv, DeskTypes, K!EntryRow
<1>3. QED
  BY <1>1, <1>2 DEF DeskInv, Births, Onward

LEMMA OffersStay ==
  ASSUME DeskInv, Onward, UNCHANGED entry PROVE Offers'
BY DEF DeskInv, Offers, Onward

LEMMA LivingStays ==
  ASSUME DeskInv, Onward, K!Live \subseteq K!Live', crossings \subseteq crossings',
         \A r \in Relation \ crossings' : relation'[r] # None =>
           \/ relation'[r].from \in K!Live' /\ relation'[r].to \in K!Live'
           \/ /\ relation[r] # None
              /\ relation'[r].from = relation[r].from /\ relation'[r].to = relation[r].to,
         \A n \in Note : note'[n].mentions = note[n].mentions,
         \A x \in fact' : entity'[x.e] # None \/ \E f \in fact : x.e = f.e
  PROVE  Living'
<1>1. \A f \in fact : f.e \in Entity
  BY DEF DeskInv, DeskTypes, K!FactRow
<1>2. QED
  BY <1>1 DEF DeskInv, Living, Onward

LEMMA FactsStay ==
  ASSUME DeskInv, UNCHANGED <<fact, asked, verdicts, entry, fate>>, crossings \subseteq crossings' PROVE FactsOnce' /\ EntriesOnce'
BY DEF DeskInv, FactsOnce, EntriesOnce, EntryOnce

\* A row of an entity changes, or is born.
LEMMA EntityBecomes ==
  ASSUME DeskInv, NEW e \in Entity, NEW row \in K!EntityRow, entity' = [entity EXCEPT ![e] = row],
         row.into # None => entity[row.into] # None
  PROVE  /\ (entity[e] # None => entity[e].into = row.into) => K!Live \subseteq K!Live'
         /\ entity' \in [Entity -> {None} \cup K!EntityRow] /\ entity'[e] # None
         /\ \A b \in Entity : entity[b] # None => entity'[b] # None
         /\ \A b \in Entity : entity'[b] # None /\ entity'[b].into # None => entity'[entity'[b].into] # None
<1>1. row # None /\ entity \in [Entity -> {None} \cup K!EntityRow]
  BY DeskFacts DEF DeskInv, DeskTypes
<1>2. /\ entity' \in [Entity -> {None} \cup K!EntityRow] /\ entity'[e] = row
      /\ \A b \in Entity : b # e => entity'[b] = entity[b]
  BY <1>1
<1>3. \A b \in Entity : entity[b] # None => entity'[b] # None
  BY <1>1, <1>2
<1>4. ASSUME NEW b \in Entity, entity'[b] # None, entity'[b].into # None PROVE entity'[entity'[b].into] # None
  <2>1. entity'[b].into \in Entity
    BY <1>2, <1>4 DEF K!EntityRow
  <2>2. entity[entity'[b].into] # None
    <3>1. CASE b = e
      BY <1>2, <1>4, <3>1
    <3>2. CASE b # e
      BY <1>2, <1>4, <3>2 DEF DeskInv, DeskTypes
    <3>3. QED
      BY <3>1, <3>2
  <2>3. QED
    BY <1>3, <2>1, <2>2
<1>5. ASSUME entity[e] # None => entity[e].into = row.into PROVE K!Live \subseteq K!Live'
  BY <1>1, <1>2, <1>3, <1>5 DEF K!Live, K!Born
<1>6. QED
  BY <1>1, <1>2, <1>3, <1>4, <1>5

LEMMA DeskEntities ==
  ASSUME DeskInv, NEW e \in Entity,
         K!AcceptBirth(e) \/ K!RejectBirth(e) \/ \E hidden \in BOOLEAN : K!HideEntity(e, hidden)
  PROVE  DeskInv'
<1>1. UNCHANGED <<relation, note, asked, fact, entry, offer, gesture, verdicts, fate, crossings>>
  BY DEF K!AcceptBirth, K!RejectBirth, K!HideEntity
<1>2. /\ entity' \in [Entity -> {None} \cup K!EntityRow]
      /\ \A b \in Entity : entity[b] # None => entity'[b] # None
      /\ \A b \in Entity : entity'[b] # None /\ entity'[b].into # None => entity'[entity'[b].into] # None
      /\ birth' \in [Entity -> {"pending", "accepted", "rejected"}]
      /\ \A b \in Entity : birth'[b] = "accepted" => entity'[b] # None
      /\ K!Live \subseteq K!Live'
  <2>1. CASE K!AcceptBirth(e)
    <3>1. PICK row : row = IF entity[e] = None THEN K!Fresh ELSE entity[e]
      OBVIOUS
    <3>2. /\ row \in K!EntityRow /\ (row.into # None => entity[row.into] # None)
          /\ entity[e] # None => entity[e].into = row.into
      BY <3>1, FreshRow DEF DeskInv, DeskTypes
    <3>3. entity' = [entity EXCEPT ![e] = row] /\ birth' = [birth EXCEPT ![e] = "accepted"]
      BY <2>1, <3>1 DEF K!AcceptBirth
    <3>4. QED
      BY <3>2, <3>3, EntityBecomes DEF DeskInv, DeskTypes, Births
  <2>2. CASE K!RejectBirth(e)
    BY <2>2 DEF K!RejectBirth, DeskInv, DeskTypes, Births, K!Live, K!Born
  <2>3. ASSUME NEW hidden \in BOOLEAN, K!HideEntity(e, hidden)
        PROVE  /\ entity' \in [Entity -> {None} \cup K!EntityRow] /\ birth' = birth /\ K!Live \subseteq K!Live'
               /\ \A b \in Entity : entity[b] # None => entity'[b] # None
               /\ \A b \in Entity : entity'[b] # None /\ entity'[b].into # None => entity'[entity'[b].into] # None
    <3>1. PICK row : row = [entity[e] EXCEPT !.hidden = hidden]
      OBVIOUS
    <3>2. entity[e] \in K!EntityRow /\ (entity[e].into # None => entity[entity[e].into] # None)
      BY <2>3 DEF K!HideEntity, DeskInv, DeskTypes
    <3>3. row \in K!EntityRow /\ row.into = entity[e].into
      BY <3>1, <3>2 DEF K!EntityRow
    <3>4. entity' = [entity EXCEPT ![e] = row] /\ birth' = birth
      BY <2>3, <3>1 DEF K!HideEntity
    <3>5. QED
      BY <3>2, <3>3, <3>4, EntityBecomes
  <2>4. QED
    BY <2>1, <2>2, <2>3 DEF DeskInv, DeskTypes, Births
<1>3. Onward
  BY <1>1, <1>2 DEF Onward
<1>4. DeskTypes'
  BY <1>1, <1>2 DEF DeskInv, DeskTypes
<1>5. Living'
  BY <1>1, <1>2, <1>3, LivingStays
<1>6. QED
  BY <1>1, <1>2, <1>3, <1>4, <1>5, BirthsStay, OffersStay, FactsStay, JobsStay DEF DeskInv

LEMMA DeskRelations ==
  ASSUME DeskInv, NEW r \in Relation, K!ConfirmRelation(r) \/ K!DeleteRelation(r)
  PROVE  DeskInv'
<1>1. UNCHANGED <<entity, birth, note, asked, fact, entry, offer, gesture, verdicts, fate, crossings>>
  BY DEF K!ConfirmRelation, K!DeleteRelation
<1>2. /\ relation' \in [Relation -> {None} \cup K!RelationRow]
      /\ \A q \in Relation : relation'[q] # None =>
           relation[q] # None /\ relation'[q].from = relation[q].from /\ relation'[q].to = relation[q].to
  <2>1. relation \in [Relation -> {None} \cup K!RelationRow]
    BY DEF DeskInv, DeskTypes
  <2>2. CASE K!ConfirmRelation(r)
    <3>1. relation[r] \in K!RelationRow /\ relation[r] # None
      BY <2>1, <2>2 DEF K!ConfirmRelation
    <3>2. PICK row : row = [relation[r] EXCEPT !.review = "confirmed"]
      OBVIOUS
    <3>3. row \in K!RelationRow /\ row.from = relation[r].from /\ row.to = relation[r].to
      BY <3>1, <3>2 DEF K!RelationRow
    <3>4. relation' = [relation EXCEPT ![r] = row]
      BY <2>2, <3>2 DEF K!ConfirmRelation
    <3>5. QED
      BY <2>1, <3>1, <3>3, <3>4
  <2>3. CASE K!DeleteRelation(r)
    BY <2>1, <2>3 DEF K!DeleteRelation
  <2>4. QED
    BY <2>2, <2>3
<1>3. Onward
  BY <1>1 DEF Onward
<1>4. DeskTypes'
  BY <1>1, <1>2 DEF DeskInv, DeskTypes
<1>5. Births'
  BY <1>1, <1>2 DEF DeskInv, Births
<1>6. Living'
  BY <1>1, <1>2, <1>3, LivingStays DEF K!Live, K!Born
<1>7. QED
  BY <1>1, <1>3, <1>4, <1>5, <1>6, OffersStay, FactsStay, JobsStay DEF DeskInv

\* A step that changes the notes, and nothing else that the invariant is about.
LEMMA NotesChange ==
  ASSUME DeskInv, NEW n \in Note, K!ConfirmNote(n) \/ \E hidden \in BOOLEAN : K!HideNote(n, hidden)
  PROVE  DeskInv'
<1>1. UNCHANGED <<entity, birth, relation, asked, fact, entry, offer, gesture, verdicts, fate, crossings>>
  BY DEF K!ConfirmNote, K!HideNote
<1> DEFINE NoteRow == [review : {"pending", "confirmed"}, hidden : BOOLEAN, mentions : Entity]
<1>2. note \in [Note -> NoteRow] /\ note[n] \in NoteRow
  BY DEF DeskInv, DeskTypes
<1>3. \E row \in NoteRow : note' = [note EXCEPT ![n] = row] /\ row.mentions = note[n].mentions
  <2>1. CASE K!ConfirmNote(n)
    <3>1. /\ [note[n] EXCEPT !.review = "confirmed"] \in NoteRow
          /\ [note[n] EXCEPT !.review = "confirmed"].mentions = note[n].mentions
      BY <1>2
    <3>2. QED
      BY <2>1, <3>1 DEF K!ConfirmNote
  <2>2. ASSUME NEW hidden \in BOOLEAN, K!HideNote(n, hidden)
        PROVE  \E row \in NoteRow : note' = [note EXCEPT ![n] = row] /\ row.mentions = note[n].mentions
    <3>1. /\ [note[n] EXCEPT !.hidden = hidden] \in NoteRow
          /\ [note[n] EXCEPT !.hidden = hidden].mentions = note[n].mentions
      BY <1>2
    <3>2. QED
      BY <2>2, <3>1 DEF K!HideNote
  <2>3. QED
    BY <2>1, <2>2
<1>4. note' \in [Note -> NoteRow] /\ \A m \in Note : note'[m].mentions = note[m].mentions
  BY <1>2, <1>3
<1>5. DeskTypes'
  BY <1>1, <1>4 DEF DeskInv, DeskTypes
<1>6. Onward
  BY <1>1 DEF Onward
<1>7. Births'
  BY <1>1 DEF DeskInv, Births
<1>8. Living'
  BY <1>1, <1>4, <1>6, LivingStays DEF K!Live, K!Born
<1>9. QED
  BY <1>1, <1>5, <1>6, <1>7, <1>8, OffersStay, FactsStay, JobsStay DEF DeskInv

LEMMA DeskLives ==
  ASSUME DeskInv, NEW f \in fact, NEW column \in {"hidden", "obsolete"}, NEW value \in BOOLEAN,
         K!LifeOfFact(f, column, value)
  PROVE  DeskInv'
<1>1. UNCHANGED <<entity, birth, relation, note, asked, entry, offer, gesture, verdicts, fate, crossings>>
  BY DEF K!LifeOfFact
<1>2. PICK g : g = [f EXCEPT ![column] = value]
  OBVIOUS
<1>3. f \in K!FactRow
  BY DEF DeskInv, DeskTypes
<1>4. g \in K!FactRow /\ g.source = f.source /\ g.e = f.e
  BY <1>2, <1>3 DEF K!FactRow
<1>5. fact' = (fact \ {f}) \cup {g}
  BY <1>2 DEF K!LifeOfFact
<1>6. DeskTypes'
  BY <1>1, <1>4, <1>5 DEF DeskInv, DeskTypes
<1>7. FactsOnce' /\ EntriesOnce'
  <2>1. FactsOnce /\ EntriesOnce
    BY DEF DeskInv
  <2>2. \A x \in fact' : x = g \/ (x \in fact /\ x # f)
    BY <1>5
  <2>3. \A x, y \in fact' : x.source = y.source /\ x.source \notin crossings => x = y
    BY <1>4, <2>1, <2>2 DEF FactsOnce
  <2>4. \A x \in fact' : x.source \in Fact => x.source \notin asked
    BY <1>4, <2>1, <2>2 DEF FactsOnce
  <2>5. \A s : (\E x \in fact' : x.source = s) <=> (\E x \in fact : x.source = s)
    BY <1>4, <1>5, <2>2
  <2>6. FactsOnce'
    BY <1>1, <2>1, <2>3, <2>4, <2>5 DEF FactsOnce
  <2>7. EntriesOnce'
    BY <1>1, <2>1, <2>5 DEF EntriesOnce, EntryOnce
  <2>8. QED
    BY <2>6, <2>7
<1>8. Onward
  BY <1>1 DEF Onward
<1>9. Births'
  BY <1>1 DEF DeskInv, Births
<1>10. Living'
  BY <1>1, <1>4, <1>5, <1>8, LivingStays DEF K!Live, K!Born
<1>11. QED
  BY <1>1, <1>6, <1>7, <1>8, <1>9, <1>10, OffersStay, JobsStay DEF DeskInv

\* The survivor of a name is born.
LEMMA SurvivorBorn ==
  ASSUME DeskInv, NEW e \in Entity, K!Find(e) # None
  PROVE  K!Find(e) \in Entity /\ entity[K!Find(e)] # None
<1>1. /\ entity[e] \in {None} \cup K!EntityRow
      /\ entity[e] # None /\ entity[e].into # None => entity[entity[e].into] # None
  BY DEF DeskInv, DeskTypes
<1>2. QED
  BY <1>1 DEF K!Find, K!EntityRow

LEMMA DeskAnswers ==
  ASSUME DeskInv, NEW f \in Fact, NEW confirmed \in BOOLEAN, K!Validate(f, confirmed) PROVE DeskInv'
<1>1. /\ f \in asked /\ asked' = asked \ {f} /\ verdicts' = [verdicts EXCEPT ![f] = K!Given(@, confirmed)]
      /\ UNCHANGED <<birth, relation, note, entry, offer, gesture, fate, crossings>>
  BY DEF K!Validate
<1>2. PICK home_f : home_f = IF K!Find(About[f]) = None THEN About[f] ELSE K!Find(About[f])
  OBVIOUS
<1>3. home_f \in Entity
  BY <1>2, DeskFacts, SurvivorBorn
<1>4. PICK new : new = K!NewFact(f, home_f)
  OBVIOUS
<1>5. new \in K!FactRow /\ new.source = f /\ new.e = home_f
  BY <1>3, <1>4 DEF K!NewFact, K!FactRow
<1>6. /\ confirmed => fact' = fact \cup {new}
      /\ ~confirmed => fact' = fact
  BY <1>2, <1>4 DEF K!Validate
<1>7. /\ entity' \in [Entity -> {None} \cup K!EntityRow]
      /\ \A b \in Entity : entity[b] # None => entity'[b] # None
      /\ \A b \in Entity : entity'[b] # None /\ entity'[b].into # None => entity'[entity'[b].into] # None
      /\ K!Live \subseteq K!Live'
  <2>1. CASE entity' = entity
    BY <2>1 DEF DeskInv, DeskTypes, K!Live, K!Born
  <2>2. CASE entity' # entity
    <3>1. PICK row : row = IF entity[home_f] = None THEN K!Fresh ELSE entity[home_f]
      OBVIOUS
    <3>2. /\ row \in K!EntityRow /\ (row.into # None => entity[row.into] # None)
          /\ entity[home_f] # None => entity[home_f].into = row.into
      BY <1>3, <3>1, FreshRow DEF DeskInv, DeskTypes
    <3>3. entity' = [entity EXCEPT ![home_f] = row]
      BY <1>2, <2>2, <3>1 DEF K!Validate
    <3>4. QED
      BY <1>3, <3>2, <3>3, EntityBecomes
  <2>3. QED
    BY <2>1, <2>2
<1>8. Onward
  BY <1>1, <1>7 DEF Onward
<1>9. /\ verdicts \in [Fact -> [yes : {0, 1}, no : {0, 1}]]
      /\ verdicts[f].yes = 0 /\ verdicts[f].no = 0 /\ \A x \in fact : x.source # f
  <2>1. verdicts \in [Fact -> [yes : {0, 1}, no : {0, 1}]]
    BY DEF DeskInv, DeskTypes
  <2>2. verdicts[f] \in [yes : {0, 1}, no : {0, 1}]
    BY <2>1
  <2>3. verdicts[f].yes + verdicts[f].no = 0 /\ \A x \in fact : x.source # f
    BY <1>1 DEF DeskInv, FactsOnce
  <2>4. verdicts[f].yes \in {0, 1} /\ verdicts[f].no \in {0, 1}
    BY <2>2
  <2>5. QED
    BY <2>1, <2>3, <2>4
<1>10. PICK now : now = K!Given(verdicts[f], confirmed)
  OBVIOUS
<1>11. /\ verdicts' = [verdicts EXCEPT ![f] = now] /\ now \in [yes : {0, 1}, no : {0, 1}]
       /\ now.yes + now.no = 1 /\ (now.yes = 1 <=> confirmed)
  <2>1. verdicts' = [verdicts EXCEPT ![f] = now]
    BY <1>1, <1>9, <1>10
  <2>2. verdicts[f] \in [yes : {0, 1}, no : {0, 1}]
    BY <1>9
  <2>3. CASE confirmed
    <3>1. now = [verdicts[f] EXCEPT !.yes = 0 + 1]
      BY <1>9, <1>10, <2>3 DEF K!Given
    <3>2. now.yes = 1 /\ now.no = 0 /\ now \in [yes : {0, 1}, no : {0, 1}]
      BY <1>9, <2>2, <3>1
    <3>3. QED
      BY <2>1, <2>3, <3>2
  <2>4. CASE ~confirmed
    <3>1. now = [verdicts[f] EXCEPT !.no = 0 + 1]
      BY <1>9, <1>10, <2>4 DEF K!Given
    <3>2. now.yes = 0 /\ now.no = 1 /\ now \in [yes : {0, 1}, no : {0, 1}]
      BY <1>9, <2>2, <3>1
    <3>3. QED
      BY <2>1, <2>4, <3>2
  <2>5. QED
    BY <2>3, <2>4
<1>12. /\ verdicts' \in [Fact -> [yes : {0, 1}, no : {0, 1}]] /\ verdicts'[f] = now
       /\ \A g \in Fact : g # f => verdicts'[g] = verdicts[g]
  BY <1>9, <1>11
<1>13. fact' \subseteq K!FactRow /\ asked' \subseteq Fact
  BY <1>1, <1>5, <1>6 DEF DeskInv, DeskTypes
<1>14. DeskTypes'
  BY <1>1, <1>7, <1>12, <1>13 DEF DeskInv, DeskTypes
<1>15. FactsOnce'
  <2>1. FactsOnce
    BY DEF DeskInv
  <2>2. \A x \in fact' : x = new \/ x \in fact
    BY <1>6
  <2>3. \A x, y \in fact' : x.source = y.source /\ x.source \notin crossings => x = y
    BY <1>5, <1>9, <2>1, <2>2 DEF FactsOnce
  <2>4. \A x \in fact' : x.source \in Fact => x.source \notin asked'
    BY <1>1, <1>5, <2>1, <2>2 DEF FactsOnce
  <2>5. \A g \in Fact : verdicts'[g].yes + verdicts'[g].no = IF g \in asked' THEN 0 ELSE 1
    BY <1>1, <1>11, <1>12, <2>1 DEF FactsOnce
  <2>6. \A g \in Fact : g # f => ((\E x \in fact' : x.source = g) <=> (\E x \in fact : x.source = g))
    BY <1>5, <1>6
  <2>7. (\E x \in fact' : x.source = f) <=> confirmed
    BY <1>5, <1>6, <1>9
  <2>8. \A g \in Fact : verdicts'[g].yes = 1 <=> \E x \in fact' : x.source = g
    BY <1>11, <1>12, <2>1, <2>6, <2>7 DEF FactsOnce
  <2>9. QED
    BY <1>1, <2>3, <2>4, <2>5, <2>8 DEF FactsOnce
<1>16. EntriesOnce'
  <2>1. f \notin Entry
    BY DeskFacts
  <2>2. \A i \in Entry : (\E x \in fact' : x.source = i) <=> (\E x \in fact : x.source = i)
    BY <1>5, <1>6, <2>1
  <2>3. QED
    BY <1>1, <2>2 DEF DeskInv, EntriesOnce, EntryOnce
<1>17. Births'
  BY <1>1, <1>7, <1>8, BirthsStay DEF DeskInv, Births
<1>18. Living'
  <2>1. confirmed => entity'[home_f] # None
    <3>1. confirmed => entity' = [entity EXCEPT ![home_f] = IF @ = None THEN K!Fresh ELSE @]
      BY <1>2 DEF K!Validate
    <3>2. entity \in [Entity -> {None} \cup K!EntityRow]
      BY DEF DeskInv, DeskTypes
    <3>3. QED
      BY <1>3, <3>1, <3>2, FreshRow
  <2>2. \A x \in fact' : entity'[x.e] # None \/ \E g \in fact : x.e = g.e
    BY <1>5, <1>6, <2>1
  <2>3. QED
    BY <1>1, <1>7, <1>8, <2>2, LivingStays
<1>19. QED
  BY <1>1, <1>8, <1>14, <1>15, <1>16, <1>17, <1>18, OffersStay, JobsStay DEF DeskInv

\* What a merge does to a reference.
LEMMA DeskMerges ==
  ASSUME DeskInv, NEW absorbed \in Entity, NEW canonical \in Entity, K!Merge(absorbed, canonical)
  PROVE  DeskInv'
<1> DEFINE to(e) == IF e = absorbed THEN canonical ELSE e
<1>1. /\ absorbed \in K!Live /\ canonical \in K!Live
      /\ entity' = [entity EXCEPT ![absorbed].into = canonical]
      /\ fact' = {[f EXCEPT !.e = to(f.e)] : f \in fact}
      /\ relation' = [r \in Relation |-> IF relation[r] = None THEN None
           ELSE [relation[r] EXCEPT !.from = to(relation[r].from), !.to = to(relation[r].to)]]
      /\ note' = [n \in Note |-> [note[n] EXCEPT !.mentions = to(note[n].mentions)]]
      /\ UNCHANGED <<birth, asked, entry, offer, gesture, verdicts, fate, crossings>>
  BY DEF K!Merge
<1>2. \A e \in Entity : to(e) \in Entity
  OBVIOUS
<1>3. entity[canonical] # None /\ entity[absorbed] # None
  BY <1>1 DEF K!Live, K!Born
<1>4. \A e \in Entity : entity[e] # None => entity[to(e)] # None
  BY <1>3
<1> HIDE DEF to
<1>5. /\ entity' \in [Entity -> {None} \cup K!EntityRow]
      /\ \A b \in Entity : entity[b] # None => entity'[b] # None
      /\ \A b \in Entity : entity'[b] # None /\ entity'[b].into # None => entity'[entity'[b].into] # None
  <2>1. PICK row : row = [entity[absorbed] EXCEPT !.into = canonical]
    OBVIOUS
  <2>2. entity[absorbed] \in K!EntityRow
    BY <1>3 DEF DeskInv, DeskTypes
  <2>3. row \in K!EntityRow /\ row.into = canonical
    BY <2>1, <2>2 DEF K!EntityRow
  <2>4. entity' = [entity EXCEPT ![absorbed] = row]
    BY <1>1, <2>1
  <2>5. QED
    BY <1>3, <2>3, <2>4, EntityBecomes
<1>6. \A x \in fact' : x \in K!FactRow /\ \E f \in fact : /\ x = [f EXCEPT !.e = to(f.e)]
                                                           /\ x.source = f.source /\ x.e = to(f.e)
  <2>1. ASSUME NEW f \in fact
        PROVE  /\ [f EXCEPT !.e = to(f.e)] \in K!FactRow /\ [f EXCEPT !.e = to(f.e)].source = f.source
               /\ [f EXCEPT !.e = to(f.e)].e = to(f.e)
    <3>1. f \in K!FactRow /\ f.e \in Entity
      BY DEF DeskInv, DeskTypes, K!FactRow
    <3>2. to(f.e) \in Entity
      BY <1>2, <3>1
    <3>3. QED
      BY <3>1, <3>2 DEF K!FactRow
  <2>2. QED
    BY <1>1, <2>1
<1>7. /\ relation' \in [Relation -> {None} \cup K!RelationRow]
      /\ \A r \in Relation : relation'[r] # None =>
           entity[relation'[r].from] # None /\ entity[relation'[r].to] # None
           /\ relation'[r].from \in Entity /\ relation'[r].to \in Entity
           /\ relation[r] # None
           /\ relation'[r].from = to(relation[r].from) /\ relation'[r].to = to(relation[r].to)
  <2>1. ASSUME NEW r \in Relation, relation[r] # None
        PROVE  \E row \in K!RelationRow :
                 /\ relation'[r] = row /\ row.from = to(relation[r].from) /\ row.to = to(relation[r].to)
                 /\ entity[row.from] # None /\ entity[row.to] # None /\ row.from \in Entity /\ row.to \in Entity
    <3>1. relation[r] \in K!RelationRow /\ relation[r].from \in Entity /\ relation[r].to \in Entity
      BY <2>1 DEF DeskInv, DeskTypes, K!RelationRow
    <3>2. PICK row : row = [relation[r] EXCEPT !.from = to(relation[r].from), !.to = to(relation[r].to)]
      OBVIOUS
    <3>3. to(relation[r].from) \in Entity /\ to(relation[r].to) \in Entity
      BY <1>2, <3>1
    <3>4. row \in K!RelationRow /\ row.from = to(relation[r].from) /\ row.to = to(relation[r].to)
      BY <3>1, <3>2, <3>3 DEF K!RelationRow
    <3>5. relation'[r] = row
      BY <1>1, <2>1, <3>2
    <3>6. entity[to(relation[r].from)] # None /\ entity[to(relation[r].to)] # None
      BY <1>4, <2>1, <3>1 DEF DeskInv, Births
    <3>7. QED
      BY <3>3, <3>4, <3>5, <3>6
  <2>2. ASSUME NEW r \in Relation, relation[r] = None PROVE relation'[r] = None
    BY <1>1, <2>2
  <2>3. DOMAIN relation' = Relation /\ relation' = [r \in Relation |-> relation'[r]]
    BY <1>1
  <2>4. \A r \in Relation : relation'[r] \in {None} \cup K!RelationRow
    BY <2>1, <2>2
  <2>5. relation' \in [Relation -> {None} \cup K!RelationRow]
    BY <2>3, <2>4
  <2>6. QED
    BY <2>1, <2>2, <2>5
<1>8. /\ note' \in [Note -> [review : {"pending", "confirmed"}, hidden : BOOLEAN, mentions : Entity]]
      /\ \A n \in Note : note'[n].mentions = to(note[n].mentions)
  <2> DEFINE NoteRow == [review : {"pending", "confirmed"}, hidden : BOOLEAN, mentions : Entity]
  <2>1. ASSUME NEW n \in Note
        PROVE  /\ [note[n] EXCEPT !.mentions = to(note[n].mentions)] \in NoteRow
               /\ [note[n] EXCEPT !.mentions = to(note[n].mentions)].mentions = to(note[n].mentions)
    <3>1. note[n] \in NoteRow /\ note[n].mentions \in Entity
      BY DEF DeskInv, DeskTypes
    <3>2. to(note[n].mentions) \in Entity
      BY <1>2, <3>1
    <3>3. QED
      BY <3>1, <3>2
  <2> HIDE DEF NoteRow
  <2>2. note' \in [Note -> NoteRow]
    BY <1>1, <2>1
  <2>3. \A n \in Note : note'[n].mentions = to(note[n].mentions)
    BY <1>1, <2>1
  <2>4. QED
    BY <2>2, <2>3 DEF NoteRow
<1>9. Onward
  BY <1>1, <1>5 DEF Onward
<1>10. DeskTypes'
  BY <1>1, <1>5, <1>6, <1>7, <1>8 DEF DeskInv, DeskTypes
<1>11. Births'
  <2>1. \A r \in Relation : relation'[r] # None =>
          entity'[relation'[r].from] # None /\ entity'[relation'[r].to] # None
    BY <1>5, <1>7
  <2>2. \A i \in Entry : entry[i] # None => entry[i].project \in Entity
    BY DeskFacts DEF DeskInv, DeskTypes, K!EntryRow
  <2>3. QED
    BY <1>1, <1>5, <2>1, <2>2 DEF DeskInv, Births
<1>s. \A s : (\E x \in fact' : x.source = s) <=> (\E x \in fact : x.source = s)
  <2>1. ASSUME NEW f \in fact PROVE \E x \in fact' : x.source = f.source
    <3>1. f \in K!FactRow
      BY DEF DeskInv, DeskTypes
    <3>2. [f EXCEPT !.e = to(f.e)].source = f.source
      BY <3>1 DEF K!FactRow
    <3>3. QED
      BY <1>1, <3>2
  <2>2. QED
    BY <1>6, <2>1
<1>12. FactsOnce'
  <2>1. ASSUME NEW x \in fact', NEW y \in fact', x.source = y.source, x.source \notin crossings PROVE x = y
    <3>1. PICK f \in fact : x = [f EXCEPT !.e = to(f.e)] /\ x.source = f.source
      BY <1>6
    <3>2. PICK g \in fact : y = [g EXCEPT !.e = to(g.e)] /\ y.source = g.source
      BY <1>6
    <3>3. f = g
      BY <2>1, <3>1, <3>2 DEF DeskInv, FactsOnce
    <3>4. QED
      BY <3>1, <3>2, <3>3
  <2>2. \A x \in fact' : x.source \in Fact => x.source \notin asked
    BY <1>6 DEF DeskInv, FactsOnce
  <2>3. \A f \in Fact : verdicts[f].yes = 1 <=> \E x \in fact' : x.source = f
    BY <1>s DEF DeskInv, FactsOnce
  <2>4. QED
    BY <1>1, <2>1, <2>2, <2>3 DEF DeskInv, FactsOnce
<1>13. EntriesOnce'
  BY <1>1, <1>s DEF DeskInv, EntriesOnce, EntryOnce
<1>14. Living'
  <2>1. /\ entity[absorbed] \in K!EntityRow /\ entity[canonical] \in K!EntityRow
        /\ entity \in [Entity -> {None} \cup K!EntityRow] /\ absorbed # canonical
    BY <1>3 DEF DeskInv, DeskTypes, K!Merge
  <2>2. \A e \in Entity : e # absorbed => entity'[e] = entity[e]
    BY <1>1, <2>1
  <2>3. \A e \in K!Live : to(e) \in K!Live'
    BY <1>1, <1>3, <2>1, <2>2 DEF to, K!Live, K!Born
  <2>4. \A r \in Relation \ crossings : relation'[r] # None =>
          relation'[r].from \in K!Live' /\ relation'[r].to \in K!Live'
    BY <1>7, <2>3 DEF DeskInv, Living
  <2>5. \A n \in Note : note'[n].mentions \in K!Live'
    BY <1>8, <2>3 DEF DeskInv, Living
  <2>6. \A x \in fact' : entity'[x.e] # None
    <3>1. ASSUME NEW x \in fact' PROVE entity'[x.e] # None
      <4>1. PICK f \in fact : x.e = to(f.e)
        BY <1>6
      <4>2. f.e \in Entity /\ entity[f.e] # None
        BY DEF DeskInv, DeskTypes, Living, K!FactRow
      <4>3. QED
        BY <1>2, <1>4, <1>5, <4>1, <4>2
    <3>2. QED
      BY <3>1
  <2>7. QED
    BY <1>1, <2>4, <2>5, <2>6 DEF Living
<1>15. QED
  BY <1>1, <1>9, <1>10, <1>11, <1>12, <1>13, <1>14, OffersStay, JobsStay DEF DeskInv

\* A new entry of a project takes an id that was never used.
LEMMA EntryInserted ==
  ASSUME DeskInv, NEW p \in Project, NEW capture \in Note \cup Offer \cup Entry, K!Insert(p, capture),
         \A e \in Entity : entity[e] # None => entity'[e] # None,
         entity'[p] # None, UNCHANGED <<fact, asked, verdicts, crossings>>,
         \A o \in Offer : offer'[o] = "pending" => capture # o /\ offer[o] = "pending"
  PROVE  /\ entry' \in [Entry -> K!EntryRow \cup {None}] /\ Offers' /\ FactsOnce' /\ EntriesOnce' /\ Onward
         /\ fate' \in [Entry -> {"unused", "kept", "detached"}]
         /\ \A i \in Entry : entry'[i] # None =>
              entry'[i].project \in Project /\ entity'[entry'[i].project] # None
<1>1. PICK j \in K!Unused : /\ entry' = [entry EXCEPT ![j] = [project |-> p, capture |-> capture]]
                            /\ fate' = [fate EXCEPT ![j] = "kept"]
  BY DEF K!Insert
<1>2. j \in Entry /\ fate[j] = "unused" /\ entry[j] = None /\ \A x \in fact : x.source # j
  BY <1>1 DEF K!Unused, DeskInv, EntriesOnce
<1>3. PICK row : row = [project |-> p, capture |-> capture]
  OBVIOUS
<1>4. row \in K!EntryRow /\ row.project = p /\ row.capture = capture /\ row # None
  BY <1>3, DeskFacts DEF K!EntryRow
<1>5. /\ entry \in [Entry -> K!EntryRow \cup {None}] /\ entry' = [entry EXCEPT ![j] = row]
      /\ fate \in [Entry -> {"unused", "kept", "detached"}]
  BY <1>1, <1>3 DEF DeskInv, DeskTypes
<1>6. /\ entry' \in [Entry -> K!EntryRow \cup {None}] /\ entry'[j] = row
      /\ \A i \in Entry : i # j => entry'[i] = entry[i]
      /\ fate' \in [Entry -> {"unused", "kept", "detached"}] /\ fate'[j] = "kept"
      /\ \A i \in Entry : i # j => fate'[i] = fate[i]
  BY <1>1, <1>2, <1>4, <1>5
<1>7. Offers'
  BY <1>4, <1>6 DEF DeskInv, Offers
<1>8. FactsOnce'
  BY DEF DeskInv, FactsOnce
<1>9. EntriesOnce'
  <2>1. EntriesOnce
    BY DEF DeskInv
  <2>2. ASSUME NEW i \in Entry
        PROVE  /\ fate'[i] = "unused" => entry'[i] = None /\ \A x \in fact : x.source # i
               /\ fate'[i] = "kept" => entry'[i] # None \/ \E x \in fact : x.source = i
               /\ i \notin crossings =>
                    /\ ~(entry'[i] # None /\ fate'[i] = "detached")
                    /\ \A x \in fact : x.source = i => entry'[i] = None /\ fate'[i] # "detached"
    <3>1. CASE i = j
      BY <1>2, <1>4, <1>6, <3>1
    <3>2. CASE i # j
      BY <1>6, <2>1, <3>2 DEF EntriesOnce, EntryOnce
    <3>3. QED
      BY <3>1, <3>2
  <2>3. QED
    BY <2>2 DEF EntriesOnce, EntryOnce
<1>10. Onward
  BY <1>6 DEF Onward
<1>11. ASSUME NEW i \in Entry, entry'[i] # None
       PROVE  entry'[i].project \in Project /\ entity'[entry'[i].project] # None
  <2>1. CASE i = j
    BY <1>4, <1>6, <2>1
  <2>2. CASE i # j
    <3>1. entry'[i] = entry[i] /\ entry[i] \in K!EntryRow
      BY <1>5, <1>6, <1>11, <2>2
    <3>2. entry[i].project \in Project /\ entity[entry[i].project] # None
      BY <1>11, <3>1 DEF DeskInv, Births, K!EntryRow
    <3>3. QED
      BY <3>1, <3>2, DeskFacts
  <2>3. QED
    BY <2>1, <2>2
<1>12. QED
  BY <1>6, <1>7, <1>8, <1>9, <1>10, <1>11

\* An entry that a request found is taken away: it is detached, or becomes a fact.
LEMMA EntryTaken ==
  ASSUME DeskInv, NEW i \in Entry, NEW read \in K!EntryRow, fate[i] # "unused",
         entry' = [entry EXCEPT ![i] = None],
         crossings' = IF entry[i] = read THEN crossings ELSE crossings \cup {i},
         UNCHANGED <<entity, offer, asked, verdicts>>,
         \/ fact' = fact /\ fate' = [fate EXCEPT ![i] = "detached"]
         \/ /\ fate' = fate
            /\ \E new \in K!FactRow : /\ new.source = i /\ fact' = fact \cup {new}
                                      /\ entity[new.e] # None
  PROVE  /\ entry' \in [Entry -> K!EntryRow \cup {None}] /\ fact' \subseteq K!FactRow
         /\ fate' \in [Entry -> {"unused", "kept", "detached"}] /\ crossings' \subseteq Entry \cup Relation
         /\ Offers' /\ FactsOnce' /\ EntriesOnce' /\ Onward /\ crossings \subseteq crossings'
         /\ \A x \in fact' : entity[x.e] # None \/ x \in fact
         /\ \A k \in Entry : entry'[k] # None => entry[k] = entry'[k]
<1>1. /\ entry \in [Entry -> K!EntryRow \cup {None}] /\ FactsOnce /\ EntriesOnce
      /\ fate \in [Entry -> {"unused", "kept", "detached"}]
  BY DEF DeskInv, DeskTypes
<1>2. entry'[i] = None /\ \A k \in Entry : k # i => entry'[k] = entry[k]
  BY <1>1
<1>3. crossings \subseteq crossings' /\ \A k \in Entry : k \notin crossings' => k \notin crossings
  OBVIOUS
<1>4. i \notin crossings' => i \notin crossings /\ fate[i] # "detached" /\ \A x \in fact : x.source # i
  <2>1. i \notin crossings' => entry[i] = read /\ i \notin crossings
    OBVIOUS
  <2>2. read # None
    BY DeskFacts
  <2>3. QED
    BY <1>1, <2>1, <2>2 DEF EntriesOnce, EntryOnce
<1>5. i \notin Fact
  BY DeskFacts
<1>6. fact \subseteq fact' /\ \A x \in fact' : x \in fact \/ (x.source = i /\ x \in K!FactRow /\ entity[x.e] # None)
  OBVIOUS
<1>7. \A x, y \in fact' : x \notin fact /\ y \notin fact => x = y
  OBVIOUS
<1>d. /\ fate' \in [Entry -> {"unused", "kept", "detached"}] /\ fate'[i] # "unused"
      /\ \A k \in Entry : k # i => fate'[k] = fate[k]
      /\ fate'[i] = "detached" \/ (fate'[i] = fate[i] /\ \E x \in fact' : x.source = i)
      /\ fate'[i] = "detached" => fate[i] = "detached" \/ fact' = fact
  BY <1>1
<1>8. FactsOnce'
  <2>1. ASSUME NEW x \in fact', NEW y \in fact', x.source = y.source, x.source \notin crossings' PROVE x = y
    <3>1. CASE x \in fact /\ y \in fact
      BY <1>1, <1>3, <2>1, <3>1 DEF FactsOnce
    <3>2. CASE x \notin fact /\ y \notin fact
      BY <1>7, <3>2
    <3>3. CASE ~(x \in fact <=> y \in fact)
      BY <1>4, <1>6, <2>1, <3>3
    <3>4. QED
      BY <3>1, <3>2, <3>3
  <2>2. \A x \in fact' : x.source \in Fact => x.source \notin asked
    BY <1>1, <1>5, <1>6 DEF FactsOnce
  <2>3. \A f \in Fact : verdicts'[f].yes + verdicts'[f].no = IF f \in asked' THEN 0 ELSE 1
    BY <1>1 DEF FactsOnce
  <2>4. \A f \in Fact : (\E x \in fact' : x.source = f) <=> (\E x \in fact : x.source = f)
    BY <1>5, <1>6
  <2>5. \A f \in Fact : verdicts'[f].yes = 1 <=> \E x \in fact' : x.source = f
    BY <1>1, <2>4 DEF FactsOnce
  <2>6. QED
    BY <2>1, <2>2, <2>3, <2>5 DEF FactsOnce
<1>9. EntriesOnce'
  <2>1. ASSUME NEW k \in Entry, k \notin crossings'
        PROVE  /\ ~(entry'[k] # None /\ fate'[k] = "detached")
               /\ \A x \in fact' : x.source = k => entry'[k] = None /\ fate'[k] # "detached"
    <3>1. CASE k = i
      BY <1>2, <1>4, <1>d, <2>1, <3>1
    <3>2. CASE k # i
      BY <1>1, <1>2, <1>3, <1>6, <1>d, <2>1, <3>2 DEF EntriesOnce, EntryOnce
    <3>3. QED
      BY <3>1, <3>2
  <2>2. ASSUME NEW k \in Entry
        PROVE  /\ fate'[k] = "unused" => entry'[k] = None /\ \A x \in fact' : x.source # k
               /\ fate'[k] = "kept" => entry'[k] # None \/ \E x \in fact' : x.source = k
    <3>1. CASE k = i
      BY <1>d, <3>1
    <3>2. CASE k # i
      BY <1>1, <1>2, <1>6, <1>d, <3>2 DEF EntriesOnce
    <3>3. QED
      BY <3>1, <3>2
  <2>3. QED
    BY <2>1, <2>2 DEF EntriesOnce, EntryOnce
<1>10. Offers'
  BY <1>1, <1>2 DEF DeskInv, Offers
<1>11. /\ entry' \in [Entry -> K!EntryRow \cup {None}] /\ fact' \subseteq K!FactRow
       /\ crossings' \subseteq Entry \cup Relation
  BY <1>1, <1>6 DEF DeskInv, DeskTypes
<1>12. Onward
  BY <1>d DEF Onward
<1>13. QED
  BY <1>2, <1>3, <1>6, <1>8, <1>9, <1>10, <1>11, <1>12, <1>d

LEMMA DeskCommits == ASSUME DeskInv, NEW h \in Request, K!Commit(h) PROVE DeskInv'
<1>1. PICK j : j = gesture[h]
  OBVIOUS
<1>2. Job(j) /\ gesture' = [gesture EXCEPT ![h] = K!Idle]
  BY <1>1 DEF DeskInv, K!Commit
<1>3. Project \subseteq Entity /\ Offer \subseteq Project
  BY DeskFacts
<1>4. CASE K!Create(j)
  <2>1. /\ j.op = "create" /\ UNCHANGED <<entity, birth, note, asked, fact, entry, offer, verdicts, fate>>
        /\ relation' = [relation EXCEPT ![j.r] =
             IF @ = None THEN [from |-> j.from, to |-> j.to, review |-> "confirmed"] ELSE @]
        /\ crossings' = IF {j.from, j.to} \subseteq K!Live THEN crossings ELSE crossings \cup {j.r}
    BY <1>4 DEF K!Create
  <2>2. /\ j.r \in Relation /\ j.from \in Entity /\ j.to \in Entity
        /\ entity[j.from] # None /\ entity[j.to] # None
    BY <1>2, <2>1 DEF Job
  <2>3. PICK row : row = [from |-> j.from, to |-> j.to, review |-> "confirmed"]
    OBVIOUS
  <2>4. row \in K!RelationRow /\ row.from = j.from /\ row.to = j.to
    BY <2>2, <2>3 DEF K!RelationRow
  <2>5. relation' \in [Relation -> {None} \cup K!RelationRow]
        /\ \A r \in Relation : relation'[r] = relation[r] \/ (r = j.r /\ relation'[r] = row)
    BY <2>1, <2>2, <2>3, <2>4 DEF DeskInv, DeskTypes
  <2>6. Onward
    BY <2>1 DEF Onward
  <2>7. DOMAIN gesture' = Request /\ \A g \in Request : Job(gesture[g])'
    BY <1>2, <2>6, JobEnds
  <2>8. crossings \subseteq crossings' /\ crossings' \subseteq Entry \cup Relation
        /\ \A i \in Entry \cup Fact : i \in crossings' => i \in crossings
    BY <2>1, <2>2, DeskFacts DEF DeskInv, DeskTypes
  <2>9. DeskTypes'
    BY <2>1, <2>5, <2>7, <2>8 DEF DeskInv, DeskTypes
  <2>10. Births'
    BY <2>1, <2>2, <2>4, <2>5 DEF DeskInv, Births
  <2>11. Living'
    <3>1. K!Live = K!Live'
      BY <2>1 DEF K!Live, K!Born
    <3>2. ASSUME NEW r \in Relation \ crossings', relation'[r] # None
          PROVE  relation'[r].from \in K!Live' /\ relation'[r].to \in K!Live'
      <4>1. CASE relation'[r] = relation[r]
        BY <2>8, <3>1, <3>2, <4>1 DEF DeskInv, Living
      <4>2. CASE r = j.r /\ relation'[r] = row
        BY <2>1, <2>4, <3>1, <3>2, <4>2
      <4>3. QED
        BY <2>5, <4>1, <4>2
    <3>3. QED
      BY <2>1, <3>1, <3>2 DEF DeskInv, Living
  <2>12. QED
    BY <2>1, <2>6, <2>7, <2>8, <2>9, <2>10, <2>11, OffersStay, FactsStay DEF DeskInv
<1>5. CASE K!Promote(j)
  <2>1. /\ j.op = "promote" /\ K!AddEntry(j.p, j.n)
        /\ entity' = [entity EXCEPT ![j.p] = IF @ = None THEN K!Fresh ELSE @]
        /\ note' = [note EXCEPT ![j.n].hidden = TRUE]
        /\ UNCHANGED <<birth, relation, asked, fact, offer, verdicts, crossings>>
    BY <1>5 DEF K!Promote
  <2>2. j.n \in Note /\ j.p \in Project /\ j.p \in Entity
    BY <1>2, <1>3, <2>1 DEF Job
  <2>3. PICK q \in Project : q \in {j.p, K!Find(j.p)} /\ K!Insert(q, j.n)
    BY <2>1 DEF K!AddEntry
  <2>4. /\ entity' \in [Entity -> {None} \cup K!EntityRow] /\ entity'[j.p] # None
        /\ \A b \in Entity : entity[b] # None => entity'[b] # None
        /\ \A b \in Entity : entity'[b] # None /\ entity'[b].into # None => entity'[entity'[b].into] # None
        /\ K!Live \subseteq K!Live'
    <3>1. PICK row : row = IF entity[j.p] = None THEN K!Fresh ELSE entity[j.p]
      OBVIOUS
    <3>2. /\ row \in K!EntityRow /\ (row.into # None => entity[row.into] # None)
          /\ entity[j.p] # None => entity[j.p].into = row.into
      BY <2>2, <3>1, FreshRow DEF DeskInv, DeskTypes
    <3>3. entity' = [entity EXCEPT ![j.p] = row]
      BY <2>1, <3>1
    <3>4. QED
      BY <2>2, <3>2, <3>3, EntityBecomes
  <2>6. entity'[q] # None
    <3>1. CASE q = j.p
      BY <2>4, <3>1
    <3>2. CASE q # j.p
      <4>1. q = K!Find(j.p) /\ q # None /\ q \in Entity
        BY <1>3, <2>3, <3>2, DeskFacts
      <4>2. entity[q] # None
        BY <2>2, <3>2, <4>1, SurvivorBorn
      <4>3. QED
        BY <2>4, <4>1, <4>2
    <3>3. QED
      BY <3>1, <3>2
  <2>7. \A o \in Offer : offer'[o] = "pending" => j.n # o /\ offer[o] = "pending"
    BY <2>1, <2>2, DeskFacts
  <2>8. /\ entry' \in [Entry -> K!EntryRow \cup {None}] /\ Offers' /\ FactsOnce' /\ EntriesOnce' /\ Onward
        /\ fate' \in [Entry -> {"unused", "kept", "detached"}]
        /\ \A i \in Entry : entry'[i] # None => entity'[entry'[i].project] # None
    BY <2>1, <2>2, <2>3, <2>4, <2>6, <2>7, EntryInserted
  <2>9. /\ note' \in [Note -> [review : {"pending", "confirmed"}, hidden : BOOLEAN, mentions : Entity]]
        /\ \A n \in Note : note'[n].mentions = note[n].mentions
    <3> DEFINE NoteRow == [review : {"pending", "confirmed"}, hidden : BOOLEAN, mentions : Entity]
    <3>1. note \in [Note -> NoteRow] /\ note[j.n] \in NoteRow
      BY <2>2 DEF DeskInv, DeskTypes
    <3>2. [note[j.n] EXCEPT !.hidden = TRUE] \in NoteRow /\ [note[j.n] EXCEPT !.hidden = TRUE].mentions = note[j.n].mentions
      BY <3>1
    <3>3. note' = [note EXCEPT ![j.n] = [note[j.n] EXCEPT !.hidden = TRUE]]
      BY <2>1
    <3> HIDE DEF NoteRow
    <3>4. note' \in [Note -> NoteRow]
      BY <3>1, <3>2, <3>3
    <3>5. \A n \in Note : note'[n].mentions = note[n].mentions
      BY <3>1, <3>2, <3>3
    <3>6. QED
      BY <3>4, <3>5 DEF NoteRow
  <2>10. DOMAIN gesture' = Request /\ \A g \in Request : Job(gesture[g])'
    BY <1>2, <2>8, JobEnds
  <2>11. DeskTypes'
    BY <2>1, <2>4, <2>8, <2>9, <2>10 DEF DeskInv, DeskTypes
  <2>12. Births'
    <3>1. \A r \in Relation : relation[r] # None => relation[r].from \in Entity /\ relation[r].to \in Entity
      BY DEF DeskInv, DeskTypes, K!RelationRow
    <3>2. QED
      BY <2>1, <2>4, <2>8, <3>1 DEF DeskInv, Births
  <2>13. Living'
    BY <2>1, <2>4, <2>8, <2>9, LivingStays
  <2>14. QED
    BY <2>8, <2>10, <2>11, <2>12, <2>13 DEF DeskInv
<1>6. CASE K!Move(j)
  <2>1. /\ j.op = "move" /\ UNCHANGED <<entity, birth, relation, note, asked, fact, offer, verdicts, fate>>
        /\ entry' = [entry EXCEPT ![j.i] = IF @ = None THEN None ELSE [@ EXCEPT !.project = j.p]]
        /\ crossings' = IF entry[j.i] = j.read THEN crossings ELSE crossings \cup {j.i}
    BY <1>6 DEF K!Move, K!Crossing
  <2>2. j.i \in Entry /\ j.p \in Project /\ entity[j.p] # None
    BY <1>2, <2>1 DEF Job
  <2>3. PICK row : row = IF entry[j.i] = None THEN None ELSE [entry[j.i] EXCEPT !.project = j.p]
    OBVIOUS
  <2>4. entry \in [Entry -> K!EntryRow \cup {None}] /\ entry' = [entry EXCEPT ![j.i] = row]
    BY <2>1, <2>3 DEF DeskInv, DeskTypes
  <2>5. /\ row \in K!EntryRow \cup {None} /\ (row = None <=> entry[j.i] = None)
        /\ row # None => row.project = j.p /\ row.capture = entry[j.i].capture
    <3>1. CASE entry[j.i] = None
      BY <2>3, <3>1
    <3>2. CASE entry[j.i] # None
      <4>1. entry[j.i] \in K!EntryRow
        BY <2>2, <2>4, <3>2
      <4>2. row \in K!EntryRow /\ row.project = j.p /\ row.capture = entry[j.i].capture
        BY <2>2, <2>3, <3>2, <4>1 DEF K!EntryRow
      <4>3. QED
        BY <3>2, <4>2, DeskFacts
    <3>3. QED
      BY <3>1, <3>2
  <2>6. /\ entry' \in [Entry -> K!EntryRow \cup {None}] /\ entry'[j.i] = row
        /\ \A i \in Entry : i # j.i => entry'[i] = entry[i]
    BY <2>2, <2>4, <2>5
  <2>7. crossings \subseteq crossings' /\ crossings' \subseteq Entry \cup Relation
    BY <2>1, <2>2 DEF DeskInv, DeskTypes
  <2>8. \A i \in Entry : /\ entry'[i] # None <=> entry[i] # None
                         /\ entry'[i] # None => entry'[i].capture = entry[i].capture
                                             /\ entity[entry'[i].project] # None
    BY <2>2, <2>5, <2>6 DEF DeskInv, Births
  <2>9. Onward
    BY <2>1 DEF Onward
  <2>10. DOMAIN gesture' = Request /\ \A g \in Request : Job(gesture[g])'
    BY <1>2, <2>9, JobEnds
  <2>11. DeskTypes'
    BY <2>1, <2>6, <2>7, <2>10 DEF DeskInv, DeskTypes
  <2>12. Births'
    BY <2>1, <2>8 DEF DeskInv, Births
  <2>13. Offers'
    BY <2>1, <2>8 DEF DeskInv, Offers
  <2>14. FactsOnce'
    BY <2>1, <2>7 DEF DeskInv, FactsOnce
  <2>15. EntriesOnce'
    BY <2>1, <2>7, <2>8 DEF DeskInv, EntriesOnce, EntryOnce
  <2>16. Living'
    BY <2>1, <2>7, <2>9, LivingStays DEF K!Live, K!Born
  <2>17. QED
    BY <2>10, <2>11, <2>12, <2>13, <2>14, <2>15, <2>16 DEF DeskInv
<1>7. CASE K!Attach(j)
  <2>1. /\ j.op = "attach" /\ K!Insert(j.p, j.read.capture)
        /\ UNCHANGED <<entity, birth, relation, note, asked, fact, offer, verdicts, crossings>>
    BY <1>7 DEF K!Attach
  <2>2. /\ j.p \in Project /\ entity[j.p] # None /\ j.read \in K!EntryRow
        /\ \A p \in Offer : offer[p] = "pending" => j.read.capture # p
    BY <1>2, <2>1 DEF Job
  <2>3. j.read.capture \in Note \cup Offer \cup Entry
    BY <2>2 DEF K!EntryRow
  <2>5. /\ entry' \in [Entry -> K!EntryRow \cup {None}] /\ Offers' /\ FactsOnce' /\ EntriesOnce' /\ Onward
        /\ fate' \in [Entry -> {"unused", "kept", "detached"}]
        /\ \A i \in Entry : entry'[i] # None => entity'[entry'[i].project] # None
    BY <2>1, <2>2, <2>3, EntryInserted
  <2>6. DOMAIN gesture' = Request /\ \A g \in Request : Job(gesture[g])'
    BY <1>2, <2>5, JobEnds
  <2>7. DeskTypes'
    BY <2>1, <2>5, <2>6 DEF DeskInv, DeskTypes
  <2>8. Births'
    BY <2>1, <2>5 DEF DeskInv, Births
  <2>9. Living'
    BY <2>1, <2>5, LivingStays DEF K!Live, K!Born
  <2>10. QED
    BY <2>5, <2>6, <2>7, <2>8, <2>9 DEF DeskInv
<1>8. CASE K!Detach(j) \/ K!Reclassify(j)
  <2>1. /\ j.op \in {"detach", "reclassify"} /\ (K!Reclassify(j) => j.op = "reclassify")
        /\ UNCHANGED <<entity, birth, relation, note, asked, offer, verdicts>>
        /\ entry' = [entry EXCEPT ![j.i] = None]
        /\ crossings' = IF entry[j.i] = j.read THEN crossings ELSE crossings \cup {j.i}
    BY <1>8 DEF K!Detach, K!Reclassify, K!Crossing
  <2>2. j.i \in Entry /\ j.read \in K!EntryRow /\ fate[j.i] # "unused"
        /\ (j.op = "reclassify" => j.e \in Entity /\ entity[j.e] # None)
    BY <1>2, <2>1 DEF Job
  <2>3. \/ fact' = fact /\ fate' = [fate EXCEPT ![j.i] = "detached"]
        \/ /\ fate' = fate
           /\ \E new \in K!FactRow : /\ new.source = j.i /\ fact' = fact \cup {new}
                                     /\ entity[new.e] # None
    <3>1. CASE K!Detach(j)
      BY <3>1 DEF K!Detach
    <3>2. CASE K!Reclassify(j)
      <4>1. K!NewFact(j.i, j.e) \in K!FactRow /\ K!NewFact(j.i, j.e).source = j.i
            /\ K!NewFact(j.i, j.e).e = j.e
        BY <2>1, <2>2, <3>2 DEF K!NewFact, K!FactRow
      <4>2. QED
        BY <2>1, <2>2, <3>2, <4>1 DEF K!Reclassify
    <3>3. QED
      BY <1>8, <3>1, <3>2
  <2>4. /\ entry' \in [Entry -> K!EntryRow \cup {None}] /\ fact' \subseteq K!FactRow
        /\ fate' \in [Entry -> {"unused", "kept", "detached"}] /\ crossings' \subseteq Entry \cup Relation
        /\ Offers' /\ FactsOnce' /\ EntriesOnce' /\ Onward /\ crossings \subseteq crossings'
        /\ \A x \in fact' : entity[x.e] # None \/ x \in fact
        /\ \A k \in Entry : entry'[k] # None => entry[k] = entry'[k]
    BY <2>1, <2>2, <2>3, EntryTaken
  <2>6. DOMAIN gesture' = Request /\ \A g \in Request : Job(gesture[g])'
    BY <1>2, <2>4, JobEnds
  <2>7. DeskTypes'
    BY <2>1, <2>4, <2>6 DEF DeskInv, DeskTypes
  <2>8. Births'
    BY <2>1, <2>4 DEF DeskInv, Births
  <2>9. Living'
    BY <2>1, <2>4, LivingStays DEF K!Live, K!Born
  <2>10. QED
    BY <2>4, <2>6, <2>7, <2>8, <2>9 DEF DeskInv
<1>9. CASE K!AcceptOffer(j)
  <2>1. /\ j.op = "accept offer" /\ K!AddEntry(j.p, j.p) /\ offer' = [offer EXCEPT ![j.p] = "accepted"]
        /\ UNCHANGED <<entity, birth, relation, note, asked, fact, verdicts, crossings>>
    BY <1>9 DEF K!AcceptOffer
  <2>2. j.p \in Offer /\ j.p \in Project /\ j.p \in Entity /\ entity[j.p] # None
    BY <1>2, <1>3, <2>1 DEF Job
  <2>3. PICK q \in Project : q \in {j.p, K!Find(j.p)} /\ K!Insert(q, j.p)
    BY <2>1 DEF K!AddEntry
  <2>4. entity'[q] # None
    BY <1>3, <2>1, <2>2, <2>3, SurvivorBorn, DeskFacts
  <2>5. offer' \in [Offer -> {"pending", "accepted", "rejected"}]
        /\ \A o \in Offer : offer'[o] = "pending" => offer[o] = "pending" /\ j.p # o
    BY <2>1, <2>2 DEF DeskInv, DeskTypes
  <2>7. /\ entry' \in [Entry -> K!EntryRow \cup {None}] /\ Offers' /\ FactsOnce' /\ EntriesOnce' /\ Onward
        /\ fate' \in [Entry -> {"unused", "kept", "detached"}]
        /\ \A i \in Entry : entry'[i] # None => entity'[entry'[i].project] # None
    <3>1. q \in Project /\ j.p \in Note \cup Offer \cup Entry /\ K!Insert(q, j.p)
      BY <2>2, <2>3
    <3>2. UNCHANGED <<fact, asked, verdicts, crossings>> /\ entity' = entity
      BY <2>1
    <3>3. \A o \in Offer : offer'[o] = "pending" => j.p # o /\ offer[o] = "pending"
      BY <2>5
    <3>4. QED
      BY <2>4, <3>1, <3>2, <3>3, EntryInserted
  <2>8. DOMAIN gesture' = Request /\ \A g \in Request : Job(gesture[g])'
    BY <1>2, <2>7, JobEnds
  <2>9. DeskTypes'
    BY <2>1, <2>5, <2>7, <2>8 DEF DeskInv, DeskTypes
  <2>10. Births'
    BY <2>1, <2>7 DEF DeskInv, Births
  <2>11. Living'
    BY <2>1, <2>7, LivingStays DEF K!Live, K!Born
  <2>12. QED
    BY <2>7, <2>8, <2>9, <2>10, <2>11 DEF DeskInv
<1>10. CASE K!RejectOffer(j)
  <2>1. /\ j.op = "reject offer" /\ offer' = [offer EXCEPT ![j.p] = "rejected"]
        /\ UNCHANGED <<entity, birth, relation, note, asked, fact, entry, verdicts, fate, crossings>>
    BY <1>10 DEF K!RejectOffer
  <2>2. offer' \in [Offer -> {"pending", "accepted", "rejected"}]
        /\ \A o \in Offer : offer'[o] = "pending" => offer[o] = "pending"
    BY <2>1 DEF DeskInv, DeskTypes
  <2>3. Onward
    BY <2>1, <2>2 DEF Onward
  <2>4. DOMAIN gesture' = Request /\ \A g \in Request : Job(gesture[g])'
    BY <1>2, <2>3, JobEnds
  <2>5. DeskTypes'
    BY <2>1, <2>2, <2>4 DEF DeskInv, DeskTypes
  <2>6. Births'
    BY <2>1 DEF DeskInv, Births
  <2>7. Living'
    BY <2>1, <2>3, LivingStays DEF K!Live, K!Born
  <2>8. QED
    BY <2>1, <2>3, <2>4, <2>5, <2>6, <2>7, OffersStay, FactsStay DEF DeskInv
<1>11. QED
  BY <1>1, <1>4, <1>5, <1>6, <1>7, <1>8, <1>9, <1>10 DEF K!Commit

LEMMA DeskStep == DeskInv /\ [K!Next]_(K!deskVars) => DeskInv'
<1> SUFFICES ASSUME DeskInv, [K!Next]_(K!deskVars) PROVE DeskInv'
  OBVIOUS
<1>1. CASE UNCHANGED K!deskVars
  <2>1. UNCHANGED <<entity, birth, relation, note, asked, fact, entry, offer, gesture, verdicts, fate, crossings>>
    BY <1>1 DEF K!deskVars, K!rows
  <2>2. DeskTypes' /\ Births' /\ Living' /\ Offers' /\ FactsOnce' /\ EntriesOnce'
    BY <2>1 DEF DeskInv, DeskTypes, Births, Living, K!Live, K!Born, Offers, FactsOnce, EntriesOnce, EntryOnce
  <2>3. Onward
    BY <2>1 DEF Onward
  <2>4. QED
    BY <2>1, <2>2, <2>3, JobsStay DEF DeskInv
<1>2. QED
  BY <1>1, DeskEntities, DeskMerges, DeskRelations, NotesChange, DeskLives, DeskAnswers, DeskChecks, DeskCommits
     DEF K!Next

\* What is shown follows.
LEMMA DeskShows == DeskInv => K!EachInItsPlace
<1> SUFFICES ASSUME DeskInv PROVE K!EachInItsPlace
  OBVIOUS
<1>f. ASSUME NEW e \in K!Live
      PROVE  /\ e \in Entity /\ entity[e] # None
             /\ K!Fiche(e) = [facts |-> {f \in fact : f.e = e /\ ~f.hidden /\ ~f.obsolete},
                              relations |-> {r \in Relation : K!Settled(r) /\ relation[r].from = e},
                              incoming |-> {r \in Relation : K!Settled(r) /\ relation[r].to = e}]
             /\ K!Fiche(e).facts = {f \in fact : f.e = e /\ ~f.hidden /\ ~f.obsolete}
             /\ K!Fiche(e).relations = {r \in Relation : K!Settled(r) /\ relation[r].from = e}
             /\ K!Fiche(e).incoming = {r \in Relation : K!Settled(r) /\ relation[r].to = e}
  BY <1>f DEF K!Fiche, K!Live, K!Born
<1>p. ASSUME NEW p \in Project, entity[p] # None PROVE K!ProjectState(p) # None
  <2>1. fact \subseteq K!FactRow
    BY DEF DeskInv, DeskTypes
  <2>2. K!ProjectState(p) = [entries |-> {i \in K!Held : entry[i].project = p},
                             facts |-> {f \in fact : f.e = p /\ ~f.hidden /\ ~f.obsolete}]
    BY <1>p, DeskFacts DEF K!ProjectState, K!Born
  <2>3. K!Held \subseteq Entry
    BY DEF K!Held
  <2>4. K!ProjectState(p) \in [entries : SUBSET Entry, facts : SUBSET K!FactRow]
    BY <2>1, <2>2, <2>3
  <2>5. QED
    BY <2>4, DeskFacts
<1>1. K!RelationsInPlace
  <2> SUFFICES ASSUME NEW r \in K!Drawn
      PROVE  LET a == relation[r].from
                 b == relation[r].to
             IN /\ relation[r].review = "pending" => r \in K!RelationsPending
                /\ K!Settled(r) /\ r \notin crossings =>
                     /\ {a, b} \subseteq K!Live /\ r \in K!Fiche(a).relations /\ r \in K!Fiche(b).incoming
                     /\ entity[a].status = "active" /\ entity[b].status = "active" => r \in K!MapEdges(TRUE)
    BY DEF K!RelationsInPlace
  <2>1. r \in Relation /\ relation[r] # None /\ relation[r] \in K!RelationRow
    BY DEF K!Drawn, DeskInv, DeskTypes
  <2>2. {relation[r].from, relation[r].to} \subseteq K!Born
    BY <2>1 DEF DeskInv, Births, K!Born, K!RelationRow
  <2>3. r \notin crossings => {relation[r].from, relation[r].to} \subseteq K!Live
    BY <2>1 DEF DeskInv, Living
  <2>4. relation[r].review = "pending" => r \in K!RelationsPending
    BY <2>2 DEF K!RelationsPending
  <2>5. ASSUME K!Settled(r), r \notin crossings
        PROVE  r \in K!Fiche(relation[r].from).relations /\ r \in K!Fiche(relation[r].to).incoming
    BY <1>f, <2>1, <2>3, <2>5
  <2>6. ASSUME K!Settled(r), r \notin crossings,
               entity[relation[r].from].status = "active", entity[relation[r].to].status = "active"
        PROVE  r \in K!MapEdges(TRUE)
    BY <1>f, <2>1, <2>3, <2>6 DEF K!MapEdges, K!MapEntities, K!Shown
  <2>7. QED
    BY <2>3, <2>4, <2>5, <2>6
<1>2. K!NotesInPlace
  BY DEF K!NotesInPlace, K!NotesList, K!MapNotes, DeskInv, Living
<1>c. \A X : K!Cardinality(X) = Cardinality(X)
  BY DEF K!Cardinality, Cardinality
<1>n. ASSUME NEW s, s \notin crossings
      PROVE  K!Cardinality(K!Generated(s)) = IF \E x \in fact : x.source = s THEN 1 ELSE 0
  <2>1. CASE \E x \in fact : x.source = s
    <3>1. PICK x \in fact : x.source = s
      BY <2>1
    <3>2. K!Generated(s) = {x}
      BY <1>n, <3>1 DEF DeskInv, FactsOnce, K!Generated
    <3>3. QED
      BY <1>c, <2>1, <3>2, FS_Singleton
  <2>2. CASE ~\E x \in fact : x.source = s
    <3>1. K!Generated(s) = {}
      BY <2>2 DEF K!Generated
    <3>2. QED
      BY <1>c, <2>2, <3>1, FS_EmptySet
  <2>3. QED
    BY <2>1, <2>2
<1>3. K!FactsInPlace
  <2>1. ASSUME NEW f \in Fact
        PROVE  /\ verdicts[f].yes + verdicts[f].no = IF f \in K!PendingFacts THEN 0 ELSE 1
               /\ K!Cardinality(K!Generated(f)) = verdicts[f].yes
    <3>1. verdicts[f].yes + verdicts[f].no = IF f \in asked THEN 0 ELSE 1
      BY DEF DeskInv, FactsOnce
    <3>2. f \notin crossings
      BY DeskFacts DEF DeskInv, DeskTypes
    <3>3. verdicts[f] \in [yes : {0, 1}, no : {0, 1}]
      BY DEF DeskInv, DeskTypes
    <3>4. verdicts[f].yes \in {0, 1} /\ (verdicts[f].yes = 1 <=> \E x \in fact : x.source = f)
      BY <3>3 DEF DeskInv, FactsOnce
    <3>5. QED
      BY <1>n, <3>1, <3>2, <3>4 DEF K!PendingFacts
  <2>2. ASSUME NEW x \in fact
        PROVE  x.e \in K!Born /\ x \in K!McpEntity(x.e).facts
    <3>1. x.e \in Entity /\ entity[x.e] # None
      BY DEF DeskInv, DeskTypes, Living, K!FactRow
    <3>2. QED
      BY <3>1 DEF K!McpEntity, K!Born
  <2>3. QED
    BY <2>1, <2>2 DEF K!FactsInPlace
<1>4. K!EntriesInPlace
  <2>1. \A p \in K!OfferQueue("pending"), i \in K!Held : entry[i].capture # p
    BY DEF K!OfferQueue, K!Held, DeskInv, Offers
  <2>2. \A i \in Entry : fate[i] = "kept" => i \in K!Held \/ K!Generated(i) # {}
    BY DEF K!Held, K!Generated, DeskInv, EntriesOnce
  <2>3. ASSUME NEW i \in Entry \ (K!Unused \cup crossings)
        PROVE  (IF i \in K!Held THEN 1 ELSE 0) + K!Cardinality(K!Generated(i))
                 = IF fate[i] = "detached" THEN 0 ELSE 1
    <3>1. fate[i] \in {"kept", "detached"}
      BY <2>3 DEF K!Unused, DeskInv, DeskTypes
    <3>2. i \in K!Held <=> entry[i] # None
      BY <2>3 DEF K!Held
    <3>3. EntryOnce(i) /\ (fate[i] = "kept" => entry[i] # None \/ \E x \in fact : x.source = i)
      BY <2>3 DEF DeskInv, EntriesOnce
    <3>4. CASE fate[i] = "detached"
      BY <1>n, <2>3, <3>2, <3>3, <3>4 DEF EntryOnce
    <3>5. CASE fate[i] = "kept"
      BY <1>n, <2>3, <3>2, <3>3, <3>5 DEF EntryOnce
    <3>6. QED
      BY <3>1, <3>4, <3>5
  <2>4. QED
    BY <2>1, <2>2, <2>3 DEF K!EntriesInPlace
<1>5. K!NoDeadEnd
  <2>1. K!BirthQueue("accepted") \subseteq K!Born
    BY DEF K!BirthQueue, K!Born, DeskInv, Births
  <2>2. ASSUME NEW i \in K!Held
        PROVE  /\ K!ProjectState(entry[i].project) # None
               /\ K!Shown(entry[i].project, FALSE) => entry[i].project \in K!ProjectsList
    <3>1. entry[i] \in K!EntryRow /\ entity[entry[i].project] # None
      BY <2>2 DEF K!Held, DeskInv, DeskTypes, Births
    <3>2. entry[i].project \in Project
      BY <3>1 DEF K!EntryRow
    <3>3. QED
      BY <1>p, <3>1, <3>2 DEF K!ProjectsList
  <2>3. QED
    BY <2>1, <2>2 DEF K!NoDeadEnd
<1>6. QED
  BY <1>1, <1>2, <1>3, <1>4, <1>5 DEF K!EachInItsPlace

LEMMA DeskAlone ==
  /\ Init /\ part = "desk" => K!Init
  /\ [Next]_vars /\ part = "desk" => [K!Next]_(K!deskVars)
<1>1. Init /\ part = "desk" => K!Init
  BY DEF Init
<1>2. ASSUME part = "desk", Next PROVE K!Next
  BY <1>2 DEF Next, Only, Config, Install, Session, Access, Review, Zones, Desk, Pull, Join, Home, Choice, K!Next
<1>3. QED
  BY <1>1, <1>2 DEF vars, desk, K!deskVars, K!rows

\* For any number of entities, projects, rows and requests, whatever gestures, answers and
\* merges cross one another: a pending fact gets one answer, and one fact for a yes; an
\* entry is there or a fact until it is detached; relations and notes follow the merges to
\* a living entity.  Not so for a relation created from ends read before one was absorbed,
\* nor, as to "once", for an entry that two requests crossed on (api/app.py,
\* dream_cycle/validation.py, mcp_server/server.py).
THEOREM RowsInTheirPlace == Spec => []EachInItsPlace
<1> DEFINE Inv == part = "desk" => DeskInv
<1>1. Init => Inv
  BY DeskAlone, DeskInit
<1>2. Inv /\ [Next]_vars => Inv'
  BY PartStays, DeskAlone, DeskStep
<1>3. Inv => EachInItsPlace
  BY DeskShows DEF EachInItsPlace
<1> HIDE DEF Inv
<1>4. QED
  BY <1>1, <1>2, <1>3, PTL DEF Spec

-----------------------------------------------------------------------------
(***************************************************************************)
(* The zones of the map.  The gain of a visit is computed from the totals  *)
(* the code keeps and from a level that stands for the whole map; so the   *)
(* invariant says that the level is the map with its rows and columns      *)
(* added up by membership, and that the totals are the sums of the degrees *)
(* of each community.  Modularity is then the excess within the            *)
(* communities of the level, and a move changes it by its gain.            *)
(***************************************************************************)

\* The matrix of a level: what leads from one node to another, its own loop counted twice.
Matrix(V, w, s) == [p \in V \X V |-> IF p[1] = p[2] THEN 2 * s[p[1]] ELSE w[L!Key(p[1], p[2])]]
NoLoops == [u \in L!Nodes |-> 0]
Map == Matrix(L!Nodes, edges, NoLoops)
Level == Matrix(L!Here, adj, selfW)

\* Louvain's sums are those of Sums, though the fold reaches them through an instance.
LEMMA SumsOfMap ==
  ASSUME NEW f PROVE /\ \A dom : L!SumFunctionOnSet(f, dom) = SumFunctionOnSet(f, dom)
                     /\ L!SumFunction(f) = SumFunctionOnSet(f, DOMAIN f)
<1>1. ASSUME NEW dom PROVE L!SumFunctionOnSet(f, dom) = SumFunctionOnSet(f, dom)
  BY DEF SumFunctionOnSet, FoldFunctionOnSet, MapThenFoldSet, L!SumFunctionOnSet, L!FoldFunctionOnSet, L!MapThenFoldSet
<1>2. QED
  BY <1>1 DEF L!SumFunction

\* What the proofs use of a matrix of weights w and loops s: symmetric, of naturals, w above the diagonal.
IsMatrix(V, w, s, M) ==
  /\ IsFiniteSet(V)
  /\ \A p \in V \X V : M[p] \in Nat
  /\ \A u, v \in V : M[<<u, v>>] = M[<<v, u>>]
  /\ \A u, v \in V : M[<<u, v>>] = IF u = v THEN 2 * s[u] ELSE w[L!Key(u, v)]
  /\ \A p \in L!Pairs(V) : p \in V \X V /\ M[p] = w[p]

\* The matrix of a level is one.
LEMMA LevelMatrix ==
  ASSUME NEW n \in Nat, NEW w \in [L!Pairs(1..n) -> Nat], NEW s \in [1..n -> Nat]
  PROVE  IsMatrix(1..n, w, s, Matrix(1..n, w, s))
<1> DEFINE M == Matrix(1..n, w, s)
<1>0. \A u, v \in 1..n : u # v => L!Key(u, v) \in L!Pairs(1..n)
  BY DEF L!Key, L!Pairs
<1>1. \A u, v \in 1..n : M[<<u, v>>] = IF u = v THEN 2 * s[u] ELSE w[L!Key(u, v)]
  BY DEF Matrix
<1> HIDE DEF M
<1>2. ASSUME NEW u \in 1..n, NEW v \in 1..n PROVE M[<<u, v>>] \in Nat
  <2>1. CASE u = v
    BY <1>1, <2>1
  <2>2. CASE u # v
    <3>1. w[L!Key(u, v)] \in Nat
      BY <1>0, <2>2
    <3>2. QED
      BY <1>1, <2>2, <3>1
  <2>3. QED
    BY <2>1, <2>2
<1>3. \A u, v \in 1..n : u # v => L!Key(u, v) = L!Key(v, u)
  BY DEF L!Key
<1>4. ASSUME NEW u \in 1..n, NEW v \in 1..n PROVE M[<<u, v>>] = M[<<v, u>>]
  <2>1. CASE u = v
    BY <2>1
  <2>2. CASE u # v
    BY <1>1, <1>3, <2>2
  <2>3. QED
    BY <2>1, <2>2
<1>5. ASSUME NEW p \in L!Pairs(1..n) PROVE p \in (1..n) \X (1..n) /\ M[p] = w[p]
  <2>1. p \in (1..n) \X (1..n) /\ p = <<p[1], p[2]>> /\ p[1] \in 1..n /\ p[2] \in 1..n /\ p[1] < p[2]
    BY DEF L!Pairs
  <2>2. L!Key(p[1], p[2]) = p /\ p[1] # p[2]
    BY <2>1 DEF L!Key
  <2>3. M[<<p[1], p[2]>>] = w[L!Key(p[1], p[2])]
    BY <1>1, <2>1, <2>2, Zenon
  <2>4. QED
    BY <2>1, <2>2, <2>3
<1>6. \A p \in (1..n) \X (1..n) : M[p] \in Nat
  <2> SUFFICES ASSUME NEW p \in (1..n) \X (1..n) PROVE M[p] \in Nat
    OBVIOUS
  <2>1. p = <<p[1], p[2]>> /\ p[1] \in 1..n /\ p[2] \in 1..n
    OBVIOUS
  <2>2. M[<<p[1], p[2]>>] \in Nat
    BY <1>2, <2>1, Zenon
  <2>3. QED
    BY <2>1, <2>2, Zenon
<1>7. IsFiniteSet(1..n)
  BY FS_Interval
<1>8. QED
  BY <1>1, <1>4, <1>5, <1>6, <1>7, Zenon DEF M, IsMatrix

\* The degree the code adds up is the sum of the row.
LEMMA LevelDegree ==
  ASSUME NEW n \in Nat, NEW w \in [L!Pairs(1..n) -> Nat], NEW s \in [1..n -> Nat], NEW u \in 1..n
  PROVE  /\ L!Degree(1..n, w, s, u) = SumFunctionOnSet(Row(Matrix(1..n, w, s), 1..n, u), 1..n)
         /\ L!Degree(1..n, w, s, u) \in Nat
<1> DEFINE M == Matrix(1..n, w, s)
           f == [v \in 1..n |-> IF v = u THEN 2 * s[u] ELSE w[L!Key(u, v)]]
<1>1. /\ IsFiniteSet(1..n) /\ \A p \in (1..n) \X (1..n) : M[p] \in Nat
      /\ \A a, b \in 1..n : M[<<a, b>>] = IF a = b THEN 2 * s[a] ELSE w[L!Key(a, b)]
  BY LevelMatrix DEF IsMatrix
<1>2. L!Degree(1..n, w, s, u) = SumFunctionOnSet(f, 1..n)
  BY SumsOfMap DEF L!Degree
<1>3. \A v \in 1..n : f[v] = Row(M, 1..n, u)[v] /\ f[v] \in Nat
  <2>1. \A v \in 1..n : M[<<u, v>>] \in Nat
    BY <1>1
  <2>2. \A v \in 1..n : M[<<u, v>>] = f[v] /\ Row(M, 1..n, u)[v] = M[<<u, v>>]
    BY <1>1 DEF Row
  <2>3. QED
    BY <2>1, <2>2
<1> HIDE DEF M, f
<1>4. SumFunctionOnSet(f, 1..n) = SumFunctionOnSet(Row(M, 1..n, u), 1..n)
  BY <1>1, <1>3, SumSame
<1>5. SumFunctionOnSet(f, 1..n) \in Nat
  BY <1>1, <1>3, SumIsNat
<1>6. QED
  BY <1>2, <1>4, <1>5 DEF M

\* The matrix sums to twice the total weight.
LEMMA LevelWeight ==
  ASSUME NEW n \in Nat, NEW w \in [L!Pairs(1..n) -> Nat], NEW s \in [1..n -> Nat]
  PROVE  LET M == Matrix(1..n, w, s)
             V == 1..n
         IN  /\ SumFunctionOnSet(M, V \X V) = 2 * (L!SumFunction(w) + L!SumFunction(s))
             /\ L!SumFunction(w) \in Nat /\ L!SumFunction(s) \in Nat
<1> DEFINE V == 1..n
           M == Matrix(V, w, s)
           Up == {p \in V \X V : p[1] < p[2]}
           d == [x \in V |-> M[<<x, x>>]]
<1>0. IsMatrix(V, w, s, M)
  BY LevelMatrix, Zenon
<1> HIDE DEF M
<1>1. /\ IsFiniteSet(V) /\ \A p \in V \X V : M[p] \in Nat
      /\ \A a, b \in V : M[<<a, b>>] = M[<<b, a>>]
      /\ \A a, b \in V : M[<<a, b>>] = IF a = b THEN 2 * s[a] ELSE w[L!Key(a, b)]
      /\ \A p \in L!Pairs(V) : M[p] = w[p]
  BY <1>0 DEF IsMatrix
<1>2. IsFiniteSet(Up) /\ Up = L!Pairs(V)
  <2>1. IsFiniteSet(V \X V)
    BY <1>1, FS_Product
  <2>2. QED
    BY <2>1, FS_Subset DEF L!Pairs
<1>3. L!SumFunction(w) = SumFunctionOnSet(w, Up) /\ L!SumFunction(s) = SumFunctionOnSet(s, V)
  BY <1>2, SumsOfMap
<1>4. SumFunctionOnSet(w, Up) \in Nat /\ SumFunctionOnSet(s, V) \in Nat
  BY <1>1, <1>2, SumIsNat
<1>5. 2 \in Int /\ \A x \in V : s[x] \in Int /\ d[x] = 2 * s[x]
  BY <1>1
<1>6. V \in SUBSET Int /\ \A p \in V \X V : M[p] \in Int
  BY <1>1
<1> HIDE DEF M, V, d
<1>7. SumFunctionOnSet(M, Up) = SumFunctionOnSet(w, Up)
  <2>1. \A p \in Up : M[p] = w[p]
    BY <1>1, <1>2
  <2>2. QED
    BY ONLY <2>1, <1>2, SumSame
<1>8. SumFunctionOnSet(d, V) = 2 * SumFunctionOnSet(s, V)
  BY <1>1, <1>5, SumScaled
<1>9. SumFunctionOnSet(M, V \X V) = 2 * SumFunctionOnSet(M, Up) + SumFunctionOnSet(d, V)
  BY <1>1, <1>6, SumTwice DEF d
<1>10. SumFunctionOnSet(M, V \X V) = 2 * (L!SumFunction(w) + L!SumFunction(s))
  BY <1>3, <1>4, <1>7, <1>8, <1>9
<1>11. QED
  BY <1>3, <1>4, <1>10 DEF M, V

\* Least is the least.
LEMMA LeastOf ==
  ASSUME NEW nums \in SUBSET Int, IsFiniteSet(nums), nums # {}
  PROVE  L!Least(nums) \in nums /\ \A y \in nums : L!Least(nums) <= y
<1> DEFINE f == [x \in nums |-> -x]
<1>1. \A x \in nums : f[x] \in Int
  OBVIOUS
<1>2. \E x \in nums : \A y \in nums : f[y] <= f[x]
  BY <1>1, HasGreatest
<1>3. \E x \in nums : \A y \in nums : x <= y
  BY <1>2
<1>4. QED
  BY <1>3 DEF L!Least

\* Louvain's cardinality is that of the library.
LEMMA CardinalityOfMap == \A S1 : L!Cardinality(S1) = Cardinality(S1)
BY DEF L!Cardinality, Cardinality

\* Compressed numbers the communities 1..k, one number each (graph_communities.py).
LEMMA CompressedCounts ==
  ASSUME NEW n \in Nat, n > 0, com \in [1..n -> 1..n]
  PROVE  LET c == L!Compressed
             k == L!Cardinality({c[u] : u \in L!Here})
         IN  /\ k \in 1..n /\ c \in [1..n -> 1..k]
             /\ \A u, v \in 1..n : c[u] = c[v] <=> com[u] = com[v]
<1> DEFINE c == L!Compressed
           First(u) == L!Least({v \in 1..n : com[v] = com[u]})
           Firsts == {First(v) : v \in 1..n}
           Upto(x) == {y \in Firsts : y <= x}
           count == [x \in Firsts |-> Cardinality(Upto(x))]
           Image == {c[u] : u \in 1..n}
           total == Cardinality(Firsts)
<1>0. L!Here = 1..n /\ IsFiniteSet(1..n) /\ Cardinality(1..n) = n
  BY FS_Interval DEF L!Here
<1>1. ASSUME NEW u \in 1..n PROVE First(u) \in 1..n /\ com[First(u)] = com[u]
  <2> DEFINE X == {v \in 1..n : com[v] = com[u]}
  <2>1. X \in SUBSET Int /\ X # {} /\ IsFiniteSet(X)
    BY <1>0, FS_Subset
  <2>2. L!Least(X) \in X
    BY <2>1, LeastOf
  <2>3. QED
    BY <2>2
<1>2. \A u, v \in 1..n : com[u] = com[v] => First(u) = First(v)
  OBVIOUS
<1> HIDE DEF First
<1>3. \A u, v \in 1..n : First(u) = First(v) <=> com[u] = com[v]
  BY <1>1, <1>2
<1>4. Firsts \subseteq 1..n /\ Firsts # {} /\ IsFiniteSet(Firsts) /\ total \in 1..n
  <2>1. Firsts \in SUBSET (1..n) /\ 1 \in 1..n
    BY <1>1
  <2>3. Firsts # {}
    BY <2>1
  <2> DEFINE V == 1..n
  <2>0. IsFiniteSet(V) /\ Cardinality(V) = n /\ Firsts \in SUBSET V
    BY <1>0, <2>1
  <2> HIDE DEF Firsts, V
  <2>2. IsFiniteSet(Firsts) /\ total <= n
    BY <2>0, FS_Subset
  <2>4. total \in Nat /\ total # 0
    BY <2>2, <2>3, FS_CardinalityType, FS_EmptySet
  <2>5. QED
    BY <2>1, <2>2, <2>3, <2>4
<1> HIDE DEF Firsts
<1>5. ASSUME NEW x \in Firsts PROVE count[x] \in 1..total
  <2>1. Upto(x) \in SUBSET Firsts /\ x \in Upto(x)
    BY <1>4
  <2>2. IsFiniteSet(Upto(x)) /\ Cardinality(Upto(x)) <= total
    BY <1>4, <2>1, FS_Subset
  <2>3. Cardinality(Upto(x)) \in Nat /\ Cardinality(Upto(x)) # 0
    BY <2>1, <2>2, FS_CardinalityType, FS_EmptySet
  <2>4. QED
    BY <1>4, <2>2, <2>3
<1>6. ASSUME NEW x \in Firsts, NEW y \in Firsts, x < y PROVE count[x] # count[y]
  <2>1. Upto(y) \in SUBSET Firsts /\ Upto(x) \in SUBSET Upto(y)
    <3>1. ASSUME NEW z \in Firsts, z <= x PROVE z <= y
      <4>1. z \in Int /\ x \in Int /\ y \in Int
        BY <1>4
      <4>2. QED
        BY <1>6, <3>1, <4>1
    <3>2. QED
      BY <3>1
  <2>2. y \in Upto(y) /\ y \notin Upto(x)
    BY <1>4, <1>6
  <2>3. IsFiniteSet(Upto(y))
    BY <1>4, <2>1, FS_Subset
  <2>4. Cardinality(Upto(x)) # Cardinality(Upto(y))
    BY <2>1, <2>2, <2>3, FS_Subset
  <2>5. QED
    BY <2>4
<1>7. \A x, y \in Firsts : count[x] = count[y] => x = y
  <2> SUFFICES ASSUME NEW x \in Firsts, NEW y \in Firsts, x # y PROVE count[x] # count[y]
    OBVIOUS
  <2>1. x < y \/ y < x
    BY <1>4
  <2>2. QED
    BY <1>6, <2>1
<1>8. c = [u \in 1..n |-> count[First(u)]]
  <2>1. ASSUME NEW u \in 1..n
        PROVE  First(u) \in Firsts /\ {First(v) : v \in {v \in 1..n : First(v) <= First(u)}} = Upto(First(u))
    BY DEF Firsts
  <2>2. c = [u \in 1..n |-> Cardinality({First(v) : v \in {v \in 1..n : First(v) <= First(u)}})]
    BY <1>0, CardinalityOfMap DEF L!Compressed, First
  <2>3. QED
    BY <2>1, <2>2
<1> HIDE DEF c, count
<1>9. \A u, v \in 1..n : c[u] = c[v] <=> com[u] = com[v]
  <2> SUFFICES ASSUME NEW u \in 1..n, NEW v \in 1..n PROVE c[u] = c[v] <=> com[u] = com[v]
    OBVIOUS
  <2>1. c[u] = count[First(u)] /\ c[v] = count[First(v)] /\ First(u) \in Firsts /\ First(v) \in Firsts
    BY <1>8 DEF Firsts
  <2>2. QED
    BY <1>3, <1>7, <2>1
<1>10. count \in [Firsts -> 1..total]
  BY <1>5 DEF count
<1>11. Image = {count[x] : x \in Firsts} /\ Image \in SUBSET (1..total)
  <2>1. \A u \in 1..n : c[u] = count[First(u)] /\ First(u) \in Firsts
    BY <1>8 DEF Firsts
  <2>2. \A x \in Firsts : \E u \in 1..n : x = First(u)
    BY DEF Firsts
  <2>3. Image = {count[x] : x \in Firsts}
    BY <2>1, <2>2
  <2>4. QED
    BY <1>5, <2>3
<1>12. Cardinality(Image) = total
  <2>1. count \in Bijection(Firsts, Image)
    <3>1. count \in [Firsts -> Image]
      BY <1>10, <1>11
    <3>2. \A y \in Image : \E x \in Firsts : count[x] = y
      BY <1>11
    <3>3. QED
      BY <1>7, <3>1, <3>2 DEF Bijection, Injection, Surjection, IsInjective
  <2>2. ExistsBijection(Firsts, Image)
    BY <2>1 DEF ExistsBijection
  <2>3. QED
    BY <1>4, <2>2, FS_Bijection
<1>13. Image = 1..total
  <2>1. IsFiniteSet(1..total) /\ Cardinality(1..total) = total
    BY <1>4, FS_Interval
  <2>2. QED
    BY <1>11, <1>12, <2>1, FS_Subset
<1>14. L!Cardinality({c[u] : u \in L!Here}) = total
  BY <1>0, <1>12, CardinalityOfMap
<1>15. c \in [1..n -> 1..total]
  BY <1>5, <1>8, <1>13
<1>16. QED
  BY <1>4, <1>9, <1>14, <1>15 DEF c

\* What Aggregated gives as weights and as loops, each group under its number.
AcrossGroups(n, w, k, c) ==
  [q \in L!Pairs(1..k) |-> SumFunctionOnSet(w, {p \in L!Pairs(1..n) : L!Key(c[p[1]], c[p[2]]) = q})]
InsideGroups(n, w, s, k, c) ==
  [a \in 1..k |-> SumFunctionOnSet(w, {p \in L!Pairs(1..n) : c[p[1]] = a /\ c[p[2]] = a})
                  + SumFunctionOnSet(s, {u \in 1..n : c[u] = a})]

\* The aggregated level is the collapse of the level by its groups: nothing is lost or counted twice.
LEMMA AggregatedCollapses ==
  ASSUME NEW n \in Nat, NEW w \in [L!Pairs(1..n) -> Nat], NEW s \in [1..n -> Nat], NEW k \in Nat,
         NEW c \in [1..n -> 1..k], NEW v1, NEW v2,
         v1 = AcrossGroups(n, w, k, c), v2 = InsideGroups(n, w, s, k, c)
  PROVE  /\ v1 \in [L!Pairs(1..k) -> Nat] /\ v2 \in [1..k -> Nat]
         /\ Collapses(Matrix(1..n, w, s), 1..n, c, Matrix(1..k, v1, v2), 1..k)
<1> DEFINE V == 1..n
           U == 1..k
           A == Matrix(V, w, s)
           B == Matrix(U, v1, v2)
           Fiber(a) == {u \in V : c[u] = a}
           Inside(a) == {p \in L!Pairs(V) : c[p[1]] = a /\ c[p[2]] = a}
           Across(q) == {p \in L!Pairs(V) : L!Key(c[p[1]], c[p[2]]) = q}
<1> USE DEF AcrossGroups, InsideGroups
<1>0. IsMatrix(V, w, s, A)
  BY LevelMatrix, Zenon
<1> HIDE DEF A
<1>1. /\ IsFiniteSet(V) /\ \A p \in V \X V : A[p] \in Nat
      /\ \A u, v \in V : A[<<u, v>>] = A[<<v, u>>]
      /\ \A u, v \in V : A[<<u, v>>] = IF u = v THEN 2 * s[u] ELSE w[L!Key(u, v)]
      /\ \A p \in L!Pairs(V) : p \in V \X V /\ A[p] = w[p]
  BY <1>0 DEF IsMatrix
<1>2. IsFiniteSet(L!Pairs(V)) /\ IsFiniteSet(U)
  <2>1. IsFiniteSet(V \X V) /\ L!Pairs(V) \in SUBSET (V \X V)
    BY <1>1, FS_Product DEF L!Pairs
  <2>2. QED
    BY <2>1, FS_Subset, FS_Interval
<1>3. /\ v1 = [q \in L!Pairs(U) |-> SumFunctionOnSet(w, Across(q))]
      /\ v2 = [a \in U |-> SumFunctionOnSet(w, Inside(a)) + SumFunctionOnSet(s, Fiber(a))]
  OBVIOUS
<1>4. ASSUME NEW q PROVE SumFunctionOnSet(w, Across(q)) \in Nat /\ IsFiniteSet(Across(q))
  <2>1. IsFiniteSet(Across(q)) /\ \A p \in Across(q) : w[p] \in Nat
    BY <1>2, FS_Subset
  <2>2. QED
    BY <2>1, SumIsNat
<1>5. ASSUME NEW a
      PROVE  /\ SumFunctionOnSet(w, Inside(a)) \in Nat /\ SumFunctionOnSet(s, Fiber(a)) \in Nat
             /\ IsFiniteSet(Inside(a)) /\ IsFiniteSet(Fiber(a))
  <2>1. /\ IsFiniteSet(Inside(a)) /\ (\A p \in Inside(a) : w[p] \in Nat)
        /\ IsFiniteSet(Fiber(a)) /\ \A u \in Fiber(a) : s[u] \in Nat
    BY <1>1, <1>2, FS_Subset
  <2>2. QED
    BY <2>1, SumIsNat
<1>6. v1 \in [L!Pairs(U) -> Nat] /\ v2 \in [U -> Nat]
  <2>1. \A q \in L!Pairs(U) : SumFunctionOnSet(w, Across(q)) \in Nat
    BY <1>4
  <2>2. \A a \in U : SumFunctionOnSet(w, Inside(a)) + SumFunctionOnSet(s, Fiber(a)) \in Nat
    <3> HIDE DEF Inside, Fiber
    <3>1. QED
      BY <1>5
  <2> HIDE DEF Across, Inside, Fiber, U
  <2>3. QED
    BY <1>3, <2>1, <2>2
<1>7a. IsMatrix(U, v1, v2, B)
  BY <1>6, LevelMatrix, Zenon
<1> HIDE DEF B
<1>7. \A a, b \in U : B[<<a, b>>] = IF a = b THEN 2 * v2[a] ELSE v1[L!Key(a, b)]
  BY <1>7a DEF IsMatrix
<1>8. ASSUME NEW a \in U PROVE B[<<a, a>>] = SumFunctionOnSet(A, Between(V, c, a, a))
  <2> DEFINE Z == Fiber(a)
             d == [x \in Z |-> A[<<x, x>>]]
             Up == {p \in Z \X Z : p[1] < p[2]}
  <2>1. Between(V, c, a, a) = Z \X Z
    BY DEF Between
  <2>2. /\ Z \in SUBSET Int /\ IsFiniteSet(Z) /\ (\A p \in Z \X Z : A[p] \in Int)
        /\ \A x, y \in Z : A[<<x, y>>] = A[<<y, x>>]
    <3>1. Z \in SUBSET V /\ V \in SUBSET Int /\ Z \X Z \subseteq V \X V
      OBVIOUS
    <3>2. IsFiniteSet(Z)
      BY <1>5
    <3> HIDE DEF Z, V
    <3>3. QED
      BY <1>1, <3>1, <3>2
  <2>3. SumFunctionOnSet(A, Z \X Z) = 2 * SumFunctionOnSet(A, Up) + SumFunctionOnSet(d, Z)
    BY <2>2, SumTwice
  <2>4. Up = Inside(a)
    BY DEF L!Pairs
  <2>5. SumFunctionOnSet(A, Up) = SumFunctionOnSet(w, Inside(a))
    <3>1. \A p \in Up : A[p] = w[p]
      BY <1>1, <2>4
    <3>2. IsFiniteSet(Inside(a))
      BY <1>5
    <3> HIDE DEF Up, Inside
    <3>3. QED
      BY <2>4, <3>1, <3>2, SumSame
  <2>6. SumFunctionOnSet(d, Z) = 2 * SumFunctionOnSet(s, Z)
    <3>1. 2 \in Int /\ \A x \in Z : s[x] \in Int /\ d[x] = 2 * s[x]
      BY <1>1
    <3> HIDE DEF d, Z
    <3>2. QED
      BY <2>2, <3>1, SumScaled
  <2>7. B[<<a, a>>] = 2 * (SumFunctionOnSet(w, Inside(a)) + SumFunctionOnSet(s, Z))
    BY <1>3, <1>7
  <2>8. SumFunctionOnSet(w, Inside(a)) \in Nat /\ SumFunctionOnSet(s, Z) \in Nat
    BY <1>5
  <2>9. ASSUME NEW x \in Nat, NEW y \in Nat PROVE 2 * (x + y) = 2 * x + 2 * y
    OBVIOUS
  <2> HIDE DEF Z, d, Up, Inside
  <2>10. QED
    BY <2>1, <2>3, <2>5, <2>6, <2>7, <2>8, <2>9
<1>9. ASSUME NEW a \in U, NEW b \in U, a # b
      PROVE  B[<<a, b>>] = SumFunctionOnSet(A, Between(V, c, a, b))
  <2> DEFINE X == Between(V, c, a, b)
             q == L!Key(a, b)
             h == [p \in X |-> L!Key(p[1], p[2])]
  <2>1. q \in L!Pairs(U)
    BY <1>9 DEF L!Key, L!Pairs
  <2>2. B[<<a, b>>] = SumFunctionOnSet(w, Across(q))
    <3>1. B[<<a, b>>] = v1[q]
      BY <1>7, <1>9
    <3> HIDE DEF q, Across
    <3>2. QED
      BY <1>3, <2>1, <3>1
  <2>3. ASSUME NEW p \in X
        PROVE  /\ p = <<p[1], p[2]>> /\ p[1] \in V /\ p[2] \in V /\ p[1] # p[2]
               /\ c[p[1]] = a /\ c[p[2]] = b
    BY <1>9 DEF Between
  <2>4. \A p \in X : h[p] \in Across(q)
    <3> SUFFICES ASSUME NEW p \in X PROVE L!Key(p[1], p[2]) \in Across(q)
      OBVIOUS
    <3> DEFINE i == p[1]
               j == p[2]
    <3>1. i \in V /\ j \in V /\ i # j /\ c[i] = a /\ c[j] = b
      BY <2>3
    <3> HIDE DEF i, j
    <3>2. L!Key(i, j) \in L!Pairs(V)
      BY <3>1 DEF L!Key, L!Pairs
    <3>3. L!Key(i, j) \in Across(q)
      <4>1. CASE i < j
        <5>1. L!Key(i, j) = <<i, j>>
          BY <4>1 DEF L!Key
        <5>2. L!Key(c[i], c[j]) = q
          BY <3>1
        <5>3. QED
          BY <3>2, <5>1, <5>2
      <4>2. CASE ~(i < j)
        <5>1. L!Key(i, j) = <<j, i>>
          BY <4>2 DEF L!Key
        <5>2. L!Key(c[j], c[i]) = q
          BY <1>9, <3>1 DEF L!Key
        <5>3. QED
          BY <3>2, <5>1, <5>2
      <4>3. QED
        BY <4>1, <4>2
    <3>4. QED
      BY <3>3 DEF i, j
  <2>5. \A p, r \in X : h[p] = h[r] => p = r
    <3> SUFFICES ASSUME NEW p \in X, NEW r \in X, L!Key(p[1], p[2]) = L!Key(r[1], r[2]) PROVE p = r
      OBVIOUS
    <3> DEFINE i == p[1]
               j == p[2]
               x == r[1]
               y == r[2]
    <3>1. /\ i \in V /\ j \in V /\ i # j /\ c[i] = a /\ c[j] = b /\ p = <<i, j>>
          /\ x \in V /\ y \in V /\ x # y /\ c[x] = a /\ c[y] = b /\ r = <<x, y>>
      BY <2>3
    <3>2. L!Key(i, j) = L!Key(x, y)
      OBVIOUS
    <3> HIDE DEF i, j, x, y
    <3>3. i = x /\ j = y
      BY <1>9, <3>1, <3>2 DEF L!Key
    <3>4. QED
      BY <3>1, <3>3
  <2>6. \A r \in Across(q) : \E p \in X : h[p] = r
    <3> SUFFICES ASSUME NEW r \in Across(q) PROVE \E p \in X : L!Key(p[1], p[2]) = r
      OBVIOUS
    <3> DEFINE x == r[1]
               y == r[2]
    <3>1. x \in V /\ y \in V /\ x < y /\ r = <<x, y>> /\ L!Key(c[x], c[y]) = L!Key(a, b)
      BY DEF L!Pairs
    <3> HIDE DEF x, y
    <3>2. (c[x] = a /\ c[y] = b) \/ (c[x] = b /\ c[y] = a)
      <4>1. c[x] \in U /\ c[y] \in U
        BY <3>1
      <4>2. QED
        BY <1>9, <3>1, <4>1 DEF L!Key
    <3>3. CASE c[x] = a /\ c[y] = b
      <4>1. <<x, y>> \in X
        BY <3>1, <3>3 DEF Between
      <4>2. L!Key(x, y) = r
        BY <3>1 DEF L!Key
      <4> HIDE DEF X
      <4>3. QED
        BY <4>1, <4>2
    <3>4. CASE c[x] = b /\ c[y] = a
      <4>1. <<y, x>> \in X
        BY <3>1, <3>4 DEF Between
      <4>2. x \in Int /\ y \in Int
        BY <3>1
      <4>3. L!Key(y, x) = r
        BY <3>1, <4>2 DEF L!Key
      <4> HIDE DEF X
      <4>4. QED
        BY <4>1, <4>3
    <3>5. QED
      BY <3>2, <3>3, <3>4
  <2>7. Renames(h, X, Across(q))
    BY <2>4, <2>5, <2>6 DEF Renames
  <2>8. \A p \in X : A[p] \in Int /\ w[h[p]] = A[p]
    <3> SUFFICES ASSUME NEW p \in X PROVE A[p] \in Int /\ w[L!Key(p[1], p[2])] = A[p]
      OBVIOUS
    <3>1. A[<<p[1], p[2]>>] = w[L!Key(p[1], p[2])]
      BY <1>1, <2>3
    <3>2. p \in V \X V /\ p = <<p[1], p[2]>>
      BY <2>3 DEF Between
    <3> HIDE DEF X, V, A
    <3>3. A[p] \in Nat
      BY <1>1, <3>2
    <3>4. A[p] = w[L!Key(p[1], p[2])]
      BY <3>1, <3>2
    <3>5. QED
      BY <3>3, <3>4
  <2>9. IsFiniteSet(X)
    <3>1. IsFiniteSet(V \X V) /\ X \in SUBSET (V \X V)
      BY <1>1, FS_Product DEF Between
    <3>2. QED
      BY <3>1, FS_Subset
  <2> HIDE DEF X, h, q
  <2>10. SumFunctionOnSet(w, Across(q)) = SumFunctionOnSet(A, X)
    BY <2>7, <2>8, <2>9, SumRenamed
  <2>11. QED
    BY <2>2, <2>10 DEF X
<1>10. Collapses(A, V, c, B, U)
  <2>1. ASSUME NEW a \in U, NEW b \in U PROVE B[<<a, b>>] = SumFunctionOnSet(A, Between(V, c, a, b))
    <3>1. CASE a = b
      BY <1>8, <3>1
    <3>2. CASE a # b
      BY <1>9, <3>2
    <3>3. QED
      BY <3>1, <3>2
  <2>2. \A p \in V \X V : A[p] \in Int
    BY <1>1
  <2>3. \A i \in V : c[i] \in U
    OBVIOUS
  <2>4. QED
    BY <1>1, <1>2, <2>1, <2>2, <2>3 DEF Collapses
<1>11. QED
  BY <1>6, <1>10 DEF A, B

\* What the assumption on Louvain's constants says.
LEMMA NodesOfMap == NNode \in Nat /\ NNode > 0 /\ Weight \subseteq Nat /\ L!Nodes = 1..NNode /\ NNode \in L!Nodes
                    /\ MaxPass \in Nat /\ MaxPass > 0 /\ MaxLevel \in Nat /\ MaxLevel > 0
BY PartsAssumption DEF L!LouvainAssumption, L!Nodes

\* The modularity of a grouping of the map is the excess within its groups.
LEMMA ModularityIsExcess ==
  ASSUME edges \in [L!Pairs(L!Nodes) -> Nat], NEW group
  PROVE  L!Modularity(group) = SumFunctionOnSet(Excess(Map, L!Nodes), Same(L!Nodes, group))
<1> DEFINE V == L!Nodes
           w == edges
           A == Matrix(V, w, NoLoops)
           m == SumFunctionOnSet(w, L!Pairs(V))
           m2 == SumFunctionOnSet(A, V \X V)
           d == [i \in V |-> L!Degree(V, w, NoLoops, i)]
           E == Excess(A, V)
           Zone(g) == {i \in V : group[i] = g}
           Gs == {group[i] : i \in V}
           Of(g) == SumFunctionOnSet(d, Zone(g))
           Q == [g \in Gs |-> m2 * SumFunctionOnSet(A, Zone(g) \X Zone(g)) - Of(g) * Of(g)]
           Terms == [g \in Gs |-> 4 * m * SumFunctionOnSet(w, L!Pairs(Zone(g))) - Of(g) * Of(g)]
<1>1. V = 1..NNode /\ NNode \in Nat /\ NoLoops \in [V -> Nat] /\ w \in [L!Pairs(V) -> Nat]
  BY NodesOfMap DEF NoLoops
<1>2. IsMatrix(V, w, NoLoops, A)
  BY <1>1, LevelMatrix
<1>3. \A i \in V : d[i] = RowSum(A, V, i) /\ d[i] \in Nat
  BY <1>1, LevelDegree DEF RowSum
<1>4. m2 = 2 * m /\ m \in Nat /\ L!SumFunction(w) = m
  <2>1. /\ m2 = 2 * (L!SumFunction(w) + L!SumFunction(NoLoops))
        /\ L!SumFunction(w) \in Nat /\ L!SumFunction(NoLoops) \in Nat
    BY <1>1, LevelWeight
  <2>2. L!SumFunction(w) = m
    <3>1. L!SumFunction(w) = SumFunctionOnSet(w, DOMAIN w)
      BY SumsOfMap
    <3>2. QED
      BY <1>1, <3>1
  <2>3. L!SumFunction(NoLoops) = 0
    <3>1. L!SumFunction(NoLoops) = SumFunctionOnSet(NoLoops, V)
      <4>1. L!SumFunction(NoLoops) = SumFunctionOnSet(NoLoops, DOMAIN NoLoops)
        BY SumsOfMap
      <4>2. QED
        BY <1>1, <4>1
    <3>2. IsFiniteSet(V) /\ \A u \in V : NoLoops[u] = 0
      BY <1>2 DEF IsMatrix, NoLoops
    <3>3. QED
      BY <3>1, <3>2, SumZero
  <2> HIDE DEF m2, m
  <2>4. QED
    BY <2>1, <2>2, <2>3
<1>5. L!Modularity(group) = SumFunctionOnSet(Terms, Gs)
  <2>1. L!Modularity(group) = L!SumFunction(Terms)
    <3> DEFINE OfL(g) == L!SumFunctionOnSet(d, Zone(g))
               S1 == [g \in Gs |-> 4 * L!SumFunction(w) * L!SumFunctionOnSet(w, L!Pairs(Zone(g))) - OfL(g) * OfL(g)]
    <3>1. L!Modularity(group) = L!SumFunction(S1)
      BY DEF L!Modularity, NoLoops
    <3>2. \A g : OfL(g) = Of(g) /\ L!SumFunctionOnSet(w, L!Pairs(Zone(g))) = SumFunctionOnSet(w, L!Pairs(Zone(g)))
      BY SumsOfMap
    <3>3. S1 = Terms
      <4> HIDE DEF Of, OfL, m, Gs, Zone
      <4>1. QED
        BY <1>4, <3>2
    <3>4. QED
      BY <3>1, <3>3
  <2>2. DOMAIN Terms = Gs
    OBVIOUS
  <2>3. L!SumFunction(Terms) = SumFunctionOnSet(Terms, DOMAIN Terms)
    BY SumsOfMap
  <2>4. QED
    BY <2>1, <2>2, <2>3
<1> HIDE DEF A, d, E
<1>6. /\ IsFiniteSet(V) /\ (\A p \in V \X V : A[p] \in Int) /\ \A i \in V : d[i] \in Int
      /\ \A x, y \in V : A[<<x, y>>] = A[<<y, x>>]
      /\ \A p \in L!Pairs(V) : A[p] = w[p]
  BY <1>2, <1>3 DEF IsMatrix
<1>7. \A p \in V \X V : E[p] = m2 * A[p] - d[p[1]] * d[p[2]]
  <2> SUFFICES ASSUME NEW p \in V \X V PROVE E[p] = m2 * A[p] - d[p[1]] * d[p[2]]
    OBVIOUS
  <2>1. d[p[1]] = RowSum(A, V, p[1]) /\ d[p[2]] = RowSum(A, V, p[2])
    BY <1>3
  <2>2. QED
    BY <2>1 DEF E, Excess
<1>8. SumFunctionOnSet(E, Same(V, group)) = SumFunctionOnSet(Q, Gs)
  <2>1. m2 \in Int
    BY <1>4
  <2>2. ByClass(V, group, A, d, m2, Gs, Q)
    BY DEF ByClass, Within, Class
  <2>3. Balance(V, A, d, m2, E)
    <3> HIDE DEF V, m2
    <3>1. QED
      BY <1>6, <1>7, <2>1 DEF Balance
  <2> HIDE DEF V, m2, Q, Gs
  <2>4. QED
    BY <2>2, <2>3, SumClasses
<1>9. ASSUME NEW g \in Gs PROVE Q[g] = Terms[g]
  <2> DEFINE Z == Zone(g)
             Up == {p \in Z \X Z : p[1] < p[2]}
             loops == [x \in Z |-> A[<<x, x>>]]
  <2>1. /\ Z \in SUBSET V /\ V \in SUBSET Int /\ Z \X Z \subseteq V \X V
    BY <1>1
  <2>2. /\ Z \in SUBSET Int /\ IsFiniteSet(Z) /\ (\A p \in Z \X Z : A[p] \in Int)
        /\ \A x, y \in Z : A[<<x, y>>] = A[<<y, x>>]
    <3> HIDE DEF Z, V
    <3>1. QED
      BY <1>6, <2>1, FS_Subset
  <2>3. SumFunctionOnSet(A, Z \X Z) = 2 * SumFunctionOnSet(A, Up) + SumFunctionOnSet(loops, Z)
    BY <2>2, SumTwice
  <2>4. SumFunctionOnSet(loops, Z) = 0
    <3>1. \A x \in Z : loops[x] = 0
      BY <1>2 DEF IsMatrix, NoLoops
    <3> HIDE DEF Z, loops
    <3>2. QED
      BY <2>2, <3>1, SumZero
  <2>5. Up = L!Pairs(Z) /\ Up \subseteq L!Pairs(V)
    BY DEF L!Pairs
  <2>6. IsFiniteSet(Up)
    BY <2>2, FS_Product, FS_Subset
  <2>7. SumFunctionOnSet(A, Up) = SumFunctionOnSet(w, Up) /\ SumFunctionOnSet(w, Up) \in Nat
    <3>1. \A p \in Up : A[p] = w[p] /\ w[p] \in Nat
      BY <1>1, <1>6, <2>5
    <3> HIDE DEF Up
    <3>2. QED
      BY <2>6, <3>1, SumSame, SumIsNat
  <2>8. Of(g) \in Int
    <3>1. \A x \in Z : d[x] \in Int
      BY <1>6, <2>1
    <3> HIDE DEF Z
    <3>2. SumFunctionOnSet(d, Z) \in Int
      BY <2>2, <3>1, SumIsInt
    <3>3. QED
      BY <3>2 DEF Z
  <2>9. /\ Q[g] = m2 * SumFunctionOnSet(A, Z \X Z) - Of(g) * Of(g)
        /\ Terms[g] = 4 * m * SumFunctionOnSet(w, Up) - Of(g) * Of(g)
    BY <2>5
  <2>10. ASSUME NEW x \in Nat, NEW y \in Nat PROVE (2 * x) * (2 * y + 0) = 4 * x * y
    OBVIOUS
  <2>11. m2 * SumFunctionOnSet(A, Z \X Z) = 4 * m * SumFunctionOnSet(w, Up)
    <3> HIDE DEF m2, m, Z, Up, loops
    <3>1. QED
      BY <1>4, <2>3, <2>4, <2>7, <2>10
  <2>12. QED
    BY <2>9, <2>11
<1>10. SumFunctionOnSet(Q, Gs) = SumFunctionOnSet(Terms, Gs)
  <2>1. IsFiniteSet(Gs)
    BY <1>6, ImageFinite
  <2> HIDE DEF Q, Terms, Gs
  <2>2. QED
    BY <1>9, <2>1, SumSame
<1>11. QED
  BY <1>5, <1>8, <1>10 DEF E, A, Map

-----------------------------------------------------------------------------
\* What a level is, by its number of nodes.
LevelOf(n) ==
  /\ n \in L!Nodes /\ L!Here = 1..n
  /\ adj \in [L!Pairs(1..n) -> Nat] /\ selfW \in [1..n -> Nat]
  /\ com \in [1..n -> 1..n] /\ stot \in [1..n -> Nat]
  /\ membership \in [L!Nodes -> 1..n] /\ at \in 0..n+1

\* The degrees of the level.
Degrees == [v \in L!Here |-> RowSum(Level, L!Here, v)]
\* The invariant: the level is the map collapsed by membership, and while nodes are visited the
\* totals are the sums of the degrees in each community.  A level not begun has each node on its own.
ZonesInv ==
  /\ L!TypeOK /\ (zones = <<>> => level <= MaxLevel)
  /\ Collapses(Map, L!Nodes, membership, Level, L!Here)
  /\ at # 0 => \A g \in L!Here : stot[g] = SumFunctionOnSet(Degrees, {v \in L!Here : com[v] = g})
  /\ at = 0 => \A u \in L!Here : com[u] = u

\* A typed state is at some level.
LEMMA ZonesLevel == L!TypeOK => \E n \in Nat : LevelOf(n)
<1> SUFFICES ASSUME L!TypeOK PROVE \E n \in Nat : LevelOf(n)
  OBVIOUS
<1>1. PICK n \in L!Nodes :
        /\ adj \in [L!Pairs(1..n) -> Nat] /\ selfW \in [1..n -> Nat]
        /\ com \in [1..n -> 1..n] /\ stot \in [1..n -> Nat]
        /\ membership \in [L!Nodes -> 1..n] /\ at \in 0..n+1
  BY DEF L!TypeOK
<1>2. L!Here = 1..n /\ n \in Nat
  BY <1>1, NodesOfMap DEF L!Here
<1>3. QED
  BY <1>1, <1>2, Zenon DEF LevelOf

\* What the level's matrix is, its sum and its degrees.
LEMMA LevelFacts ==
  ASSUME NEW n \in Nat, LevelOf(n)
  PROVE  /\ IsMatrix(1..n, adj, selfW, Level)
         /\ SumFunctionOnSet(Level, (1..n) \X (1..n)) = 2 * L!TotalWeight /\ L!TotalWeight \in Nat
         /\ \A u \in 1..n : /\ Degrees[u] = L!Degree(1..n, adj, selfW, u)
                            /\ Degrees[u] = RowSum(Level, 1..n, u) /\ Degrees[u] \in Nat
<1>0. L!Here = 1..n /\ adj \in [L!Pairs(1..n) -> Nat] /\ selfW \in [1..n -> Nat]
  BY DEF LevelOf
<1>1. Level = Matrix(1..n, adj, selfW)
  BY <1>0 DEF Level
<1>2. IsMatrix(1..n, adj, selfW, Level)
  BY <1>0, <1>1, LevelMatrix
<1>3. SumFunctionOnSet(Level, (1..n) \X (1..n)) = 2 * L!TotalWeight /\ L!TotalWeight \in Nat
  <2>1. /\ SumFunctionOnSet(Matrix(1..n, adj, selfW), (1..n) \X (1..n)) = 2 * (L!SumFunction(adj) + L!SumFunction(selfW))
        /\ L!SumFunction(adj) \in Nat /\ L!SumFunction(selfW) \in Nat
    BY <1>0, LevelWeight, Zenon
  <2>2. QED
    BY <1>1, <2>1 DEF L!TotalWeight
<1>4. ASSUME NEW u \in 1..n
      PROVE  /\ L!Degree(1..n, adj, selfW, u) = RowSum(Level, 1..n, u)
             /\ RowSum(Level, 1..n, u) \in Nat
  BY <1>0, <1>1, LevelDegree DEF RowSum
<1>5. \A u \in 1..n : Degrees[u] = RowSum(Level, 1..n, u)
  BY <1>0 DEF Degrees
<1>6. QED
  BY <1>2, <1>3, <1>4, <1>5

\* The modularity of the zones is the excess within the communities of the level.
LEMMA ModularityOfLevel ==
  ASSUME edges \in [L!Pairs(L!Nodes) -> Nat], NEW V, Collapses(Map, L!Nodes, membership, Level, V),
         NEW c, NEW group, \A i \in L!Nodes : group[i] = c[membership[i]]
  PROVE  L!Modularity(group) = SumFunctionOnSet(Excess(Level, V), Same(V, c))
<1>1. Collapses(Excess(Map, L!Nodes), L!Nodes, membership, Excess(Level, V), V)
  BY ExcessCollapsed
<1>2. L!Modularity(group) = SumFunctionOnSet(Excess(Map, L!Nodes), Same(L!Nodes, group))
  BY ModularityIsExcess
<1>3. QED
  BY <1>1, <1>2, ClassesCollapsed

\* The zones are numbered from 0, below the number of nodes.
LEMMA CanonicalBounds ==
  ASSUME NEW group
  PROVE  L!CanonicalIds(group) \in [L!Nodes -> 0..NNode - 1] /\ L!CanonicalIds(group) # <<>>
<1> DEFINE Members(i) == {j \in L!Nodes : group[j] = group[i]}
           Before(i, j) == \/ Cardinality(Members(i)) > Cardinality(Members(j))
                           \/ /\ Cardinality(Members(i)) = Cardinality(Members(j))
                              /\ L!Least(Members(i)) < L!Least(Members(j))
           Ahead(j) == {L!Least(Members(i)) : i \in {i \in L!Nodes : Before(i, j)}}
           ids == [j \in L!Nodes |-> Cardinality(Ahead(j))]
<1>1. L!CanonicalIds(group) = ids
  BY CardinalityOfMap DEF L!CanonicalIds
<1>2. IsFiniteSet(L!Nodes) /\ Cardinality(L!Nodes) = NNode /\ L!Nodes \in SUBSET Int
  BY NodesOfMap, FS_Interval
<1>3. ASSUME NEW i \in L!Nodes PROVE L!Least(Members(i)) \in L!Nodes /\ group[L!Least(Members(i))] = group[i]
  <2>1. Members(i) \in SUBSET Int /\ Members(i) # {} /\ Members(i) \in SUBSET L!Nodes
    BY <1>2
  <2>2. IsFiniteSet(Members(i))
    BY <1>2, <2>1, FS_Subset
  <2>3. L!Least(Members(i)) \in Members(i)
    BY <2>1, <2>2, LeastOf
  <2>4. QED
    BY <2>3
<1>4. ASSUME NEW j \in L!Nodes PROVE Cardinality(Ahead(j)) \in 0..NNode - 1
  <2> DEFINE x == L!Least(Members(j))
             Rest == L!Nodes \ {x}
  <2>1. ASSUME NEW i \in L!Nodes, Before(i, j) PROVE L!Least(Members(i)) \in Rest
    <3>1. CASE group[i] = group[j]
      <4>1. Members(i) = Members(j)
        BY <3>1
      <4>2. Cardinality(Members(j)) \in Int /\ x \in Int
        <5>1. IsFiniteSet(Members(j))
          BY <1>2, FS_Subset
        <5>2. QED
          <6>1. Cardinality(Members(j)) \in Nat
            BY <5>1, FS_CardinalityType
          <6>2. x \in L!Nodes
            BY <1>3
          <6> HIDE DEF Members, x
          <6>3. QED
            BY <1>2, <6>1, <6>2
      <4> HIDE DEF Members
      <4>3. QED
        BY <2>1, <4>1, <4>2
    <3>2. CASE group[i] # group[j]
      <4>1. L!Least(Members(i)) # x
        BY <1>3, <3>2
      <4>2. QED
        BY <1>3, <4>1
    <3>3. QED
      BY <3>1, <3>2
  <2>2. Ahead(j) \in SUBSET Rest
    BY <2>1
  <2>3. IsFiniteSet(Rest) /\ Cardinality(Rest) = NNode - 1
    BY <1>2, <1>3, FS_RemoveElement
  <2> HIDE DEF Ahead, Rest
  <2>4. IsFiniteSet(Ahead(j)) /\ Cardinality(Ahead(j)) <= NNode - 1
    BY <2>2, <2>3, FS_Subset
  <2>5. QED
    BY <2>4, NodesOfMap, FS_CardinalityType
<1> HIDE DEF Ahead
<1>5. ids \in [L!Nodes -> 0..NNode - 1]
  BY <1>4
<1>6. 1 \in L!Nodes
  BY NodesOfMap
<1>7. QED
  BY <1>1, <1>5, <1>6

\* The first level is the map itself.
LEMMA ZonesInit == L!Init => ZonesInv
<1> SUFFICES ASSUME L!Init PROVE ZonesInv
  OBVIOUS
<1>1. /\ edges \in [L!Pairs(L!Nodes) -> Weight] /\ adj = edges /\ selfW = NoLoops
      /\ com = [u \in L!Nodes |-> u] /\ stot = [u \in L!Nodes |-> 0]
      /\ at = 0 /\ moved = FALSE /\ pass = 0 /\ level = 1
      /\ membership = [u \in L!Nodes |-> u] /\ zones = <<>>
  BY DEF L!Init, NoLoops
<1>2. LevelOf(NNode)
  <2>1. L!Here = 1..NNode /\ L!Nodes = 1..NNode /\ NNode \in Nat /\ NNode \in L!Nodes
    BY <1>1, NodesOfMap DEF L!Here
  <2>2. /\ com \in [1..NNode -> 1..NNode] /\ stot \in [1..NNode -> Nat]
        /\ membership \in [1..NNode -> 1..NNode] /\ at \in 0..NNode + 1
        /\ selfW \in [1..NNode -> Nat]
    BY <1>1, <2>1 DEF NoLoops
  <2>3. adj \in [L!Pairs(1..NNode) -> Nat]
    <3>1. edges \in [L!Pairs(L!Nodes) -> Nat]
      BY <1>1, NodesOfMap
    <3>2. QED
      BY <1>1, <2>1, <3>1
  <2>4. QED
    BY <2>1, <2>2, <2>3, Zenon DEF LevelOf
<1>3. L!TypeOK
  <2>1. pass \in 0..MaxPass /\ level \in 1..MaxLevel + 1
    BY <1>1, NodesOfMap
  <2>2. moved \in BOOLEAN
    BY <1>1
  <2>3. QED
    BY <1>1, <1>2, <2>1, <2>2, Zenon DEF L!TypeOK, LevelOf
<1>4. Level = Map /\ L!Here = L!Nodes
  BY <1>1 DEF Level, Map, L!Here
<1>5. IsMatrix(1..NNode, adj, selfW, Level)
  BY <1>2, NodesOfMap, LevelFacts
<1>6. Collapses(Map, L!Nodes, membership, Level, L!Here)
  <2>1. IsFiniteSet(L!Nodes) /\ \A p \in L!Nodes \X L!Nodes : Map[p] \in Int
    BY <1>4, <1>5, NodesOfMap DEF IsMatrix
  <2>2. \A i \in L!Nodes : membership[i] = i
    BY <1>1
  <2>3. QED
    BY <1>4, <2>1, <2>2, CollapsesAlone
<1>7. QED
  BY <1>1, <1>3, <1>4, <1>6, NodesOfMap DEF ZonesInv

\* A step to a level of the right shape keeps the type.
LEMMA TypedAgain ==
  ASSUME NEW n, LevelOf(n)', L!TypeOK, edges' = edges, moved' \in BOOLEAN, pass' \in 0..MaxPass,
         level' \in 1..MaxLevel + 1,
         zones' = <<>> \/ zones' \in [L!Nodes -> 0..NNode - 1]
  PROVE  L!TypeOK'
<1>1. edges' \in [L!Pairs(L!Nodes) -> Weight]
  BY DEF L!TypeOK
<1>2. /\ n \in L!Nodes
      /\ adj' \in [L!Pairs(1..n) -> Nat] /\ selfW' \in [1..n -> Nat]
      /\ com' \in [1..n -> 1..n] /\ stot' \in [1..n -> Nat]
      /\ membership' \in [L!Nodes -> 1..n] /\ at' \in 0..n+1
  BY DEF LevelOf
<1>3. QED
  BY <1>1, <1>2, Zenon DEF L!TypeOK

\* Starting a level keeps the invariant and every group.
LEMMA BeginsLevel == ASSUME ZonesInv, L!BeginLevel PROVE ZonesInv' /\ L!Climbs
<1>1. PICK n \in Nat : LevelOf(n)
  BY ZonesLevel DEF ZonesInv
<1>2. at = 0 /\ zones = <<>> /\ UNCHANGED <<edges, level, membership>>
  BY DEF L!BeginLevel
<1>3. \A u \in L!Here : com[u] = u
  BY <1>2 DEF ZonesInv
<1>4. CASE L!TotalWeight = 0
  <2>1. zones' = L!CanonicalIds(membership) /\ UNCHANGED <<adj, selfW, com, stot, at, moved, pass>>
    BY <1>4 DEF L!BeginLevel
  <2>2. zones' \in [L!Nodes -> 0..NNode - 1] /\ zones' # <<>>
    BY <2>1, CanonicalBounds
  <2>3. ZonesInv'
    BY <1>2, <2>1, <2>2 DEF ZonesInv, L!TypeOK, Map, Level, L!Here, Degrees, L!Nodes
  <2>4. L!Groups' = L!Groups
    BY <1>2, <2>1 DEF L!Groups
  <2>5. QED
    BY <2>3, <2>4 DEF L!Climbs, L!SameZones
<1>5. CASE L!TotalWeight # 0
  <2>1. L!StartLevel(L!Here, adj, selfW) /\ UNCHANGED zones
    BY <1>5 DEF L!BeginLevel
  <2>2. /\ L!Here = 1..n /\ adj' = adj /\ selfW' = selfW /\ com' = [u \in 1..n |-> u]
        /\ stot' = [u \in 1..n |-> L!Degree(1..n, adj, selfW, u)]
        /\ at' = 1 /\ moved' = FALSE /\ pass' = 1
    BY <1>1, <2>1 DEF L!StartLevel, LevelOf
  <2>3. adj \in [L!Pairs(1..n) -> Nat] /\ selfW \in [1..n -> Nat]
    BY <1>1 DEF LevelOf
  <2>4. ASSUME NEW g \in 1..n
        PROVE  stot'[g] \in Nat /\ stot'[g] = SumFunctionOnSet(Degrees, {v \in 1..n : com'[v] = g})
    <3>1. Degrees[g] = L!Degree(1..n, adj, selfW, g) /\ Degrees[g] \in Nat
      BY <1>1, LevelFacts, Zenon
    <3>2. {v \in 1..n : com'[v] = g} = {g}
      BY <2>2
    <3>3. SumFunctionOnSet(Degrees, {g}) = Degrees[g]
      <4>1. Degrees[g] \in Int
        BY <3>1
      <4>2. QED
        BY <4>1, SumOne, Zenon
    <3>4. QED
      BY <2>2, <3>1, <3>2, <3>3
  <2>5. L!Here' = L!Here /\ Level' = Level /\ Map' = Map /\ Degrees' = Degrees
    <3>1. L!Here' = L!Here
      BY <2>2 DEF L!Here
    <3>2. QED
      BY <1>2, <2>2, <3>1 DEF Level, Map, Degrees
  <2>6. LevelOf(n)'
    <3>1. n \in L!Nodes /\ L!Here' = 1..n /\ membership' \in [L!Nodes -> 1..n]
      BY <1>1, <1>2, <2>2, <2>5 DEF LevelOf
    <3>2. com' \in [1..n -> 1..n] /\ at' \in 0..n+1
      BY <2>2
    <3>3. stot' \in [1..n -> Nat]
      BY <2>2, <2>4
    <3>4. QED
      BY <2>2, <2>3, <3>1, <3>2, <3>3 DEF LevelOf
  <2>7. L!TypeOK'
    <3>1. L!TypeOK /\ moved' \in BOOLEAN
      BY <2>2 DEF ZonesInv
    <3>1a. pass' \in 0..MaxPass
      BY <2>2, NodesOfMap
    <3>2. level' \in 1..MaxLevel + 1 /\ zones' = <<>>
      BY <1>2, <2>1, <3>1 DEF L!TypeOK
    <3>3. QED
      BY <1>2, <2>6, <3>1, <3>1a, <3>2, TypedAgain
  <2>8. ZonesInv'
    BY <1>2, <2>1, <2>2, <2>4, <2>5, <2>7 DEF ZonesInv
  <2>9. L!Groups' = L!Groups
    <3>1. \A i \in L!Nodes : membership[i] \in 1..n
      BY <1>1 DEF LevelOf
    <3>2. QED
      BY <1>2, <1>3, <2>2, <3>1 DEF L!Groups
  <2>10. QED
    BY <2>8, <2>9 DEF L!Climbs, L!SameZones
<1>6. QED
  BY <1>4, <1>5

\* So does another pass.
LEMMA PassesAgain == ASSUME ZonesInv, L!NextPass PROVE ZonesInv' /\ L!Climbs
<1>1. PICK n \in Nat : LevelOf(n)
  BY ZonesLevel DEF ZonesInv
<1>2. /\ at' = 1 /\ moved' = FALSE /\ pass' = pass + 1 /\ pass < MaxPass
      /\ UNCHANGED <<edges, adj, selfW, com, stot, level, membership, zones>>
  BY DEF L!NextPass
<1>3. at = n + 1 /\ at # 0
  <2>1. L!Cardinality(L!Here) = n
    BY <1>1, FS_Interval, CardinalityOfMap DEF LevelOf
  <2>2. at = L!Cardinality(L!Here) + 1
    BY DEF L!NextPass, L!EndOfPass
  <2>3. QED
    BY <2>1, <2>2
<1>4. LevelOf(n)'
  <2>1. at' \in 0..n+1
    BY <1>2
  <2>2. QED
    BY <1>1, <1>2, <2>1 DEF LevelOf, L!Here
<1>5. L!TypeOK'
  <2>1. L!TypeOK /\ moved' \in BOOLEAN
    BY <1>2 DEF ZonesInv
  <2>2. pass' \in 0..MaxPass
    BY <1>2, <2>1, NodesOfMap DEF L!TypeOK
  <2>3. level' \in 1..MaxLevel + 1 /\ (zones' = <<>> \/ zones' \in [L!Nodes -> 0..NNode - 1])
    BY <1>2, <2>1 DEF L!TypeOK
  <2>4. QED
    BY <1>2, <1>4, <2>1, <2>2, <2>3, TypedAgain
<1>6. ZonesInv'
  <2>1. L!Here' = L!Here /\ Level' = Level /\ Map' = Map /\ Degrees' = Degrees
    <3>1. L!Here' = L!Here
      BY <1>2 DEF L!Here
    <3>2. QED
      BY <1>2, <3>1 DEF Level, Map, Degrees
  <2>2. QED
    BY <1>2, <1>3, <1>5, <2>1 DEF ZonesInv
<1>7. L!Groups' = L!Groups
  BY <1>2 DEF L!Groups
<1>8. QED
  BY <1>6, <1>7 DEF L!Climbs, L!SameZones

-----------------------------------------------------------------------------
\* What the visited node exceeds its expectation by with the others of a community.
Left(g) == IF g = com[at] THEN stot[g] - Degrees[at] ELSE stot[g]
Others(g) == {v \in L!Here \ {at} : com[v] = g}

\* stot and Into are what the gain needs of the other nodes of a community.
LEMMA OthersOf ==
  ASSUME ZonesInv, NEW n \in Nat, LevelOf(n), at \in 1..n, NEW g \in 1..n
  PROVE  /\ Left(g) \in Int /\ L!Into(at, g) \in Int
         /\ IsFiniteSet(Others(g)) /\ SumFunctionOnSet(Degrees, Others(g)) = Left(g)
         /\ SumFunctionOnSet(Row(Excess(Level, 1..n), 1..n, at), Others(g))
              = 2 * L!TotalWeight * L!Into(at, g) - Left(g) * Degrees[at]
<1>0. IsMatrix(1..n, adj, selfW, Level)
  BY LevelFacts
<1> DEFINE V == 1..n
           m == 2 * L!TotalWeight
           E == Excess(Level, V)
           row == Row(E, V, at)
           w == [v \in V |-> L!W(at, v)]
           All == {v \in V : com[v] = g}
           X == {v \in V \ {at} : com[v] = g}
           k == Degrees[at]
           kd == [v \in V |-> k * Degrees[v]]
<1>1. IsMatrix(V, adj, selfW, Level)
  BY <1>0
<1>2. /\ SumFunctionOnSet(Level, V \X V) = m /\ m \in Int
  <2>1. SumFunctionOnSet(Level, V \X V) = m /\ L!TotalWeight \in Nat
    BY LevelFacts, Zenon
  <2>2. QED
    BY <2>1
<1>3. \A u \in V : Degrees[u] = RowSum(Level, V, u) /\ Degrees[u] \in Nat
  BY LevelFacts, Zenon
<1>4. L!Here = V /\ IsFiniteSet(V) /\ at \in V /\ com \in [V -> V] /\ stot \in [V -> Nat] /\ at # 0
  <2>1. IsFiniteSet(V)
    BY <1>1 DEF IsMatrix
  <2>2. at # 0
    OBVIOUS
  <2>3. QED
    BY <2>1, <2>2 DEF LevelOf
<1>5. \A v \in V \ {at} : w[v] = Level[<<at, v>>] /\ Level[<<at, v>>] \in Int
  <2> SUFFICES ASSUME NEW v \in V \ {at} PROVE w[v] = Level[<<at, v>>] /\ Level[<<at, v>>] \in Int
    OBVIOUS
  <2>1. <<at, v>> \in V \X V
    BY <1>4
  <2>2. w[v] = adj[L!Key(at, v)]
    BY DEF L!W
  <2> HIDE DEF V, w
  <2>3. at \in V /\ v \in V /\ at # v
    BY <1>4
  <2>4. Level[<<at, v>>] = adj[L!Key(at, v)] /\ Level[<<at, v>>] \in Nat
    BY <1>1, <2>1, <2>3 DEF IsMatrix
  <2>5. QED
    BY <2>2, <2>4
<1>6. w[at] = 0
  BY <1>4 DEF L!W
<1>7. \A v \in V : w[v] \in Int
  <2> SUFFICES ASSUME NEW v \in V PROVE w[v] \in Int
    OBVIOUS
  <2> HIDE DEF V, w
  <2>1. CASE v = at
    BY <1>6, <2>1
  <2>2. CASE v # at
    BY <1>5, <2>2
  <2>3. QED
    BY <2>1, <2>2
<1>8. \A v \in V \ {at} : row[v] = m * w[v] - kd[v]
  <2> SUFFICES ASSUME NEW v \in V \ {at} PROVE row[v] = m * w[v] - kd[v]
    OBVIOUS
  <2>1. row[v] = E[<<at, v>>] /\ <<at, v>> \in V \X V
    BY <1>4 DEF Row
  <2>2. E[<<at, v>>] = SumFunctionOnSet(Level, V \X V) * Level[<<at, v>>] - RowSum(Level, V, at) * RowSum(Level, V, v)
    BY <2>1 DEF Excess
  <2>3. RowSum(Level, V, at) = k /\ RowSum(Level, V, v) = Degrees[v]
    BY <1>3, <1>4
  <2>4. kd[v] = k * Degrees[v]
    OBVIOUS
  <2> HIDE DEF row, E, m, w, kd, V
  <2>5. QED
    BY <1>2, <1>5, <2>1, <2>2, <2>3, <2>4
<1>9. k \in Int /\ \A v \in V : Degrees[v] \in Int /\ kd[v] = k * Degrees[v] /\ kd[v] \in Int
  <2> SUFFICES ASSUME NEW v \in V PROVE k \in Int /\ Degrees[v] \in Int /\ kd[v] = k * Degrees[v] /\ kd[v] \in Int
    BY <1>4
  <2>1. k \in Int /\ Degrees[v] \in Int
    <3> HIDE DEF V
    <3>1. QED
      BY <1>3, <1>4
  <2>2. kd[v] = k * Degrees[v]
    OBVIOUS
  <2> HIDE DEF kd
  <2>3. k * Degrees[v] \in Int
    BY <2>1
  <2>4. QED
    BY <2>1, <2>2, <2>3
<1>10. IsFiniteSet(All) /\ IsFiniteSet(X) /\ X \subseteq V /\ at \notin X
  BY <1>4, FS_Subset
<1>11. L!Into(at, g) = SumFunctionOnSet(w, All)
  BY <1>4, SumsOfMap DEF L!Into
<1>12. stot[g] = SumFunctionOnSet(Degrees, All)
  BY <1>4 DEF ZonesInv
<1>13. Others(g) = X
  BY <1>4 DEF Others
<1> HIDE DEF row, E, m, w, kd, V, k
<1>14. SumFunctionOnSet(row, X) = m * SumFunctionOnSet(w, X) - SumFunctionOnSet(kd, X)
  <2>1. \A x \in X : w[x] \in Int /\ kd[x] \in Int /\ row[x] = m * w[x] - kd[x]
    BY <1>7, <1>8, <1>9
  <2> HIDE DEF X
  <2>2. QED
    BY <1>2, <1>10, <2>1, SumDifference
<1>15. SumFunctionOnSet(kd, X) = k * SumFunctionOnSet(Degrees, X)
  <2>1. \A x \in X : Degrees[x] \in Int /\ kd[x] = k * Degrees[x]
    BY <1>9
  <2> HIDE DEF X
  <2>2. QED
    BY <1>9, <1>10, <2>1, SumScaled
<1>16. /\ SumFunctionOnSet(w, X) \in Int /\ SumFunctionOnSet(Degrees, X) \in Int
       /\ SumFunctionOnSet(w, All) \in Int
  <2>1. (\A x \in X : w[x] \in Int /\ Degrees[x] \in Int) /\ \A x \in All : w[x] \in Int
    BY <1>7, <1>9
  <2> HIDE DEF X, All
  <2>2. QED
    BY <1>10, <2>1, SumIsInt
<1>17. SumFunctionOnSet(w, All) = SumFunctionOnSet(w, X) /\ SumFunctionOnSet(Degrees, X) = Left(g)
  <2>1. CASE g = com[at]
    <3>1. at \in All /\ X = All \ {at} /\ \A x \in All : w[x] \in Int /\ Degrees[x] \in Int
      BY <1>4, <1>7, <1>9, <2>1
    <3> HIDE DEF X, All
    <3>2. /\ SumFunctionOnSet(w, All) = w[at] + SumFunctionOnSet(w, X)
          /\ SumFunctionOnSet(Degrees, All) = Degrees[at] + SumFunctionOnSet(Degrees, X)
      <4>1. IsFiniteSet(All) /\ at \in All
        BY <1>10, <3>1
      <4>2. (\A x \in All : w[x] \in Int) /\ \A x \in All : Degrees[x] \in Int
        BY <3>1
      <4>3. SumFunctionOnSet(w, All) = w[at] + SumFunctionOnSet(w, All \ {at})
        BY <4>1, <4>2, SumWithout, Zenon
      <4>4. SumFunctionOnSet(Degrees, All) = Degrees[at] + SumFunctionOnSet(Degrees, All \ {at})
        BY <4>1, <4>2, SumWithout, Zenon
      <4>5. QED
        BY <3>1, <4>3, <4>4
    <3>3. Degrees[at] \in Int
      BY <3>1
    <3>4. QED
      BY <1>6, <1>12, <1>16, <2>1, <3>2, <3>3 DEF Left
  <2>2. CASE g # com[at]
    <3>1. X = All
      BY <1>4, <2>2
    <3>2. QED
      BY <1>12, <2>2, <3>1 DEF Left
  <2>3. QED
    BY <2>1, <2>2
<1>18. k * SumFunctionOnSet(Degrees, X) = Left(g) * Degrees[at]
  <2>1. ASSUME NEW x \in Int, NEW y \in Int PROVE x * y = y * x
    OBVIOUS
  <2>2. QED
    BY <1>9, <1>16, <1>17, <2>1 DEF k
<1>19. QED
  BY <1>10, <1>11, <1>13, <1>14, <1>15, <1>16, <1>17, <1>18 DEF row, E, V, m

\* A node that moves gains.
LEMMA BestGains ==
  ASSUME ZonesInv, NEW n \in Nat, LevelOf(n), at \in 1..n
  PROVE  LET best == L!Best(at)
         IN  best \in 1..n /\ (best # com[at] => L!ScaledGain(at, best) > 0)
<1> DEFINE V == 1..n
           best == L!Best(at)
           better == {g \in L!Neighbouring(at) : L!ScaledGain(at, g) > 0}
           top == {g \in better : \A d \in better : L!ScaledGain(at, d) <= L!ScaledGain(at, g)}
           f == [g \in better |-> L!ScaledGain(at, g)]
<1>1. L!Here = V /\ com \in [V -> V] /\ at \in V /\ IsFiniteSet(V) /\ V \in SUBSET Int
  <2>1. IsFiniteSet(V)
    BY FS_Interval
  <2>2. QED
    BY <2>1 DEF LevelOf
<1>2. better \in SUBSET V
  BY <1>1 DEF L!Neighbouring
<1>3. IsFiniteSet(better) /\ IsFiniteSet(top) /\ better \in SUBSET Int /\ top \in SUBSET Int
  <2>1. top \in SUBSET V
    BY <1>2
  <2> HIDE DEF better, top, V
  <2>2. QED
    BY <1>1, <1>2, <2>1, FS_Subset
<1>4. CASE better = {}
  BY <1>1, <1>4 DEF L!Best
<1>5. CASE better # {}
  <2>1. \A g \in better : f[g] \in Int
    <3> SUFFICES ASSUME NEW g \in better PROVE L!ScaledGain(at, g) \in Int
      OBVIOUS
    <3>1. g \in V /\ com[at] \in V
      BY <1>1, <1>2
    <3>2. /\ Left(g) \in Int /\ L!Into(at, g) \in Int /\ Left(com[at]) \in Int /\ L!Into(at, com[at]) \in Int
      BY <3>1, OthersOf, Zenon
    <3>3. L!TotalWeight \in Int /\ Degrees[at] \in Int
      <4>1. L!TotalWeight \in Nat /\ Degrees[at] \in Nat
        BY LevelFacts, Zenon
      <4>2. QED
        BY <4>1
    <3>4. L!ScaledGain(at, g) = (Left(com[at]) * Degrees[at] - 2 * L!TotalWeight * L!Into(at, com[at]))
                                 + (2 * L!TotalWeight * L!Into(at, g) - Left(g) * Degrees[at])
      <4>1. L!Degree(L!Here, adj, selfW, at) = Degrees[at]
        BY <1>1, LevelFacts
      <4>2. QED
        BY <4>1 DEF L!ScaledGain, Left
    <3>5. ASSUME NEW a1 \in Int, NEW a2 \in Int, NEW a3 \in Int, NEW a4 \in Int, NEW a5 \in Int, NEW a6 \in Int
          PROVE  (a1 * a2 - 2 * a3 * a4) + (2 * a3 * a5 - a6 * a2) \in Int
      OBVIOUS
    <3>6. QED
      BY <3>2, <3>3, <3>4, <3>5
  <2>2. \E x \in better : \A y \in better : f[y] <= f[x]
    <3> HIDE DEF better, f
    <3>1. QED
      BY <1>3, <1>5, <2>1, HasGreatest
  <2>3. top # {}
    BY <2>2
  <2>4. L!Least(top) \in top
    <3> HIDE DEF top
    <3>1. QED
      BY <1>3, <2>3, LeastOf
  <2>5. best = L!Least(top)
    BY <1>5 DEF L!Best
  <2>6. QED
    BY <1>2, <2>4, <2>5
<1>6. QED
  BY <1>4, <1>5

\* A visit keeps the invariant: the totals follow the node that moves.
LEMMA VisitKeeps == ASSUME ZonesInv, L!Visit PROVE ZonesInv'
<1> DEFINE best == L!Best(at)
           k == Degrees[at]
<1>1. PICK n \in Nat : LevelOf(n)
  BY ZonesLevel DEF ZonesInv
<1> DEFINE V == 1..n
<1>2. /\ L!Here = V /\ at \in V /\ at \in Nat /\ at # 0 /\ zones = <<>> /\ com \in [V -> V]
  <2>1. L!Here = V /\ com \in [V -> V]
    BY <1>1 DEF LevelOf
  <2>2. at \in V /\ zones = <<>>
    BY <2>1 DEF L!Visit
  <2>3. QED
    BY <2>1, <2>2
<1>3. best \in V
  BY <1>1, <1>2, BestGains, Zenon
<1>4. k = L!Degree(L!Here, adj, selfW, at) /\ k \in Nat /\ \A v \in V : Degrees[v] \in Nat
  <2>1. \A v \in V : Degrees[v] = L!Degree(V, adj, selfW, v) /\ Degrees[v] \in Nat
    BY <1>1, LevelFacts, Zenon
  <2> HIDE DEF V
  <2>2. QED
    BY <1>2, <2>1
<1>5. /\ stot' = [g \in V |-> Left(g) + (IF g = best THEN k ELSE 0)]
      /\ com' = [com EXCEPT ![at] = best] /\ moved' = (moved \/ best # com[at]) /\ at' = at + 1
      /\ UNCHANGED <<edges, adj, selfW, pass, level, membership, zones>>
  BY <1>2, <1>4 DEF L!Visit, Left
<1> HIDE DEF best, k
<1>6. com' \in [V -> V] /\ L!Here' = V
  BY <1>2, <1>3, <1>5 DEF L!Here
<1>7. Level' = Level /\ Map' = Map /\ Degrees' = Degrees
  BY <1>2, <1>5, <1>6 DEF Level, Map, Degrees
<1>8. ASSUME NEW g \in V
      PROVE  stot'[g] \in Nat /\ stot'[g] = SumFunctionOnSet(Degrees, {v \in V : com'[v] = g})
  <2> DEFINE X == Others(g)
             After == {v \in V : com'[v] = g}
  <2>1. /\ Left(g) \in Int /\ IsFiniteSet(X) /\ SumFunctionOnSet(Degrees, X) = Left(g)
    BY <1>1, <1>2, OthersOf, Zenon
  <2>2. X \subseteq V /\ at \notin X /\ After = IF g = best THEN X \cup {at} ELSE X
    <3>1. X = {v \in V \ {at} : com[v] = g}
      BY <1>2 DEF Others
    <3>2. com'[at] = best /\ \A v \in V \ {at} : com'[v] = com[v]
      BY <1>2, <1>5
    <3> HIDE DEF V, X
    <3>3. QED
      BY <1>2, <3>1, <3>2
  <2>3. (\A v \in X : Degrees[v] \in Nat) /\ (\A v \in X : Degrees[v] \in Int) /\ Degrees[at] \in Int
    <3> HIDE DEF X, V
    <3>1. QED
      BY <1>2, <1>4, <2>2
  <2>4. stot'[g] = Left(g) + (IF g = best THEN k ELSE 0)
    BY <1>5
  <2> HIDE DEF X, After, V
  <2>5. SumFunctionOnSet(Degrees, X) \in Nat
    BY <2>1, <2>3, SumIsNat
  <2>6. CASE g = best
    <3>1. SumFunctionOnSet(Degrees, X \cup {at}) = Degrees[at] + SumFunctionOnSet(Degrees, X)
      BY <2>1, <2>2, <2>3, SumAdd, Zenon
    <3>2. QED
      BY <1>4, <2>1, <2>2, <2>4, <2>5, <2>6, <3>1 DEF k, After
  <2>7. CASE g # best
    <3>1. After = X /\ stot'[g] = Left(g)
      BY <2>1, <2>2, <2>4, <2>7
    <3>2. QED
      BY <2>1, <2>5, <3>1 DEF After
  <2>8. QED
    BY <2>6, <2>7
<1>9. LevelOf(n)'
  <2>1. n \in L!Nodes /\ membership' \in [L!Nodes -> 1..n]
    BY <1>1, <1>5 DEF LevelOf
  <2>2. adj' \in [L!Pairs(1..n) -> Nat] /\ selfW' \in [1..n -> Nat]
    BY <1>1, <1>5 DEF LevelOf
  <2>3. stot' \in [1..n -> Nat]
    BY <1>5, <1>8
  <2>4. at' \in 0..n+1
    <3>1. at' = at + 1 /\ at \in 1..n
      BY <1>2, <1>5
    <3>2. QED
      BY <3>1
  <2>5. QED
    BY <1>6, <2>1, <2>2, <2>3, <2>4 DEF LevelOf
<1>10. L!TypeOK'
  <2>1. L!TypeOK /\ zones' = <<>>
    BY <1>2, <1>5 DEF ZonesInv
  <2>2. moved' \in BOOLEAN
    BY <1>5, <2>1 DEF L!TypeOK
  <2>3. pass' \in 0..MaxPass /\ level' \in 1..MaxLevel + 1
    BY <1>5, <2>1 DEF L!TypeOK
  <2>4. QED
    BY <1>5, <1>9, <2>1, <2>2, <2>3, TypedAgain
<1>11. at' # 0
  BY <1>2, <1>5
<1>12. QED
  BY <1>2, <1>5, <1>6, <1>7, <1>8, <1>10, <1>11 DEF ZonesInv

\* A visit that moves a node makes the modularity greater.
LEMMA VisitClimbs == ASSUME ZonesInv, L!Visit PROVE L!Climbs
<1> DEFINE best == L!Best(at)
<1>1. PICK n \in Nat : LevelOf(n)
  BY ZonesLevel DEF ZonesInv
<1> DEFINE V == 1..n
           E == Excess(Level, V)
<1>2. L!Here = V /\ at \in V /\ com \in [V -> V] /\ membership \in [L!Nodes -> V]
  BY <1>1 DEF L!Visit, LevelOf
<1>3. best \in V /\ (best # com[at] => L!ScaledGain(at, best) > 0)
  BY <1>1, <1>2, BestGains, Zenon
<1>4. com' = [com EXCEPT ![at] = best] /\ UNCHANGED <<edges, membership>>
  BY DEF L!Visit
<1>5. CASE best = com[at]
  <2>1. com' = com
    BY <1>2, <1>4, <1>5
  <2>2. L!Groups' = L!Groups
    BY <1>4, <2>1 DEF L!Groups
  <2>3. QED
    BY <2>2 DEF L!Climbs, L!SameZones
<1>6. CASE best # com[at]
  <2> DEFINE new == com'
             before == L!Modularity(L!Groups)
             after == L!Modularity(L!Groups')
             row == Row(E, V, at)
             There == {v \in V \ {at} : com[v] = new[at]}
             Behind == {v \in V \ {at} : com[v] = com[at]}
  <2>1. new[at] = best /\ \A v \in V \ {at} : new[v] = com[v]
    BY <1>2, <1>4
  <2>2. edges \in [L!Pairs(L!Nodes) -> Nat] /\ Collapses(Map, L!Nodes, membership, Level, V)
    BY <1>2, NodesOfMap DEF ZonesInv, L!TypeOK
  <2>3. \A i \in L!Nodes : L!Groups[i] = com[membership[i]] /\ L!Groups'[i] = new[membership[i]]
    BY <1>4 DEF L!Groups
  <2>4. before = SumFunctionOnSet(E, Same(V, com))
    BY <2>2, <2>3, ModularityOfLevel
  <2>5. after = SumFunctionOnSet(E, Same(V, new))
    <3> DEFINE group == L!Groups'
    <3>1. \A i \in L!Nodes : group[i] = new[membership[i]]
      BY <2>3
    <3> HIDE DEF group, new
    <3>2. L!Modularity(group) = SumFunctionOnSet(E, Same(V, new))
      BY <2>2, <3>1, ModularityOfLevel
    <3>3. QED
      BY <3>2 DEF group
  <2>6. /\ IsFiniteSet(V) /\ (\A p \in V \X V : E[p] \in Int) /\ \A v \in V : E[<<v, at>>] = E[<<at, v>>]
    <3>1. IsMatrix(V, adj, selfW, Level)
      BY <1>1, LevelFacts, Zenon
    <3>2. IsFiniteSet(V) /\ (\A p \in V \X V : Level[p] \in Int) /\ \A u, v \in V : Level[<<u, v>>] = Level[<<v, u>>]
      <4> HIDE DEF V
      <4>1. QED
        BY <3>1 DEF IsMatrix
    <3> HIDE DEF V
    <3>3. \A p \in V \X V : E[p] \in Int
      BY <3>2, ExcessIsInt
    <3>4. ASSUME NEW v \in V PROVE E[<<v, at>>] = E[<<at, v>>]
      <4>1. <<v, at>> \in V \X V /\ <<at, v>> \in V \X V /\ Level[<<v, at>>] = Level[<<at, v>>]
        BY <1>2, <3>2
      <4>2. RowSum(Level, V, v) \in Int /\ RowSum(Level, V, at) \in Int
        BY <1>2, <3>2, ExcessIsInt
      <4>3. RowSum(Level, V, v) * RowSum(Level, V, at) = RowSum(Level, V, at) * RowSum(Level, V, v)
        BY <4>2
      <4>4. QED
        BY <4>1, <4>3 DEF Excess
    <3>5. QED
      BY <3>2, <3>3, <3>4
  <2>7. There = Others(best) /\ Behind = Others(com[at])
    BY <1>2, <2>1 DEF Others
  <2> HIDE DEF E, V, row, There, Behind, before, after, best, new
  <2>8. SumFunctionOnSet(E, Same(V, new))
          = SumFunctionOnSet(E, Same(V, com)) + 2 * (SumFunctionOnSet(row, There) - SumFunctionOnSet(row, Behind))
    BY <1>2, <1>6, <2>1, <2>6, MoveGain DEF row, There, Behind
  <2>9. SumFunctionOnSet(E, Same(V, com)) \in Int
    <3>1. Same(V, com) \in SUBSET (V \X V)
      BY DEF Same
    <3>2. IsFiniteSet(Same(V, com)) /\ \A p \in Same(V, com) : E[p] \in Int
      BY <2>6, <3>1, FS_Product, FS_Subset
    <3>3. QED
      BY <3>2, SumIsInt
  <2> DEFINE m == L!TotalWeight
             k == Degrees[at]
             x == Left(best)
             y == Left(com[at])
             a == L!Into(at, best)
             b == L!Into(at, com[at])
  <2>10. /\ x \in Int /\ a \in Int /\ SumFunctionOnSet(row, There) = 2 * m * a - x * k
         /\ y \in Int /\ b \in Int /\ SumFunctionOnSet(row, Behind) = 2 * m * b - y * k
    <3>1. com[at] \in V
      BY <1>2
    <3>2. ASSUME NEW g \in V
          PROVE  /\ Left(g) \in Int /\ L!Into(at, g) \in Int
                 /\ SumFunctionOnSet(row, Others(g)) = 2 * L!TotalWeight * L!Into(at, g) - Left(g) * Degrees[at]
      BY <1>1, <1>2, OthersOf, Zenon DEF V, row, E
    <3>3. QED
      BY <1>3, <2>7, <3>1, <3>2
  <2>11. m \in Int /\ k \in Int
    <3>1. m \in Nat /\ \A u \in V : Degrees[u] = L!Degree(V, adj, selfW, u) /\ Degrees[u] \in Nat
      BY <1>1, LevelFacts, Zenon DEF V
    <3>2. QED
      BY <1>2, <3>1
  <2>12. L!ScaledGain(at, best) = (y * k - 2 * m * b) + (2 * m * a - x * k)
    <3>1. \A u \in V : Degrees[u] = L!Degree(V, adj, selfW, u)
      BY <1>1, LevelFacts, Zenon DEF V
    <3>2. L!Degree(L!Here, adj, selfW, at) = Degrees[at]
      BY <1>2, <3>1
    <3>3. QED
      BY <3>2 DEF L!ScaledGain, Left
  <2> HIDE DEF m, k, x, y, a, b
  <2>13. ASSUME NEW p \in Int, NEW q \in Int, NEW r \in Int, NEW s \in Int, (q - r) + (s - p) > 0, NEW t \in Int
         PROVE  t + 2 * ((s - p) - (r - q)) > t
    BY <2>13
  <2>14. y * k \in Int /\ 2 * m * b \in Int /\ 2 * m * a \in Int /\ x * k \in Int
    <3>1. ASSUME NEW p \in Int, NEW q \in Int PROVE p * q \in Int /\ 2 * p * q \in Int
      OBVIOUS
    <3>2. QED
      BY <2>10, <2>11, <3>1
  <2>15. after > before
    BY <1>3, <1>6, <2>4, <2>5, <2>8, <2>9, <2>10, <2>12, <2>13, <2>14
  <2>16. QED
    BY <2>15 DEF L!Climbs, before, after
<1>7. QED
  BY <1>5, <1>6

\* Collapsing the communities keeps the invariant and every group.
LEMMA EndsLevel == ASSUME ZonesInv, L!EndLevel PROVE ZonesInv' /\ L!Climbs
<1> DEFINE c == L!Compressed
           k == L!Cardinality({c[u] : u \in L!Here})
           group == [i \in L!Nodes |-> c[membership[i]]]
           collapsed == L!Aggregated(L!Here, c)
<1>1. PICK n \in Nat : LevelOf(n)
  BY ZonesLevel DEF ZonesInv
<1> DEFINE V == 1..n
<1>2. /\ L!Here = V /\ n > 0 /\ n \in L!Nodes /\ com \in [V -> V] /\ membership \in [L!Nodes -> V]
      /\ adj \in [L!Pairs(V) -> Nat] /\ selfW \in [V -> Nat]
  <2>1. n > 0
    BY <1>1, NodesOfMap DEF LevelOf
  <2> HIDE DEF c, k, group, collapsed
  <2>2. QED
    BY <1>1, <2>1 DEF LevelOf
<1>3. /\ k \in V /\ c \in [V -> 1..k]
      /\ \A u, v \in V : c[u] = c[v] <=> com[u] = com[v]
  BY <1>2, CompressedCounts
<1>z. PICK z \in Nat : z = k /\ z \in L!Nodes
  <2> HIDE DEF k
  <2>1. n \in 1..NNode /\ k \in 1..n
    BY <1>2, <1>3, NodesOfMap
  <2>2. k \in Nat /\ k \in 1..NNode
    BY <2>1, NodesOfMap
  <2>3. QED
    BY <2>2, NodesOfMap
<1>4. zones = <<>> /\ UNCHANGED edges
  BY DEF L!EndLevel, L!EndOfPass
<1>5. CASE k = L!Cardinality(L!Here)
  <2>1. /\ zones' = L!CanonicalIds(membership)
        /\ UNCHANGED <<edges, adj, selfW, com, stot, at, moved, pass, level, membership>>
    BY <1>5 DEF L!EndLevel
  <2>2. zones' \in [L!Nodes -> 0..NNode - 1] /\ zones' # <<>>
    BY <2>1, CanonicalBounds
  <2>3. L!Here' = L!Here /\ Level' = Level /\ Map' = Map /\ Degrees' = Degrees
    <3>1. L!Here' = L!Here
      BY <2>1 DEF L!Here
    <3>2. QED
      BY <2>1, <3>1 DEF Level, Map, Degrees
  <2>4. LevelOf(n)'
    BY <1>1, <2>1, <2>3 DEF LevelOf
  <2>5. L!TypeOK'
    <3>1. L!TypeOK
      BY DEF ZonesInv
    <3>2. moved' \in BOOLEAN /\ pass' \in 0..MaxPass /\ level' \in 1..MaxLevel + 1
      BY <2>1, <3>1 DEF L!TypeOK
    <3>3. QED
      BY <2>1, <2>2, <2>4, <3>1, <3>2, TypedAgain
  <2>6. ZonesInv'
    BY <2>1, <2>2, <2>3, <2>5 DEF ZonesInv
  <2>7. L!Groups' = L!Groups
    BY <2>1 DEF L!Groups
  <2>8. QED
    BY <2>6, <2>7 DEF L!Climbs, L!SameZones
<1>6. CASE k # L!Cardinality(L!Here)
  <2> DEFINE U == 1..z
             v1 == collapsed.adj
             v2 == collapsed.selfW
             after == Matrix(U, v1, v2)
  <2>1. /\ membership' = group /\ level' = level + 1
        /\ L!StartLevel(U, v1, v2)
        /\ zones' = IF z = 1 \/ level = MaxLevel THEN L!CanonicalIds(group) ELSE zones
    BY <1>6, <1>z DEF L!EndLevel
  <2>2. /\ v1 = [q \in L!Pairs(U) |-> SumFunctionOnSet(adj, {p \in L!Pairs(V) : L!Key(c[p[1]], c[p[2]]) = q})]
        /\ v2 = [a \in U |-> SumFunctionOnSet(adj, {p \in L!Pairs(V) : c[p[1]] = a /\ c[p[2]] = a})
                             + SumFunctionOnSet(selfW, {u \in V : c[u] = a})]
    <3>1. z = L!Cardinality({c[u] : u \in V}) /\ collapsed = L!Aggregated(V, c)
      BY <1>2, <1>z
    <3> HIDE DEF c, k, group, collapsed, V
    <3>2. collapsed = [adj |-> [q \in L!Pairs(1..z) |->
                                SumFunctionOnSet(adj, {p \in L!Pairs(V) : L!Key(c[p[1]], c[p[2]]) = q})],
                       selfW |-> [a \in 1..z |->
                                SumFunctionOnSet(adj, {p \in L!Pairs(V) : c[p[1]] = a /\ c[p[2]] = a})
                                + SumFunctionOnSet(selfW, {u \in V : c[u] = a})]]
      BY <3>1, SumsOfMap DEF L!Aggregated
    <3>3. QED
      BY <3>2
  <2> HIDE DEF c
  <2> HIDE DEF k, collapsed
  <2>3. c \in [V -> U] /\ z > 0
    BY <1>3, <1>z
  <2>4. /\ v1 \in [L!Pairs(U) -> Nat] /\ v2 \in [U -> Nat]
        /\ Collapses(Matrix(V, adj, selfW), V, c, after, U)
    <3> HIDE DEF v1, v2
    <3>1. n \in Nat
      BY <1>2, NodesOfMap
    <3>2. /\ adj \in [L!Pairs(1..n) -> Nat] /\ selfW \in [1..n -> Nat] /\ c \in [1..n -> 1..z]
          /\ v1 = AcrossGroups(n, adj, z, c) /\ v2 = InsideGroups(n, adj, selfW, z, c)
      BY <1>2, <2>2, <2>3 DEF AcrossGroups, InsideGroups
    <3>3. /\ v1 \in [L!Pairs(1..z) -> Nat] /\ v2 \in [1..z -> Nat]
          /\ Collapses(Matrix(1..n, adj, selfW), 1..n, c, Matrix(1..z, v1, v2), 1..z)
      <4> HIDE DEF V, U, after, group
      <4>1. QED
        BY <1>z, <3>1, <3>2, AggregatedCollapses, Zenon
    <3>4. QED
      BY <3>3
  <2>5. Level = Matrix(V, adj, selfW)
    BY <1>2 DEF Level
  <2> HIDE DEF v1, v2
  <2>6. /\ adj' = v1 /\ selfW' = v2 /\ com' = [u \in U |-> u]
        /\ stot' = [u \in U |-> L!Degree(U, v1, v2, u)]
        /\ at' = 1 /\ moved' = FALSE /\ pass' = 1
    BY <2>1 DEF L!StartLevel
  <2>7. L!Here' = U /\ Level' = after /\ Map' = Map
    <3>1. L!Here' = U
      BY <2>6 DEF L!Here
    <3>2. QED
      BY <1>4, <2>6, <3>1 DEF Level, Map
  <2>8. Collapses(Map, L!Nodes, membership, Level, L!Here)'
    <3>1. Collapses(Map, L!Nodes, membership, Level, V)
      BY <1>2 DEF ZonesInv
    <3>2. \A i \in L!Nodes : group[i] = c[membership[i]]
      OBVIOUS
    <3> HIDE DEF group, after
    <3>3. Collapses(Map, L!Nodes, group, after, U)
      BY <2>4, <2>5, <3>1, <3>2, CollapsesTwice
    <3>4. QED
      BY <2>1, <2>7, <3>3
  <2>9. ASSUME NEW g \in U
        PROVE  /\ stot'[g] \in Nat
               /\ stot'[g] = SumFunctionOnSet(Degrees', {v \in U : com'[v] = g})
    <3>1. stot'[g] = RowSum(after, U, g) /\ stot'[g] \in Nat
      BY <1>z, <2>4, <2>6, LevelDegree DEF RowSum
    <3>2. Degrees' = [v \in U |-> RowSum(after, U, v)]
      BY <2>7 DEF Degrees
    <3>3. {v \in U : com'[v] = g} = {g}
      BY <2>6
    <3> DEFINE d == Degrees'
    <3>4. d[g] = stot'[g] /\ d[g] \in Int
      BY <3>1, <3>2
    <3> HIDE DEF d
    <3>5. SumFunctionOnSet(d, {g}) = d[g]
      BY <3>4, SumOne
    <3>6. QED
      BY <3>1, <3>3, <3>4, <3>5 DEF d
  <2>10. LevelOf(z)'
    <3>1. com' \in [U -> U] /\ at' \in 0..z+1
      BY <1>z, <2>3, <2>6
    <3>2. stot' \in [U -> Nat]
      BY <2>6, <2>9
    <3>3. membership' \in [L!Nodes -> U]
      BY <1>2, <2>1, <2>3
    <3>4. adj' \in [L!Pairs(U) -> Nat] /\ selfW' \in [U -> Nat]
      BY <2>4, <2>6
    <3> HIDE DEF group, after
    <3>5. QED
      BY <1>z, <2>7, <3>1, <3>2, <3>3, <3>4 DEF LevelOf
  <2>11. L!TypeOK' /\ (zones' = <<>> => level' <= MaxLevel)
    <3>0. L!TypeOK /\ level <= MaxLevel
      BY <1>4 DEF ZonesInv
    <3>a. level \in 1..MaxLevel + 1
      BY <3>0 DEF L!TypeOK
    <3>1. L!TypeOK /\ level \in 1..MaxLevel
      BY <3>0, <3>a, NodesOfMap
    <3>2. moved' \in BOOLEAN
      BY <2>6
    <3>3. pass' \in 0..MaxPass
      BY <2>6, NodesOfMap
    <3>4. level' \in 1..MaxLevel + 1
      BY <2>1, <3>1, NodesOfMap
    <3>5. L!CanonicalIds(group) \in [L!Nodes -> 0..NNode - 1] /\ L!CanonicalIds(group) # <<>>
      BY CanonicalBounds
    <3>6. zones' = <<>> \/ zones' \in [L!Nodes -> 0..NNode - 1]
      BY <1>4, <2>1, <3>5
    <3>7. L!TypeOK'
      BY <1>4, <2>10, <3>1, <3>2, <3>3, <3>4, <3>6, TypedAgain
    <3>8. zones' = <<>> => level # MaxLevel
      BY <2>1, <3>5
    <3>9. QED
      BY <2>1, <3>1, <3>7, <3>8, NodesOfMap
  <2>12. ZonesInv'
    BY <2>6, <2>7, <2>8, <2>9, <2>11 DEF ZonesInv
  <2>13. \A i \in L!Nodes : L!Groups[i] = com[membership[i]] /\ L!Groups'[i] = c[membership[i]]
    <3>1. \A i \in L!Nodes : membership[i] \in V /\ c[membership[i]] \in U
      BY <1>2, <2>3
    <3>2. QED
      BY <2>1, <2>6, <3>1 DEF L!Groups
  <2>14. \A i, j \in L!Nodes : L!Groups[i] = L!Groups[j] <=> L!Groups'[i] = L!Groups'[j]
    <3>1. \A i \in L!Nodes : membership[i] \in V
      BY <1>2
    <3>2. QED
      BY <1>3, <2>13, <3>1
  <2>15. QED
    BY <2>12, <2>14 DEF L!Climbs, L!SameZones
<1>7. QED
  BY <1>5, <1>6

\* Every step of the zones keeps the invariant, and keeps the groups or climbs.
LEMMA ZonesStep == ZonesInv /\ [L!Next]_(L!louvainVars) => ZonesInv' /\ L!Climbs
<1> SUFFICES ASSUME ZonesInv, [L!Next]_(L!louvainVars) PROVE ZonesInv' /\ L!Climbs
  OBVIOUS
<1>1. CASE UNCHANGED L!louvainVars
  <2>1. UNCHANGED <<edges, adj, selfW, com, stot, at, moved, pass, level, membership, zones>>
    BY <1>1 DEF L!louvainVars
  <2>2. L!Here' = L!Here /\ L!Groups' = L!Groups
    BY <2>1 DEF L!Here, L!Groups
  <2>3. Level' = Level /\ Map' = Map /\ Degrees' = Degrees /\ L!TypeOK' = L!TypeOK
    BY <2>1, <2>2 DEF Level, Map, Degrees, L!TypeOK
  <2>4. QED
    BY <2>1, <2>2, <2>3 DEF ZonesInv, L!Climbs, L!SameZones
<1>2. CASE L!BeginLevel
  BY <1>2, BeginsLevel
<1>3. CASE L!Visit
  BY <1>3, VisitKeeps, VisitClimbs
<1>4. CASE L!NextPass
  BY <1>4, PassesAgain
<1>5. CASE L!EndLevel
  BY <1>5, EndsLevel
<1>6. QED
  BY <1>1, <1>2, <1>3, <1>4, <1>5 DEF L!Next

\* A behaviour of the zones is one of Louvain alone.
LEMMA ZonesAlone ==
  /\ Init /\ part = "zones" => L!Init
  /\ [Next]_vars /\ part = "zones" => [L!Next]_(L!louvainVars)
<1>1. Init /\ part = "zones" => L!Init
  BY DEF Init
<1>2. ASSUME part = "zones", Next PROVE L!Next
  BY <1>2 DEF Next, Only, Config, Install, Session, Access, Review, Zones, Desk, Pull, Join, Home, Choice, L!Next
<1>3. QED
  BY <1>1, <1>2 DEF vars, louvain, L!louvainVars

\* For any graph, any weights and any bounds of passes and levels: a step of the grouping of
\* the map leaves every zone as it is or makes the modularity greater (graph_communities.py).
THEOREM ZonesClimb == Spec => ClimbsModularity
<1> DEFINE Inv == part = "zones" => ZonesInv
<1>1. Init => Inv
  BY ZonesAlone, ZonesInit
<1>2. Inv /\ [Next]_vars => Inv'
  BY PartStays, ZonesAlone, ZonesStep
<1>3. Inv /\ [Next]_vars => [part = "zones" => L!Climbs]_vars
  BY ZonesAlone, ZonesStep
<1> HIDE DEF Inv
<1>4. QED
  BY <1>1, <1>2, <1>3, PTL DEF Spec, ClimbsModularity

-----------------------------------------------------------------------------
(***************************************************************************)
(* The types of the parts.  What the invariants above do not say of them:  *)
(* the counters stay below their bounds, and what is recorded of the past  *)
(* is about rows, requests and members that there are.  Two parts need     *)
(* more than their types: a setter that has no file open has a free inode  *)
(* to take, and a handler answers a question of the kind it checked.       *)
(***************************************************************************)
\* An inode is left for the writer that opens its file: the others have one each at most.
LEMMA InodeForAll ==
  ASSUME C!TypeOK, NEW r \in Request, fd[r] = None, NEW f \in C!Inode \cup {None}
  PROVE  \E i \in C!Inode : i \notin {f, None} \cup {fd[q] : q \in Request}
<1> DEFINE Held == {fd[q] : q \in Request \ {r}}
           n == Cardinality(Request)
<1>1. IsFiniteSet(Request) /\ C!Cardinality(Request) = n
  BY PartsAssumption DEF C!ConfigAssumption, C!IsFiniteSet, IsFiniteSet, C!Cardinality, Cardinality
<1>2. IsFiniteSet(Request \ {r}) /\ Cardinality(Request \ {r}) = n - 1 /\ n \in Nat
  BY <1>1, FS_RemoveElement, FS_CardinalityType
<1>3. IsFiniteSet(Held) /\ Cardinality(Held) <= n - 1
  <2> DEFINE held == [q \in Request \ {r} |-> fd[q]]
  <2>1. held \in Surjection(Request \ {r}, Held)
    BY DEF Surjection
  <2> HIDE DEF held, Held, n
  <2>2. QED
    BY <1>2, <2>1, FS_Surjection
<1> HIDE DEF n
<1>4. IsFiniteSet(Held \cup {f}) /\ Cardinality(Held \cup {f}) \in Nat /\ Cardinality(Held \cup {f}) <= n
  <2> HIDE DEF Held
  <2>1. Cardinality(Held) \in Nat
    BY <1>3, FS_CardinalityType
  <2>a. /\ IsFiniteSet(Held \cup {f})
        /\ Cardinality(Held \cup {f}) = IF f \in Held THEN Cardinality(Held) ELSE Cardinality(Held) + 1
    BY <1>3, FS_AddElement
  <2>2. IsFiniteSet(Held \cup {f}) /\ Cardinality(Held \cup {f}) <= Cardinality(Held) + 1
    BY <2>1, <2>a
  <2>3. Cardinality(Held \cup {f}) \in Nat
    BY <2>2, FS_CardinalityType
  <2>4. QED
    BY <1>2, <1>3, <2>1, <2>2, <2>3
<1>5. IsFiniteSet(C!Inode) /\ Cardinality(C!Inode) = n + 2
  <2>1. C!Inode = 1..n+2 /\ n + 2 \in Int
    BY <1>1, <1>2 DEF C!Inode
  <2>2. ~(1 > n + 2) /\ n + 2 - 1 + 1 = n + 2
    BY <1>2
  <2>3. QED
    BY <2>1, <2>2, FS_Interval
<1>6. ~(C!Inode \subseteq Held \cup {f})
  <2> HIDE DEF Held
  <2>1. Cardinality(C!Inode) <= Cardinality(Held \cup {f}) => n + 2 <= n
    BY <1>2, <1>4, <1>5
  <2>2. QED
    BY <1>2, <1>4, <2>1, FS_Subset
<1>7. PICK i \in C!Inode : i \notin Held \cup {f}
  BY <1>6
<1>8. i # None /\ i \notin {fd[q] : q \in Request}
  BY <1>7, NotTorn
<1>9. QED
  BY <1>7, <1>8

\* A setter that has not opened its file, or has closed it, holds no inode.
SettingsTyped == C!TypeOK /\ \A r \in Request : step[r] # "open" => fd[r] = None

\* The settings are typed at first ...
LEMMA SettingsTypedInit == C!Init => SettingsTyped
<1> SUFFICES ASSUME C!Init PROVE SettingsTyped
  OBVIOUS
<1>1. C!Blank \in C!Draft /\ FetchByDefault \in Value
  BY NotTorn, PartsAssumption DEF C!Blank, C!Draft, C!ConfigAssumption
<1>2. QED
  BY <1>1, NotTorn DEF C!Init, SettingsTyped, C!TypeOK

\* ... and at each step.
LEMMA SettingsTypedStep == SettingsTyped /\ [C!Next]_(C!configVars) => SettingsTyped'
<1> SUFFICES ASSUME SettingsTyped, [C!Next]_(C!configVars) PROVE SettingsTyped'
  OBVIOUS
<1> USE DEF SettingsTyped
<1>0. /\ C!Blank \in C!Draft /\ C!Nothing \in C!Settings
      /\ C!Load \in C!Settings
      /\ \A d \in C!Draft : d.data \in C!Settings /\ d.field \in Field
      /\ \A d \in C!Draft : C!FetchResources(d.data) \in Value
      /\ C!FetchResources(C!Load) \in Value
  <2>1. C!Blank \in C!Draft /\ C!Nothing \in C!Settings
    BY NotTorn DEF C!Blank, C!Draft
  <2>2. C!Load \in C!Settings
    BY <2>1 DEF C!Load, C!TypeOK
  <2>3. \A s \in C!Settings : C!FetchResources(s) \in Value
    BY NotTorn, PartsAssumption DEF C!Settings, C!FetchResources, C!ConfigAssumption
  <2>4. QED
    BY <2>1, <2>2, <2>3 DEF C!Draft
<1>1. CASE UNCHANGED C!configVars
  BY <1>1 DEF C!configVars, C!TypeOK
<1>2. ASSUME NEW r \in Request, NEW f \in Field, NEW v \in Value \cup {None}, C!Begin(r, f, v)
      PROVE  SettingsTyped'
  <2>1. [C!Load EXCEPT ![f] = v] \in C!Settings
    BY <1>0 DEF C!Settings
  <2>2. [data |-> [C!Load EXCEPT ![f] = v], field |-> f] \in C!Draft
    BY <2>1 DEF C!Draft
  <2>3. QED
    BY <1>2, <2>2 DEF C!Begin, C!TypeOK
<1>3. ASSUME NEW r \in Request, C!OpenTmp(r) PROVE SettingsTyped'
  <2> DEFINE i == IF tmp = None THEN C!NewInode ELSE tmp
  <2>1. i \in C!Inode
    <3>1. fd[r] = None
      BY <1>3 DEF C!OpenTmp
    <3>2. tmp = None => \E x \in C!Inode : x \notin {file, tmp} \cup {fd[q] : q \in Request}
      BY <3>1, InodeForAll DEF C!TypeOK
    <3>3. tmp = None => C!NewInode \in C!Inode
      BY <3>2 DEF C!NewInode
    <3>4. QED
      BY <3>3 DEF C!TypeOK
  <2>2. /\ tmp' = i /\ fd' = [fd EXCEPT ![r] = i] /\ text' = [text EXCEPT ![i] = C!NoJson]
        /\ step' = [step EXCEPT ![r] = "open"]
        /\ UNCHANGED <<file, draft, switch, saved, overlapped, forced>>
    BY <1>3 DEF C!OpenTmp
  <2> HIDE DEF i
  <2>3. QED
    BY <2>1, <2>2 DEF C!TypeOK
<1>4. ASSUME NEW r \in Request, C!WriteTmp(r) PROVE SettingsTyped'
  <2>1. PICK out \in C!Settings \cup {C!NoJson} :
          text' = C!Freed([text EXCEPT ![fd[r]] = out], {file, tmp}, Request \ {r})
    BY <1>0, <1>4 DEF C!WriteTmp, C!TypeOK
  <2>2. text' \in [C!Inode -> C!Settings \cup {C!NoJson}]
    <3>1. [text EXCEPT ![fd[r]] = out] \in [C!Inode -> C!Settings \cup {C!NoJson}]
      BY DEF C!TypeOK
    <3>2. QED
      BY <2>1, <3>1, FreedKeeps
  <2>3. QED
    BY <1>4, <2>2 DEF C!WriteTmp, C!TypeOK
<1>5. ASSUME NEW r \in Request, C!Replace(r) PROVE SettingsTyped'
  <2>1. text' \in [C!Inode -> C!Settings \cup {C!NoJson}]
    BY <1>5, FreedKeeps DEF C!Replace, C!TypeOK
  <2>2. saved' \in C!Settings
    <3>1. draft[r].data \in C!Settings /\ draft[r].field \in Field
      BY <1>0 DEF C!TypeOK
    <3>2. draft[r].data[draft[r].field] \in Value \cup {None}
      BY <3>1 DEF C!Settings
    <3>3. QED
      BY <1>5, <3>1, <3>2 DEF C!Replace, C!TypeOK, C!Settings
  <2>3. /\ file' = tmp /\ tmp' = None
        /\ UNCHANGED <<fd, switch, overlapped, forced>>
        /\ \E to \in {"applying", "idle"} : step' = [step EXCEPT ![r] = to]
        /\ draft' = [draft EXCEPT ![r] = C!Blank] \/ draft' = draft
        /\ step[r] = "written"
    BY <1>5 DEF C!Replace
  <2>4. QED
    BY <1>0, <2>1, <2>2, <2>3 DEF C!TypeOK
<1>6. ASSUME NEW r \in Request, C!ReplaceFails(r) PROVE SettingsTyped'
  BY <1>0, <1>6 DEF C!ReplaceFails, C!TypeOK
<1>7. ASSUME NEW r \in Request, C!ApplyFetch(r) PROVE SettingsTyped'
  BY <1>0, <1>7 DEF C!ApplyFetch, C!TypeOK
<1>8. CASE C!Relaunch
  <2>1. text' \in [C!Inode -> C!Settings \cup {C!NoJson}]
    BY <1>8, FreedKeeps DEF C!Relaunch, C!TypeOK
  <2>2. switch' \in Value /\ forced' \in BOOLEAN
    BY <1>0, <1>8 DEF C!Relaunch
  <2>3. QED
    BY <1>0, <1>8, <2>1, <2>2 DEF C!Relaunch, C!TypeOK
<1>9. QED
  BY <1>1, <1>2, <1>3, <1>4, <1>5, <1>6, <1>7, <1>8 DEF C!Next

\* A step of the choice of a model keeps its types: the last call recorded went to a model there is.
LEMMA ChoiceTyped == ChoiceInv /\ G!TypeOK /\ [G!Next]_(G!choiceVars) => G!TypeOK'
<1> SUFFICES ASSUME ChoiceInv, G!TypeOK, [G!Next]_(G!choiceVars) PROVE G!TypeOK'
  OBVIOUS
<1>1. ChoiceTypes'
  BY ChoiceStep DEF ChoiceInv
<1>2. last' \in {None} \cup [to : G!Mode \cup {"nowhere"}, modes : SUBSET G!Mode, ready : BOOLEAN]
  <2>1. ASSUME NEW c \in Request, NEW to \in G!Mode \cup {"nowhere"}, G!Sent(c, to)
        PROVE  last' \in [to : G!Mode \cup {"nowhere"}, modes : SUBSET G!Mode, ready : BOOLEAN]
    BY <2>1 DEF G!Sent, ChoiceInv, ChoiceTypes, CallType
  <2>2. CASE UNCHANGED last
    BY <2>2 DEF G!TypeOK
  <2>3. CASE last' # last
    <3>1. PICK c \in Request : \E to \in G!Mode \cup {"nowhere"} : G!Sent(c, to)
      BY <2>3 DEF G!Next, G!PutMode, G!PutEndpoint, G!PutKey, G!Become, G!Ask, G!First, G!Second, G!Anthropic,
                  G!Refused, G!Requests, G!Closes, G!choiceVars, G!Mode
    <3>2. QED
      BY <2>1, <3>1
  <2>4. QED
    BY <2>2, <2>3
<1>3. changes' \in 0..MaxChange
  <2>1. changes' = changes \/ (changes < MaxChange /\ changes' = changes + 1)
    BY DEF G!Next, G!PutMode, G!PutEndpoint, G!PutKey, G!Become, G!Ask, G!First, G!Second, G!Requests, G!Closes,
           G!choiceVars
  <2>2. changes \in 0..MaxChange /\ MaxChange \in Nat
    BY PartsAssumption DEF G!ChoiceAssumption, G!TypeOK
  <2>3. QED
    BY <2>1, <2>2
<1>4. QED
  BY <1>1, <1>2, <1>3 DEF G!TypeOK, ChoiceTypes, CallType

\* The types of the choice hold at first.
LEMMA ChoiceTypedInit == G!Init => G!TypeOK
BY PartsAssumption, ChoiceInit DEF G!Init, G!TypeOK, ChoiceInv, ChoiceTypes, CallType, G!ChoiceAssumption

\* The pieces of the engine and their installers are typed at first.
LEMMA InstallTypedInit == I!Init => I!TypeOK
<1> SUFFICES ASSUME I!Init PROVE I!TypeOK
  OBVIOUS
<1>1. 0 \in 0..I!Half /\ 1 \in I!Piece /\ 1 \in I!Version /\ 0 \in 0..MaxDeath
  BY PartsAssumption DEF I!InstallAssumption, I!Half, I!Piece, I!Version
<1>2. I!Empty \in [I!Piece -> 0..I!Half]
  BY <1>1 DEF I!Empty, I!Void
<1>3. I!Idle \in [at : I!Place, piece : I!Piece, version : I!Version]
  BY <1>1 DEF I!Idle, I!Place
<1>4. QED
  BY <1>1, <1>2, <1>3 DEF I!Init, I!TypeOK

\* A step of an installation keeps its types.
LEMMA InstallTyped == InstallInv /\ I!TypeOK /\ [I!Next]_(I!installVars) => I!TypeOK'
<1> SUFFICES ASSUME InstallInv, I!TypeOK, [I!Next]_(I!installVars) PROVE I!TypeOK'
  OBVIOUS
<1>1. InstallTypes' /\ replaced' \subseteq {"engine", "rests"}
  BY InstallStep DEF InstallInv, InstallTypes
<1>2. json' \in {I!Void} \cup I!Version
  <2>1. json' \in 0..MaxVersion /\ MaxVersion \in Nat
    BY <1>1, PartsAssumption DEF InstallTypes, I!InstallAssumption
  <2>2. QED
    BY <2>1 DEF I!Void, I!Version
<1> USE DEF I!Next, I!Step, I!Install, I!Download, I!Extract, I!Extracted, I!Swap, I!Rename, I!Unlink, I!Finish,
        I!CheckLocal, I!PutLocal, I!PutMode, I!BeginRemoval, I!Remove, I!Dies, I!Publish, I!installVars,
        I!Elsewhere, I!Around, I!disk, I!choice, I!Fails, I!GoesTo, I!TypeOK
<1>3. mode' \in {"cloud", "local"} /\ check' \in BOOLEAN /\ removing' \in BOOLEAN /\ crossed' \in BOOLEAN
  OBVIOUS
<1>4. root' \in BOOLEAN /\ overrun' \in BOOLEAN
  BY DEF I!Installing
<1>5. progress' \in {"none", "telechargement", "erreur"}
  OBVIOUS
<1>6. deaths' \in 0..MaxDeath
  <2>1. deaths' = deaths \/ (deaths < MaxDeath /\ deaths' = deaths + 1)
    OBVIOUS
  <2>2. deaths \in 0..MaxDeath /\ MaxDeath \in Nat
    BY PartsAssumption DEF I!InstallAssumption
  <2> HIDE DEF I!Next, I!TypeOK
  <2>3. QED
    BY <2>1, <2>2
<1>7. QED
  BY <1>1, <1>2, <1>3, <1>4, <1>5, <1>6 DEF InstallTypes, InstallerType

\* The tokens are typed at first.
LEMMA AccessTypedInit == D!Init => D!TypeOK
BY DEF D!Init, D!TypeOK

\* An approval, a loss, a return leg, a pull or a revocation keeps them so.
LEMMA AccessTyped == D!TypeOK /\ [D!Next]_(D!accessVars) => D!TypeOK'
<1> SUFFICES ASSUME D!TypeOK, [D!Next]_(D!accessVars) PROVE D!TypeOK'
  OBVIOUS
<1> USE DEF D!TypeOK
<1>0. /\ \A b, d \in Device, n \in 1..MaxIssue : <<b, d, n>> \in D!Token
      /\ \A b \in Device : D!Install(b) \in D!Token
      /\ \A t \in D!Token : t # <<>> /\ t[1] \in Device
  BY PartsAssumption DEF D!Token, D!Install, D!AccessAssumption
<1> HIDE DEF D!TypeOK
<1>1. CASE UNCHANGED D!accessVars
  BY <1>1 DEF D!accessVars, D!TypeOK
<1>2. ASSUME NEW b \in Device, NEW d \in Device, D!Approve(b, d) PROVE D!TypeOK'
  <2>1. \E t \in D!Token : invited' = [invited EXCEPT ![d] = t] /\ (issued' = issued \/ issued' = issued \cup {t})
    BY <1>0, <1>2 DEF D!Approve, D!Issued
  <2>2. UNCHANGED <<adopted, registry, revoked, link, answered>>
    BY <1>2 DEF D!Approve
  <2>3. QED
    BY <2>1, <2>2 DEF D!TypeOK
<1>3. ASSUME NEW d \in Device, D!Lose(d) PROVE D!TypeOK'
  BY <1>3 DEF D!Lose, D!TypeOK
<1>4. ASSUME NEW d \in Device, D!Join(d) PROVE D!TypeOK'
  <2>1. invited[d] \in D!Token
    BY <1>4 DEF D!Join, D!TypeOK
  <2>2. invited[d][1] \in Device
    BY <1>0, <2>1
  <2>3. QED
    BY <1>4, <2>1, <2>2 DEF D!Join, D!TypeOK
<1>5. ASSUME NEW d \in Device, D!Answer(d) PROVE D!TypeOK'
  <2>1. link[d] \in Device
    BY <1>5 DEF D!Answer, D!TypeOK
  <2>2. \E t \in D!Token : issued' = issued \cup {t}
    BY <1>0, <1>5, <2>1 DEF D!Answer, D!Issued
  <2>3. QED
    BY <1>5, <2>1, <2>2 DEF D!Answer, D!TypeOK
<1>6. ASSUME NEW d \in Device, NEW b \in Device, D!Pull(d, b) PROVE D!TypeOK'
  <2>1. \E r \in SUBSET Device : revoked' = [revoked EXCEPT ![d] = r]
    BY <1>6 DEF D!Pull, D!TypeOK
  <2>2. QED
    BY <1>6, <2>1 DEF D!Pull, D!TypeOK
<1>7. ASSUME NEW d \in Device, NEW b \in Device, D!Revoke(b, d) \/ D!Restore(b, d) PROVE D!TypeOK'
  BY <1>7 DEF D!Revoke, D!Restore, D!TypeOK
<1>8. QED
  BY <1>1, <1>2, <1>3, <1>4, <1>5, <1>6, <1>7 DEF D!Next

\* The sessions of the engine are typed at first.
LEMMA SessionTypedInit == S!Init => S!TypeOK
<1> SUFFICES ASSUME S!Init PROVE S!TypeOK
  OBVIOUS
<1>1. SessionTypes
  BY SessionInit DEF SessionInv
<1>2. perished \in 0..MaxDeath
  BY PartsAssumption DEF S!Init, S!SessionAssumption
<1>3. QED
  BY <1>1, <1>2 DEF SessionTypes, S!TypeOK

\* A step of a session keeps its types.
LEMMA SessionTyped == SessionInv /\ S!TypeOK /\ [S!Next]_(S!sessionVars) => S!TypeOK'
<1> SUFFICES ASSUME SessionInv, S!TypeOK, [S!Next]_(S!sessionVars) PROVE S!TypeOK'
  OBVIOUS
<1>1. SessionTypes'
  BY SessionStep DEF SessionInv
<1>2. perished' \in 0..MaxDeath
  <2>1. perished' = perished \/ (perished < MaxDeath /\ perished' = perished + 1)
    BY DEF S!Next, S!Join, S!Launch, S!Started, S!NotStarted, S!Retry, S!Leave, S!Loaded, S!Falls, S!Perish,
           S!ByHand, S!StrayLoaded, S!sessionVars
  <2>2. perished \in 0..MaxDeath /\ MaxDeath \in Nat
    BY PartsAssumption DEF S!SessionAssumption, S!TypeOK
  <2>3. QED
    BY <2>1, <2>2
<1>3. QED
  BY <1>1, <1>2 DEF S!TypeOK, SessionTypes

\* The links, the cursors and the rows are typed at first.
LEMMA PullTypedInit == P!Init => P!TypeOK
<1> SUFFICES ASSUME P!Init PROVE P!TypeOK
  OBVIOUS
<1>1. PullTypes
  BY PullStart DEF PullInv
<1>2. pulls \in 0..MaxPull /\ moves \in 0..MaxMove /\ died \in 0..MaxDeath
  BY PartsAssumption DEF P!Init, P!PullAssumption
<1>3. address \in [Peer -> Address \cup {None}] /\ resolving \subseteq Peer \X Address
  BY PartsAssumption DEF P!Init, P!PullAssumption
<1>4. have \subseteq P!Row /\ vector \subseteq P!Row /\ forgotten \subseteq P!Row
  BY DEF P!Init
<1>5. QED
  BY <1>1, <1>2, <1>3, <1>4 DEF PullTypes, PullType, P!TypeOK

\* A step of a pull or of the network keeps their types: no row past the end of a journal is merged.
LEMMA PullTyped == PullInv /\ P!TypeOK /\ [P!Next]_(P!pullVars) => P!TypeOK'
<1> SUFFICES ASSUME PullInv, P!TypeOK, [P!Next]_(P!pullVars) PROVE P!TypeOK'
  OBVIOUS
<1>1. PullTypes'
  BY PullStep DEF PullInv
<1>2. address' \in [Peer -> Address \cup {None}] /\ resolving' \subseteq Peer \X Address
  <2>1. ASSUME NEW p \in Peer, P!Announced(p) PROVE UNCHANGED address /\ resolving' \subseteq Peer \X Address
    BY <2>1 DEF P!TypeOK, P!Announced
  <2>2. ASSUME NEW p \in Peer, NEW x \in Address, P!Moves(p, x)
        PROVE  address' \in [Peer -> Address \cup {None}] /\ UNCHANGED resolving
    BY <2>2 DEF P!TypeOK, P!Moves
  <2>3. \/ UNCHANGED address /\ resolving' \subseteq resolving
        \/ \E p \in Peer : P!Announced(p) \/ \E x \in Address : P!Moves(p, x)
    BY DEF P!Next, P!Removed, P!Resolved, P!Unresolved, P!Begin, P!Probe, P!Status,
           P!Page, P!Advance, P!Embed, P!Breaks, P!Push, P!Dies, P!pullVars
  <2>4. QED
    BY <2>1, <2>2, <2>3 DEF P!TypeOK
<1>3. pulls' \in 0..MaxPull
  <2>1. pulls' = pulls \/ (pulls < MaxPull /\ pulls' = pulls + 1)
    BY DEF P!Next, P!Announced, P!Removed, P!Resolved, P!Unresolved, P!Moves, P!Begin, P!Probe, P!Status,
           P!Page, P!Advance, P!Embed, P!Breaks, P!Push, P!Dies, P!pullVars
  <2>2. pulls \in 0..MaxPull /\ MaxPull \in Nat
    BY PartsAssumption DEF P!PullAssumption, P!TypeOK
  <2>3. QED
    BY <2>1, <2>2
<1>4. moves' \in 0..MaxMove
  <2>1. moves' = moves \/ (moves < MaxMove /\ moves' = moves + 1)
    BY DEF P!Next, P!Announced, P!Removed, P!Resolved, P!Unresolved, P!Moves, P!Begin, P!Probe, P!Status,
           P!Page, P!Advance, P!Embed, P!Breaks, P!Push, P!Dies, P!pullVars
  <2>2. moves \in 0..MaxMove /\ MaxMove \in Nat
    BY PartsAssumption DEF P!PullAssumption, P!TypeOK
  <2>3. QED
    BY <2>1, <2>2
<1>5. died' \in 0..MaxDeath
  <2>1. died' = died \/ (died < MaxDeath /\ died' = died + 1)
    BY DEF P!Next, P!Announced, P!Removed, P!Resolved, P!Unresolved, P!Moves, P!Begin, P!Probe, P!Status,
           P!Page, P!Advance, P!Embed, P!Breaks, P!Push, P!Dies, P!pullVars
  <2>2. died \in 0..MaxDeath /\ MaxDeath \in Nat
    BY PartsAssumption DEF P!PullAssumption, P!TypeOK
  <2>3. QED
    BY <2>1, <2>2
<1>6. have' \subseteq P!Row /\ vector' \subseteq P!Row /\ forgotten' \subseteq P!Row
  <2>1. \A t \in Request : pull[t].notes \subseteq P!Row
    BY DEF P!TypeOK
  <2>2. ASSUME NEW t \in Request, P!Page(t) PROVE have' \subseteq P!Row
    <3>1. pull[t].since \in 0..NRow /\ NRow \in Nat /\ PageLimit \in Nat
      BY PartsAssumption DEF P!PullAssumption, P!TypeOK
    <3> DEFINE from == pull[t].since + 1
               last1 == IF pull[t].since + PageLimit < NRow THEN pull[t].since + PageLimit ELSE NRow
    <3>2. PICK p \in Peer : have' = have \cup P!RowOf(p, from, last1)
      BY <2>2 DEF P!Page
    <3>3. from..last1 \subseteq 1..NRow
      BY <3>1
    <3> HIDE DEF from, last1
    <3>4. P!RowOf(p, from, last1) \subseteq P!Row
      BY <3>3 DEF P!RowOf, P!Row
    <3>5. QED
      BY <3>2, <3>4 DEF P!TypeOK
  <2>3. have' \subseteq P!Row
    <3>1. ASSUME NEW t \in Request, P!Push(t, "phone") PROVE have' \subseteq P!Row
      BY <3>1 DEF P!Push, P!Row, P!TypeOK
    <3>2. have' = have \/ (\E t \in Request : P!Page(t) \/ P!Push(t, "phone"))
      BY DEF P!Next, P!Announced, P!Removed, P!Resolved, P!Unresolved, P!Moves, P!Begin, P!Probe, P!Status,
             P!Advance, P!Embed, P!Breaks, P!Dies, P!pullVars
    <3>3. QED
      BY <2>2, <3>1, <3>2 DEF P!TypeOK
  <2>4. vector' \subseteq P!Row
    BY <2>1 DEF P!Next, P!Announced, P!Removed, P!Resolved, P!Unresolved, P!Moves, P!Begin, P!Probe, P!Status,
                P!Page, P!Advance, P!Embed, P!Breaks, P!Push, P!Dies, P!pullVars, P!TypeOK
  <2>5. forgotten' \subseteq P!Row
    <3>1. ASSUME NEW t \in Request, P!Gives(t) PROVE forgotten' \subseteq P!Row
      BY <2>1, <3>1 DEF P!Gives, P!TypeOK
    <3>2. ASSUME NEW t \in Request, P!Embed(t) PROVE forgotten' \subseteq P!Row
      BY <2>1, <3>2 DEF P!Embed, P!TypeOK
    <3>3. ASSUME P!Dies PROVE forgotten' \subseteq P!Row
      BY <2>1, <3>3 DEF P!Dies, P!TypeOK
    <3>4. UNCHANGED forgotten \/ P!Dies \/ (\E t \in Request : P!Gives(t) \/ P!Embed(t))
      BY DEF P!Next, P!Announced, P!Removed, P!Resolved, P!Unresolved, P!Moves, P!Begin, P!Probe, P!Status,
             P!Page, P!Advance, P!Breaks, P!Push, P!pullVars
    <3>5. QED
      BY <3>1, <3>2, <3>3, <3>4 DEF P!TypeOK
  <2>6. QED
    BY <2>3, <2>4, <2>5
<1>7. QED
  BY <1>1, <1>2, <1>3, <1>4, <1>5, <1>6 DEF PullTypes, PullType, P!TypeOK

\* The question that a handler is about to answer is of the kind it checked.
Kinds(job) ==
  /\ job.op = "accept rename" => job.q.kind = "rename"
  /\ job.op = "accept negation" => job.q.kind = "negation"
ReviewTyped == R!TypeOK /\ \A h \in Request : Kinds(doing[h])

\* The fiches, the questions and the handlers are typed at first.
LEMMA ReviewTypedInit == R!Init => ReviewTyped
<1> SUFFICES ASSUME R!Init PROVE ReviewTyped
  OBVIOUS
<1>0. \A h \in Request : Kinds(doing[h])
  BY DEF R!Init, R!Idle, Kinds
<1>1. R!Idle \in R!Job
  BY DEF R!Job
<1>2. served \in 0..MaxRequest
  BY PartsAssumption DEF R!Init, R!ReviewAssumption, K!DeskAssumption
<1>3. name \in [Entity -> Name] /\ borne \in [Entity -> SUBSET Name]
  BY PartsAssumption DEF R!Init, R!ReviewAssumption
<1>4. doing \in [Request -> R!Job]
  BY <1>1 DEF R!Init
<1>5. /\ aliases \in [Entity -> SUBSET Name] /\ stale \subseteq Entity /\ merged \in [Entity -> Entity \cup {None}]
      /\ standing \in [Entity -> {"pending", "active", "archived"}]
  BY DEF R!Init
<1>6. /\ home \in [Fact -> Entity] /\ candidate \subseteq Fact /\ gone \in [Fact -> SUBSET {"archived", "obsolete"}]
      /\ status \in [Question -> {"pending", "accepted", "rejected"}]
      /\ owed \subseteq Entity /\ outdated \in BOOLEAN
  BY DEF R!Init
<1>7. QED
  BY <1>0, <1>2, <1>3, <1>4, <1>5, <1>6 DEF R!TypeOK, ReviewTyped

\* What a question is about ...
LEMMA Asking ==
  ASSUME NEW q \in Question
  PROVE  /\ q.kind = "rename" => q.e \in Entity /\ q.to \in Name
         /\ q.kind \in {"negation", "type"} => q.e \in Entity
         /\ q.kind = "merge" => q.a \in Entity /\ q.b \in Entity
BY PartsAssumption DEF R!ReviewAssumption

\* ... and what a job is about.
LEMMA Working ==
  ASSUME NEW job \in R!Job
  PROVE  /\ job.op \in {"reject", "accept predicate", "accept type", "accept rename", "accept negation", "accept merge"}
              => job.q \in Question
         /\ job.op \in {"accept rename", "accept merge", "rename"} => job.read \in R!Row
         /\ job.op = "accept negation" => job.f \in Fact
         /\ job.op = "accept merge" => job.absorbed \in Entity /\ job.canonical \in Entity
         /\ job.op = "rename" => job.e \in Entity /\ job.to \in Name
<1>1. CASE job \in {R!Idle}
  <2>1. job.op = "idle"
    BY <1>1 DEF R!Idle
  <2>2. QED
    BY <2>1
<1>2. CASE job \in [op : {"reject", "accept predicate", "accept type"}, q : Question]
  BY <1>2
<1>3. CASE job \in [op : {"accept rename"}, q : Question, read : R!Row]
  BY <1>3
<1>4. CASE job \in [op : {"accept negation"}, q : Question, f : Fact]
  BY <1>4
<1>5. CASE job \in [op : {"accept merge"}, q : Question, absorbed : Entity, canonical : Entity, read : R!Row]
  BY <1>5
<1>6. CASE job \in [op : {"rename"}, e : Entity, to : Name, read : R!Row]
  BY <1>6
<1>7. QED
  BY <1>1, <1>2, <1>3, <1>4, <1>5, <1>6 DEF R!Job

\* What a handler reads and takes on is a job.
LEMMA ReviewTypedChecks == ASSUME ReviewTyped, NEW h \in Request, R!Check(h) PROVE ReviewTyped'
<1>0. R!TypeOK
  BY DEF ReviewTyped
<1>1. ASSUME NEW job \in R!Job, R!Begin(h, job), Kinds(job) PROVE ReviewTyped'
  <2>1. served' \in 0..MaxRequest
    BY <1>0, <1>1, PartsAssumption DEF R!Begin, R!TypeOK, K!DeskAssumption
  <2>2. doing' \in [Request -> R!Job]
    BY <1>0, <1>1 DEF R!Begin, R!TypeOK
  <2>3. \A g \in Request : Kinds(doing[g])'
    BY <1>0, <1>1 DEF R!Begin, R!TypeOK, ReviewTyped, Kinds
  <2>4. QED
    BY <1>0, <1>1, <2>1, <2>2, <2>3 DEF R!Begin, R!TypeOK, R!rowVars, ReviewTyped
<1>2. \A e, d \in Entity : R!ReadRow(e) \in R!Row /\ [name |-> name[e], aliases |-> aliases[d]] \in R!Row
  BY <1>0 DEF R!ReadRow, R!Row, R!TypeOK
<1>3. ASSUME NEW q \in Question, R!CheckReject(h, q) \/ R!CheckAcceptPredicate(h, q) \/ R!CheckAcceptType(h, q)
      PROVE  ReviewTyped'
  <2>1. \A o \in {"reject", "accept predicate", "accept type"} : [op |-> o, q |-> q] \in R!Job
    BY DEF R!Job
  <2>2. QED
    BY <1>1, <1>3, <2>1 DEF R!CheckReject, R!CheckAcceptPredicate, R!CheckAcceptType, Kinds
<1>4. ASSUME NEW q \in Question, R!CheckAcceptRename(h, q) PROVE ReviewTyped'
  <2>1. R!ReadRow(q.e) \in R!Row
    BY <1>2, <1>4, Asking DEF R!CheckAcceptRename
  <2>2. [op |-> "accept rename", q |-> q, read |-> R!ReadRow(q.e)] \in R!Job
    BY <2>1 DEF R!Job
  <2>3. QED
    BY <1>1, <1>4, <2>2 DEF R!CheckAcceptRename, Kinds
<1>5. ASSUME NEW q \in Question, NEW f \in Fact, R!CheckAcceptNegation(h, q, f) PROVE ReviewTyped'
  <2>1. [op |-> "accept negation", q |-> q, f |-> f] \in R!Job
    BY DEF R!Job
  <2>2. QED
    BY <1>1, <1>5, <2>1 DEF R!CheckAcceptNegation, Kinds
<1>6. ASSUME NEW q \in Question, NEW e \in Entity, R!CheckAcceptMerge(h, q, e) PROVE ReviewTyped'
  <2>1. PICK d \in {q.a, q.b} \ {e} :
          R!Begin(h, [op |-> "accept merge", q |-> q, absorbed |-> d, canonical |-> e,
                      read |-> [name |-> name[d], aliases |-> aliases[e]]])
    BY <1>6 DEF R!CheckAcceptMerge
  <2>2. d \in Entity
    BY <1>6, Asking DEF R!CheckAcceptMerge
  <2>3. [name |-> name[d], aliases |-> aliases[e]] \in R!Row
    BY <1>2, <2>2
  <2>4. [op |-> "accept merge", q |-> q, absorbed |-> d, canonical |-> e,
         read |-> [name |-> name[d], aliases |-> aliases[e]]] \in R!Job
    BY <2>2, <2>3 DEF R!Job
  <2>5. QED
    BY <1>1, <2>1, <2>4 DEF Kinds
<1>7. ASSUME NEW e \in Entity, NEW new \in Name, R!CheckRename(h, e, new) PROVE ReviewTyped'
  <2>1. [op |-> "rename", e |-> e, to |-> new, read |-> R!ReadRow(e)] \in R!Job
    BY <1>2 DEF R!Job
  <2>2. QED
    BY <1>1, <1>7, <2>1 DEF R!CheckRename, Kinds
<1>8. QED
  BY <1>3, <1>4, <1>5, <1>6, <1>7 DEF R!Check

\* The transaction of a job keeps the types of the rows it writes.
LEMMA ReviewTypedCommits == ASSUME ReviewTyped, NEW h \in Request, R!Commit(h) PROVE ReviewTyped'
<1> DEFINE job == doing[h]
<1>0. R!TypeOK /\ Kinds(job)
  BY DEF ReviewTyped
<1>1. job \in R!Job /\ R!Idle \in R!Job
  BY <1>0 DEF R!TypeOK, R!Job
<1>2. doing' \in [Request -> R!Job] /\ served' \in 0..MaxRequest /\ \A g \in Request : Kinds(doing[g])'
  BY <1>0, <1>1 DEF R!TypeOK, R!Commit, R!Idle, ReviewTyped, Kinds
<1> DEFINE Names == name' \in [Entity -> Name] /\ aliases' \in [Entity -> SUBSET Name] /\ borne' \in [Entity -> SUBSET Name]
           Flags == stale' \subseteq Entity /\ owed' \subseteq Entity /\ outdated' \in BOOLEAN
           Facts == home' \in [Fact -> Entity] /\ candidate' \subseteq Fact /\ gone' \in [Fact -> SUBSET {"archived", "obsolete"}]
           Status == status' \in [Question -> {"pending", "accepted", "rejected"}]
           Links == merged' \in [Entity -> Entity \cup {None}] /\ standing' \in [Entity -> {"pending", "active", "archived"}]
<1>3. SUFFICES Names /\ Flags /\ Facts /\ Status /\ Links
  BY <1>2 DEF R!TypeOK, ReviewTyped
<1>a. /\ \A q \in Question, answer \in {"accepted", "rejected"} : R!Settle(q, answer) => Status
      /\ UNCHANGED status => Status
  BY <1>0 DEF R!Settle, R!TypeOK
<1>b. /\ UNCHANGED <<name, aliases, borne>> => Names
      /\ UNCHANGED <<stale, owed, outdated>> => Flags
      /\ UNCHANGED <<home, candidate, gone>> => Facts
      /\ UNCHANGED <<merged, standing>> => Links
  BY <1>0 DEF R!TypeOK
<1>c. ASSUME NEW e \in Entity, NEW read \in R!Row, NEW new \in Name, R!WriteName(e, read, new) PROVE Names /\ Flags
  <2>1. read.name \in Name /\ read.aliases \subseteq Name
    BY <1>0, <1>c DEF R!Row
  <2>2. name' \in [Entity -> Name]
    BY <1>0, <1>c DEF R!WriteName, R!TypeOK
  <2>3. aliases' \in [Entity -> SUBSET Name]
    <3>1. {a \in read.aliases \cup {read.name} : Fold[a] # Fold[new]} \in SUBSET Name
      BY <2>1
    <3>2. QED
      BY <1>0, <1>c, <3>1 DEF R!WriteName, R!TypeOK
  <2>4. borne' \in [Entity -> SUBSET Name]
    BY <1>0, <1>c DEF R!WriteName, R!TypeOK
  <2>5. Flags
    BY <1>0, <1>c DEF R!WriteName, R!TypeOK
  <2>6. QED
    BY <2>2, <2>3, <2>4, <2>5
<1> HIDE DEF Names, Flags, Facts, Status, Links
<1>4. CASE R!Rename(job)
  <2>1. job.e \in Entity /\ job.to \in Name /\ job.read \in R!Row
    BY <1>1, <1>4, Working DEF R!Rename
  <2>2. QED
    BY <1>4, <1>a, <1>b, <1>c, <2>1 DEF R!Rename
<1>5. CASE R!AcceptRename(job)
  <2>1. job.q \in Question /\ job.read \in R!Row /\ job.q.kind = "rename"
    BY <1>0, <1>1, <1>5, Working DEF R!AcceptRename, Kinds
  <2>2. job.q.e \in Entity /\ job.q.to \in Name
    BY <2>1, Asking
  <2>3. Names /\ Flags
    BY <1>5, <1>b, <1>c, <2>1, <2>2 DEF R!AcceptRename
  <2>4. QED
    BY <1>5, <1>a, <1>b, <2>1, <2>3 DEF R!AcceptRename
<1>6. CASE R!AcceptNegation(job)
  <2>1. job.q \in Question /\ job.f \in Fact /\ job.q.kind = "negation"
    BY <1>0, <1>1, <1>6, Working DEF R!AcceptNegation, Kinds
  <2>2. job.q.e \in Entity
    BY <2>1, Asking
  <2>3. Flags
    BY <1>0, <1>6, <2>1, <2>2 DEF R!AcceptNegation, R!TypeOK, Flags
  <2>4. Facts
    BY <1>0, <1>6, <2>1 DEF R!AcceptNegation, R!TypeOK, Facts
  <2>5. QED
    BY <1>6, <1>a, <1>b, <2>1, <2>3, <2>4 DEF R!AcceptNegation
<1>7. CASE R!AcceptPredicate(job)
  <2>1. job.q \in Question
    BY <1>1, <1>7, Working DEF R!AcceptPredicate
  <2>2. Flags /\ Facts
    <3>1. {home[f] : f \in candidate} \subseteq Entity
      BY <1>0 DEF R!TypeOK
    <3>2. Flags
      BY <1>0, <1>7, <3>1 DEF R!AcceptPredicate, R!TypeOK, Flags
    <3>3. Facts
      BY <1>0, <1>7 DEF R!AcceptPredicate, R!TypeOK, Facts
    <3>4. QED
      BY <3>2, <3>3
  <2>3. QED
    BY <1>7, <1>a, <1>b, <2>1, <2>2 DEF R!AcceptPredicate
<1>8. CASE R!AcceptType(job)
  <2>1. job.q \in Question
    BY <1>1, <1>8, Working DEF R!AcceptType
  <2>2. Links
    BY <1>0, <1>8 DEF R!AcceptType, R!TypeOK, Links
  <2>3. QED
    BY <1>8, <1>a, <1>b, <2>1, <2>2 DEF R!AcceptType
<1>9. CASE R!AcceptMerge(job)
  <2>1. job.q \in Question /\ job.absorbed \in Entity /\ job.canonical \in Entity
        /\ job.read.name \in Name /\ job.read.aliases \subseteq Name
    BY <1>1, <1>9, Working DEF R!AcceptMerge, R!Row
  <2>2. Names
    <3>1. name' \in [Entity -> Name]
      BY <1>0, <1>9 DEF R!AcceptMerge, R!TypeOK
    <3>2. job.read.aliases \cup {job.read.name} \in SUBSET Name
      BY <2>1
    <3>3. aliases' \in [Entity -> SUBSET Name]
      BY <1>0, <1>9, <2>1, <3>2 DEF R!AcceptMerge, R!TypeOK
    <3>4. borne[job.canonical] \cup {name[job.absorbed]} \in SUBSET Name
      BY <1>0, <2>1 DEF R!TypeOK
    <3>5. borne' \in [Entity -> SUBSET Name]
      BY <1>0, <1>9, <2>1, <3>4 DEF R!AcceptMerge, R!TypeOK
    <3>6. QED
      BY <3>1, <3>3, <3>5 DEF Names
  <2>3. Flags
    BY <1>0, <1>9 DEF R!AcceptMerge, R!TypeOK, Flags
  <2>4. Facts
    BY <1>0, <1>9, <2>1 DEF R!AcceptMerge, R!TypeOK, Facts
  <2>5. Links
    BY <1>0, <1>9, <2>1 DEF R!AcceptMerge, R!TypeOK, Links
  <2>6. QED
    BY <1>9, <1>a, <2>1, <2>2, <2>3, <2>4, <2>5 DEF R!AcceptMerge
<1>10. CASE R!Reject(job)
  <2>1. job.op = "reject"
    BY <1>10 DEF R!Reject, R!RejectMerge, R!RejectPredicate, R!RejectRename, R!RejectNegation, R!RejectType, R!Refuse
  <2>2. job.q \in Question
    BY <1>1, <2>1, Working
  <2>3. Names /\ Flags /\ Facts /\ Status /\ UNCHANGED merged
    BY <1>10, <1>a, <1>b, <2>2
    DEF R!Reject, R!RejectMerge, R!RejectPredicate, R!RejectRename, R!RejectNegation, R!RejectType, R!Refuse
  <2>4. Links
    BY <1>0, <1>10, <2>3 DEF R!Reject, R!RejectMerge, R!RejectPredicate, R!RejectRename, R!RejectNegation, R!RejectType,
                       R!TypeOK, Links
  <2>5. QED
    BY <2>3, <2>4
<1>11. QED
  BY <1>4, <1>5, <1>6, <1>7, <1>8, <1>9, <1>10 DEF R!Commit

\* Each step of an answer or of an edition keeps them.
LEMMA ReviewTypedStep == ReviewTyped /\ [R!Next]_(R!reviewVars) => ReviewTyped'
<1> SUFFICES ASSUME ReviewTyped, [R!Next]_(R!reviewVars) PROVE ReviewTyped'
  OBVIOUS
<1>0. R!TypeOK
  BY DEF ReviewTyped
<1>1. CASE UNCHANGED R!reviewVars
  BY <1>1 DEF R!reviewVars, R!rowVars, R!TypeOK, ReviewTyped, Kinds
<1>2. ASSUME NEW f \in Fact, R!LifeOfFact(f) PROVE ReviewTyped'
  <2>1. PICK columns \in SUBSET {"archived", "obsolete"} : R!SetTimestamp(f, columns)
    BY <1>0, <1>2 DEF R!LifeOfFact, R!TypeOK
  <2>2. R!TypeOK'
    BY <1>0, <2>1 DEF R!SetTimestamp, R!FlagHome, R!TypeOK
  <2>3. QED
    BY <2>1, <2>2 DEF R!SetTimestamp, ReviewTyped, Kinds
<1>3. ASSUME NEW f \in Fact, R!UpdateFact(f) PROVE ReviewTyped'
  <2>1. R!TypeOK'
    BY <1>0, <1>3 DEF R!UpdateFact, R!FlagHome, R!TypeOK
  <2>2. QED
    BY <1>3, <2>1 DEF R!UpdateFact, ReviewTyped, Kinds
<1>4. ASSUME NEW e \in Entity, R!Resummarize(e) PROVE ReviewTyped'
  BY <1>0, <1>4 DEF R!Resummarize, R!TypeOK, ReviewTyped, Kinds
<1>5. QED
  BY <1>1, <1>2, <1>3, <1>4, ReviewTypedChecks, ReviewTypedCommits DEF R!Next

\* The rows of the desk are typed at first.
LEMMA DeskTypedInit == K!Init => K!TypeOK
<1> SUFFICES ASSUME K!Init PROVE K!TypeOK
  OBVIOUS
<1>1. DeskTypes
  BY DeskInit DEF DeskInv
<1>2. gestures \in 0..MaxRequest
  BY PartsAssumption DEF K!Init, K!DeskAssumption
<1>3. QED
  BY <1>1, <1>2 DEF DeskTypes, K!TypeOK

\* A gesture keeps their types.
LEMMA DeskTyped == DeskInv /\ K!TypeOK /\ [K!Next]_(K!deskVars) => K!TypeOK'
<1> SUFFICES ASSUME DeskInv, K!TypeOK, [K!Next]_(K!deskVars) PROVE K!TypeOK'
  OBVIOUS
<1>1. DeskTypes'
  BY DeskStep DEF DeskInv
<1>2. gestures' = gestures \/ (gestures < MaxRequest /\ gestures' = gestures + 1)
  BY DEF K!Next, K!deskVars, K!HideEntity, K!Merge, K!AcceptBirth, K!RejectBirth, K!ConfirmRelation, K!DeleteRelation,
         K!ConfirmNote, K!HideNote, K!LifeOfFact, K!Validate, K!Check, K!Commit, K!Count, K!Begin, K!CheckCreate,
         K!CheckPromote, K!CheckMove, K!CheckAttach, K!CheckDetach, K!CheckReclassify, K!CheckAcceptOffer,
         K!CheckRejectOffer
<1>3. gestures' \in 0..MaxRequest
  <2>1. gestures \in 0..MaxRequest /\ MaxRequest \in Nat
    BY PartsAssumption DEF K!DeskAssumption, K!TypeOK
  <2>2. QED
    BY <1>2, <2>1
<1>4. QED
  BY <1>1, <1>3 DEF DeskTypes, K!TypeOK

\* The files of a home and its processes are typed at first.
LEMMA HomeTypedInit == H!Init => H!TypeOK
<1> SUFFICES ASSUME H!Init PROVE H!TypeOK
  OBVIOUS
<1>1. HomeTypes
  BY HomeInit DEF HomeInv
<1>2. ended \in 0..MaxEnd
  BY PartsAssumption DEF H!Init, H!IdentityAssumption
<1>3. {torn, raced, doubled} \subseteq BOOLEAN
  BY DEF H!Init
<1>4. QED
  BY <1>1, <1>2, <1>3 DEF HomeTypes, BackendType, ServedType, H!TypeOK

\* A step of a process of the home keeps their types.
LEMMA HomeTyped == HomeInv /\ H!TypeOK /\ [H!Next]_(H!identityVars) => H!TypeOK'
<1> SUFFICES ASSUME HomeInv, H!TypeOK, [H!Next]_(H!identityVars) PROVE H!TypeOK'
  OBVIOUS
<1>1. HomeTypes'
  BY HomeStep DEF HomeInv
<1>2. ended' = ended \/ (ended < MaxEnd /\ ended' = ended + 1)
  BY DEF H!Next, H!identityVars, H!Start, H!Make, H!Load, H!Announce, H!OfferPairing, H!Dies, H!Read, H!OpenToken,
         H!WriteToken, H!NotWritten
<1>3. ended' \in 0..MaxEnd
  <2>1. ended \in 0..MaxEnd /\ MaxEnd \in Nat
    BY PartsAssumption DEF H!IdentityAssumption, H!TypeOK
  <2>2. QED
    BY <1>2, <2>1
<1>4. torn' \in BOOLEAN
  BY DEF H!Next, H!identityVars, H!Start, H!Make, H!Load, H!Announce, H!OfferPairing, H!Dies, H!Read, H!OpenToken,
         H!WriteToken, H!NotWritten, H!TypeOK
<1>5. raced' \in BOOLEAN
  BY DEF H!Next, H!identityVars, H!Start, H!Make, H!Load, H!Announce, H!OfferPairing, H!Dies, H!Read, H!OpenToken,
         H!WriteToken, H!NotWritten, H!TypeOK
<1>6. doubled' \in BOOLEAN
  BY DEF H!Next, H!identityVars, H!Start, H!Make, H!Load, H!Announce, H!OfferPairing, H!Dies, H!Read, H!OpenToken,
         H!WriteToken, H!NotWritten, H!TypeOK
<1>7. QED
  BY <1>1, <1>3, <1>4, <1>5, <1>6 DEF HomeTypes, BackendType, ServedType, H!TypeOK

\* What the searches left behind is about searches and members.
JoinPast ==
  /\ said \subseteq J!Search \X Device \X {"approved", "denied"}
  /\ called \subseteq J!Search \X Device /\ unheard \subseteq J!Search \X Device
  /\ applied \subseteq J!Search /\ dead \in 0..MaxDeath

\* A thread works for a search that was started, on a list of members.
LEMMA JoinTyped == JoinInv /\ JoinPast => J!TypeOK
<1> SUFFICES ASSUME JoinInv, JoinPast PROVE J!TypeOK
  OBVIOUS
<1>1. JoinTypes
  BY DEF JoinInv
<1>2. ASSUME NEW t \in J!On
      PROVE  /\ thread[t].at \in {"ask", "confirm", "poll", "apply", "call"}
             /\ thread[t].n \in 1..searches /\ thread[t].left \in Seq(Device)
  <2>1. thread[t] \in ThreadType /\ Knows(thread[t])
    BY <1>1 DEF J!On, JoinTypes, JoinInv
  <2>2. thread[t].n \in 1..MaxSearch /\ thread[t].n = searches
    BY <2>1 DEF ThreadType, Knows, J!Search
  <2>3. thread[t].left \in J!Lists
    BY <2>1 DEF ThreadType
  <2>5. thread[t].left \in Seq(Device)
    <3>1. thread[t].left \in {<<>>} \cup {<<m>> : m \in Device} \cup {<<m, o>> : m, o \in Device}
      BY <2>3 DEF J!Lists
    <3>2. CASE thread[t].left = <<>>
      BY <3>2
    <3>3. ASSUME NEW m \in Device, thread[t].left = <<m>> PROVE thread[t].left \in Seq(Device)
      BY <3>3
    <3>4. ASSUME NEW m \in Device, NEW o \in Device, thread[t].left = <<m, o>>
          PROVE  thread[t].left \in Seq(Device)
      BY <3>4
    <3>5. QED
      BY <3>1, <3>2, <3>3, <3>4
  <2>6. QED
    BY <1>1, <2>1, <2>2, <2>5 DEF ThreadType, JoinTypes
<1>3. QED
  BY <1>1, <1>2 DEF JoinPast, JoinTypes, AskState, J!TypeOK

\* Nothing is recorded at first.
LEMMA JoinPastInit == J!Init => JoinPast
BY PartsAssumption DEF J!Init, J!SearchAssumption, JoinPast

\* What a step records is about a search and a member.
LEMMA JoinPastStep == JoinInv /\ JoinPast /\ [J!Next]_(J!searchVars) => JoinPast'
<1> SUFFICES ASSUME JoinInv, JoinPast, [J!Next]_(J!searchVars) PROVE JoinPast'
  OBVIOUS
<1>1. ASSUME NEW t \in Request, thread[t].at \in {"confirm", "call", "apply"}, thread[t] # J!Off
      PROVE  thread[t].n \in J!Search /\ J!Of(t) \in Device
  <2>1. thread[t] \in ThreadType /\ Knows(thread[t])
    BY <1>1 DEF JoinTypes, JoinInv
  <2>2. thread[t].left \in J!Lists /\ thread[t].left # <<>> /\ thread[t].n \in J!Search
    BY <1>1, <2>1 DEF ThreadType, Knows
  <2>3. QED
    BY <2>2, CandidatesLeft DEF J!Of
<1>2. said' \subseteq J!Search \X Device \X {"approved", "denied"}
  <2>1. ASSUME NEW n \in J!Search, NEW m \in Device, NEW answer \in {"approved", "denied"}, J!Decide(n, m, answer)
        PROVE  said' \subseteq J!Search \X Device \X {"approved", "denied"}
    BY <2>1 DEF J!Decide, JoinPast
  <2>2. UNCHANGED said \/ \E n \in J!Search, m \in Device, answer \in {"approved", "denied"} : J!Decide(n, m, answer)
    BY DEF J!Next, J!searchVars, J!Start, J!NotFound, J!Ask, J!Confirm, J!Poll, J!TimesOut, J!Apply, J!ApplyFails,
           J!CallBack, J!Expire, J!Dies
  <2>3. QED
    BY <2>1, <2>2 DEF JoinPast
<1>3. called' \subseteq J!Search \X Device
  <2>1. ASSUME NEW t \in Request, J!CallBack(t) PROVE called' \subseteq J!Search \X Device
    <3>1. thread[t] # J!Off
      BY <2>1 DEF J!CallBack, J!Off
    <3>2. thread[t].n \in J!Search /\ J!Of(t) \in Device
      BY <1>1, <2>1, <3>1 DEF J!CallBack
    <3>3. QED
      BY <2>1, <3>2 DEF J!CallBack, JoinPast
  <2>2. UNCHANGED called \/ \E t \in Request : J!CallBack(t)
    BY DEF J!Next, J!searchVars, J!Start, J!NotFound, J!Ask, J!Confirm, J!Poll, J!TimesOut, J!Apply, J!ApplyFails,
           J!Decide, J!Expire, J!Dies
  <2>3. QED
    BY <2>1, <2>2 DEF JoinPast
<1>4. unheard' \subseteq J!Search \X Device
  <2>1. ASSUME NEW t \in Request, J!Confirm(t) PROVE unheard' \subseteq J!Search \X Device
    <3>1. thread[t] # J!Off
      BY <2>1 DEF J!Confirm, J!Off
    <3>2. thread[t].n \in J!Search /\ J!Of(t) \in Device
      BY <1>1, <2>1, <3>1 DEF J!Confirm
    <3>3. unheard' = unheard \/ unheard' = unheard \cup {<<thread[t].n, J!Of(t)>>}
      BY <2>1 DEF J!Confirm
    <3>4. QED
      BY <3>2, <3>3 DEF JoinPast
  <2>2. UNCHANGED unheard \/ \E t \in Request : J!Confirm(t)
    BY DEF J!Next, J!searchVars, J!Start, J!NotFound, J!Ask, J!CallBack, J!Poll, J!TimesOut, J!Apply, J!ApplyFails,
           J!Decide, J!Expire, J!Dies
  <2>3. QED
    BY <2>1, <2>2 DEF JoinPast
<1>5. applied' \subseteq J!Search
  <2>1. ASSUME NEW t \in Request, J!Apply(t) PROVE applied' \subseteq J!Search
    <3>1. thread[t] # J!Off
      BY <2>1 DEF J!Apply, J!Off
    <3>2. thread[t].n \in J!Search
      BY <1>1, <2>1, <3>1 DEF J!Apply
    <3>3. QED
      BY <2>1, <3>2 DEF J!Apply, JoinPast
  <2>2. UNCHANGED applied \/ \E t \in Request : J!Apply(t)
    BY DEF J!Next, J!searchVars, J!Start, J!NotFound, J!Ask, J!CallBack, J!Poll, J!TimesOut, J!Confirm, J!ApplyFails,
           J!Decide, J!Expire, J!Dies
  <2>3. QED
    BY <2>1, <2>2 DEF JoinPast
<1>6. dead' \in 0..MaxDeath
  <2>1. dead' = dead \/ (dead < MaxDeath /\ dead' = dead + 1)
    BY DEF J!Next, J!searchVars, J!Start, J!NotFound, J!Ask, J!CallBack, J!Poll, J!TimesOut, J!Confirm, J!ApplyFails,
           J!Apply, J!Decide, J!Expire, J!Dies
  <2>2. dead \in 0..MaxDeath /\ MaxDeath \in Nat
    BY PartsAssumption DEF J!SearchAssumption, JoinPast
  <2>3. QED
    BY <2>1, <2>2
<1>7. QED
  BY <1>2, <1>3, <1>4, <1>5, <1>6 DEF JoinPast

\* The invariant: the types of the part that was chosen, with what they rest on.
TypesKept ==
  /\ part \in Part
  /\ part = "config" => SettingsTyped
  /\ part = "install" => InstallInv /\ I!TypeOK
  /\ part = "session" => SessionInv /\ S!TypeOK
  /\ part = "access" => D!TypeOK
  /\ part = "review" => ReviewTyped
  /\ part = "zones" => ZonesInv
  /\ part = "desk" => DeskInv /\ K!TypeOK
  /\ part = "pull" => PullInv /\ P!TypeOK
  /\ part = "join" => JoinInv /\ JoinPast
  /\ part = "home" => HomeInv /\ H!TypeOK
  /\ part = "choice" => ChoiceInv /\ G!TypeOK

\* Each part is typed at first ...
LEMMA TypesAtFirst == Init => TypesKept
<1> SUFFICES ASSUME Init PROVE TypesKept
  OBVIOUS
<1>1. part \in Part
  BY DEF Init
<1>2. /\ part = "config" => SettingsTyped
      /\ part = "install" => InstallInv /\ I!TypeOK
      /\ part = "session" => SessionInv /\ S!TypeOK
      /\ part = "access" => D!TypeOK
  BY ConfigAlone, SettingsTypedInit, InstallAlone, InstallInit, InstallTypedInit,
     SessionAlone, SessionInit, SessionTypedInit, AccessAlone, AccessTypedInit
<1>3. /\ part = "review" => ReviewTyped
      /\ part = "zones" => ZonesInv
      /\ part = "desk" => DeskInv /\ K!TypeOK
      /\ part = "pull" => PullInv /\ P!TypeOK
  BY ReviewAlone, ReviewTypedInit, ZonesAlone, ZonesInit, DeskAlone, DeskInit, DeskTypedInit,
     PullAlone, PullStart, PullTypedInit
<1>4. /\ part = "join" => JoinInv /\ JoinPast
      /\ part = "home" => HomeInv /\ H!TypeOK
      /\ part = "choice" => ChoiceInv /\ G!TypeOK
  BY JoinAlone, JoinInit, JoinPastInit, HomeAlone, HomeInit, HomeTypedInit,
     ChoiceAlone, ChoiceInit, ChoiceTypedInit
<1>5. QED
  BY <1>1, <1>2, <1>3, <1>4 DEF TypesKept

\* ... and stays so.
LEMMA TypesStep == TypesKept /\ [Next]_vars => TypesKept'
<1> SUFFICES ASSUME TypesKept, [Next]_vars PROVE TypesKept'
  OBVIOUS
<1>1. part' = part /\ part' \in Part
  BY PartStays DEF TypesKept
<1>2. CASE part = "config"
  <2>1. SettingsTyped'
    BY <1>2, ConfigAlone, SettingsTypedStep DEF TypesKept
  <2>2. QED
    BY <1>1, <1>2, <2>1 DEF TypesKept
<1>3. CASE part = "install"
  <2>1. InstallInv' /\ I!TypeOK'
    BY <1>3, InstallAlone, InstallStep, InstallTyped DEF TypesKept
  <2>2. QED
    BY <1>1, <1>3, <2>1 DEF TypesKept
<1>4. CASE part = "session"
  <2>1. SessionInv' /\ S!TypeOK'
    BY <1>4, SessionAlone, SessionStep, SessionTyped DEF TypesKept
  <2>2. QED
    BY <1>1, <1>4, <2>1 DEF TypesKept
<1>5. CASE part = "access"
  <2>1. D!TypeOK'
    BY <1>5, AccessAlone, AccessTyped DEF TypesKept
  <2>2. QED
    BY <1>1, <1>5, <2>1 DEF TypesKept
<1>6. CASE part = "review"
  <2>1. ReviewTyped'
    BY <1>6, ReviewAlone, ReviewTypedStep DEF TypesKept
  <2>2. QED
    BY <1>1, <1>6, <2>1 DEF TypesKept
<1>7. CASE part = "zones"
  <2>1. ZonesInv'
    BY <1>7, ZonesAlone, ZonesStep DEF TypesKept
  <2>2. QED
    BY <1>1, <1>7, <2>1 DEF TypesKept
<1>8. CASE part = "desk"
  <2>1. DeskInv' /\ K!TypeOK'
    BY <1>8, DeskAlone, DeskStep, DeskTyped DEF TypesKept
  <2>2. QED
    BY <1>1, <1>8, <2>1 DEF TypesKept
<1>9. CASE part = "pull"
  <2>1. PullInv' /\ P!TypeOK'
    BY <1>9, PullAlone, PullStep, PullTyped DEF TypesKept
  <2>2. QED
    BY <1>1, <1>9, <2>1 DEF TypesKept
<1>10. CASE part = "join"
  <2>1. JoinInv' /\ JoinPast'
    BY <1>10, JoinAlone, JoinStep, JoinPastStep DEF TypesKept
  <2>2. QED
    BY <1>1, <1>10, <2>1 DEF TypesKept
<1>11. CASE part = "home"
  <2>1. HomeInv' /\ H!TypeOK'
    BY <1>11, HomeAlone, HomeStep, HomeTyped DEF TypesKept
  <2>2. QED
    BY <1>1, <1>11, <2>1 DEF TypesKept
<1>12. CASE part = "choice"
  <2>1. ChoiceInv' /\ G!TypeOK'
    BY <1>12, ChoiceAlone, ChoiceStep, ChoiceTyped DEF TypesKept
  <2>2. QED
    BY <1>1, <1>12, <2>1 DEF TypesKept
<1>13. QED
  BY <1>1, <1>2, <1>3, <1>4, <1>5, <1>6, <1>7, <1>8, <1>9, <1>10, <1>11, <1>12 DEF Part

\* For any number of requests, devices, processes, settings and rows, each part keeps its types.
THEOREM TypeCorrect == Spec => []TypeOK
<1>1. TypesKept => TypeOK
  <2> SUFFICES ASSUME TypesKept PROVE TypeOK
    OBVIOUS
  <2>1. /\ part \in Part
        /\ part = "config" => C!TypeOK
        /\ part = "install" => I!TypeOK
        /\ part = "session" => S!TypeOK
        /\ part = "access" => D!TypeOK
        /\ part = "review" => R!TypeOK
        /\ part = "zones" => L!TypeOK
        /\ part = "desk" => K!TypeOK
        /\ part = "pull" => P!TypeOK
        /\ part = "join" => J!TypeOK
        /\ part = "home" => H!TypeOK
        /\ part = "choice" => G!TypeOK
    BY JoinTyped DEF TypesKept, SettingsTyped, ReviewTyped, ZonesInv
  <2>2. QED
    BY <2>1 DEF TypeOK, Part
<1>2. QED
  BY <1>1, TypesAtFirst, TypesStep, PTL DEF Spec

=============================================================================
