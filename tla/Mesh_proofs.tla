----------------------------- MODULE Mesh_proofs -----------------------------
(***************************************************************************)
(* Proofs about Mesh, for any set of devices, any memories they start in,  *)
(* any links, phones, joiners and founders, and any number of joins.       *)
(***************************************************************************)
EXTENDS Mesh, FiniteSetTheorems, TLAPS

\* The parts of the type invariant, and what the steps of a pull and of a join say
\* of the fields they use.
RegisterOK == /\ author \in [Stamp -> Device \cup {None}]
              /\ clock \in [Device -> Stamp \cup {0}]
              /\ space \in [Device -> Stamp \cup {0}] /\ owner \in [Device -> Stamp \cup {0}]
JournalOK == seq \in [Device -> [Row -> Nat]] /\ top \in [Device -> Nat]
PeerOK == cursor \in [Device -> [Device -> Nat]] /\ floor \in [Device -> Nat]
HintOK == hint \in [Device -> Stamp \cup {0}]
PullType == [st : {"off", "ready", "page", "last"}, from : Device \cup {None},
        cur : Nat, row : Row \cup {None}, val : Stamp \cup {0},
        under : Stamp \cup {0}, more : BOOLEAN]
PullOK == /\ pull \in [Device -> [Thread -> PullType]]
          /\ \A d \in Device, t \in Thread :
               /\ pull[d][t].st # "off" => pull[d][t].from \in Device
               /\ pull[d][t].st = "page" => pull[d][t].row \in Row
               /\ pull[d][t].st # "page" => pull[d][t].row = None
JoinType == [at : {"idle", "reset", "floor", "aim", "bootstrap", "pulling"},
        member : Device \cup {None}, space : Stamp \cup {0}, pour : BOOLEAN]
JoinOK == /\ join \in [Device -> JoinType]
          /\ \A j \in Device : join[j].at # "idle" => join[j].member \in Device
JoinsOK == joins \in [Device -> Seq(Device)] /\ \A d \in Device : Len(joins[d]) <= MaxJoin
GuardOK == guard \in [Device -> {"idle", "claim", "ensure", "insert", "own", "take"}]
HistoryOK == born \in [Device -> Stamp \cup {0}] /\ poured \subseteq Device /\ kept \subseteq Device /\ stray \subseteq Device

TypeInv == /\ RegisterOK /\ JournalOK /\ PeerOK /\ HintOK /\ PullOK
           /\ JoinOK /\ JoinsOK /\ GuardOK /\ HistoryOK

LEMMA Parts == TypeInv => TypeOK
BY DEF TypeInv, TypeOK, RegisterOK, JournalOK, PeerOK, HintOK, PullOK, PullType, JoinOK, JoinType,
       JoinsOK, GuardOK, HistoryOK

-----------------------------------------------------------------------------
(* The founders have stamps of their own.                                      *)
LEMMA FirstStamps ==
  /\ FirstStamp \in [Founder -> Stamp]
  /\ \A d, e \in Founder : d # e => FirstStamp[d] # FirstStamp[e]
<1> DEFINE n == Cardinality(Founder)
<1>1. IsFiniteSet(Founder)
  BY DeviceAssumption, FS_Subset DEF Founder
<1>2. n \in Nat /\ ExistsBijection(1..n, Founder)
  BY <1>1, FS_CardinalityType
<1>3. PICK b \in [1..n -> Founder] : \A d \in Founder : \E i \in 1..n : b[i] = d
  BY <1>2 DEF ExistsBijection, Bijection, Injection, Surjection
<1> DEFINE f == [d \in Founder |-> CHOOSE i \in 1..n : b[i] = d]
<1>4. \A d \in Founder : f[d] \in 1..n /\ b[f[d]] = d
  BY <1>3
<1>5. \A i \in 1..n : i \in Stamp
  BY <1>2, RoomAssumption, BoundAssumption DEF Stamp
<1>6. f \in [Founder -> Stamp] /\ \A d, e \in Founder : d # e => f[d] # f[e]
  BY <1>4, <1>5
<1> HIDE DEF f
<1>7. QED
  BY <1>6 DEF FirstStamp

\* The stamp a device starts with is that of the founder of its memory.
LEMMA StampsOf ==
  \A d \in Device : /\ StampOf(d) \in Stamp \cup {0}
                    /\ Host[d] = None => StampOf(d) = 0
                    /\ Host[d] # None => /\ Host[d] \in Founder /\ StampOf(d) = FirstStamp[Host[d]]
                                         /\ StampOf(d) \in Stamp
BY FirstStamps, HostAssumption DEF StampOf, Founder

LEMMA InitTypes == Init => TypeInv
<1> SUFFICES ASSUME Init PROVE TypeInv
  OBVIOUS
<1>1. RegisterOK
  <2>1. author \in [Stamp -> Device \cup {None}]
    BY FirstStamps DEF Init, Founder
  <2>2. QED
    BY <2>1, StampsOf DEF Init, RegisterOK
<1>2. JournalOK
  <2>1. \A r \in Row : Number(r) \in Nat
    BY DEF Number
  <2>2. \A d \in Device : LastNumber(d) \in Nat
    BY DEF LastNumber
  <2>3. QED
    BY <2>1, <2>2 DEF Init, JournalOK
<1>3. PeerOK
  <2>1. \A d \in Device : LastNumber(d) \in Nat
    BY DEF LastNumber
  <2>2. QED
    BY <2>1 DEF Init, PeerOK
<1>4. HintOK /\ GuardOK /\ JoinsOK
  BY BoundAssumption DEF Init, HintOK, GuardOK, JoinsOK
<1>5. PullOK
  <2>1. Off \in PullType
    BY DEF Off, PullType
  <2>2. QED
    BY <2>1 DEF Init, PullOK, Off
<1>6. JoinOK
  BY DEF Init, JoinOK, JoinType, NoJoin
<1>7. HistoryOK
  BY StampsOf DEF Init, HistoryOK
<1>8. QED
  BY <1>1, <1>2, <1>3, <1>4, <1>5, <1>6, <1>7 DEF TypeInv

-----------------------------------------------------------------------------
LEMMA JournalsTypes ==
  ASSUME JournalOK, NEW d \in Device, NEW r \in Row, Journals(d, r)
  PROVE  JournalOK'
BY DEF JournalOK, Journals

LEMMA StampsTypes ==
  ASSUME RegisterOK, NEW d \in Device, NEW s \in Stamp, NEW named \in Device, Stamps(d, s, named)
  PROVE  author' \in [Stamp -> Device \cup {None}] /\ clock' \in [Device -> Stamp \cup {0}]
BY DEF RegisterOK, Stamps

LEMMA ClaimsTypes ==
  ASSUME RegisterOK, JournalOK, NEW d \in Device, NEW named \in Device, Claims(d, named)
  PROVE  RegisterOK' /\ JournalOK'
<1>1. PICK s \in Stamp : /\ Stamps(d, s, named)
                         /\ owner' = [owner EXCEPT ![d] = s]
                         /\ Journals(d, "owner")
                         /\ UNCHANGED space
  BY DEF Claims
<1>2. JournalOK'
  BY <1>1, JournalsTypes DEF Row
<1>3. RegisterOK'
  BY <1>1, StampsTypes DEF RegisterOK
<1>4. QED
  BY <1>2, <1>3

LEMMA StraysTypes ==
  ASSUME NEW d, NEW s, NEW c
  PROVE  /\ Carries(d, s) \subseteq Device
         /\ c \in Device => Crosses(d, c, s) \subseteq Device
BY DEF Carries, Crosses

LEMMA MergesTypes ==
  ASSUME RegisterOK, JournalOK, stray \subseteq Device,
         NEW d \in Device, NEW r \in Row, NEW v \in Stamp \cup {0}, NEW under, Merges(d, r, v, under)
  PROVE  RegisterOK' /\ JournalOK' /\ stray' \subseteq Device
<1>1. CASE /\ r = "space" /\ v > space[d]
           /\ space' = [space EXCEPT ![d] = v]
           /\ clock' = [clock EXCEPT ![d] = IF v > @ THEN v ELSE @]
           /\ stray' = stray \cup Carries(d, v)
           /\ Journals(d, r) /\ UNCHANGED <<author, owner>>
  BY <1>1, JournalsTypes, StraysTypes DEF RegisterOK
<1>2. CASE /\ r = "owner" /\ v > owner[d]
           /\ owner' = [owner EXCEPT ![d] = v]
           /\ clock' = [clock EXCEPT ![d] = IF v > @ THEN v ELSE @]
           /\ Journals(d, r) /\ UNCHANGED <<author, space, stray>>
  BY <1>2, JournalsTypes DEF RegisterOK
<1>3. CASE /\ r \in Device /\ seq[d][r] = 0
           /\ stray' = stray \cup Crosses(d, r, under)
           /\ Journals(d, r) /\ UNCHANGED register
  BY <1>3, JournalsTypes, StraysTypes DEF RegisterOK, register
<1>4. CASE UNCHANGED <<register, journal, stray>>
  BY <1>4 DEF RegisterOK, JournalOK, register, journal
<1>5. QED
  BY <1>1, <1>2, <1>3, <1>4 DEF Merges

LEMMA ValueTypes ==
  ASSUME RegisterOK, NEW e \in Device, NEW r
  PROVE  Value(e, r) \in Stamp \cup {0}
BY DEF RegisterOK, Value

LEMMA NamesTypes ==
  ASSUME RegisterOK, HintOK, NEW d \in Device
  PROVE  /\ Expected(d) \in Stamp \cup {0}
         /\ \A e : Under(d, e) \in Stamp \cup {0}
BY DEF RegisterOK, HintOK, Expected, Under

\* What a step leaves alone keeps its type.
LEMMA Unchanging ==
  /\ RegisterOK /\ UNCHANGED register => RegisterOK'
  /\ JournalOK /\ UNCHANGED journal => JournalOK'
  /\ PeerOK /\ UNCHANGED peer => PeerOK'
  /\ HintOK /\ UNCHANGED hint => HintOK'
  /\ PullOK /\ UNCHANGED pull => PullOK'
  /\ JoinOK /\ UNCHANGED join => JoinOK'
  /\ JoinsOK /\ UNCHANGED joins => JoinsOK'
  /\ GuardOK /\ UNCHANGED guard => GuardOK'
  /\ HistoryOK /\ UNCHANGED history => HistoryOK'
<1>1. RegisterOK /\ UNCHANGED register => RegisterOK'
  BY DEF RegisterOK, register
<1>2. JournalOK /\ UNCHANGED journal => JournalOK'
  BY DEF JournalOK, journal
<1>3. PeerOK /\ UNCHANGED peer => PeerOK'
  BY DEF PeerOK, peer
<1>4. PullOK /\ UNCHANGED pull => PullOK'
  BY DEF PullOK
<1>5. JoinOK /\ UNCHANGED join => JoinOK'
  BY DEF JoinOK
<1>6. HintOK /\ UNCHANGED hint => HintOK'
  BY DEF HintOK
<1>7. JoinsOK /\ UNCHANGED joins => JoinsOK'
  BY DEF JoinsOK
<1>8. GuardOK /\ UNCHANGED guard => GuardOK'
  BY DEF GuardOK
<1>9. HistoryOK /\ UNCHANGED history => HistoryOK'
  BY DEF HistoryOK, history
<1>10. QED
  BY <1>1, <1>2, <1>3, <1>4, <1>5, <1>6, <1>7, <1>8, <1>9

LEMMA BeginsTypes ==
  ASSUME PullOK, PeerOK, NEW d \in Device, NEW t \in Thread, NEW e \in Device, Begins(d, t, e)
  PROVE  PullOK'
<1> DEFINE p == [Off EXCEPT !.st = "ready", !.from = e, !.cur = cursor[d][e]]
<1>1. /\ p \in PullType
      /\ p.st = "ready" /\ p.from = e /\ p.row = None
  BY DEF Off, PullType, PeerOK
<1>2. pull' = [pull EXCEPT ![d][t] = p]
  BY DEF Begins
<1> HIDE DEF p
<1>3. QED
  BY <1>1, <1>2 DEF PullOK

LEMMA OffTypes ==
  ASSUME PullOK, NEW d \in Device, NEW t \in Thread, pull' = [pull EXCEPT ![d][t] = Off]
  PROVE  PullOK'
<1>1. Off \in PullType /\ Off.st = "off" /\ Off.row = None
  BY DEF Off, PullType
<1>2. QED
  BY <1>1 DEF PullOK

LEMMA FetchTypes ==
  ASSUME TypeInv, NEW d \in Device, NEW t \in Thread, FetchPage(d, t)
  PROVE  TypeInv'
<1> DEFINE e == pull[d][t].from
           unread == Unread(e, pull[d][t].cur)
<1>1. e \in Device
  BY DEF TypeInv, PullOK, FetchPage
<1>2. PullOK'
  <2>1. CASE unread = {} /\ pull' = [pull EXCEPT ![d][t].st = "last"]
    <3>1. pull[d][t] \in PullType /\ pull[d][t].row = None
      BY DEF TypeInv, PullOK, FetchPage
    <3> DEFINE p == [pull[d][t] EXCEPT !.st = "last"]
    <3>2. p \in PullType /\ p.st = "last" /\ p.from = e /\ p.row = None
      BY <3>1 DEF PullType
    <3>3. pull' = [pull EXCEPT ![d][t] = p]
      BY <2>1 DEF TypeInv, PullOK
    <3> HIDE DEF p
    <3>4. QED
      BY <1>1, <3>2, <3>3 DEF TypeInv, PullOK
  <2>2. ASSUME NEW r \in unread,
               pull' = [pull EXCEPT ![d][t] = [@ EXCEPT !.st = "page", !.row = r, !.val = Value(e, r), !.under = Under(d, e),
                                                        !.cur = seq[e][r], !.more = unread # {r}]]
        PROVE PullOK'
    <3>1. r \in Row
      BY DEF Unread
    <3> DEFINE p == [pull[d][t] EXCEPT !.st = "page", !.row = r, !.val = Value(e, r), !.under = Under(d, e),
                                       !.cur = seq[e][r], !.more = unread # {r}]
    <3>2. Value(e, r) \in Stamp \cup {0} /\ Under(d, e) \in Stamp \cup {0} /\ seq[e][r] \in Nat
      BY <1>1, <3>1, ValueTypes, NamesTypes DEF TypeInv, JournalOK
    <3>3. pull[d][t] \in PullType
      BY DEF TypeInv, PullOK
    <3>4. p \in PullType /\ p.st = "page" /\ p.from = e /\ p.row = r
      BY <3>1, <3>2, <3>3 DEF PullType
    <3>5. pull' = [pull EXCEPT ![d][t] = p]
      BY <2>2 DEF TypeInv, PullOK
    <3> HIDE DEF p
    <3>6. QED
      BY <1>1, <3>1, <3>4, <3>5 DEF TypeInv, PullOK
  <2>3. QED
    BY <2>1, <2>2 DEF FetchPage
<1>3. QED
  BY <1>2, Unchanging DEF TypeInv, FetchPage

LEMMA ApplyTypes ==
  ASSUME TypeInv, NEW d \in Device, NEW t \in Thread, ApplyPage(d, t)
  PROVE  TypeInv'
<1> DEFINE p == pull[d][t]
           q == [p EXCEPT !.st = IF p.more THEN "ready" ELSE "last", !.row = None, !.val = 0, !.under = 0, !.more = FALSE]
<1>1. p \in PullType /\ p.from \in Device /\ p.row \in Row
  BY DEF TypeInv, PullOK, ApplyPage
<1>2. RegisterOK' /\ JournalOK' /\ stray' \subseteq Device
  <2>1. p.val \in Stamp \cup {0}
    BY <1>1 DEF PullType
  <2>2. QED
    BY <1>1, <2>1, MergesTypes DEF TypeInv, HistoryOK, ApplyPage
<1>3. PeerOK'
  <2>1. p.cur \in Nat
    BY <1>1 DEF PullType
  <2>2. QED
    BY <1>1, <2>1 DEF TypeInv, PeerOK, ApplyPage
<1>4. q \in PullType /\ q.st \in {"ready", "last"} /\ q.from = p.from /\ q.row = None
  BY <1>1 DEF PullType
<1>5. PullOK'
  <2>1. pull' = [pull EXCEPT ![d][t] = q]
    BY DEF ApplyPage
  <2> HIDE DEF q
  <2>2. QED
    BY <1>1, <1>4, <2>1 DEF TypeInv, PullOK
<1>6. HistoryOK'
  BY <1>2 DEF TypeInv, HistoryOK, ApplyPage
<1>7. QED
  BY <1>2, <1>3, <1>5, <1>6, Unchanging DEF TypeInv, ApplyPage

LEMMA LostTypes ==
  ASSUME TypeInv, NEW d \in Device, LostPull(d)
  PROVE  TypeInv'
<1> DEFINE p == pull[d]["loop"]
<1>1. "loop" \in Thread
  BY DEF Thread
<1>2. RegisterOK' /\ JournalOK' /\ stray' \subseteq Device
  <2>1. CASE UNCHANGED <<register, journal, stray>>
    BY <2>1, Unchanging DEF TypeInv, HistoryOK
  <2>2. CASE p.st = "page" /\ Merges(d, p.row, p.val, p.under)
    <3>1. p \in PullType /\ p.row \in Row
      BY <1>1, <2>2 DEF TypeInv, PullOK
    <3>2. p.val \in Stamp \cup {0}
      BY <3>1 DEF PullType
    <3>3. QED
      BY <2>2, <3>1, <3>2, MergesTypes DEF TypeInv, HistoryOK
  <2>3. QED
    BY <2>1, <2>2 DEF LostPull
<1>3. PullOK'
  BY <1>1, OffTypes DEF TypeInv, LostPull
<1>4. HistoryOK'
  BY <1>2 DEF TypeInv, HistoryOK, LostPull
<1>5. QED
  BY <1>2, <1>3, <1>4, Unchanging DEF TypeInv, LostPull

LEMMA EndsTypes ==
  ASSUME TypeInv, NEW d \in Device, NEW t \in Thread, Ends(d, t)
  PROVE  PullOK' /\ HintOK'
BY OffTypes DEF TypeInv, HintOK, Ends

LEMMA StepsTypes ==
  ASSUME JoinOK, NEW j \in Device, NEW from, NEW to \in {"floor", "aim", "bootstrap", "pulling"},
         from # "idle", Steps(j, from, to)
  PROVE  JoinOK'
<1> DEFINE k == [join[j] EXCEPT !.at = to]
<1>1. join[j] \in JoinType /\ join[j].member \in Device
  BY DEF JoinOK, Steps
<1>2. k \in JoinType /\ k.member \in Device
  BY <1>1 DEF JoinType
<1>3. join' = [join EXCEPT ![j] = k]
  BY DEF Steps, JoinOK
<1> HIDE DEF k
<1>4. QED
  BY <1>2, <1>3 DEF JoinOK

LEMMA NoJoinTypes ==
  ASSUME JoinOK, NEW j \in Device, join' = [join EXCEPT ![j] = NoJoin]
  PROVE  JoinOK'
<1>1. NoJoin \in JoinType /\ NoJoin.at = "idle"
  BY DEF NoJoin, JoinType
<1>2. QED
  BY <1>1 DEF JoinOK

LEMMA GoesTypes ==
  ASSUME GuardOK, NEW d \in Device, NEW from, NEW to \in {"idle", "claim", "ensure", "insert", "own", "take"},
         Goes(d, from, to)
  PROVE  GuardOK'
BY DEF GuardOK, Goes

LEMMA OwningTypes ==
  ASSUME TypeInv, NEW d \in Device, Owning(d) \/ Found(d)
  PROVE  TypeInv'
<1>1. GuardOK'
  BY GoesTypes DEF TypeInv, Owning, FindNoOwner, GuardClaim, EnsureSpace, Found, InsertSpace, FounderLooks, FounderTakes
<1>2. CASE Claims(d, d) /\ UNCHANGED aside
  BY <1>1, <1>2, ClaimsTypes, Unchanging DEF TypeInv, aside
<1>3. CASE UNCHANGED <<register, journal, aside>>
  BY <1>1, <1>3, Unchanging DEF TypeInv, aside
<1>4. ASSUME NEW s \in Stamp, Stamps(d, s, d), space' = [space EXCEPT ![d] = s],
             stray' = stray \cup Carries(d, s), Journals(d, "space"),
             UNCHANGED <<owner, peer, hint, pull, join, joins, born, poured, kept>>
      PROVE  TypeInv'
  <2>1. RegisterOK'
    BY <1>4, StampsTypes DEF TypeInv, RegisterOK
  <2>2. JournalOK'
    BY <1>4, JournalsTypes DEF TypeInv, Row
  <2>3. HistoryOK'
    BY <1>4, StraysTypes DEF TypeInv, HistoryOK
  <2>4. QED
    BY <1>1, <1>4, <2>1, <2>2, <2>3, Unchanging DEF TypeInv
<1>5. QED
  BY <1>2, <1>3, <1>4 DEF Owning, FindNoOwner, GuardClaim, EnsureSpace, Found, InsertSpace, FounderLooks, FounderTakes

LEMMA StartTypes ==
  ASSUME TypeInv, NEW j \in Device, NEW m \in Device, NEW pour \in BOOLEAN, StartJoin(j, m, pour)
  PROVE  TypeInv'
<1> DEFINE k == [at |-> "reset", member |-> m, space |-> space[m], pour |-> pour]
<1>1. k \in JoinType /\ k.member \in Device
  BY DEF TypeInv, RegisterOK, JoinType
<1>2. JoinOK'
  <2>1. join' = [join EXCEPT ![j] = k]
    BY DEF StartJoin
  <2> HIDE DEF k
  <2>2. QED
    BY <1>1, <2>1 DEF TypeInv, JoinOK
<1>3. JoinsOK'
  <2>1. joins[j] \in Seq(Device) /\ Len(joins[j]) < MaxJoin /\ joins' = [joins EXCEPT ![j] = Append(@, m)]
    BY DEF TypeInv, JoinsOK, StartJoin
  <2>2. Append(joins[j], m) \in Seq(Device) /\ Len(Append(joins[j], m)) = Len(joins[j]) + 1
    BY <2>1
  <2>3. QED
    BY <2>1, <2>2, BoundAssumption DEF TypeInv, JoinsOK
<1>4. QED
  BY <1>2, <1>3, Unchanging DEF TypeInv, StartJoin

LEMMA ResetTypes ==
  ASSUME TypeInv, NEW j \in Device, AdoptReset(j)
  PROVE  TypeInv'
<1>1. JoinOK'
  BY StepsTypes DEF TypeInv, AdoptReset
<1>2. RegisterOK'
  BY DEF TypeInv, RegisterOK, AdoptReset
<1>3. JournalOK'
  BY DEF TypeInv, JournalOK, AdoptReset, Row
<1>4. HistoryOK'
  BY StraysTypes DEF TypeInv, HistoryOK, AdoptReset, Holds
<1>5. QED
  BY <1>1, <1>2, <1>3, <1>4, Unchanging DEF TypeInv, AdoptReset

LEMMA KeepTypes ==
  ASSUME TypeInv, NEW j \in Device, KeepPast(j)
  PROVE  TypeInv'
<1>1. JoinOK'
  BY StepsTypes DEF TypeInv, KeepPast
<1>2. PeerOK'
  BY DEF TypeInv, PeerOK, JournalOK, KeepPast
<1>3. HistoryOK'
  BY DEF TypeInv, HistoryOK, KeepPast
<1>4. QED
  BY <1>1, <1>2, <1>3, Unchanging DEF TypeInv, KeepPast

LEMMA AimTypes ==
  ASSUME TypeInv, NEW j \in Device, AimAtSpace(j)
  PROVE  TypeInv'
<1>1. JoinOK'
  BY StepsTypes DEF TypeInv, AimAtSpace
<1>2. join[j].space \in Stamp \cup {0}
  BY DEF TypeInv, JoinOK, JoinType
<1>3. HintOK'
  BY <1>2 DEF TypeInv, HintOK, AimAtSpace
<1>4. HistoryOK'
  BY StraysTypes DEF TypeInv, HistoryOK, AimAtSpace
<1>5. QED
  BY <1>1, <1>3, <1>4, Unchanging DEF TypeInv, AimAtSpace

LEMMA JoiningTypes ==
  ASSUME TypeInv, NEW j \in Device, Joining(j)
  PROVE  TypeInv'
<1>1. CASE Bootstrap(j)
  <2>1. CASE /\ Steps(j, "bootstrap", "pulling")
             /\ Begins(j, "join", join[j].member)
             /\ UNCHANGED <<register, journal, peer, hint, joins, guard, history>>
    <3>1. join[j].member \in Device /\ "join" \in Thread
      BY <2>1 DEF TypeInv, JoinOK, Steps, Thread
    <3>2. PullOK'
      BY <2>1, <3>1, BeginsTypes DEF TypeInv
    <3>3. JoinOK'
      BY <2>1, StepsTypes DEF TypeInv
    <3>4. QED
      BY <2>1, <3>2, <3>3, Unchanging DEF TypeInv
  <2>2. CASE /\ join' = [join EXCEPT ![j] = NoJoin]
             /\ UNCHANGED <<register, journal, peer, hint, pull, joins, guard, history>>
    BY <2>2, NoJoinTypes, Unchanging DEF TypeInv
  <2>3. QED
    BY <1>1, <2>1, <2>2 DEF Bootstrap
<1>2. CASE JoinDone(j)
  <2>1. PullOK' /\ HintOK'
    BY <1>2, EndsTypes DEF JoinDone, Thread
  <2>2. JoinOK'
    BY <1>2, NoJoinTypes DEF TypeInv, JoinDone
  <2>3. QED
    BY <1>2, <2>1, <2>2, Unchanging DEF TypeInv, JoinDone
<1>3. CASE JoinFails(j)
  <2>1. PullOK'
    BY <1>3, OffTypes DEF TypeInv, JoinFails, Thread
  <2>2. JoinOK'
    BY <1>3, NoJoinTypes DEF TypeInv, JoinFails
  <2>3. QED
    BY <1>3, <2>1, <2>2, Unchanging DEF TypeInv, JoinFails
<1>4. CASE Dies(j)
  <2>1. PullOK'
    <3>1. Off \in PullType /\ Off.st = "off" /\ Off.row = None
      BY DEF Off, PullType
    <3>2. QED
      BY <1>4, <3>1 DEF TypeInv, PullOK, Dies
  <2>2. JoinOK'
    BY <1>4, NoJoinTypes DEF TypeInv, Dies
  <2>3. GuardOK'
    BY <1>4 DEF TypeInv, GuardOK, Dies
  <2>4. QED
    BY <1>4, <2>1, <2>2, <2>3, Unchanging DEF TypeInv, Dies
<1>5. QED
  BY <1>1, <1>2, <1>3, <1>4, ResetTypes, KeepTypes, AimTypes DEF Joining

(***************************************************************************)
(* Every variable keeps its type, and a pull or a join in progress knows   *)
(* whom it talks to.                                                       *)
(***************************************************************************)
LEMMA StepTypes == TypeInv /\ [Next]_vars => TypeInv'
<1> SUFFICES ASSUME TypeInv, [Next]_vars PROVE TypeInv'
  OBVIOUS
<1>1. ASSUME NEW l \in Transfer, ClaimOwner(l[1], l[2]) PROVE TypeInv'
  <2>1. l[1] \in Device /\ l[2] \in Device
    BY PartAssumption
  <2>2. QED
    BY <1>1, <2>1, ClaimsTypes, Unchanging DEF TypeInv, ClaimOwner
<1>2. ASSUME NEW d \in Capturing, Capture(d) PROVE TypeInv'
  <2>1. d \in Device /\ d \in Row
    BY PartAssumption DEF Row
  <2>2. JournalOK'
    BY <1>2, <2>1, JournalsTypes DEF TypeInv, Capture
  <2>3. HistoryOK'
    BY <1>2, <2>1, NamesTypes DEF TypeInv, HistoryOK, Capture
  <2>4. QED
    BY <1>2, <2>2, <2>3, Unchanging DEF TypeInv, Capture
<1>3. ASSUME NEW d \in Device, EndPull(d) PROVE TypeInv'
  BY <1>3, EndsTypes, Unchanging DEF TypeInv, EndPull, Thread
<1>4. ASSUME NEW d \in Device, RefusedPull(d) PROVE TypeInv'
  BY <1>4, OffTypes, Unchanging DEF TypeInv, RefusedPull, Thread
<1>5. ASSUME NEW l \in Link, BeginPull(l[1], l[2]) PROVE TypeInv'
  <2>1. l[1] \in Device /\ l[2] \in Device
    BY PartAssumption
  <2>2. QED
    BY <1>5, <2>1, BeginsTypes, Unchanging DEF TypeInv, BeginPull, Thread
<1>6. ASSUME NEW l \in Phones, Push(l[1], l[2]) PROVE TypeInv'
  <2>1. l[1] \in Device /\ l[2] \in Device
    BY PartAssumption
  <2>2. PICK r \in Row : Merges(l[2], r, Value(l[1], r), Under(l[2], l[1]))
    BY <1>6 DEF Push
  <2>3. RegisterOK' /\ JournalOK' /\ stray' \subseteq Device
    BY <2>1, <2>2, ValueTypes, MergesTypes DEF TypeInv, HistoryOK
  <2>4. HistoryOK'
    BY <1>6, <2>3 DEF TypeInv, HistoryOK, Push
  <2>5. QED
    BY <1>6, <2>3, <2>4, Unchanging DEF TypeInv, Push
<1>7. ASSUME NEW j \in Joiner, NEW m \in Device, NEW pour \in BOOLEAN, StartJoin(j, m, pour) PROVE TypeInv'
  BY <1>7, StartTypes, PartAssumption
<1>8. CASE UNCHANGED vars
  BY <1>8, Unchanging DEF TypeInv, vars
<1>9. QED
  BY <1>1, <1>2, <1>3, <1>4, <1>5, <1>6, <1>7, <1>8, OwningTypes, FetchTypes, ApplyTypes, LostTypes, JoiningTypes,
     PartAssumption DEF Next, SkipPull

THEOREM TypesKept == Spec => []TypeInv
BY InitTypes, StepTypes, PTL DEF Spec

(* The replicas, journals, pulls and joins of the devices keep their types.    *)
THEOREM TypeCorrect == Spec => []TypeOK
BY TypesKept, Parts, PTL

-----------------------------------------------------------------------------
(***************************************************************************)
(* The replicated singletons. A row, held or on its way, has a stamp that  *)
(* somebody wrote, and no device holds a stamp above its clock: what it    *)
(* writes then outranks what it holds.                                     *)
(***************************************************************************)
Written == {s \in Stamp : author[s] # None}

WrittenInv ==
  \A d \in Device :
    /\ space[d] \in Written \cup {0} /\ space[d] <= clock[d]
    /\ owner[d] \in Written \cup {0} /\ owner[d] <= clock[d]
    /\ \A t \in Thread : pull[d][t].val \in Written \cup {0}

LEMMA InitWritten == Init => WrittenInv
<1> SUFFICES ASSUME Init, NEW d \in Device
             PROVE  /\ space[d] \in Written \cup {0} /\ space[d] <= clock[d]
                    /\ owner[d] \in Written \cup {0} /\ owner[d] <= clock[d]
                    /\ \A t \in Thread : pull[d][t].val \in Written \cup {0}
  BY DEF WrittenInv
<1>1. space[d] = StampOf(d) /\ owner[d] = StampOf(d) /\ clock[d] = StampOf(d)
  BY DEF Init
<1>2. StampOf(d) \in Written \cup {0}
  <2>1. CASE Host[d] = None
    BY <2>1, StampsOf
  <2>2. CASE Host[d] # None
    <3>1. Host[d] \in Founder /\ FirstStamp[Host[d]] = StampOf(d) /\ StampOf(d) \in Stamp
      BY <2>2, StampsOf
    <3>2. author[StampOf(d)] \in Founder
      BY <3>1 DEF Init
    <3>3. author[StampOf(d)] # None
      BY <3>2, DeviceAssumption DEF Founder
    <3>4. QED
      BY <3>1, <3>3 DEF Written
  <2>3. QED
    BY <2>1, <2>2
<1>3. StampOf(d) <= StampOf(d)
  BY StampsOf DEF Stamp
<1>4. \A t \in Thread : pull[d][t].val = 0
  BY DEF Init, Off
<1>5. QED
  BY <1>1, <1>2, <1>3, <1>4

(* What a step may do to the rows.                                             *)
Writes(d, s, row, other) ==
  /\ s \in Stamp \ Written /\ s > clock[d]
  /\ Written' = Written \cup {s} /\ clock' = [clock EXCEPT ![d] = s]
  /\ row' = [row EXCEPT ![d] = s] /\ UNCHANGED other
Learns(d, v, row, other) ==
  /\ v \in Written /\ v > row[d]
  /\ Written' = Written /\ clock' = [clock EXCEPT ![d] = IF v > @ THEN v ELSE @]
  /\ row' = [row EXCEPT ![d] = v] /\ UNCHANGED other
Forgets(d) ==
  /\ Written' = Written /\ UNCHANGED clock
  /\ space' = [space EXCEPT ![d] = 0] /\ owner' = [owner EXCEPT ![d] = 0]
RowStep == \/ UNCHANGED <<author, clock, space, owner>>
           \/ \E d \in Device : \/ \E s \in Stamp : Writes(d, s, space, owner) \/ Writes(d, s, owner, space)
                                \/ \E v \in Stamp : Learns(d, v, space, owner) \/ Learns(d, v, owner, space)
                                \/ Forgets(d)

LEMMA StampsWrite ==
  ASSUME RegisterOK, NEW d \in Device, NEW s \in Stamp, NEW named \in Device, Stamps(d, s, named)
  PROVE  /\ s \in Stamp \ Written /\ s > clock[d]
         /\ Written' = Written \cup {s} /\ clock' = [clock EXCEPT ![d] = s]
BY DeviceAssumption DEF RegisterOK, Stamps, Written

LEMMA ClaimsWrite ==
  ASSUME RegisterOK, NEW d \in Device, NEW named \in Device, Claims(d, named)
  PROVE  \E s \in Stamp : Writes(d, s, owner, space)
BY StampsWrite DEF Claims, Writes

LEMMA MergesLearn ==
  ASSUME RegisterOK, NEW d \in Device, NEW r \in Row, NEW v \in Written \cup {0}, NEW under, Merges(d, r, v, under)
  PROVE  RowStep
<1>1. v \in Stamp \cup {0} /\ space[d] \in Nat /\ owner[d] \in Nat
  BY DEF Written, RegisterOK, Stamp
<1>2. UNCHANGED author => Written' = Written
  BY DEF Written
<1>3. CASE v > space[d] /\ space' = [space EXCEPT ![d] = v] /\ clock' = [clock EXCEPT ![d] = IF v > @ THEN v ELSE @]
           /\ UNCHANGED <<author, owner>>
  <2>1. v \in Written /\ v \in Stamp
    BY <1>1, <1>3 DEF Stamp
  <2>2. Learns(d, v, space, owner)
    BY <1>2, <1>3, <2>1 DEF Learns
  <2>3. QED
    BY <2>1, <2>2 DEF RowStep
<1>4. CASE v > owner[d] /\ owner' = [owner EXCEPT ![d] = v] /\ clock' = [clock EXCEPT ![d] = IF v > @ THEN v ELSE @]
           /\ UNCHANGED <<author, space>>
  <2>1. v \in Written /\ v \in Stamp
    BY <1>1, <1>4 DEF Stamp
  <2>2. Learns(d, v, owner, space)
    BY <1>2, <1>4, <2>1 DEF Learns
  <2>3. QED
    BY <2>1, <2>2 DEF RowStep
<1>5. CASE UNCHANGED register
  BY <1>5 DEF register, RowStep
<1>6. QED
  BY <1>3, <1>4, <1>5 DEF Merges

LEMMA ValueWritten ==
  ASSUME WrittenInv, NEW e \in Device, NEW r
  PROVE  Value(e, r) \in Written \cup {0}
BY DEF WrittenInv, Value

(* Every step writes, learns or forgets at one device.                         *)
LEMMA StepRows == TypeInv /\ WrittenInv /\ [Next]_vars => RowStep
<1> SUFFICES ASSUME TypeInv, WrittenInv, [Next]_vars PROVE RowStep
  OBVIOUS
<1>1. ASSUME NEW l \in Transfer, ClaimOwner(l[1], l[2]) PROVE RowStep
  <2>1. l[1] \in Device /\ l[2] \in Device
    BY PartAssumption
  <2>2. QED
    BY <1>1, <2>1, ClaimsWrite DEF TypeInv, ClaimOwner, RowStep
<1>2. ASSUME NEW d \in Device, Owning(d) PROVE RowStep
  <2>1. CASE Claims(d, d)
    BY <2>1, ClaimsWrite DEF TypeInv, RowStep
  <2>2. CASE UNCHANGED register
    BY <2>2 DEF register, RowStep
  <2>3. ASSUME NEW s \in Stamp, Stamps(d, s, d), space' = [space EXCEPT ![d] = s], UNCHANGED owner PROVE RowStep
    <3>1. Writes(d, s, space, owner)
      BY <2>3, StampsWrite DEF TypeInv, Writes
    <3>2. QED
      BY <3>1 DEF RowStep
  <2>4. QED
    BY <1>2, <2>1, <2>2, <2>3 DEF Owning, FindNoOwner, GuardClaim, EnsureSpace, InsertSpace, FounderLooks, FounderTakes, register
<1>3. ASSUME NEW d \in Device, NEW t \in Thread, ApplyPage(d, t) PROVE RowStep
  <2>1. pull[d][t].row \in Row /\ pull[d][t].val \in Written \cup {0}
    BY <1>3 DEF TypeInv, PullOK, WrittenInv, ApplyPage
  <2>2. QED
    BY <1>3, <2>1, MergesLearn DEF TypeInv, ApplyPage
<1>4. ASSUME NEW d \in Device, LostPull(d) PROVE RowStep
  <2>1. CASE UNCHANGED register
    BY <2>1 DEF register, RowStep
  <2>2. CASE pull[d]["loop"].st = "page" /\ Merges(d, pull[d]["loop"].row, pull[d]["loop"].val, pull[d]["loop"].under)
    <3>1. pull[d]["loop"].row \in Row /\ pull[d]["loop"].val \in Written \cup {0}
      BY <2>2 DEF TypeInv, PullOK, WrittenInv, Thread
    <3>2. QED
      BY <2>2, <3>1, MergesLearn DEF TypeInv
  <2>3. QED
    BY <1>4, <2>1, <2>2 DEF LostPull
<1>5. ASSUME NEW l \in Phones, Push(l[1], l[2]) PROVE RowStep
  <2>1. l[1] \in Device /\ l[2] \in Device
    BY PartAssumption
  <2>2. QED
    BY <1>5, <2>1, ValueWritten, MergesLearn DEF TypeInv, Push
<1>6. ASSUME NEW j \in Joiner, AdoptReset(j) PROVE RowStep
  <2>1. Forgets(j)
    BY <1>6 DEF AdoptReset, Forgets, Written
  <2>2. QED
    BY <2>1, PartAssumption DEF RowStep
<1>7. CASE UNCHANGED register
  BY <1>7 DEF register, RowStep
<1>8. QED
  BY <1>1, <1>2, <1>3, <1>4, <1>5, <1>6, <1>7 DEF Next, vars, Capture, EndPull, RefusedPull, Found, BeginPull, SkipPull,
     FetchPage, StartJoin, Joining, KeepPast, AimAtSpace, Bootstrap, JoinDone, JoinFails, Dies, register

(* Pulls carry stamps that were written.                                       *)
LEMMA StepPulls ==
  ASSUME TypeInv, WrittenInv, [Next]_vars, NEW d \in Device, NEW t \in Thread
  PROVE  pull'[d][t].val \in Written \cup {0}
<1>1. Off.val = 0
  BY DEF Off
<1>2. pull[d][t].val \in Written \cup {0} /\ pull[d][t] \in PullType
  BY DEF WrittenInv, TypeInv, PullOK
<1> USE DEF TypeInv, PullOK
<1>3. ASSUME NEW f \in Device, NEW u \in Thread, pull' = [pull EXCEPT ![f][u] = Off]
      PROVE  pull'[d][t].val \in Written \cup {0}
  BY <1>1, <1>2, <1>3
<1>4. CASE UNCHANGED pull
  BY <1>2, <1>4
<1>5. ASSUME NEW f \in Device, NEW u \in Thread, NEW e, Begins(f, u, e)
      PROVE  pull'[d][t].val \in Written \cup {0}
  <2>1. [Off EXCEPT !.st = "ready", !.from = e, !.cur = cursor[f][e]].val = 0
    BY DEF Off
  <2>2. QED
    BY <1>2, <1>5, <2>1 DEF Begins
<1>6. ASSUME NEW f \in Device, NEW u \in Thread, ApplyPage(f, u)
      PROVE  pull'[d][t].val \in Written \cup {0}
  BY <1>2, <1>6 DEF ApplyPage, PullType
<1>7. ASSUME NEW f \in Device, NEW u \in Thread, FetchPage(f, u)
      PROVE  pull'[d][t].val \in Written \cup {0}
  <2> DEFINE e == pull[f][u].from
             unread == Unread(e, pull[f][u].cur)
  <2>1. e \in Device
    BY <1>7 DEF FetchPage
  <2>2. CASE pull' = [pull EXCEPT ![f][u].st = "last"]
    BY <1>2, <2>2 DEF PullType
  <2>3. ASSUME NEW r \in unread,
               pull' = [pull EXCEPT ![f][u] = [@ EXCEPT !.st = "page", !.row = r, !.val = Value(e, r), !.under = Under(f, e),
                                                        !.cur = seq[e][r], !.more = unread # {r}]]
        PROVE  pull'[d][t].val \in Written \cup {0}
    <3>1. Value(e, r) \in Written \cup {0}
      BY <2>1, ValueWritten
    <3>2. pull[f][u] \in PullType
      OBVIOUS
    <3> HIDE DEF e, unread
    <3>3. QED
      BY <1>2, <2>3, <3>1, <3>2 DEF PullType
  <2>4. QED
    BY <1>7, <2>2, <2>3 DEF FetchPage
<1>8. ASSUME NEW j \in Device, Dies(j)
      PROVE  pull'[d][t].val \in Written \cup {0}
  BY <1>1, <1>2, <1>8 DEF Dies
<1>9. QED
  BY <1>3, <1>4, <1>5, <1>6, <1>7, <1>8, PartAssumption
  DEF Next, vars, ClaimOwner, Capture, Owning, FindNoOwner, GuardClaim, EnsureSpace, InsertSpace, FounderLooks, FounderTakes,
      Found, aside, EndPull, RefusedPull, LostPull, BeginPull, SkipPull, Push, StartJoin, Joining, AdoptReset,
      KeepPast, AimAtSpace, Bootstrap, JoinDone, JoinFails, Ends, Thread

LEMMA StepWritten == TypeInv /\ WrittenInv /\ [Next]_vars => WrittenInv'
<1> SUFFICES ASSUME TypeInv, WrittenInv, [Next]_vars, NEW d \in Device
             PROVE  /\ space'[d] \in Written' \cup {0} /\ space'[d] <= clock'[d]
                    /\ owner'[d] \in Written' \cup {0} /\ owner'[d] <= clock'[d]
                    /\ \A t \in Thread : pull'[d][t].val \in Written' \cup {0}
  BY DEF WrittenInv
<1>1. RowStep
  BY StepRows
<1>2. Written \subseteq Written'
  BY <1>1 DEF RowStep, Writes, Learns, Forgets, Written
<1>3. \A t \in Thread : pull'[d][t].val \in Written' \cup {0}
  BY <1>2, StepPulls
<1>4. /\ space[d] \in Nat /\ owner[d] \in Nat /\ clock[d] \in Nat
      /\ \A v \in Stamp : v \in Nat
  BY DEF TypeInv, RegisterOK, Stamp
<1>5. /\ space[d] \in Written \cup {0} /\ space[d] <= clock[d]
      /\ owner[d] \in Written \cup {0} /\ owner[d] <= clock[d]
  BY DEF WrittenInv
<1> DEFINE Good == /\ space'[d] \in Written' \cup {0} /\ space'[d] <= clock'[d]
                   /\ owner'[d] \in Written' \cup {0} /\ owner'[d] <= clock'[d]
<1>6. Good
  <2>1. CASE UNCHANGED <<author, clock, space, owner>>
    BY <1>2, <1>5, <2>1
  <2>2. ASSUME NEW e \in Device, NEW s \in Stamp, Writes(e, s, space, owner) PROVE Good
    BY <1>2, <1>4, <1>5, <2>2 DEF Writes, TypeInv, RegisterOK
  <2>3. ASSUME NEW e \in Device, NEW s \in Stamp, Writes(e, s, owner, space) PROVE Good
    BY <1>2, <1>4, <1>5, <2>3 DEF Writes, TypeInv, RegisterOK
  <2>4. ASSUME NEW e \in Device, NEW v \in Stamp, Learns(e, v, space, owner) PROVE Good
    BY <1>2, <1>4, <1>5, <2>4 DEF Learns, TypeInv, RegisterOK
  <2>5. ASSUME NEW e \in Device, NEW v \in Stamp, Learns(e, v, owner, space) PROVE Good
    BY <1>2, <1>4, <1>5, <2>5 DEF Learns, TypeInv, RegisterOK
  <2>6. ASSUME NEW e \in Device, Forgets(e) PROVE Good
    BY <1>2, <1>4, <1>5, <2>6 DEF Forgets, TypeInv, RegisterOK
  <2> HIDE DEF Good
  <2>7. QED
    BY <1>1, <2>1, <2>2, <2>3, <2>4, <2>5, <2>6 DEF RowStep
<1>7. QED
  BY <1>3, <1>6

(***************************************************************************)
(* Both replicated rows implement the register: every step is a write that *)
(* outranks what its author held, a newer copy learnt, a copy forgotten by *)
(* a joiner, or no step of that row (claim_owner, found_space, sync_apply, *)
(* _adopt_reset).                                                          *)
(***************************************************************************)
LEMMA RowRefinement ==
  ASSUME TypeInv, WrittenInv, RowStep
  PROVE  /\ [SpaceRegister!ARNext]_<<Written, space>>
         /\ [OwnerRegister!ARNext]_<<Written, owner>>
<1> USE DEF SpaceRegister!ARNext, SpaceRegister!Write, SpaceRegister!Learn, SpaceRegister!Forget, SpaceRegister!Elsewhere,
            OwnerRegister!ARNext, OwnerRegister!Write, OwnerRegister!Learn, OwnerRegister!Forget, OwnerRegister!Elsewhere
<1>1. \A d \in Device : /\ space[d] <= clock[d] /\ owner[d] <= clock[d]
                        /\ space[d] \in Nat /\ owner[d] \in Nat /\ clock[d] \in Nat
  BY DEF WrittenInv, TypeInv, RegisterOK, Stamp
<1>2. CASE UNCHANGED <<author, clock, space, owner>>
  BY <1>2 DEF Written
<1>3. ASSUME NEW d \in Device, NEW s \in Stamp, Writes(d, s, space, owner)
      PROVE  SpaceRegister!Write(d) /\ OwnerRegister!Elsewhere
  <2>1. s > space[d] /\ s \in Stamp \ Written /\ Written' = Written \cup {s}
    BY <1>1, <1>3 DEF Writes, Stamp
  <2>2. QED
    BY <1>3, <2>1 DEF Writes, Written
<1>4. ASSUME NEW d \in Device, NEW s \in Stamp, Writes(d, s, owner, space)
      PROVE  OwnerRegister!Write(d) /\ SpaceRegister!Elsewhere
  <2>1. s > owner[d] /\ s \in Stamp \ Written /\ Written' = Written \cup {s}
    BY <1>1, <1>4 DEF Writes, Stamp
  <2>2. QED
    BY <1>4, <2>1 DEF Writes, Written
<1>5. ASSUME NEW d \in Device, NEW v \in Stamp, Learns(d, v, space, owner)
      PROVE  SpaceRegister!Learn(d) /\ UNCHANGED <<Written, owner>>
  BY <1>5 DEF Learns, Written
<1>6. ASSUME NEW d \in Device, NEW v \in Stamp, Learns(d, v, owner, space)
      PROVE  OwnerRegister!Learn(d) /\ UNCHANGED <<Written, space>>
  BY <1>6 DEF Learns, Written
<1>7. ASSUME NEW d \in Device, Forgets(d)
      PROVE  SpaceRegister!Forget(d) /\ OwnerRegister!Forget(d)
  BY <1>7 DEF Forgets, Written
<1>8. QED
  BY <1>2, <1>3, <1>4, <1>5, <1>6, <1>7 DEF RowStep

THEOREM ReplicasAreRegisters == Spec => ReplicasOnlyAdvance
<1>1. Init => SpaceRegister!ARInit /\ OwnerRegister!ARInit
  <2> SUFFICES ASSUME Init PROVE SpaceRegister!ARInit /\ OwnerRegister!ARInit
    OBVIOUS
  <2>1. TypeInv /\ WrittenInv
    BY InitTypes, InitWritten
  <2>2. QED
    BY <2>1 DEF TypeInv, RegisterOK, WrittenInv, Written, SpaceRegister!ARInit, OwnerRegister!ARInit
<1>2. TypeInv /\ WrittenInv /\ [Next]_vars => [SpaceRegister!ARNext]_<<Written, space>> /\ [OwnerRegister!ARNext]_<<Written, owner>>
  BY StepRows, RowRefinement
<1>3. QED
  BY <1>1, <1>2, InitTypes, StepTypes, InitWritten, StepWritten, PTL
  DEF Spec, ReplicasOnlyAdvance, SpaceRegister!ARSpec, OwnerRegister!ARSpec, Written

-----------------------------------------------------------------------------
(***************************************************************************)
(* The journals. No number is above the last one, so a floor laid at the   *)
(* last number covers every row; and a row enters a journal only once,     *)
(* from its author, from the answer of a peer, or from a phone.            *)
(***************************************************************************)
NumberInv ==
  \A d \in Device : /\ \A r \in Row : seq[d][r] <= top[d]
                    /\ floor[d] <= top[d]

Singleton == {"space", "owner"}
Source(d, c) == \/ c = d
                \/ \E t \in Thread : pull[d][t].row = c
                \/ \E p \in Device : seq[p][c] > floor[p]
JournalStep == \/ UNCHANGED journal
               \/ \E d \in Device, r \in Singleton : Journals(d, r)
               \/ \E d, c \in Device : Journals(d, c) /\ seq[d][c] = 0 /\ Source(d, c)
               \/ \E j \in Device : /\ seq' = [seq EXCEPT ![j] = [@ EXCEPT !["space"] = 0, !["owner"] = 0]]
                                    /\ UNCHANGED top

LEMMA InitNumbers == Init => NumberInv
<1> SUFFICES ASSUME Init, NEW d \in Device
             PROVE  (\A r \in Row : seq[d][r] <= top[d]) /\ floor[d] <= top[d]
  BY DEF NumberInv
<1>1. top[d] = LastNumber(d) /\ floor[d] = 0 /\ \A r \in Row : seq[d][r] = IF Has(d, r) THEN Number(r) ELSE 0
  BY DEF Init
<1>2. LastNumber(d) \in 0..3
  BY DEF LastNumber
<1>3. ASSUME NEW r \in Row, Has(d, r) PROVE Number(r) <= LastNumber(d)
  <2>1. CASE r \in Device
    <3>1. LastNumber(d) = 3
      BY <1>3, <2>1 DEF LastNumber
    <3>2. QED
      BY <3>1 DEF Number
  <2>2. CASE r \notin Device
    <3>1. r \in {"space", "owner"} /\ Host[d] # None
      BY <1>3, <2>2, PartAssumption DEF Has, Row
    <3>2. LastNumber(d) \in {2, 3} /\ Number(r) \in {1, 2}
      BY <3>1 DEF LastNumber, Number
    <3>3. QED
      BY <3>2
  <2>3. QED
    BY <2>1, <2>2
<1>4. QED
  BY <1>1, <1>2, <1>3

LEMMA MergesJournal ==
  ASSUME NEW d \in Device, NEW r \in Row, NEW v, NEW under, Merges(d, r, v, under), r \in Device => Source(d, r)
  PROVE  JournalStep
<1>1. CASE UNCHANGED journal
  BY <1>1 DEF JournalStep
<1>2. CASE r \in Singleton /\ Journals(d, r)
  BY <1>2 DEF JournalStep
<1>3. CASE r \in Device /\ seq[d][r] = 0 /\ Journals(d, r)
  BY <1>3 DEF JournalStep
<1>4. QED
  BY <1>1, <1>2, <1>3 DEF Merges, Singleton

LEMMA StepJournal == TypeInv /\ [Next]_vars => JournalStep
<1> SUFFICES ASSUME TypeInv, [Next]_vars PROVE JournalStep
  OBVIOUS
<1>1. ASSUME NEW d \in Device, NEW named, Claims(d, named) PROVE JournalStep
  BY <1>1 DEF Claims, JournalStep, Singleton
<1>2. ASSUME NEW d \in Device, Capture(d) PROVE JournalStep
  BY <1>2 DEF Capture, JournalStep, Source
<1>3. ASSUME NEW d \in Device, Owning(d) PROVE JournalStep
  <2>1. CASE UNCHANGED journal
    BY <2>1 DEF JournalStep
  <2>2. CASE Journals(d, "space")
    BY <2>2 DEF JournalStep, Singleton
  <2>3. QED
    BY <1>1, <1>3, <2>1, <2>2 DEF Owning, FindNoOwner, GuardClaim, EnsureSpace, InsertSpace, FounderLooks, FounderTakes
<1>4. ASSUME NEW d \in Device, NEW t \in Thread, ApplyPage(d, t) PROVE JournalStep
  <2>1. pull[d][t].row \in Row /\ Source(d, pull[d][t].row)
    BY <1>4 DEF TypeInv, PullOK, ApplyPage, Source
  <2>2. QED
    BY <1>4, <2>1, MergesJournal DEF ApplyPage
<1>5. ASSUME NEW d \in Device, LostPull(d) PROVE JournalStep
  <2>1. CASE UNCHANGED journal
    BY <2>1 DEF JournalStep
  <2>2. CASE pull[d]["loop"].st = "page" /\ Merges(d, pull[d]["loop"].row, pull[d]["loop"].val, pull[d]["loop"].under)
    <3>1. pull[d]["loop"].row \in Row /\ Source(d, pull[d]["loop"].row)
      BY <2>2 DEF TypeInv, PullOK, Thread, Source
    <3>2. QED
      BY <2>2, <3>1, MergesJournal
  <2>3. QED
    BY <1>5, <2>1, <2>2 DEF LostPull
<1>6. ASSUME NEW l \in Phones, Push(l[1], l[2]) PROVE JournalStep
  <2>1. l[1] \in Device /\ l[2] \in Device
    BY PartAssumption
  <2>2. PICK r \in Row : seq[l[1]][r] > floor[l[1]] /\ Merges(l[2], r, Value(l[1], r), Under(l[2], l[1]))
    BY <1>6 DEF Push
  <2>3. Source(l[2], r)
    BY <2>1, <2>2 DEF Source
  <2>4. QED
    BY <2>1, <2>2, <2>3, MergesJournal
<1>7. ASSUME NEW j \in Device, AdoptReset(j) PROVE JournalStep
  BY <1>7 DEF AdoptReset, JournalStep
<1>8. CASE UNCHANGED journal
  BY <1>8 DEF JournalStep
<1>9. QED
  <2>1. ASSUME NEW l \in Transfer, ClaimOwner(l[1], l[2]) PROVE JournalStep
    BY <1>1, <2>1, PartAssumption DEF ClaimOwner
  <2>2. QED
    BY <1>2, <1>3, <1>4, <1>5, <1>6, <1>7, <1>8, <2>1, PartAssumption
    DEF Next, vars, EndPull, RefusedPull, Found, BeginPull, SkipPull, FetchPage, StartJoin, Joining, KeepPast, AimAtSpace,
        Bootstrap, JoinDone, JoinFails, Dies

\* A floor stays or is laid at the last number.
LEMMA StepFloor ==
  ASSUME TypeInv, [Next]_vars, NEW d \in Device
  PROVE  floor'[d] \in {floor[d], top[d]}
<1>1. CASE UNCHANGED floor
  BY <1>1
<1>2. ASSUME NEW j \in Device, KeepPast(j) PROVE floor'[d] \in {floor[d], top[d]}
  BY <1>2 DEF KeepPast, TypeInv, PeerOK
<1>3. QED
  BY <1>1, <1>2, PartAssumption
  DEF Next, vars, ClaimOwner, Capture, Owning, FindNoOwner, GuardClaim, EnsureSpace, InsertSpace, FounderLooks, FounderTakes,
      Found, aside, peer, EndPull, RefusedPull, LostPull, BeginPull, SkipPull, FetchPage, ApplyPage, Push, StartJoin, Joining,
      AdoptReset, AimAtSpace, Bootstrap, JoinDone, JoinFails, Dies

\* What a step does to the entry of one capture.
LEMMA StepEntry ==
  ASSUME TypeInv, [Next]_vars, NEW d \in Device, NEW c \in Device
  PROVE  \/ seq'[d][c] = seq[d][c]
         \/ seq[d][c] = 0 /\ seq'[d][c] = top[d] + 1 /\ Source(d, c)
<1>1. JournalStep
  BY StepJournal
<1>2. c \notin Singleton /\ c \in Row
  BY DeviceAssumption DEF Singleton, Row
<1>3. CASE UNCHANGED journal
  BY <1>3 DEF journal
<1>4. ASSUME NEW e \in Device, NEW r \in Singleton, Journals(e, r) PROVE seq'[d][c] = seq[d][c]
  BY <1>2, <1>4 DEF Journals, TypeInv, JournalOK
<1>5. ASSUME NEW e \in Device, NEW r \in Device, Journals(e, r), seq[e][r] = 0, Source(e, r)
      PROVE  \/ seq'[d][c] = seq[d][c]
             \/ seq[d][c] = 0 /\ seq'[d][c] = top[d] + 1 /\ Source(d, c)
  <2>1. CASE d = e /\ c = r
    BY <1>2, <1>5, <2>1 DEF Journals, TypeInv, JournalOK
  <2>2. CASE ~(d = e /\ c = r)
    BY <1>2, <1>5, <2>2 DEF Journals, TypeInv, JournalOK
  <2>3. QED
    BY <2>1, <2>2
<1>6. ASSUME NEW j \in Device, seq' = [seq EXCEPT ![j] = [@ EXCEPT !["space"] = 0, !["owner"] = 0]]
      PROVE  seq'[d][c] = seq[d][c]
  BY <1>2, <1>6 DEF TypeInv, JournalOK, Singleton
<1>7. QED
  BY <1>1, <1>3, <1>4, <1>5, <1>6 DEF JournalStep

LEMMA StepNumbers == TypeInv /\ NumberInv /\ [Next]_vars => NumberInv'
<1> SUFFICES ASSUME TypeInv, NumberInv, [Next]_vars, NEW d \in Device
             PROVE  (\A r \in Row : seq'[d][r] <= top'[d]) /\ floor'[d] <= top'[d]
  BY DEF NumberInv
<1>1. /\ \A r \in Row : seq[d][r] <= top[d] /\ seq[d][r] \in Nat
      /\ floor[d] <= top[d] /\ floor[d] \in Nat /\ top[d] \in Nat
  BY DEF NumberInv, TypeInv, JournalOK, PeerOK
<1>2. (\A r \in Row : seq'[d][r] <= top'[d]) /\ top[d] <= top'[d] /\ top'[d] \in Nat
  <2>1. CASE UNCHANGED journal
    BY <1>1, <2>1 DEF journal
  <2>2. ASSUME NEW e \in Device, NEW q \in Row, Journals(e, q) PROVE <1>2
    BY <1>1, <2>2 DEF Journals, TypeInv, JournalOK
  <2>3. ASSUME NEW j \in Device, seq' = [seq EXCEPT ![j] = [@ EXCEPT !["space"] = 0, !["owner"] = 0]], UNCHANGED top PROVE <1>2
    BY <1>1, <2>3 DEF TypeInv, JournalOK
  <2>4. QED
    BY <2>1, <2>2, <2>3, StepJournal DEF JournalStep, Singleton, Row
<1>3. floor'[d] \in {floor[d], top[d]}
  BY StepFloor
<1>4. QED
  BY <1>1, <1>2, <1>3

(***************************************************************************)
(* The pulls. A pull keeps the row it carries, drops it, or fetches one of *)
(* the rows its peer serves, under what the two of them name.              *)
(***************************************************************************)
Fetched(d, p) == \E e \in Device : /\ Served(e, d)
                                   /\ seq[e][p.row] > floor[e]
                                   /\ p.under = Under(d, e)
PullStep(d, t) == \/ pull'[d][t].row = None
                  \/ pull'[d][t].row = pull[d][t].row /\ pull'[d][t].under = pull[d][t].under
                  \/ Fetched(d, pull'[d][t])

LEMMA FetchStep ==
  ASSUME TypeInv, NEW d \in Device, NEW t \in Thread, NEW f \in Device, NEW u \in Thread, FetchPage(f, u)
  PROVE  PullStep(d, t)
<1> USE DEF TypeInv, PullOK
<1> DEFINE e == pull[f][u].from
           unread == Unread(e, pull[f][u].cur)
<1>1. e \in Device /\ Served(e, f) /\ pull[f][u] \in PullType
  <2>1. pull[f][u].st = "ready" /\ Served(e, f)
    BY DEF FetchPage
  <2>2. QED
    BY <2>1
<1>2. CASE pull' = [pull EXCEPT ![f][u].st = "last"]
  <2>1. pull'[d][t].row = pull[d][t].row /\ pull'[d][t].under = pull[d][t].under
    BY <1>1, <1>2 DEF PullType
  <2>2. QED
    BY <2>1 DEF PullStep
<1>3. ASSUME NEW r \in unread,
             pull' = [pull EXCEPT ![f][u] = [@ EXCEPT !.st = "page", !.row = r, !.val = Value(e, r), !.under = Under(f, e),
                                                      !.cur = seq[e][r], !.more = unread # {r}]]
      PROVE  PullStep(d, t)
  <2>1. seq[e][r] > floor[e]
    BY DEF Unread
  <2> HIDE DEF unread, e
  <2>2. CASE d = f /\ t = u
    <3>1. pull'[d][t].row = r /\ pull'[d][t].under = Under(f, e)
      BY <1>1, <1>3, <2>2 DEF PullType
    <3>2. Fetched(d, pull'[d][t])
      BY <1>1, <2>1, <2>2, <3>1 DEF Fetched
    <3>3. QED
      BY <3>2 DEF PullStep
  <2>3. CASE ~(d = f /\ t = u)
    <3>1. pull'[d][t] = pull[d][t]
      BY <1>3, <2>3
    <3>2. QED
      BY <3>1 DEF PullStep
  <2>4. QED
    BY <2>2, <2>3
<1>4. QED
  BY <1>2, <1>3 DEF FetchPage

LEMMA StepPull ==
  ASSUME TypeInv, [Next]_vars, NEW d \in Device, NEW t \in Thread
  PROVE  PullStep(d, t)
<1> USE DEF TypeInv, PullOK, PullStep
<1>1. ASSUME NEW f \in Device, NEW u \in Thread, pull' = [pull EXCEPT ![f][u] = Off]
      PROVE  PullStep(d, t)
  BY <1>1 DEF Off
<1>2. CASE UNCHANGED pull
  BY <1>2
<1>3. ASSUME NEW f \in Device, NEW u \in Thread, NEW e, Begins(f, u, e)
      PROVE  PullStep(d, t)
  <2>1. [Off EXCEPT !.st = "ready", !.from = e, !.cur = cursor[f][e]].row = None
    BY DEF Off
  <2>2. QED
    BY <1>3, <2>1 DEF Begins
<1>4. ASSUME NEW f \in Device, NEW u \in Thread, ApplyPage(f, u)
      PROVE  PullStep(d, t)
  BY <1>4 DEF ApplyPage, PullType
<1>5. ASSUME NEW j \in Device, Dies(j)
      PROVE  PullStep(d, t)
  BY <1>5 DEF Dies, Off
<1>6. QED
  BY <1>1, <1>2, <1>3, <1>4, <1>5, FetchStep, PartAssumption, ZenonT(60)
  DEF Next, vars, ClaimOwner, Capture, Owning, FindNoOwner, GuardClaim, EnsureSpace, InsertSpace, FounderLooks, FounderTakes,
      Found, aside, EndPull, RefusedPull, LostPull, BeginPull, SkipPull, Push, StartJoin, Joining, AdoptReset,
      KeepPast, AimAtSpace, Bootstrap, JoinDone, JoinFails, Ends, Thread

-----------------------------------------------------------------------------
(***************************************************************************)
(* A past that stays: the capture is under the floor of its author, and no *)
(* other journal and no answer on its way holds it.                        *)
(***************************************************************************)
KeptInv == \A j \in kept : OnlyAt(j, j) /\ seq[j][j] <= floor[j]

\* The captures that are kept: those that were, or the past just closed.
LEMMA StepKept ==
  ASSUME TypeInv, [Next]_vars, NEW j \in kept'
  PROVE  j \in kept \/ (OnlyAt(j, j) /\ floor'[j] = top[j] /\ UNCHANGED <<seq, pull>>)
<1>1. CASE UNCHANGED kept
  BY <1>1
<1>2. ASSUME NEW i \in Device, KeepPast(i) PROVE j \in kept \/ (OnlyAt(j, j) /\ floor'[j] = top[j] /\ UNCHANGED <<seq, pull>>)
  BY <1>2 DEF KeepPast, TypeInv, PeerOK, journal
<1>3. QED
  BY <1>1, <1>2, PartAssumption
  DEF Next, vars, history, ClaimOwner, Capture, Owning, FindNoOwner, GuardClaim, EnsureSpace, InsertSpace, FounderLooks,
      FounderTakes, Found, aside, EndPull, RefusedPull, LostPull, BeginPull, SkipPull, FetchPage, ApplyPage, Push, StartJoin,
      Joining, AdoptReset, AimAtSpace, Bootstrap, JoinDone, JoinFails, Dies

LEMMA StepKeptInv == TypeInv /\ NumberInv /\ KeptInv /\ [Next]_vars => KeptInv'
<1> SUFFICES ASSUME TypeInv, NumberInv, KeptInv, [Next]_vars, NEW j \in kept'
             PROVE  (OnlyAt(j, j) /\ seq[j][j] <= floor[j])'
  BY DEF KeptInv
<1>0. j \in Device /\ j \in Row
  BY StepTypes DEF TypeInv, HistoryOK, Row
<1>1. \A d \in Device : /\ seq[d][j] \in Nat /\ floor[d] \in Nat /\ top[d] \in Nat
                        /\ seq[d][j] <= top[d] /\ floor[d] <= top[d]
  BY <1>0 DEF TypeInv, JournalOK, PeerOK, NumberInv
<1>2. OnlyAt(j, j)
  BY StepKept DEF KeptInv
<1>3. \A d \in Device : seq'[d][j] = seq[d][j]
  <2> SUFFICES ASSUME NEW d \in Device, seq'[d][j] # seq[d][j] PROVE FALSE
    OBVIOUS
  <2>1. seq[d][j] = 0 /\ Source(d, j)
    BY <1>0, StepEntry
  <2>2. d # j
    BY <1>0, <1>2, <2>1 DEF OnlyAt
  <2>3. \A t \in Thread : pull[d][t].row # j
    BY <1>2, <2>2 DEF OnlyAt
  <2>4. PICK p \in Device : seq[p][j] > floor[p]
    BY <2>1, <2>2, <2>3 DEF Source
  <2>5. p = j
    BY <1>1, <1>2, <2>4 DEF OnlyAt
  <2>6. j \notin kept
    BY <1>1, <2>4, <2>5 DEF KeptInv
  <2>7. QED
    BY <2>6, StepKept
<1>4. seq[j][j] <= floor'[j]
  <2>1. floor'[j] \in {floor[j], top[j]}
    BY <1>0, StepFloor
  <2>2. CASE j \in kept
    BY <1>0, <1>1, <2>1, <2>2 DEF KeptInv
  <2>3. CASE j \notin kept
    BY <1>0, <1>1, <2>3, StepKept
  <2>4. QED
    BY <2>2, <2>3
<1>5. ASSUME NEW d \in Device \ {j}, NEW t \in Thread PROVE pull'[d][t].row # j
  <2> SUFFICES ASSUME pull'[d][t].row = j PROVE FALSE
    OBVIOUS
  <2>1. pull[d][t].row # j
    BY <1>2 DEF OnlyAt
  <2>2. j # None
    BY <1>0, DeviceAssumption
  <2>3. PICK e \in Device : seq[e][j] > floor[e]
    BY <2>1, <2>2, StepPull DEF PullStep, Fetched
  <2>4. e = j
    BY <1>1, <1>2, <2>3 DEF OnlyAt
  <2>5. j \notin kept
    BY <1>1, <2>3, <2>4 DEF KeptInv
  <2>6. QED
    BY <2>1, <2>5, StepKept
<1>6. seq'[j][j] > 0 /\ \A d \in Device \ {j} : seq'[d][j] = 0
  BY <1>0, <1>2, <1>3 DEF OnlyAt
<1>7. OnlyAt(j, j)'
  BY <1>5, <1>6 DEF OnlyAt
<1>8. QED
  BY <1>0, <1>3, <1>4, <1>7

(***************************************************************************)
(* A past that was to stay on its machine never reaches another device,    *)
(* whatever the peers read, whoever joins again and whatever fails (_apply,*)
(* _garder_le_passe_ici, changes_since).                                   *)
(***************************************************************************)
THEOREM PastStays == Spec => []KeptPastStays
<1>1. Init => KeptInv
  BY DEF Init, KeptInv
<1>2. KeptInv => KeptPastStays
  BY DEF KeptInv, KeptPastStays, OnlyAt
<1>3. QED
  BY <1>1, <1>2, InitTypes, StepTypes, InitNumbers, StepNumbers, StepKeptInv, PTL DEF Spec

-----------------------------------------------------------------------------
(***************************************************************************)
(* The memories. What a device that names a memory would serve belongs to  *)
(* it: it was captured there or in no memory, was poured, or is a stray;   *)
(* so does what an answer carries that was given under the name of a       *)
(* memory. A joiner without a name that has chosen what becomes of its     *)
(* past holds above its floor what may belong anywhere.                    *)
(***************************************************************************)
Belongs(c, s) == born[c] \in {0, s} \/ c \in poured \/ c \in stray
Settled(d) == Expected(d) # 0 \/ join[d].at = "aim" \/ (join[d].at = "floor" /\ join[d].pour)

BornInv == \A c, d \in Device : seq[c][c] = 0 => seq[d][c] = 0 /\ \A t \in Thread : pull[d][t].row # c
HeldInv == \A d, c \in Device : seq[d][c] > floor[d] /\ Settled(d) => Belongs(c, Expected(d))
PageInv == \A d, c \in Device : \A t \in Thread :
             pull[d][t].row = c /\ pull[d][t].under # 0 => Belongs(c, pull[d][t].under)
MemoryInv == BornInv /\ HeldInv /\ PageInv

LEMMA InitMemory == Init => MemoryInv
<1> SUFFICES ASSUME Init PROVE MemoryInv
  OBVIOUS
<1>1. \A d, t : d \in Device /\ t \in Thread => pull[d][t].row = None
  BY DEF Init, Off
<1>2. None \notin Device /\ \A c \in Device : c \in Row /\ c \notin {"space", "owner"} /\ Number(c) = 3
  BY DeviceAssumption DEF Row, Number
<1>3. \A d, c \in Device : seq[d][c] = IF c \in Lived /\ c \in {d, Host[d]} THEN 3 ELSE 0
  BY <1>2 DEF Init, Has
<1>4. BornInv
  <2> SUFFICES ASSUME NEW c \in Device, NEW d \in Device, seq[c][c] = 0
               PROVE  seq[d][c] = 0 /\ \A t \in Thread : pull[d][t].row # c
    BY DEF BornInv
  <2>1. c \notin Lived
    BY <1>3
  <2>2. QED
    BY <1>1, <1>2, <1>3, <2>1
<1>5. HeldInv
  <2> SUFFICES ASSUME NEW d \in Device, NEW c \in Device, seq[d][c] > floor[d] PROVE born[c] \in {0, Expected(d)}
    BY DEF HeldInv, Belongs
  <2>1. floor[d] = 0
    BY DEF Init
  <2>2. c \in Lived /\ c \in {d, Host[d]}
    BY <1>3, <2>1
  <2>3. CASE Host[c] # c
    BY <2>3 DEF Init
  <2>4. CASE Host[c] = c
    <3>1. Host[d] # None /\ Host[d] = c
      BY <1>2, <2>2, <2>4
    <3>2. c \in Founder
      BY <2>4 DEF Founder
    <3>3. StampOf(d) = FirstStamp[c] /\ StampOf(c) = FirstStamp[c] /\ StampOf(d) \in Stamp
      BY <1>2, <2>4, <3>1, StampsOf
    <3>4. Expected(d) = StampOf(d)
      BY <3>3 DEF Init, Expected, Stamp
    <3>5. born[c] = StampOf(c)
      BY <2>2, <2>4 DEF Init
    <3>6. QED
      BY <3>3, <3>4, <3>5
  <2>5. QED
    BY <2>3, <2>4
<1>6. PageInv
  BY <1>1, <1>2 DEF PageInv
<1>7. QED
  BY <1>4, <1>5, <1>6 DEF MemoryInv

\* A capture that has been made keeps its birth, and what belongs goes on belonging.
LEMMA StepHistory ==
  ASSUME TypeInv, [Next]_vars
  PROVE  /\ poured \subseteq poured' /\ stray \subseteq stray'
         /\ \A c \in Device : born'[c] = born[c] \/ seq[c][c] = 0
<1>0. ASSUME NEW d, NEW r, NEW v, NEW u, Merges(d, r, v, u) PROVE stray \subseteq stray'
  BY <1>0 DEF Merges
<1>1. stray \subseteq stray'
  <2>1. CASE UNCHANGED stray
    BY <2>1
  <2>2. ASSUME NEW d \in Device, InsertSpace(d) \/ AdoptReset(d) \/ AimAtSpace(d) PROVE stray \subseteq stray'
    BY <2>2 DEF InsertSpace, AdoptReset, AimAtSpace, aside, history
  <2>3. ASSUME NEW d \in Device, LostPull(d) PROVE stray \subseteq stray'
    BY <1>0, <2>3 DEF LostPull
  <2>4. ASSUME NEW d \in Device, NEW t \in Thread, ApplyPage(d, t) PROVE stray \subseteq stray'
    BY <1>0, <2>4 DEF ApplyPage
  <2>5. ASSUME NEW l \in Phones, Push(l[1], l[2]) PROVE stray \subseteq stray'
    BY <1>0, <2>5 DEF Push
  <2>6. QED
    BY <2>1, <2>2, <2>3, <2>4, <2>5, PartAssumption
    DEF Next, vars, history, ClaimOwner, Capture, Owning, FindNoOwner, GuardClaim, EnsureSpace, FounderLooks,
        FounderTakes, Found, aside, EndPull, RefusedPull, BeginPull, SkipPull, FetchPage, StartJoin,
        Joining, KeepPast, Bootstrap, JoinDone, JoinFails, Dies
<1>2. poured \subseteq poured'
  <2>1. CASE UNCHANGED poured
    BY <2>1
  <2>2. ASSUME NEW j \in Device, AdoptReset(j) PROVE poured \subseteq poured'
    BY <2>2 DEF AdoptReset
  <2>3. QED
    BY <2>1, <2>2, PartAssumption
    DEF Next, vars, history, ClaimOwner, Capture, Owning, FindNoOwner, GuardClaim, EnsureSpace, InsertSpace, FounderLooks,
        FounderTakes, Found, aside, EndPull, RefusedPull, LostPull, BeginPull, SkipPull, FetchPage, ApplyPage, Push, StartJoin,
        Joining, KeepPast, AimAtSpace, Bootstrap, JoinDone, JoinFails, Dies
<1>3. \A c \in Device : born'[c] = born[c] \/ seq[c][c] = 0
  <2>1. CASE UNCHANGED born
    BY <2>1
  <2>2. ASSUME NEW d \in Capturing, Capture(d) PROVE \A c \in Device : born'[c] = born[c] \/ seq[c][c] = 0
    BY <2>2 DEF Capture, TypeInv, HistoryOK
  <2>3. QED
    BY <2>1, <2>2
    DEF Next, vars, history, ClaimOwner, Owning, FindNoOwner, GuardClaim, EnsureSpace, InsertSpace, FounderLooks,
        FounderTakes, Found, aside, EndPull, RefusedPull, LostPull, BeginPull, SkipPull, FetchPage, ApplyPage, Push, StartJoin,
        Joining, AdoptReset, KeepPast, AimAtSpace, Bootstrap, JoinDone, JoinFails, Dies
<1>4. QED
  BY <1>1, <1>2, <1>3

LEMMA BelongsStays ==
  ASSUME TypeInv, [Next]_vars, NEW c \in Device, NEW s, seq[c][c] # 0, Belongs(c, s)
  PROVE  Belongs(c, s)'
BY StepHistory DEF Belongs

LEMMA StepBorn == TypeInv /\ BornInv /\ [Next]_vars => BornInv'
<1> SUFFICES ASSUME TypeInv, BornInv, [Next]_vars, NEW c \in Device, NEW d \in Device, seq'[c][c] = 0
             PROVE  seq'[d][c] = 0 /\ \A t \in Thread : pull'[d][t].row # c
  BY DEF BornInv
<1>1. \A e \in Device : seq[e][c] \in Nat /\ floor[e] \in Nat /\ top[e] \in Nat
  BY DEF TypeInv, JournalOK, PeerOK, Row
<1>2. seq[c][c] = 0
  BY <1>1, StepEntry
<1>3. \A e \in Device : seq[e][c] = 0 /\ \A t \in Thread : pull[e][t].row # c
  BY <1>2 DEF BornInv
<1>4. \A e \in Device : ~(seq[e][c] > floor[e])
  BY <1>1, <1>3
<1>5. seq'[d][c] = 0
  <2>1. CASE c = d
    BY <2>1
  <2>2. CASE c # d
    BY <1>3, <1>4, <2>2, StepEntry DEF Source
  <2>3. QED
    BY <2>1, <2>2
<1>6. ASSUME NEW t \in Thread PROVE pull'[d][t].row # c
  <2>1. PullStep(d, t) /\ c # None
    BY StepPull, DeviceAssumption
  <2>2. QED
    BY <1>3, <1>4, <2>1 DEF PullStep, Fetched
<1>7. QED
  BY <1>5, <1>6

\* Rows that go to a device that names a memory under that name belong to it.
LEMMA ServedBelongs ==
  ASSUME TypeInv, HeldInv, NEW d \in Device, NEW e \in Device, NEW c \in Device,
         Served(e, d), seq[e][c] > floor[e], Under(d, e) # 0
  PROVE  Belongs(c, Under(d, e))
<1>1. Expected(e) # 0 /\ Under(d, e) = Expected(d) /\ Expected(d) = Expected(e)
  BY DEF Under, Served
<1>2. QED
  BY <1>1 DEF HeldInv, Settled

LEMMA StepPage == TypeInv /\ MemoryInv /\ [Next]_vars => PageInv'
<1> SUFFICES ASSUME TypeInv, MemoryInv, [Next]_vars, NEW d \in Device, NEW c \in Device, NEW t \in Thread,
                    pull'[d][t].row = c, pull'[d][t].under # 0
             PROVE  born'[c] \in {0, pull'[d][t].under} \/ c \in poured' \/ c \in stray'
  BY DEF PageInv, Belongs
<1>1. PullStep(d, t) /\ c # None
  BY StepPull, DeviceAssumption
<1>2. CASE pull'[d][t].row = pull[d][t].row /\ pull'[d][t].under = pull[d][t].under
  <2>1. seq[c][c] # 0
    BY <1>2 DEF MemoryInv, BornInv
  <2>2. Belongs(c, pull[d][t].under)
    BY <1>2 DEF MemoryInv, PageInv
  <2>3. QED
    BY <1>2, <2>1, <2>2, StepHistory DEF Belongs
<1>3. CASE Fetched(d, pull'[d][t])
  <2>1. PICK e \in Device : Served(e, d) /\ seq[e][c] > floor[e] /\ pull'[d][t].under = Under(d, e)
    BY <1>3 DEF Fetched
  <2>2. Belongs(c, Under(d, e))
    BY <2>1, ServedBelongs DEF MemoryInv
  <2>3. seq[c][c] # 0
    <3>1. seq[e][c] # 0
      BY <2>1 DEF TypeInv, JournalOK, PeerOK, Row
    <3>2. QED
      BY <3>1 DEF MemoryInv, BornInv
  <2>4. QED
    BY <2>1, <2>2, <2>3, StepHistory DEF Belongs
<1>4. QED
  BY <1>1, <1>2, <1>3 DEF PullStep

(***************************************************************************)
(* What a device takes in: its own capture, or a row that was sent to it   *)
(* under a name, which makes it a stray when it crosses.                   *)
(***************************************************************************)
Sent(d, c, u) == \/ \E t \in Thread : pull[d][t].row = c /\ pull[d][t].under = u
                 \/ \E p \in Device : Served(d, p) /\ seq[p][c] > floor[p] /\ u = Under(d, p)
Taken(d, c) == \E u : /\ Sent(d, c, u)
                      /\ stray' = stray \cup Crosses(d, c, u)
                      /\ UNCHANGED <<space, hint, join, born, poured>>

LEMMA MergesTakes ==
  ASSUME JournalOK, NEW e \in Device, NEW r \in Row, NEW v, NEW u, Merges(e, r, v, u),
         NEW d \in Device, NEW c \in Device, seq'[d][c] # seq[d][c]
  PROVE  e = d /\ r = c /\ stray' = stray \cup Crosses(d, c, u) /\ UNCHANGED space
<1>1. c \in Row /\ c \notin {"space", "owner"}
  BY DeviceAssumption DEF Row
<1>2. seq' = [seq EXCEPT ![e][r] = top[e] + 1]
  <2>1. CASE UNCHANGED <<register, journal, stray>>
    BY <2>1 DEF journal
  <2>2. CASE ~UNCHANGED <<register, journal, stray>>
    BY <2>2 DEF Merges, Journals
  <2>3. QED
    BY <2>1, <2>2
<1>3. e = d /\ r = c
  BY <1>1, <1>2 DEF JournalOK
<1>4. ~UNCHANGED <<register, journal, stray>>
  BY DEF journal
<1>5. QED
  BY <1>1, <1>3, <1>4 DEF Merges, register

LEMMA NewEntry ==
  ASSUME TypeInv, [Next]_vars, NEW d \in Device, NEW c \in Device, seq[d][c] # seq'[d][c]
  PROVE  (Capture(d) /\ c = d) \/ Taken(d, c)
<1>0. JournalOK /\ c \in Row /\ c \notin {"space", "owner"}
  BY DeviceAssumption DEF TypeInv, Row
<1>1. ASSUME NEW e \in Device, NEW r \in {"space", "owner"}, Journals(e, r) PROVE FALSE
  BY <1>0, <1>1 DEF Journals, JournalOK
<1>2. ASSUME NEW e \in Device, NEW named, Claims(e, named) PROVE FALSE
  BY <1>1, <1>2 DEF Claims
<1>3. ASSUME NEW e \in Device, Capture(e) PROVE Capture(d) /\ c = d
  BY <1>0, <1>3 DEF Capture, Journals, JournalOK
<1>4. ASSUME NEW e \in Device, NEW t \in Thread, ApplyPage(e, t) PROVE Taken(d, c)
  <2>1. pull[e][t].row \in Row
    BY <1>4 DEF TypeInv, PullOK, ApplyPage
  <2>2. e = d /\ pull[e][t].row = c /\ stray' = stray \cup Crosses(d, c, pull[e][t].under) /\ UNCHANGED space
    BY <1>0, <1>4, <2>1, MergesTakes DEF ApplyPage
  <2>3. QED
    BY <1>4, <2>2 DEF ApplyPage, Taken, Sent
<1>5. ASSUME NEW e \in Device, LostPull(e) PROVE Taken(d, c)
  <2>1. /\ pull[e]["loop"].st = "page"
        /\ Merges(e, pull[e]["loop"].row, pull[e]["loop"].val, pull[e]["loop"].under)
    BY <1>5 DEF LostPull, journal
  <2>2. pull[e]["loop"].row \in Row /\ "loop" \in Thread
    BY <2>1 DEF TypeInv, PullOK, Thread
  <2>3. e = d /\ pull[e]["loop"].row = c /\ stray' = stray \cup Crosses(d, c, pull[e]["loop"].under) /\ UNCHANGED space
    BY <1>0, <2>1, <2>2, MergesTakes
  <2>4. QED
    BY <1>5, <2>2, <2>3 DEF LostPull, Taken, Sent
<1>6. ASSUME NEW l \in Phones, Push(l[1], l[2]) PROVE Taken(d, c)
  <2>1. l[1] \in Device /\ l[2] \in Device
    BY PartAssumption
  <2>2. PICK r \in Row : /\ seq[l[1]][r] > floor[l[1]] /\ Served(l[2], l[1])
                         /\ Merges(l[2], r, Value(l[1], r), Under(l[2], l[1]))
    BY <1>6 DEF Push
  <2>3. l[2] = d /\ r = c /\ stray' = stray \cup Crosses(d, c, Under(l[2], l[1])) /\ UNCHANGED space
    BY <1>0, <2>1, <2>2, MergesTakes
  <2>4. QED
    BY <1>6, <2>1, <2>2, <2>3 DEF Push, Taken, Sent
<1>7. ASSUME NEW e \in Device, Owning(e) PROVE FALSE
  BY <1>1, <1>2, <1>7 DEF Owning, FindNoOwner, GuardClaim, EnsureSpace, InsertSpace, FounderLooks, FounderTakes, journal
<1>8. ASSUME NEW j \in Device, AdoptReset(j) PROVE FALSE
  BY <1>0, <1>8 DEF AdoptReset, JournalOK
<1>9. QED
  <2>1. ASSUME NEW l \in Transfer, ClaimOwner(l[1], l[2]) PROVE FALSE
    BY <1>2, <2>1, PartAssumption DEF ClaimOwner
  <2>2. QED
    BY <1>3, <1>4, <1>5, <1>6, <1>7, <1>8, <2>1, PartAssumption
    DEF Next, vars, journal, EndPull, RefusedPull, Found, BeginPull, SkipPull, FetchPage, StartJoin, Joining, KeepPast,
        AimAtSpace, Bootstrap, JoinDone, JoinFails, Dies

LEMMA TakenBelongs ==
  ASSUME TypeInv, MemoryInv, NEW d \in Device, NEW c \in Device, Taken(d, c), Settled(d)'
  PROVE  born'[c] \in {0, Expected(d)'} \/ c \in poured' \/ c \in stray'
<1>1. PICK u : /\ Sent(d, c, u)
               /\ stray' = stray \cup Crosses(d, c, u)
               /\ UNCHANGED <<space, hint, join, born, poured>>
  BY DEF Taken
<1>2. Expected(d)' = Expected(d) /\ Settled(d)
  BY <1>1 DEF Expected, Settled
<1>3. CASE Expected(d) = 0
  BY <1>1, <1>2, <1>3 DEF Crosses, Settled
<1>4. CASE Expected(d) # 0 /\ u # Expected(d)
  BY <1>1, <1>2, <1>4 DEF Crosses
<1>5. CASE Expected(d) # 0 /\ u = Expected(d)
  <2>1. ASSUME NEW t \in Thread, pull[d][t].row = c, pull[d][t].under = u PROVE Belongs(c, u)
    BY <1>5, <2>1 DEF MemoryInv, PageInv
  <2>2. ASSUME NEW p \in Device, Served(d, p), seq[p][c] > floor[p], u = Under(d, p) PROVE Belongs(c, u)
    <3>1. Expected(p) = u
      BY <1>5, <2>2 DEF Under, Served
    <3>2. QED
      BY <1>5, <2>2, <3>1 DEF MemoryInv, HeldInv, Settled
  <2>3. QED
    BY <1>1, <1>2, <1>5, <2>1, <2>2 DEF Sent, Belongs
<1>6. QED
  BY <1>3, <1>4, <1>5

(***************************************************************************)
(* What a step does to the name of a device: nothing, unless it inserts or *)
(* merges a space row, which may make strays of what it holds, or takes    *)
(* one of the first three steps of a join.                                 *)
(***************************************************************************)
NameStep(d) ==
  \/ Expected(d)' = Expected(d) /\ (join'[d] = join[d] \/ join'[d].at \notin {"floor", "aim"})
  \/ \E s \in Stamp : space'[d] = s /\ stray' = stray \cup Carries(d, s)
  \/ AdoptReset(d) \/ KeepPast(d) \/ AimAtSpace(d)

LEMMA MergesName ==
  ASSUME RegisterOK, NEW d \in Device, NEW e \in Device, NEW r \in Row, NEW v \in Stamp \cup {0}, NEW u, Merges(e, r, v, u),
         hint'[d] = hint[d], join'[d] = join[d]
  PROVE  NameStep(d)
<1>1. CASE space'[d] = space[d]
  BY <1>1 DEF NameStep, Expected
<1>2. CASE space'[d] # space[d]
  <2>1. /\ v > space[e]
        /\ space' = [space EXCEPT ![e] = v]
        /\ stray' = stray \cup Carries(e, v)
    BY <1>2 DEF Merges, register
  <2>2. e = d /\ space'[d] = v
    BY <1>2, <2>1 DEF RegisterOK
  <2>3. v \in Stamp
    BY <2>1, <2>2 DEF RegisterOK, Stamp
  <2>4. QED
    BY <2>1, <2>2, <2>3 DEF NameStep
<1>3. QED
  BY <1>1, <1>2

LEMMA ValuesTypes ==
  ASSUME RegisterOK, NEW e \in Device, NEW r
  PROVE  Value(e, r) \in Stamp \cup {0}
BY DEF RegisterOK, Value

LEMMA EndsName ==
  ASSUME TypeInv, NEW d \in Device, NEW f \in Device, NEW t \in Thread, Ends(f, t), UNCHANGED space
  PROVE  Expected(d)' = Expected(d)
BY DEF TypeInv, HintOK, Ends, Expected

LEMMA StepName == ASSUME TypeInv, [Next]_vars, NEW d \in Device PROVE NameStep(d)
<1>0. RegisterOK /\ join \in [Device -> JoinType] /\ hint \in [Device -> Stamp \cup {0}]
  BY DEF TypeInv, JoinOK, HintOK
<1>1. CASE space'[d] = space[d] /\ hint'[d] = hint[d] /\ join'[d] = join[d]
  BY <1>1 DEF NameStep, Expected
<1>2. CASE Expected(d)' = Expected(d) /\ join'[d].at \notin {"floor", "aim"}
  BY <1>2 DEF NameStep
<1>3. ASSUME NEW f \in Device, InsertSpace(f) PROVE NameStep(d)
  <2>1. CASE space'[d] = space[d]
    BY <1>1, <1>3, <2>1 DEF InsertSpace, aside
  <2>2. CASE space'[d] # space[d]
    BY <1>0, <1>3, <2>2 DEF InsertSpace, register, RegisterOK, NameStep
  <2>3. QED
    BY <2>1, <2>2
<1>4. ASSUME NEW f \in Device, NEW t \in Thread, ApplyPage(f, t) PROVE NameStep(d)
  <2>1. pull[f][t].row \in Row /\ pull[f][t].val \in Stamp \cup {0}
    BY <1>4 DEF TypeInv, PullOK, PullType, ApplyPage
  <2>2. QED
    BY <1>0, <1>4, <2>1, MergesName DEF ApplyPage
<1>5. ASSUME NEW f \in Device, LostPull(f) PROVE NameStep(d)
  <2>1. CASE UNCHANGED <<register, journal, stray>>
    BY <1>1, <1>5, <2>1 DEF LostPull, register
  <2>2. CASE pull[f]["loop"].st = "page" /\ Merges(f, pull[f]["loop"].row, pull[f]["loop"].val, pull[f]["loop"].under)
    <3>1. pull[f]["loop"].row \in Row /\ pull[f]["loop"].val \in Stamp \cup {0}
      BY <2>2 DEF TypeInv, PullOK, PullType, Thread
    <3>2. QED
      BY <1>0, <1>5, <2>2, <3>1, MergesName DEF LostPull
  <2>3. QED
    BY <1>5, <2>1, <2>2 DEF LostPull
<1>6. ASSUME NEW l \in Phones, Push(l[1], l[2]) PROVE NameStep(d)
  <2>1. l[1] \in Device /\ l[2] \in Device
    BY PartAssumption
  <2>2. PICK r \in Row : Merges(l[2], r, Value(l[1], r), Under(l[2], l[1]))
    BY <1>6 DEF Push
  <2>3. QED
    BY <1>0, <1>6, <2>1, <2>2, MergesName, ValuesTypes DEF Push
<1>7. ASSUME NEW f \in Device, EndPull(f) PROVE NameStep(d)
  <2>1. Expected(d)' = Expected(d) /\ join' = join
    BY <1>7, EndsName DEF EndPull, register, Thread
  <2>2. QED
    BY <2>1 DEF NameStep
<1>8. ASSUME NEW j \in Device, JoinDone(j) PROVE NameStep(d)
  <2>1. Expected(d)' = Expected(d)
    BY <1>8, EndsName DEF JoinDone, register, Thread
  <2>2. join'[d] = join[d] \/ join'[d].at = "idle"
    BY <1>0, <1>8 DEF JoinDone, NoJoin
  <2>3. QED
    BY <2>1, <2>2 DEF NameStep
<1>9. ASSUME NEW j \in Device, AdoptReset(j) \/ KeepPast(j) \/ AimAtSpace(j), j # d PROVE NameStep(d)
  <2>1. hint'[d] = hint[d] /\ join'[d] = join[d] /\ space'[d] = space[d]
    BY <1>0, <1>9 DEF AdoptReset, KeepPast, AimAtSpace, Steps, RegisterOK, register
  <2>2. QED
    BY <1>1, <2>1
<1>10. ASSUME NEW j \in Device, AdoptReset(j) \/ KeepPast(j) \/ AimAtSpace(j) PROVE NameStep(d)
  BY <1>9, <1>10 DEF NameStep
<1>11. ASSUME NEW j \in Device, Bootstrap(j) \/ JoinFails(j) \/ Dies(j) PROVE NameStep(d)
  <2>1. hint'[d] = hint[d] /\ space'[d] = space[d]
    BY <1>11 DEF Bootstrap, JoinFails, Dies, register
  <2>2. join'[d] = join[d] \/ join'[d].at \in {"idle", "pulling"}
    BY <1>0, <1>11 DEF Bootstrap, JoinFails, Dies, Steps, NoJoin, JoinType
  <2>3. QED
    BY <2>1, <2>2 DEF NameStep, Expected
<1>12. ASSUME NEW j \in Device, NEW m \in Device, NEW pour \in BOOLEAN, StartJoin(j, m, pour) PROVE NameStep(d)
  <2>1. hint'[d] = hint[d] /\ space'[d] = space[d]
    BY <1>12 DEF StartJoin, register
  <2>2. join'[d] = join[d] \/ join'[d].at = "reset"
    BY <1>0, <1>12 DEF StartJoin
  <2>3. QED
    BY <2>1, <2>2 DEF NameStep, Expected
<1>13. ASSUME NEW f \in Device, Owning(f) PROVE NameStep(d)
  <2>1. CASE InsertSpace(f)
    BY <1>3, <2>1
  <2>2. CASE ~InsertSpace(f)
    BY <1>1, <1>13, <2>2 DEF Owning, FindNoOwner, GuardClaim, EnsureSpace, FounderLooks, FounderTakes, Claims, aside, register
  <2>3. QED
    BY <2>1, <2>2
<1>14. ASSUME NEW l \in Transfer, ClaimOwner(l[1], l[2]) PROVE NameStep(d)
  BY <1>1, <1>14 DEF ClaimOwner, Claims
<1>15. QED
  BY <1>1, <1>4, <1>5, <1>6, <1>7, <1>8, <1>10, <1>11, <1>12, <1>13, <1>14, PartAssumption
  DEF Next, vars, register, Capture, RefusedPull, Found, BeginPull, SkipPull, FetchPage, Joining, aside

LEMMA KeptBelongs ==
  ASSUME TypeInv, NumberInv, MemoryInv, [Next]_vars, NEW d \in Device, NEW c \in Device,
         seq'[d][c] = seq[d][c], seq'[d][c] > floor'[d], Settled(d)'
  PROVE  born'[c] \in {0, Expected(d)'} \/ c \in poured' \/ c \in stray'
<1> DEFINE Still == born'[c] \in {0, Expected(d)'} \/ c \in poured' \/ c \in stray'
<1>0. /\ space \in [Device -> Stamp \cup {0}] /\ hint \in [Device -> Stamp \cup {0}]
      /\ join \in [Device -> JoinType] /\ floor \in [Device -> Nat]
      /\ seq[d][c] \in Nat /\ floor[d] \in Nat /\ top[d] \in Nat
      /\ \A s \in Stamp : s # 0
  BY DEF TypeInv, RegisterOK, HintOK, JournalOK, PeerOK, JoinOK, Row, Stamp
<1>1. seq[d][c] <= top[d] /\ floor[d] <= top[d]
  BY DEF NumberInv, Row
<1>2. seq[d][c] > floor[d] /\ floor'[d] # top[d]
  BY <1>0, <1>1, StepFloor
<1>3. born'[c] = born[c] /\ poured \subseteq poured' /\ stray \subseteq stray'
  <2>1. seq[c][c] # 0
    BY <1>0, <1>2 DEF MemoryInv, BornInv
  <2>2. QED
    BY <2>1, StepHistory
<1>4. Settled(d) => Belongs(c, Expected(d))
  BY <1>2 DEF MemoryInv, HeldInv
<1>5. CASE Expected(d)' = Expected(d) /\ Settled(d)
  BY <1>3, <1>4, <1>5 DEF Belongs
<1>6. ASSUME NEW s \in Stamp \cup {0}, Expected(d)' = s, s # 0, stray' = stray \cup Carries(d, s) PROVE Still
  <2>1. CASE s = Expected(d)
    BY <1>5, <1>6, <2>1 DEF Settled
  <2>2. CASE s # Expected(d)
    BY <1>2, <1>3, <1>6, <2>2 DEF Carries
  <2>3. QED
    BY <2>1, <2>2
<1>7. CASE Expected(d)' = Expected(d) /\ (join'[d] = join[d] \/ join'[d].at \notin {"floor", "aim"})
  BY <1>5, <1>7 DEF Settled
<1>8. ASSUME NEW s \in Stamp, space'[d] = s, stray' = stray \cup Carries(d, s) PROVE Still
  <2>1. Expected(d)' = s
    BY <1>0, <1>8 DEF Expected
  <2>2. QED
    BY <1>0, <1>6, <1>8, <2>1
<1>9. CASE AdoptReset(d)
  <2>1. Expected(d)' = hint[d] /\ join'[d].at = "floor" /\ join'[d].pour = join[d].pour
    BY <1>0, <1>9 DEF AdoptReset, Steps, Expected, JoinType
  <2>2. CASE join[d].pour
    <3>1. c \in Holds(d)
      BY <1>0, <1>2 DEF Holds
    <3>2. QED
      BY <1>9, <2>2, <3>1 DEF AdoptReset
  <2>3. CASE ~join[d].pour
    <3>1. Expected(d)' # 0
      BY <2>1, <2>3 DEF Settled
    <3>2. QED
      BY <1>0, <1>6, <1>9, <2>1, <3>1 DEF AdoptReset
  <2>4. QED
    BY <2>2, <2>3
<1>10. CASE KeepPast(d)
  <2>1. Expected(d)' = Expected(d) /\ join[d].at = "floor"
    BY <1>10 DEF KeepPast, Steps, Expected, register
  <2>2. CASE join[d].pour
    BY <1>5, <2>1, <2>2 DEF Settled
  <2>3. CASE ~join[d].pour
    BY <1>0, <1>1, <1>2, <1>10, <2>3 DEF KeepPast
  <2>4. QED
    BY <2>2, <2>3
<1>11. CASE AimAtSpace(d)
  <2>1. Settled(d) /\ join'[d].at = "bootstrap"
    BY <1>0, <1>11 DEF AimAtSpace, Steps, Settled, JoinType
  <2>2. Belongs(c, Expected(d))
    BY <1>4, <2>1
  <2> DEFINE s == IF join[d].space # 0 THEN join[d].space ELSE hint[d]
  <2>3. space'[d] = space[d] /\ hint'[d] = s
    BY <1>0, <1>11 DEF AimAtSpace, register
  <2>4. CASE space[d] # 0
    BY <1>5, <2>1, <2>3, <2>4 DEF Expected
  <2>5. CASE space[d] = 0 /\ hint[d] = 0
    BY <1>3, <2>2, <2>5 DEF Belongs, Expected
  <2>6. CASE space[d] = 0 /\ hint[d] # 0
    <3>1. stray' = stray \cup Carries(d, s)
      BY <1>11, <2>6 DEF AimAtSpace
    <3>2. s # 0 /\ s \in Stamp \cup {0}
      BY <1>0, <2>6 DEF JoinType
    <3> HIDE DEF s
    <3>3. Expected(d)' = s
      BY <2>3, <2>6 DEF Expected
    <3>4. QED
      BY <1>6, <3>1, <3>2, <3>3
  <2>7. QED
    BY <2>4, <2>5, <2>6
<1>12. QED
  <2>1. NameStep(d)
    BY StepName
  <2>2. QED
    BY <1>7, <1>8, <1>9, <1>10, <1>11, <2>1 DEF NameStep

LEMMA StepHeld == TypeInv /\ NumberInv /\ MemoryInv /\ [Next]_vars => HeldInv'
<1> SUFFICES ASSUME TypeInv, NumberInv, MemoryInv, [Next]_vars, NEW d \in Device, NEW c \in Device,
                    seq'[d][c] > floor'[d], Settled(d)'
             PROVE  born'[c] \in {0, Expected(d)'} \/ c \in poured' \/ c \in stray'
  BY DEF HeldInv, Belongs
<1>1. CASE seq'[d][c] = seq[d][c]
  BY <1>1, KeptBelongs
<1>2. CASE Taken(d, c)
  BY <1>2, TakenBelongs
<1>3. CASE Capture(d) /\ c = d
  BY <1>3 DEF Capture, Expected, register, TypeInv, HistoryOK
<1>4. QED
  BY <1>1, <1>2, <1>3, NewEntry

(***************************************************************************)
(* Memories that meet on a network mix only through a device caught        *)
(* between two of them: what a device serves was captured in the memory it *)
(* names or in none, was poured by its holder, or is a stray               *)
(* (pull_from_peer, require_same_space, _apply).                           *)
(***************************************************************************)
THEOREM StrangersApart == Spec => []StrangersStayApart
<1>1. MemoryInv => StrangersStayApart
  BY DEF MemoryInv, HeldInv, Settled, Belongs, StrangersStayApart
<1>2. TypeInv /\ NumberInv /\ MemoryInv /\ [Next]_vars => MemoryInv'
  BY StepBorn, StepHeld, StepPage DEF MemoryInv
<1>3. QED
  BY <1>1, <1>2, InitTypes, StepTypes, InitNumbers, StepNumbers, InitMemory, PTL DEF Spec

=============================================================================
