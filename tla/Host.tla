--------------------------------- MODULE Host ---------------------------------
(* The components of a backend that keep a state of their own and share no     *)
(* variable, side by side: a behaviour is one of one of them, `part`, and the  *)
(* rest of the state stays as it was.                                          *)
EXTENDS Naturals, FiniteSets

CONSTANTS
  None, Torn,
  Request,   \* requests, pulls, searches or calls under way at the same time
  Device, Founder, Right,              \* the devices, and the members that show the code typed
  Backend, User, HomeOf,               \* processes of a home, their cycles and digests
  Peer, Mute, Address, FirstAddress, NRow, PageLimit,
  Field, Value, FetchByDefault,        \* the settings
  Slot, NPiece,                        \* the pieces of the engine
  Entity, Fact, Name, Fold, FirstName, Question,
  Project, OldProject, Relation, Note, About, Entry, FirstEntry, Offer,
  NNode, Weight, MaxPass, MaxLevel,    \* the map
  MaxVersion, MaxIssue, MaxRequest, MaxPull, MaxMove, MaxSearch, MaxPair, MaxToken, MaxChange,
  MaxDeath, MaxEnd                     \* bounds: deaths of a process, of those that share an identity

VARIABLES part,
  file, tmp, text, fd, step, draft, switch, saved, overlapped, forced,
  mode, root, dir, beside, tar, json, progress, installer, check, removing,
  published, deaths, overrun, replaced, crossed,
  session, verrou, niveau, proc, engine, stray, perished, disturbed,
  adopted, issued, registry, revoked, invited, link, answered,
  name, aliases, stale, merged, standing, home, candidate, gone, status,
  doing, served, owed, borne, outdated,
  edges, adj, selfW, com, stot, at, moved, pass, level, membership, zones,
  entity, birth, relation, note, asked, fact, entry, offer, gesture, gestures,
  verdicts, fate, crossings,
  member, pulls, address, found, resolving, pin, cursor, have, vector, pull,
  moves, died, forgotten,
  search, thread, searches, asks, said, applied, called, unheard, dead,
  cert, key, bearer, backend, serving, pairs, bearers, ended, pinned, accepted,
  torn, raced, doubled,
  choice, secret, server, caller, last, changes, slipped

C == INSTANCE ConfigStore
I == INSTANCE EngineInstall
S == INSTANCE EngineSession WITH Process <- Backend, Home <- HomeOf, Nobody <- None
D == INSTANCE DeviceAccess
R == INSTANCE Review WITH Handler <- Request
L == INSTANCE Louvain
K == INSTANCE Desk WITH Handler <- Request, doing <- gesture, served <- gestures, crossed <- crossings
P == INSTANCE PeerPull WITH Puller <- Request, registry <- found, lost <- forgotten
J == INSTANCE JoinSearch WITH Member <- Device, Thread <- Request, status <- search, request <- asks
H == INSTANCE Identity WITH request <- serving, MaxDeath <- MaxEnd
G == INSTANCE ModelChoice WITH Caller <- Request

ASSUME PartsAssumption ==
  /\ C!ConfigAssumption /\ I!InstallAssumption /\ S!SessionAssumption
  /\ D!AccessAssumption /\ R!ReviewAssumption /\ L!LouvainAssumption
  /\ K!DeskAssumption /\ P!PullAssumption
  /\ J!SearchAssumption /\ H!IdentityAssumption /\ G!ChoiceAssumption

Part == {"config", "install", "session", "access", "review", "zones", "desk", "pull", "join", "home", "choice"}

\* The variables of the parts that were not chosen have no value.
NoConfig == file = None /\ tmp = None /\ text = None /\ fd = None /\ step = None /\ draft = None
            /\ switch = None /\ saved = None /\ overlapped = None /\ forced = None
NoInstall == mode = None /\ root = None /\ dir = None /\ beside = None /\ tar = None /\ json = None
             /\ progress = None /\ installer = None /\ check = None /\ removing = None
             /\ published = None /\ deaths = None /\ overrun = None /\ replaced = None
             /\ crossed = None
NoSession == session = None /\ verrou = None /\ niveau = None /\ proc = None /\ engine = None
             /\ stray = None /\ perished = None /\ disturbed = None
NoAccess == adopted = None /\ issued = None /\ registry = None /\ revoked = None /\ invited = None
            /\ link = None /\ answered = None
NoReview == name = None /\ aliases = None /\ stale = None /\ merged = None /\ standing = None
            /\ home = None /\ candidate = None /\ gone = None /\ status = None /\ doing = None
            /\ served = None /\ owed = None /\ borne = None /\ outdated = None
NoZones == edges = None /\ adj = None /\ selfW = None /\ com = None /\ stot = None /\ at = None
           /\ moved = None /\ pass = None /\ level = None /\ membership = None /\ zones = None
NoDesk == entity = None /\ birth = None /\ relation = None /\ note = None /\ asked = None
          /\ fact = None /\ entry = None /\ offer = None /\ gesture = None /\ gestures = None
          /\ verdicts = None /\ fate = None /\ crossings = None
NoPull == member = None /\ pulls = None /\ address = None /\ found = None /\ resolving = None
          /\ pin = None /\ cursor = None /\ have = None /\ vector = None /\ pull = None
          /\ moves = None /\ died = None /\ forgotten = None
NoJoin == search = None /\ thread = None /\ searches = None /\ asks = None /\ said = None
          /\ applied = None /\ called = None /\ unheard = None /\ dead = None
NoHome == cert = None /\ key = None /\ bearer = None /\ backend = None /\ serving = None
          /\ pairs = None /\ bearers = None /\ ended = None /\ pinned = None /\ accepted = None
          /\ torn = None /\ raced = None /\ doubled = None
NoChoice == choice = None /\ secret = None /\ server = None /\ caller = None /\ last = None
            /\ changes = None /\ slipped = None

Init ==
  /\ part \in Part
  /\ IF part = "config" THEN C!Init ELSE NoConfig
  /\ IF part = "install" THEN I!Init ELSE NoInstall
  /\ IF part = "session" THEN S!Init ELSE NoSession
  /\ IF part = "access" THEN D!Init ELSE NoAccess
  /\ IF part = "review" THEN R!Init ELSE NoReview
  /\ IF part = "zones" THEN L!Init ELSE NoZones
  /\ IF part = "desk" THEN K!Init ELSE NoDesk
  /\ IF part = "pull" THEN P!Init ELSE NoPull
  /\ IF part = "join" THEN J!Init ELSE NoJoin
  /\ IF part = "home" THEN H!Init ELSE NoHome
  /\ IF part = "choice" THEN G!Init ELSE NoChoice

config == <<file, tmp, text, fd, step, draft, switch, saved, overlapped, forced>>
install == <<mode, root, dir, beside, tar, json, progress, installer, check, removing,
             published, deaths, overrun, replaced, crossed>>
sessions == <<session, verrou, niveau, proc, engine, stray, perished, disturbed>>
access == <<adopted, issued, registry, revoked, invited, link, answered>>
review == <<name, aliases, stale, merged, standing, home, candidate, gone, status,
            doing, served, owed, borne, outdated>>
louvain == <<edges, adj, selfW, com, stot, at, moved, pass, level, membership, zones>>
desk == <<entity, birth, relation, note, asked, fact, entry, offer, gesture, gestures, verdicts, fate, crossings>>
pulling == <<member, pulls, address, found, resolving, pin, cursor, have, vector, pull, moves, died, forgotten>>
joining == <<search, thread, searches, asks, said, applied, called, unheard, dead>>
identity == <<cert, key, bearer, backend, serving, pairs, bearers, ended, pinned, accepted, torn, raced, doubled>>
choosing == <<choice, secret, server, caller, last, changes, slipped>>

\* A step of part p leaves the others as they are.
Only(p) ==
  /\ part = p /\ UNCHANGED part
  /\ IF p = "config" THEN TRUE ELSE UNCHANGED config
  /\ IF p = "install" THEN TRUE ELSE UNCHANGED install
  /\ IF p = "session" THEN TRUE ELSE UNCHANGED sessions
  /\ IF p = "access" THEN TRUE ELSE UNCHANGED access
  /\ IF p = "review" THEN TRUE ELSE UNCHANGED review
  /\ IF p = "zones" THEN TRUE ELSE UNCHANGED louvain
  /\ IF p = "desk" THEN TRUE ELSE UNCHANGED desk
  /\ IF p = "pull" THEN TRUE ELSE UNCHANGED pulling
  /\ IF p = "join" THEN TRUE ELSE UNCHANGED joining
  /\ IF p = "home" THEN TRUE ELSE UNCHANGED identity
  /\ IF p = "choice" THEN TRUE ELSE UNCHANGED choosing
Config(A) == Only("config") /\ A
Install(A) == Only("install") /\ A
Session(A) == Only("session") /\ A
Access(A) == Only("access") /\ A
Review(A) == Only("review") /\ A
Zones(A) == Only("zones") /\ A
Desk(A) == Only("desk") /\ A
Pull(A) == Only("pull") /\ A
Join(A) == Only("join") /\ A
Home(A) == Only("home") /\ A
Choice(A) == Only("choice") /\ A

\* The next-state relations of the parts, action by action: TLC then tells how often
\* each of them is taken.
Next ==
  \/ \E r \in Request :
       \/ \E f \in Field, v \in Value \cup {None} : Config(C!Begin(r, f, v))
       \/ Config(C!OpenTmp(r)) \/ Config(C!WriteTmp(r)) \/ Config(C!Replace(r))
       \/ Config(C!ReplaceFails(r)) \/ Config(C!ApplyFetch(r))
  \/ Config(C!Relaunch)
  \/ \E i \in Slot :
       \/ Install(I!Install(i)) \/ Install(I!Download(i)) \/ Install(I!Extract(i)) \/ Install(I!Extracted(i))
       \/ Install(I!Swap(i)) \/ Install(I!Rename(i)) \/ Install(I!Unlink(i)) \/ Install(I!Finish(i))
  \/ Install(I!CheckLocal) \/ Install(I!PutLocal) \/ Install(I!PutMode)
  \/ Install(I!BeginRemoval) \/ Install(I!Remove) \/ Install(I!Dies) \/ Install(I!Publish)
  \/ \E u \in User :
       \/ Session(S!Join(u)) \/ Session(S!Launch(u)) \/ Session(S!Started(u))
       \/ Session(S!NotStarted(u)) \/ Session(S!Retry(u)) \/ Session(S!Leave(u))
  \/ \E p \in Backend : Session(S!Loaded(p)) \/ Session(S!Falls(p)) \/ Session(S!Perish(p))
  \/ Session(S!ByHand) \/ Session(S!StrayLoaded)
  \/ \E d \in Device :
       \/ Access(D!Lose(d)) \/ Access(D!Join(d)) \/ Access(D!Answer(d))
       \/ \E e \in Device : \/ Access(D!Approve(e, d)) \/ Access(D!Pull(d, e))
                           \/ Access(D!Revoke(e, d)) \/ Access(D!Restore(e, d))
  \/ \E h \in Request : Review(R!Check(h)) \/ Review(R!Commit(h))
  \/ \E f \in Fact : Review(R!LifeOfFact(f)) \/ Review(R!UpdateFact(f))
  \/ \E e \in Entity : Review(R!Resummarize(e))
  \/ Zones(L!BeginLevel) \/ Zones(L!Visit) \/ Zones(L!NextPass) \/ Zones(L!EndLevel)
  \/ \E h \in Request : Desk(K!Check(h)) \/ Desk(K!Commit(h))
  \/ \E e \in Entity :
       \/ Desk(K!AcceptBirth(e)) \/ Desk(K!RejectBirth(e))
       \/ \E hidden \in BOOLEAN : Desk(K!HideEntity(e, hidden))
       \/ \E canonical \in Entity : Desk(K!Merge(e, canonical))
  \/ \E r \in Relation : Desk(K!ConfirmRelation(r)) \/ Desk(K!DeleteRelation(r))
  \/ \E n \in Note : Desk(K!ConfirmNote(n))
  \/ \E on \in BOOLEAN :
       \/ \E n \in Note : Desk(K!HideNote(n, on))
       \/ \E f \in Fact : Desk(K!Validate(f, on))
       \/ \E f \in IF part = "desk" THEN fact ELSE {}, column \in {"hidden", "obsolete"} :
            Desk(K!LifeOfFact(f, column, on))
  \/ \E p \in Peer :
       \/ Pull(P!Announced(p)) \/ Pull(P!Removed(p))
       \/ \E x \in Address : Pull(P!Resolved(p, x)) \/ Pull(P!Unresolved(p, x)) \/ Pull(P!Moves(p, x))
  \/ \E t \in Request :
       \/ Pull(P!Begin(t)) \/ Pull(P!Probe(t)) \/ Pull(P!Status(t)) \/ Pull(P!Page(t))
       \/ Pull(P!Advance(t)) \/ Pull(P!Embed(t)) \/ Pull(P!Breaks(t)) \/ Pull(P!Push(t, "phone"))
  \/ Pull(P!Dies)
  \/ \E t \in Request :
       \/ Join(J!Start(t)) \/ Join(J!NotFound(t)) \/ Join(J!Ask(t)) \/ Join(J!Confirm(t)) \/ Join(J!Poll(t))
       \/ Join(J!TimesOut(t)) \/ Join(J!Apply(t)) \/ Join(J!ApplyFails(t)) \/ Join(J!CallBack(t))
  \/ \E n \in 1..MaxSearch, d \in Device :
       Join(J!Expire(n, d)) \/ \E answer \in {"approved", "denied"} : Join(J!Decide(n, d, answer))
  \/ Join(J!Dies)
  \/ \E p \in Backend :
       \/ Home(H!Start(p)) \/ Home(H!Make(p)) \/ Home(H!Load(p)) \/ Home(H!Announce(p))
       \/ Home(H!OfferPairing(p)) \/ Home(H!Dies(p)) \/ \E h \in Request : Home(H!Read(h, p))
  \/ \E h \in Request : Home(H!OpenToken(h)) \/ Home(H!WriteToken(h)) \/ Home(H!NotWritten(h))
  \/ \E m \in {"cloud", "local", "endpoint"} : Choice(G!PutMode(m))
  \/ Choice(G!PutEndpoint) \/ \E on \in BOOLEAN : Choice(G!PutKey(on))
  \/ \E h \in Request :
       \/ \E kind \in {"core", "cycle", "names"} : Choice(G!Ask(h, kind))
       \/ Choice(G!First(h)) \/ Choice(G!Second(h)) \/ Choice(G!Requests(h)) \/ Choice(G!Closes(h))

vars == <<part, config, install, sessions, access, review, louvain, desk, pulling, joining, identity, choosing>>
Spec == Init /\ [][Next]_vars

-----------------------------------------------------------------------------
(* Each part keeps its types. *)
TypeOK == CASE part = "config" -> C!TypeOK [] part = "install" -> I!TypeOK [] part = "session" -> S!TypeOK
            [] part = "access" -> D!TypeOK [] part = "review" -> R!TypeOK [] part = "zones" -> L!TypeOK
            [] part = "desk" -> K!TypeOK [] part = "pull" -> P!TypeOK
            [] part = "join" -> J!TypeOK [] part = "home" -> H!TypeOK [] part = "choice" -> G!TypeOK

(* The properties of the parts, each stated and explained in its own module. *)
SettingsHold == (part = "config" => C!SettingsSurvive) /\ (part = "choice" => G!NothingLeaks)
EngineIsUsable == part = "install" => I!EngineIsUsable
EngineLastsItsSessions == part = "session" => S!EngineLastsItsSessions
PairedStillEnters == part = "access" => D!PairedStillEnters
EditsFlagSummary == part = "review" => R!EditsFlagSummary
NamesAreKept == part = "review" => R!NamesAreKept
EachInItsPlace == part = "desk" => K!EachInItsPlace
PullIsSound == part = "pull" => P!PullIsSound
ArrivesAsItself == (part = "join" => J!JoinTellsTheTruth) /\ (part = "home" => H!IdentityLasts)
ClimbsModularity == [][part = "zones" => L!Climbs]_vars
=============================================================================
