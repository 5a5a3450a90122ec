------------------------------- MODULE PeerPull -------------------------------
(***************************************************************************)
(* Reading a peer over the local network.                                  *)
(*                                                                         *)
(* api/discovery.py keeps a registry of the instances that mDNS announces; *)
(* api/sync_peers.py, pull_from_peer, reads one of them page by page: it   *)
(* probes the certificate at an address, pins the session on it, asks who  *)
(* is there, and merges the rows after its cursor.  Mesh has the ownership *)
(* and the spaces, on links that work; here are the links: addresses that  *)
(* pass from one instance to another, announcements that are late, pulls   *)
(* of the loop and of POST /sync/pull at the same time, failures between   *)
(* any two requests, and deaths.                                           *)
(*                                                                         *)
(* The certificate of an instance is the instance itself.  Left out: the   *)
(* bootstrap of an install without a space (Mesh), cleartext on the loop-  *)
(* back, the contents of rows and their merge, which is idempotent.        *)
(***************************************************************************)
EXTENDS Naturals, FiniteSets

CONSTANTS
  Peer,       \* the other instances on the network
  Mute,       \* those that announce no space, or one that is no longer theirs
  Address,
  FirstAddress,  \* FirstAddress[p]: address where p listens at first, or None
  NRow,       \* rows in the journal of each peer
  PageLimit,  \* SYNC_PAGE_LIMIT
  Puller,     \* bound: pulls at the same time
  MaxPull,    \* bound: pulls and pushes begun
  MaxMove,    \* bound: addresses that change hands
  MaxDeath,   \* bound: deaths of this process
  None

PullAssumption ==
  /\ Mute \subseteq Peer
  /\ FirstAddress \in [Peer -> Address \cup {None}]
  /\ \A p, q \in Peer : FirstAddress[p] = FirstAddress[q] /\ FirstAddress[p] # None => p = q
  /\ NRow \in Nat /\ PageLimit \in Nat \ {0} /\ MaxPull \in Nat
  /\ MaxMove \in Nat /\ MaxDeath \in Nat
  /\ None \notin Peer \cup Address

VARIABLES
  member,     \* the peers of our space; the others are strangers
  address,    \* where each peer listens
  registry,   \* _PEERS, by the name of the announcement: the address it gave
  resolving,  \* _resolve_peer in flight: the address that is about to be recorded
  pin,        \* peer_cert:<device> in sync_meta
  cursor,     \* cursor:<device> in sync_meta
  have,       \* rows merged
  vector,     \* those whose vector is in the index
  pull,       \* of each puller: where it is, and its local variables
  pulls, moves, died,
  lost        \* history: rows whose re-embedding a failure or a death cancelled

pullVars == <<member, pulls, address, registry, resolving, pin, cursor, have, vector, pull, moves, died, lost>>

RowOf(p, first, last) == {<<p, n>> : n \in first..last}
At(x) == {p \in Peer : address[p] = x}

Idle == [at |-> "idle", x |-> None, hint |-> None, fp |-> None, peer |-> None, since |-> 0, notes |-> {}]

Init ==
  /\ member \in SUBSET Peer /\ address = FirstAddress
  /\ registry = [p \in Peer |-> None] /\ resolving = {}
  /\ pin = [p \in Peer |-> None] /\ cursor = [p \in Peer |-> 0]
  /\ have = {} /\ vector = {}
  /\ pull = [t \in Puller |-> Idle]
  /\ pulls = 0 /\ moves = 0 /\ died = 0 /\ lost = {}

(***************************************************************************)
(* Discovery.                                                              *)
(***************************************************************************)
\* Added or Updated: a task asks the announcer for its address...
Announced(p) ==
  /\ address[p] # None
  /\ resolving' = resolving \cup {<<p, address[p]>>}
  /\ UNCHANGED <<member, pulls, address, registry, pin, cursor, have, vector, pull, moves, died, lost>>

\* ... and records it, even if the announcement was withdrawn in between.
Resolved(p, x) ==
  /\ <<p, x>> \in resolving
  /\ resolving' = resolving \ {<<p, x>>}
  /\ registry' = [registry EXCEPT ![p] = x]
  /\ UNCHANGED <<member, pulls, address, pin, cursor, have, vector, pull, moves, died, lost>>

\* No answer within three seconds.
Unresolved(p, x) ==
  /\ <<p, x>> \in resolving
  /\ resolving' = resolving \ {<<p, x>>}
  /\ UNCHANGED <<member, pulls, address, registry, pin, cursor, have, vector, pull, moves, died, lost>>

Removed(p) ==
  /\ registry[p] # None
  /\ registry' = [registry EXCEPT ![p] = None]
  /\ UNCHANGED <<member, pulls, address, resolving, pin, cursor, have, vector, pull, moves, died, lost>>

\* An address passes to a peer, from nobody or from whoever had it.
Moves(p, x) ==
  /\ moves < MaxMove /\ x # address[p]
  /\ address' = [q \in Peer |-> IF q = p THEN x ELSE IF address[q] = x THEN None ELSE address[q]]
  /\ moves' = moves + 1
  /\ UNCHANGED <<member, pulls, registry, resolving, pin, cursor, have, vector, pull, died, lost>>

\* known_peers: an instance that announces another space is not contacted.
KnownPeers == {p \in Peer : registry[p] # None /\ p \in member \cup Mute}

(***************************************************************************)
(* A pull.                                                                 *)
(***************************************************************************)
Goes(t, local) == pull' = [pull EXCEPT ![t] = local]

\* An exception or a refusal: what was merged stays, what was to be embedded is forgotten.
Gives(t) == Goes(t, Idle) /\ lost' = lost \cup pull[t].notes

\* pull_all takes the known peers in turn; POST /sync/pull an address typed by hand.
Begin(t) ==
  /\ pull[t] = Idle /\ pulls < MaxPull /\ pulls' = pulls + 1
  /\ \/ \E p \in KnownPeers : Goes(t, [Idle EXCEPT !.at = "probe", !.x = registry[p], !.hint = p])
     \/ \E x \in Address : Goes(t, [Idle EXCEPT !.at = "probe", !.x = x])
  /\ UNCHANGED <<member, address, registry, resolving, pin, cursor, have, vector, moves, died, lost>>

\* A bare handshake: the certificate must be the one pinned for the device announced.
Probe(t) ==
  LET known == IF pull[t].hint = None THEN None ELSE pin[pull[t].hint] IN
  /\ pull[t].at = "probe"
  /\ \/ \E p \in At(pull[t].x) :
          /\ known \in {None, p}
          /\ Goes(t, [pull[t] EXCEPT !.at = "status", !.fp = p])
          /\ UNCHANGED lost
     \/ (\A p \in At(pull[t].x) : known \notin {None, p}) /\ Gives(t)
  /\ UNCHANGED <<member, pulls, address, registry, resolving, pin, cursor, have, vector, moves, died>>

\* A request of the session: whoever answers has the certificate it is pinned on.
Answers(t, p) == p \in At(pull[t].x) /\ p = pull[t].fp

\* /sync/status: the device that answers is checked against its own pin, which is set at
\* the first contact; then its space; then its cursor is read.
Status(t) ==
  /\ pull[t].at = "status"
  /\ \E p \in Peer :
       /\ Answers(t, p)
       /\ pin' = IF pin[p] = None THEN [pin EXCEPT ![p] = pull[t].fp] ELSE pin
       /\ IF pin[p] \in {None, pull[t].fp} /\ p \in member
          THEN Goes(t, [pull[t] EXCEPT !.at = "page", !.peer = p, !.since = cursor[p]]) /\ UNCHANGED lost
          ELSE Gives(t)
  /\ UNCHANGED <<member, pulls, address, registry, resolving, cursor, have, vector, moves, died>>

\* /sync/changes, and the merge of the page.
Page(t) ==
  LET last == IF pull[t].since + PageLimit < NRow THEN pull[t].since + PageLimit ELSE NRow IN
  /\ pull[t].at = "page"
  /\ \E p \in Peer :
       /\ Answers(t, p)
       /\ have' = have \cup RowOf(p, pull[t].since + 1, last)
       /\ Goes(t, [pull[t] EXCEPT !.at = "advance", !.since = last,
                                  !.notes = @ \cup RowOf(p, pull[t].since + 1, last)])
  /\ UNCHANGED <<member, pulls, address, registry, resolving, pin, cursor, vector, moves, died, lost>>

\* Mutant: the cursor is that of the device the announcement named.
AdvanceOfHint(t) ==
  /\ pull[t].at = "advance"
  /\ cursor' = [cursor EXCEPT ![IF pull[t].hint = None THEN pull[t].peer ELSE pull[t].hint] = pull[t].since]
  /\ Goes(t, [pull[t] EXCEPT !.at = IF pull[t].since < NRow THEN "page" ELSE "embed"])
  /\ UNCHANGED <<member, pulls, address, registry, resolving, pin, have, vector, moves, died, lost>>

\* The cursor moves once the page is merged, and back when a slower pull comes second.
Advance(t) ==
  /\ pull[t].at = "advance"
  /\ cursor' = [cursor EXCEPT ![pull[t].peer] = pull[t].since]
  /\ Goes(t, [pull[t] EXCEPT !.at = IF pull[t].since < NRow THEN "page" ELSE "embed"])
  /\ UNCHANGED <<member, pulls, address, registry, resolving, pin, have, vector, moves, died, lost>>

\* reembed_notes, whose failures are noted one by one, then dedup_after_pull, the date of
\* the pull and last_seen.
Embed(t) ==
  /\ pull[t].at = "embed"
  /\ \E done \in SUBSET pull[t].notes :
       vector' = vector \cup done /\ lost' = (lost \cup pull[t].notes) \ done
  /\ Goes(t, Idle)
  /\ UNCHANGED <<member, pulls, address, registry, resolving, pin, cursor, have, moves, died>>

\* A page that a phone sends: no cursor, the same work after the merge.
Push(t, phone) ==
  /\ pull[t] = Idle /\ pulls < MaxPull /\ pulls' = pulls + 1
  /\ <<phone, 1>> \notin have
  /\ have' = have \cup {<<phone, 1>>}
  /\ Goes(t, [Idle EXCEPT !.at = "embed", !.notes = {<<phone, 1>>}])
  /\ UNCHANGED <<member, address, registry, resolving, pin, cursor, vector, moves, died, lost>>

\* The link fails, or nobody with that certificate is at the address any more.
Breaks(t) ==
  /\ pull[t].at \in {"probe", "status", "page"}
  /\ Gives(t)
  /\ UNCHANGED <<member, pulls, address, registry, resolving, pin, cursor, have, vector, moves, died>>

Dies ==
  /\ died < MaxDeath /\ died' = died + 1
  /\ registry' = [p \in Peer |-> None] /\ resolving' = {}
  /\ lost' = lost \cup UNION {pull[t].notes : t \in Puller}
  /\ pull' = [t \in Puller |-> Idle]
  /\ UNCHANGED <<member, pulls, address, pin, cursor, have, vector, moves>>

-----------------------------------------------------------------------------
Next ==
  \/ \E p \in Peer :
       \/ Announced(p) \/ Removed(p)
       \/ \E x \in Address : Resolved(p, x) \/ Unresolved(p, x) \/ Moves(p, x)
  \/ \E t \in Puller :
       \/ Begin(t) \/ Probe(t) \/ Status(t) \/ Page(t) \/ Advance(t) \/ Embed(t) \/ Breaks(t)
       \/ Push(t, "phone")
  \/ Dies

Spec == Init /\ [][Next]_pullVars

-----------------------------------------------------------------------------
Row == (Peer \X (1..NRow)) \cup {<<"phone", 1>>}

TypeOK ==
  /\ address \in [Peer -> Address \cup {None}] /\ registry \in [Peer -> Address \cup {None}]
  /\ resolving \subseteq Peer \X Address
  /\ pin \in [Peer -> Peer \cup {None}] /\ cursor \in [Peer -> 0..NRow]
  /\ have \subseteq Row /\ vector \subseteq Row /\ lost \subseteq Row
  /\ pull \in [Puller -> [at : {"idle", "probe", "status", "page", "advance", "embed"},
       x : Address \cup {None}, hint : Peer \cup {None}, fp : Peer \cup {None},
       peer : Peer \cup {None}, since : 0..NRow, notes : SUBSET Row]]
  /\ member \subseteq Peer /\ pulls \in 0..MaxPull /\ moves \in 0..MaxMove /\ died \in 0..MaxDeath

-----------------------------------------------------------------------------
(***************************************************************************)
(* Properties.                                                             *)
(***************************************************************************)

\* "Idempotent and resumable: the cursor advances after each applied page"
\* (pull_from_peer): no row before the cursor of a peer was skipped.
CursorBehindRows == \A p \in Peer : RowOf(p, 1, cursor[p]) \subseteq have

\* A pin is the certificate of the very device: a wrong one would shut it out for good.
PinsAreTrue == \A p \in Peer : pin[p] \in {None, p}

\* Whoever announces what, and whoever takes over the address in between, the rows that
\* are merged come from members of the space.
OnlyMembersMerged == \A r \in have : r[1] \in member \cup {"phone"}

\* Each merged row is in the index, or a pull that has it at hand is going to embed it,
\* or a failure or a death cancelled that.
VectorsFollow == have \subseteq vector \cup lost \cup UNION {pull[t].notes : t \in Puller}

\* Whatever happens to addresses, announcements and links between two requests, a pull
\* skips nothing, confuses no two peers and lets no stranger in.
PullIsSound == CursorBehindRows /\ PinsAreTrue /\ OnlyMembersMerged /\ VectorsFollow
=============================================================================
