-------------------------------- MODULE Mesh --------------------------------
(* Devices that found, join and leave memories while they pull from one        *)
(* another (src/api/sync_peers.py, src/api/join.py, the sync endpoints of      *)
(* src/api/app.py).                                                            *)
(*                                                                             *)
(* `space` and `sync_owner` are replicated singletons merged by the stamp of   *)
(* their write; the stamp of a founding is also the identity of the space.     *)
(* Every other row is represented by one capture per device, named after its   *)
(* author. The journal of a device gives each row the sequence number of its   *)
(* last change there; a page of a pull is one row. The core keeps the journal, *)
(* the stamps and the merge; they are modelled from how the host relies on     *)
(* them (a merged row enters the journal of the device that merged it).        *)
EXTENDS Integers, FiniteSets, Sequences

CONSTANTS
  Device, None,
  Host,      \* Host[d]: whose memory d is in at the start (itself: it founded it; None: no memory)
  Lived,     \* devices that have captured before the start (members alone, or nobody in a memory yet)
  Capturing, \* devices whose user captures during the run
  Joiner,    \* devices whose user types a pairing code
  Founding,  \* devices whose user may found a memory
  Transfer,  \* <<d, e>>: at d, the user may give the cycle to e
  Link,      \* <<d, e>>: d pulls from e
  Phones,    \* <<p, d>>: p pushes its pages to d
  SharedToken, \* every backend presents the same token: SYNAPSE_API_TOKEN set alike, or handed on
  Strict,    \* SYNAPSE_SYNC_STRICT_SPACE
  Lossy,     \* pulls of the loop may fail
  MaxStamp, MaxJoin

Stamp == 1..MaxStamp
Thread == {"loop", "join"}
Row == {"space", "owner"} \cup Device
Founder == {d \in Device : Host[d] = d}

ASSUME DeviceAssumption == IsFiniteSet(Device) /\ None \notin Device /\ {"space", "owner"} \cap Device = {}
ASSUME HostAssumption == Host \in [Device -> Device \cup {None}]
                         /\ \A d \in Device : Host[d] # None => Host[Host[d]] = Host[d]
ASSUME PartAssumption == /\ Joiner \subseteq Device /\ Capturing \subseteq Device /\ Founding \subseteq Device /\ Lived \subseteq Device
                         /\ Transfer \subseteq Device \X Device
                         /\ Link \subseteq Device \X Device /\ Phones \subseteq Device \X Device
ASSUME RoomAssumption == Cardinality(Founder) <= MaxStamp
ASSUME BoundAssumption == MaxStamp \in Nat /\ MaxJoin \in Nat /\ {SharedToken, Strict, Lossy} \subseteq BOOLEAN

VARIABLES
  author,   \* author[s]: the device a write with stamp s names: the founder, the owner
  clock,    \* the highest stamp a device has seen
  space, owner,  \* the stamp of the row at each device, 0 without a row
  seq, top, \* seq[d][r]: the journal of d, 0 for a row that is not in it; its last number
  cursor,   \* cursor[d][e]: how far d has read the journal of e
  floor,    \* the part of its journal a device never serves (partage_plancher)
  hint,     \* the space a joiner expects (joining_space_id), 0 without one
  pull,     \* pull[d][t]: the pull that thread t of d is in the middle of
  join,     \* join[d]: the join in progress: its step, the member, the space, the past
  joins,    \* the members whose payload a device has opened, in order
  guard,    \* where the cycle guard of d, or its POST /space, has got to
  born,     \* history: the space a capture was made in
  poured,   \* history: captures whose holder chose to bring them along
  kept,     \* history: authors whose capture was to stay with them
  stray     \* history: captures that changed memory although nobody chose it

register == <<author, clock, space, owner>>
journal == <<seq, top>>
peer == <<cursor, floor>>
history == <<born, poured, kept, stray>>
vars == <<register, journal, peer, hint, pull, join, joins, guard, history>>

Off == [st |-> "off", from |-> None, cur |-> 0, row |-> None, val |-> 0, under |-> 0, more |-> FALSE]
NoJoin == [at |-> "idle", member |-> None, space |-> 0, pour |-> TRUE]

Holds(d) == {c \in Device : seq[d][c] > 0}
Expected(d) == IF space[d] # 0 THEN space[d] ELSE hint[d]
Virgin(d) == Holds(d) = {}

(* The captures of other memories that d would serve once it names s: neither  *)
(* the founding of a memory nor the merge of a space row looks at them.        *)
Carries(d, s) == IF s \in {0, Expected(d)} THEN {}
                 ELSE {c \in Device : seq[d][c] > floor[d] /\ born[c] \notin {0, s}}

(* The memory that d named when rows of e were sent to it, if e named one too. *)
Under(d, e) == IF Expected(e) = 0 THEN 0 ELSE Expected(d)

(* A capture taken in that was sent under s. What d names by then is not       *)
(* compared again, and who names no memory passes for a device of every one.   *)
Crosses(d, c, s) ==
  IF /\ born[c] \notin {0, Expected(d)}
     /\ IF Expected(d) # 0 THEN s # Expected(d) ELSE join[d].at \in {"floor", "aim"}
  THEN {c} ELSE {}

-----------------------------------------------------------------------------
(* A founder holds its two rows, and its capture if it lived; whoever joined   *)
(* it holds the same, and has read them from it.                               *)

Has(d, r) == \/ r \in {"space", "owner"} /\ Host[d] # None
             \/ r \in Lived /\ r \in {d, Host[d]}
Number(r) == CASE r = "space" -> 1 [] r = "owner" -> 2 [] OTHER -> 3
LastNumber(d) == IF \E r \in Device : Has(d, r) THEN 3 ELSE IF Host[d] # None THEN 2 ELSE 0
FirstStamp == CHOOSE f \in [Founder -> Stamp] :
                \A d, e \in Founder : d # e => f[d] # f[e]
StampOf(d) == IF Host[d] = None THEN 0 ELSE FirstStamp[Host[d]]

Init ==
  /\ space = [d \in Device |-> StampOf(d)]
  /\ owner = space /\ clock = space
  /\ author = [s \in Stamp |-> IF \E d \in Founder : FirstStamp[d] = s
                               THEN CHOOSE d \in Founder : FirstStamp[d] = s ELSE None]
  /\ seq = [d \in Device |-> [r \in Row |-> IF Has(d, r) THEN Number(r) ELSE 0]]
  /\ top = [d \in Device |-> LastNumber(d)]
  /\ cursor = [d \in Device |-> [e \in Device |-> IF Host[d] = e /\ d # e THEN LastNumber(e) ELSE 0]]
  /\ floor = [d \in Device |-> 0]
  /\ hint = [d \in Device |-> 0]
  /\ pull = [d \in Device |-> [t \in Thread |-> Off]]
  /\ join = [d \in Device |-> NoJoin]
  /\ joins = [d \in Device |-> <<>>]
  /\ guard = [d \in Device |-> "idle"]
  /\ born = [d \in Device |-> IF Host[d] = d /\ d \in Lived THEN StampOf(d) ELSE 0]
  /\ poured = {} /\ kept = {} /\ stray = {}

-----------------------------------------------------------------------------
(* Writes. A host writes with a stamp above every one it has seen.             *)

Journals(d, r) == /\ seq' = [seq EXCEPT ![d][r] = top[d] + 1]
                  /\ top' = [top EXCEPT ![d] = @ + 1]

Stamps(d, s, named) == /\ author[s] = None /\ s > clock[d]
                       /\ author' = [author EXCEPT ![s] = named]
                       /\ clock' = [clock EXCEPT ![d] = s]

Claims(d, named) ==
  \E s \in Stamp : /\ Stamps(d, s, named)
                   /\ owner' = [owner EXCEPT ![d] = s]
                   /\ Journals(d, "owner")
                   /\ UNCHANGED space

(* PUT /sync/owner: this device, or another one, takes the cycle. *)
ClaimOwner(d, named) ==
  /\ Claims(d, named)
  /\ UNCHANGED <<peer, hint, pull, join, joins, guard, history>>

Capture(d) ==
  /\ seq[d][d] = 0
  /\ Journals(d, d)
  /\ born' = [born EXCEPT ![d] = Expected(d)]
  /\ UNCHANGED <<register, peer, hint, pull, join, joins, guard, poured, kept, stray>>

(* ensure_cycle_owner: without an owner, claim, then found what is missing.    *)
Goes(d, from, to) == guard[d] = from /\ guard' = [guard EXCEPT ![d] = to]
aside == <<peer, hint, pull, join, joins, history>>

FindNoOwner(d) ==
  /\ owner[d] = 0
  /\ Goes(d, "idle", "claim")
  /\ UNCHANGED <<register, journal, aside>>

GuardClaim(d) ==
  /\ Goes(d, "claim", "ensure")
  /\ Claims(d, d)
  /\ UNCHANGED aside

EnsureSpace(d) ==
  /\ Goes(d, "ensure", IF space[d] = 0 /\ owner[d] # 0 /\ author[owner[d]] = d THEN "insert" ELSE "idle")
  /\ UNCHANGED <<register, journal, aside>>

(* POST /space. *)
Found(d) ==
  /\ Goes(d, "idle", IF space[d] = 0 THEN "insert" ELSE "idle")
  /\ UNCHANGED <<register, journal, aside>>

(* The row is inserted, not replaced: one that arrived meanwhile makes it fail. *)
InsertSpace(d) ==
  \/ /\ Goes(d, "insert", "own")
     /\ space[d] = 0
     /\ \E s \in Stamp : /\ Stamps(d, s, d) /\ space' = [space EXCEPT ![d] = s]
                        /\ stray' = stray \cup Carries(d, s)
     /\ Journals(d, "space")
     /\ UNCHANGED <<owner, peer, hint, pull, join, joins, born, poured, kept>>
  \/ /\ Goes(d, "insert", "idle")
     /\ space[d] # 0
     /\ UNCHANGED <<register, journal, aside>>

(* Whoever founds weaves, if the lock is free when it looks. *)
FounderLooks(d) ==
  /\ Goes(d, "own", IF owner[d] = 0 THEN "take" ELSE "idle")
  /\ UNCHANGED <<register, journal, aside>>

FounderTakes(d) ==
  /\ Goes(d, "take", "idle")
  /\ Claims(d, d)
  /\ UNCHANGED aside

-----------------------------------------------------------------------------
(* Pulling.                                                                    *)

(* d presents a token that e accepts: the one of the member it joined last,    *)
(* or else an install token they share. By default each install makes its own  *)
(* (resolve_token) and a joiner is issued one of its own, so a member is       *)
(* refused by its joiner; they share one if the environment sets it, or if the *)
(* joiner did not name itself and took the member's (_issue_token). The token  *)
(* d hands to e in its callback is not presented back (see DeviceAccess).      *)
Admitted(d, e) == IF joins[d] = <<>> THEN SharedToken \/ Host[d] = e ELSE joins[d][Len(joins[d])] = e

(* What the puller requires of the space its peer announces. *)
Acceptable(d, e) ==
  IF Expected(d) # 0 THEN Expected(e) = Expected(d) ELSE Expected(e) # 0 => Virgin(d)

\* Mutant: the server does not look at the header.
ServedWithoutHeader(e, d) == TRUE

(* What the server requires of the space header (require_same_space). *)
Served(e, d) ==
  \/ Expected(e) = 0
  \/ Expected(d) = Expected(e)
  \/ Expected(d) = 0 /\ ~Strict

Unread(e, cur) == {r \in Row : seq[e][r] > cur /\ seq[e][r] > floor[e]}
Value(e, r) == CASE r = "space" -> space[e] [] r = "owner" -> owner[e] [] OTHER -> 0

Begins(d, t, e) ==
  /\ pull[d][t].st = "off"
  /\ Acceptable(d, e)
  /\ pull' = [pull EXCEPT ![d][t] = [Off EXCEPT !.st = "ready", !.from = e, !.cur = cursor[d][e]]]

BeginPull(d, e) ==
  /\ Admitted(d, e)
  /\ Begins(d, "loop", e)
  /\ UNCHANGED <<register, journal, peer, hint, join, joins, guard, history>>

(* A peer of another space is left alone. *)
SkipPull(d, e) == ~Acceptable(d, e) /\ UNCHANGED vars

(* One page, as the peer holds it now. The header is computed anew each time. *)
FetchPage(d, t) ==
  LET e == pull[d][t].from
      unread == Unread(e, pull[d][t].cur)
  IN /\ pull[d][t].st = "ready"
     /\ Served(e, d)
     /\ \/ /\ unread = {}
           /\ pull' = [pull EXCEPT ![d][t].st = "last"]
        \/ \E r \in unread :
             /\ \A q \in unread : seq[e][r] <= seq[e][q]
             /\ pull' = [pull EXCEPT ![d][t] = [@ EXCEPT !.st = "page", !.row = r, !.val = Value(e, r), !.under = Under(d, e),
                                                        !.cur = seq[e][r], !.more = unread # {r}]]
     /\ UNCHANGED <<register, journal, peer, hint, join, joins, guard, history>>

\* Mutants: the row that arrives last wins; the row that arrived first stays.
MergesLatest(d, r, v, under) ==
  \/ /\ r = "space" /\ v # space[d]
     /\ space' = [space EXCEPT ![d] = v]
     /\ Journals(d, r) /\ UNCHANGED <<author, clock, owner, stray>>
  \/ /\ r = "owner" /\ v # owner[d]
     /\ owner' = [owner EXCEPT ![d] = v]
     /\ Journals(d, r) /\ UNCHANGED <<author, clock, space, stray>>
  \/ /\ r \in Device \/ v = Value(d, r)
     /\ UNCHANGED <<register, journal, stray>>

MergesFirst(d, r, v, under) ==
  \/ /\ r = "space" /\ space[d] = 0 /\ v # 0
     /\ space' = [space EXCEPT ![d] = v]
     /\ Journals(d, r) /\ UNCHANGED <<author, clock, owner, stray>>
  \/ /\ r = "owner" /\ owner[d] = 0 /\ v # 0
     /\ owner' = [owner EXCEPT ![d] = v]
     /\ Journals(d, r) /\ UNCHANGED <<author, clock, space, stray>>
  \/ /\ r \in Device \/ v = 0 \/ Value(d, r) # 0
     /\ UNCHANGED <<register, journal, stray>>

(* The core's merge of one row: a newer stamp wins, a known capture is a no-op. *)
Merges(d, r, v, under) ==
  \/ /\ r = "space" /\ v > space[d]
     /\ space' = [space EXCEPT ![d] = v]
     /\ clock' = [clock EXCEPT ![d] = IF v > @ THEN v ELSE @]
     /\ stray' = stray \cup Carries(d, v)
     /\ Journals(d, r) /\ UNCHANGED <<author, owner>>
  \/ /\ r = "owner" /\ v > owner[d]
     /\ owner' = [owner EXCEPT ![d] = v]
     /\ clock' = [clock EXCEPT ![d] = IF v > @ THEN v ELSE @]
     /\ Journals(d, r) /\ UNCHANGED <<author, space, stray>>
  \/ /\ r \in Device /\ seq[d][r] = 0
     /\ stray' = stray \cup Crosses(d, r, under)
     /\ Journals(d, r) /\ UNCHANGED register
  \/ /\ CASE r = "space" -> v <= space[d] [] r = "owner" -> v <= owner[d] [] OTHER -> seq[d][r] > 0
     /\ UNCHANGED <<register, journal, stray>>

(* The cursor advances once the page is applied. *)
ApplyPage(d, t) ==
  LET p == pull[d][t]
  IN /\ p.st = "page"
     /\ Merges(d, p.row, p.val, p.under)
     /\ cursor' = [cursor EXCEPT ![d][p.from] = p.cur]
     /\ pull' = [pull EXCEPT ![d][t] = [p EXCEPT !.st = IF p.more THEN "ready" ELSE "last",
                                                !.row = None, !.val = 0, !.under = 0, !.more = FALSE]]
     /\ UNCHANGED <<floor, hint, join, joins, guard, born, poured, kept>>

(* The end of a pull forgets the space expected once the row has arrived. *)
Ends(d, t) ==
  /\ pull[d][t].st = "last"
  /\ pull' = [pull EXCEPT ![d][t] = Off]
  /\ hint' = [hint EXCEPT ![d] = IF space[d] # 0 THEN 0 ELSE @]

EndPull(d) ==
  /\ Ends(d, "loop")
  /\ UNCHANGED <<register, journal, peer, join, joins, guard, history>>

(* The peer refuses the header. *)
RefusedPull(d) ==
  /\ pull[d]["loop"].st = "ready" /\ ~Served(pull[d]["loop"].from, d)
  /\ pull' = [pull EXCEPT ![d]["loop"] = Off]
  /\ UNCHANGED <<register, journal, peer, hint, join, joins, guard, history>>

\* Mutant: a state of its own for a pull that failed.
LostPullMarked(d) ==
  /\ Lossy
  /\ pull[d]["loop"].st \in {"ready", "page"}
  /\ pull' = [pull EXCEPT ![d]["loop"].st = "lost"]
  /\ UNCHANGED <<register, journal, peer, hint, join, joins, guard, history>>

(* The network fails, or the process between the merge of a page and its       *)
(* cursor: the pages applied stay, the last one may have to be read again.     *)
LostPull(d) ==
  LET p == pull[d]["loop"]
  IN /\ Lossy
     /\ p.st \in {"ready", "page"}
     /\ pull' = [pull EXCEPT ![d]["loop"] = Off]
     /\ \/ UNCHANGED <<register, journal, stray>>
        \/ p.st = "page" /\ Merges(d, p.row, p.val, p.under)
     /\ UNCHANGED <<peer, hint, join, joins, guard, born, poured, kept>>

(* POST /sync/push: a phone has no server, it sends its rows. *)
Push(p, d) ==
  \E r \in Row :
    /\ seq[p][r] > 0 /\ seq[p][r] > floor[p]
    /\ Served(d, p)
    /\ Merges(d, r, Value(p, r), Under(d, p))
    /\ UNCHANGED <<peer, hint, pull, join, joins, guard, born, poured, kept>>

-----------------------------------------------------------------------------
(* Joining. The member approved and the sealed payload has been opened.        *)

Steps(j, from, to) == join[j].at = from /\ join' = [join EXCEPT ![j].at = to]

StartJoin(j, m, pour) ==
  /\ join[j].at = "idle" /\ Len(joins[j]) < MaxJoin /\ j # m
  /\ Virgin(j) => pour
  /\ joins' = [joins EXCEPT ![j] = Append(@, m)]
  /\ join' = [join EXCEPT ![j] = [at |-> "reset", member |-> m, space |-> space[m], pour |-> pour]]
  /\ UNCHANGED <<register, journal, peer, hint, pull, guard, history>>

(* Our founding rows go, and their journal entries with them. *)
AdoptReset(j) ==
  /\ Steps(j, "reset", "floor")
  /\ space' = [space EXCEPT ![j] = 0]
  /\ owner' = [owner EXCEPT ![j] = 0]
  /\ seq' = [seq EXCEPT ![j] = [@ EXCEPT !["space"] = 0, !["owner"] = 0]]
  /\ poured' = IF join[j].pour THEN poured \cup Holds(j) ELSE poured
  /\ stray' = stray \cup Carries(j, hint[j])
  /\ UNCHANGED <<author, clock, top, peer, hint, pull, joins, guard, born, kept>>

(* A capture that only j holds, and that no answer carries away. *)
OnlyAt(j, c) == /\ seq[j][c] > 0
                /\ \A d \in Device \ {j} : seq[d][c] = 0 /\ \A t \in Thread : pull[d][t].row # c

\* Mutant: the last entry of the past stays above the floor.
KeepPastOffByOne(j) ==
  /\ Steps(j, "floor", "aim")
  /\ IF join[j].pour THEN UNCHANGED <<floor, kept>>
     ELSE /\ floor' = [floor EXCEPT ![j] = top[j] - 1]
          /\ kept' = IF OnlyAt(j, j) THEN kept \cup {j} ELSE kept
  /\ UNCHANGED <<register, journal, cursor, hint, pull, joins, guard, born, poured, stray>>

KeepPast(j) ==
  /\ Steps(j, "floor", "aim")
  /\ IF join[j].pour THEN UNCHANGED <<floor, kept>>
     ELSE /\ floor' = [floor EXCEPT ![j] = top[j]]
          /\ kept' = IF OnlyAt(j, j) THEN kept \cup {j} ELSE kept
  /\ UNCHANGED <<register, journal, cursor, hint, pull, joins, guard, born, poured, stray>>

\* Mutant: the joiner does not note the space it expects.
AimNowhere(j) ==
  /\ Steps(j, "aim", "bootstrap")
  /\ UNCHANGED <<register, journal, peer, hint, pull, joins, guard, history>>

AimAtSpace(j) ==
  /\ Steps(j, "aim", "bootstrap")
  /\ LET s == IF join[j].space # 0 THEN join[j].space ELSE hint[j]
     IN /\ hint' = [hint EXCEPT ![j] = s]
        /\ stray' = IF space[j] = 0 /\ hint[j] # 0 THEN stray \cup Carries(j, s) ELSE stray
  /\ UNCHANGED <<register, journal, peer, pull, joins, guard, born, poured, kept>>

(* The bootstrap pull; whether it is skipped is not looked at. *)
Bootstrap(j) ==
  \/ /\ Steps(j, "bootstrap", "pulling")
     /\ Begins(j, "join", join[j].member)
     /\ UNCHANGED <<register, journal, peer, hint, joins, guard, history>>
  \/ /\ join[j].at = "bootstrap" /\ ~Acceptable(j, join[j].member)
     /\ join' = [join EXCEPT ![j] = NoJoin]
     /\ UNCHANGED <<register, journal, peer, hint, pull, joins, guard, history>>

JoinDone(j) ==
  /\ Ends(j, "join")
  /\ join' = [join EXCEPT ![j] = NoJoin]
  /\ UNCHANGED <<register, journal, peer, joins, guard, history>>

(* An error of the bootstrap, or the death of the joiner's process, which      *)
(* takes its pulls and a founding in progress with it.                         *)
JoinFails(j) ==
  /\ join[j].at = "pulling"
  /\ join' = [join EXCEPT ![j] = NoJoin]
  /\ pull' = [pull EXCEPT ![j]["join"] = Off]
  /\ UNCHANGED <<register, journal, peer, hint, joins, guard, history>>

Dies(j) ==
  /\ join[j].at # "idle"
  /\ join' = [join EXCEPT ![j] = NoJoin]
  /\ pull' = [pull EXCEPT ![j] = [t \in Thread |-> Off]]
  /\ guard' = [guard EXCEPT ![j] = "idle"]
  /\ UNCHANGED <<register, journal, peer, hint, joins, history>>

-----------------------------------------------------------------------------
Owning(d) == FindNoOwner(d) \/ GuardClaim(d) \/ EnsureSpace(d) \/ InsertSpace(d) \/ FounderLooks(d) \/ FounderTakes(d)
Joining(j) == AdoptReset(j) \/ KeepPast(j) \/ AimAtSpace(j) \/ Bootstrap(j) \/ JoinDone(j) \/ JoinFails(j) \/ Dies(j)

Next ==
  \/ \E l \in Transfer : ClaimOwner(l[1], l[2])
  \/ \E d \in Capturing : Capture(d)
  \/ \E d \in Device : Owning(d) \/ EndPull(d) \/ RefusedPull(d) \/ LostPull(d)
  \/ \E d \in Founding : Found(d)
  \/ \E l \in Link : BeginPull(l[1], l[2]) \/ SkipPull(l[1], l[2])
  \/ \E d \in Device, t \in Thread : FetchPage(d, t) \/ ApplyPage(d, t)
  \/ \E l \in Phones : Push(l[1], l[2])
  \/ \E j \in Joiner, m \in Device, pour \in BOOLEAN : StartJoin(j, m, pour)
  \/ \E j \in Joiner : Joining(j)

Spec == Init /\ [][Next]_vars

(* The loop pulls every peer again and again; a thread in the middle of a pull *)
(* or of a join goes on, and an outage ends.                                   *)
FairSpec ==
  /\ Spec
  /\ \A d \in Device :
       WF_vars(\/ \E l \in Link : l[1] = d /\ BeginPull(d, l[2])
               \/ FetchPage(d, "loop") \/ ApplyPage(d, "loop") \/ EndPull(d) \/ RefusedPull(d))
  /\ \A j \in Joiner :
       WF_vars(\/ AdoptReset(j) \/ KeepPast(j) \/ AimAtSpace(j) \/ Bootstrap(j)
               \/ FetchPage(j, "join") \/ ApplyPage(j, "join") \/ JoinDone(j))

-----------------------------------------------------------------------------
(* Types. *)
TypeOK ==
  /\ author \in [Stamp -> Device \cup {None}]
  /\ clock \in [Device -> Stamp \cup {0}]
  /\ space \in [Device -> Stamp \cup {0}] /\ owner \in [Device -> Stamp \cup {0}]
  /\ seq \in [Device -> [Row -> Nat]] /\ top \in [Device -> Nat]
  /\ cursor \in [Device -> [Device -> Nat]] /\ floor \in [Device -> Nat]
  /\ hint \in [Device -> Stamp \cup {0}]
  /\ pull \in [Device -> [Thread -> [st : {"off", "ready", "page", "last"}, from : Device \cup {None},
        cur : Nat, row : Row \cup {None}, val : Stamp \cup {0},
        under : Stamp \cup {0}, more : BOOLEAN]]]
  /\ join \in [Device -> [at : {"idle", "reset", "floor", "aim", "bootstrap", "pulling"},
        member : Device \cup {None}, space : Stamp \cup {0}, pour : BOOLEAN]]
  /\ joins \in [Device -> Seq(Device)] /\ \A d \in Device : Len(joins[d]) <= MaxJoin
  /\ guard \in [Device -> {"idle", "claim", "ensure", "insert", "own", "take"}]
  /\ born \in [Device -> Stamp \cup {0}] /\ poured \subseteq Device /\ kept \subseteq Device /\ stray \subseteq Device

(* Two memories that meet on a network mix only through a device caught        *)
(* between two memories: what a device serves was captured in the memory it    *)
(* names, or in none, unless its holder chose to bring it along, or it is a    *)
(* stray (pull_from_peer, require_same_space).                                 *)
StrangersStayApart ==
  \A d \in Device : Expected(d) # 0 =>
    \A c \in Device : seq[d][c] > floor[d] => born[c] \in {0, Expected(d)} \/ c \in poured \/ c \in stray

(* sync_peers.py, line 11: the space identifier, compared before any merge,    *)
(* keeps two memories that are strangers to each other from mixing: a member   *)
(* whose user never typed a code holds no capture of another memory that no    *)
(* joiner chose to bring along.                                                *)
MemoriesNeverMix ==
  \A d \in Device \ Joiner : \A c \in Holds(d) :
    Host[d] # None => born[c] \in {0, space[d]} \/ c \in poured

(* A past that was to stay on its machine never reaches another device,        *)
(* although the peers read its journal right after the join (_apply,           *)
(* _garder_le_passe_ici).                                                      *)
KeptPastStays == \A j \in kept : \A d \in Device \ {j} : seq[d][j] = 0

(* The replicas of the two singletons are registers that only advance, forget  *)
(* at an adoption and never hold a value nobody wrote.                         *)
SpaceRegister == INSTANCE LwwRegister WITH copy <- space, written <- {s \in Stamp : author[s] # None}
OwnerRegister == INSTANCE LwwRegister WITH copy <- owner, written <- {s \in Stamp : author[s] # None}
ReplicasOnlyAdvance == SpaceRegister!ARSpec /\ OwnerRegister!ARSpec

(* A joiner that never read its member before ends up in a space, whatever     *)
(* fails in its bootstrap: the loop takes over with the space it expects       *)
(* (set_joining_space_id, "resumable": pull_from_peer).                        *)
JoinerLeavesLimbo ==
  \A j \in Joiner : (join[j].at = "bootstrap" /\ cursor[j][join[j].member] = 0) ~> space[j] # 0

(* Concurrent claims are settled by the merge (claim_owner), wherever the      *)
(* journals are read: once nobody claims any more, whoever is admitted at a    *)
(* device of its own memory holds that device's claim or a fresher one, a      *)
(* claim of its cycle guard between the reset and the bootstrap of its join    *)
(* included. Two devices that admit each other so end up with one weaver; a    *)
(* member that its joiner does not admit never learns of that claim.           *)
ReadersFollowClaims ==
  <>[](\A l \in Link : LET d == l[1] e == l[2] IN
         Admitted(d, e) /\ space[d] # 0 /\ space[d] = space[e] /\ floor[e] = 0 => owner[d] >= owner[e])

=============================================================================
