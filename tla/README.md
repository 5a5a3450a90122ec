# Formal verification of sinam-backend

This directory holds TLA+ models of the sinam backend, the TLC configurations that
model-check them on small instances, and TLAPS proofs about them. The code is the
reference; every definition names, in `PROJECT.json` ("map"), the lines it stands for.

## 1. The system

The backend is the Python host of a personal memory. Captures land in an **inbox**; a
**dream cycle** classifies each one with a language model and routes it, through the Rust
core `sinam_core` (external), into entities, facts, relations, notes and vectors held in one
SQLite database. Several devices replicate that database; one of them, the **owner**, runs
the cycle. Phones and other machines **pair** with the space, receive a token, and **pull**
from one another.

| Part | State it keeps | Operations | Interacts with |
|---|---|---|---|
| Cycle lock and run registry (`api/app.py`) | `cycle.lock` file, `cycle_runs` rows | `cycle_lock`, `dream_cycle_run`, `_finish_run`, `_recover_interrupted_runs` | scheduler thread, HTTP workers, other processes on the same home, ownership guard |
| Dream cycle and inbox (`dream_cycle/cycle.py`, `api/app.py`) | `inbox` rows, derived rows, `summary_stale`, vectors; the locals of a run | `_run_dream_cycle`, `_batch_classify`, `_process_entry`, `step_resummarize`, `step6_vectorize`; capture, requeue, reprocess | core, model, batch API, every endpoint that writes the inbox or a fact |
| Scheduler (`api/app.py`) | consolidation marker file, `_last_digest_check`, `_not_weaving` | `_scheduler_loop`, `_should_consolidate`, `_ensure_weekly_digest` | lock, inbox, ownership |
| Peer synchronisation (`api/sync_peers.py`) | cursors per peer, pins, peer book | `pull`, `pull_all`, `apply_pushed`, `_sync_loop` | replication engine of the core, TLS pins, space guard |
| Space and ownership (`api/sync_peers.py`) | replicated `space` and `owner` records, local device id | `claim_owner`, `ensure_cycle_owner`, `found_space`, `ensure_space` | replication (last writer wins), cycle guard |
| Pairing (`api/pairing.py`) | in-memory offers, codes, requests | `start_offer`, `submit_code_request`, `confirm_code_request`, `submit_request`, `approve`, `deny`, `poll_result`, `adopt_callback` | device tokens, join |
| Joining (`api/join.py`) | the one join in progress | `start_join`, `_run`, `_try_member`, `_apply`, `_adopt_reset` | pairing of a member, pull, ownership |
| Device access (`api/device_tokens.py`, `api/access.py`, `api/app.py`) | token table, master token file, window | `require_auth`, `require_same_space`, `device_patch` | pairing, sync |
| Proposals and entity editing (`api/app.py`, `facts_store.py`, `dream_cycle/validation.py`) | proposal tables, entities, facts, relations | accept, reject, update, delete | cycle, sync |
| Configuration (`config_store.py`) | `config.json` | setters, each a load, a change and a save | everything |
| Local model engine (`moteur_local.py`) | the server process, the installation | `session`, `installer_en_fond`, `desinstaller` | cycle |
| Graph algorithms (`graph_communities.py`, `graph_clusters.py`) | none | community detection, naming | graph endpoint |
| Map and search (`graph_clusters.py`, `graph_layout.py`, `entity_search.py`, `mcp_server/server.py`) | names of zones | filters, zones, outlines, springs, searches | every derived row |
| Identity of a home (`api/tls.py`, `api/access.py`, `api/__main__.py`, `api/discovery.py`) | certificate, key, token file, registry of announced peers | `ensure_cert`, `resolve_token`, announcements | pins of the peers, the app |
| Choice of a model (`llm_target.py`, `anthropic_client.py`) | none | `resolve`, `get_client` | settings, cycle, digest |
| Harness (`scripts/parity`) | none | merge of the two halves, gate, mirrors of the core | says whether a model may classify |
| Digest, decay, MCP server, database access | small or none | see `PROJECT.json` | |

### What is hard

* **Interleaving**: HTTP workers, the scheduler, the sync loop, join and installer threads
  share the database, `config.json` and module globals, most of it without a lock. Checks and
  the writes they guard are often two statements.
* **Failure and restart**: the process may die while it holds the lock file, between two
  captures, between the re-summary and the vectorization, between two pages of a pull.
* **Time**: a lock judged by its age, offers and codes that expire, a batch polled for an hour.
* **Replication**: last writer wins on ownership and space, clocks of several devices, pulls
  that repeat or lose pages.

`PROJECT.json` ("hazards") lists each one at the line where it bites, with the properties that
watch it; a note says what of it they do not cover, which is often that the code does go wrong
there.

### What makes each part correct

What a careful reader would ask of each part; section 6 says where the code does not have it.

* **Lock**: two locked runs do not weave at once; a dead run frees the lock in the end; a live
  run is never reported as interrupted.
* **Cycle and inbox**: a capture is woven exactly once per acceptance, never half classified,
  never consumed without being woven, and in the end woven; edits reach summaries.
* **Pairing**: the secrets of a space leave once, to a joiner the user approved, sealed so that
  this joiner can open them; a code missed too often takes no new request.
* **Merges**: nothing disappears behind a tombstone, and an accepted merge lasts.
* **Device access**: the common token stops working only when every device has its own, and
  revocation is final for the device's own token.
* **Space, ownership, join, sync**: one space per memory, one weaver per space, a joiner ends
  with everything the members have, cursors never skip rows.
* **Scheduler**: every day's consolidation happens once, and the valve does not starve it.
* **Proposals**: an answer is given once and acts on what the user saw.
* **Notes, relations, project entries**: a question gets one answer, and each row stays in its
  place, whatever gestures, answers and merges cross one another.
* **Configuration**: a setter that does not overlap another loses nothing, wherever the process
  dies; no call leaves the machine that the user keeps local.
* **Local model engine**: what is said installed is whole; the server is stopped only when no
  session uses it.
* **Identity**: what the peers pinned is what every later start serves.
* **Map and search**: filters leave no edge to nothing, communities only get better, nothing
  nearer is left out.

## 2. How the project is laid out

One module per component, its parameters as CONSTANTS with a named assumption, one action per
operation, no RECURSIVE operator. An abstract module where a component promises something that
can be said without its mechanism, and a `_proofs` module where something is proved.

| Module | Component | Implements | Checked by | Proved |
|---|---|---|---|---|
| `CycleLock` | lock and run registry | | `lock`, `lock_takeover` | yes |
| `DreamCycle` | dream cycle and inbox | `CaptureLedger` | `cycle_*` | yes |
| `Pairing` | the member's side of a pairing | `Invitation` | `pairing` | yes |
| `EntityMerge` | merges against requests that name an entity | | `merge` | yes |
| `Mesh` | spaces, ownership, pulls, joins | `LwwRegister`, twice | `mesh_apart`, `mesh_mix`, `mesh_live` | yes |
| `Scheduler` | the loop of the backend | | `scheduler` | yes |
| `ConfigStore`, `ModelChoice` | settings, where a call goes | | `host` | in `Host_proofs` |
| `EngineInstall`, `EngineSession` | local engine | | `host` | in `Host_proofs` |
| `DeviceAccess`, `Identity` | tokens, certificate, token file | | `host` | in `Host_proofs` |
| `JoinSearch`, `PeerPull` | the search for a member, reading a peer | | `host` | in `Host_proofs` |
| `Review`, `Desk` | answers to the core, gestures on derived rows, views | | `host` | in `Host_proofs` |
| `Louvain` | communities of the map | | `host` | in `Host_proofs`, with `Sums` |
| `LivingMap`, `Recall`, `ParityGate` | map, searches, harness: functions | | `host` (assumptions of `MCFunctions`) | no |

Composition. `Mesh` composes the replication of several devices with ownership and the joins
(`api/sync_peers.py`, `api/join.py`); `Scheduler` takes from `CycleLock` and `DreamCycle` that one
run at a time takes what was queued when it began; `JoinSearch` ends where the payload is applied,
and `Mesh` begins there; `PeerPull` has the links that `Mesh` takes for granted; `DeviceAccess`
has the tokens that `Pairing` seals.

`Host` puts the parts of one backend that share no variable side by side, for one run and one
proof module; `MCHost`, like every `MC` module, only gives the constants their small values.

`Sums` holds no model: it has the lemmas on finite sums, and on graphs whose nodes are put
together, that the proof about `Louvain` needs.

Left for later: proofs about the functions of `LivingMap`, `Recall` and `ParityGate`.

## 3. What models what

### CycleLock

`pc[t]` is where a thread is in `dream_cycle_run`: `idle`, `unlinking` and `opening` inside
`cycle_lock` before the file is created, `entered` to `releasing` in the `with` block.
`lockBy`/`lockAge` are the lock file, `row` and `orphan` the `cycle_runs` rows, `boot` the
startup of a backend. Each statement another process can observe is an action: the age test
(`Begin`), the unlink (`UnlinkStale`), the exclusive open (`Acquire`, `Refuse`), the row
(`InsertRow`, `FinishRow`, `DbError`), `finally` (`Release`). `Startup` and `Recover` are the two
halves of `_recover_interrupted_runs`. `tainted` is a history variable: a lock file has outlived
the limit and the runs that may have met it are not all over. `late` is another: the runs that took
the lock while a startup, having found none, was about to rewrite the rows. `elapsed` is the time
since a thread took the lock, from the creation of the file on. Lock-free cycles (`mcp_server`,
`python -m dream_cycle`) are `OutsideStarts`/`OutsideEnds`; they only show that the lock ignores
them. Time is a `Tick` shared by all clocks.

### CaptureLedger and DreamCycle

`inbox[c]` is the status column, `derived[c]` the number of sets of derived rows, the rest of
the variables the locals of `_run_dream_cycle`. `Start` takes the snapshot, `BatchClassify`
gives each capture any subset of its two halves, `Classify`/`Route` are one turn of the loop
(routing is one transaction of the core), then `Validate`, `Resummarize`, `Vectorize`, `Report`.
`Abort` is any exception, `Kill` the death of the process. `Post`, `Requeue`, `Reprocess`,
`EditFact` are the endpoints, enabled at every step of a run. `Arrive` is a page of another device
that brings a woven capture, under whatever runs are at work. `Outside` are the cycles of the MCP
tool and the command line, which ask for no lock. `twins` remembers the captures that two runs or
two devices had to weave at once, `marked` those that became processed while a run worked, whoever
marked them. `Vectorize` may skip any entity, as the core does without a word, and a run may abort
before it: nothing says that a vector follows its summary. `CaptureLedger` is the promise made to
the user: absent, waiting, refused, woven. The mapping is the definition `ledger`; a capture woven
twice maps outside the abstract states unless it is a twin, so the refinement also says that this
never happens otherwise.

### Invitation and Pairing

Offers and codes are numbered; a key is represented by the offer or code it comes from, so a
payload opens when `used[r] = key[r]`. `Legacy` joiners do not name the offer they scanned.
`_prune` runs at the head of every handler, so an entry past its time is absent: guards say
`Live`. `PollApproved` hands the payload out, whether or not the answer arrives. `Restart` loses
everything, for all of it is in memory. `Invitation` is the abstract life of one request.
`MCPairing` has the joiners that scan and those that type in one run: `joiners` says which.
`misses` counts, per code, the confirmations that failed, whether or not the code was still shown.

### EntityMerge

`merged`, `home`, `from`/`to`, `project` are columns; `doing[h]` is what a handler has read and
not yet written. Handlers whose reads decide what they write are a `Check` and a `Commit`
(accept, reject, relation, attach, reclassify); handlers whose single statement finds its rows
again are one action (move, detach, reprocess, delete). The core's own writes (routing, a
validated fact, a merge proposal) are atomic and land on survivors only; that is how the host
relies on it. `staleId` is a history variable: some transaction acted on an entity absorbed
before it, which the code does not test.

### LwwRegister and Mesh

`space` and `owner` hold, at each device, the stamp of its copy of the replicated singleton; the
stamp of a founding is also the identity of the space. Every other row is one capture per device.
`seq[d][r]` is the journal of `d`, `cursor[d][e]` how far `d` has read that of `e`, `floor[d]` the
`partage_plancher` under which it serves nothing. `Host[d]` says whose memory a device is in at
the start, `Lived` who has captured before it. A pull is `BeginPull`, then `FetchPage`/`ApplyPage`
one row at a time, `EndPull`; it is skipped (`SkipPull`), refused (`RefusedPull`) or lost
(`LostPull`) where the code returns early or raises, and a page may be merged without its cursor
being written. `Push` is the phone. A join is `StartJoin`, `AdoptReset`, `KeepPast`, `AimAtSpace`,
`Bootstrap`, `JoinDone`, or `JoinFails`/`Dies`. The cycle guard is `FindNoOwner`, `GuardClaim`,
`EnsureSpace`, `InsertSpace`; `Found` is `POST /space`. The journal, the stamps and the merge are
the core's (external), modelled from what the host relies on. `Admitted(d, e)` says whose token
opens `e` to `d`: each install has its own, a joiner adopts that of its member and the member none
of the joiner's, so that a member is refused when it reads the device it let in, unless
`SharedToken`. `LwwRegister` is what a replicated singleton promises, implemented twice by `Mesh`.

Four history variables say where a capture was made and what its holder chose: `born`, `poured`
(brought along), `kept` (to stay), and `stray`: it changed memory although nobody chose it. A
capture strays when rows sent under one memory are applied under another (`Crosses`, `Under`), or
when a device that holds rows of one memory comes to name another (`Carries`). The code compares
the memories when a page leaves and not when it is applied; `StrangersStayApart` says that this
gap is the only one.

### Scheduler

`at` is where `_scheduler_loop` is; `due` is "the marker is older than the last scheduled hour",
`hour` "an hour has passed since `_last_digest_check`". `SetFrequency` may move the last scheduled
hour, back to one that a pass has served or on to one that none has. The end of a run and the
touch of the marker are two steps (`End`, `Mark`); a run may be aborted, refused by the owner or
by the lock, or die. `holder` is the device that owns the cycle, `manual` the runs a user started,
which touch no marker. `overdue` remembers the captures that waited when an hour passed;
`straddled` and `skipped` name the one exception, an hour that passes inside a run.

### The parts of one backend: Host

These components share no variable. Each is a module; `Host` instantiates them side by side, and a
behaviour is one of one of them (`part`), the variables of the others having no value.

* `ConfigStore`: a setter is `Begin` (load and change), `OpenTmp` (truncates), `WriteTmp`,
  `Replace`; names refer to inodes, for two writers share the temporary name. `overlapped`: a
  setter began inside another, which may then lose or tear settings. `forced`: the launcher chose
  the page switch, which the file then does not override.
* `ModelChoice`: `resolve` and `get_client` as the two tests they make (`First`, `Second`) while
  `PutMode`, `PutEndpoint` and `PutKey` go on. `slipped`: the mode changed between the two.
* `EngineInstall`: the pieces, their archives and `installe.json` on the disk; download,
  extraction beside, swap, record; the handlers that choose local mode or remove the engine as
  check and write. `overrun`: removed under a thread that installs it. `replaced`: an installed
  engine is being replaced, or that was broken off ("engine"), or archives of another version were
  there ("rests"). `crossed`: the two handlers that keep mode and engine together overlapped.
* `EngineSession`: sessions of one process under its lock, the port shared by all processes.
  `disturbed`: two processes had sessions at once, or an engine fell by itself.
* `DeviceAccess`: tokens issued, adopted and sent back, the registry that replicates,
  revocation, and `require_auth` as `Enters`. `link` is the member of the last pairing.
* `Identity`: certificate and key as two writes, the token file as open and write; `torn`,
  `raced`, `doubled`: a death or a full disk inside the write of the certificate, two first
  starts at once, a token made beside another or not written.
* `JoinSearch`: the thread of `start_join` over its candidates and its requests as the members
  hold them; `unheard`: the member accepted the proof and the answer was lost.
* `PeerPull`: announcements, resolution, the probe, the pin, `/sync/status`, a page, the cursor,
  the re-embedding, each a step between which an address may change hands or the process die;
  `forgotten` (`lost` in the module): the re-embeddings such a failure cancels.
* `Review`: the five kinds of questions and the edits, as `Check` and `Commit`; `owed` (edited
  since the summary was regenerated), `borne` (names to answer to), `outdated` (a transaction
  wrote from a row changed since it was read).
* `Desk`: relations, notes, pending facts, project entries, offers to attach; the views are the
  operators under "What is shown". `verdicts` and `fate` remember the answers to each question and
  what became of each entry id. `crossed`: an entry that another request changed between a read and
  the write, a relation written after one of its ends was absorbed.
* `Louvain`: one visit, one pass, one level at a time, with the running totals of the code;
  weights are integers and gains scaled by `2 m^2`, so that comparisons are exact.

`LivingMap`, `Recall` and `ParityGate` have no state: they are operators of their arguments, and
`MCFunctions` states, as assumptions that TLC evaluates on all small arguments, that filters keep
their word, that a zone bears a name given for its own entities, that an outline is one, that a
search gives the nearest, that the springs do not depend on the order of the rows, that the gate
of the harness is fair, that the loss of one half takes nothing of the other, that the mirrored
gates are ordered, and that a bare day lands on the side its kind opens.

**History variables** such as `overlapped` or `outdated` name the condition the code does not
exclude and under which a property fails; the property is stated for the behaviours without it.
They are how the README can say which overlap each guarantee needs; what happens under them is in
section 6.

## 4. Runs

| Run | Instance | What it shows |
|---|---|---|
| `lock` | 2 backends of one home with a thread each (one retries for ever), 1 lock-free cycle, limit 1, runs up to 2, 1 crash | overlap only after a lock outlived its limit; the startup of one backend marks a weaving run of the other only past that or if the run took the lock between its look and its UPDATE; an abandoned lock never blocks for good |
| `lock_takeover` (violation) | 1 backend, 2 threads, limit 2, no thread keeps the lock longer than 1, 1 crash | a death leaves a file that goes stale; two threads find it so, and the second unlinks the fresh lock of the first |
| `cycle_safety` | 2 captures, a locked run and one that takes no lock, 1 replay, 1 capture that arrives woven | exactly once but for what two had to weave at once, never half, none consumed unwoven, no claim above what was marked meanwhile, and the ledger is implemented |
| `cycle_live` | 2 captures, 2 replays, 1 arrival, 1 death, aborts at every step | every capture is woven, every edit reaches the summary |
| `cycle_poison` (violation) | 2 captures, the oldest rejected by the classifier | the second is never woven |
| `pairing` | 2 offers, 2 scanning joiners and 1 legacy; or 3 joiners by code, 2 codes, 2 attempts; lifetime 1, restarts | payloads open and leave once, to the approved; a code missed twice takes no new request, and each further miss uses up one that was open; the invitation is implemented |
| `merge` | 3 entities in a chain of 2 proposals, 1 fact, 1 relation, 2 entries, 2 handlers | facts, relations and redirections are lost only through stale ids; accepted merges last |
| `mesh_apart` | a member, and two devices of another memory, one of which leaves it for that of the first; lossy pulls, a phone, 3 stamps, 1 join | memories mix only through strays, a kept past stays, replicas are registers |
| `mesh_mix` (violation) | the same | a capture of the old memory reaches the new one through the device that changes |
| `mesh_live` | a member and a device that lived alone, each with its own token, both pulling, 3 stamps, 2 joins with their failures | the joiner ends in a space; whoever is admitted at a device of its memory ends with its claim or a fresher one |
| `scheduler` | 2 captures, valve at 2, another device that may own the cycle, 1 outage, 1 restart, 1 other frequency | a missed hour stays owed, captures are woven, a week with content gets its digest |
| `host` | the parts above, each on its own instance | one property per part, and the functions on small arguments |

**Why the bounds are enough.** Two threads are what it takes to overlap, and a limit shorter than
the longest run reproduces the code's 1800 s against a 3600 s batch poll. Two backends are a run
and a startup that must leave it alone. Two captures give a run one that is routed and one that
waits, and make the batch possible; a locked run and one outside are what it takes to weave one
capture twice, and a replay and an arrival can fall before, between or after their steps. Two
offers make "the newest" differ from "the one scanned"; two codes and three joiners make a miss
reach a code that was replaced, and exhaust two attempts with a joiner left. A chain of two merges
over three entities is the shortest in which the survivor of one is the absorbed side of the
other; two handlers are what a check and a commit need to be separated. Three devices are a
member, a joiner and a stranger; three stamps are two foundings and the claim that outranks them.
In `host`, two requests, two pulls or two searches overlap; two pieces leave an engine half
installed; three sessions in two processes give overlapping sessions within one process and across
two; two certificates and two tokens make a start differ from the next; five nodes give Louvain a
second level; one address for two peers is one that changes hands; pages of one row make a failure
fall between two pages.

Names of bounds: `MaxCrash`, `MaxRun`, `MaxReprocess`, `MaxKill`, `NOffer`, `NCode`, `NCapture`,
`MaxArrive`, `MaxStamp`, `MaxJoin`, `MaxOutage`, `MaxRestart`, `MaxSwitch`, `MaxVersion`,
`MaxDeath`, `MaxIssue`, `MaxRequest`, `MaxPull`, `MaxMove`, `MaxSearch`, `MaxPair`, `MaxToken`,
`MaxChange`, `Slot`, and the sizes of `Handler`, `Thread`, `Puller` and `Caller`.

**Symmetry** is used for interchangeable names only, in runs without liveness: joiners, requests,
pulls; in `merge` also for the mirror image of the chain, which maps the two proposals on one
another.

**Deadlock** is checked in every run but `host`, whose parts are finite: a map gets its zones, the
bounded requests have all been served, and nothing is left to do.

**Fairness.** `CycleLock!FairSpec`: time passes, a thread in the middle of a run goes on, the
scheduler thread, which looks every 30 s, comes back (it does so only while work is queued; the
model assumes it is), and a dead backend is started again. Crashes, database errors and the
other threads owe nothing. `DreamCycle!FairSpec`: weak fairness of starting a run (the scheduler
again), strong fairness of the steps that call the model or the network, because each of them may
be interrupted by `Abort` for ever otherwise: what it says is that an outage ends. Reprocessing is
bounded by `MaxReprocess`, for a user who replays for ever is served for ever.
`Mesh!FairSpec`: `_sync_loop` pulls its peers again and again, and the thread of a join goes on;
captures, foundings, claims and joins are never owed. `mesh_live` has no lossy pull of the loop,
an outage being over in the end; the pull of the join may fail at each step. `Scheduler!FairSpec`:
the loop never stops, a run ends, hours pass; outages are bounded by `MaxOutage`, and changes of
frequency by `MaxSwitch`, for who moves the hours for ever may miss them all.

## 5. Proofs

| Module | Theorems | Argument |
|---|---|---|
| `CycleLock_proofs` | `TypeCorrect`, `LockExcludes`, `RecoverySparesLiveRuns` | as long as no lock file outlived the limit, whoever is inside owns the file and nobody is between the age test and the unlink; a startup goes on to rewrite the rows only if it found no fresh lock, so whoever weaves by then took the lock since (`late`) or holds one that was outlived. Any number of backends |
| `DreamCycle_proofs` | `TypeCorrect`, `ExactlyOnce`, `NoHalfWoven`, `MarkedIsWoven`, `ClaimsAreEarned`, `LedgerRefinement` | while no other run and no arrival has had it, a capture still to process was queued at the start and only the run takes it out, so a route meets a queued capture without derived rows (`UnroutedStaysQueued`, in `WeaveInv`); the others are twins. What a run holds of a classification is nothing or both halves, and a capture is marked in the transaction that derives its rows, with or without exclusion. The count of the processed captures grows by what was marked since the run began at most, whoever marked it (`CountInv`) |
| `Pairing_proofs` | `TypeCorrect`, `ReceivedOpens`, `SecretsLeaveOnce`, `OpenTriesAreLast`, `PairingImplementsInvitation` | keys agree for those who name their offer or passed the confirmation; a payload that left settles its request; the misses of the displayed code are at most its counter, so a code with as many misses as allowed is no longer shown, and a request is opened under the displayed code only |
| `EntityMerge_proofs` | `TypeCorrect`, `NothingHidden`, `AcceptedMergesLast` | a handler that accepts holds the two sides of its proposal; a merge of two survivors adds one redirection and overwrites none, so no circle closes and no set that merges left whole is divided |
| `Scheduler_proofs` | `TypeCorrect`, `SlotsAreRecovered` | `PassInv`: a run of the loop has taken everything that waited when the hour passed, unless the hour passed inside it, and at its end none of it waits |
| `Mesh_proofs` | `TypeCorrect`, `ReplicasAreRegisters`, `PastStays`, `StrangersApart` | see below |
| `Host_proofs` | one theorem for each property of `host` | see below |
| `Sums` | lemmas only | a sum is a fold that chooses an element at a time; by induction on the subsets of a finite set it does not depend on the choice, so it can be split, renamed and taken row by row |

**Mesh.** `TypeInv` adds to the types what the steps of a pull use: one that is under way has a
peer, an answer has a row. A replica that writes takes a stamp above its clock, and one that merges
takes a stamp that was written and is above its own (`WrittenInv`): both are steps of the register.
No journal has a number above its last one (`NumberInv`), so that a floor laid there covers every
row; a kept capture is under the floor of its author, and no other journal and no answer on its way
has it (`KeptInv`), so that the only device that could serve it does not. `MemoryInv` says of the
rows a device serves, and of the rows in an answer given under the name of a memory, that they
belong to that memory; it has to speak of the joiner that names none, which holds above its floor
what will be poured, or nothing. The theorems hold for any devices, any memories at the start, any
links, phones, joiners and founders. `RoomAssumption` says that the founders of the start have
stamps of their own.

**Host.** Each proof shows that the part it is about takes its own steps or none (`PullAlone`,
`DeskAlone`, ...), then that its invariant is inductive:

* `ChoiceInv`: the mode of now is among those a choice has seen, so a second test that finds
  another one has been crossed by a change.
* `ConfigInv`: unless setters overlapped, the one at work read what was acknowledged, its temporary
  file is another inode than the file of the settings, and holds what it read with its change.
* `InstallInv`: unless an engine was removed under a thread, one thread installs; unless it
  installs over remains, the archives are of its version and the pieces behind it are in place. An
  engine that local mode counts on stays while no check and removal cross.
* `SessionInv`: the level of a process is the number of its open sessions, a session that starts
  holds the lock of its process and finds no other; undisturbed, the open ones are of one process.
* `AccessInv`: what a joiner adopts is the install token of its member or one that member issued to
  it, and issued tokens are never install tokens.
* `ReviewInv`: what a request under way edits is an entity; the two properties are then inductive.
* `DeskInv`: what rows refer to is born and stays so, an offer is pending only while no entry has
  its capture; the facts of a question are as many as its yes answers, one at most, and none while
  it is asked. An entry id that was written is an entry or a fact until it is detached; one that no
  two requests crossed is one of them, once. Confirmed relations that were not crossed, and the
  mentions of notes, are on living entities (`Living`), because a merge brings over those of the
  entity it absorbs and a request that reads rows writes none of them.
* `PullInv`: a pull that reads pages knows its peer for a member by its certificate, and the rows
  before its place are merged.
* `JoinInv`: the one thread works for the last search; members it has not come to have no request
  of it, those it left hold none alive unless its proof went unheard, and a search is applied only
  by a payload a member gave.
* `HomeInv`: unless two processes made a pair at once, the certificate is written after its key and
  for it, and what was pinned is the certificate of the home; unless two requests made a token at
  once, none but the one in the file was accepted.
* `TypesKept`: the types of each part, with the invariants above where they are needed. A setter
  finds a free inode because each request holds one at most (`InodeForAll`), and a handler answers a
  question of the kind it checked (`ReviewTyped`): without this the types are not inductive.
* `ZonesInv`: the level at work is the map with the rows and columns of its matrix added up by
  `membership` (`Collapses`), and `stot` is, for each community, the sum of the degrees of its
  nodes. The modularity of the map is then the excess of the level's weights over what its degrees
  let expect, summed within the communities (`ModularityOfLevel`); a node that changes community
  changes that sum by twice its gain (`MoveGain`, `BestGains`), and the end of a level collapses it
  once more (`CollapsesTwice`), which changes nothing.

Assumptions are the named ASSUMEs of the modules, which TLC evaluates in the runs; the pool of
requests is finite, a capture has one row of the desk to name it, and `None` is no row. Acyclicity
is stated without recursion: every non-empty set of entities has a member whose redirection leaves
the set. The conjuncts of the invariants are named operators at the head of each proof or part.

**Only model-checked.** All liveness (`LockKeepsBeingGranted`, `QueuedGetsWoven`,
`EditReachesSummary`, `JoinerLeavesLimbo`, `ReadersFollowClaims`, `CapturesAreWoven`,
`DigestAppears`), which is out of the prover's reach; and the functions of `LivingMap`, `Recall` and
`ParityGate`, on small arguments.

## 6. What the models found

Three disagreements between the code and what the repository says of it are runs of their own and
are quoted in `PROJECT.json` ("findings"): the takeover of a stale lock, the content error that
ends a run instead of marking its entry, and the joiner that names no memory between its reset and
its aim, through which a capture of the old memory reaches the new one.

Seen while modelling, and left out of that list:

*Cycle.*
* A batch that is polled longer than 1800 s loses its lock to the next run (`ExclusiveUnlessStale`
  is the guarantee that remains). The MCP tool and the command line run a cycle outside the lock
  and the ownership guard. A restart within 1800 s of a crash leaves a phantom `running` row
  (app.py:291); a backend that starts while another begins a run marks it as interrupted, the look
  at the lock and the UPDATE being two steps.
* A locked run and a lock-free one that hold the same capture both weave it, and so do a run and a
  page that brings the capture woven by the former owner. `notes_processed` counts what others
  marked meanwhile (app.py:3520), and may be negative after a replay.
* A cut between the re-summary and the vectorization leaves vectors older than the summaries
  (cycle.py:529), and so does an entity that cannot be embedded, which is skipped without a word
  (cycle.py:305); an aborted run loses its list of facts to validate (cycle.py:515).
* A scheduled hour that passes inside a run skips the captures that arrived meanwhile; another
  frequency may cancel a missed hour, its own last one having been served (app.py:112); the
  "not weaving" mark is lifted only by a successful automatic run.

*Pairing, tokens, identity.*
* "3 online attempts max" (app.py:1089, pairing.py:49) holds of the code displayed only: requests
  opened under it stay confirmable once it is down (pairing.py:219), so that a code can be missed
  three times and once more for each request that was open beside. A late miss under a previous
  code counts against the fresh one (pairing.py:230).
* A joined desktop refuses the install token of its member once it has adopted its own
  (app.py:424-426); a token is known only to the backend that issued it; a payload lost after the
  issue closes the migration window all the same; re-pairing cannot refresh a pin that a joiner
  has stored.
* A lost `confirm` answer leaves the member's user with a request nobody waits for; a lost
  payload shows the joiner "expired" though the member approved.
* A death or a full disk inside the write of the certificate leaves two files that no later start
  can load (tls.py:76, 118), and two first starts may leave a mismatched pair; the first two
  requests of a fresh home may each make a token, so that the file holds another than the one
  that opens until the restart (access.py:58).

*Mesh.*
* A member holds no token of the device it let in (pairing.py:457, app.py:424), so its own pulls of
  that device are refused: a claim made there between the reset and the bootstrap of the join, or
  later, never reaches the member, and both go on weaving. The claim of the member reaches the
  joiner.
* The cycle guard between the reset of a join and its bootstrap can claim and found a rival space
  (sync_peers.py:247). A claim between `_adopt_reset` and `_garder_le_passe_ici` falls under the
  floor: two weavers for good. Cursors survive the reset (sync_peers.py:548), so that a member
  already read never sends its space and owner again, and a join ends "done" although its
  bootstrap was skipped. A page of the old space in flight may install its row again.
* `_SELF_SPACE_ID` is cached at its first use: a device that joins another space announces the
  old one until it restarts, and members skip it until then (sync_peers.py:700).
* A failure between pages forgets the notes to re-embed though the cursor has moved. A resolution
  that ends after `Removed` puts a ghost back.

*Proposals, fiche and desk.*
* A merge moves no project entry, no resource and no alias of the absorbed side, and flags no
  summary (app.py:2124). A proposal with a side already absorbed can be accepted: facts then
  follow onto a tombstone, or redirections turn in a circle (`staleId`). Answering it twice at the
  same time lets both answers through. Its card lists archived and obsolete facts.
* A rename to the same name in another case is marked accepted and not applied; renames leave the
  mentions of notes under the old name. A negation flags the entity of the question, not the one
  the fact moved to, and cannot be accepted once its entity is absorbed. A rejection checked
  before an acceptance overwrites "accepted" (app.py:2233) or archives an accepted candidate.
* Attaching then moving, promoting or accepting twice, or two attaches that overlap, give two
  entries to one (project, capture) despite app.py:3083; two reclassifications of one entry make
  two facts, and one that crosses a detachment a fact of what was detached.
* A relation created while one of its ends is merged away hangs on the tombstone, where no fiche and
  no map shows it (app.py:3294). A fact attached to an absorbed row, which a reclassification
  accepts, is on no fiche; the entries of an absorbed project are on no list, though its address
  opens. Creating, confirming or deleting a relation flags no summary, though the re-summary reads
  the relations (cycle.py:280).
* `GET /changes` with `since` never ships an edited fact or note again, compares dates with a
  space to a cursor with a `T`, and misses rows committed between the reads and the cursor.
* For an MCP client, a name that was absorbed opens the tombstone without its facts; `get_entity`
  and the text fallback of the search show archived, obsolete and pending rows, relations that
  await validation among them, against ARCHITECTURE.md:195; `list_recent`
  lists woven captures too; a search reactivates hits it does not show, and a vector without its
  note takes the place of one.

*Settings and engine.*
* Two overlapping setters lose a setting or leave a file that reads as empty: cloud mode
  (config_store.py:53-62), and with a key in the environment captures then leave the machine.
* `resolve()` and `get_client` read the mode twice: a change from the endpoint to local in
  between sends that call to Anthropic (llm_target.py:89-91); a run started in cloud mode keeps
  its batch client after the switch.
* An engine that outlives its process is reused and never stopped; a session of another process
  can have its engine stopped; a reinstallation keeps the record of the old engine until its last
  piece, so that one broken off between two pieces passes for installed with a piece missing or of
  another version; an archive left by another version is taken for the piece, its existence being
  all that is tested; a removal during an installation, or between the test and the choice of local
  mode (app.py:747), leaves the mode without its engine.

*Harness.*
* An event or a task dated today is moved to the next month (score.py:374); the gate counts as a
  durable trace less than the core keeps (gate.py:97-103 against score.py:186-211).

## 7. Not modelled

The Rust core (classification, routing, replication engine, decay), the language models and
SQLite are external: the modules state what the host relies on (a routed capture commits in one
transaction; the core resolves names to survivors; a merge of rows is idempotent). Left out where
a component is only partly modelled: texts, prompts, dates and strengths of memories, the
positions of the map and the similarities of vectors, which are arithmetic on reals; the mDNS
records and local addresses; the form of the MCP answers; read-only status endpoints; in
`scripts/`, the quality axes, the providers, the corpora, the labelling pages and the training.
`tests/` were read for what the code promises. Every part is listed with its status in
`PROJECT.json` ("components").
