------------------------------ MODULE ModelChoice ------------------------------
(***************************************************************************)
(* Where the calls to a model go: to Anthropic, to the engine of this      *)
(* machine, or to the server that the user brings.                         *)
(*                                                                         *)
(* llm_target.py chooses for the calls of the core, one by one;            *)
(* anthropic_client.py makes the client that a cycle keeps for its batch,  *)
(* and that the names of the zones ask for.  Both read the settings again  *)
(* at each test, and the settings change under them (api/app.py).          *)
(*                                                                         *)
(* Left out: the prepaid token, which sends the same call through a proxy, *)
(* the engine itself (EngineSession), the texts.                           *)
(***************************************************************************)
EXTENDS Naturals, FiniteSets

CONSTANTS
  Caller,     \* bound: calls, or runs, at the same time
  MaxChange,  \* bound: settings changed
  None

ChoiceAssumption == MaxChange \in Nat /\ None \notin {"local", "cloud", "endpoint"}

VARIABLES
  choice,    \* llm_mode
  secret,    \* an Anthropic key is configured
  server,    \* an endpoint is configured
  caller,    \* of each caller: what it is, where it is, the modes chosen since it began,
             \* and whether the app was told all along that it could work
  last,      \* history: where the last call went, or that it was refused, with those modes
  changes,
  slipped    \* history: the mode changed between the two tests of one choice

choiceVars == <<choice, secret, server, caller, last, changes, slipped>>

Mode == {"cloud", "local", "endpoint"}
Quiet == [kind |-> "none", at |-> "idle", modes |-> {}, ready |-> FALSE]

\* ready(): what the app is told of tonight's cycle.
Ready(mode, key, complete) ==
  CASE mode = "local" -> TRUE [] mode = "endpoint" -> complete [] OTHER -> key

\* A mode may be left without what it needs: a file that lost a setting.
Init ==
  /\ choice \in Mode /\ secret \in BOOLEAN /\ server \in BOOLEAN
  /\ caller = [c \in Caller |-> Quiet] /\ last = None /\ changes = 0 /\ slipped = FALSE

Goes(c, at) == caller' = [caller EXCEPT ![c].at = at]
Ends(c) == caller' = [caller EXCEPT ![c] = Quiet]
Sent(c, to) == last' = [to |-> to, modes |-> caller[c].modes, ready |-> caller[c].ready]
Refused(c) == Ends(c) /\ IF caller[c].kind = "core" THEN Sent(c, "nowhere") ELSE UNCHANGED last

(***************************************************************************)
(* The settings.                                                           *)
(***************************************************************************)
Become(mode, key, complete) ==
  /\ changes < MaxChange /\ changes' = changes + 1
  /\ choice' = mode /\ secret' = key /\ server' = complete
  /\ caller' = [c \in Caller |-> IF caller[c] = Quiet THEN Quiet ELSE
       [caller[c] EXCEPT !.modes = @ \cup {mode}, !.ready = @ /\ Ready(mode, key, complete)]]
  /\ slipped' = (slipped \/ (mode # choice /\ \E c \in Caller : caller[c].at = "second"))
  /\ UNCHANGED last

\* PUT /config/llm-mode; EngineInstall has the test of the engine.
PutMode(mode) == (mode = "endpoint" => server) /\ Become(mode, secret, server)
\* PUT /config/llm-endpoint, between its two writes.
PutEndpoint == Become(choice, secret, TRUE)
\* A key may be stored in any mode.
PutKey(key) == Become(choice, key, server)

(***************************************************************************)
(* The choice.                                                             *)
(***************************************************************************)
\* A call of the core; a cycle, which wants a client in cloud only; the names of the zones.
Ask(c, kind) ==
  /\ caller[c] = Quiet
  /\ kind = "cycle" => choice = "cloud"
  /\ caller' = [caller EXCEPT ![c] = [kind |-> kind, at |-> "first", modes |-> {choice},
                                           ready |-> Ready(choice, secret, server)]]
  /\ UNCHANGED <<choice, secret, server, last, changes, slipped>>

\* The local mode has its engine for the core, and no client at all.
First(c) ==
  /\ caller[c].at = "first"
  /\ \/ choice = "local" /\ caller[c].kind = "core" /\ Sent(c, "local") /\ Ends(c)
     \/ choice = "local" /\ caller[c].kind # "core" /\ Refused(c)
     \/ choice # "local" /\ Goes(c, "second") /\ UNCHANGED last
  /\ UNCHANGED <<choice, secret, server, changes, slipped>>

\* Without a key there is no call; with one, the core calls and the client is kept.
Anthropic(c) ==
  \/ ~secret /\ Refused(c)
  \/ secret /\ caller[c].kind = "core" /\ Sent(c, "cloud") /\ Ends(c)
  \/ secret /\ caller[c].kind # "core" /\ Goes(c, "client") /\ UNCHANGED last

\* What is neither the local engine nor the user's server is Anthropic.
Second(c) ==
  /\ caller[c].at = "second"
  /\ \/ choice = "endpoint" /\ server /\ caller[c].kind = "core" /\ Sent(c, "endpoint") /\ Ends(c)
     \/ choice = "endpoint" /\ (~server \/ caller[c].kind # "core") /\ Refused(c)
     \/ choice # "endpoint" /\ Anthropic(c)
  /\ UNCHANGED <<choice, secret, server, changes, slipped>>

\* A request of a client: the batch of a cycle, the names; the client lives as long as the run.
Requests(c) ==
  /\ caller[c].at = "client" /\ Sent(c, "cloud")
  /\ UNCHANGED <<choice, secret, server, caller, changes, slipped>>
Closes(c) ==
  /\ caller[c].at = "client" /\ Ends(c)
  /\ UNCHANGED <<choice, secret, server, last, changes, slipped>>

Next ==
  \/ \E mode \in Mode : PutMode(mode)
  \/ PutEndpoint \/ \E key \in BOOLEAN : PutKey(key)
  \/ \E c \in Caller :
       \/ \E kind \in {"core", "cycle", "names"} : Ask(c, kind)
       \/ First(c) \/ Second(c) \/ Requests(c) \/ Closes(c)

Spec == Init /\ [][Next]_choiceVars

-----------------------------------------------------------------------------
TypeOK ==
  /\ choice \in Mode /\ {secret, server, slipped} \subseteq BOOLEAN
  /\ caller \in [Caller -> [kind : {"none", "core", "cycle", "names"},
                            at : {"idle", "first", "second", "client"}, modes : SUBSET Mode, ready : BOOLEAN]]
  /\ last \in {None} \cup [to : Mode \cup {"nowhere"}, modes : SUBSET Mode, ready : BOOLEAN] /\ changes \in 0..MaxChange

\* "En local, AUCUN appel ne sort de la machine, et il n'y a pas de repli vers le cloud", nor
\* from the user's server: unless the mode changes between the two tests of one choice, every
\* call goes where a mode sends it that the user had chosen since its caller began, and no
\* call is refused to whom the app was told all along that the cycle can run.
NothingLeaks ==
  slipped \/ last = None \/ IF last.to = "nowhere" THEN ~last.ready ELSE last.to \in last.modes
=============================================================================
