---------------------------- MODULE EngineSession ----------------------------
(***************************************************************************)
(* moteur_local.session: the engine runs for the time of a cycle or of a   *)
(* digest, and is stopped after it (llm mode "local").                     *)
(*                                                                         *)
(* Sessions of one process count each other under _session_verrou.  The    *)
(* API, the MCP server and the command line are processes of their own,    *)
(* and all speak to one port: what answers there may be an engine another  *)
(* process has spawned, one a developer started by hand, or one that       *)
(* outlived the process that spawned it.                                   *)
(***************************************************************************)
EXTENDS Naturals, FiniteSets

CONSTANTS
  Process,   \* the processes
  User,      \* their threads that open sessions
  Home,      \* the process of each thread
  MaxDeath,  \* bound: deaths of a process
  Nobody

SessionAssumption ==
  Home \in [User -> Process] /\ MaxDeath \in Nat /\ Nobody \notin User

VARIABLES
  session,   \* where each thread is: out, starting (inside _demarrer) or in
  verrou,    \* who holds _session_verrou
  niveau,    \* _session_niveau
  proc,      \* _session_proc is an engine to stop, in each process
  engine,    \* the engine each process has spawned: none, loading or serving
  stray,     \* the engine nobody here has a handle on
  perished,  \* deaths so far
  disturbed  \* history: since a session opened, two processes had sessions at once, or an engine fell by itself

sessionVars == <<session, verrou, niveau, proc, engine, stray, perished, disturbed>>

Of(p) == {u \in User : Home[u] = p}
Open == {u \in User : session[u] # "out"}

\* _pret: something answers on the port.
Served == stray = "serving" \/ \E p \in Process : engine[p] = "serving"

\* What a session opened by u, or left by the last one, does to the history.
Disturbed(open, extra) ==
  disturbed' = /\ open # {}
               /\ disturbed \/ extra \/ \E u, v \in open : Home[u] # Home[v]

Init ==
  /\ session = [u \in User |-> "out"]
  /\ verrou = [p \in Process |-> Nobody]
  /\ niveau = [p \in Process |-> 0]
  /\ proc = [p \in Process |-> FALSE]
  /\ engine = [p \in Process |-> "none"]
  /\ stray = "none" /\ perished = 0 /\ disturbed = FALSE

\* The session joins the ones of its process, or takes what answers.
Join(u) ==
  LET p == Home[u] IN
  /\ session[u] = "out" /\ verrou[p] = Nobody
  /\ niveau[p] > 0 \/ Served
  /\ session' = [session EXCEPT ![u] = "in"]
  /\ niveau' = [niveau EXCEPT ![p] = @ + 1]
  /\ proc' = IF niveau[p] = 0 THEN [proc EXCEPT ![p] = FALSE] ELSE proc
  /\ Disturbed(Open \cup {u}, ~Served)
  /\ UNCHANGED <<verrou, engine, stray, perished>>

\* The first session of a process launches the engine, and keeps the lock.
\* (With no engine installed it raises ConnectionError and changes nothing.)
Launch(u) ==
  LET p == Home[u] IN
  /\ session[u] = "out" /\ verrou[p] = Nobody
  /\ niveau[p] = 0 /\ ~Served
  /\ session' = [session EXCEPT ![u] = "starting"]
  /\ verrou' = [verrou EXCEPT ![p] = u]
  /\ engine' = [engine EXCEPT ![p] = "loading"]
  /\ Disturbed(Open \cup {u}, FALSE)
  /\ UNCHANGED <<niveau, proc, stray, perished>>

\* The process it spawned runs, and something answers: the session is open.
Started(u) ==
  LET p == Home[u] IN
  /\ session[u] = "starting"
  /\ engine[p] # "none" /\ Served
  /\ session' = [session EXCEPT ![u] = "in"]
  /\ verrou' = [verrou EXCEPT ![p] = Nobody]
  /\ niveau' = [niveau EXCEPT ![p] = 1]
  /\ proc' = [proc EXCEPT ![p] = TRUE]
  /\ UNCHANGED <<engine, stray, perished, disturbed>>

\* It ended by itself, or did not answer for DEMARRAGE_MAX_S and is killed:
\* ConnectionError.
NotStarted(u) ==
  LET p == Home[u] IN
  /\ session[u] = "starting"
  /\ engine[p] = "none" \/ ~Served
  /\ session' = [session EXCEPT ![u] = "out"]
  /\ verrou' = [verrou EXCEPT ![p] = Nobody]
  /\ engine' = [engine EXCEPT ![p] = "none"]
  /\ Disturbed(Open \ {u}, FALSE)
  /\ UNCHANGED <<niveau, proc, stray, perished>>

\* Windows: the engine that fell is tried again without the graphics card.
Retry(u) ==
  LET p == Home[u] IN
  /\ session[u] = "starting" /\ ~Served
  /\ engine' = [engine EXCEPT ![p] = "loading"]
  /\ UNCHANGED <<session, verrou, niveau, proc, stray, perished, disturbed>>

\* Mutant: every session that ends stops the engine.
LeaveStopping(u) ==
  LET p == Home[u] IN
  /\ session[u] = "in" /\ verrou[p] = Nobody
  /\ session' = [session EXCEPT ![u] = "out"]
  /\ niveau' = [niveau EXCEPT ![p] = @ - 1]
  /\ engine' = [engine EXCEPT ![p] = "none"]
  /\ proc' = [proc EXCEPT ![p] = FALSE]
  /\ Disturbed(Open \ {u}, FALSE)
  /\ UNCHANGED <<verrou, stray, perished>>

\* The last session of a process stops the engine the process had spawned.
Leave(u) ==
  LET p == Home[u]
      last == niveau[p] = 1 IN
  /\ session[u] = "in" /\ verrou[p] = Nobody
  /\ session' = [session EXCEPT ![u] = "out"]
  /\ niveau' = [niveau EXCEPT ![p] = @ - 1]
  /\ engine' = IF last /\ proc[p] THEN [engine EXCEPT ![p] = "none"] ELSE engine
  /\ proc' = IF last THEN [proc EXCEPT ![p] = FALSE] ELSE proc
  /\ Disturbed(Open \ {u}, FALSE)
  /\ UNCHANGED <<verrou, stray, perished>>

\* The model is loaded; the port may be taken, and then the engine ends.
Loaded(p) ==
  /\ engine[p] = "loading"
  /\ engine' = [engine EXCEPT ![p] = IF Served THEN "none" ELSE "serving"]
  /\ UNCHANGED <<session, verrou, niveau, proc, stray, perished, disturbed>>

\* An engine falls by itself, for want of memory for instance.
Falls(p) ==
  /\ engine[p] # "none"
  /\ engine' = [engine EXCEPT ![p] = "none"]
  /\ Disturbed(Open, \E u \in User : session[u] = "in")
  /\ UNCHANGED <<session, verrou, niveau, proc, stray, perished>>

\* A developer starts or stops a server by hand.
ByHand ==
  /\ \/ stray = "none" /\ ~Served /\ stray' = "serving"
     \/ stray # "none" /\ stray' = "none"
  /\ Disturbed(Open, stray # "none")
  /\ UNCHANGED <<session, verrou, niveau, proc, engine, perished>>

\* A process dies inside its sessions: the engine it spawned goes on.
Perish(p) ==
  /\ perished < MaxDeath /\ perished' = perished + 1
  /\ stray = "none"
  /\ session' = [u \in User |-> IF u \in Of(p) THEN "out" ELSE session[u]]
  /\ verrou' = [verrou EXCEPT ![p] = Nobody]
  /\ niveau' = [niveau EXCEPT ![p] = 0]
  /\ proc' = [proc EXCEPT ![p] = FALSE]
  /\ stray' = engine[p]
  /\ engine' = [engine EXCEPT ![p] = "none"]
  /\ Disturbed(Open \ Of(p), FALSE)

StrayLoaded ==
  /\ stray = "loading"
  /\ stray' = IF Served THEN "none" ELSE "serving"
  /\ UNCHANGED <<session, verrou, niveau, proc, engine, perished, disturbed>>

Next ==
  \/ \E u \in User : Join(u) \/ Launch(u) \/ Started(u) \/ NotStarted(u) \/ Retry(u) \/ Leave(u)
  \/ \E p \in Process : Loaded(p) \/ Falls(p) \/ Perish(p)
  \/ ByHand \/ StrayLoaded

Spec == Init /\ [][Next]_sessionVars
-----------------------------------------------------------------------------
TypeOK ==
  /\ session \in [User -> {"out", "starting", "in"}]
  /\ verrou \in [Process -> User \cup {Nobody}]
  /\ niveau \in [Process -> Nat]
  /\ proc \in [Process -> BOOLEAN]
  /\ engine \in [Process -> {"none", "loading", "serving"}]
  /\ stray \in {"none", "loading", "serving"}
  /\ perished \in 0 .. MaxDeath
  /\ disturbed \in BOOLEAN

\* "Moteur lance a l'entree, arrete a la sortie. Reentrant" (session): the
\* engine answers as long as a session of the process is open, however cycles
\* and digests overlap, and a process keeps no engine once its sessions are
\* over, however they ended.  Only an engine that falls, or the sessions of
\* another process, can take it away from under a run.
EngineLastsItsSessions ==
  /\ disturbed \/ Served \/ \A u \in User : session[u] # "in"
  /\ \A p \in Process : engine[p] # "none" => niveau[p] > 0 \/ verrou[p] # Nobody
=============================================================================
