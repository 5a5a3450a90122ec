----------------------------- MODULE ConfigStore -----------------------------
(***************************************************************************)
(* config_store.py: the settings of a backend in ~/.synapse/config.json.   *)
(*                                                                         *)
(* Every setter loads the whole file, changes one field and saves the      *)
(* whole file, through a temporary file whose name all the writers share.  *)
(* No lock: the handlers run in the thread pool of the server.  A name in  *)
(* the directory refers to an inode, and a writer keeps the inode it has   *)
(* opened whatever becomes of its name.                                    *)
(***************************************************************************)
EXTENDS Naturals, FiniteSets

CONSTANTS
  Request,   \* the handlers that may be under way, no more than the pool of threads has
  Field,     \* the settings; "instance_id" and "fetch_resources" have rules of their own
  Value,     \* their values
  FetchByDefault,  \* fetch_resources when nobody chose
  None       \* an absent setting, a name without file, a closed file

ConfigAssumption ==
  /\ {"instance_id", "fetch_resources"} \subseteq Field
  /\ FetchByDefault \in Value /\ None \notin Value /\ None \notin Nat /\ IsFiniteSet(Request)

VARIABLES
  file,       \* the inode called config.json
  tmp,        \* the inode called config.json.tmp
  text,       \* what each inode holds
  fd,         \* the inode each request has opened
  step,       \* where each request is in its setter
  draft,      \* the settings it is about to save, and the field it set
  switch,     \* SYNAPSE_FETCH_RESOURCES in the environment of the process
  saved,      \* history: the settings acknowledged so far
  overlapped, \* history: a setter has begun inside another
  forced      \* history: the launcher of this process chose the switch itself

configVars == <<file, tmp, text, fd, step, draft, switch, saved, overlapped, forced>>

Inode == 1 .. Cardinality(Request) + 2
Nothing == [f \in Field |-> None]
Settings == [Field -> Value \cup {None}]
NoJson == [f \in {} |-> None]        \* empty, or the mix of two writes: no JSON
Draft == [data : Settings, field : Field]
Blank == [data |-> Nothing, field |-> "instance_id"]

\* _load: {} when the file is missing or is no JSON.
Load == IF file = None \/ text[file] = NoJson THEN Nothing ELSE text[file]

FetchResources(data) == IF data["fetch_resources"] = None THEN FetchByDefault ELSE data["fetch_resources"]

\* A new inode; one that has neither a name nor a writer left is freed.
NewInode == CHOOSE i \in Inode : i \notin {file, tmp} \cup {fd[r] : r \in Request}
Freed(t, named, writers) ==
  [i \in Inode |-> IF i \in named \cup {fd[r] : r \in writers} THEN t[i] ELSE NoJson]

Init ==
  /\ file = None /\ tmp = None
  /\ text = [i \in Inode |-> NoJson]
  /\ fd = [r \in Request |-> None]
  /\ step = [r \in Request |-> "idle"]
  /\ draft = [r \in Request |-> Blank]
  /\ switch = FetchByDefault
  /\ saved = Nothing
  /\ overlapped = FALSE /\ forced = FALSE

\* A setter, or get_instance_id when the settings it has loaded hold no
\* identity, has read the file and changed its field.
Begin(r, f, v) ==
  /\ step[r] = "idle"
  /\ v = None => f \notin {"instance_id", "fetch_resources"}
  /\ f = "instance_id" => Load[f] = None /\ v # saved[f]
  /\ step' = [step EXCEPT ![r] = "loaded"]
  /\ draft' = [draft EXCEPT ![r] = [data |-> [Load EXCEPT ![f] = v], field |-> f]]
  /\ overlapped' = (overlapped \/ \E q \in Request : step[q] # "idle")
  /\ UNCHANGED <<file, tmp, text, fd, switch, saved, forced>>

\* Mutant: the settings are written straight into config.json.
OpenFile(r) ==
  /\ step[r] = "loaded"
  /\ LET i == IF file = None THEN NewInode ELSE file IN
       /\ file' = i
       /\ fd' = [fd EXCEPT ![r] = i]
       /\ text' = [text EXCEPT ![i] = NoJson]
  /\ step' = [step EXCEPT ![r] = "open"]
  /\ UNCHANGED <<tmp, draft, switch, saved, overlapped, forced>>

\* write_text opens the temporary file, which truncates the one that is there ...
OpenTmp(r) ==
  /\ step[r] = "loaded"
  /\ LET i == IF tmp = None THEN NewInode ELSE tmp IN
       /\ tmp' = i
       /\ fd' = [fd EXCEPT ![r] = i]
       /\ text' = [text EXCEPT ![i] = NoJson]
  /\ step' = [step EXCEPT ![r] = "open"]
  /\ UNCHANGED <<file, draft, switch, saved, overlapped, forced>>

\* ... and its buffer goes out at the close: over what another writer of the
\* same inode has put there, of which a longer end may stick out.
WriteTmp(r) ==
  /\ step[r] = "open"
  /\ fd' = [fd EXCEPT ![r] = None]
  /\ \E out \in {draft[r].data} \cup IF text[fd[r]] = NoJson THEN {} ELSE {NoJson} :
       text' = Freed([text EXCEPT ![fd[r]] = out], {file, tmp}, Request \ {r})
  /\ step' = [step EXCEPT ![r] = "written"]
  /\ UNCHANGED <<file, tmp, draft, switch, saved, overlapped, forced>>

\* The temporary file takes the name of the settings: the caller is answered.
Replace(r) ==
  /\ step[r] = "written" /\ tmp # None
  /\ file' = tmp /\ tmp' = None
  /\ text' = Freed(text, {tmp}, Request)
  /\ saved' = [saved EXCEPT ![draft[r].field] = draft[r].data[draft[r].field]]
  /\ step' = [step EXCEPT ![r] = IF draft[r].field = "fetch_resources" THEN "applying" ELSE "idle"]
  /\ draft' = IF step'[r] = "idle" THEN [draft EXCEPT ![r] = Blank] ELSE draft
  /\ UNCHANGED <<fd, switch, overlapped, forced>>

\* Another writer has renamed the file already: the request fails.
ReplaceFails(r) ==
  /\ step[r] = "written" /\ tmp = None
  /\ step' = [step EXCEPT ![r] = "idle"]
  /\ draft' = [draft EXCEPT ![r] = Blank]
  /\ UNCHANGED <<file, tmp, text, fd, switch, saved, overlapped, forced>>

\* set_fetch_resources: the choice of the user overwrites the environment.
ApplyFetch(r) ==
  /\ step[r] = "applying"
  /\ switch' = FetchResources(draft[r].data)
  /\ forced' = FALSE
  /\ step' = [step EXCEPT ![r] = "idle"]
  /\ draft' = [draft EXCEPT ![r] = Blank]
  /\ UNCHANGED <<file, tmp, text, fd, saved, overlapped>>

\* The process dies, with whatever it was writing, and starts again:
\* apply_fetch_resources_at_startup keeps the variable its launcher has set.
Relaunch ==
  /\ step' = [r \in Request |-> "idle"]
  /\ draft' = [r \in Request |-> Blank]
  /\ fd' = [r \in Request |-> None]
  /\ text' = Freed(text, {file, tmp}, {})
  /\ \/ forced' = TRUE /\ switch' \in Value
     \/ forced' = FALSE /\ switch' = FetchResources(Load)
  /\ UNCHANGED <<file, tmp, saved, overlapped>>

Next ==
  \/ \E r \in Request :
       \/ \E f \in Field, v \in Value \cup {None} : Begin(r, f, v)
       \/ OpenTmp(r) \/ WriteTmp(r) \/ Replace(r) \/ ReplaceFails(r) \/ ApplyFetch(r)
  \/ Relaunch

Spec == Init /\ [][Next]_configVars
-----------------------------------------------------------------------------
TypeOK ==
  /\ file \in Inode \cup {None} /\ tmp \in Inode \cup {None}
  /\ text \in [Inode -> Settings \cup {NoJson}]
  /\ fd \in [Request -> Inode \cup {None}]
  /\ step \in [Request -> {"idle", "loaded", "open", "written", "applying"}]
  /\ draft \in [Request -> Draft]
  /\ switch \in Value
  /\ saved \in Settings
  /\ overlapped \in BOOLEAN /\ forced \in BOOLEAN

\* Setters that do not overlap lose nothing, wherever the process dies: the
\* file holds every setting acknowledged so far, the identity given out by
\* /health among them (config_store.py, load, modify, save), and the core is
\* told the fetch_resources of the file unless the launcher overrode it.
SettingsSurvive ==
  \/ overlapped
  \/ /\ Load = saved
     /\ forced \/ switch = FetchResources(saved) \/ \E r \in Request : step[r] = "applying"
=============================================================================
