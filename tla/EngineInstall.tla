---------------------------- MODULE EngineInstall ----------------------------
(***************************************************************************)
(* moteur_local.py: the engine of this machine is downloaded piece by      *)
(* piece, each extracted beside its place and renamed into it, and         *)
(* installe.json is written last.  app.py: the handlers that choose who    *)
(* does the sorting, install and remove.                                   *)
(*                                                                         *)
(* The progress of an installation lives in the memory of the process; the *)
(* pieces, their archives and installe.json are on the disk.               *)
(***************************************************************************)
EXTENDS Naturals

CONSTANTS
  Slot,        \* bound: installing threads at once; after a removal the code lets two run
  NPiece,      \* the pieces of the engine; the first holds the executable
  MaxVersion,  \* bound: versions published in a behaviour
  MaxDeath     \* bound: deaths of the process

InstallAssumption ==
  NPiece \in Nat \ {0} /\ MaxVersion \in Nat \ {0} /\ MaxDeath \in Nat

VARIABLES
  mode,      \* llm_mode: local, or not (cloud stands for endpoint too)
  root,      \* the directory of the engine exists
  dir,       \* what the directory of each piece holds
  beside,    \* what the directory holds that it is extracted to
  tar,       \* the archive of each piece
  json,      \* the version installe.json tells, 0 without the file
  progress,  \* _progression
  installer, \* where each installing thread is, at which piece of which version
  check,     \* a put_llm_mode "local" has seen the engine installed
  removing,  \* a delete_moteur_local has made sure the mode is not local
  published, \* the version of the manifest
  deaths,
  overrun,   \* history: the engine was last removed while a thread was installing it
  replaced,  \* history: what the last installation began over, "engine" until it is complete,
             \*   "rests": archives of another version
  crossed    \* history: a put_llm_mode "local" and a delete_moteur_local overlapped since the
             \*   mode was last left

disk == <<root, dir, beside, tar, json>>
choice == <<mode, check, removing, crossed>>
installVars == <<disk, choice, progress, installer, published, deaths, overrun, replaced>>

Piece == 1 .. NPiece
Version == 1 .. MaxVersion
Void == 0
Half == MaxVersion + 1            \* some of the files of a piece
Place == {"idle", "download", "extract", "extracting", "swap", "rename", "unlink", "finish"}
Idle == [at |-> "idle", piece |-> 1, version |-> 1]
Empty == [k \in Piece |-> Void]
Installing == \E i \in Slot : installer[i].at # "idle"

\* est_installe: etat() says "installe".
Installed == progress = "none" /\ json # Void

Init ==
  /\ mode = "cloud" /\ check = FALSE /\ removing = FALSE /\ crossed = FALSE
  /\ root = FALSE /\ dir = Empty /\ beside = Empty /\ tar = Empty /\ json = Void
  /\ progress = "none"
  /\ installer = [i \in Slot |-> Idle]
  /\ published = 1 /\ deaths = 0
  /\ overrun = FALSE /\ replaced = {}

(***************************************************************************)
(* The installation.                                                       *)
(***************************************************************************)

\* installer_en_fond: one at a time as far as the progress tells.
Install(i) ==
  /\ progress # "telechargement"
  /\ installer[i].at = "idle"
  /\ progress' = "telechargement"
  /\ installer' = [installer EXCEPT ![i] = [at |-> "download", piece |-> 1, version |-> published]]
  /\ root' = TRUE
  /\ replaced' = {what \in {"engine", "rests"} :
       IF what = "engine" THEN json # Void ELSE \E k \in Piece : tar[k] \notin {Void, Half, published}}
  /\ UNCHANGED <<choice, dir, beside, tar, json, published, deaths, overrun>>

GoesTo(i, at) == installer' = [installer EXCEPT ![i].at = at]
Elsewhere == <<choice, published, deaths, overrun, replaced>>

\* Any exception of _installer: the message stays until the next attempt.
Fails(i) ==
  /\ progress' = "erreur"
  /\ installer' = [installer EXCEPT ![i] = Idle]

\* The archive is fetched unless it is there: a cut leaves a .part to resume,
\* a wrong digest deletes it.
Download(i) ==
  LET k == installer[i].piece IN
  /\ installer[i].at = "download"
  /\ \/ /\ tar[k] \in Version
        /\ GoesTo(i, "extract") /\ UNCHANGED <<tar, progress>>
     \/ /\ tar[k] \notin Version /\ root
        /\ tar' = [tar EXCEPT ![k] = installer[i].version]
        /\ GoesTo(i, "extract") /\ UNCHANGED progress
     \/ /\ tar[k] \notin Version
        /\ \E rest \in IF root THEN {Void, Half} ELSE {Void} : tar' = [tar EXCEPT ![k] = rest]
        /\ Fails(i)
  /\ UNCHANGED <<Elsewhere, root, dir, beside, json>>

\* Mutant: extracted where it belongs; what stops it leaves the piece half there.
ExtractInPlace(i) ==
  LET k == installer[i].piece IN
  /\ installer[i].at = "extract"
  /\ \/ /\ tar[k] \in Version
        /\ dir' = [dir EXCEPT ![k] = tar[k]]
        /\ GoesTo(i, "unlink") /\ UNCHANGED progress
     \/ dir' = [dir EXCEPT ![k] = Half] /\ Fails(i)
  /\ UNCHANGED <<Elsewhere, root, beside, tar, json>>

\* The former extraction is deleted, and the archive opened.
Extract(i) ==
  LET k == installer[i].piece IN
  /\ installer[i].at = "extract"
  /\ IF tar[k] \in Version
     THEN GoesTo(i, "extracting") /\ UNCHANGED progress
     ELSE Fails(i)
  /\ beside' = [beside EXCEPT ![k] = IF tar[k] \in Version THEN Half ELSE Void]
  /\ UNCHANGED <<Elsewhere, root, dir, tar, json>>

\* All the files are there, unless somebody deleted some meanwhile; extractall
\* makes the directories it misses.  A full disk or a bad archive stops it.
Extracted(i) ==
  LET k == installer[i].piece
      other == \E j \in Slot \ {i} : installer[j].piece = k /\ installer[j].at = "extracting" IN
  /\ installer[i].at = "extracting"
  /\ \/ /\ \E v \in IF tar[k] \in Version /\ beside[k] = Half /\ ~other THEN {tar[k]} ELSE {Half} :
             beside' = [beside EXCEPT ![k] = v]
        /\ root' = TRUE
        /\ GoesTo(i, "swap") /\ UNCHANGED progress
     \/ Fails(i) /\ UNCHANGED <<root, beside>>
  /\ UNCHANGED <<Elsewhere, dir, tar, json>>

\* The piece in place is deleted ...
Swap(i) ==
  /\ installer[i].at = "swap"
  /\ dir' = [dir EXCEPT ![installer[i].piece] = Void]
  /\ GoesTo(i, "rename")
  /\ UNCHANGED <<Elsewhere, root, beside, tar, json, progress>>

\* ... and the new one takes its place.
Rename(i) ==
  LET k == installer[i].piece IN
  /\ installer[i].at = "rename"
  /\ IF beside[k] # Void /\ dir[k] = Void
     THEN /\ dir' = [dir EXCEPT ![k] = beside[k]]
          /\ beside' = [beside EXCEPT ![k] = Void]
          /\ GoesTo(i, "unlink") /\ UNCHANGED progress
     ELSE Fails(i) /\ UNCHANGED <<dir, beside>>
  /\ UNCHANGED <<Elsewhere, root, tar, json>>

\* The archive goes, and the next piece comes.
Unlink(i) ==
  LET k == installer[i].piece IN
  /\ installer[i].at = "unlink"
  /\ tar' = [tar EXCEPT ![k] = Void]
  /\ IF tar[k] \in Version
     THEN /\ installer' = [installer EXCEPT ![i] =
               IF k = NPiece THEN [@ EXCEPT !.at = "finish"]
                             ELSE [@ EXCEPT !.at = "download", !.piece = k + 1]]
          /\ UNCHANGED progress
     ELSE Fails(i)
  /\ UNCHANGED <<Elsewhere, root, dir, beside, json>>

\* The executable is made one, installe.json is written, the progress ends.
Finish(i) ==
  /\ installer[i].at = "finish"
  /\ IF root /\ dir[1] # Void
     THEN /\ json' = installer[i].version
          /\ progress' = "none"
          /\ installer' = [installer EXCEPT ![i] = Idle]
          /\ replaced' = replaced \ {"engine"}
     ELSE Fails(i) /\ UNCHANGED <<json, replaced>>
  /\ UNCHANGED <<choice, published, deaths, overrun, root, dir, beside, tar>>

Step(i) == \/ Download(i) \/ Extract(i) \/ Extracted(i) \/ Swap(i) \/ Rename(i)
           \/ Unlink(i) \/ Finish(i)

(***************************************************************************)
(* The handlers.                                                           *)
(***************************************************************************)
Around == <<disk, progress, installer, published, deaths, overrun, replaced>>

\* put_llm_mode "local" refuses while the engine is not there ...
CheckLocal ==
  /\ ~check /\ Installed
  /\ check' = TRUE
  /\ crossed' = (crossed \/ removing)
  /\ UNCHANGED <<Around, mode, removing>>

\* ... and saves the mode.
PutLocal ==
  /\ check
  /\ check' = FALSE /\ mode' = "local"
  /\ UNCHANGED <<Around, removing, crossed>>

\* put_llm_mode "cloud", put_llm_mode "endpoint" and put_llm_endpoint.
PutMode ==
  /\ mode = "local" /\ mode' = "cloud"
  /\ crossed' = (crossed /\ check)
  /\ UNCHANGED <<Around, check, removing>>

\* delete_moteur_local goes back to the cloud first ...
BeginRemoval ==
  /\ ~removing
  /\ removing' = TRUE
  /\ mode' = IF mode = "local" THEN "cloud" ELSE mode
  /\ crossed' = (crossed \/ check)
  /\ UNCHANGED <<Around, check>>

\* ... then deletes the files.  An installing thread may add one meanwhile,
\* and then the directory itself stays.
Remove ==
  /\ removing /\ removing' = FALSE
  /\ dir' = Empty /\ beside' = Empty /\ tar' = Empty /\ json' = Void
  /\ root' \in {FALSE} \cup {Installing}
  /\ progress' = "none"
  /\ overrun' = Installing
  /\ UNCHANGED <<mode, check, crossed, installer, published, deaths, replaced>>

\* The process dies and starts again: the disk stays as it is.
Dies ==
  /\ deaths < MaxDeath /\ deaths' = deaths + 1
  /\ installer' = [i \in Slot |-> Idle]
  /\ progress' = "none" /\ check' = FALSE /\ removing' = FALSE
  /\ UNCHANGED <<disk, mode, crossed, published, overrun, replaced>>

Publish ==
  /\ published < MaxVersion /\ published' = published + 1
  /\ UNCHANGED <<disk, choice, progress, installer, deaths, overrun, replaced>>

Next ==
  \/ \E i \in Slot : Install(i) \/ Step(i)
  \/ CheckLocal \/ PutLocal \/ PutMode \/ BeginRemoval \/ Remove
  \/ Dies \/ Publish

Spec == Init /\ [][Next]_installVars
-----------------------------------------------------------------------------
TypeOK ==
  /\ mode \in {"cloud", "local"}
  /\ {root, check, removing, crossed, overrun} \subseteq BOOLEAN
  /\ replaced \subseteq {"engine", "rests"}
  /\ dir \in [Piece -> 0 .. Half] /\ beside \in [Piece -> 0 .. Half] /\ tar \in [Piece -> 0 .. Half]
  /\ json \in {Void} \cup Version
  /\ progress \in {"none", "telechargement", "erreur"}
  /\ installer \in [Slot -> [at : Place, piece : Piece, version : Version]]
  /\ published \in Version /\ deaths \in 0 .. MaxDeath

\* "Un dossier a moitie extrait ne doit jamais passer pour un morceau installe"
\* (_installer): while installe.json is there, whatever stopped or killed the
\* installations, over an installed engine too, no piece is half extracted,
\* unless the engine was removed under a thread that was installing it.
NoHalfPiece == overrun \/ (json # Void => \A k \in Piece : dir[k] # Half)

\* installe.json vouches for every piece, of its own version.  Not so while an
\* engine is being replaced, nor when that was broken off: the record of the old
\* one stays until the last piece; nor when an archive left by an installation
\* of another version was taken for the piece.
InstalledIsWhole ==
  overrun \/ replaced # {} \/ (json # Void => \A k \in Piece : dir[k] = json)

\* "Un mode local sans moteur ferait echouer chaque cycle" (delete_moteur_local):
\* the mode is local only with an installed engine.  Not so when the handler that
\* chose it and the one that removes the engine overlapped, for put_llm_mode
\* saves what it saw before; choosing another mode mends it.
LocalMeansInstalled == crossed \/ (mode = "local" => json # Void)

\* What a run in local mode counts on.
EngineIsUsable == NoHalfPiece /\ InstalledIsWhole /\ LocalMeansInstalled
=============================================================================
