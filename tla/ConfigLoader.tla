---------------------------- MODULE ConfigLoader ----------------------------
(***************************************************************************)
(* Hot reload of configs/app_config.yaml (src/src/utils/config_loader.py): *)
(* a watcher thread polls the file's modification time, and an editor      *)
(* changes, replaces, truncates or removes the file at any moment.  The    *)
(* entry point (src/src/main.py) hands the dictionary it read at the start *)
(* to everything it builds.                                                *)
(*                                                                         *)
(* The file has a content and a modification time, and the watcher looks at*)
(* the time only.  An edit may bring any time: an older one, as when a     *)
(* backup is restored, or the one the file had, as when the time is        *)
(* preserved or too coarse to tell two edits apart.                        *)
(***************************************************************************)
EXTENDS Naturals

CONSTANTS
    Contents,    \* of the file
    Unparsable,  \* those that are no YAML, as of a file half written
    Times        \* bound: modification times

ASSUME LoaderAssumption ==
    /\ Times \subseteq Nat
    /\ Unparsable \subseteq Contents
    /\ Contents \ Unparsable # {}

VARIABLES
    file,      \* content on disk
    mtime,     \* its modification time
    exists,    \* the file is there
    data,      \* content in self._data
    _mtime,    \* self._mtime
    watcher,   \* "poll", "read" and "stamp" inside reload, "dead"
    app_cfg,   \* content of main's app_cfg
    raced,     \* history: the latest edit fell between a read and its stamp
    disguised  \* history: the latest edit left another content than the loaded
               \* one under the time the watcher compares with

disk == <<file, mtime, exists>>
history == <<raced, disguised>>
vars == <<disk, data, _mtime, watcher, app_cfg, history>>

(* The constructor loads the file before the watcher starts; main takes    *)
(* loader.data.                                                            *)
Init ==
    /\ file \in Contents \ Unparsable
    /\ mtime \in Times
    /\ exists = TRUE
    /\ data = file
    /\ _mtime = mtime
    /\ app_cfg = file
    /\ watcher = "poll"
    /\ raced = FALSE
    /\ disguised = FALSE

(* The editor: the file gets another content or time, goes away or comes   *)
(* back.                                                                   *)
Edit ==
    /\ file' \in Contents
    /\ mtime' \in Times
    /\ exists' \in BOOLEAN
    /\ disk' # disk
    /\ raced' = (watcher = "stamp")
    /\ disguised' = (mtime' = _mtime /\ file' # data)
    /\ UNCHANGED <<data, _mtime, watcher, app_cfg>>

(* Mutant of Poll: only a newer file is a changed file.                    *)
PollNewerOnly ==
    /\ watcher = "poll"
    /\ exists
    /\ mtime > _mtime
    /\ watcher' = "read"
    /\ UNCHANGED <<disk, data, _mtime, app_cfg, history>>

(* A missing file or an unchanged time: the watcher sleeps and polls again.*)
Poll ==
    /\ watcher = "poll"
    /\ exists
    /\ mtime # _mtime
    /\ watcher' = "read"
    /\ UNCHANGED <<disk, data, _mtime, app_cfg, history>>

(* reload opens and parses the file.  A file that is gone by now is caught *)
(* by the loop; any other exception ends the thread.                       *)
Read ==
    /\ watcher = "read"
    /\ \/ /\ exists /\ file \notin Unparsable
          /\ data' = file
          /\ raced' = FALSE
          /\ disguised' = FALSE
          /\ watcher' = "stamp"
       \/ /\ exists /\ file \in Unparsable
          /\ watcher' = "dead"
          /\ UNCHANGED <<data, history>>
       \/ /\ ~exists
          /\ watcher' = "poll"
          /\ UNCHANGED <<data, history>>
    /\ UNCHANGED <<disk, _mtime, app_cfg>>

(* getmtime again, for the next comparison; it raises when the file has    *)
(* gone since, which the loop catches.                                     *)
Stamp ==
    /\ watcher = "stamp"
    /\ _mtime' = IF exists THEN mtime ELSE _mtime
    /\ watcher' = "poll"
    /\ UNCHANGED <<disk, data, app_cfg, history>>

Watch == Poll \/ Read \/ Stamp

Next == Edit \/ Watch

Spec == Init /\ [][Next]_vars

(* The watcher thread is scheduled; nobody has to edit the file.           *)
FairSpec == Spec /\ WF_vars(Watch)

-----------------------------------------------------------------------------
(* Properties *)

TypeOK ==
    /\ file \in Contents
    /\ {data, app_cfg} \subseteq Contents \ Unparsable
    /\ {mtime, _mtime} \subseteq Times
    /\ {exists, raced, disguised} \subseteq BOOLEAN
    /\ watcher \in {"poll", "read", "stamp", "dead"}

(* The file as it stays is the one that is loaded in the end, also when its*)
(* modification time is an older one, and however often the file vanished, *)
(* was touched or edited meanwhile; provided the last edit did not fall    *)
(* between reload's read and its getmtime, did not hide another content    *)
(* under the time the watcher compares with, and the watcher lives.        *)
SettledFileIsLoaded ==
    \A c \in Contents :
        <>[](file = c /\ exists /\ watcher # "dead" /\ ~raced /\ ~disguised) => <>[](data = c)

(* "runtime reload (hot-reload) when the configuration file changes"       *)
(* (config_loader.py:3): the same without the proviso about the race, and  *)
(* without the one about the time.                                         *)
ChangedFileIsReloaded ==
    \A c \in Contents :
        <>[](file = c /\ exists /\ watcher # "dead" /\ ~disguised) => <>[](data = c)

ChangedContentIsReloaded ==
    \A c \in Contents :
        <>[](file = c /\ exists /\ watcher # "dead" /\ ~raced) => <>[](data = c)

(* "to adjust ROI/threshold/MQTT broker without restarting the DeepStream  *)
(* pipeline" (config_loader.py:3-4): a configuration that stays loaded     *)
(* comes into use.                                                         *)
LoadedConfigIsUsed ==
    \A c \in Contents : <>[](data = c) => <>[](app_cfg = c)

=============================================================================
