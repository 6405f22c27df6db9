------------------------------ MODULE Service ------------------------------
(***************************************************************************)
(* The running service: the MQTT client (MqttAodClient) and the main loop  *)
(* with its pipeline threads (Supervisor), composed as src/src/main.py     *)
(* composes them.                                                          *)
(*                                                                         *)
(*   MQTT thread       a camera list first replaces the client's registry  *)
(*                     and then goes, normalised, to                       *)
(*                     on_camera_config_received, which queues it unless   *)
(*                     its signature is that of the last one; zone         *)
(*                     messages come through the same thread               *)
(*   main thread       replaces the pipeline by one for the queued list    *)
(*   pipeline threads  build the engines of their list, install the        *)
(*                     command handlers and replay the retained zones,     *)
(*                     become current_pipeline, play                       *)
(*                                                                         *)
(* The variable cmd_handlers is the same one in both.                      *)
(***************************************************************************)
EXTENDS MqttAodClient

CONSTANT
    Settings    \* what a list says of an active camera: stream, ROI, baseline time

ASSUME SettingsAssumption == Settings \cap {"absent", "disabled", "offline"} = {}

VARIABLES
    web,        \* the camera list received last: what it says of each camera
    incoming,   \* MQTT thread: signature on its way to on_camera_config_received
    cameras_of, \* per pipeline thread: the camera list it was started with
    last_camera_signature, camera_config_queue, main, pipeline_thread,   \* Supervisor
    current_pipeline, thread, changes, served, timed_out

(* camera_pipeline_signature of a normalised list: the active cameras with *)
(* their settings, one row each.                                           *)
ListedSignatures ==
    {rows \in SUBSET (Cameras \X Settings) : \A r, q \in rows : r[1] = q[1] => r = q}

(* No camera list is Python's None.                                        *)
ASSUME ListAssumption == \A list \in ListedSignatures : list # None

Main == INSTANCE Supervisor WITH
    Lists <- ListedSignatures \ {{}}, Empty <- {}, MaxChanges <- MaxPipelines

clientVars == <<registry, latest_zones, roi, on_message, pipeline, pending, newest, heard>>
mainVars == <<last_camera_signature, camera_config_queue, main, pipeline_thread,
              current_pipeline, thread, changes, served, timed_out>>
listVars == <<web, incoming, cameras_of>>
serviceVars == <<clientVars, mainVars, listVars, cmd_handlers>>

ServiceInit ==
    /\ Init
    /\ Main!Init
    /\ web = [c \in Cameras |-> "absent"]
    /\ incoming = None
    /\ cameras_of = [t \in Pipelines |-> {}]

Running == main.at # "exited"

-----------------------------------------------------------------------------
(* MQTT thread *)

(* Mutant of Normalised: the status of a camera is not looked at.          *)
NormalisedWithOffline(list) ==
    {<<c, IF list[c] = "offline" THEN CHOOSE s \in Settings : TRUE ELSE list[c]>> :
        c \in {d \in Cameras : list[d] \notin {"absent", "disabled"}}}

(* normalize_web_cameras: a camera is active if the list has it, with the  *)
(* module enabled, online and with a stream.  The cameras of a list have a *)
(* code, and fields that can be parsed.                                    *)
Normalised(list) ==
    {<<c, list[c]>> : c \in {d \in Cameras : list[d] \notin {"absent", "disabled", "offline"}}}

Enabled(entry) == IF entry \in {"absent", "disabled"} THEN entry ELSE "enabled"

(* A camera list arrives: the registry keeps every camera of it.           *)
ReceiveList(list) ==
    /\ Running
    /\ incoming = None
    /\ changes < MaxPipelines \/ Normalised(list) = last_camera_signature
    /\ SetCameraRegistry([c \in Cameras |-> Enabled(list[c])])
    /\ web' = list
    /\ incoming' = Normalised(list)
    /\ UNCHANGED <<mainVars, cameras_of>>

(* on_camera_config_received.                                              *)
AcceptList ==
    /\ Running
    /\ incoming # None
    /\ \/ incoming = last_camera_signature /\ UNCHANGED <<mainVars, cmd_handlers>>
       \/ Main!CameraList(incoming)
    /\ incoming' = None
    /\ UNCHANGED <<clientVars, web, cameras_of>>

ZoneMessage ==
    /\ Running
    /\ incoming = None
    /\ \/ \E c \in Cameras, version \in 1..MaxVersion : StoreZones(c, version)
       \/ GetHandler
       \/ CallHandler
    /\ UNCHANGED <<mainVars, listVars>>

-----------------------------------------------------------------------------
(* Main thread *)

MainThread ==
    /\ \/ Main!TakeConfig \/ Main!StopOld \/ Main!Join \/ Main!JoinTimeout
       \/ Main!Interrupt \/ Main!Exit
    /\ UNCHANGED <<clientVars, listVars>>

(* The thread is started with its list.  Its engines are its own until it  *)
(* installs their handlers, so that building them is joined with the start.*)
StartPipeline ==
    /\ Main!Launch
    /\ IF main.cameras = {}
       THEN UNCHANGED <<clientVars, cameras_of>>
       ELSE /\ BuildEngines(Main!NextThread, {row[1] : row \in main.cameras})
            /\ cameras_of' = [cameras_of EXCEPT ![Main!NextThread] = main.cameras]
    /\ UNCHANGED <<web, incoming>>

-----------------------------------------------------------------------------
(* Pipeline threads *)

(* build_cmd_handlers, then set_cmd_handlers up to the end of its lock.    *)
WireCommands(t) ==
    /\ Main!SetCmdHandlers(t)
    /\ SetCmdHandlers(t)
    /\ UNCHANGED listVars

ReplayZones(t) ==
    /\ Running
    /\ Main!Alive(t)
    /\ \E z \in pending[t] : Replay(t, z)
    /\ UNCHANGED <<mainVars, listVars>>

EndReplay(t) ==
    /\ Running
    /\ Main!Alive(t)
    /\ FinishReplay(t)
    /\ UNCHANGED <<mainVars, listVars>>

(* The pipeline is built after set_cmd_handlers has returned.              *)
BecomeCurrent(t) ==
    /\ pipeline[t] = "done"
    /\ Main!Assign(t)
    /\ UNCHANGED <<clientVars, listVars>>

Play(t) ==
    /\ \/ Main!SetPlaying(t) \/ Main!CreateLoop(t) \/ Main!RunLoop(t)
       \/ Main!BusMessage(t) \/ Main!Teardown(t)
    /\ UNCHANGED <<clientVars, listVars>>

Fail(t) ==
    /\ pipeline[t] # "replay"
    /\ Main!BuildFails(t)
    /\ UNCHANGED <<clientVars, listVars>>

ServiceNext ==
    \/ \E list \in [Cameras -> {"absent", "disabled", "offline"} \cup Settings] : ReceiveList(list)
    \/ AcceptList
    \/ ZoneMessage
    \/ MainThread
    \/ StartPipeline
    \/ \E t \in Pipelines :
          \/ WireCommands(t) \/ ReplayZones(t) \/ EndReplay(t) \/ BecomeCurrent(t)
          \/ Play(t)
          \/ Fail(t)

ServiceSpec == ServiceInit /\ [][ServiceNext]_serviceVars

-----------------------------------------------------------------------------
(* Properties *)

(* No list and no command is on its way anywhere, and the pipeline started *)
(* last is in its loop.                                                    *)
AtRest ==
    /\ incoming = None
    /\ on_message.at = "idle"
    /\ camera_config_queue = <<>>
    /\ main.at = "get"
    /\ pipeline_thread # None
    /\ thread[pipeline_thread] = "running"

(* The cameras that are analysed are those the web has active, with the    *)
(* settings of its last list: the client's registry, which is replaced     *)
(* first, the signature, the queue and the pipeline agree in the end,      *)
(* whatever lists cross on the way; also after a join that gave up.        *)
AnalysedAsListed ==
    AtRest /\ served # {} =>
        /\ cameras_of[pipeline_thread] = {<<c, web[c]>> : c \in {d \in Cameras : web[d] \in Settings}}
        /\ \A c \in Cameras : roi[pipeline_thread][c] # None <=> web[c] \in Settings

(* The ROI the web sent for a camera that is analysed is in force in the   *)
(* pipeline that plays, not only in the one that gets the next command,    *)
(* and no other pipeline has taken the commands away.                      *)
ZonesInForce ==
    AtRest /\ ~timed_out =>
        /\ cmd_handlers = pipeline_thread
        /\ \A c \in Cameras :
              roi[pipeline_thread][c] # None /\ heard[c] # 0 => roi[pipeline_thread][c] # 0

(* While lists, zones and failures come at any moment, and as long as no   *)
(* join has given up, one pipeline at a time lives, takes the commands once*)
(* it has wired itself, and is the one that the next list will stop.       *)
CleanHandover == Main!CleanHandover

(* The supervisor's types, and why handovers are clean: as long as no join *)
(* gave up only the thread launched last lives, none does when the next one*)
(* is due, and nobody overwrites what it has published of itself.          *)
SupervisorInv == Main!SupervisorInv

(* What MCServiceLate shows is not promised: after a join that gave up, a  *)
(* late thread installs its handlers over those of the pipeline that plays.*)
ZonesInForceAlways ==
    AtRest => cmd_handlers = pipeline_thread

-----------------------------------------------------------------------------
(* The inductive invariant behind the theorems, beside those of the two    *)
(* components                                                              *)

ListTypes ==
    /\ web \in [Cameras -> {"absent", "disabled", "offline"} \cup Settings]
    /\ incoming \in ListedSignatures \cup {None}
    /\ cameras_of \in [Pipelines -> ListedSignatures]

(* Where the list is that the web sent last: on its way to the signature,  *)
(* or there, and then last in the queue, or with the main thread, or, once *)
(* that waits for the next one, served; and what was served last is what   *)
(* the latest pipeline was started with, unless it is the list without any *)
(* active camera.                                                          *)
LastListIsUnderWay ==
    /\ incoming \in {None, Normalised(web)}
    /\ incoming = None => last_camera_signature \in {None, Normalised(web)}
    /\ camera_config_queue # <<>> => Last(camera_config_queue) = last_camera_signature
    /\ camera_config_queue = <<>> =>
          /\ main.at \in {"stop_old", "join", "launch"} => main.cameras = last_camera_signature
          /\ main.at = "get" => served = last_camera_signature
    /\ served \notin {None, {}} =>
          pipeline_thread # None /\ cameras_of[pipeline_thread] = served
    /\ pipeline_thread # None => served # None

(* A pipeline has engines for the cameras of its list, and is not assigned *)
(* before the retained zones were replayed to them.                        *)
EnginesAsListed ==
    \A t \in Pipelines :
        /\ thread[t] # "none" => \A c \in Cameras :
              roi[t][c] # None <=> \E row \in cameras_of[t] : row[1] = c
        /\ thread[t] = "made" \/ Main!Plays(t) => pipeline[t] = "done"

ServiceInv == ListTypes /\ LastListIsUnderWay /\ EnginesAsListed

=============================================================================
