--------------------------- MODULE MqttAodClient ---------------------------
(***************************************************************************)
(* How zone (ROI) messages reach the rule engines: the client of           *)
(* src/src/mqtt/mqtt_client.py with the handlers of mqtt/cmd_handlers.py.  *)
(*                                                                         *)
(*   MQTT thread       _on_message, one message at a time: camera lists    *)
(*                     replace the registry; a zone message is retained    *)
(*                     under one lock, its handler is read under another   *)
(*                     and called outside both                             *)
(*   pipeline threads  set_cmd_handlers: install the handlers of new       *)
(*                     engines, copy the retained messages, replay the     *)
(*                     copy outside the lock                               *)
(*                                                                         *)
(* A zone message is its version number; pipelines are numbered in the     *)
(* order in which their threads start.  The module Service composes the    *)
(* client with the supervisor that starts and stops those threads.         *)
(***************************************************************************)
EXTENDS Naturals, SequencesExt

CONSTANTS
    Cameras,
    None,
    MaxVersion,    \* bound: zone messages per camera
    MaxPipelines   \* bound: pipelines built

ASSUME ClientAssumption ==
    /\ MaxVersion \in Nat
    /\ MaxPipelines \in Nat
    /\ None \notin Nat

VARIABLES
    registry,      \* _camera_by_id: absent, or whether the module is enabled
    latest_zones,  \* _latest_zone_payloads: the entries of each camera, oldest key first
    cmd_handlers,  \* pipeline whose engines the handlers use, or None
    roi,           \* per pipeline and camera: None without engine, 0 = from the camera list
    on_message,    \* MQTT thread
    pipeline,      \* per pipeline thread: none, build, replay, done
    pending,       \* per pipeline thread: copied entries not yet replayed
    newest,        \* history: version accepted last
    heard          \* history: version accepted last under the camera id

vars == <<registry, latest_zones, cmd_handlers, roi, on_message, pipeline, pending, newest, heard>>

Pipelines == 1..MaxPipelines

Waiting == [at |-> "idle", camera |-> None, key |-> None, version |-> None, handler |-> None]

Init ==
    /\ registry = [c \in Cameras |-> "absent"]
    /\ latest_zones = [c \in Cameras |-> <<>>]
    /\ cmd_handlers = None
    /\ roi = [p \in Pipelines |-> [c \in Cameras |-> None]]
    /\ on_message = Waiting
    /\ pipeline = [p \in Pipelines |-> "none"]
    /\ pending = [p \in Pipelines |-> {}]
    /\ newest = [c \in Cameras |-> 0]
    /\ heard = [c \in Cameras |-> 0]

-----------------------------------------------------------------------------
(* Retained zone messages: a Python dict keeps the position of a key that  *)
(* is set again                                                            *)

Entry(key, version) == [key |-> key, version |-> version]

Keys(entries) == {e.key : e \in ToSet(entries)}

Put(entries, key, version) ==
    IF key \in Keys(entries)
    THEN [i \in DOMAIN entries |-> IF entries[i].key = key THEN Entry(key, version) ELSE entries[i]]
    ELSE Append(entries, Entry(key, version))

(* Mutant of Rekeyed: of two entries that become one, the older is kept.   *)
RekeyedFirst(entries) ==
    IF entries = <<>> THEN <<>> ELSE <<Entry("id", entries[1].version)>>

(* Entries of a registered camera all move to its id; the last one wins.   *)
Rekeyed(entries) ==
    IF entries = <<>> THEN <<>> ELSE <<Entry("id", Last(entries).version)>>

-----------------------------------------------------------------------------
(* MQTT thread *)

(* set_camera_registry, for a list in which each camera is missing, or has *)
(* the module disabled or enabled.                                         *)
SetCameraRegistry(listed) ==
    /\ on_message.at = "idle"
    /\ registry' = listed
    /\ latest_zones' = [c \in Cameras |->
                          IF listed[c] = "absent" THEN latest_zones[c] ELSE Rekeyed(latest_zones[c])]
    /\ UNCHANGED <<cmd_handlers, roi, on_message, pipeline, pending, newest, heard>>

(* Mutant of StoreZones: retained only while there is no handler.          *)
StoreZonesIfUnhandled(c, version) ==
    LET key == IF registry[c] = "absent" THEN "code" ELSE "id" IN
    /\ on_message.at = "idle"
    /\ registry[c] # "disabled"
    /\ version \in {newest[c], newest[c] + 1}
    /\ latest_zones' = IF cmd_handlers # None THEN latest_zones
                       ELSE [latest_zones EXCEPT ![c] = Put(@, key, version)]
    /\ on_message' = [Waiting EXCEPT !.at = "stored", !.camera = c, !.key = key, !.version = version]
    /\ newest' = [newest EXCEPT ![c] = version]
    /\ heard' = IF key = "id" THEN [heard EXCEPT ![c] = version] ELSE heard
    /\ UNCHANGED <<registry, cmd_handlers, roi, pipeline, pending>>

(* A zone message arrives: a new one, or the broker's retained one again   *)
(* after a reconnect.  It carries the camera code, which stands for the    *)
(* camera until the registry knows the camera.  With the module disabled   *)
(* for the camera the message is dropped.                                  *)
StoreZones(c, version) ==
    LET key == IF registry[c] = "absent" THEN "code" ELSE "id" IN
    /\ on_message.at = "idle"
    /\ registry[c] # "disabled"
    /\ version \in {newest[c], newest[c] + 1}
    /\ latest_zones' = [latest_zones EXCEPT ![c] = Put(@, key, version)]
    /\ on_message' = [Waiting EXCEPT !.at = "stored", !.camera = c, !.key = key, !.version = version]
    /\ newest' = [newest EXCEPT ![c] = version]
    /\ heard' = IF key = "id" THEN [heard EXCEPT ![c] = version] ELSE heard
    /\ UNCHANGED <<registry, cmd_handlers, roi, pipeline, pending>>

GetHandler ==
    /\ on_message.at = "stored"
    /\ on_message' = IF cmd_handlers = None THEN Waiting
                     ELSE [on_message EXCEPT !.at = "fetched", !.handler = cmd_handlers]
    /\ UNCHANGED <<registry, latest_zones, cmd_handlers, roi, pipeline, pending, newest, heard>>

(* handle_update_roi: an unknown camera raises, and nothing changes.  The  *)
(* zones of a message are well-formed.                                     *)
Applied(p, c, key, version) ==
    IF key = "id" /\ roi[p][c] # None THEN [roi EXCEPT ![p][c] = version] ELSE roi

CallHandler ==
    /\ on_message.at = "fetched"
    /\ roi' = Applied(on_message.handler, on_message.camera, on_message.key, on_message.version)
    /\ on_message' = Waiting
    /\ UNCHANGED <<registry, latest_zones, cmd_handlers, pipeline, pending, newest, heard>>

-----------------------------------------------------------------------------
(* Pipeline threads *)

(* A thread builds the engines of the cameras of its list.                 *)
BuildEngines(p, cameras) ==
    /\ pipeline[p] = "none"
    /\ pipeline' = [pipeline EXCEPT ![p] = "build"]
    /\ roi' = [roi EXCEPT ![p] = [c \in Cameras |-> IF c \in cameras THEN 0 ELSE None]]
    /\ UNCHANGED <<registry, latest_zones, cmd_handlers, on_message, pending, newest, heard>>

Copied == {[camera |-> c, key |-> e.key, version |-> e.version] :
              c \in Cameras, e \in UNION {ToSet(latest_zones[d]) : d \in Cameras}}

(* Install and copy, under the lock.                                       *)
SetCmdHandlers(p) ==
    /\ pipeline[p] = "build"
    /\ cmd_handlers' = p
    /\ pending' = [pending EXCEPT ![p] =
                     {z \in Copied : Entry(z.key, z.version) \in ToSet(latest_zones[z.camera])}]
    /\ pipeline' = [pipeline EXCEPT ![p] = "replay"]
    /\ UNCHANGED <<registry, latest_zones, roi, on_message, newest, heard>>

Replay(p, z) ==
    /\ pipeline[p] = "replay"
    /\ z \in pending[p]
    /\ roi' = Applied(p, z.camera, z.key, z.version)
    /\ pending' = [pending EXCEPT ![p] = @ \ {z}]
    /\ UNCHANGED <<registry, latest_zones, cmd_handlers, on_message, pipeline, newest, heard>>

FinishReplay(p) ==
    /\ pipeline[p] = "replay"
    /\ pending[p] = {}
    /\ pipeline' = [pipeline EXCEPT ![p] = "done"]
    /\ UNCHANGED <<registry, latest_zones, cmd_handlers, roi, on_message, pending, newest, heard>>

MqttThread ==
    \/ \E listed \in [Cameras -> {"absent", "disabled", "enabled"}] : SetCameraRegistry(listed)
    \/ \E c \in Cameras, version \in 1..MaxVersion : StoreZones(c, version)
    \/ GetHandler
    \/ CallHandler

PipelineThread(p) ==
    \/ \E cameras \in (SUBSET Cameras) \ {{}} : BuildEngines(p, cameras)
    \/ SetCmdHandlers(p)
    \/ \E z \in pending[p] : Replay(p, z)
    \/ FinishReplay(p)

Next == MqttThread \/ \E p \in Pipelines : PipelineThread(p)

Spec == Init /\ [][Next]_vars

-----------------------------------------------------------------------------
(* Properties *)

TypeOK ==
    /\ registry \in [Cameras -> {"absent", "disabled", "enabled"}]
    /\ \A c \in Cameras : \A e \in ToSet(latest_zones[c]) :
          e \in [key : {"id", "code"}, version : 1..MaxVersion]
    /\ cmd_handlers \in Pipelines \cup {None}
    /\ roi \in [Pipelines -> [Cameras -> 0..MaxVersion \cup {None}]]
    /\ on_message.at \in {"idle", "stored", "fetched"}
    /\ pipeline \in [Pipelines -> {"none", "build", "replay", "done"}]
    /\ newest \in [Cameras -> 0..MaxVersion]
    /\ heard \in [Cameras -> 0..MaxVersion]

(* What is retained last for a camera is the last message accepted for it, *)
(* whether messages came under its code or its id and however often it     *)
(* entered and left the registry; a registered camera has a single entry.  *)
LastMessageIsRetained ==
    \A c \in Cameras :
        /\ latest_zones[c] = <<>> <=> newest[c] = 0
        /\ latest_zones[c] # <<>> => Last(latest_zones[c]).version = newest[c]
        /\ registry[c] # "absent" => Keys(latest_zones[c]) \subseteq {"id"}

(* Zones that were accepted for a registered camera reach the engines that *)
(* receive commands, whichever of the message and the new pipeline came    *)
(* first: once all threads are quiet, no such engine is left with the ROI  *)
(* of the camera list.                                                     *)
Quiet(p) == cmd_handlers = p /\ pipeline[p] = "done" /\ on_message.at = "idle"

NoZonesLost ==
    \A p \in Pipelines, c \in Cameras :
        Quiet(p) /\ heard[c] # 0 => roi[p][c] # 0

(* "Install handlers and replay the latest retained ROI per camera"        *)
(* (docstring of set_cmd_handlers): once all threads are quiet, an engine  *)
(* that had zones applied has the latest retained ones.                    *)
LatestZonesApplied ==
    \A p \in Pipelines, c \in Cameras :
        Quiet(p) /\ Keys(latest_zones[c]) = {"id"} /\ roi[p][c] \notin {None, 0}
            => roi[p][c] = Last(latest_zones[c]).version

-----------------------------------------------------------------------------
(* The inductive invariant behind the theorems *)

Types ==
    /\ registry \in [Cameras -> {"absent", "disabled", "enabled"}]
    /\ DOMAIN latest_zones = Cameras
    /\ newest \in [Cameras -> 0..MaxVersion]
    /\ heard \in [Cameras -> 0..MaxVersion]
    /\ cmd_handlers \in Pipelines \cup {None}
    /\ roi \in [Pipelines -> [Cameras -> 0..MaxVersion \cup {None}]]
    /\ pipeline \in [Pipelines -> {"none", "build", "replay", "done"}]
    /\ pending \in [Pipelines -> SUBSET [camera : Cameras, key : {"id", "code"},
                                         version : 1..MaxVersion]]
    /\ on_message \in [at : {"idle", "stored", "fetched"}, camera : Cameras \cup {None},
                       key : {"id", "code", None}, version : 1..MaxVersion \cup {None},
                       handler : Pipelines \cup {None}]
    /\ on_message.at # "idle" => /\ on_message.camera \in Cameras
                                 /\ on_message.key \in {"id", "code"}
                                 /\ on_message.version \in 1..MaxVersion
    /\ on_message.at = "fetched" => on_message.handler \in Pipelines

(* What a camera's entries can be, n being the last version accepted for   *)
(* it.  A code is only ever added behind an id: the id is used while the   *)
(* camera is registered, and registering it has removed the code.          *)
EntriesSound(entries, n) ==
    \/ entries = <<>> /\ n = 0
    \/ n \in 1..MaxVersion /\ \E key \in {"id", "code"} : entries = <<Entry(key, n)>>
    \/ n \in 1..MaxVersion /\ \E v \in 1..MaxVersion :
          entries = <<Entry("id", v), Entry("code", n)>>

RetainedInv ==
    \A c \in Cameras :
        /\ EntriesSound(latest_zones[c], newest[c])
        /\ registry[c] # "absent" => Keys(latest_zones[c]) \subseteq {"id"}
        /\ heard[c] # 0 => "id" \in Keys(latest_zones[c])

(* A message that was heard under the camera's id is still to come to an   *)
(* engine that has not had one: it is to be replayed, or being delivered.  *)
ToBeReplayed(p, c) == \E z \in pending[p] : z.camera = c /\ z.key = "id"

BeingDelivered(p, c) ==
    /\ on_message.camera = c
    /\ on_message.key = "id"
    /\ \/ on_message.at = "stored"
       \/ on_message.at = "fetched" /\ on_message.handler = p

ZonesOnTheWay ==
    \A p \in Pipelines :
        /\ pipeline[p] = "done" => pending[p] = {}
        /\ cmd_handlers = p =>
              /\ pipeline[p] \in {"replay", "done"}
              /\ \A c \in Cameras : heard[c] # 0 /\ roi[p][c] = 0 =>
                    ToBeReplayed(p, c) \/ BeingDelivered(p, c)

ClientInv == Types /\ RetainedInv /\ ZonesOnTheWay

=============================================================================
