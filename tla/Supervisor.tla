----------------------------- MODULE Supervisor -----------------------------
(***************************************************************************)
(* The main loop of src/src/main.py: camera lists come in on the MQTT      *)
(* thread, the main thread replaces the running pipeline, and every        *)
(* pipeline lives in a thread of its own that builds its rule engines,     *)
(* wires them to the MQTT commands, builds the DeepStream pipeline and     *)
(* runs its GLib loop (src/src/pipeline/deepstream_pipeline.py).           *)
(*                                                                         *)
(* The loop object, not the thread, is what the main thread can stop: it   *)
(* exists only for a while after the pipeline plays, and GLib forgets a    *)
(* quit that comes before the loop runs.                                   *)
(***************************************************************************)
EXTENDS Naturals, Sequences, FiniteSets

CONSTANTS
    Lists,       \* signatures of camera lists with at least one active camera
    Empty,       \* signature of a list without any
    None,        \* Python's None
    MaxChanges   \* bound: accepted changes of the camera list, hence threads

ASSUME SupervisorAssumption ==
    /\ MaxChanges \in Nat
    /\ Empty \notin Lists
    /\ None \notin Lists \cup {Empty} \cup Nat

VARIABLES
    last_camera_signature,
    camera_config_queue,
    main,              \* main thread: [at, cameras]
    pipeline_thread,   \* the latest thread started, or None
    current_pipeline,  \* the pipeline assigned last, or None
    thread,            \* per pipeline thread: what it is doing
    cmd_handlers,      \* thread whose engines receive MQTT commands
    changes,           \* changes accepted so far
    served,            \* history: the list of the latest launch
    timed_out          \* history: a join gave up on a living thread

vars == <<last_camera_signature, camera_config_queue, main, pipeline_thread,
          current_pipeline, thread, cmd_handlers, changes, served, timed_out>>

Threads == 1..MaxChanges

Signatures == Lists \cup {Empty}

(* none: not started; build: rule engines; wired: commands installed, the  *)
(* pipeline under construction; made: assigned to current_pipeline;        *)
(* playing: set to PLAYING; looped: self.loop exists; running: inside      *)
(* loop.run(); quit: the loop ended; dead.                                 *)
Stage == {"none", "build", "wired", "made", "playing", "looped", "running", "quit", "dead"}

Alive(t) == thread[t] \notin {"none", "dead"}

Plays(t) == thread[t] \in {"playing", "looped", "running", "quit"}

Idle == [at |-> "get", cameras |-> None]

Init ==
    /\ last_camera_signature = None
    /\ camera_config_queue = <<>>
    /\ main = Idle
    /\ pipeline_thread = None
    /\ current_pipeline = None
    /\ thread = [t \in Threads |-> "none"]
    /\ cmd_handlers = None
    /\ changes = 0
    /\ served = None
    /\ timed_out = FALSE

-----------------------------------------------------------------------------
(* MQTT thread: on_camera_config_received.  A list with the signature of   *)
(* the last one is ignored, which leaves every variable as it is.          *)
CameraList(signature) ==
    /\ main.at # "exited"
    /\ changes < MaxChanges
    /\ signature # last_camera_signature
    /\ last_camera_signature' = signature
    /\ camera_config_queue' = Append(camera_config_queue, signature)
    /\ changes' = changes + 1
    /\ UNCHANGED <<main, pipeline_thread, current_pipeline, thread, cmd_handlers,
                   served, timed_out>>

-----------------------------------------------------------------------------
(* Main thread *)

(* Mutant of TakeConfig: older lists win, the rest of the queue is lost.   *)
TakeConfigAndDrain ==
    /\ main.at = "get"
    /\ camera_config_queue # <<>>
    /\ main' = [at |-> "stop_old", cameras |-> Head(camera_config_queue)]
    /\ camera_config_queue' = <<>>
    /\ UNCHANGED <<last_camera_signature, pipeline_thread, current_pipeline, thread,
                   cmd_handlers, changes, served, timed_out>>

TakeConfig ==
    /\ main.at = "get"
    /\ camera_config_queue # <<>>
    /\ main' = [at |-> "stop_old", cameras |-> Head(camera_config_queue)]
    /\ camera_config_queue' = Tail(camera_config_queue)
    /\ UNCHANGED <<last_camera_signature, pipeline_thread, current_pipeline, thread,
                   cmd_handlers, changes, served, timed_out>>

QuitLoop ==
    IF current_pipeline # None /\ thread[current_pipeline] = "running"
    THEN [thread EXCEPT ![current_pipeline] = "quit"] ELSE thread

(* Mutant of StopOld: nothing to start means nothing to stop.              *)
StopOldUnlessEmpty ==
    /\ main.at = "stop_old"
    /\ thread' = IF main.cameras = Empty THEN thread ELSE QuitLoop
    /\ main' = [main EXCEPT !.at = "join"]
    /\ UNCHANGED <<last_camera_signature, camera_config_queue, pipeline_thread,
                   current_pipeline, cmd_handlers, changes, served, timed_out>>

(* Only a loop that exists and runs is asked to quit.                      *)
StopOld ==
    /\ main.at = "stop_old"
    /\ thread' = QuitLoop
    /\ main' = [main EXCEPT !.at = "join"]
    /\ UNCHANGED <<last_camera_signature, camera_config_queue, pipeline_thread,
                   current_pipeline, cmd_handlers, changes, served, timed_out>>

OldAlive == pipeline_thread # None /\ Alive(pipeline_thread)

(* Mutant of Join: only a pipeline that got as far as its loop is awaited. *)
JoinRunningOnly ==
    /\ main.at = "join"
    /\ ~OldAlive \/ (OldAlive /\ thread[pipeline_thread] \in {"build", "wired", "made"})
    /\ main' = [main EXCEPT !.at = "launch"]
    /\ UNCHANGED <<last_camera_signature, camera_config_queue, pipeline_thread,
                   current_pipeline, thread, cmd_handlers, changes, served, timed_out>>

Join ==
    /\ main.at = "join"
    /\ ~OldAlive
    /\ main' = [main EXCEPT !.at = "launch"]
    /\ UNCHANGED <<last_camera_signature, camera_config_queue, pipeline_thread,
                   current_pipeline, thread, cmd_handlers, changes, served, timed_out>>

(* join(timeout=15) returns although the thread still lives.               *)
JoinTimeout ==
    /\ main.at = "join"
    /\ OldAlive
    /\ timed_out' = TRUE
    /\ main' = [main EXCEPT !.at = "launch"]
    /\ UNCHANGED <<last_camera_signature, camera_config_queue, pipeline_thread,
                   current_pipeline, thread, cmd_handlers, changes, served>>

Started == IF pipeline_thread = None THEN 0 ELSE pipeline_thread

NextThread == Started + 1

(* Mutant of Launch: the new thread is not remembered.                     *)
LaunchUntracked ==
    /\ main.at = "launch"
    /\ served' = main.cameras
    /\ thread' = IF main.cameras = Empty THEN thread
                 ELSE [thread EXCEPT ![NextThread] = "build"]
    /\ main' = Idle
    /\ UNCHANGED <<last_camera_signature, camera_config_queue, pipeline_thread,
                   current_pipeline, cmd_handlers, changes, timed_out>>

Launch ==
    /\ main.at = "launch"
    /\ served' = main.cameras
    /\ IF main.cameras = Empty
       THEN UNCHANGED <<thread, pipeline_thread>>
       ELSE /\ thread' = [thread EXCEPT ![NextThread] = "build"]
            /\ pipeline_thread' = NextThread
    /\ main' = Idle
    /\ UNCHANGED <<last_camera_signature, camera_config_queue, current_pipeline,
                   cmd_handlers, changes, timed_out>>

(* KeyboardInterrupt, wherever the main thread is.                         *)
Interrupt ==
    /\ main.at \notin {"exiting", "exited"}
    /\ thread' = QuitLoop
    /\ main' = [at |-> "exiting", cameras |-> None]
    /\ UNCHANGED <<last_camera_signature, camera_config_queue, pipeline_thread,
                   current_pipeline, cmd_handlers, changes, served, timed_out>>

(* After join(timeout=5) the process ends, and its daemon threads with it. *)
Exit ==
    /\ main.at = "exiting"
    /\ main' = [main EXCEPT !.at = "exited"]
    /\ thread' = [t \in Threads |-> IF Alive(t) THEN "dead" ELSE thread[t]]
    /\ UNCHANGED <<last_camera_signature, camera_config_queue, pipeline_thread,
                   current_pipeline, cmd_handlers, changes, served, timed_out>>

-----------------------------------------------------------------------------
(* Pipeline threads: run_pipeline_thread and DeepStreamAodPipeline.run     *)

ThreadStep(t, from, to) ==
    /\ main.at # "exited"
    /\ thread[t] = from
    /\ thread' = [thread EXCEPT ![t] = to]
    /\ UNCHANGED <<last_camera_signature, camera_config_queue, main, pipeline_thread,
                   changes, served, timed_out>>

SetCmdHandlers(t) ==
    /\ ThreadStep(t, "build", "wired")
    /\ cmd_handlers' = t
    /\ UNCHANGED current_pipeline

Assign(t) ==
    /\ ThreadStep(t, "wired", "made")
    /\ current_pipeline' = t
    /\ UNCHANGED cmd_handlers

SetPlaying(t) ==
    ThreadStep(t, "made", "playing") /\ UNCHANGED <<cmd_handlers, current_pipeline>>

CreateLoop(t) ==
    ThreadStep(t, "playing", "looped") /\ UNCHANGED <<cmd_handlers, current_pipeline>>

RunLoop(t) ==
    ThreadStep(t, "looped", "running") /\ UNCHANGED <<cmd_handlers, current_pipeline>>

(* EOS or ERROR on the bus.                                                *)
BusMessage(t) ==
    ThreadStep(t, "running", "quit") /\ UNCHANGED <<cmd_handlers, current_pipeline>>

(* set_state(NULL), and the thread ends.                                   *)
Teardown(t) ==
    ThreadStep(t, "quit", "dead") /\ UNCHANGED <<cmd_handlers, current_pipeline>>

(* An exception while the engines or the pipeline are built.               *)
BuildFails(t) ==
    /\ \E stage \in {"build", "wired"} : ThreadStep(t, stage, "dead")
    /\ UNCHANGED <<cmd_handlers, current_pipeline>>

Progress(t) ==
    \/ SetCmdHandlers(t)
    \/ Assign(t)
    \/ SetPlaying(t)
    \/ CreateLoop(t)
    \/ RunLoop(t)
    \/ Teardown(t)

MainStep == TakeConfig \/ StopOld \/ Join \/ JoinTimeout \/ Launch \/ Exit

Next ==
    \/ \E signature \in Signatures : CameraList(signature)
    \/ MainStep
    \/ Interrupt
    \/ \E t \in Threads : Progress(t) \/ BusMessage(t) \/ BuildFails(t)

Spec == Init /\ [][Next]_vars

(* Threads are scheduled, and a join returns, by the end of its thread or  *)
(* by its timeout.  Camera lists, bus messages, failures and the interrupt *)
(* may never come.                                                         *)
FairSpec == Spec /\ WF_vars(MainStep) /\ \A t \in Threads : WF_vars(Progress(t))

-----------------------------------------------------------------------------
(* Properties *)

TypeOK ==
    /\ last_camera_signature \in Signatures \cup {None}
    /\ camera_config_queue \in Seq(Signatures)
    /\ main \in [at : {"get", "stop_old", "join", "launch", "exiting", "exited"},
                 cameras : Signatures \cup {None}]
    /\ pipeline_thread \in Threads \cup {None}
    /\ current_pipeline \in Threads \cup {None}
    /\ thread \in [Threads -> Stage]
    /\ cmd_handlers \in Threads \cup {None}
    /\ changes \in 0..MaxChanges
    /\ served \in Signatures \cup {None}
    /\ timed_out \in BOOLEAN

(* As long as no join had to give up, there is one pipeline thread at a    *)
(* time, and once it has wired itself the MQTT commands and the next stop  *)
(* go to it and to no predecessor.                                         *)
CleanHandover ==
    ~timed_out =>
        /\ \A t, u \in Threads : Alive(t) /\ Alive(u) => t = u
        /\ \A t \in Threads : Alive(t) /\ thread[t] # "build" => cmd_handlers = t
        /\ \A t \in Threads : Plays(t) => current_pipeline = t

(* A pipeline found running when a new camera list is taken comes to an    *)
(* end, also when the new list has no active camera.  After a timed-out    *)
(* join it may not: a late thread can put itself into current_pipeline     *)
(* just before the stop, which then reaches the wrong pipeline.            *)
RunningPipelineIsStopped ==
    \A t \in Threads :
        (main.at = "stop_old" /\ thread[t] = "running" /\ ~timed_out)
            ~> thread[t] = "dead"

(* However many lists arrive while the main thread waits in a join, and    *)
(* whatever happens to the pipelines, the last list is the one acted upon  *)
(* in the end.                                                             *)
LastListIsServed ==
    <>[](main.at = "get") => <>[](served = last_camera_signature)

(* "Stop the old pipeline if it is running" (comment at main.py:142): no   *)
(* two pipelines play at the same time.                                    *)
OnePipelinePlays == Cardinality({t \in Threads : Plays(t)}) <= 1

-----------------------------------------------------------------------------
(* The inductive invariant behind the theorems *)

InHand == IF main.at \in {"stop_old", "join", "launch"} THEN 1 ELSE 0

(* Every thread comes from a change of its own, in order.                  *)
ThreadsFromChanges ==
    /\ Started + Len(camera_config_queue) + InHand <= changes
    /\ \A t \in Threads : thread[t] = "none" <=> t > Started
    /\ InHand = 1 => main.cameras \in Signatures

(* Without a timed-out join only the latest thread lives, none while the   *)
(* main thread is about to launch the next, and what it has published of   *)
(* itself is not overwritten.                                              *)
OnlyLatestLives ==
    ~timed_out =>
        /\ \A t \in Threads : Alive(t) => t = pipeline_thread
        /\ main.at = "launch" => \A t \in Threads : ~Alive(t)
        /\ \A t \in Threads : Alive(t) /\ thread[t] # "build" => cmd_handlers = t
        /\ \A t \in Threads : thread[t] = "made" \/ Plays(t) => current_pipeline = t

SupervisorInv ==
    /\ TypeOK
    /\ ThreadsFromChanges
    /\ OnlyLatestLives

=============================================================================
