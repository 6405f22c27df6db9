----------------------------- MODULE RuleEngine -----------------------------
(***************************************************************************)
(* AbandonmentRuleEngine (src/src/logic/abandonment_rules.py) with its     *)
(* object state tracker and its target gate, called by the FrameHandler of   *)
(* src/src/pipeline/probe_callbacks.py, as two threads:                    *)
(*                                                                         *)
(*   streaming thread  read the ROI; ObjectStateTracker.update, one object *)
(*                     after the other; put every verification request to  *)
(*                     the gate; drop the samples of dead tracks; look the *)
(*                     shown objects up again for the live boxes; publish  *)
(*   MQTT thread       update_roi: replace the ROI, clear the tracker and  *)
(*                     the tables of boxes, persons and vehicles, clear    *)
(*                     the gate                                            *)
(*                                                                         *)
(* Nothing locks the two against each other, so a step of one may fall     *)
(* between any two steps of the other.  The body of update for one object  *)
(* is one step: it holds the track it works on, and a clear in the middle  *)
(* of it has the effect of a clear before or after.                        *)
(***************************************************************************)
EXTENDS Naturals, FiniteSets

CONSTANTS
    Objects, Persons, Vehicles, None,
    AbandonmentDwell, OwnerLostGrace, MaxOcclusionGap, PickupConfirmGap,
    Confirmations, MaxSamples, RatioNum, RatioDen, SampleInterval,
    Horizon,
    DeferAbandonedEvent,    \* a target gate is configured
    RoiRequired             \* roi.required of the configuration

ASSUME RoiRequiredAssumption == RoiRequired \in BOOLEAN

(* Those of ObjectStateTracker and TemporalTargetGate.                     *)
ASSUME DurationAssumption ==
    /\ Horizon \in Nat
    /\ AbandonmentDwell \in 0..Horizon
    /\ OwnerLostGrace \in 0..Horizon
    /\ MaxOcclusionGap \in Nat /\ MaxOcclusionGap < Horizon
    /\ PickupConfirmGap \in 0..Horizon
    /\ SampleInterval \in 0..Horizon

ASSUME GateAssumption ==
    /\ Confirmations \in Nat \ {0}
    /\ MaxSamples \in Nat /\ MaxSamples >= Confirmations
    /\ RatioNum \in Nat /\ RatioDen \in Nat \ {0}
    /\ DeferAbandonedEvent \in BOOLEAN

ASSUME NoneAssumption ==
    /\ None \notin Nat \cup BOOLEAN
    /\ None \notin Objects
    /\ None \notin Persons
    /\ None \notin Vehicles
    /\ None \notin {"STATIC_WITH_OWNER", "STATIC_NO_OWNER", "AWAITING_TARGET", "ABANDONED"}

VARIABLES
    tracks, events, seen, baseline, owner_by,   \* ObjectStateTracker
    samples, last_sample_at,                    \* TemporalTargetGate
    roi_set,    \* the camera has a non-empty ROI
    pc,         \* streaming thread: "idle", "refused", "sighted", "missing", "gate",
                \* "publish"
    image,      \* process_frame was given a frame_bgr_small
    todo,       \* objects the loop in progress has not reached
    copied,     \* list(self.tracks.items()) of the second loop of update, as
                \* far as it has not been walked
    checked,    \* the object whose track was found and is about to be read again
    mq,         \* MQTT thread: "idle", "clear_tracks", "filter", "clear_gate"
    filtering,  \* size of self.tracks when clear_camera's walk over it began
    retired,    \* ids the latest update_roi took from the trackers of boxes while
                \* the gate knew them
    votes,      \* history: positive predictions in the life of the track
    announced   \* history: tracks whose object_abandoned was published

Tracker == INSTANCE ObjectStateTracker

Gate == INSTANCE TemporalTargetGate

trackerVars == <<tracks, events, seen, baseline, owner_by>>
gateVars == <<samples, last_sample_at>>
frameVars == <<pc, image, todo, copied, checked>>
roiVars == <<roi_set, mq, filtering, retired>>
history == <<votes, announced>>
vars == <<trackerVars, gateVars, frameVars, roiVars, history>>

NoTracks == [o \in {} |-> Tracker!NewTrack("CONFIRMING")]

Init ==
    /\ Tracker!Init
    /\ Gate!Init
    /\ roi_set \in BOOLEAN
    /\ pc = "idle"
    /\ image = FALSE
    /\ todo = {}
    /\ copied = NoTracks
    /\ checked = None
    /\ mq = "idle"
    /\ filtering = 0
    /\ retired = {}
    /\ votes = [o \in Objects |-> 0]
    /\ announced = {}

(* One unit of time is long against a frame and against update_roi, which  *)
(* is a handful of dictionary operations: none passes inside either.       *)
Tick ==
    /\ pc = "idle"
    /\ mq = "idle"
    /\ Tracker!Tick
    /\ Gate!Tick
    /\ UNCHANGED <<frameVars, roiVars, history>>

-----------------------------------------------------------------------------
(* Streaming thread: ObjectStateTracker.update *)

(* The ROI is read once; where one is required, an empty one means that    *)
(* the frame will not be processed.                                        *)
StartFrame ==
    /\ pc = "idle"
    /\ pc' = IF RoiRequired /\ ~roi_set THEN "refused" ELSE "sighted"
    /\ image' \in BOOLEAN
    /\ events' = {}
    /\ seen' = {}
    /\ UNCHANGED <<tracks, baseline, owner_by, gateVars, todo, copied, checked, roiVars, history>>

(* The frame follows the vehicles; one that goes on also the persons, and  *)
(* gets its boxes and their ids.                                           *)
BeforeUpdate == pc \in {"refused", "sighted"} /\ seen = {}

(* It ends there: it is refused, or its walk over a table of boxes raises  *)
(* RuntimeError because update_roi has just emptied that table.            *)
EndEarly ==
    /\ BeforeUpdate
    /\ pc = "refused" \/ mq = "clear_gate"
    /\ pc' = "idle"
    /\ UNCHANGED <<trackerVars, gateVars, image, todo, copied, checked, roiVars, history>>

(* Left alone long enough: a request to the gate, or without one the alert.*)
Raised(o, t) ==
    LET alerts == t.alerted /\ ~(o \in DOMAIN tracks /\ tracks[o].alerted)
        type == IF alerts THEN "object_abandoned" ELSE "target_verification_requested"
    IN IF alerts \/ t.state = "AWAITING_TARGET" THEN {Tracker!Event(type, o, t)} ELSE {}

(* First loop of update: an object the frame shows inside the ROI.  Its id *)
(* is a uuid4 of a tracker of boxes: the ids update_roi has taken away are *)
(* shown by a frame that got its boxes before, and then never again.       *)
Sight(o, blob) ==
    LET known == o \in DOMAIN tracks
        t == Tracker!Observe(o, blob)
        attended == t.owner_track_id # None /\ blob.distance[t.owner_track_id] = "near"
    IN
    /\ pc = "sighted"
    /\ o \notin seen
    /\ o \in retired => mq = "clear_gate"
    /\ seen' = seen \cup {o}
    /\ tracks' = [p \in DOMAIN tracks \cup {o} |-> IF p = o THEN t ELSE tracks[p]]
    /\ events' = events \cup Raised(o, t)
    /\ owner_by' = [owner_by EXCEPT ![o] = IF attended \/ ~known THEN 0 ELSE @]
    /\ UNCHANGED <<baseline, gateVars, frameVars, roiVars, history>>

(* The second loop walks a copy of the table.                              *)
CopyTracks ==
    /\ pc = "sighted"
    /\ pc' = "missing"
    /\ copied' = [o \in DOMAIN tracks \ seen |-> tracks[o]]
    /\ UNCHANGED <<trackerVars, gateVars, image, todo, checked, roiVars, history>>

(* An exception leaves process_frame or the FrameHandler: the events       *)
(* collected for the frame are lost.                                       *)
Abort ==
    /\ pc' = "idle"
    /\ events' = {}
    /\ todo' = {}
    /\ copied' = NoTracks
    /\ checked' = None

Without(o) == [p \in DOMAIN tracks \ {o} |-> tracks[p]]

(* Mutant of ClosingOf: also for a track that never alerted.               *)
ClosingOfAny(type, o, t) == {Tracker!Event(type, o, t)}

ClosingOf(type, o, t) == IF t.alerted THEN {Tracker!Event(type, o, t)} ELSE {}

(* The track is claimed or lost: its closing event is appended and the     *)
(* entry deleted.  Where clear_camera has replaced the table since it was  *)
(* copied, the entry is not there and del raises KeyError.                 *)
Leave(o, gap) ==
    LET t == copied[o]
        picked_up == Tracker!PickedUp(t)
    IN
    /\ pc = "missing"
    /\ picked_up \/ Tracker!LostFromView(t, gap)
    /\ IF o \in DOMAIN tracks
       THEN /\ tracks' = Without(o)
            /\ events' = events \cup ClosingOf(IF picked_up THEN "object_claimed"
                                                          ELSE "object_removed", o, t)
            /\ copied' = [p \in DOMAIN copied \ {o} |-> copied[p]]
            /\ votes' = [votes EXCEPT ![o] = 0]
            /\ announced' = announced \ {o}
            /\ UNCHANGED <<pc, todo, checked>>
       ELSE /\ Abort
            /\ UNCHANGED <<tracks, history>>
    /\ UNCHANGED <<seen, baseline, owner_by, gateVars, image, roiVars>>

Stay(o, gap) ==
    LET t == copied[o] IN
    /\ pc = "missing"
    /\ ~Tracker!PickedUp(t) /\ ~Tracker!LostFromView(t, gap)
    /\ tracks' = IF o \in DOMAIN tracks
                 THEN [tracks EXCEPT ![o] = Tracker!Missed(t, gap)] ELSE tracks
    /\ copied' = [p \in DOMAIN copied \ {o} |-> copied[p]]
    /\ UNCHANGED <<events, seen, baseline, owner_by, gateVars, pc, image, todo, checked, roiVars,
                   history>>

-----------------------------------------------------------------------------
(* Streaming thread: the gate *)

FinishUpdate ==
    /\ pc = "missing"
    /\ DOMAIN copied = {}
    /\ pc' = "gate"
    /\ todo' = {e.object_id : e \in
                  {f \in events : f.event_type = "target_verification_requested"}}
    /\ UNCHANGED <<trackerVars, gateVars, image, copied, checked, roiVars, history>>

Counts(o, prediction) == prediction = TRUE /\ Gate!Due(o, image)

Evaluate(o, prediction) ==
    LET decision == Gate!Decision(o, image, prediction) IN
    /\ pc = "gate"
    /\ o \in todo
    /\ todo' = todo \ {o}
    /\ \/ decision = "accept" /\ Tracker!ConfirmAbandoned(o) /\ Gate!Forget(o)
       \/ decision = "reject" /\ Tracker!RejectTarget(o) /\ Gate!Forget(o)
       \/ decision = "pending" /\ Gate!Record(o, image, prediction) /\ UNCHANGED trackerVars
    /\ votes' = IF Counts(o, prediction) /\ o \in DOMAIN tracks /\ votes[o] < Confirmations
                THEN [votes EXCEPT ![o] = @ + 1] ELSE votes
    /\ UNCHANGED <<pc, image, copied, checked, roiVars, announced>>

(* process_frame returns what the frame showed.                            *)
FinishFrame ==
    /\ pc = "gate"
    /\ todo = {}
    /\ Gate!Retain(DOMAIN tracks)
    /\ pc' = "publish"
    /\ todo' = seen
    /\ retired' = retired \cap DOMAIN tracks
    /\ UNCHANGED <<trackerVars, image, copied, checked, roi_set, mq, filtering, history>>

-----------------------------------------------------------------------------
(* Streaming thread: FrameHandler *)

(* _should_publish_detected_object.  Boxes on persons or vehicles and      *)
(* unpublishable ones are passed over.                                     *)
PassOver(o) ==
    /\ pc = "publish"
    /\ checked = None
    /\ o \in todo
    /\ todo' = todo \ {o}
    /\ UNCHANGED <<trackerVars, gateVars, pc, image, copied, checked, roiVars, history>>

CheckTrack(o) ==
    /\ pc = "publish"
    /\ checked = None
    /\ o \in todo
    /\ o \in DOMAIN tracks
    /\ tracks[o].state # "IGNORED"
    /\ todo' = todo \ {o}
    /\ checked' = o
    /\ UNCHANGED <<trackerVars, gateVars, pc, image, copied, roiVars, history>>

(* The track is read again by subscript, which raises if update_roi has    *)
(* cleared the tracker since the check.                                    *)
ReadTrack ==
    /\ pc = "publish"
    /\ checked # None
    /\ IF checked \in DOMAIN tracks
       THEN checked' = None /\ UNCHANGED <<events, pc, todo, copied>>
       ELSE Abort
    /\ UNCHANGED <<tracks, seen, baseline, owner_by, gateVars, image, roiVars, history>>

Opened == {e.object_id : e \in {f \in events : f.event_type = "object_abandoned"}}

(* The live boxes and then the events are given to the MQTT client, which  *)
(* drops closing events, as configured.                                    *)
Publish ==
    /\ pc = "publish"
    /\ checked = None
    /\ todo = {}
    /\ pc' = "idle"
    /\ announced' = announced \cup (Opened \cap DOMAIN tracks)
    /\ UNCHANGED <<trackerVars, gateVars, image, todo, copied, checked, roiVars, votes>>

-----------------------------------------------------------------------------
(* MQTT thread: update_roi *)

ReplaceRoi(nonempty) ==
    /\ mq = "idle"
    /\ roi_set' = nonempty
    /\ mq' = "clear_tracks"
    /\ UNCHANGED <<trackerVars, gateVars, frameVars, filtering, retired, history>>

(* clear_camera walks self.tracks to build the new table.                  *)
FilterTracks ==
    /\ mq = "clear_tracks"
    /\ mq' = "filter"
    /\ filtering' = Cardinality(DOMAIN tracks)
    /\ UNCHANGED <<trackerVars, gateVars, frameVars, roi_set, retired, history>>

(* What the gate has samples of, or is being asked about.                  *)
Known == {o \in Objects : samples[o] # Gate!NoSamples}
            \cup {e.object_id : e \in {f \in events : f.event_type = "target_verification_requested"}}

(* Mutant of ClearTracks: open alerts survive the change of the ROI.       *)
ClearTracksKeepingAlerts ==
    /\ mq = "filter"
    /\ tracks' = [o \in {p \in DOMAIN tracks : tracks[p].alerted} |-> tracks[o]]
    /\ mq' = "clear_gate"
    /\ filtering' = 0
    /\ retired' = Known
    /\ UNCHANGED <<events, seen, baseline, owner_by, gateVars, frameVars, roi_set, history>>

(* The new table replaces the old one, and what was put into the old one   *)
(* meanwhile goes with it.  The trackers of boxes are emptied next.        *)
ClearTracks ==
    /\ mq = "filter"
    /\ Tracker!ClearCamera
    /\ mq' = "clear_gate"
    /\ filtering' = 0
    /\ retired' = Known
    /\ votes' = [o \in Objects |-> 0]
    /\ announced' = {}
    /\ UNCHANGED <<gateVars, frameVars, roi_set>>

(* The table changed size under the walk: RuntimeError leaves update_roi,  *)
(* and the command is answered with an error.                              *)
FilterFails ==
    /\ mq = "filter"
    /\ filtering # Cardinality(DOMAIN tracks)
    /\ mq' = "idle"
    /\ filtering' = 0
    /\ UNCHANGED <<trackerVars, gateVars, frameVars, roi_set, retired, history>>

(* The walks over the tables of persons, dwelling vehicles and vehicle     *)
(* tracks come before the gate: a frame that changes the size of one of    *)
(* them makes its walk raise, and the gate is not cleared.                 *)
ClearFails ==
    /\ mq = "clear_gate"
    /\ BeforeUpdate
    /\ mq' = "idle"
    /\ UNCHANGED <<trackerVars, gateVars, frameVars, roi_set, filtering, retired, history>>

ClearGate ==
    /\ mq = "clear_gate"
    /\ Gate!Clear
    /\ mq' = "idle"
    /\ retired' = {}
    /\ UNCHANGED <<trackerVars, frameVars, roi_set, filtering, history>>

-----------------------------------------------------------------------------

Update ==
    \/ \E o \in Objects :
          \/ \E blob \in Tracker!Blob : Sight(o, blob)
          \/ o \in DOMAIN copied /\ \E gap \in Tracker!Gap : Leave(o, gap) \/ Stay(o, gap)
    \/ EndEarly
    \/ CopyTracks

Verify ==
    \/ FinishUpdate
    \/ \E o \in Objects, prediction \in {TRUE, FALSE, None} : Evaluate(o, prediction)
    \/ FinishFrame

HandleFrame ==
    \/ \E o \in Objects : PassOver(o) \/ CheckTrack(o)
    \/ ReadTrack
    \/ Publish

UpdateRoi ==
    \/ \E nonempty \in BOOLEAN : ReplaceRoi(nonempty)
    \/ FilterTracks
    \/ ClearTracks
    \/ FilterFails
    \/ ClearFails
    \/ ClearGate

Next ==
    \/ Tick
    \/ StartFrame
    \/ Update
    \/ Verify
    \/ HandleFrame
    \/ UpdateRoi

Spec == Init /\ [][Next]_vars

-----------------------------------------------------------------------------
(* Properties *)

(* Every variable has its type.                                            *)
TypeOK ==
    /\ Tracker!TypeOK
    /\ samples \in [Objects -> Gate!Tally]
    /\ last_sample_at \in [Objects -> Tracker!Age \cup {None}]
    /\ roi_set \in BOOLEAN
    /\ pc \in {"idle", "refused", "sighted", "missing", "gate", "publish"}
    /\ image \in BOOLEAN
    /\ todo \subseteq Objects
    /\ DOMAIN copied \subseteq Objects
    /\ checked \in Objects \cup {None}
    /\ mq \in {"idle", "clear_tracks", "filter", "clear_gate"}
    /\ filtering \in 0..Cardinality(Objects)
    /\ retired \subseteq Objects
    /\ votes \in [Objects -> 0..Confirmations]
    /\ announced \subseteq Objects

(* Fail closed (docs/TRASH_ONLY_DEPLOYMENT.md, decision contract 6): an    *)
(* alert is raised only after the required number of positive predictions  *)
(* was made for this very track, not for one that had the id before it, and*)
(* not for one that an ROI replacement has cleared meanwhile.              *)
AlertNeedsConsensus ==
    [][\A o \in Objects :
         ~Tracker!Alerted(o) /\ Tracker!Alerted(o)' => votes'[o] >= Confirmations]_vars

(* Between frames, and with no ROI command under way, the gate holds       *)
(* samples of live tracks, and beside them only what an update_roi that    *)
(* failed before its last line has left there: of ids that no box bears any*)
(* more, and until the next frame that is processed.                       *)
SamplesBelongToTracks ==
    pc = "idle" /\ mq = "idle" =>
        \A o \in Objects : samples[o] # Gate!NoSamples => o \in DOMAIN tracks \cup retired

(* The lifecycle promise of AlertLifecycle holds of the whole engine, with *)
(* the gate deciding and ROI commands interleaved anywhere in a frame.     *)
EngineImplementsLifecycle == Tracker!ImplementsLifecycle

(* Samples that keep coming lead to a verdict: an object cannot be awaiting*)
(* verification for ever while usable predictions are made for it.         *)
Sampled(o) == \E prediction \in BOOLEAN : Evaluate(o, prediction) /\ Gate!Due(o, image)

VerdictIsReached ==
    \A o \in Objects :
        []<><<Sampled(o)>>_vars =>
            []<>(o \in DOMAIN tracks => tracks[o].state # "AWAITING_TARGET")

(* An alert is never lost on the way out of the engine: when the frame is  *)
(* over, every alerted track has had its object_abandoned published, though*)
(* a frame that update_roi disturbs in the second loop of update or in the *)
(* FrameHandler's second lookup loses all its events.  (A track alerts only*)
(* once, so a lost event would never be made up for.)                      *)
AlertedIsAnnounced ==
    pc = "idle" => \A o \in Objects : Tracker!Alerted(o) => o \in announced

(* "old candidates cannot leak" (docstring of update_roi): once an ROI was *)
(* removed and neither thread is busy, no candidate is left.               *)
OldCandidatesDoNotLeak ==
    pc = "idle" /\ mq = "idle" /\ ~roi_set => DOMAIN tracks = {}

(* Without the exception for a failed update_roi, which MCGateResidue.cfg  *)
(* shows: "Atomically replace ROI-facing state" (the same docstring).      *)
NoSamplesWithoutTrack ==
    pc = "idle" /\ mq = "idle" =>
        \A o \in Objects : samples[o] # Gate!NoSamples => o \in DOMAIN tracks

-----------------------------------------------------------------------------
(* The inductive invariants behind the theorems *)

Types ==
    /\ Tracker!TypeOK
    /\ samples \in [Objects -> [positives : Nat, negatives : Nat]]
    /\ pc \in {"idle", "refused", "sighted", "missing", "gate", "publish"}
    /\ mq \in {"idle", "clear_tracks", "filter", "clear_gate"}
    /\ DOMAIN copied \subseteq Objects
    /\ checked \in Objects \cup {None}
    /\ votes \in [Objects -> 0..Confirmations]

(* What the second loop of update has not walked yet is as it was copied,  *)
(* or the table was cleared; the same for the object the FrameHandler has  *)
(* found and not yet read.  So a frame is only given up when nothing is    *)
(* left that could be reported.                                            *)
WalkSound ==
    /\ pc = "missing" => \/ DOMAIN tracks = {}
                         \/ \A o \in DOMAIN copied : o \in DOMAIN tracks /\ copied[o] = tracks[o]
    /\ checked # None => pc = "publish" /\ (checked \in DOMAIN tracks \/ DOMAIN tracks = {})

(* An alert is announced, or its event is on the way.                      *)
AlertsUnderWay ==
    \A o \in Objects : Tracker!Alerted(o) => o \in announced \/ (pc # "idle" /\ o \in Opened)

(* Before a frame reaches the tracker nothing has been collected.          *)
NothingCollected == BeforeUpdate => events = {}

(* The gate knows no object the tracker does not know, retired ones apart, *)
(* except while the requests of a frame are answered; a walk that is going *)
(* to fail has only retired ones in the gate.                              *)
GateFollowsTracker ==
    /\ pc \in {"idle", "refused", "sighted", "publish"} =>
          \A o \in Objects : samples[o] # Gate!NoSamples => o \in DOMAIN tracks \cup retired
    /\ pc = "missing" /\ ~(DOMAIN copied \subseteq DOMAIN tracks) =>
          \A o \in Objects : samples[o] # Gate!NoSamples => o \in retired

EngineInv == Types /\ WalkSound /\ AlertsUnderWay /\ NothingCollected /\ GateFollowsTracker

(* The positives the gate holds for a track were votes for this track.     *)
Backed(o) == samples[o].positives <= votes[o] \/ votes[o] = Confirmations

(* No absence is older than the tracks themselves.                         *)
JustSeen(t) ==
    /\ t.owner_left_at \in {None, 0}
    /\ t.owner_absent_since \in {None, 0}
    /\ "AWAITING_TARGET" \notin {t.state, t.state_before_pending_claim}

Requests == {e \in events : e.event_type = "target_verification_requested"}

(* Stale samples can do no harm: those of a track that is not backed are of*)
(* a retired id, and no retired id is asked about.  While update_roi stands*)
(* between the tracker and the gate, no track that is known is asked about.*)
VotesCount ==
    /\ \A e \in Requests : e.object_id \in seen
    /\ \A o \in DOMAIN tracks : Backed(o) \/ o \in retired
    /\ mq # "clear_gate" =>
          \A e \in Requests : e.object_id \notin DOMAIN tracks \cap retired
    /\ mq = "clear_gate" => /\ \A o \in DOMAIN tracks : JustSeen(tracks[o])
                            /\ \A e \in Requests : e.object_id \notin DOMAIN tracks

=============================================================================
