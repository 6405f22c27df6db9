------------------------- MODULE ObjectStateTracker -------------------------
(***************************************************************************)
(* The per-object state machine of src/src/tracking/object_state_tracker.py*)
(* for one camera (main.py builds one rule engine, hence one tracker, per  *)
(* camera).                                                                *)
(*                                                                         *)
(* A timestamp t of the code is held as its age, now - t, saturated at     *)
(* Horizon.  The code only compares ages with the configured durations and *)
(* copies timestamps, so a Horizon above every duration loses nothing, and *)
(* the model needs no bound on time.  A frame is instantaneous; any number *)
(* of frames, also none, may fall between two ticks.                       *)
(*                                                                         *)
(* What a frame shows of an object is its sighting: whether a blob inside  *)
(* the ROI carries its id, whether that blob has enough consecutive hits,  *)
(* the owner and vehicle association offered for it, how far every person  *)
(* is from it, and whether a person overlaps its last box.  Boxes, labels, *)
(* confidences and dwell figures are payload and are left out.             *)
(***************************************************************************)
EXTENDS Naturals

CONSTANTS
    Objects,            \* object ids handed out by the blob / detector tracker
    Persons,            \* person track ids
    Vehicles,           \* vehicle track ids
    None,               \* Python's None
    AbandonmentDwell,   \* abandonment_dwell_seconds
    OwnerLostGrace,     \* owner_lost_grace_seconds
    MaxOcclusionGap,    \* max_occlusion_gap_seconds
    PickupConfirmGap,   \* pickup_confirm_gap_seconds
    Horizon,            \* ages saturate here
    DeferAbandonedEvent \* TRUE when a target gate decides on alerts

ASSUME DurationAssumption ==
    /\ Horizon \in Nat
    /\ AbandonmentDwell \in 0..Horizon
    /\ OwnerLostGrace \in 0..Horizon
    /\ MaxOcclusionGap \in Nat /\ MaxOcclusionGap < Horizon
    /\ PickupConfirmGap \in 0..Horizon

ASSUME NoneAssumption ==
    /\ None \notin Nat
    /\ None \notin Persons
    /\ None \notin Vehicles
    /\ None \notin {"STATIC_WITH_OWNER", "STATIC_NO_OWNER", "AWAITING_TARGET", "ABANDONED"}

ASSUME DeferAssumption == DeferAbandonedEvent \in BOOLEAN

VARIABLES
    tracks,     \* self.tracks: object id -> ObjectTrack
    events,     \* the events of the frame in progress
    seen,       \* seen_ids of the latest update
    baseline,   \* in_baseline_period of the camera
    owner_by    \* history: age of the last frame that showed the object with
                \* its owner within the base distance (or of its first frame)

vars == <<tracks, events, seen, baseline, owner_by>>

-----------------------------------------------------------------------------
(* State *)

Age == 0..Horizon

Watched == {"STATIC_WITH_OWNER", "STATIC_NO_OWNER", "AWAITING_TARGET"}

Claimable == Watched \cup {"ABANDONED"}

TrackState == Claimable \cup {"CONFIRMING", "PENDING_CLAIM", "BACKGROUND", "IGNORED"}

ObjectTrack ==
    [state : TrackState,
     owner_track_id : Persons \cup {None},
     related_vehicle_id : Vehicles \cup {None},
     owner_left_at : Age \cup {None},
     owner_absent_since : Age \cup {None},
     owner_last_seen_near_at : Age \cup {None},
     last_seen_at : Age,
     pending_claim_at : Age \cup {None},
     state_before_pending_claim : Claimable \cup {None},
     alerted : BOOLEAN]

NewTrack(state) ==
    [state |-> state,
     owner_track_id |-> None,
     related_vehicle_id |-> None,
     owner_left_at |-> None,
     owner_absent_since |-> None,
     owner_last_seen_near_at |-> None,
     last_seen_at |-> 0,
     pending_claim_at |-> None,
     state_before_pending_claim |-> None,
     alerted |-> FALSE]

(* Distance to the object against owner_distance_threshold_px: within it,  *)
(* within 1.5 times it, or beyond (a person not in the frame is beyond).   *)
Distance == {"near", "margin", "far"}

Blob ==
    [shown : {TRUE},
     static : BOOLEAN,                      \* consecutive_hits >= static_confirm_frames
     owner_hint : Persons \cup {None},
     owner_lookup : Persons \cup {None},    \* owner_lookup_fn(centroid)
     vehicle_hint : Vehicles \cup {None},
     distance : [Persons -> Distance]]

Gap == [shown : {FALSE}, overlapped : BOOLEAN]

Sighting == Blob \cup Gap

Or(value, default) == IF value = None THEN default ELSE value

Event(type, o, t) ==
    [event_type |-> type,
     object_id |-> o,
     incident_type |-> IF t.owner_track_id # None /\ t.related_vehicle_id # None
                       THEN "illegal_dumping" ELSE "trash_accumulation"]

-----------------------------------------------------------------------------
(* One track in a frame that shows it *)

(* Mutant of Touched: the latest hint wins.                                *)
TouchedLatestHint(t, b) ==
    [t EXCEPT !.last_seen_at = 0,
              !.owner_track_id = Or(b.owner_hint, @),
              !.related_vehicle_id = Or(b.vehicle_hint, @)]

(* touch and the association hints; the first hint of each kind sticks.    *)
Touched(t, b) ==
    [t EXCEPT !.last_seen_at = 0,
              !.owner_track_id = Or(@, b.owner_hint),
              !.related_vehicle_id = Or(@, b.vehicle_hint)]

(* The blob is back at the old place: only an occlusion.                   *)
Reappeared(t) ==
    IF t.state # "PENDING_CLAIM" THEN t
    ELSE [t EXCEPT !.state = Or(t.state_before_pending_claim, "STATIC_NO_OWNER"),
                   !.pending_claim_at = None,
                   !.state_before_pending_claim = None]

(* Enough consecutive hits: infer the owner once and start watching.       *)
Confirmed(t, b) ==
    IF t.state # "CONFIRMING" \/ ~b.static THEN t
    ELSE LET owner == Or(t.owner_track_id, b.owner_lookup)
         IN [t EXCEPT !.owner_track_id = owner,
                      !.state = IF owner # None THEN "STATIC_WITH_OWNER"
                                                ELSE "STATIC_NO_OWNER"]

(* Hysteresis: the wider distance counts while the owner is with it.       *)
ActuallyNearby(t, b) ==
    /\ t.owner_track_id # None
    /\ \/ b.distance[t.owner_track_id] = "near"
       \/ b.distance[t.owner_track_id] = "margin" /\ t.state = "STATIC_WITH_OWNER"

(* Mutant of Presence: a returning owner does not end the absence.         *)
PresenceKeepsAbsence(t, near) ==
    [t EXCEPT !.owner_last_seen_near_at = IF near THEN 0 ELSE @,
              !.owner_absent_since = Or(@, 0)]

(* The two clocks of the owner's presence.                                 *)
Presence(t, near) ==
    IF near
    THEN [t EXCEPT !.owner_last_seen_near_at = 0, !.owner_absent_since = None]
    ELSE [t EXCEPT !.owner_absent_since = Or(@, 0)]

WithinGrace(t) ==
    /\ t.owner_last_seen_near_at # None
    /\ t.owner_last_seen_near_at < OwnerLostGrace

(* Mutant of Attended: owner_left_at survives the owner's return.          *)
AttendedKeepsDeparture(t, near) == [t EXCEPT !.state = "STATIC_WITH_OWNER"]

(* The owner is near, or was a moment ago: back to, or still, attended.    *)
Attended(t, near) ==
    [t EXCEPT !.state = "STATIC_WITH_OWNER",
              !.owner_left_at = IF near THEN None ELSE @]

(* The owner is gone; owner_left_at dates from the start of the absence.   *)
Unattended(t) ==
    [t EXCEPT !.state = IF @ = "STATIC_WITH_OWNER" THEN "STATIC_NO_OWNER" ELSE @,
              !.owner_left_at = IF t.state = "STATIC_WITH_OWNER" \/ @ = None
                                THEN Or(t.owner_absent_since, 0) ELSE @]

Confirm(t) == [t EXCEPT !.alerted = TRUE, !.state = "ABANDONED"]

(* Left alone long enough: ask the gate, or alert at once.                 *)
Escalated(t) ==
    IF t.owner_left_at >= AbandonmentDwell /\ ~t.alerted
    THEN IF DeferAbandonedEvent THEN [t EXCEPT !.state = "AWAITING_TARGET"]
                                ELSE Confirm(t)
    ELSE t

Judged(t, b) ==
    LET near == ActuallyNearby(t, b)
        p == Presence(t, near)
    IN IF near \/ WithinGrace(p) THEN Attended(p, near) ELSE Escalated(Unattended(p))

(* The body of the loop over blob_results for a track that exists.         *)
Shown(t, b) ==
    LET touched == Touched(t, b)
        known == Confirmed(Reappeared(touched), b)
    IN IF touched.state \in {"BACKGROUND", "IGNORED"} THEN touched
       ELSE IF known.state \in Watched THEN Judged(known, b) ELSE known

(* Seen in this frame.  Anything first seen while the baseline is learnt   *)
(* belongs to the scene.                                                   *)
Observe(o, b) ==
    IF o \in DOMAIN tracks THEN Shown(tracks[o], b)
    ELSE IF baseline THEN NewTrack("BACKGROUND")
    ELSE Shown(NewTrack("CONFIRMING"), b)

-----------------------------------------------------------------------------
(* One track in a frame that does not show it *)

(* Mutant of Overlapped: the states that are never claimed are not skipped. *)
OverlappedInAnyState(t, g) == g.overlapped

Overlapped(t, g) == g.overlapped /\ t.state \in Claimable

(* Mutant of PickedUp: only alerted tracks are claimed.                    *)
PickedUpIfAlerted(t) ==
    /\ t.state = "PENDING_CLAIM"
    /\ t.pending_claim_at >= PickupConfirmGap
    /\ t.alerted

PickedUp(t) ==
    /\ t.state = "PENDING_CLAIM"
    /\ t.pending_claim_at >= PickupConfirmGap

LostFromView(t, g) ==
    /\ t.state \notin {"BACKGROUND", "PENDING_CLAIM"}
    /\ ~Overlapped(t, g)
    /\ t.last_seen_at > MaxOcclusionGap

Missed(t, g) ==
    IF Overlapped(t, g)
    THEN [t EXCEPT !.state_before_pending_claim = t.state,
                   !.state = "PENDING_CLAIM",
                   !.pending_claim_at = 0]
    ELSE t

-----------------------------------------------------------------------------
(* Operations *)

Init ==
    /\ tracks = [o \in {} |-> NewTrack("CONFIRMING")]
    /\ events = {}
    /\ seen = {}
    /\ baseline \in BOOLEAN
    /\ owner_by = [o \in Objects |-> 0]

Older(age) == IF age < Horizon THEN age + 1 ELSE Horizon

OlderOrNone(age) == IF age = None THEN None ELSE Older(age)

Aged(t) ==
    [t EXCEPT !.owner_left_at = OlderOrNone(@),
              !.owner_absent_since = OlderOrNone(@),
              !.owner_last_seen_near_at = OlderOrNone(@),
              !.last_seen_at = Older(@),
              !.pending_claim_at = OlderOrNone(@)]

(* One unit of time passes between frames; the events of the last frame    *)
(* were handed over.  The baseline may end with any tick.                  *)
Tick ==
    /\ tracks' = [o \in DOMAIN tracks |-> Aged(tracks[o])]
    /\ owner_by' = [o \in Objects |-> Older(owner_by[o])]
    /\ events' = {}
    /\ baseline' \in {baseline, FALSE}
    /\ UNCHANGED seen

(* Mutant of Closings: also for tracks that never alerted.                 *)
ClosingsForAll(type, S) == {Event(type, o, tracks[o]) : o \in S}

(* A closing event is only due when object_abandoned was published.        *)
Closings(type, S) == {Event(type, o, tracks[o]) : o \in {p \in S : tracks[p].alerted}}

(* update: every sighted object, then every other track.                   *)
Update(frame) ==
    LET shown == {o \in Objects : frame[o].shown}
        missing == DOMAIN tracks \ shown
        claimed == {o \in missing : PickedUp(tracks[o])}
        lost == {o \in missing : LostFromView(tracks[o], frame[o])}
    IN
    /\ tracks' = [o \in shown \cup (missing \ (claimed \cup lost)) |->
                    IF o \in shown THEN Observe(o, frame[o])
                                   ELSE Missed(tracks[o], frame[o])]
    /\ events' =
         {Event("object_abandoned", o, tracks'[o]) : o \in
             {p \in shown : tracks'[p].alerted
                            /\ ~(p \in DOMAIN tracks /\ tracks[p].alerted)}}
         \cup {Event("target_verification_requested", o, tracks'[o]) : o \in
             {p \in shown : tracks'[p].state = "AWAITING_TARGET"}}
         \cup Closings("object_claimed", claimed)
         \cup Closings("object_removed", lost)
    /\ seen' = shown
    /\ owner_by' = [o \in Objects |->
                      IF o \in shown /\ \/ o \notin DOMAIN tracks
                                        \/ /\ tracks'[o].owner_track_id # None
                                           /\ frame[o].distance[tracks'[o].owner_track_id] = "near"
                      THEN 0 ELSE owner_by[o]]
    /\ UNCHANGED baseline

Requested(o) ==
    \E e \in events : /\ e.object_id = o
                      /\ e.event_type = "target_verification_requested"

RequestOf(o) ==
    {e \in events : e.object_id = o /\ e.event_type = "target_verification_requested"}

(* confirm_abandoned, called by the rule engine for a request of the same  *)
(* frame that the gate accepts; no event when the track is gone.           *)
ConfirmAbandoned(o) ==
    /\ Requested(o)
    /\ IF o \in DOMAIN tracks /\ ~tracks[o].alerted
       THEN /\ tracks' = [tracks EXCEPT ![o] = Confirm(@)]
            /\ events' = (events \ RequestOf(o))
                           \cup {Event("object_abandoned", o, tracks'[o])}
       ELSE /\ events' = events \ RequestOf(o)
            /\ UNCHANGED tracks
    /\ UNCHANGED <<seen, baseline, owner_by>>

(* reject_target, for a request the gate rejects.                          *)
RejectTarget(o) ==
    /\ Requested(o)
    /\ tracks' = IF o \in DOMAIN tracks /\ ~tracks[o].alerted
                 THEN [tracks EXCEPT ![o].state = "IGNORED"] ELSE tracks
    /\ events' = events \ RequestOf(o)
    /\ UNCHANGED <<seen, baseline, owner_by>>

(* clear_camera: the ROI of the camera was replaced, possibly while the    *)
(* rule engine still works on the events of a frame.                       *)
ClearCamera ==
    /\ tracks' = [o \in {} |-> NewTrack("CONFIRMING")]
    /\ UNCHANGED <<events, seen, baseline, owner_by>>

Next ==
    \/ Tick
    \/ \E frame \in [Objects -> Sighting] : Update(frame)
    \/ \E o \in Objects : ConfirmAbandoned(o)
    \/ \E o \in Objects : RejectTarget(o)
    \/ ClearCamera

Spec == Init /\ [][Next]_vars

(* Time passes and frames keep coming while a pipeline plays; what they    *)
(* show is up to the scene.  So an object that is out of view is not in    *)
(* some next frame either, and one seen without its owner is seen so again,*)
(* unless the scene changes.                                               *)
FrameWithout(o) ==
    /\ o \notin seen
    /\ \E frame \in [Objects -> Sighting] : ~frame[o].shown /\ Update(frame)

FrameAlone(o) ==
    /\ o \in seen \cap DOMAIN tracks
    /\ tracks[o].owner_absent_since # None
    /\ \E frame \in [Objects -> Sighting] :
          /\ frame[o].shown
          /\ \A p \in Persons : frame[o].distance[p] = "far"
          /\ Update(frame)

Fairness ==
    /\ WF_vars(Tick)
    /\ \A o \in Objects : WF_vars(FrameWithout(o)) /\ WF_vars(FrameAlone(o))

FairSpec == Spec /\ Fairness

-----------------------------------------------------------------------------
(* Properties *)

EventRecord ==
    [event_type : {"object_abandoned", "target_verification_requested",
                   "object_claimed", "object_removed"},
     object_id : Objects,
     incident_type : {"illegal_dumping", "trash_accumulation"}]

(* Every variable of the tracker holds what the code would put there.      *)
TypeOK ==
    /\ DOMAIN tracks \subseteq Objects
    /\ tracks \in [DOMAIN tracks -> ObjectTrack]
    /\ events \subseteq EventRecord
    /\ seen \subseteq Objects
    /\ baseline \in BOOLEAN
    /\ owner_by \in [Objects -> Age]

(* The claim fields of update are set and cleared together: a track waits  *)
(* in PENDING_CLAIM exactly while it holds both the time it started and    *)
(* the state to return to.  A track that kept a stale pending_claim_at     *)
(* would be claimed at once by the next passer-by.                         *)
ClaimConsistent(t) ==
    /\ t.state = "PENDING_CLAIM" <=> t.pending_claim_at # None
    /\ t.state = "PENDING_CLAIM" <=> t.state_before_pending_claim # None

PendingClaimConsistent == \A o \in DOMAIN tracks : ClaimConsistent(tracks[o])

(* A track is alerted exactly while it is ABANDONED, also while a person   *)
(* hides it: nobody walking past or standing by turns an alerted object    *)
(* back into one that could alert again (object_state_tracker.py:164-167). *)
AlertConsistent(t) ==
    t.alerted <=> "ABANDONED" \in {t.state, t.state_before_pending_claim}

AlertedIffAbandoned == \A o \in DOMAIN tracks : AlertConsistent(tracks[o])

(* What owner_left_at means across the grace period, hysteresis and        *)
(* occlusions: an attended object has none, an unattended one has the      *)
(* start of the current absence, and a request to the gate is only pending *)
(* for an object left alone for the full dwell.                            *)
StateUnderClaim(t) == Or(t.state_before_pending_claim, t.state)

DepartureSound(t) ==
    /\ StateUnderClaim(t) = "STATIC_WITH_OWNER" => t.owner_left_at = None
    /\ StateUnderClaim(t) \in {"STATIC_NO_OWNER", "AWAITING_TARGET"} =>
          t.owner_left_at # None /\ t.owner_left_at = t.owner_absent_since
    /\ StateUnderClaim(t) = "AWAITING_TARGET" => t.owner_left_at >= AbandonmentDwell

DepartureClockSound == \A o \in DOMAIN tracks : DepartureSound(tracks[o])

(* update and confirm_abandoned alert only for an object whose owner was   *)
(* not within the base distance in any frame that showed the object during *)
(* the last abandonment_dwell_seconds.                                     *)
Alerted(o) == o \in DOMAIN tracks /\ tracks[o].alerted

AlertOnlyAfterAbsence ==
    [][\A o \in Objects : ~Alerted(o) /\ Alerted(o)' => owner_by'[o] >= AbandonmentDwell]_vars

(* Part of the scene, or rejected by the gate: such a track stays what it  *)
(* is until it is dropped, whoever comes near it, whatever hides it.       *)
SilentStaysSilent ==
    [][\A o \in DOMAIN tracks \cap DOMAIN tracks' :
          tracks[o].state \in {"BACKGROUND", "IGNORED"} => tracks'[o].state = tracks[o].state]_vars

(* The person and the vehicle an incident is attributed to are fixed by    *)
(* the first association and never replaced while the track lives, through *)
(* occlusion, alert and verification.                                      *)
AttributionIsFinal ==
    [][\A o \in DOMAIN tracks \cap DOMAIN tracks' :
          /\ tracks[o].owner_track_id \in {None, tracks'[o].owner_track_id}
          /\ tracks[o].related_vehicle_id \in {None, tracks'[o].related_vehicle_id}]_vars

(* What update returns implements the alert lifecycle: one open alert per  *)
(* object, closed exactly once, by a claim or a removal.                   *)
Public == {e \in events : e.event_type # "target_verification_requested"}

Lifecycle == INSTANCE AlertLifecycle WITH
    open <- {o \in DOMAIN tracks : tracks[o].alerted},
    published <- {[event_type |-> e.event_type, object_id |-> e.object_id] : e \in Public}

ImplementsLifecycle == Lifecycle!Spec

(* An object that is never seen again is eventually forgotten (and its     *)
(* alert closed, by ImplementsLifecycle); only the scene is remembered.    *)
GoneIsForgotten ==
    \A o \in Objects :
        <>[](o \notin seen) =>
            <>[](o \in DOMAIN tracks => tracks[o].state = "BACKGROUND")

(* Without a gate, an object that stays in view, past confirmation, whose  *)
(* owner never comes back is eventually reported.                          *)
AbandonmentIsReported ==
    \A o \in Objects :
        <>[](/\ o \in seen \cap DOMAIN tracks
             /\ tracks[o].state \in Claimable
             /\ tracks[o].owner_absent_since # None) => <>[]Alerted(o)

-----------------------------------------------------------------------------
(* The inductive invariant behind the theorems *)

(* A fresh track has no owner clock running; a departure recorded in       *)
(* owner_left_at means that the grace period is over.                      *)
ClocksSound(t) ==
    /\ t.state = "CONFIRMING" => /\ t.owner_left_at = None
                                 /\ t.owner_absent_since = None
                                 /\ t.owner_last_seen_near_at = None
    /\ StateUnderClaim(t) \in {"STATIC_NO_OWNER", "AWAITING_TARGET"} => ~WithinGrace(t)

TrackInv(t) ==
    /\ t \in ObjectTrack
    /\ ClaimConsistent(t)
    /\ AlertConsistent(t)
    /\ DepartureSound(t)
    /\ ClocksSound(t)

(* The tracker's own absence clock never runs ahead of what the frames     *)
(* showed.                                                                 *)
AbsenceSound(t, since) ==
    StateUnderClaim(t) \in Watched /\ t.owner_absent_since # None => t.owner_absent_since <= since

RequestsAwait ==
    \A e \in events :
        e.event_type = "target_verification_requested" /\ e.object_id \in DOMAIN tracks
            => tracks[e.object_id].state = "AWAITING_TARGET"

(* Inductive: the invariants above, plus what the clocks and the requests  *)
(* of the frame in progress promise.                                       *)
TrackerInv ==
    /\ TypeOK
    /\ \A o \in DOMAIN tracks : TrackInv(tracks[o]) /\ AbsenceSound(tracks[o], owner_by[o])
    /\ RequestsAwait

=============================================================================
