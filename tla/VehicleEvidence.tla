--------------------------- MODULE VehicleEvidence ---------------------------
(***************************************************************************)
(* The vehicles of one camera on their way into an incident:               *)
(*                                                                         *)
(*   VehicleTrackFilter    (src/src/detection/vehicle_track_filter.py)     *)
(*       accepts a track after repeated detector evidence                  *)
(*   VehicleDwellAssociator  (src/src/logic/ownership.py)                  *)
(*       measures how long an accepted track stays in one ROI polygon and  *)
(*       relates a piece of trash to a vehicle that stayed long enough     *)
(*                                                                         *)
(* process_frame calls the one with the frame's detections and the other   *)
(* with what the first accepted, so a frame is one action.                 *)
(*                                                                         *)
(* A place stands for a bounding box: RoiOf gives the polygon its anchor   *)
(* lies in (None outside all), Overlaps the pairs whose IoU reaches        *)
(* confirmation_iou_threshold, Near the pairs of box and trash within      *)
(* vehicle_max_distance_px.  A detection that is implausible in size or    *)
(* shape is no detection.                                                  *)
(***************************************************************************)
EXTENDS Naturals, FiniteSets

CONSTANTS
    Vehicles,            \* object ids of the DeepStream tracker
    Classes,             \* vehicle classes
    Places,              \* bounding boxes
    None,
    RoiOf, Overlaps, Near,
    FilterEnabled,       \* vehicle_filter.enabled
    MinHits,             \* min_detector_hits
    ConfirmationWindow,  \* confirmation_window_seconds
    MaxDetectorGap,      \* max_detector_gap_seconds
    MinDwell,            \* min_vehicle_dwell_seconds
    HistoryWindow,       \* vehicle_history_window_seconds
    MaxTrackingGap,      \* max_vehicle_tracking_gap_seconds
    MaxStep,             \* bound: longest time between two processed frames
    MaxTime              \* bound: the clock stops here

ASSUME VehicleConstants ==
    /\ None \notin Places
    /\ Overlaps \subseteq Places \X Places
    /\ Near \subseteq Places \X Places
    /\ DOMAIN RoiOf = Places
    /\ FilterEnabled \in BOOLEAN
    /\ MinHits \in Nat \ {0}
    /\ {ConfirmationWindow, MaxDetectorGap, MinDwell, HistoryWindow,
        MaxTrackingGap, MaxTime} \subseteq Nat
    /\ MaxStep \in Nat \ {0}

VARIABLES
    now,      \* time of the last processed frame
    tracks,   \* VehicleTrackFilter._tracks
    shown,    \* result of the last VehicleTrackFilter.update
    records,  \* VehicleDwellAssociator._records
    evidence, \* history: detections of each filter track since its creation
    path      \* history: sightings of each dwell record since its creation

vars == <<now, tracks, shown, records, evidence, path>>

Box == [class : Classes, place : Places, strong : BOOLEAN]

Later(a, b) == IF a >= b THEN a ELSE b

-----------------------------------------------------------------------------
(* VehicleTrackFilter *)

NewTrack(box, t) ==
    [class |-> box.class, place |-> box.place, hits |-> 1,
     last_detector_at |-> t, confirmed |-> FALSE]

(* Mutant of Continuous: the time since the last hit is ignored.           *)
ContinuousAnyTime(track, box, t) ==
    /\ box.class = track.class
    /\ <<box.place, track.place>> \in Overlaps

(* A detection continues a run of evidence: same class, soon enough, and   *)
(* about where the track was last.                                         *)
Continuous(track, box, t) ==
    /\ box.class = track.class
    /\ t - track.last_detector_at <= ConfirmationWindow
    /\ <<box.place, track.place>> \in Overlaps

Matched(track, box, t) ==
    [track EXCEPT
        !.hits = IF ~box.strong THEN @
                 ELSE IF Continuous(track, box, t) THEN @ + 1 ELSE 1,
        !.last_detector_at = IF box.strong THEN t ELSE @,
        !.class = box.class,
        !.place = box.place]

Judge(track) == [track EXCEPT !.confirmed = @ \/ track.hits >= MinHits]

(* The tracks once every detection is processed, before stale ones go.  A  *)
(* weak detection never opens a track.                                     *)
Opened(frame) == {v \in Vehicles \ DOMAIN tracks : frame[v] # None /\ frame[v].strong}

Filtered(frame, t) ==
    [v \in DOMAIN tracks \cup Opened(frame) |->
        IF v \in Opened(frame) THEN Judge(NewTrack(frame[v], t))
        ELSE IF frame[v] = None THEN tracks[v]
        ELSE Judge(Matched(tracks[v], frame[v], t))]

Fresh(track, t) == t - track.last_detector_at <= MaxDetectorGap

Accepted(frame, t) ==
    IF FilterEnabled
    THEN {v \in DOMAIN tracks \cup Opened(frame) :
            /\ frame[v] # None
            /\ Filtered(frame, t)[v].confirmed
            /\ Fresh(Filtered(frame, t)[v], t)}
    ELSE {v \in Vehicles : frame[v] # None}

(* Mutant of Remaining: stale tracks are kept.                             *)
RemainingAll(frame, t) == DOMAIN Filtered(frame, t)

Remaining(frame, t) ==
    {v \in DOMAIN Filtered(frame, t) : Fresh(Filtered(frame, t)[v], t)}

-----------------------------------------------------------------------------
(* VehicleDwellAssociator *)

NewRecord(place, t) ==
    [place |-> place,
     last_inside |-> IF RoiOf[place] = None THEN None ELSE place,
     roi |-> RoiOf[place],
     first_inside_at |-> IF RoiOf[place] = None THEN None ELSE t,
     last_seen_at |-> t,
     dwell |-> 0,
     inside |-> RoiOf[place] # None]

(* Entering a polygon, or another one, starts a new dwell interval.        *)
Enters(record, roi) == ~record.inside \/ record.roi # roi

SeenInside(record, place, t) ==
    LET since == IF Enters(record, RoiOf[place]) THEN t ELSE record.first_inside_at
        so_far == IF Enters(record, RoiOf[place]) THEN 0 ELSE record.dwell
    IN  [place |-> place, last_inside |-> place, roi |-> RoiOf[place],
         first_inside_at |-> since, last_seen_at |-> t,
         dwell |-> Later(so_far, t - since), inside |-> TRUE]

(* Mutant of Frozen: leaving resets the dwell.                             *)
FrozenForgetful(record) ==
    [record EXCEPT !.dwell = 0, !.inside = FALSE, !.first_inside_at = None]

(* _freeze_dwell: the interval ends with the last sighting inside.         *)
Frozen(record) ==
    [record EXCEPT
        !.dwell = IF record.inside
                  THEN Later(@, record.last_seen_at - record.first_inside_at) ELSE @,
        !.inside = FALSE,
        !.first_inside_at = None]

SeenOutside(record, place, t) ==
    [Frozen(record) EXCEPT !.place = place, !.last_seen_at = t]

(* Mutant of LostTrack: a gap counts once the record expires.              *)
LostTrackIfForgotten(record, t) == record.inside /\ t - record.last_seen_at > HistoryWindow

(* Not in this frame: the dwell is frozen only after a real tracking gap.  *)
LostTrack(record, t) == record.inside /\ t - record.last_seen_at > MaxTrackingGap

Unseen(record, t) == IF LostTrack(record, t) THEN Frozen(record) ELSE record

Kept(seen, t) ==
    seen \cup {v \in DOMAIN records : t - records[v].last_seen_at <= HistoryWindow}

Dwelling(seen, frame, t) ==
    [v \in Kept(seen, t) |->
        IF v \notin seen THEN Unseen(records[v], t)
        ELSE IF v \notin DOMAIN records THEN NewRecord(frame[v].place, t)
        ELSE IF RoiOf[frame[v].place] # None
             THEN SeenInside(records[v], frame[v].place, t)
             ELSE SeenOutside(records[v], frame[v].place, t)]

(* find_related: the vehicles one of which it reports for trash at a place.*)
DwellOf(record) ==
    IF record.inside
    THEN Later(record.dwell, record.last_seen_at - record.first_inside_at)
    ELSE record.dwell

LocationOf(record) ==
    IF record.last_inside # None THEN record.last_inside ELSE record.place

Related(trash) ==
    {v \in DOMAIN records :
        /\ RoiOf[trash] # None
        /\ records[v].roi = RoiOf[trash]
        /\ now - records[v].last_seen_at <= HistoryWindow
        /\ DwellOf(records[v]) >= MinDwell
        /\ <<LocationOf(records[v]), trash>> \in Near}

-----------------------------------------------------------------------------
(* The camera *)

Init ==
    /\ now = 0
    /\ tracks = <<>>
    /\ shown = {}
    /\ records = <<>>
    /\ evidence = [v \in Vehicles |-> {}]
    /\ path = [v \in Vehicles |-> {}]

ProcessFrame(frame, t) ==
    /\ t \in now + 1 .. now + MaxStep
    /\ t <= MaxTime
    /\ now' = t
    /\ tracks' = IF FilterEnabled
                 THEN [v \in Remaining(frame, t) |-> Filtered(frame, t)[v]]
                 ELSE tracks
    /\ shown' = Accepted(frame, t)
    /\ records' = Dwelling(shown', frame, t)
    /\ evidence' = [v \in Vehicles |->
            IF v \notin DOMAIN tracks' THEN {}
            ELSE IF frame[v] = None THEN evidence[v]
            ELSE evidence[v] \cup {[at |-> t, box |-> frame[v]]}]
    /\ path' = [v \in Vehicles |->
            IF v \notin DOMAIN records' THEN {}
            ELSE IF v \in shown' THEN path[v] \cup {[at |-> t, place |-> frame[v].place]}
            ELSE path[v]]

(* update_roi clears both.                                                 *)
ClearCamera ==
    /\ tracks' = <<>>
    /\ shown' = {}
    /\ records' = <<>>
    /\ evidence' = [v \in Vehicles |-> {}]
    /\ path' = [v \in Vehicles |-> {}]
    /\ UNCHANGED now

Next ==
    \/ \E frame \in [Vehicles -> Box \cup {None}], t \in 1..MaxTime : ProcessFrame(frame, t)
    \/ ClearCamera

Spec == Init /\ [][Next]_vars

-----------------------------------------------------------------------------
(* Properties *)

Track == [class : Classes, place : Places, hits : Nat,
          last_detector_at : Nat, confirmed : BOOLEAN]

Record == [place : Places, last_inside : Places \cup {None},
           roi : {RoiOf[p] : p \in Places} \cup {None},
           first_inside_at : Nat \cup {None}, last_seen_at : Nat,
           dwell : Nat, inside : BOOLEAN]

(* Every variable has its type, and an open dwell interval a beginning.    *)
TypeOK ==
    /\ now \in 0..MaxTime
    /\ DOMAIN tracks \subseteq Vehicles
    /\ \A v \in DOMAIN tracks : tracks[v] \in Track
    /\ shown \subseteq Vehicles
    /\ DOMAIN records \subseteq Vehicles
    /\ \A v \in DOMAIN records :
          /\ records[v] \in Record
          /\ records[v].inside <=> records[v].first_inside_at # None
          /\ records[v].inside => records[v].roi # None

(* What the docstring of VehicleTrackFilter asks for, said of a set E of    *)
(* detections: MinHits strong ones in a row, each soon after the one       *)
(* before, of the class and at the place the track then had.               *)
StrongIn(E) == {d \in E : d.box.strong}

JustBefore(E, e, d) == e.at < d.at /\ \A f \in E : f.at < d.at => f.at <= e.at

Before(E, d) == CHOOSE e \in E : JustBefore(E, e, d)

FollowsOn(E, c, d) ==
    /\ d.at - c.at <= ConfirmationWindow
    /\ d.box.class = Before(E, d).box.class
    /\ <<d.box.place, Before(E, d).box.place>> \in Overlaps

InARow(E, first, last) ==
    {d \in StrongIn(E) : first.at <= d.at /\ d.at <= last.at}

Unbroken(E, first, last) ==
    \A c, d \in InARow(E, first, last) :
        JustBefore(InARow(E, first, last), c, d) => FollowsOn(E, c, d)

RepeatedEvidence(E) ==
    \E first, last \in StrongIn(E) :
        /\ first.at <= last.at
        /\ Cardinality(InARow(E, first, last)) = MinHits
        /\ Unbroken(E, first, last)

(* A track is confirmed exactly when its own detections since its creation *)
(* held such a run: a confirmation is neither given for less nor lost.     *)
ConfirmedIffRepeated ==
    \A v \in DOMAIN tracks : tracks[v].confirmed <=> RepeatedEvidence(evidence[v])

(* Evidence is not inherited: while a track lives, its strong detections   *)
(* are never further apart than the allowed gap and one frame interval, so *)
(* an object id that comes back after that starts from nothing.            *)
NoGap(E, track, t) ==
    \A d \in StrongIn(E) :
        \/ \E e \in StrongIn(E) : e.at > d.at /\ e.at - d.at <= MaxDetectorGap + MaxStep
        \/ track.last_detector_at = d.at /\ t - d.at <= MaxDetectorGap

EvidenceIsContinuous == \A v \in DOMAIN tracks : NoGap(evidence[v], tracks[v], now)

(* Sightings of P that form one stay in polygon r from time a to time b,   *)
(* no two successive ones further apart than gap.                          *)
Stay(P, r, a, b, gap) ==
    LET S == {s \in P : a <= s.at /\ s.at <= b} IN
    /\ \E s \in S : s.at = a
    /\ \E s \in S : s.at = b
    /\ \A s \in S :
          /\ RoiOf[s.place] = r
          /\ s.at < b => \E u \in S : u.at > s.at /\ u.at - s.at <= gap

(* "eligible only when it was tracked inside the same polygon for          *)
(* min_dwell_seconds.  Short detector/tracker gaps are tolerated"          *)
(* (docstring of VehicleDwellAssociator): a vehicle related to trash in a  *)
(* polygon made one stay of that length there, without a tracking gap      *)
(* longer than the allowed one and one frame interval.                     *)
RelatedVehicleDwelt ==
    \A trash \in Places : \A v \in Related(trash) :
        \E a, b \in 0..now :
            /\ b - a >= MinDwell
            /\ Stay(path[v], RoiOf[trash], a, b, MaxTrackingGap + MaxStep)

(* ... and one that made such a stay as its last visit to any polygon is   *)
(* related to trash near where it stood, wherever it is now, for as long   *)
(* as it is remembered.                                                    *)
LastVisit(P, r, a, b) ==
    /\ Stay(P, r, a, b, MaxTrackingGap)
    /\ \A s \in P : s.at > b => RoiOf[s.place] = None

DwellIsRemembered ==
    \A v \in DOMAIN records : \A trash \in Places : \A a, b \in 0..now :
        /\ RoiOf[trash] # None
        /\ b - a >= MinDwell
        /\ LastVisit(path[v], RoiOf[trash], a, b)
        /\ \E s \in path[v] : s.at = b /\ <<s.place, trash>> \in Near
        => v \in Related(trash)

(* "The vehicle must stop in one polygon long enough; one that only drives *)
(* through the ROI must not be attached to the event"                      *)
(* (configs/app_config.yaml, illegal_dumping): a related vehicle stood at  *)
(* one place for the dwell time.                                           *)
RelatedVehicleStopped ==
    \A trash \in Places : \A v \in Related(trash) :
        \E a, b \in 0..now :
            /\ b - a >= MinDwell
            /\ Stay(path[v], RoiOf[trash], a, b, MaxTrackingGap + MaxStep)
            /\ \E p \in Places : \A s \in path[v] :
                  a <= s.at /\ s.at <= b => <<s.place, p>> \in Overlaps

-----------------------------------------------------------------------------
(* The inductive invariant behind the theorems *)

(* Detections, one a frame, up to time t.                                  *)
Filed(E, t) ==
    /\ IsFiniteSet(E)
    /\ E \subseteq [at : 0..t, box : Box]
    /\ \A d, e \in E : d.at = e.at => d = e
    /\ \A d \in E : (\E e \in E : e.at < d.at) => \E e \in E : JustBefore(E, e, d)
    /\ E # {} => \E l \in E : \A e \in E : e.at <= l.at

(* The run of strong detections that the hits of a track count: it ends    *)
(* with the last one, and the one before it, if any, broke it off.         *)
Run(E, first, last, hits) ==
    /\ first \in StrongIn(E) /\ last \in StrongIn(E)
    /\ first.at <= last.at
    /\ \A d \in StrongIn(E) : d.at <= last.at
    /\ Cardinality(InARow(E, first, last)) = hits
    /\ Unbroken(E, first, last)
    /\ (\E c \in StrongIn(E) : c.at < first.at) =>
          \E c \in StrongIn(E) : JustBefore(StrongIn(E), c, first) /\ ~FollowsOn(E, c, first)

TrackOf(track, E, t) ==
    /\ track \in Track
    /\ Filed(E, t)
    /\ \E l \in E : /\ \A e \in E : e.at <= l.at
                    /\ l.box.class = track.class /\ l.box.place = track.place
    /\ \E first, last \in E : /\ Run(E, first, last, track.hits)
                              /\ last.at = track.last_detector_at
    /\ NoGap(E, track, t)
    /\ track.hits >= MinHits => track.confirmed
    /\ track.confirmed <=> RepeatedEvidence(E)

FilterInv ==
    /\ now \in Nat
    /\ DOMAIN tracks \subseteq Vehicles
    /\ ~FilterEnabled => DOMAIN tracks = {}
    /\ \A v \in Vehicles :
          IF v \in DOMAIN tracks THEN TrackOf(tracks[v], evidence[v], now) ELSE evidence[v] = {}

(* Sightings, one a frame, the last of them at time l.                     *)
UpTo(P, l) ==
    /\ P \subseteq [at : 0..l, place : Places]
    /\ \A s, u \in P : s.at = u.at => s = u
    /\ \E s \in P : s.at = l

(* A record against the sightings P it was made of: where the vehicle was  *)
(* last inside a polygon, and whether it still was when last seen.         *)
LastInside(P, record) ==
    IF record.roi = None
    THEN record.last_inside = None /\ ~record.inside /\ \A s \in P : RoiOf[s.place] = None
    ELSE \E l \in P : /\ RoiOf[l.place] = record.roi /\ l.place = record.last_inside
                      /\ \A s \in P : s.at > l.at => RoiOf[s.place] = None
                      /\ record.inside => l.at = record.last_seen_at

(* The dwell is that of a stay, and the one in progress began no later     *)
(* than any stay without a tracking gap.                                   *)
DwellBacked(P, record) ==
    record.roi # None =>
        \E a, b \in 0..record.last_seen_at :
            b - a >= record.dwell /\ Stay(P, record.roi, a, b, MaxTrackingGap + MaxStep)

DwellComplete(P, record, t) ==
    IF record.inside
    THEN /\ record.first_inside_at \in 0..record.last_seen_at
         /\ t - record.last_seen_at <= MaxTrackingGap
         /\ Stay(P, record.roi, record.first_inside_at, record.last_seen_at,
                 MaxTrackingGap + MaxStep)
         /\ \A a \in 0..record.last_seen_at :
               Stay(P, record.roi, a, record.last_seen_at, MaxTrackingGap) =>
                   record.first_inside_at <= a
    ELSE /\ t - record.last_seen_at > MaxTrackingGap
            \/ \E s \in P : s.at = record.last_seen_at /\ RoiOf[s.place] = None
         /\ record.roi # None => \A a, b \in 0..record.last_seen_at :
               LastVisit(P, record.roi, a, b) => record.dwell >= b - a

RecordOf(record, P, t) ==
    /\ record \in Record
    /\ record.last_seen_at <= t
    /\ t - record.last_seen_at <= HistoryWindow
    /\ UpTo(P, record.last_seen_at)
    /\ LastInside(P, record)
    /\ DwellBacked(P, record)
    /\ DwellComplete(P, record, t)

DwellInv ==
    /\ now \in Nat
    /\ DOMAIN records \subseteq Vehicles
    /\ \A v \in Vehicles :
          IF v \in DOMAIN records THEN RecordOf(records[v], path[v], now) ELSE path[v] = {}

=============================================================================
