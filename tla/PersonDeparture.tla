--------------------------- MODULE PersonDeparture ---------------------------
(***************************************************************************)
(* PersonDepartureDetector (src/src/detection/person_departure_detector.py)*)
(* for one camera: where each tracked person stands still, a reference     *)
(* image of that spot, and one comparison of before and after once the     *)
(* person has been gone long enough.                                       *)
(*                                                                         *)
(* Positions are points of a line; a snapshot is the spot it was cropped   *)
(* around.  Times are ages, counted only as far as the code tells them     *)
(* apart.  Whether the image comparison finds a new object is left open.   *)
(***************************************************************************)
EXTENDS Naturals, SequencesExt

CONSTANTS
    Persons,
    Positions,           \* a finite interval of Nat
    None,
    StationaryDistance,  \* stationary_distance_px
    MatchDistance,       \* dwell_zone_match_distance
    MinDwell,            \* min_dwell_seconds
    MaxZones,            \* max_reference_snapshots
    DepartureConfirm,    \* departure_confirm_seconds
    ForgetAfter          \* the 60 seconds of update

(* The configured distances are 40 and 60.  With the opposite order a      *)
(* person could leave a zone without leaving its anchor, and the next zone *)
(* would get the bounding box of an earlier spot.                          *)
ASSUME DepartureConstants ==
    /\ Positions \subseteq Nat
    /\ None \notin Nat
    /\ {StationaryDistance, MatchDistance, MinDwell, DepartureConfirm, ForgetAfter}
            \subseteq Nat
    /\ MaxZones \in Nat \ {0}
    /\ StationaryDistance <= MatchDistance

VARIABLES
    persons,    \* _persons with _missing_since
    candidates, \* result of the last update: <<person, spot>>
    unseen,     \* history: time since the last frame with the person, None
                \* before the first one and after clear_camera
    checks,     \* history: departure checks since then, counted up to 2
    near,       \* history: how long all sightings have been near a position
    steady      \* history: ... without a confirmed departure in between

history == <<unseen, checks, near, steady>>
vars == <<persons, candidates, history>>

Distance(x, y) == IF x >= y THEN x - y ELSE y - x

Older(age, limit) == IF age = None \/ age = limit THEN age ELSE age + 1

-----------------------------------------------------------------------------
(* A person in the frame *)

NewPerson ==
    [anchor |-> None, since |-> None, spot |-> None, reference |-> None,
     zones |-> <<>>, processed |-> FALSE, missing |-> None]

Snapshot(spot, image) == IF image THEN spot ELSE None

(* The first zone the person is within reach of.                           *)
Matching(person, x) ==
    {i \in DOMAIN person.zones : Distance(x, person.zones[i].center) <= MatchDistance}

FirstMatch(person, x) ==
    CHOOSE i \in Matching(person, x) : \A j \in Matching(person, x) : i <= j

(* The moving average: the centre stays or moves towards the person.       *)
Drifts(center, x) ==
    {c \in {center, center + 1, center - 1} :
        c \in Positions /\ (c = center \/ Distance(c, x) < Distance(center, x))}

InZone(person, x, center) ==
    LET i == FirstMatch(person, x) IN
    [person EXCEPT !.zones[i].center = center,
                   !.anchor = center,
                   !.since = person.zones[i].entered]

MovedAway(person, x) ==
    person.anchor = None \/ Distance(x, person.anchor) > StationaryDistance

(* Mutant of NewAnchor: the stay counts on at the new spot.                *)
NewAnchorKeepsClock(person, x, image) ==
    [person EXCEPT !.anchor = x, !.since = IF @ = None THEN 0 ELSE @, !.spot = x,
                   !.reference = Snapshot(x, image)]

(* Mutant of NewAnchor: the image of the last spot stays.                  *)
NewAnchorKeepsReference(person, x, image) ==
    [person EXCEPT !.anchor = x, !.since = 0, !.spot = x,
                   !.reference = IF @ = None THEN Snapshot(x, image) ELSE @]

NewAnchor(person, x, image) ==
    [person EXCEPT !.anchor = x, !.since = 0, !.spot = x,
                   !.reference = Snapshot(x, image)]

(* The earliest image of the stay is kept if the first frame had none.     *)
Referenced(person, image) ==
    [person EXCEPT !.reference = IF @ = None THEN Snapshot(person.spot, image) ELSE @]

Zone(person) ==
    [center |-> person.anchor, spot |-> person.spot, entered |-> person.since,
     reference |-> person.reference]

LastZones(zones) ==
    IF Len(zones) > MaxZones THEN SubSeq(zones, Len(zones) - MaxZones + 1, Len(zones))
    ELSE zones

Stays(person, image) ==
    LET referenced == Referenced(person, image) IN
    IF person.since < MinDwell THEN referenced
    ELSE [referenced EXCEPT !.zones = LastZones(Append(@, Zone(referenced)))]

(* _update_dwell_zones *)
UpdateDwellZones(person, x, image) ==
    IF Matching(person, x) # {}
    THEN {InZone(person, x, c) :
            c \in Drifts(person.zones[FirstMatch(person, x)].center, x)}
    ELSE IF MovedAway(person, x) THEN {NewAnchor(person, x, image)}
    ELSE {Stays(person, image)}

(* Mutant of Back: the old absence counts on.                              *)
BackStillMissing(person) == [person EXCEPT !.processed = FALSE]

Back(person) == [person EXCEPT !.missing = None, !.processed = FALSE]

Seen(p, x, image) ==
    UpdateDwellZones(IF p \in DOMAIN persons THEN Back(persons[p]) ELSE NewPerson, x, image)

-----------------------------------------------------------------------------
(* A person missing from the frame *)

Missing(p) ==
    [persons[p] EXCEPT !.missing = IF @ = None THEN 0 ELSE @]

DepartureDue(p) ==
    Missing(p).missing >= DepartureConfirm /\ ~persons[p].processed

(* Mutant of Waits: for a minute only.                                     *)
WaitsForNothing(p, image) == DepartureDue(p) /\ ~image /\ Missing(p).missing <= ForgetAfter

(* Without an image a departure that is due stays due: the rest of the     *)
(* loop body is skipped, the removal of old persons included.              *)
Waits(p, image) == DepartureDue(p) /\ ~image

Checked(p, image) == DepartureDue(p) /\ image

(* Mutant of MarkedProcessed: also when nothing was compared.              *)
MarkedWithoutImage(p, image) == DepartureDue(p)

MarkedProcessed(p, image) == Checked(p, image)

Absent(p, image) ==
    [Missing(p) EXCEPT !.processed = @ \/ MarkedProcessed(p, image)]

Forgotten(p, image) == ~Waits(p, image) /\ Missing(p).missing > ForgetAfter

(* _check_dwell_zones_for_abandoned: a zone without reference is skipped.  *)
Comparable(p) ==
    {<<p, persons[p].zones[i].spot>> :
        i \in {j \in DOMAIN persons[p].zones : persons[p].zones[j].reference # None}}

-----------------------------------------------------------------------------
(* The detector *)

Init ==
    /\ persons = <<>>
    /\ candidates = {}
    /\ unseen = [p \in Persons |-> None]
    /\ checks = [p \in Persons |-> 0]
    /\ near = [p \in Persons |-> [x \in Positions |-> None]]
    /\ steady = [p \in Persons |-> [x \in Positions |-> None]]

(* Time passes between frames.                                             *)
Tick ==
    /\ persons' = [p \in DOMAIN persons |->
            [persons[p] EXCEPT !.since = Older(@, MinDwell),
                               !.missing = Older(@, ForgetAfter + 1)]]
    /\ unseen' = [p \in Persons |-> Older(unseen[p], DepartureConfirm)]
    /\ near' = [p \in Persons |-> [x \in Positions |-> Older(near[p][x], MinDwell)]]
    /\ steady' = [p \in Persons |-> [x \in Positions |-> Older(steady[p][x], MinDwell)]]
    /\ UNCHANGED <<candidates, checks>>

Since(age, x, y) ==
    IF Distance(x, y) > StationaryDistance THEN None ELSE IF age = None THEN 0 ELSE age

Observed(frame, image) ==
    /\ unseen' = [p \in Persons |->
            IF frame[p] # None THEN 0 ELSE unseen[p]]
    /\ checks' = [p \in Persons |->
            IF frame[p] # None THEN 0
            ELSE IF p \in DOMAIN persons /\ Checked(p, image) /\ checks[p] < 2
                 THEN checks[p] + 1
            ELSE checks[p]]
    /\ near' = [p \in Persons |-> [y \in Positions |->
            IF p \notin DOMAIN persons' THEN None
            ELSE IF frame[p] = None THEN near[p][y] ELSE Since(near[p][y], frame[p], y)]]
    /\ steady' = [p \in Persons |-> [y \in Positions |->
            IF p \notin DOMAIN persons' THEN None
            ELSE IF frame[p] # None THEN Since(steady[p][y], frame[p], y)
            ELSE IF Missing(p).missing >= DepartureConfirm THEN None
            ELSE steady[p][y]]]

Update(frame, image) ==
    LET present == {p \in Persons : frame[p] # None}
        gone == {p \in DOMAIN persons \ present : Forgotten(p, image)}
        due == {p \in DOMAIN persons \ present : Checked(p, image)}
    IN
    /\ \E seen \in [present -> UNION {Seen(p, frame[p], image) : p \in present}] :
          /\ \A p \in present : seen[p] \in Seen(p, frame[p], image)
          /\ persons' = [p \in (DOMAIN persons \cup present) \ gone |->
                            IF p \in present THEN seen[p] ELSE Absent(p, image)]
    /\ candidates' \in SUBSET (UNION {Comparable(p) : p \in due})
    /\ Observed(frame, image)

ClearCamera ==
    /\ persons' = <<>>
    /\ unseen' = [p \in Persons |-> None]
    /\ checks' = [p \in Persons |-> 0]
    /\ near' = [p \in Persons |-> [x \in Positions |-> None]]
    /\ steady' = [p \in Persons |-> [x \in Positions |-> None]]
    /\ UNCHANGED candidates

Frame == [Persons -> Positions \cup {None}]

Next ==
    \/ Tick
    \/ \E frame \in Frame, image \in BOOLEAN : Update(frame, image)
    \/ ClearCamera

Spec == Init /\ [][Next]_vars

(* Time passes, and while a person is out of view frames keep coming, now  *)
(* and then (every fifth) with an image: FrameHandler extracts one when    *)
(* frame_num % 5 = 0.  Nothing makes a person come, stay or leave.         *)
ImageFrameWithout(p) ==
    /\ unseen[p] \notin {0, None}
    /\ \E frame \in Frame : frame[p] = None /\ Update(frame, TRUE)

FairSpec == Spec /\ WF_vars(Tick) /\ \A p \in Persons : WF_vars(ImageFrameWithout(p))

-----------------------------------------------------------------------------
(* Properties *)

ZoneRecord ==
    [center : Positions, spot : Positions, entered : 0..MinDwell,
     reference : Positions \cup {None}]

(* Every variable has its type; a record has all of a stay or none of it.  *)
TypeOK ==
    /\ DOMAIN persons \subseteq Persons
    /\ \A p \in DOMAIN persons :
          /\ persons[p].anchor \in Positions
          /\ persons[p].since \in 0..MinDwell
          /\ persons[p].spot \in Positions
          /\ persons[p].reference \in Positions \cup {None}
          /\ persons[p].zones \in BoundedSeq(ZoneRecord, MaxZones)
          /\ persons[p].processed \in BOOLEAN
          /\ persons[p].missing \in (0..ForgetAfter + 1) \cup {None}
    /\ candidates \subseteq Persons \X Positions

(* The docstring's "missing >= departure_confirm_seconds before a check":  *)
(* the person of a new candidate was in no frame for that long, whatever   *)
(* comings and goings there were before, and is checked once per absence.  *)
CheckedOnceAfterAbsence ==
    [][\A p \in Persons : checks'[p] > checks[p] =>
            unseen[p] = DepartureConfirm /\ checks[p] = 0]_vars

(* "already processed and missing > 60 s" (comment in update): nobody is   *)
(* forgotten whose departure was not compared.                             *)
NobodyForgottenUnchecked ==
    [][\A p \in DOMAIN persons :
            p \notin DOMAIN persons' => checks'[p] = 1 \/ ClearCamera]_vars

(* A spot becomes a dwell zone only if, for min_dwell_seconds, the person  *)
(* was not seen away from it.                                              *)
SpotsOf(person) == [i \in DOMAIN person.zones |-> person.zones[i].spot]

NewZoneOf(p) ==
    /\ p \in DOMAIN persons
    /\ p \in DOMAIN persons'
    /\ SpotsOf(persons'[p]) # SpotsOf(persons[p])

ZoneNeedsStay ==
    [][\A p \in Persons :
            NewZoneOf(p) => near'[p][Last(persons'[p].zones).spot] = MinDwell]_vars

(* A reference image shows the spot it will be compared at.                *)
ReferenceShowsItsSpot ==
    \A p \in DOMAIN persons :
        /\ persons[p].reference \in {None, persons[p].spot}
        /\ \A i \in DOMAIN persons[p].zones :
              persons[p].zones[i].reference \in {None, persons[p].zones[i].spot}

(* A person who stays away is checked, however few frames have an image,   *)
(* unless an ROI update clears the camera.                                 *)
DepartureIsChecked ==
    \A p \in Persons :
        p \in DOMAIN persons ~> (unseen[p] \in {0, None} \/ checks[p] = 1)

(* "tracked in the ROI and near one place for at least 2 seconds" and "one *)
(* who only passes by creates no dwell zone"                               *)
(* (docs/TRASH_ONLY_DEPLOYMENT.md, decision contract 2 and 3): the stay    *)
(* that makes a zone does not count the time after a confirmed departure.  *)
PassersByMakeNoZone ==
    [][\A p \in Persons :
            NewZoneOf(p) => steady'[p][Last(persons'[p].zones).spot] = MinDwell]_vars

-----------------------------------------------------------------------------
(* The inductive invariant behind the theorems *)

PersonRecord ==
    [anchor : Positions, since : 0..MinDwell, spot : Positions,
     reference : Positions \cup {None}, zones : Seq(ZoneRecord),
     processed : BOOLEAN, missing : (0..ForgetAfter + 1) \cup {None}]

Types ==
    /\ DOMAIN persons \subseteq Persons
    /\ \A p \in DOMAIN persons : persons[p] \in PersonRecord /\ Len(persons[p].zones) <= MaxZones
    /\ candidates \subseteq Persons \X Positions
    /\ unseen \in [Persons -> 0..DepartureConfirm \cup {None}]
    /\ checks \in [Persons -> 0..2]
    /\ near \in [Persons -> [Positions -> 0..MinDwell \cup {None}]]

(* _missing_since is no earlier than the last sighting, and processed is   *)
(* set exactly by a check since then.                                      *)
AbsenceOf(p) ==
    /\ unseen[p] # None
    /\ persons[p].missing # None =>
           unseen[p] = DepartureConfirm \/ unseen[p] >= persons[p].missing
    /\ checks[p] = IF persons[p].processed THEN 1 ELSE 0

(* The clock of a stay runs at the spot of its reference, and no earlier   *)
(* than the person came near it, unless a known zone has taken over: then  *)
(* the person cannot be near the anchor without matching that zone.        *)
StayOf(p) ==
    \/ \E i \in DOMAIN persons[p].zones : persons[p].zones[i].center = persons[p].anchor
    \/ /\ persons[p].anchor = persons[p].spot
       /\ near[p][persons[p].spot] # None
       /\ near[p][persons[p].spot] >= persons[p].since

PersonInv ==
    /\ Types
    /\ ReferenceShowsItsSpot
    /\ \A p \in DOMAIN persons : AbsenceOf(p) /\ StayOf(p)

=============================================================================
