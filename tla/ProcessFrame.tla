----------------------------- MODULE ProcessFrame -----------------------------
(***************************************************************************)
(* process_frame of src/src/logic/abandonment_rules.py between the camera  *)
(* and the state machine, for one camera and without a target gate (the    *)
(* deployed configuration): which boxes reach ObjectStateTracker, under    *)
(* which ids and with which owner.                                         *)
(*                                                                         *)
(*   detector-first  the tracker of the semantic detector's boxes reports  *)
(*                   them, for a while after their last detection too;     *)
(*                   their owner is looked up in PersonHistoryBuffer each  *)
(*                   frame                                                 *)
(*   legacy          boxes of departed persons' spots and the boxes the    *)
(*                   state machine already has; overlapping ones are       *)
(*                   dropped, on frames with an image the background model *)
(*                   verifies the rest, and BlobTracker gives them ids     *)
(*                                                                         *)
(* A place is a point of a line.  The scene holds where things lie and     *)
(* where the tracked persons are.  A frame is one step; what the MQTT      *)
(* thread does inside one is the subject of RuleEngine.                    *)
(***************************************************************************)
EXTENDS Integers, SequencesExt

CONSTANTS
    Objects,            \* bound: object ids in use at once
    Persons, None,
    Places,             \* a finite interval of Int
    Rois,               \* regions update_roi may set; {} is the whole frame
    AbandonmentDwell, OwnerLostGrace, MaxOcclusionGap, PickupConfirmGap, Horizon,
    NearReach,          \* owner_distance_threshold_px
    MarginReach,        \* 1.5 times that
    OwnerReach,         \* owner_max_distance_px
    HistoryWindow,      \* history_window_seconds
    MatchReach,         \* iou_match_threshold of BlobTracker and of the detector's tracker
    CoverReach,         \* boxes that cover half of one another
    SearchReach,        \* visual_search_padding_ratio
    WeakMissed,         \* shortest and longest time a box of the detector's tracker
    StrongMissed,       \* lasts unseen, by its evidence
    VerifyReach,        \* padding of verify_region
    MaxMissed,          \* max_missed_seconds of BlobTracker
    StaticConfirm,      \* static_confirm_frames
    Modes               \* values of object_detection.enabled

ASSUME ProcessFrameConstants ==
    /\ IsFiniteSet(Objects)
    /\ Places \subseteq Int
    /\ Rois \subseteq SUBSET Places
    /\ {NearReach, MarginReach, OwnerReach, HistoryWindow, MatchReach, CoverReach,
        VerifyReach, MaxMissed, StaticConfirm, SearchReach, WeakMissed, StrongMissed} \subseteq Nat
    /\ NearReach <= MarginReach
    /\ WeakMissed <= StrongMissed
    /\ StaticConfirm > 1
    /\ Modes \subseteq BOOLEAN

(* Those of ObjectStateTracker.                                            *)
ASSUME DurationAssumption ==
    /\ Horizon \in Nat
    /\ AbandonmentDwell \in 0..Horizon
    /\ OwnerLostGrace \in 0..Horizon
    /\ MaxOcclusionGap \in Nat /\ MaxOcclusionGap < Horizon
    /\ PickupConfirmGap \in 0..Horizon

ASSUME NoneAssumption ==
    /\ None \notin Int
    /\ None \notin Persons
    /\ None \notin {"STATIC_WITH_OWNER", "STATIC_NO_OWNER", "AWAITING_TARGET", "ABANDONED"}

VARIABLES
    tracks, events, seen, baseline, owner_by,   \* ObjectStateTracker
    boxes,      \* bbox of every track
    order,      \* the ids of the tracks, in the order of the dict
    blobs,      \* BlobTracker._tracks
    detected,   \* DetectedObjectTracker._tracks
    history,    \* PersonHistoryBuffer: age of the latest frame of the window
                \* that has a person at a place, or None
    roi,        \* roi_polygons of the camera
    detector_first,
    lying,      \* scene: the places where something lies
    crowd,      \* scene: the place of every person, or None
    attended    \* history: persons near a track in every frame since its first

Tracker == INSTANCE ObjectStateTracker WITH Vehicles <- {}, DeferAbandonedEvent <- FALSE

trackerVars == <<tracks, events, seen, baseline, owner_by, boxes, order, attended>>
scene == <<lying, crowd>>
vars == <<trackerVars, blobs, detected, history, roi, detector_first, scene>>

Distance(x, y) == IF x >= y THEN x - y ELSE y - x

UpTo(limit, n) == IF n > limit THEN limit ELSE n

(* box_in_any_polygon *)
InRoi(x) == roi = {} \/ x \in roi

(* The elements of a sequence that are in S.                               *)
MembersAnd(S, kept, x) == IF x \in S THEN Append(kept, x) ELSE kept

Members(s, S) ==
    LET kept[n \in 0..Len(s)] == IF n = 0 THEN <<>> ELSE MembersAnd(S, kept[n - 1], s[n])
    IN  kept[Len(s)]

Seen(p, x) == crowd[p] = x

Init ==
    /\ Tracker!Init
    /\ boxes = <<>>
    /\ order = <<>>
    /\ attended = <<>>
    /\ blobs = <<>>
    /\ detected = <<>>
    /\ history = [p \in Persons |-> [x \in Places |-> None]]
    /\ roi \in Rois
    /\ detector_first \in Modes
    /\ lying \in SUBSET Places
    /\ crowd = [p \in Persons |-> None]

-----------------------------------------------------------------------------
(* PersonHistoryBuffer *)

(* push: the persons inside the ROI.                                       *)
Pushed ==
    [p \in Persons |-> [x \in Places |->
        IF Seen(p, x) /\ InRoi(x) THEN 0 ELSE history[p][x]]]

Remembered(h) == {entry \in Persons \X Places : h[entry[1]][entry[2]] # None}

(* find_owner_at_location: whoever was nearest within the whole window, the*)
(* latest frame first among equals.                                        *)
Owners(h, x) ==
    LET nearest == {e \in Remembered(h) :
                       \A f \in Remembered(h) : Distance(x, e[2]) <= Distance(x, f[2])}
        latest == {e \in nearest : \A f \in nearest : h[e[1]][e[2]] <= h[f[1]][f[2]]}
        within == {e \in latest : Distance(x, e[2]) <= OwnerReach}
    IN IF within = {} THEN {None} ELSE {e[1] : e \in within}

-----------------------------------------------------------------------------
(* Legacy proposals *)

(* The spot a person has left behind who is no longer among the persons in *)
(* the ROI; boxes on persons are dropped, and so are boxes outside the ROI.*)
Departures(image) ==
    IF ~image THEN {}
    ELSE {[pos |-> x, owner_hint |-> p] :
             x \in {y \in Places : InRoi(y) /\ \A q \in Persons : ~Seen(q, y)},
             p \in {q \in Persons : crowd[q] = None \/ ~InRoi(crowd[q])} \cup {None}}

(* The boxes of the tracks, in the order of the dict.                      *)
Kept ==
    LET live == Members(order, {o \in DOMAIN tracks : tracks[o].state \notin {"BACKGROUND", "IGNORED"}})
    IN [i \in DOMAIN live |-> [pos |-> boxes[live[i]],
                               owner_hint |-> tracks[live[i]].owner_track_id]]

(* An item that covers, or is covered by, an earlier one is dropped.       *)
UniqueAnd(kept, item) ==
    IF \E i \in DOMAIN kept : Distance(kept[i].pos, item.pos) <= CoverReach
    THEN kept ELSE Append(kept, item)

Unique(items) ==
    LET kept[n \in 0..Len(items)] == IF n = 0 THEN <<>> ELSE UniqueAnd(kept[n - 1], items[n])
    IN  kept[Len(items)]

(* verify_region looks around the box for what has come to rest there.  It *)
(* finds nothing while the baseline is learnt, may miss what there is, and *)
(* a found box outside the ROI or on a person is dropped.                  *)
Verified(item) ==
    {[item EXCEPT !.pos = x] :
        x \in {y \in lying : /\ ~baseline
                             /\ Distance(y, item.pos) <= VerifyReach
                             /\ InRoi(y)
                             /\ \A p \in Persons : ~Seen(p, y)}}

(* Only a frame with an image can be verified; without one all items pass. *)
ValidAnd(valid, item) == valid \cup {Append(v, i) : v \in valid, i \in Verified(item)}

Valid(items, image) ==
    LET valid[n \in 0..Len(items)] == IF n = 0 THEN {<<>>} ELSE ValidAnd(valid[n - 1], items[n])
    IN  IF image THEN valid[Len(items)] ELSE {items}

-----------------------------------------------------------------------------
(* BlobTracker *)

With(f, o, value) == [x \in DOMAIN f \cup {o} |-> IF x = o THEN value ELSE f[x]]

Free(work) == DOMAIN work.blobs \ DOMAIN work.results

(* The nearest blob no other box of the frame has taken.                   *)
Nearest(work, x) ==
    {o \in Free(work) :
        /\ Distance(work.blobs[o].pos, x) <= MatchReach
        /\ \A k \in Free(work) : Distance(work.blobs[o].pos, x) <= Distance(work.blobs[k].pos, x)}

Between(x, y) == {z \in Places : (x <= z /\ z <= y) \/ (y <= z /\ z <= x)}

(* Mutant of Hit: every hit is the first one.                              *)
HitOfANewBlob(blob, x) == {[pos |-> z, hits |-> 1, age |-> 0] : z \in Between(blob.pos, x)}

(* The smoothed box lies between the old one and the new one.              *)
Hit(blob, x) ==
    {[pos |-> z, hits |-> UpTo(StaticConfirm, blob.hits + 1), age |-> 0] : z \in Between(blob.pos, x)}

Unused(work) ==
    LET free == Objects \ (DOMAIN work.blobs \cup DOMAIN tracks)
    IN IF free = {} THEN {} ELSE {CHOOSE o \in free : TRUE}

Assigned(work, item) ==
    LET result(blob) == [pos |-> blob.pos, static |-> blob.hits >= StaticConfirm,
                         owner_hint |-> item.owner_hint]
    IN IF Nearest(work, item.pos) # {}
       THEN UNION {{[blobs |-> With(work.blobs, o, b), results |-> With(work.results, o, result(b))] :
                       b \in Hit(work.blobs[o], item.pos)} : o \in Nearest(work, item.pos)}
       ELSE LET b == [pos |-> item.pos, hits |-> 1, age |-> 0]
            IN {[blobs |-> With(work.blobs, o, b), results |-> With(work.results, o, result(b))] :
                   o \in Unused(work)}

BlobsAnd(works, item) == UNION {Assigned(w, item) : w \in works}

Blobs(items) ==
    LET works[n \in 0..Len(items)] ==
            IF n = 0 THEN {[blobs |-> blobs, results |-> <<>>]} ELSE BlobsAnd(works[n - 1], items[n])
    IN  works[Len(items)]

Stale(b) == b.age > MaxMissed

Fresh(all) == [o \in {k \in DOMAIN all : ~Stale(all[k])} |-> all[o]]

-----------------------------------------------------------------------------
(* The tracker of the detector's boxes, as far as the frames after it can  *)
(* tell: which boxes it has, not the evidence for them (DetectedObjects).  *)

Detectable == {x \in lying : InRoi(x)}

(* The detector sees some of what lies in the ROI.  A detection goes to a  *)
(* box within reach, or to a new one when all those are taken.             *)
Within(x) == {o \in DOMAIN detected : Distance(detected[o].pos, x) <= MatchReach}

Matchings ==
    {m \in UNION {[D -> Objects] : D \in SUBSET Detectable} :
        /\ IsInjective(m)
        /\ \A x \in DOMAIN m :
              IF m[x] \in DOMAIN detected THEN m[x] \in Within(x)
              ELSE m[x] \notin DOMAIN tracks /\ Within(x) \subseteq Range(m)}

(* A detection makes or moves a box.  A box that has none may be found     *)
(* again by its template, there or nearby, whatever lies there now; or it  *)
(* stays as it was and grows older.                                        *)
LookedAt(m, o) ==
    LET hits == {x \in DOMAIN m : m[x] = o}
        found == IF o \notin DOMAIN detected THEN hits
                 ELSE IF hits # {} THEN UNION {Between(detected[o].pos, x) : x \in hits}
                 ELSE {z \in Places : Distance(detected[o].pos, z) <= SearchReach}
    IN {[pos |-> z, age |-> 0] : z \in found} \cup (IF hits = {} THEN {detected[o]} ELSE {})

Box == [pos : Places, age : 0..StrongMissed + 1]

Looked(m) ==
    {t \in [DOMAIN detected \cup Range(m) -> Box] : \A o \in DOMAIN t : t[o] \in LookedAt(m, o)}

(* Mutant of Lasts: boxes with strong evidence never go.                   *)
LastsWithEvidence(b, limit) == b.age <= limit \/ limit = StrongMissed

Lasts(b, limit) == b.age <= limit

(* The retention of a box is between the two limits, by its evidence.      *)
Lasting(t) ==
    {live \in SUBSET DOMAIN t :
        \A o \in DOMAIN t : \E limit \in WeakMissed..StrongMissed : o \in live <=> Lasts(t[o], limit)}

(* snapshot: of boxes that cover one another the one with more evidence.   *)
Unrivalled(t) ==
    LET Rivals(o, k) == o # k /\ Distance(t[o].pos, t[k].pos) <= CoverReach
    IN {shown \in SUBSET DOMAIN t :
           /\ \A o, k \in shown : ~Rivals(o, k)
           /\ \A o \in DOMAIN t \ shown : \E k \in shown : Rivals(o, k)}

(* Of the boxes shown those of still have static_confirm_frames hits.      *)
Results(shown, still) ==
    [o \in shown |-> [pos |-> detected'[o].pos, static |-> o \in still, owner_hint |-> None]]

-----------------------------------------------------------------------------
(* The state machine's view of a frame *)

(* Mutant of Reach: a person exactly at the threshold is taken for absent. *)
ReachStrict(p, x) ==
    IF crowd[p] = None \/ Distance(crowd[p], x) >= MarginReach THEN "far"
    ELSE IF Distance(crowd[p], x) >= NearReach THEN "margin" ELSE "near"

Reach(p, x) ==
    IF crowd[p] = None \/ Distance(crowd[p], x) > MarginReach THEN "far"
    ELSE IF Distance(crowd[p], x) > NearReach THEN "margin" ELSE "near"

Sighting(results, lookup) ==
    [o \in Objects |->
        IF o \in DOMAIN results /\ InRoi(results[o].pos)
        THEN [shown |-> TRUE, static |-> results[o].static,
              owner_hint |-> results[o].owner_hint, owner_lookup |-> lookup[o],
              vehicle_hint |-> None,
              distance |-> [p \in Persons |-> Reach(p, results[o].pos)]]
        ELSE [shown |-> FALSE,
              overlapped |-> o \in DOMAIN boxes /\ \E p \in Persons : Seen(p, boxes[o])]]

StandBy(o) ==
    {p \in Persons : crowd[p] # None /\ InRoi(crowd[p]) /\ Distance(crowd[p], boxes'[o]) <= NearReach}

(* Step 6 of process_frame, and what becomes of the boxes.                 *)
Track(results, lookup) ==
    /\ Tracker!Update(Sighting(results, lookup))
    /\ boxes' = [o \in DOMAIN tracks' |-> IF o \in seen' THEN results[o].pos ELSE boxes[o]]
    /\ \E new \in SetToSeqs(DOMAIN tracks' \ DOMAIN tracks) :
          order' = Members(order, DOMAIN tracks') \o new
    /\ attended' = [o \in DOMAIN tracks' |->
          IF o \in DOMAIN tracks THEN attended[o] \cap StandBy(o) ELSE StandBy(o)]

Lookups(results) ==
    {lookup \in [DOMAIN results -> Persons \cup {None}] :
        \A o \in DOMAIN results : lookup[o] \in Owners(history', results[o].pos)}

-----------------------------------------------------------------------------
(* process_frame *)

DetectorFrame(still) ==
    /\ detector_first
    /\ history' = Pushed
    /\ \E m \in Matchings : \E table \in Looked(m) : \E live \in Lasting(table) :
          detected' = [o \in live |-> table[o]]
    /\ \E results \in {Results(shown, still) : shown \in Unrivalled(detected')} :
       \E owner \in Lookups(results) :
          Track([o \in DOMAIN results |-> [results[o] EXCEPT !.owner_hint = owner[o]]], owner)
    /\ UNCHANGED <<blobs, roi, detector_first, scene>>

LegacyFrame(image, departed) ==
    /\ ~detector_first
    /\ history' = Pushed
    /\ \E items \in Valid(Unique(departed \o Kept), image) :
       \E work \in Blobs(items) :
          /\ blobs' = Fresh(work.blobs)
          /\ \E lookup \in Lookups(work.results) : Track(work.results, lookup)
    /\ UNCHANGED <<detected, roi, detector_first, scene>>

Frame ==
    \/ \E still \in SUBSET Objects : DetectorFrame(still)
    \/ \E image \in BOOLEAN :
          \E departed \in {<<>>} \cup {<<d>> : d \in Departures(image)} : LegacyFrame(image, departed)

Tick ==
    /\ UNCHANGED <<boxes, order, attended, roi, detector_first, scene>>
    /\ Tracker!Tick
    /\ history' = [p \in Persons |-> [x \in Places |->
          IF history[p][x] \in {None, HistoryWindow} THEN None ELSE history[p][x] + 1]]
    /\ blobs' = [o \in DOMAIN blobs |-> [blobs[o] EXCEPT !.age = UpTo(MaxMissed + 1, @ + 1)]]
    /\ detected' = [o \in DOMAIN detected |->
          [detected[o] EXCEPT !.age = UpTo(StrongMissed + 1, @ + 1)]]

(* update_roi; the person history is not cleared.                          *)
UpdateRoi(polygons) ==
    /\ roi' = polygons
    /\ Tracker!ClearCamera
    /\ boxes' = <<>>
    /\ order' = <<>>
    /\ attended' = <<>>
    /\ blobs' = <<>>
    /\ detected' = <<>>
    /\ UNCHANGED <<history, detector_first, scene>>

(* The scene: something is put down or taken away, a person moves.         *)
Move ==
    /\ \/ \E x \in Places : lying' \in {lying \cup {x}, lying \ {x}} /\ UNCHANGED crowd
       \/ \E p \in Persons, x \in Places \cup {None} :
             crowd' = [crowd EXCEPT ![p] = x] /\ UNCHANGED lying
    /\ UNCHANGED <<trackerVars, blobs, detected, history, roi, detector_first>>

Next ==
    \/ Frame
    \/ Tick
    \/ \E polygons \in Rois : UpdateRoi(polygons)
    \/ Move

Spec == Init /\ [][Next]_vars

(* A track over something that lies in the ROI with nobody near.  (The     *)
(* tracker of boxes may have dropped the id or moved its box away, and then*)
(* another id takes over.)                                                 *)
LeftAlone(o) ==
    /\ o \in DOMAIN tracks
    /\ tracks[o].state # "BACKGROUND"
    /\ IF detector_first THEN o \in DOMAIN detected /\ detected[o].pos = boxes[o]
       ELSE o \in DOMAIN blobs
    /\ boxes[o] \in lying
    /\ InRoi(boxes[o])
    /\ \A p \in Persons : Reach(p, boxes[o]) = "far"

(* A frame that shows it, at rest, before it was reported.                 *)
FrameShows(o) ==
    /\ LeftAlone(o) /\ ~tracks[o].alerted
    /\ UNCHANGED scene
    /\ DetectorFrame({o}) \/ LegacyFrame(FALSE, <<>>)
    /\ o \in seen'

(* A frame of a scene in which nothing lies, whatever templates match.     *)
FrameOfNothing ==
    /\ lying = {} /\ tracks # <<>>
    /\ DetectorFrame({})

(* Time passes and frames keep coming; a thing that goes on lying there is *)
(* shown, at rest, again and again.                                        *)
Fairness ==
    /\ WF_vars(Tick)
    /\ WF_vars(FrameOfNothing)
    /\ \A o \in Objects : WF_vars(FrameShows(o))

FairSpec == Spec /\ Fairness

-----------------------------------------------------------------------------
(* Properties *)

(* Every variable has its type, and each track a box and a place in order. *)
ListedOnce(s, S) == s \in Seq(S) /\ ToSet(s) = S /\ IsInjective(s)

FrameTyped ==
    /\ ListedOnce(order, DOMAIN tracks)
    /\ boxes \in [DOMAIN tracks -> Places]
    /\ attended \in [DOMAIN tracks -> SUBSET Persons]
    /\ DOMAIN blobs \subseteq Objects
    /\ blobs \in [DOMAIN blobs -> [pos : Places, hits : 1..StaticConfirm, age : 0..MaxMissed + 1]]
    /\ DOMAIN detected \subseteq Objects
    /\ detected \in [DOMAIN detected -> Box]
    /\ history \in [Persons -> [Places -> 0..HistoryWindow \cup {None}]]
    /\ roi \in Rois
    /\ lying \subseteq Places
    /\ crowd \in [Persons -> Places \cup {None}]

TypeOK == Tracker!TypeOK /\ FrameTyped

(* "Standing by the object after putting it down: no alert" (test case 3 of*)
(* README.md): who was near the object, inside the ROI, in every frame from*)
(* its first one is its owner, unless another person was as near to it; so *)
(* it is not reported as ownerless or as theirs.                           *)
StandingByIsNotReported ==
    [][\A o \in Objects :
         ~Tracker!Alerted(o) /\ Tracker!Alerted(o)' =>
            \A p \in attended'[o] : tracks'[o].owner_track_id \notin {None, p}]_vars

(* A thing that goes on lying where the tracker has it, with nobody near,  *)
(* is eventually reported, whoever the history offers as its owner.        *)
LeftAloneIsReported ==
    \A o \in Objects : <>[]LeftAlone(o) => <>[]Tracker!Alerted(o)

(* A template that matches where nothing lies any more keeps its box alive.*)
Rediscovered ==
    /\ lying = {}
    /\ \E o \in DOMAIN detected \cap DOMAIN detected' : detected'[o].age < detected[o].age

(* When everything is taken away, and sooner or later no template matches  *)
(* the bare ground, the tracker eventually watches nothing, although every *)
(* box is reported, owner and all, until its retention has run out, and the*)
(* state machine takes it for there.                                       *)
Forgotten == \A o \in DOMAIN tracks : tracks[o].state = "BACKGROUND"

VanishedIsForgotten ==
    detector_first /\ <>[](lying = {}) /\ <>[][~Rediscovered]_vars => <>[]Forgotten

-----------------------------------------------------------------------------
(* What the code does not keep: MCLegacyVanished, MCTemplateGhost,         *)
(* MCLegacyTwins and MCOwnerOldRoi violate these.                          *)

(* Test case 2 of README.md: what is taken away loses its track, by a claim*)
(* or a removal, if frames with and without an image keep coming.  In      *)
(* legacy mode a frame without an image feeds the boxes of the tracks back *)
(* unverified, so the dwell goes on without the thing; in detector mode a  *)
(* template that matches the bare ground does the same.                    *)
LegacyFairSpec ==
    FairSpec /\ \A image \in BOOLEAN : WF_vars(LegacyFrame(image, <<>>))

VanishedIsForgottenAlways == <>[](lying = {}) => <>[]Forgotten

(* One thing raises one alert: no two alerted tracks cover one another.    *)
OneAlertPerPlace ==
    \A o, k \in DOMAIN tracks :
        tracks[o].alerted /\ tracks[k].alerted /\ o # k => Distance(boxes[o], boxes[k]) > CoverReach

(* "Only a person/vehicle whose tracked box is in the configured ROI can   *)
(* contribute to a dumping incident" (comment in process_frame): but the   *)
(* history remembers who was in the ROI that update_roi has replaced.      *)
OwnerFromRoi ==
    [][\A o \in DOMAIN tracks' :
         (o \in DOMAIN tracks => tracks[o].owner_track_id = None) /\ tracks'[o].owner_track_id # None =>
            \E x \in Places : InRoi(x) /\ history'[tracks'[o].owner_track_id][x] # None]_vars

-----------------------------------------------------------------------------
(* The inductive invariant behind the theorems *)

(* A track that was confirmed without an owner is one nobody stood by.     *)
OwnerlessIsUnattended ==
    \A o \in DOMAIN tracks :
        /\ tracks[o].state \notin {"CONFIRMING", "BACKGROUND"}
        /\ tracks[o].owner_track_id = None
        => attended[o] = {}

=============================================================================
