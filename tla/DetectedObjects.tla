--------------------------- MODULE DetectedObjects ---------------------------
(***************************************************************************)
(* DetectedObjectTracker (src/src/detection/detected_object_tracker.py):   *)
(* stable ids for the boxes of the semantic detector, which runs on few    *)
(* frames and misses objects.  Between its hits a template of the object's *)
(* pixels keeps the box alive.                                             *)
(*                                                                         *)
(* A box is a point of a line: two boxes match, describe one object or are *)
(* unmoved if their distance is within a reach.  target_margin is a level  *)
(* on a logarithmic scale, on which its decay by 0.9 is one level down.    *)
(***************************************************************************)
EXTENDS Naturals, Sequences

CONSTANTS
    Ids,              \* bound: object ids that can be in use at once
    Positions,        \* a finite interval of Nat
    MatchReach,       \* iou_match_threshold
    StillShift,       \* stationary_center_shift_px
    TwinReach,        \* track_nms_iou_threshold, track_containment_threshold
    SearchReach,      \* visual_search_padding_ratio
    MinVisual,        \* min_semantic_hits_for_visual
    MinStatic,        \* min_semantic_hits_for_static
    MinPublish,       \* min_semantic_hits_for_publish
    Strong,           \* strong_visual_margin, as a level
    MaxLevel,         \* bound: highest level of a margin
    MissedWeak,       \* unconfirmed_max_missed_seconds
    MissedPublished,  \* max_missed_seconds
    MissedStrong,     \* strong_max_missed_seconds
    MaxStep,          \* bound: longest time between two calls of update
    MaxHits           \* bound: hits are counted up to this

ASSUME DetectedObjectConstants ==
    /\ Positions \subseteq Nat
    /\ {MatchReach, StillShift, TwinReach, SearchReach, MissedWeak,
        MissedPublished, MissedStrong, MaxStep, MaxLevel, Strong} \subseteq Nat
    /\ MaxHits \in Nat \ {0}
    /\ MinVisual \in Nat \ {0}
    /\ MinStatic \in Nat \ {0, 1}
    /\ MinPublish \in Nat \ {0, 1}
    /\ MissedPublished <= MissedStrong

VARIABLES
    tracks,     \* _tracks
    reported,   \* ids in the result of the last update
    looks,      \* history: frames with detections in the life of a track
    undetected  \* history: time since a track's last detection

vars == <<tracks, reported, looks, undetected>>

Distance(x, y) == IF x >= y THEN x - y ELSE y - x

UpTo(limit, n) == IF n > limit THEN limit ELSE n

Longest == CHOOSE m \in {MissedWeak, MissedStrong} :
               m >= MissedWeak /\ m >= MissedStrong

Detection == [pos : Positions, margin : 0..MaxLevel]

-----------------------------------------------------------------------------
(* Lifetimes *)

IsStrong(track) == track.margin >= Strong

MaxMissed(track) ==
    IF IsStrong(track) THEN MissedStrong
    ELSE IF track.semantic >= MinPublish THEN MissedPublished
    ELSE MissedWeak

Live(track) == track.age <= MaxMissed(track)

-----------------------------------------------------------------------------
(* One detection *)

NewTrack(d, template) ==
    [pos |-> d.pos, hits |-> 1, semantic |-> 1, template |-> template,
     margin |-> d.margin, age |-> 0]

(* A template is taken from a frame with an image, unless the patch is too *)
(* small or uniform.                                                       *)
Templates(old, image) == IF image THEN {old, TRUE} ELSE {old}

(* The smoothed box lies between the old one and the new one.              *)
Between(x, y) == {p \in Positions : (x <= p /\ p <= y) \/ (y <= p /\ p <= x)}

Still(hits, shift) == IF shift <= StillShift THEN UpTo(MaxHits, hits + 1) ELSE 1

Decayed(margin) == IF margin = 0 THEN 0 ELSE margin - 1

Stronger(d, track) ==
    IF d.margin >= Decayed(track.margin) THEN d.margin ELSE Decayed(track.margin)

Hit(track, d, image) ==
    {[pos |-> p, template |-> t, age |-> 0,
      hits |-> Still(track.hits, Distance(track.pos, d.pos)),
      semantic |-> UpTo(MaxHits, track.semantic + 1),
      margin |-> Stronger(d, track)] :
        p \in Between(track.pos, d.pos), t \in Templates(track.template, image)}

(* A detection takes the nearest track no other detection of the frame has *)
(* taken, if it is near enough, and is a new track otherwise.              *)
(* Mutant of Free: a track may be hit twice in a frame.                    *)
FreeOrTaken(work) == DOMAIN work.tracks

Free(work) == DOMAIN work.tracks \ work.used

Nearest(work, d) ==
    {o \in Free(work) :
        /\ Distance(work.tracks[o].pos, d.pos) <= MatchReach
        /\ \A k \in Free(work) :
              Distance(work.tracks[o].pos, d.pos) <= Distance(work.tracks[k].pos, d.pos)}

With(f, o, value) == [x \in DOMAIN f \cup {o} |-> IF x = o THEN value ELSE f[x]]

(* A new id; a frame that would need more ids than the bound does not come.*)
Unused(work) ==
    IF Ids \subseteq DOMAIN work.tracks THEN {}
    ELSE {CHOOSE n \in Ids : n \notin DOMAIN work.tracks}

Matched(work, d, image) ==
    IF Nearest(work, d) # {}
    THEN UNION {{[tracks |-> With(work.tracks, o, t), used |-> work.used \cup {o}] :
                    t \in Hit(work.tracks[o], d, image)} : o \in Nearest(work, d)}
    ELSE {[tracks |-> With(work.tracks, o, NewTrack(d, t)), used |-> work.used \cup {o}] :
            o \in Unused(work), t \in Templates(FALSE, image)}

(* What the tracks can be once all detections are matched, one by one.     *)
AllMatched(detections, start, image) ==
    LET works[n \in 0..Len(detections)] ==
            IF n = 0 THEN {[tracks |-> start, used |-> {}]}
            ELSE UNION {Matched(w, detections[n], image) : w \in works[n - 1]}
    IN  works[Len(detections)]

-----------------------------------------------------------------------------
(* The template search for a track without a detection *)

(* Mutant of VisualEligible: one detection is enough.                      *)
VisualWhateverSeen(track) == track.template

VisualEligible(track) ==
    track.template /\ (track.semantic >= MinVisual \/ IsStrong(track))

(* Mutant of VisualHits: template matches count as hits.                   *)
VisualHitsAlways(track, shift) == Still(track.hits, shift)

VisualHits(track, shift) ==
    IF track.semantic >= MinStatic THEN Still(track.hits, shift) ELSE 1

Found(track) ==
    UNION {{[track EXCEPT !.pos = p, !.age = 0, !.hits = VisualHits(track, Distance(track.pos, q))] :
                p \in Between(track.pos, q)} :
            q \in {x \in Positions : Distance(x, track.pos) <= SearchReach}}

VisualUpdates(track, image) ==
    {track} \cup IF image /\ VisualEligible(track) THEN Found(track) ELSE {}

-----------------------------------------------------------------------------
(* snapshot: of tracks that describe one object the best supported one is  *)
(* reported; the confidence decides between equals and is left open.       *)
Twins(s, t) == Distance(s.pos, t.pos) <= TwinReach

Snapshots(live) ==
    {R \in SUBSET DOMAIN live :
        /\ \A o, k \in R : o # k => ~Twins(live[o], live[k])
        /\ \A o \in DOMAIN live \ R :
              \E k \in R : Twins(live[o], live[k]) /\ live[k].semantic >= live[o].semantic}

-----------------------------------------------------------------------------
(* The tracker *)

Init ==
    /\ tracks = <<>>
    /\ reported = {}
    /\ looks = [o \in Ids |-> 0]
    /\ undetected = [o \in Ids |-> 0]

Aged(dt) ==
    [o \in DOMAIN tracks |->
        [tracks[o] EXCEPT !.age = UpTo(Longest + 1, @ + dt)]]

(* update: dt after the last call, with the detections in order of their   *)
(* confidence.                                                             *)
Update(dt, detections, image) ==
    /\ \E work \in AllMatched(detections, Aged(dt), image) :
       \E seen \in [DOMAIN work.tracks ->
                        UNION {VisualUpdates(work.tracks[o], image) : o \in DOMAIN work.tracks}] :
          /\ \A o \in DOMAIN seen :
                seen[o] \in IF o \in work.used THEN {work.tracks[o]}
                            ELSE VisualUpdates(work.tracks[o], image)
          /\ tracks' = [o \in {x \in DOMAIN seen : Live(seen[x])} |-> seen[o]]
          /\ undetected' = [o \in Ids |->
                IF o \notin DOMAIN tracks' \/ o \in work.used THEN 0
                ELSE UpTo(Longest + 1, undetected[o] + dt)]
    /\ looks' = [o \in Ids |->
            IF o \notin DOMAIN tracks' THEN 0
            ELSE IF detections = <<>> THEN looks[o]
            ELSE IF o \notin DOMAIN tracks THEN 1
            ELSE UpTo(MaxHits, looks[o] + 1)]
    /\ reported' \in Snapshots(tracks')

Clear ==
    /\ tracks' = <<>>
    /\ looks' = [o \in Ids |-> 0]
    /\ undetected' = [o \in Ids |-> 0]
    /\ UNCHANGED reported

(* At most two boxes a frame, not at one place: process_frame merges boxes *)
(* that nearly coincide.                                                   *)
Detections ==
    {<<>>} \cup {<<d>> : d \in Detection}
           \cup {pair \in Detection \X Detection : pair[1].pos # pair[2].pos}

Next ==
    \/ \E dt \in 1..MaxStep, detections \in Detections, image \in BOOLEAN :
            Update(dt, detections, image)
    \/ Clear

Spec == Init /\ [][Next]_vars

-----------------------------------------------------------------------------
(* Properties *)

Track == [pos : Positions, hits : 1..MaxHits, semantic : 1..MaxHits,
          template : BOOLEAN, margin : 0..MaxLevel, age : 0..Longest]

(* Every variable has its type, and no track is older than the longest    *)
(* lifetime.                                                               *)
TypeOK ==
    /\ DOMAIN tracks \subseteq Ids
    /\ \A o \in DOMAIN tracks : tracks[o] \in Track
    /\ reported \subseteq Ids
    /\ looks \in [Ids -> 0..MaxHits]
    /\ undetected \in [Ids -> 0..Longest + 1]

(* "Repeated detector hits" are looks at the scene at different times: one *)
(* inference, however many boxes it returns for an object, is one hit.     *)
HitsAreDistinctLooks ==
    \A o \in DOMAIN tracks : tracks[o].semantic <= looks[o]

(* "Static confirmation still requires repeated detector hits" (comment in *)
(* _visual_update): until the detector has hit a track MinStatic times, no *)
(* template match adds to the count the state machine takes for stillness. *)
StillnessNeedsTheDetector ==
    \A o \in DOMAIN tracks :
        tracks[o].semantic < MinStatic => tracks[o].hits <= tracks[o].semantic

(* "A track without enough agreement lives through one detector cycle      *)
(* only" (configs/app_config.yaml, unconfirmed_max_missed_seconds): a box  *)
(* that the detector has not confirmed for longer than a track of its kind *)
(* may go unseen was carried on by templates, and only a track with enough *)
(* hits or a strong margin is.                                             *)
CarriedOnEvidence ==
    \A o \in reported \cap DOMAIN tracks :
        \/ undetected[o] <= MaxMissed(tracks[o])
        \/ tracks[o].semantic >= MinVisual
        \/ IsStrong(tracks[o])

(* "Keep detector IDs stable" (docstring of DetectedObjectTracker): an     *)
(* object that is still tracked under the id it was reported with is not   *)
(* reported under another one because a twin track got more hits.          *)
ReportedIdIsStable ==
    [][\A o \in {x \in reported \cap DOMAIN tracks \cap DOMAIN tracks' :
                    tracks[x].semantic >= MinPublish} :
            \A k \in reported' :
                Twins(tracks'[o], tracks'[k]) /\ o # k
                    => tracks'[k].semantic <= tracks'[o].semantic]_vars

-----------------------------------------------------------------------------
(* The inductive invariant behind the theorems *)

(* A track against the history: hits of the detector are looks, stillness  *)
(* before MinStatic of them is theirs, and a track that is older than its  *)
(* last detection is young only because its template may be searched for.  *)
TrackSound(track, looked, unseen) ==
    /\ track \in [pos : Positions, hits : 1..MaxHits, semantic : 1..MaxHits,
                  template : BOOLEAN, margin : 0..MaxLevel, age : Nat]
    /\ unseen \in Nat /\ looked \in track.semantic..MaxHits
    /\ track.semantic < MinStatic => track.hits <= track.semantic
    /\ unseen <= track.age \/ track.semantic >= MinVisual \/ IsStrong(track)
    /\ Live(track)

TracksSound ==
    \A o \in DOMAIN tracks : TrackSound(tracks[o], looks[o], undetected[o])

=============================================================================
