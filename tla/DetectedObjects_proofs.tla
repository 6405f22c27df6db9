----------------------- MODULE DetectedObjects_proofs -----------------------
(***************************************************************************)
(* Proofs about the detected object tracker, for any ids, positions,       *)
(* margins and times within DetectedObjectConstants.                       *)
(***************************************************************************)
EXTENDS DetectedObjects, TLAPS

-----------------------------------------------------------------------------
(* One track *)

Shape == [pos : Positions, hits : 1..MaxHits, semantic : 1..MaxHits, template : BOOLEAN,
          margin : 0..MaxLevel, age : Nat]

LEMMA UpToBounds ==
    ASSUME NEW limit \in Nat, NEW m \in Nat, NEW n \in Nat, m <= n
    PROVE  /\ UpTo(limit, m) \in Nat /\ UpTo(limit, m) <= UpTo(limit, n)
           /\ UpTo(limit, m) <= limit /\ UpTo(limit, m) <= m
           /\ m <= limit => m <= UpTo(limit, n)
BY DEF UpTo

LEMMA Durations == Longest \in Nat /\ \A track : MaxMissed(track) \in Nat
<1>1. {MissedWeak, MissedPublished, MissedStrong} \subseteq Nat
  BY DetectedObjectConstants
<1>2. \E m \in {MissedWeak, MissedStrong} : m >= MissedWeak /\ m >= MissedStrong
  BY <1>1
<1>3. Longest \in {MissedWeak, MissedStrong}
  BY <1>2 DEF Longest
<1> QED BY <1>1, <1>3 DEF MaxMissed

LEMMA StillTyped ==
    ASSUME NEW hits \in Nat, NEW shift
    PROVE  /\ Still(hits, shift) \in 1..MaxHits
           /\ Still(hits, shift) = 1 \/ Still(hits, shift) = UpTo(MaxHits, hits + 1)
<1>1. MaxHits \in Nat \ {0}
  BY DetectedObjectConstants
<1> QED BY <1>1 DEF Still, UpTo

(* What a track is one call later, before the detections.                  *)
Older(track, dt) == [track EXCEPT !.age = UpTo(Longest + 1, @ + dt)]

LEMMA OlderFields ==
    ASSUME NEW track \in Shape, NEW dt \in Nat
    PROVE  /\ Older(track, dt) \in Shape
           /\ Older(track, dt).hits = track.hits
           /\ Older(track, dt).semantic = track.semantic
           /\ Older(track, dt).margin = track.margin
           /\ Older(track, dt).age = UpTo(Longest + 1, track.age + dt)
<1>1. UpTo(Longest + 1, track.age + dt) \in Nat
  BY Durations DEF UpTo, Shape
<1> QED BY <1>1 DEF Older, Shape

(* The first detection of an object.                                       *)
LEMMA NewSound ==
    ASSUME NEW d \in Detection, NEW t \in BOOLEAN
    PROVE  TrackSound(NewTrack(d, t), 1, 0)
<1> DEFINE new == NewTrack(d, t)
<1>1. MaxHits \in Nat \ {0} /\ MaxLevel \in Nat
  BY DetectedObjectConstants
<1>2. /\ new \in Shape /\ new.hits = 1 /\ new.semantic = 1 /\ new.age = 0
  BY <1>1 DEF NewTrack, Detection, Shape
<1> HIDE DEF new
<1>3. Live(new)
  BY <1>2, Durations DEF Live
<1>4. TrackSound(new, 1, 0)
  BY <1>1, <1>2, <1>3 DEF TrackSound, Shape
<1> QED BY <1>4 DEF new

(* A detection of a known one: one more hit of one more look.              *)
LEMMA HitSound ==
    ASSUME NEW track, NEW looked, NEW unseen, TrackSound(track, looked, unseen), NEW dt \in Nat,
           NEW d \in Detection, NEW image, NEW new \in Hit(Older(track, dt), d, image)
    PROVE  TrackSound(new, UpTo(MaxHits, looked + 1), 0)
<1> DEFINE old == Older(track, dt)
<1>1. MaxHits \in Nat \ {0} /\ MaxLevel \in Nat
  BY DetectedObjectConstants
<1>2. /\ track \in Shape /\ looked \in track.semantic..MaxHits
      /\ track.hits \in Nat /\ track.semantic \in 1..MaxHits
      /\ track.semantic < MinStatic => track.hits <= track.semantic
  BY DEF TrackSound, Shape
<1>3. old \in Shape /\ old.hits = track.hits /\ old.semantic = track.semantic
  BY <1>2, OlderFields
<1> HIDE DEF old
<1>4. PICK p \in Between(old.pos, d.pos), t \in Templates(old.template, image) :
        new = [pos |-> p, template |-> t, age |-> 0,
               hits |-> Still(old.hits, Distance(old.pos, d.pos)),
               semantic |-> UpTo(MaxHits, old.semantic + 1),
               margin |-> Stronger(d, old)]
  BY DEF Hit, old
<1>5. p \in Positions /\ t \in BOOLEAN
  BY <1>3 DEF Between, Templates, Shape
<1>6. Stronger(d, old) \in 0..MaxLevel
  BY <1>1, <1>3 DEF Stronger, Decayed, Detection, Shape
<1>7. /\ UpTo(MaxHits, track.semantic + 1) \in 1..MaxHits
      /\ UpTo(MaxHits, looked + 1) \in UpTo(MaxHits, track.semantic + 1)..MaxHits
  BY <1>1, <1>2 DEF UpTo
<1>8. /\ new \in Shape /\ new.age = 0 /\ new.semantic = UpTo(MaxHits, track.semantic + 1)
      /\ new.hits = 1 \/ new.hits = UpTo(MaxHits, track.hits + 1)
  <2>1. /\ Still(old.hits, Distance(old.pos, d.pos)) \in 1..MaxHits
        /\ \/ Still(old.hits, Distance(old.pos, d.pos)) = 1
           \/ Still(old.hits, Distance(old.pos, d.pos)) = UpTo(MaxHits, track.hits + 1)
    BY <1>2, <1>3, StillTyped
  <2>2. UpTo(MaxHits, old.semantic + 1) \in 1..MaxHits
    BY <1>3, <1>7
  <2> QED BY <1>3, <1>4, <1>5, <1>6, <2>1, <2>2 DEF Shape
<1>9. new.semantic < MinStatic => new.hits <= new.semantic
  <2>1. MinStatic \in Nat
    BY DetectedObjectConstants
  <2>2. CASE new.hits = 1
    BY <1>7, <1>8, <2>2
  <2>3. CASE new.hits = UpTo(MaxHits, track.hits + 1)
    BY <1>1, <1>2, <1>8, <2>1, <2>3 DEF UpTo
  <2> QED BY <1>8, <2>2, <2>3
<1>10. Live(new)
  BY <1>8, Durations DEF Live
<1>11. new.age \in Nat /\ 0 <= new.age
  BY <1>8
<1> QED BY <1>7, <1>8, <1>9, <1>10, <1>11 DEF TrackSound, Shape

(* No detection: the template is searched for, or the track grows older.   *)
LEMMA UnhitSound ==
    ASSUME NEW track, NEW looked, NEW unseen, TrackSound(track, looked, unseen), NEW dt \in Nat,
           NEW image, NEW new \in VisualUpdates(Older(track, dt), image), Live(new),
           NEW now_looked \in {looked, UpTo(MaxHits, looked + 1)}
    PROVE  TrackSound(new, now_looked, UpTo(Longest + 1, unseen + dt))
<1> DEFINE old == Older(track, dt)
           now_unseen == UpTo(Longest + 1, unseen + dt)
<1>1. MaxHits \in Nat \ {0} /\ MinStatic \in Nat /\ MinVisual \in Nat /\ Longest \in Nat
  BY DetectedObjectConstants, Durations
<1>2. /\ track \in Shape /\ looked \in track.semantic..MaxHits /\ unseen \in Nat
      /\ track.hits \in Nat /\ track.semantic \in 1..MaxHits /\ track.age \in Nat
      /\ track.semantic < MinStatic => track.hits <= track.semantic
      /\ unseen <= track.age \/ track.semantic >= MinVisual \/ IsStrong(track)
  BY DEF TrackSound, Shape
<1>3. /\ old \in Shape /\ old.hits = track.hits /\ old.semantic = track.semantic
      /\ old.margin = track.margin /\ old.age = UpTo(Longest + 1, track.age + dt)
  BY <1>2, OlderFields
<1>4. now_looked \in track.semantic..MaxHits
  BY <1>1, <1>2 DEF UpTo
<1>5. now_unseen \in Nat /\ (unseen <= track.age => now_unseen <= old.age)
  BY <1>1, <1>2, <1>3 DEF UpTo
<1> HIDE DEF old, now_unseen
<1>6. CASE new = old
  <2>1. unseen <= track.age => now_unseen <= new.age
    BY <1>5, <1>6
  <2> QED BY <1>2, <1>3, <1>4, <1>5, <1>6, <2>1 DEF TrackSound, Shape, IsStrong, now_unseen
<1>7. CASE VisualEligible(old) /\ new \in Found(old)
  <2>1. PICK q \in Positions : \E p \in Between(old.pos, q) :
          new = [old EXCEPT !.pos = p, !.age = 0, !.hits = VisualHits(old, Distance(old.pos, q))]
    BY <1>7 DEF Found
  <2>9. PICK p \in Between(old.pos, q) :
          new = [old EXCEPT !.pos = p, !.age = 0, !.hits = VisualHits(old, Distance(old.pos, q))]
    BY <2>1
  <2> DEFINE counted == VisualHits(old, Distance(old.pos, q))
  <2>2. counted \in 1..MaxHits /\ (old.semantic < MinStatic => counted = 1)
    BY <1>1, <1>2, <1>3, StillTyped DEF VisualHits
  <2>3. p \in Positions
    BY DEF Between
  <2> HIDE DEF counted
  <2>4. /\ new \in Shape /\ new.age = 0 /\ new.hits = counted
        /\ new.semantic = old.semantic /\ new.margin = old.margin
    BY <1>3, <2>9, <2>2, <2>3 DEF Shape, counted
  <2>5. new.semantic >= MinVisual \/ IsStrong(new)
    BY <1>7, <2>4 DEF VisualEligible, IsStrong
  <2>6. new.semantic < MinStatic => new.hits <= new.semantic
    BY <1>2, <1>3, <2>2, <2>4
  <2> QED BY <1>3, <1>4, <1>5, <2>4, <2>5, <2>6 DEF TrackSound, Shape, now_unseen
<1> QED BY <1>6, <1>7 DEF VisualUpdates, old

-----------------------------------------------------------------------------
(* One frame's detections *)

(* What an object the frame detects can become of the tracks it began with.*)
HitOrNew(o, new, start, image) ==
    IF o \in DOMAIN start
    THEN \E d \in Detection : new \in Hit(start[o], d, image)
    ELSE \E d \in Detection, t \in BOOLEAN : new = NewTrack(d, t)

(* Some detections are matched: each took a track of its own, so a track   *)
(* is hit once, and those no detection took are as they were.              *)
WorkSound(work, start, image) ==
    /\ DOMAIN start \subseteq DOMAIN work.tracks
    /\ DOMAIN work.tracks \subseteq Ids
    /\ work.used \subseteq DOMAIN work.tracks
    /\ \A o \in work.used : HitOrNew(o, work.tracks[o], start, image)
    /\ \A o \in DOMAIN work.tracks \ work.used :
            o \in DOMAIN start /\ work.tracks[o] = start[o]

(* One more detection.                                                     *)
LEMMA MatchedSound ==
    ASSUME NEW start, NEW image \in BOOLEAN, NEW work, WorkSound(work, start, image),
           NEW d \in Detection, NEW new \in Matched(work, d, image)
    PROVE  WorkSound(new, start, image)
<1>1. ASSUME NEW o \in Ids, NEW t, HitOrNew(o, t, start, image),
             new = [tracks |-> With(work.tracks, o, t), used |-> work.used \cup {o}]
      PROVE  WorkSound(new, start, image)
  <2>1. new.tracks = With(work.tracks, o, t) /\ new.used = work.used \cup {o}
    BY <1>1
  <2>2. /\ DOMAIN new.tracks = DOMAIN work.tracks \cup {o}
        /\ new.tracks[o] = t
        /\ \A x \in DOMAIN work.tracks \ {o} : new.tracks[x] = work.tracks[x]
    BY <2>1 DEF With
  <2>3. \A x \in new.used : HitOrNew(x, new.tracks[x], start, image)
    <3> SUFFICES ASSUME NEW x \in new.used PROVE HitOrNew(x, new.tracks[x], start, image)
      OBVIOUS
    <3>1. CASE x = o
      BY <1>1, <2>2, <3>1
    <3>2. CASE x # o
      BY <2>1, <2>2, <3>2 DEF WorkSound
    <3> QED BY <3>1, <3>2
  <2>4. \A x \in DOMAIN new.tracks \ new.used : x \in DOMAIN start /\ new.tracks[x] = start[x]
    BY <2>1, <2>2 DEF WorkSound
  <2>5. /\ DOMAIN start \subseteq DOMAIN new.tracks
        /\ DOMAIN new.tracks \subseteq Ids
        /\ new.used \subseteq DOMAIN new.tracks
    BY <2>1, <2>2 DEF WorkSound
  <2> QED BY <2>3, <2>4, <2>5 DEF WorkSound
<1>2. CASE Nearest(work, d) # {}
  <2>1. PICK o \in Nearest(work, d) : \E t \in Hit(work.tracks[o], d, image) :
          new = [tracks |-> With(work.tracks, o, t), used |-> work.used \cup {o}]
    BY <1>2 DEF Matched
  <2>2. PICK t \in Hit(work.tracks[o], d, image) :
          new = [tracks |-> With(work.tracks, o, t), used |-> work.used \cup {o}]
    BY <2>1
  <2>3. o \in DOMAIN work.tracks \ work.used
    BY DEF Nearest, Free
  <2>4. o \in Ids /\ o \in DOMAIN start /\ work.tracks[o] = start[o]
    BY <2>3 DEF WorkSound
  <2>5. HitOrNew(o, t, start, image)
    BY <2>2, <2>4 DEF HitOrNew
  <2> QED BY <1>1, <2>2, <2>4, <2>5
<1>3. CASE Nearest(work, d) = {}
  <2>1. PICK o \in Unused(work), t \in Templates(FALSE, image) :
          new = [tracks |-> With(work.tracks, o, NewTrack(d, t)), used |-> work.used \cup {o}]
    <3> DEFINE then(o, t) ==
            [tracks |-> With(work.tracks, o, NewTrack(d, t)), used |-> work.used \cup {o}]
               templates == Templates(FALSE, image)
    <3>1. Matched(work, d, image) =
            {then(o, t) : o \in Unused(work), t \in templates}
      BY <1>3 DEF Matched
    <3> HIDE DEF then, templates
    <3>2. \E o \in Unused(work), t \in templates : new = then(o, t)
      BY <3>1
    <3> QED BY <3>2 DEF then, templates
  <2>2. o \in Ids \ DOMAIN work.tracks
    BY DEF Unused
  <2>3. o \notin DOMAIN start /\ t \in BOOLEAN
    BY <2>2 DEF WorkSound, Templates
  <2>4. HitOrNew(o, NewTrack(d, t), start, image)
    BY <2>3 DEF HitOrNew
  <2> QED BY <1>1, <2>1, <2>2, <2>4
<1> QED BY <1>2, <1>3

(* At most two detections are matched one after the other.                 *)
LEMMA AllMatchedInOrder ==
    ASSUME NEW detections \in Detections, NEW start, NEW image,
           NEW work \in AllMatched(detections, start, image)
    PROVE  LET none == [tracks |-> start, used |-> {}] IN
           \/ detections = <<>> /\ work = none
           \/ /\ detections # <<>> /\ detections[1] \in Detection
              /\ \/ work \in Matched(none, detections[1], image)
                 \/ /\ detections[2] \in Detection
                    /\ \E w \in Matched(none, detections[1], image) :
                            work \in Matched(w, detections[2], image)
<1> DEFINE none == [tracks |-> start, used |-> {}]
           After(W, n) == UNION {Matched(w, detections[n], image) : w \in W}
           Works(f) == f = [n \in 0..Len(detections) |->
                              IF n = 0 THEN {none} ELSE After(f[n - 1], n)]
           some == [n \in 0..Len(detections) |->
                      IF n = 0 THEN {none}
                      ELSE IF n = 1 THEN After({none}, 1)
                      ELSE After(After({none}, 1), 2)]
           works == CHOOSE f : Works(f)
<1>1. \/ detections = <<>> /\ Len(detections) = 0
      \/ detections # <<>> /\ Len(detections) = 1 /\ detections[1] \in Detection
      \/ /\ detections # <<>> /\ Len(detections) = 2
         /\ detections[1] \in Detection /\ detections[2] \in Detection
  BY DEF Detections
<1>2. Len(detections) \in {0, 1, 2}
  BY <1>1
<1>3. AllMatched(detections, start, image) = works[Len(detections)]
  BY DEF AllMatched
<1>4. \A w : w \in After({none}, 1) <=> w \in Matched(none, detections[1], image)
  OBVIOUS
<1>5. \A W, n, x : x \in After(W, n) <=> \E w \in W : x \in Matched(w, detections[n], image)
  OBVIOUS
<1> HIDE DEF none, After
<1>6. ASSUME NEW n \in 0..Len(detections)
      PROVE  some[n] = IF n = 0 THEN {none} ELSE After(some[n - 1], n)
  <2>1. n \in {0, 1, 2}
    <3>1. CASE Len(detections) = 0
      BY <3>1
    <3>2. CASE Len(detections) = 1
      BY <3>2
    <3>3. CASE Len(detections) = 2
      BY <3>3
    <3> QED BY <1>2, <3>1, <3>2, <3>3
  <2>2. CASE n = 0
    BY <2>2
  <2>3. CASE n = 1
    <3>1. 0 \in 0..Len(detections) /\ 1 \in 0..Len(detections)
      BY <1>2, <2>3
    <3>2. some[0] = {none} /\ some[1] = After({none}, 1)
      BY <3>1
    <3>3. some[1] = After(some[0], 1)
      BY <3>2
    <3>4. n - 1 = 0
      BY <2>3
    <3> QED BY <2>3, <3>3, <3>4
  <2>4. CASE n = 2
    <3>1. 1 \in 0..Len(detections) /\ 2 \in 0..Len(detections)
      BY <1>2, <2>4
    <3>2. some[1] = After({none}, 1) /\ some[2] = After(After({none}, 1), 2)
      BY <3>1
    <3>3. some[2] = After(some[1], 2)
      BY <3>2
    <3>4. n - 1 = 1
      BY <2>4
    <3> QED BY <2>4, <3>3, <3>4
  <2> QED BY <2>1, <2>2, <2>3, <2>4
<1>7. Works(some)
  <2>1. some = [n \in 0..Len(detections) |-> some[n]]
    OBVIOUS
  <2> HIDE DEF some
  <2> QED BY <1>6, <2>1
<1> HIDE DEF some
<1>8. Works(works)
  BY <1>7
<1> HIDE DEF works
<1>9. \A n \in 0..Len(detections) :
          works[n] = IF n = 0 THEN {none} ELSE After(works[n - 1], n)
  BY <1>8
<1> HIDE DEF Works
<1>10. works[0] = {none}
  <2>1. 0 \in 0..Len(detections)
    BY <1>2
  <2> QED BY <1>9, <2>1
<1>11. CASE Len(detections) = 0
  BY <1>1, <1>3, <1>10, <1>11 DEF none
<1>12. ASSUME Len(detections) >= 1
       PROVE  works[1] = After({none}, 1)
  <2>1. 1 \in 0..Len(detections) /\ 1 # 0
    BY <1>2, <1>12
  <2>2. works[1] = After(works[1 - 1], 1)
    BY <1>9, <2>1
  <2>3. 1 - 1 = 0
    OBVIOUS
  <2> QED BY <1>10, <2>2, <2>3
<1>13. CASE Len(detections) = 1
  <2>1. work \in After({none}, 1)
    BY <1>3, <1>12, <1>13
  <2>2. work \in Matched(none, detections[1], image)
    BY <1>4, <2>1
  <2> QED BY <1>1, <1>13, <2>2 DEF none
<1>14. CASE Len(detections) = 2
  <2>1. 2 \in 0..Len(detections) /\ 2 - 1 = 1
    BY <1>14
  <2>2. works[2] = After(After({none}, 1), 2)
    BY <1>9, <1>12, <1>14, <2>1
  <2>3. work \in After(After({none}, 1), 2)
    BY <1>3, <1>14, <2>2
  <2>4. PICK w \in After({none}, 1) : work \in Matched(w, detections[2], image)
    BY <1>5, <2>3
  <2>5. w \in Matched(none, detections[1], image)
    BY <1>4, <2>4
  <2> QED BY <1>1, <1>14, <2>4, <2>5 DEF none
<1> QED BY <1>2, <1>11, <1>13, <1>14

LEMMA AllMatchedSound ==
    ASSUME NEW detections \in Detections, NEW start, DOMAIN start \subseteq Ids,
           NEW image \in BOOLEAN, NEW work \in AllMatched(detections, start, image)
    PROVE  /\ WorkSound(work, start, image)
           /\ detections = <<>> => work.used = {}
<1> DEFINE none == [tracks |-> start, used |-> {}]
<1>1. WorkSound(none, start, image)
  BY DEF WorkSound
<1>2. \/ detections = <<>> /\ work = none
      \/ /\ detections # <<>> /\ detections[1] \in Detection
         /\ \/ work \in Matched(none, detections[1], image)
            \/ /\ detections[2] \in Detection
               /\ \E w \in Matched(none, detections[1], image) :
                       work \in Matched(w, detections[2], image)
  BY AllMatchedInOrder
<1>3. CASE detections = <<>> /\ work = none
  BY <1>1, <1>3
<1> HIDE DEF none
<1>4. CASE detections # <<>> /\ detections[1] \in Detection
           /\ work \in Matched(none, detections[1], image)
  BY <1>1, <1>4, MatchedSound
<1>5. CASE detections # <<>> /\ detections[1] \in Detection /\ detections[2] \in Detection
           /\ \E w \in Matched(none, detections[1], image) :
                   work \in Matched(w, detections[2], image)
  <2>1. PICK w \in Matched(none, detections[1], image) : work \in Matched(w, detections[2], image)
    BY <1>5
  <2>2. WorkSound(w, start, image)
    BY <1>1, <1>5, MatchedSound
  <2>3. WorkSound(work, start, image)
    BY <1>5, <2>1, <2>2, MatchedSound
  <2> QED BY <1>5, <2>3
<1> QED BY <1>2, <1>3, <1>4, <1>5

-----------------------------------------------------------------------------
(* The tracker *)

ObjectsInv == TypeOK /\ TracksSound

LEMMA SoundTrackTyped ==
    ASSUME NEW track, NEW looked, NEW unseen, TrackSound(track, looked, unseen)
    PROVE  track \in Track
<1>1. {MissedWeak, MissedPublished, MissedStrong} \subseteq Nat /\ MissedPublished <= MissedStrong
  BY DetectedObjectConstants
<1>2. \E m \in {MissedWeak, MissedStrong} : m >= MissedWeak /\ m >= MissedStrong
  BY <1>1
<1>3. Longest \in {MissedWeak, MissedStrong} /\ Longest >= MissedWeak /\ Longest >= MissedStrong
  BY <1>2 DEF Longest
<1>4. MaxMissed(track) \in 0..Longest
  BY <1>1, <1>3 DEF MaxMissed
<1>5. track \in Shape /\ track.age \in Nat /\ track.age <= MaxMissed(track)
  BY DEF TrackSound, Live, Shape
<1>6. track.age \in 0..Longest
  <2>1. Longest \in Nat
    BY <1>1, <1>3
  <2>2. track.age <= Longest
    BY <1>4, <1>5, <2>1
  <2> QED BY <1>5, <2>1, <2>2
<1> QED BY <1>5, <1>6 DEF Shape, Track

(* One call of update, for one of the tracks it leaves.                    *)
LEMMA TrackUpdated ==
    ASSUME TypeOK, TracksSound, NEW dt \in 1..MaxStep, NEW detections \in Detections,
           NEW image \in BOOLEAN, NEW work, WorkSound(work, Aged(dt), image),
           detections = <<>> => work.used = {},
           NEW o \in DOMAIN work.tracks,
           NEW new \in IF o \in work.used THEN {work.tracks[o]}
                       ELSE VisualUpdates(work.tracks[o], image),
           Live(new)
    PROVE  TrackSound(new,
                      IF detections = <<>> THEN looks[o]
                      ELSE IF o \notin DOMAIN tracks THEN 1
                      ELSE UpTo(MaxHits, looks[o] + 1),
                      IF o \in work.used THEN 0 ELSE UpTo(Longest + 1, undetected[o] + dt))
<1> DEFINE looked == IF detections = <<>> THEN looks[o]
                     ELSE IF o \notin DOMAIN tracks THEN 1
                     ELSE UpTo(MaxHits, looks[o] + 1)
           start == Aged(dt)
<1>1. dt \in Nat
  BY DetectedObjectConstants
<1>2. DOMAIN start = DOMAIN tracks /\ \A x \in DOMAIN tracks : start[x] = Older(tracks[x], dt)
  BY DEF Aged, Older
<1>3. WorkSound(work, start, image)
  OBVIOUS
<1> HIDE DEF start
<1>4. CASE o \in work.used
  <2>1. detections # <<>> /\ new = work.tracks[o] /\ HitOrNew(o, new, start, image)
    BY <1>3, <1>4 DEF WorkSound
  <2>2. CASE o \in DOMAIN tracks
    <3>1. PICK d \in Detection : new \in Hit(Older(tracks[o], dt), d, image)
      BY <1>2, <2>1, <2>2 DEF HitOrNew
    <3>2. TrackSound(tracks[o], looks[o], undetected[o])
      BY <2>2 DEF TracksSound
    <3>3. TrackSound(new, UpTo(MaxHits, looks[o] + 1), 0)
      BY <1>1, <3>1, <3>2, HitSound
    <3> QED BY <1>4, <2>1, <2>2, <3>3
  <2>3. CASE o \notin DOMAIN tracks
    <3>1. PICK d \in Detection : \E t \in BOOLEAN : new = NewTrack(d, t)
      BY <1>2, <2>1, <2>3 DEF HitOrNew
    <3>2. TrackSound(new, 1, 0)
      BY <3>1, NewSound
    <3> QED BY <1>4, <2>1, <2>3, <3>2
  <2> QED BY <2>2, <2>3
<1>5. CASE o \notin work.used
  <2>1. o \in DOMAIN tracks /\ work.tracks[o] = Older(tracks[o], dt)
    BY <1>2, <1>3, <1>5 DEF WorkSound
  <2>2. TrackSound(tracks[o], looks[o], undetected[o])
    BY <2>1 DEF TracksSound
  <2>3. new \in VisualUpdates(Older(tracks[o], dt), image)
    BY <1>5, <2>1
  <2>4. looked \in {looks[o], UpTo(MaxHits, looks[o] + 1)}
    BY <2>1
  <2> HIDE DEF looked
  <2>5. TrackSound(new, looked, UpTo(Longest + 1, undetected[o] + dt))
    BY <1>1, <2>2, <2>3, <2>4, UnhitSound
  <2> QED BY <1>5, <2>5 DEF looked
<1> QED BY <1>4, <1>5

LEMMA InitSound == Init => ObjectsInv
<1>1. MaxHits \in Nat /\ Longest \in Nat
  BY DetectedObjectConstants, Durations
<1> SUFFICES ASSUME Init PROVE ObjectsInv
  OBVIOUS
<1>2. DOMAIN tracks = {}
  BY DEF Init
<1>3. looks \in [Ids -> 0..MaxHits] /\ undetected \in [Ids -> 0..Longest + 1]
  BY <1>1 DEF Init
<1> QED BY <1>2, <1>3 DEF Init, ObjectsInv, TypeOK, TracksSound

LEMMA UpdateSound ==
    ASSUME ObjectsInv, NEW dt \in 1..MaxStep, NEW detections \in Detections,
           NEW image \in BOOLEAN, Update(dt, detections, image)
    PROVE  ObjectsInv'
<1>1. MaxHits \in Nat \ {0} /\ Longest \in Nat /\ dt \in Nat
  BY DetectedObjectConstants, Durations
<1>2. /\ looks \in [Ids -> 0..MaxHits] /\ undetected \in [Ids -> 0..Longest + 1]
      /\ DOMAIN Aged(dt) \subseteq Ids
  BY DEF ObjectsInv, TypeOK, Aged
<1>3. PICK work \in AllMatched(detections, Aged(dt), image) :
        \E seen \in [DOMAIN work.tracks ->
                        UNION {VisualUpdates(work.tracks[o], image) : o \in DOMAIN work.tracks}] :
          /\ \A o \in DOMAIN seen :
                seen[o] \in IF o \in work.used THEN {work.tracks[o]}
                            ELSE VisualUpdates(work.tracks[o], image)
          /\ tracks' = [o \in {x \in DOMAIN seen : Live(seen[x])} |-> seen[o]]
          /\ undetected' = [o \in Ids |->
                IF o \notin DOMAIN tracks' \/ o \in work.used THEN 0
                ELSE UpTo(Longest + 1, undetected[o] + dt)]
  BY DEF Update
<1>4. PICK seen \in [DOMAIN work.tracks ->
                        UNION {VisualUpdates(work.tracks[o], image) : o \in DOMAIN work.tracks}] :
          /\ \A o \in DOMAIN seen :
                seen[o] \in IF o \in work.used THEN {work.tracks[o]}
                            ELSE VisualUpdates(work.tracks[o], image)
          /\ tracks' = [o \in {x \in DOMAIN seen : Live(seen[x])} |-> seen[o]]
          /\ undetected' = [o \in Ids |->
                IF o \notin DOMAIN tracks' \/ o \in work.used THEN 0
                ELSE UpTo(Longest + 1, undetected[o] + dt)]
  BY <1>3
<1>5. /\ looks' = [o \in Ids |->
              IF o \notin DOMAIN tracks' THEN 0
              ELSE IF detections = <<>> THEN looks[o]
              ELSE IF o \notin DOMAIN tracks THEN 1
              ELSE UpTo(MaxHits, looks[o] + 1)]
      /\ reported' \subseteq DOMAIN tracks'
  BY DEF Update, Snapshots
<1>6. WorkSound(work, Aged(dt), image) /\ (detections = <<>> => work.used = {})
  BY <1>2, AllMatchedSound
<1>7. DOMAIN work.tracks \subseteq Ids /\ DOMAIN seen = DOMAIN work.tracks
  BY <1>4, <1>6 DEF WorkSound
<1>8. /\ DOMAIN tracks' \subseteq DOMAIN work.tracks
      /\ \A o \in DOMAIN tracks' : tracks'[o] = seen[o] /\ Live(seen[o])
  BY <1>4, <1>7
<1>9. ASSUME NEW o \in DOMAIN tracks'
      PROVE  TrackSound(tracks'[o], looks'[o], undetected'[o])
  <2>1. /\ o \in Ids /\ o \in DOMAIN work.tracks
        /\ tracks'[o] = seen[o] /\ Live(seen[o])
        /\ seen[o] \in IF o \in work.used THEN {work.tracks[o]}
                       ELSE VisualUpdates(work.tracks[o], image)
    BY <1>4, <1>7, <1>8
  <2>2. /\ looks'[o] = IF detections = <<>> THEN looks[o]
                       ELSE IF o \notin DOMAIN tracks THEN 1
                       ELSE UpTo(MaxHits, looks[o] + 1)
        /\ undetected'[o] = IF o \in work.used THEN 0
                            ELSE UpTo(Longest + 1, undetected[o] + dt)
    BY <1>4, <1>5, <2>1
  <2>3. TypeOK /\ TracksSound
    BY DEF ObjectsInv
  <2>4. TrackSound(seen[o],
                   IF detections = <<>> THEN looks[o]
                   ELSE IF o \notin DOMAIN tracks THEN 1
                   ELSE UpTo(MaxHits, looks[o] + 1),
                   IF o \in work.used THEN 0 ELSE UpTo(Longest + 1, undetected[o] + dt))
    BY <1>6, <2>1, <2>3, TrackUpdated
  <2> QED BY <2>1, <2>2, <2>4
<1>10. looks' \in [Ids -> 0..MaxHits]
  <2>1. ASSUME NEW o \in Ids PROVE looks[o] \in 0..MaxHits /\ UpTo(MaxHits, looks[o] + 1) \in 0..MaxHits
    BY <1>1, <1>2 DEF UpTo
  <2> QED BY <1>1, <1>5, <2>1
<1>11. undetected' \in [Ids -> 0..Longest + 1]
  <2>1. ASSUME NEW o \in Ids PROVE UpTo(Longest + 1, undetected[o] + dt) \in 0..Longest + 1
    BY <1>1, <1>2 DEF UpTo
  <2> QED BY <1>1, <1>4, <2>1
<1>12. \A o \in DOMAIN tracks' : tracks'[o] \in Track
  BY <1>9, SoundTrackTyped
<1>13. TypeOK'
  BY <1>5, <1>7, <1>8, <1>10, <1>11, <1>12 DEF TypeOK
<1>14. TracksSound'
  BY <1>9 DEF TracksSound
<1> QED BY <1>13, <1>14 DEF ObjectsInv

LEMMA NextSound == ObjectsInv /\ [Next]_vars => ObjectsInv'
<1> SUFFICES ASSUME ObjectsInv, [Next]_vars PROVE ObjectsInv'
  OBVIOUS
<1>1. CASE \E dt \in 1..MaxStep, detections \in Detections, image \in BOOLEAN :
              Update(dt, detections, image)
  BY <1>1, UpdateSound
<1>2. CASE Clear
  <2>1. MaxHits \in Nat /\ Longest \in Nat
    BY DetectedObjectConstants, Durations
  <2>2. DOMAIN tracks' = {}
    BY <1>2 DEF Clear
  <2>3. looks' \in [Ids -> 0..MaxHits] /\ undetected' \in [Ids -> 0..Longest + 1]
    BY <1>2, <2>1 DEF Clear
  <2> QED BY <1>2, <2>2, <2>3 DEF Clear, ObjectsInv, TypeOK, TracksSound
<1>3. CASE UNCHANGED vars
  BY <1>3 DEF vars, ObjectsInv, TypeOK, TracksSound
<1> QED BY <1>1, <1>2, <1>3 DEF Next

(* In every run every variable has its type, and every track agrees with   *)
(* its history.                                                            *)
THEOREM ObjectsInvariance == Spec => [](TypeOK /\ TracksSound)
<1>1. ObjectsInv => TypeOK /\ TracksSound
  BY DEF ObjectsInv
<1> QED BY <1>1, InitSound, NextSound, PTL DEF Spec

(* One inference is one hit of a track, however many of its boxes lie      *)
(* within reach: a track the frame has hit is not matched again.           *)
THEOREM HitsAreLooks == Spec => []HitsAreDistinctLooks
<1>1. TracksSound => HitsAreDistinctLooks
  <2> SUFFICES ASSUME TracksSound, NEW o \in DOMAIN tracks
               PROVE  tracks[o].semantic <= looks[o]
    BY DEF HitsAreDistinctLooks
  <2>1. tracks[o].semantic \in 1..MaxHits /\ looks[o] \in tracks[o].semantic..MaxHits
    BY DEF TracksSound, TrackSound
  <2>2. MaxHits \in Nat
    BY DetectedObjectConstants
  <2> QED BY <2>1, <2>2
<1> QED BY <1>1, ObjectsInvariance, PTL

(* No template match adds to what counts as stillness before the detector  *)
(* has hit the track MinStatic times.                                      *)
THEOREM StillnessFromDetector == Spec => []StillnessNeedsTheDetector
<1>1. TracksSound => StillnessNeedsTheDetector
  BY DEF TracksSound, TrackSound, StillnessNeedsTheDetector
<1> QED BY <1>1, ObjectsInvariance, PTL

(* A reported box the detector has not confirmed for longer than tracks    *)
(* of its kind may go unseen has enough hits or a strong margin.           *)
THEOREM TemplatesCarryEvidence == Spec => []CarriedOnEvidence
<1>1. TypeOK /\ TracksSound => CarriedOnEvidence
  <2> SUFFICES ASSUME TypeOK, TracksSound, NEW o \in DOMAIN tracks
               PROVE  \/ undetected[o] <= MaxMissed(tracks[o])
                      \/ tracks[o].semantic >= MinVisual
                      \/ IsStrong(tracks[o])
    BY DEF CarriedOnEvidence
  <2>1. /\ undetected[o] \in Nat /\ tracks[o].age \in Nat
        /\ tracks[o].age <= MaxMissed(tracks[o])
        /\ \/ undetected[o] <= tracks[o].age
           \/ tracks[o].semantic >= MinVisual
           \/ IsStrong(tracks[o])
    BY DEF TracksSound, TrackSound, Live
  <2>2. MaxMissed(tracks[o]) \in Nat
    BY Durations
  <2> QED BY <2>1, <2>2
<1> QED BY <1>1, ObjectsInvariance, PTL

=============================================================================
