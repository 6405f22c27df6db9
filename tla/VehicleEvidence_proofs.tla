------------------------ MODULE VehicleEvidence_proofs ------------------------
(***************************************************************************)
(* Proofs about the vehicle filter and the dwell associator, for any       *)
(* vehicles, places and polygons and any times within VehicleConstants.    *)
(* What a detection or a sighting adds is stated of sets of them, before   *)
(* tracks and records are compared with those sets.                        *)
(***************************************************************************)
EXTENDS VehicleEvidence, FiniteSetTheorems, TLAPS

-----------------------------------------------------------------------------
(* Detections of a track: what one more does to the runs among them *)

(* Before, which chooses, is the one detection just before.                *)
LEMMA BeforeIs ==
    ASSUME NEW E, NEW t \in Nat, Filed(E, t), NEW d \in E, NEW e \in E, JustBefore(E, e, d)
    PROVE  Before(E, d) = e
<1>1. /\ Before(E, d) \in E /\ JustBefore(E, Before(E, d), d)
  BY DEF Before
<1>2. Before(E, d).at = e.at
  BY <1>1 DEF JustBefore, Filed
<1> QED BY <1>1, <1>2 DEF Filed

LEMMA FiledAdded ==
    ASSUME NEW E, NEW t \in Nat, NEW u \in Nat, Filed(E, t), NEW n \in [at : {u}, box : Box], t < u
    PROVE  /\ Filed(E \cup {n}, u)
           /\ \A d \in E : (\E e \in E : e.at < d.at) => Before(E \cup {n}, d) = Before(E, d)
<1> DEFINE F == E \cup {n}
<1>1. IsFiniteSet(F)
  BY FS_AddElement DEF Filed
<1>2. F \subseteq [at : 0..u, box : Box]
  BY DEF Filed
<1>3. n.at = u /\ \A e \in E : e.at \in Nat /\ e.at < n.at
  BY DEF Filed
<1>4. \A d, e \in F : d.at = e.at => d = e
  BY <1>3 DEF Filed
<1>5. \A d, e \in E : JustBefore(E, e, d) => JustBefore(F, e, d)
  BY <1>3 DEF JustBefore
<1>6. \A l \in E : (\A e \in E : e.at <= l.at) => JustBefore(F, l, n)
  BY <1>3 DEF JustBefore
<1>7. ASSUME NEW d \in F, \E e \in F : e.at < d.at PROVE \E e \in F : JustBefore(F, e, d)
  <2>1. CASE d = n
    <3>1. E # {}
      BY <1>3, <1>7, <2>1
    <3>2. PICK l \in E : \A e \in E : e.at <= l.at
      BY <3>1 DEF Filed
    <3>3. JustBefore(F, l, n) /\ l \in F
      BY <1>6, <3>2
    <3> QED BY <2>1, <3>3
  <2>2. CASE d \in E
    <3>1. \E e \in E : e.at < d.at
      BY <1>3, <1>7, <2>2
    <3>2. PICK e \in E : JustBefore(E, e, d)
      BY <2>2, <3>1 DEF Filed
    <3>3. JustBefore(F, e, d) /\ e \in F
      BY <1>5, <2>2, <3>2
    <3> QED BY <3>3
  <2> QED BY <2>1, <2>2
<1>8. Filed(F, u)
  <2>1. n \in F /\ \A e \in F : e.at <= n.at
    BY <1>3
  <2> HIDE DEF F
  <2> QED BY <1>1, <1>2, <1>4, <1>7, <2>1 DEF Filed
<1>9. ASSUME NEW d \in E, \E e \in E : e.at < d.at PROVE Before(F, d) = Before(E, d)
  <2>1. PICK e \in E : JustBefore(E, e, d)
    BY <1>9 DEF Filed
  <2> QED BY <1>5, <1>8, <2>1, BeforeIs
<1> QED BY <1>8, <1>9

LEMMA LatestIsBefore ==
    ASSUME NEW E, NEW t \in Nat, NEW u \in Nat, Filed(E, t), NEW n \in [at : {u}, box : Box], t < u,
           NEW l \in E, \A e \in E : e.at <= l.at
    PROVE  Before(E \cup {n}, n) = l
<1> DEFINE F == E \cup {n}
<1>1. Filed(F, u)
  BY FiledAdded
<1>2. n.at = u /\ \A e \in E : e.at \in Nat /\ e.at < n.at
  BY DEF Filed
<1>3. JustBefore(F, l, n) /\ n \in F /\ l \in F
  BY <1>2 DEF JustBefore
<1> HIDE DEF F
<1>4. Before(F, n) = l
  BY <1>1, <1>3, BeforeIs
<1> QED BY <1>4 DEF F

LEMMA FollowsKept ==
    ASSUME NEW E, NEW t \in Nat, NEW u \in Nat, Filed(E, t), NEW n \in [at : {u}, box : Box], t < u,
           NEW c \in E, NEW d \in E, c.at < d.at
    PROVE  FollowsOn(E \cup {n}, c, d) <=> FollowsOn(E, c, d)
<1>1. Before(E \cup {n}, d) = Before(E, d)
  <2>1. \A x \in E : (\E e \in E : e.at < x.at) => Before(E \cup {n}, x) = Before(E, x)
    BY FiledAdded
  <2> QED BY <2>1
<1> QED BY <1>1 DEF FollowsOn

(* What was in a row stays in a row.                                       *)
LEMMA RowKept ==
    ASSUME NEW E, NEW t \in Nat, NEW u \in Nat, Filed(E, t), NEW n \in [at : {u}, box : Box], t < u,
           NEW first \in E, NEW last \in E
    PROVE  /\ InARow(E \cup {n}, first, last) = InARow(E, first, last)
           /\ Unbroken(E \cup {n}, first, last) <=> Unbroken(E, first, last)
<1> DEFINE F == E \cup {n}
<1>1. n.at = u /\ \A e \in E : e.at \in Nat /\ e.at < n.at
  BY DEF Filed
<1>2. InARow(F, first, last) = InARow(E, first, last)
  BY <1>1 DEF InARow, StrongIn
<1>3. \A c, d \in InARow(E, first, last) : c.at < d.at => (FollowsOn(F, c, d) <=> FollowsOn(E, c, d))
  <2>1. InARow(E, first, last) \subseteq E
    BY DEF InARow, StrongIn
  <2> QED BY <2>1, FollowsKept
<1> QED BY <1>2, <1>3 DEF Unbroken, JustBefore

LEMMA RepeatedKept ==
    ASSUME NEW E, NEW t \in Nat, NEW u \in Nat, Filed(E, t), NEW n \in [at : {u}, box : Box], t < u,
           RepeatedEvidence(E)
    PROVE  RepeatedEvidence(E \cup {n})
<1>1. PICK first, last \in StrongIn(E) :
        /\ first.at <= last.at
        /\ Cardinality(InARow(E, first, last)) = MinHits
        /\ Unbroken(E, first, last)
  BY DEF RepeatedEvidence
<1>2. first \in E /\ last \in E /\ first \in StrongIn(E \cup {n}) /\ last \in StrongIn(E \cup {n})
  BY DEF StrongIn
<1> QED BY <1>1, <1>2, RowKept DEF RepeatedEvidence

(* A run that does not end with the new detection was there before.        *)
LEMMA RepeatedBefore ==
    ASSUME NEW E, NEW t \in Nat, NEW u \in Nat, Filed(E, t), NEW n \in [at : {u}, box : Box], t < u,
           NEW first \in StrongIn(E \cup {n}), NEW last \in StrongIn(E), first.at <= last.at,
           Cardinality(InARow(E \cup {n}, first, last)) = MinHits,
           Unbroken(E \cup {n}, first, last)
    PROVE  RepeatedEvidence(E)
<1>1. n.at = u /\ \A e \in E : e.at \in Nat /\ e.at < n.at
  BY DEF Filed
<1>2. last \in E /\ first \in E /\ first \in StrongIn(E)
  BY <1>1 DEF StrongIn
<1> QED BY <1>2, RowKept DEF RepeatedEvidence

LEMMA WeakAdded ==
    ASSUME NEW E, NEW t \in Nat, NEW u \in Nat, Filed(E, t), NEW n \in [at : {u}, box : Box], t < u,
           ~n.box.strong
    PROVE  /\ RepeatedEvidence(E \cup {n}) <=> RepeatedEvidence(E)
           /\ \A first, last \in E, h \in Nat : Run(E, first, last, h) => Run(E \cup {n}, first, last, h)
<1>1. StrongIn(E \cup {n}) = StrongIn(E)
  BY DEF StrongIn
<1>2. RepeatedEvidence(E \cup {n}) => RepeatedEvidence(E)
  BY <1>1, RepeatedBefore DEF RepeatedEvidence
<1>3. ASSUME NEW first \in E, NEW last \in E, NEW h \in Nat, Run(E, first, last, h)
      PROVE  Run(E \cup {n}, first, last, h)
  <2>1. ASSUME NEW c \in StrongIn(E), JustBefore(StrongIn(E), c, first), ~FollowsOn(E, c, first)
        PROVE  ~FollowsOn(E \cup {n}, c, first)
    <3>1. c \in E /\ c.at < first.at
      BY <2>1 DEF StrongIn, JustBefore
    <3> QED BY <2>1, <3>1, FollowsKept
  <2>2. /\ InARow(E \cup {n}, first, last) = InARow(E, first, last)
        /\ Unbroken(E \cup {n}, first, last) <=> Unbroken(E, first, last)
    BY RowKept
  <2> QED BY <1>1, <1>3, <2>1, <2>2 DEF Run
<1> QED BY <1>2, <1>3, RepeatedKept

(* A strong detection that does not follow on begins a run of its own.     *)
LEMMA StrongBegins ==
    ASSUME NEW E, NEW t \in Nat, NEW u \in Nat, Filed(E, t), NEW n \in [at : {u}, box : Box], t < u,
           n.box.strong,
           \/ StrongIn(E) = {}
           \/ \E last \in StrongIn(E) : /\ \A d \in StrongIn(E) : d.at <= last.at
                                        /\ ~FollowsOn(E \cup {n}, last, n)
    PROVE  Run(E \cup {n}, n, n, 1)
<1> DEFINE F == E \cup {n}
<1>1. n.at = u /\ \A e \in E : e.at \in Nat /\ e.at < n.at
  BY DEF Filed
<1>2. StrongIn(F) = StrongIn(E) \cup {n} /\ StrongIn(E) \subseteq E
  BY DEF StrongIn
<1> HIDE DEF F
<1>a. \A d \in StrongIn(F) : d = n \/ (d \in StrongIn(E) /\ d.at < n.at)
  BY <1>1, <1>2
<1>b. \A d \in StrongIn(F) : n.at <= d.at /\ d.at <= n.at <=> d = n
  BY <1>1, <1>2, <1>a
<1>c. n \in StrongIn(F)
  BY <1>2
<1>3. InARow(F, n, n) = {n}
  <2>1. InARow(F, n, n) = {d \in StrongIn(F) : n.at <= d.at /\ d.at <= n.at}
    BY DEF InARow
  <2> QED BY <1>b, <1>c, <2>1
<1>4. Cardinality(InARow(F, n, n)) = 1
  BY <1>3, FS_Singleton
<1>5. Unbroken(F, n, n)
  <2>1. ~(n.at < n.at)
    BY <1>1
  <2> QED BY <1>3, <2>1 DEF Unbroken, JustBefore
<1>6. (\E c \in StrongIn(F) : c.at < n.at) =>
          \E c \in StrongIn(F) : JustBefore(StrongIn(F), c, n) /\ ~FollowsOn(F, c, n)
  <2> SUFFICES ASSUME NEW c \in StrongIn(F), c.at < n.at
               PROVE  \E e \in StrongIn(F) : JustBefore(StrongIn(F), e, n) /\ ~FollowsOn(F, e, n)
    OBVIOUS
  <2>1. c \in StrongIn(E)
    BY <1>1, <1>2
  <2>2. PICK last \in StrongIn(E) : /\ \A d \in StrongIn(E) : d.at <= last.at
                                    /\ ~FollowsOn(F, last, n)
    BY <2>1 DEF F
  <2>3. JustBefore(StrongIn(F), last, n)
    BY <1>1, <1>2, <1>a, <2>2 DEF JustBefore
  <2> QED BY <1>2, <2>2, <2>3
<1>7. n \in StrongIn(F) /\ n.at <= n.at /\ \A d \in StrongIn(F) : d.at <= n.at
  BY <1>1, <1>2, <1>a
<1>8. Run(F, n, n, 1)
  BY <1>4, <1>5, <1>6, <1>7 DEF Run
<1> QED BY <1>8 DEF F

(* One that follows on makes the run one longer.                           *)
LEMMA StrongContinues ==
    ASSUME NEW E, NEW t \in Nat, NEW u \in Nat, Filed(E, t), NEW n \in [at : {u}, box : Box], t < u,
           n.box.strong,
           NEW first \in E, NEW last \in E, NEW h \in Nat, Run(E, first, last, h),
           FollowsOn(E \cup {n}, last, n)
    PROVE  Run(E \cup {n}, first, n, h + 1)
<1> DEFINE F == E \cup {n}
           R == InARow(E, first, last)
           S == InARow(F, first, n)
<1>1. n.at = u /\ n \notin E /\ \A e \in E : e.at \in Nat /\ e.at < n.at
  BY DEF Filed
<1>2. StrongIn(F) = StrongIn(E) \cup {n} /\ StrongIn(E) \subseteq E /\ n \in StrongIn(F)
  BY DEF StrongIn
<1>3. \A d \in StrongIn(E) : d.at <= last.at
  BY DEF Run
<1>4. S = R \cup {n}
  <2>1. \A d \in StrongIn(E) : d.at <= n.at
    BY <1>1, <1>2
  <2> QED BY <1>1, <1>2, <1>3, <2>1 DEF InARow
<1>5. R \subseteq E /\ first \in R /\ last \in R
  BY <1>1, <1>2 DEF Run, InARow
<1>6. Cardinality(S) = h + 1
  <2>1. IsFiniteSet(R)
    BY <1>5, FS_Subset DEF Filed
  <2>2. n \notin R /\ Cardinality(R) = h
    BY <1>1, <1>5 DEF Run
  <2> HIDE DEF R, S
  <2> QED BY <1>4, <2>1, <2>2, FS_AddElement
<1>7. Unbroken(F, first, n)
  <2> SUFFICES ASSUME NEW c \in S, NEW d \in S, JustBefore(S, c, d) PROVE FollowsOn(F, c, d)
    BY DEF Unbroken
  <2>1. CASE d = n
    <3>1. c \in R
      BY <1>1, <1>4, <2>1 DEF JustBefore
    <3>2. last.at <= c.at
      BY <1>1, <1>4, <1>5, <2>1 DEF JustBefore
    <3>3. c.at <= last.at /\ c \in E
      BY <1>2, <1>3, <1>5, <3>1 DEF InARow
    <3>4. c = last
      BY <1>1, <3>2, <3>3 DEF Filed
    <3> QED BY <2>1, <3>4
  <2>2. CASE d # n
    <3>1. d \in R /\ d \in E
      BY <1>4, <1>5, <2>2
    <3>2. c.at < d.at
      BY DEF JustBefore
    <3>3. c \in R /\ c \in E
      <4>1. c = n => ~(c.at < d.at)
        BY <1>1, <3>1
      <4> HIDE DEF R, S
      <4> QED BY <1>4, <1>5, <3>2, <4>1
    <3>4. JustBefore(R, c, d)
      BY <1>4 DEF JustBefore
    <3>5. FollowsOn(E, c, d)
      BY <3>1, <3>3, <3>4 DEF Run, Unbroken
    <3> HIDE DEF R, S
    <3> QED BY <3>1, <3>2, <3>3, <3>5, FollowsKept
  <2> QED BY <2>1, <2>2
<1>8. (\E c \in StrongIn(F) : c.at < first.at) =>
          \E c \in StrongIn(F) : JustBefore(StrongIn(F), c, first) /\ ~FollowsOn(F, c, first)
  <2> SUFFICES ASSUME NEW b \in StrongIn(F), b.at < first.at
               PROVE  \E e \in StrongIn(F) : JustBefore(StrongIn(F), e, first) /\ ~FollowsOn(F, e, first)
    OBVIOUS
  <2>1. b \in StrongIn(E)
    BY <1>1, <1>2
  <2>2. PICK c \in StrongIn(E) : JustBefore(StrongIn(E), c, first) /\ ~FollowsOn(E, c, first)
    BY <2>1 DEF Run
  <2>3. c \in E /\ c.at < first.at
    BY <1>2, <2>2 DEF JustBefore
  <2>4. ~FollowsOn(F, c, first)
    BY <2>2, <2>3, FollowsKept
  <2>5. JustBefore(StrongIn(F), c, first)
    <3>1. ~(n.at < first.at)
      BY <1>1
    <3> HIDE DEF F
    <3> QED BY <1>2, <2>2, <3>1 DEF JustBefore
  <2> QED BY <1>2, <2>4, <2>5
<1> HIDE DEF F, R, S
<1>9. first \in StrongIn(F) /\ first.at <= n.at /\ \A d \in StrongIn(F) : d.at <= n.at
  BY <1>1, <1>2 DEF Run
<1>10. Run(F, first, n, h + 1)
  BY <1>2, <1>6, <1>7, <1>8, <1>9 DEF Run, S
<1> QED BY <1>10 DEF F

(* The run that ends with the new detection decides whether there is       *)
(* enough of it, if there was not before.                                  *)
LEMMA RepeatedByRun ==
    ASSUME NEW E, NEW t \in Nat, NEW u \in Nat, Filed(E, t), NEW n \in [at : {u}, box : Box], t < u,
           NEW first \in E \cup {n}, NEW h \in Nat, Run(E \cup {n}, first, n, h),
           h <= MinHits, ~RepeatedEvidence(E)
    PROVE  RepeatedEvidence(E \cup {n}) <=> h = MinHits
<1> DEFINE F == E \cup {n}
<1>1. n.at = u /\ n \notin E /\ \A e \in E : e.at \in Nat /\ e.at < n.at
  BY DEF Filed
<1>2. ASSUME h = MinHits PROVE RepeatedEvidence(F)
  BY <1>2 DEF Run, RepeatedEvidence
<1>3. ASSUME RepeatedEvidence(F), h < MinHits PROVE FALSE
  <2>1. PICK f \in StrongIn(F), last \in StrongIn(F) :
          /\ f.at <= last.at
          /\ Cardinality(InARow(F, f, last)) = MinHits
          /\ Unbroken(F, f, last)
    BY <1>3 DEF RepeatedEvidence
  <2>2. last = n
    <3>1. CASE last \in StrongIn(E)
      BY <2>1, <3>1, RepeatedBefore
    <3> QED BY <3>1 DEF StrongIn
  <2>3. f \in F /\ first \in StrongIn(F) /\ first.at <= n.at /\ f.at <= n.at
    BY <2>1, <2>2 DEF Run, StrongIn
  <2>4. f.at \in Nat /\ first.at \in Nat
    BY <1>1, <2>3
  <2>5. CASE first.at <= f.at
    <3>1. InARow(F, f, n) \subseteq InARow(F, first, n)
      <4>1. \A d \in StrongIn(F) : d.at \in Nat
        BY <1>1 DEF StrongIn
      <4> HIDE DEF F
      <4>2. \A d \in StrongIn(F) : f.at <= d.at => first.at <= d.at
        BY <2>4, <2>5, <4>1
      <4> QED BY <4>2 DEF InARow
    <3>2. IsFiniteSet(InARow(F, first, n))
      <4>1. InARow(F, first, n) \subseteq F
        BY DEF InARow, StrongIn
      <4>2. IsFiniteSet(F)
        BY FS_AddElement DEF Filed
      <4> HIDE DEF F
      <4> QED BY <4>1, <4>2, FS_Subset
    <3>3. Cardinality(InARow(F, f, n)) <= Cardinality(InARow(F, first, n))
      <4> HIDE DEF F
      <4> QED BY <3>1, <3>2, FS_Subset
    <3>4. MinHits \in Nat
      BY VehicleConstants
    <3> QED BY <1>3, <2>1, <2>2, <3>3, <3>4 DEF Run
  <2>6. CASE f.at < first.at
    <3>1. PICK c \in StrongIn(F) : JustBefore(StrongIn(F), c, first) /\ ~FollowsOn(F, c, first)
      BY <2>6 DEF Run
    <3>2. f.at <= c.at /\ c.at < first.at /\ c.at \in Nat
      BY <1>1, <2>6, <3>1 DEF JustBefore, StrongIn
    <3>3. c.at <= n.at
      BY <1>1, <2>3, <2>4, <3>2
    <3>4. c \in InARow(F, f, n) /\ first \in InARow(F, f, n)
      BY <2>3, <2>6, <2>4, <3>2, <3>3 DEF InARow
    <3>5. JustBefore(InARow(F, f, n), c, first)
      BY <3>1 DEF JustBefore, InARow
    <3> QED BY <2>1, <2>2, <3>1, <3>4, <3>5 DEF Unbroken
  <2> QED BY <2>4, <2>5, <2>6
<1>4. MinHits \in Nat
  BY VehicleConstants
<1> QED BY <1>2, <1>3, <1>4

-----------------------------------------------------------------------------
(* VehicleTrackFilter, one track at a time *)

Detection(box, t) == [at |-> t, box |-> box]

(* The track of a first, strong detection.                                 *)
LEMMA TrackOpened ==
    ASSUME NEW u \in Nat, NEW box \in Box, box.strong
    PROVE  TrackOf(Judge(NewTrack(box, u)), {Detection(box, u)}, u)
<1> DEFINE n == Detection(box, u)
           track == Judge(NewTrack(box, u))
           E == {} \cup {n}
<1>1. n \in [at : {u}, box : Box] /\ n.at = u /\ n.box = box
  BY DEF Detection
<1>2. /\ track \in Track /\ track.hits = 1 /\ track.last_detector_at = u
      /\ track.class = box.class /\ track.place = box.place
      /\ track.confirmed <=> 1 >= MinHits
  BY DEF Judge, NewTrack, Track, Box
<1>3. E = {n} /\ StrongIn(E) = {n}
  BY <1>1 DEF StrongIn
<1>4. Filed({}, 0) /\ StrongIn({}) = {}
  BY FS_EmptySet DEF Filed, StrongIn
<1> HIDE DEF n, track
<1>5. Filed(E, u)
  <2>1. IsFiniteSet(E)
    BY FS_Singleton, <1>3
  <2> QED BY <1>1, <1>3, <2>1 DEF Filed
<1>6. Run(E, n, n, 1)
  <2>1. InARow(E, n, n) = {n}
    BY <1>1, <1>3 DEF InARow
  <2>2. Cardinality(InARow(E, n, n)) = 1
    BY <2>1, FS_Singleton
  <2>3. Unbroken(E, n, n)
    BY <1>1, <2>1 DEF Unbroken, JustBefore
  <2> HIDE DEF E
  <2> QED BY <1>1, <1>3, <2>2, <2>3 DEF Run
<1>7. RepeatedEvidence(E) <=> 1 >= MinHits
  <2>1. MinHits \in Nat \ {0}
    BY VehicleConstants
  <2>2. ASSUME NEW first \in StrongIn(E), NEW last \in StrongIn(E)
        PROVE  /\ first = n /\ last = n
               /\ Cardinality(InARow(E, n, n)) = 1
    BY <1>3, <1>6 DEF Run
  <2>3. RepeatedEvidence(E) => MinHits = 1
    BY <2>2 DEF RepeatedEvidence
  <2>4. MinHits = 1 => RepeatedEvidence(E)
    BY <1>6 DEF RepeatedEvidence, Run
  <2> QED BY <2>1, <2>3, <2>4
<1>8. NoGap(E, track, u)
  <2>1. MaxDetectorGap \in Nat
    BY VehicleConstants
  <2> QED BY <1>1, <1>2, <1>3, <2>1 DEF NoGap
<1> HIDE DEF E
<1>9. n \in E /\ \A e \in E : e.at <= n.at
  BY <1>1, <1>3
<1>10. TrackOf(track, E, u)
  BY <1>1, <1>2, <1>5, <1>6, <1>7, <1>8, <1>9 DEF TrackOf
<1> QED BY <1>3, <1>10 DEF track, n

(* A track that is not in the frame, and fresh enough to stay.             *)
LEMMA TrackMissed ==
    ASSUME NEW E, NEW t \in Nat, NEW u \in Nat, t < u, NEW track, TrackOf(track, E, t),
           Fresh(track, u)
    PROVE  TrackOf(track, E, u)
<1>1. Filed(E, u)
  <2>1. E \subseteq [at : 0..u, box : Box]
    BY DEF TrackOf, Filed
  <2> QED BY <2>1 DEF TrackOf, Filed
<1>2. NoGap(E, track, u)
  BY DEF TrackOf, NoGap, Fresh
<1> QED BY <1>1, <1>2 DEF TrackOf

(* One that is shown by another detection, and fresh enough to stay.       *)
LEMMA TrackShown ==
    ASSUME NEW E, NEW t \in Nat, NEW u \in Nat, t < u, u - t <= MaxStep,
           NEW track, TrackOf(track, E, t),
           NEW box \in Box, Fresh(Judge(Matched(track, box, u)), u)
    PROVE  TrackOf(Judge(Matched(track, box, u)), E \cup {Detection(box, u)}, u)
<1> DEFINE n == Detection(box, u)
           new == Judge(Matched(track, box, u))
           F == E \cup {n}
           goes_on == Continuous(track, box, u)
<1>1. n \in [at : {u}, box : Box] /\ n.at = u /\ n.box = box
  BY DEF Detection
<1>2. Filed(E, t) /\ track \in Track /\ track.hits \in Nat /\ track.last_detector_at \in Nat
  BY DEF TrackOf, Track
<1>3. /\ new \in Track
      /\ new.class = box.class /\ new.place = box.place
      /\ ~box.strong => new.hits = track.hits /\ new.last_detector_at = track.last_detector_at
      /\ box.strong => /\ new.last_detector_at = u
                       /\ new.hits = IF goes_on THEN track.hits + 1 ELSE 1
      /\ new.confirmed <=> track.confirmed \/ new.hits >= MinHits
  <2> DEFINE m == Matched(track, box, u)
             counted == IF ~box.strong THEN track.hits ELSE IF goes_on THEN track.hits + 1 ELSE 1
  <2>1. m = [track EXCEPT !.hits = counted,
                          !.last_detector_at = IF box.strong THEN u ELSE @,
                          !.class = box.class, !.place = box.place]
    BY DEF Matched
  <2>2. counted \in Nat
    BY <1>2
  <2>3. box.class \in Classes /\ box.place \in Places
    BY DEF Box
  <2>a. ~box.strong => counted = track.hits
    OBVIOUS
  <2>b. box.strong => counted = IF goes_on THEN track.hits + 1 ELSE 1
    OBVIOUS
  <2> HIDE DEF counted, goes_on
  <2>4. /\ m \in Track /\ m.class = box.class /\ m.place = box.place /\ m.hits = counted
        /\ m.last_detector_at = IF box.strong THEN u ELSE track.last_detector_at
        /\ m.confirmed = track.confirmed
    BY <1>2, <2>1, <2>2, <2>3 DEF Track
  <2> HIDE DEF m
  <2>5. /\ new \in Track /\ new.class = m.class /\ new.place = m.place /\ new.hits = m.hits
        /\ new.last_detector_at = m.last_detector_at
    BY <2>4 DEF Judge, Track, m
  <2>6. new.confirmed <=> m.confirmed \/ m.hits >= MinHits
    BY <2>4 DEF Judge, Track, m
  <2>7. box.strong => new.last_detector_at = u /\ new.hits = IF goes_on THEN track.hits + 1 ELSE 1
    BY <2>4, <2>5, <2>b
  <2>8. ~box.strong => new.hits = track.hits /\ new.last_detector_at = track.last_detector_at
    BY <2>4, <2>5, <2>a
  <2>9. new.confirmed <=> track.confirmed \/ new.hits >= MinHits
    BY <2>4, <2>5, <2>6
  <2> HIDE DEF new
  <2> QED BY <2>4, <2>5, <2>7, <2>8, <2>9
<1>4. u - new.last_detector_at <= MaxDetectorGap
  BY DEF Fresh
<1> HIDE DEF n, new, F, goes_on
<1>5. PICK l \in E : /\ \A e \in E : e.at <= l.at
                     /\ l.box.class = track.class /\ l.box.place = track.place
  BY DEF TrackOf
<1>6. PICK first, last \in E : Run(E, first, last, track.hits) /\ last.at = track.last_detector_at
  BY DEF TrackOf
<1>7. Filed(F, u) /\ Before(F, n) = l
  <2>1. Filed(F, u)
    BY <1>1, <1>2, FiledAdded DEF F
  <2>2. Before(F, n) = l
    BY <1>1, <1>2, <1>5, LatestIsBefore DEF F
  <2> QED BY <2>1, <2>2
<1>8. n \in F /\ \A e \in F : e.at <= n.at
  BY <1>1, <1>2 DEF F, Filed
<1>9. FollowsOn(F, last, n) <=> goes_on
  BY <1>1, <1>5, <1>6, <1>7 DEF FollowsOn, goes_on, Continuous
<1>10. \E f, k \in F : Run(F, f, k, new.hits) /\ k.at = new.last_detector_at /\ (box.strong => k = n)
  <2>1. CASE ~box.strong
    BY <1>1, <1>2, <1>3, <1>6, <2>1, WeakAdded DEF F
  <2>2. CASE box.strong /\ goes_on
    <3>1. Run(F, first, n, track.hits + 1)
      BY <1>1, <1>2, <1>6, <1>9, <2>2, StrongContinues DEF F
    <3> QED BY <1>1, <1>3, <1>6, <2>2, <3>1 DEF F
  <2>3. CASE box.strong /\ ~goes_on
    <3>1. last \in StrongIn(E) /\ \A d \in StrongIn(E) : d.at <= last.at
      BY <1>6 DEF Run
    <3>2. Run(F, n, n, 1)
      BY <1>1, <1>2, <1>9, <2>3, <3>1, StrongBegins DEF F
    <3> QED BY <1>1, <1>3, <2>3, <3>2 DEF F
  <2> QED BY <2>1, <2>2, <2>3
<1>11. new.confirmed <=> RepeatedEvidence(F)
  <2>1. track.confirmed <=> RepeatedEvidence(E)
    BY DEF TrackOf
  <2>2. MinHits \in Nat \ {0}
    BY VehicleConstants
  <2>3. CASE track.confirmed
    BY <1>1, <1>2, <1>3, <2>1, <2>3, RepeatedKept DEF F
  <2>4. CASE ~track.confirmed
    <3>1. track.hits < MinHits
      BY <1>2, <2>2, <2>4 DEF TrackOf
    <3>2. CASE ~box.strong
      <4>1. RepeatedEvidence(F) <=> RepeatedEvidence(E)
        BY <1>1, <1>2, <3>2, WeakAdded DEF F
      <4> QED BY <1>2, <1>3, <2>1, <2>2, <2>4, <3>1, <3>2, <4>1
    <3>3. CASE box.strong
      <4>1. PICK f \in F : Run(F, f, n, new.hits)
        BY <1>10, <3>3
      <4>2. new.hits \in Nat /\ new.hits <= MinHits
        BY <1>2, <1>3, <2>2, <3>1, <3>3
      <4>3. RepeatedEvidence(F) <=> new.hits = MinHits
        BY <1>1, <1>2, <2>1, <2>4, <4>1, <4>2, RepeatedByRun DEF F
      <4> QED BY <1>3, <2>2, <2>4, <4>2, <4>3
    <3> QED BY <3>2, <3>3
  <2> QED BY <2>3, <2>4
<1>12. NoGap(F, new, u)
  <2> SUFFICES ASSUME NEW d \in StrongIn(F)
               PROVE  \/ \E e \in StrongIn(F) : e.at > d.at /\ e.at - d.at <= MaxDetectorGap + MaxStep
                      \/ new.last_detector_at = d.at /\ u - d.at <= MaxDetectorGap
    BY DEF NoGap
  <2>1. StrongIn(E) \subseteq StrongIn(F) /\ (box.strong => n \in StrongIn(F))
    BY <1>1 DEF StrongIn, F
  <2>2. CASE d \in StrongIn(E)
    <3>1. d.at \in Nat /\ d.at <= t
      BY <1>2, <2>2 DEF StrongIn, Filed
    <3>2. CASE \E e \in StrongIn(E) : e.at > d.at /\ e.at - d.at <= MaxDetectorGap + MaxStep
      BY <2>1, <3>2
    <3>3. CASE track.last_detector_at = d.at /\ t - d.at <= MaxDetectorGap
      <4>1. u > d.at /\ u - d.at <= MaxDetectorGap + MaxStep
        <5>1. MaxDetectorGap \in Nat /\ MaxStep \in Nat
          BY VehicleConstants
        <5> QED BY <3>1, <3>3, <5>1
      <4>2. CASE box.strong
        BY <1>1, <2>1, <4>1, <4>2
      <4>3. CASE ~box.strong
        BY <1>3, <1>4, <3>3, <4>3
      <4> QED BY <4>2, <4>3
    <3> QED BY <2>2, <3>2, <3>3 DEF TrackOf, NoGap
  <2>3. CASE d = n /\ box.strong
    BY <1>1, <1>3, <1>4, <2>3
  <2> QED BY <1>1, <2>2, <2>3 DEF StrongIn, F
<1>13. new.hits >= MinHits => new.confirmed
  BY <1>3
<1>14. TrackOf(new, F, u)
  BY <1>1, <1>3, <1>7, <1>8, <1>10, <1>11, <1>12, <1>13 DEF TrackOf
<1> QED BY <1>14 DEF new, F, n

-----------------------------------------------------------------------------
(* The filter *)

LEMMA FilterFrame ==
    ASSUME FilterInv, NEW frame \in [Vehicles -> Box \cup {None}], NEW t, ProcessFrame(frame, t)
    PROVE  FilterInv'
<1>1. /\ now \in Nat /\ t \in Nat /\ now < t /\ t - now <= MaxStep /\ now' = t
      /\ tracks' = IF FilterEnabled
                   THEN [v \in Remaining(frame, t) |-> Filtered(frame, t)[v]] ELSE tracks
      /\ evidence' = [v \in Vehicles |->
            IF v \notin DOMAIN tracks' THEN {}
            ELSE IF frame[v] = None THEN evidence[v]
            ELSE evidence[v] \cup {Detection(frame[v], t)}]
  BY VehicleConstants DEF FilterInv, ProcessFrame, Detection
<1>2. /\ DOMAIN tracks \subseteq Vehicles
      /\ ~FilterEnabled => DOMAIN tracks = {}
      /\ \A v \in DOMAIN tracks : TrackOf(tracks[v], evidence[v], now)
      /\ \A v \in Vehicles \ DOMAIN tracks : evidence[v] = {}
  BY DEF FilterInv
<1>3. CASE ~FilterEnabled
  <2>1. tracks' = tracks
    BY <1>1, <1>3
  <2>2. \A v \in Vehicles : evidence'[v] = {}
    BY <1>1, <1>2, <1>3, <2>1
  <2> QED BY <1>1, <1>2, <1>3, <2>1, <2>2 DEF FilterInv
<1>4. CASE FilterEnabled
  <2>1. DOMAIN Filtered(frame, t) = DOMAIN tracks \cup Opened(frame)
    BY DEF Filtered
  <2>2. Opened(frame) \subseteq Vehicles \ DOMAIN tracks
    BY DEF Opened
  <2>3. /\ DOMAIN tracks' = Remaining(frame, t)
        /\ \A v \in Remaining(frame, t) : tracks'[v] = Filtered(frame, t)[v]
    BY <1>1, <1>4
  <2>4. Remaining(frame, t) \subseteq DOMAIN tracks \cup Opened(frame)
    BY <2>1 DEF Remaining
  <2>5. ASSUME NEW v \in Remaining(frame, t) PROVE TrackOf(tracks'[v], evidence'[v], t)
    <3>1. v \in Vehicles /\ v \in DOMAIN tracks \cup Opened(frame) /\ v \in DOMAIN tracks'
      BY <1>2, <2>2, <2>3, <2>4
    <3>2. /\ evidence'[v] = IF frame[v] = None THEN evidence[v]
                            ELSE evidence[v] \cup {Detection(frame[v], t)}
          /\ tracks'[v] = Filtered(frame, t)[v]
          /\ Fresh(Filtered(frame, t)[v], t)
      BY <1>1, <2>3, <3>1 DEF Remaining
    <3>3. CASE v \in Opened(frame)
      <4>1. frame[v] \in Box /\ frame[v].strong /\ frame[v] # None
        BY <3>1, <3>3 DEF Opened
      <4>2. Filtered(frame, t)[v] = Judge(NewTrack(frame[v], t))
        BY <3>3 DEF Filtered
      <4>3. evidence'[v] = {Detection(frame[v], t)}
        BY <1>2, <2>2, <3>1, <3>2, <3>3, <4>1
      <4> QED BY <1>1, <3>2, <4>1, <4>2, <4>3, TrackOpened
    <3>4. CASE v \in DOMAIN tracks /\ frame[v] = None
      <4>1. Filtered(frame, t)[v] = tracks[v]
        BY <2>2, <3>4 DEF Filtered
      <4> QED BY <1>1, <1>2, <3>2, <3>4, <4>1, TrackMissed
    <3>5. CASE v \in DOMAIN tracks /\ frame[v] # None
      <4>1. frame[v] \in Box
        BY <3>1, <3>5
      <4>2. Filtered(frame, t)[v] = Judge(Matched(tracks[v], frame[v], t))
        BY <2>2, <3>5 DEF Filtered
      <4> QED BY <1>1, <1>2, <3>2, <3>5, <4>1, <4>2, TrackShown
    <3> QED BY <3>1, <3>3, <3>4, <3>5
  <2>6. ASSUME NEW v \in Vehicles, v \notin DOMAIN tracks' PROVE evidence'[v] = {}
    BY <1>1, <2>6
  <2>7. DOMAIN tracks' \subseteq Vehicles
    BY <1>2, <2>2, <2>3, <2>4
  <2> QED BY <1>1, <1>4, <2>3, <2>5, <2>6, <2>7 DEF FilterInv
<1> QED BY <1>3, <1>4

LEMMA FilterStep == FilterInv /\ [Next]_vars => FilterInv'
<1> SUFFICES ASSUME FilterInv, [Next]_vars PROVE FilterInv'
  OBVIOUS
<1>1. ASSUME NEW frame \in [Vehicles -> Box \cup {None}], NEW t \in 1..MaxTime,
             ProcessFrame(frame, t)
      PROVE  FilterInv'
  BY <1>1, FilterFrame
<1>2. CASE ClearCamera
  BY <1>2 DEF ClearCamera, FilterInv
<1>3. CASE UNCHANGED vars
  BY <1>3 DEF vars, FilterInv
<1> QED BY <1>1, <1>2, <1>3 DEF Next

(* What the filter keeps of every track is what its detections say: the    *)
(* last one, the run in progress, and whether there ever was a run of      *)
(* enough of them.                                                         *)
THEOREM FilterInvariance == Spec => []FilterInv
<1>1. Init => FilterInv
  BY DEF Init, FilterInv
<1> QED BY <1>1, FilterStep, PTL DEF Spec

(* VehicleTrackFilter confirms a track exactly when min_detector_hits      *)
(* strong detections of it followed on one another since it was made.      *)
THEOREM ConfirmationIsEvidence == Spec => []ConfirmedIffRepeated
<1>1. FilterInv => ConfirmedIffRepeated
  BY DEF FilterInv, TrackOf, ConfirmedIffRepeated
<1> QED BY <1>1, FilterInvariance, PTL

(* No track of VehicleTrackFilter bridges more than the allowed gap and one*)
(* frame interval without a strong detection.                              *)
THEOREM EvidenceHasNoGap == Spec => []EvidenceIsContinuous
<1>1. FilterInv => EvidenceIsContinuous
  BY DEF FilterInv, TrackOf, EvidenceIsContinuous
<1> QED BY <1>1, FilterInvariance, PTL

-----------------------------------------------------------------------------
(* Sightings of a vehicle: what one more does to its stays.  P was made up *)
(* to time l, n is later.                                                  *)

Sighting(place, t) == [at |-> t, place |-> place]

LEMMA UpToAdded ==
    ASSUME NEW l \in Nat, NEW P, UpTo(P, l), NEW t \in Nat, l < t, NEW place \in Places
    PROVE  UpTo(P \cup {Sighting(place, t)}, t)
<1> DEFINE n == Sighting(place, t)
<1>1. n.at = t /\ n.place = place /\ n \in [at : 0..t, place : Places]
  BY DEF Sighting
<1> HIDE DEF n
<1>2. \A s \in P : s.at \in Nat /\ s.at <= l /\ s \in [at : 0..t, place : Places]
  BY DEF UpTo
<1>3. \A s \in P : s.at # n.at
  BY <1>1, <1>2
<1>4. UpTo(P \cup {n}, t)
  BY <1>1, <1>2, <1>3 DEF UpTo
<1> QED BY <1>4 DEF n

LEMMA StayKept ==
    ASSUME NEW l \in Nat, NEW P, UpTo(P, l), NEW t \in Nat, l < t, NEW place \in Places,
           NEW r, NEW a \in Nat, NEW b \in 0..l, NEW gap
    PROVE  Stay(P \cup {Sighting(place, t)}, r, a, b, gap) <=> Stay(P, r, a, b, gap)
<1> DEFINE n == Sighting(place, t)
<1>1. n.at = t
  BY DEF Sighting
<1> HIDE DEF n
<1>2. ~(n.at <= b)
  BY <1>1
<1>3. {s \in P \cup {n} : a <= s.at /\ s.at <= b} = {s \in P : a <= s.at /\ s.at <= b}
  BY <1>2
<1>4. Stay(P \cup {n}, r, a, b, gap) <=> Stay(P, r, a, b, gap)
  BY <1>3 DEF Stay
<1> QED BY <1>4 DEF n

LEMMA StayAlone ==
    ASSUME NEW P, NEW t \in Nat, NEW place \in Places, \A s \in P : s.at \in Nat /\ s.at < t, NEW gap
    PROVE  Stay(P \cup {Sighting(place, t)}, RoiOf[place], t, t, gap)
<1> DEFINE n == Sighting(place, t)
<1>1. n.at = t /\ n.place = place
  BY DEF Sighting
<1> HIDE DEF n
<1>2. {s \in P \cup {n} : t <= s.at /\ s.at <= t} = {n}
  <2>1. \A s \in P : ~(t <= s.at)
    OBVIOUS
  <2> QED BY <1>1, <2>1
<1>3. Stay(P \cup {n}, RoiOf[place], t, t, gap)
  BY <1>1, <1>2 DEF Stay
<1> QED BY <1>3 DEF n

LEMMA StayExtended ==
    ASSUME NEW l \in Nat, NEW P, UpTo(P, l), NEW t \in Nat, l < t, NEW place \in Places,
           NEW a \in 0..l, NEW gap \in Nat, t - l <= gap, Stay(P, RoiOf[place], a, l, gap)
    PROVE  Stay(P \cup {Sighting(place, t)}, RoiOf[place], a, t, gap)
<1> DEFINE n == Sighting(place, t)
           r == RoiOf[place]
           S == {s \in P : a <= s.at /\ s.at <= l}
           T == {s \in P \cup {n} : a <= s.at /\ s.at <= t}
<1>1. n.at = t /\ n.place = place
  BY DEF Sighting
<1> HIDE DEF n
<1>2. \A s \in P : s.at \in Nat /\ s.at <= l
  BY DEF UpTo
<1>3. T = S \cup {n} /\ S \subseteq P
  BY <1>1, <1>2
<1>4. /\ \E s \in S : s.at = a
      /\ \E s \in S : s.at = l
      /\ \A s \in S : /\ RoiOf[s.place] = r
                      /\ s.at < l => \E u \in S : u.at > s.at /\ u.at - s.at <= gap
  BY DEF Stay
<1> HIDE DEF S, T, r
<1>5. \A s \in S : s.at < t => \E u \in T : u.at > s.at /\ u.at - s.at <= gap
  BY <1>1, <1>2, <1>3, <1>4
<1>6. /\ \E s \in T : s.at = a
      /\ \E s \in T : s.at = t
      /\ \A s \in T : /\ RoiOf[s.place] = r
                      /\ s.at < t => \E u \in T : u.at > s.at /\ u.at - s.at <= gap
  BY <1>1, <1>3, <1>4, <1>5 DEF r
<1>7. Stay(P \cup {n}, r, a, t, gap)
  BY <1>6 DEF Stay, T
<1> QED BY <1>7 DEF n, r

(* A stay that reaches n without having begun there reached the sighting   *)
(* before it.                                                              *)
LEMMA StayBefore ==
    ASSUME NEW l \in Nat, NEW P, UpTo(P, l), NEW t \in Nat, l < t, NEW place \in Places,
           NEW r, NEW a \in Nat, a < t, NEW gap \in Nat,
           Stay(P \cup {Sighting(place, t)}, r, a, t, gap)
    PROVE  a <= l /\ t - l <= gap /\ Stay(P, r, a, l, gap)
<1> DEFINE n == Sighting(place, t)
           S == {s \in P : a <= s.at /\ s.at <= l}
           T == {s \in P \cup {n} : a <= s.at /\ s.at <= t}
<1>1. n.at = t
  BY DEF Sighting
<1>2. /\ \E s \in T : s.at = a
      /\ \A s \in T : /\ RoiOf[s.place] = r
                      /\ s.at < t => \E u \in T : u.at > s.at /\ u.at - s.at <= gap
  BY DEF Stay
<1> HIDE DEF n
<1>3. \A s \in P : s.at \in Nat /\ s.at <= l
  BY DEF UpTo
<1>4. T = S \cup {n}
  BY <1>1, <1>3
<1>5. S \subseteq P
  OBVIOUS
<1>6. \E s \in S : s.at = a
  BY <1>1, <1>2, <1>4
<1>7. a <= l
  BY <1>3, <1>5, <1>6
<1>8. PICK last \in S : last.at = l
  BY <1>7 DEF UpTo
<1> HIDE DEF S, T
<1>9. t - l <= gap
  BY <1>1, <1>2, <1>3, <1>4, <1>5, <1>8
<1>10. \A s \in S : s.at < l => \E u \in S : u.at > s.at /\ u.at - s.at <= gap
  <2> SUFFICES ASSUME NEW s \in S, s.at < l PROVE \E u \in S : u.at > s.at /\ u.at - s.at <= gap
    OBVIOUS
  <2>1. s.at \in Nat /\ s.at < t
    BY <1>3, <1>5
  <2>2. PICK u \in T : u.at > s.at /\ u.at - s.at <= gap
    BY <1>2, <1>4, <2>1
  <2>3. CASE u = n
    BY <1>1, <1>8, <2>1, <2>2, <2>3
  <2> QED BY <1>4, <2>2, <2>3
<1>11. /\ \E s \in S : s.at = a
       /\ \E s \in S : s.at = l
       /\ \A s \in S : /\ RoiOf[s.place] = r
                       /\ s.at < l => \E u \in S : u.at > s.at /\ u.at - s.at <= gap
  BY <1>2, <1>4, <1>6, <1>8, <1>10
<1>12. Stay(P, r, a, l, gap)
  BY <1>11 DEF Stay, S
<1> QED BY <1>7, <1>9, <1>12

-----------------------------------------------------------------------------
(* VehicleDwellAssociator, one record at a time *)

LEMMA RecordMade ==
    ASSUME NEW t \in Nat, NEW place \in Places
    PROVE  RecordOf(NewRecord(place, t), {Sighting(place, t)}, t)
<1> DEFINE n == Sighting(place, t)
           rec == NewRecord(place, t)
           P == {} \cup {n}
<1>1. n.at = t /\ n.place = place /\ n \in [at : 0..t, place : Places]
  BY DEF Sighting
<1>2. /\ rec.place = place /\ rec.roi = RoiOf[place] /\ rec.last_seen_at = t /\ rec.dwell = 0
      /\ RoiOf[place] = None => rec.last_inside = None /\ ~rec.inside
      /\ RoiOf[place] # None => rec.last_inside = place /\ rec.inside /\ rec.first_inside_at = t
      /\ rec \in Record
  BY VehicleConstants DEF NewRecord, Record
<1>3. \A gap : Stay(P, RoiOf[place], t, t, gap)
  BY StayAlone
<1>4. UpTo(P, t) /\ P = {n}
  BY <1>1 DEF UpTo
<1>5. {HistoryWindow, MaxTrackingGap} \subseteq Nat
  BY VehicleConstants
<1> HIDE DEF n, rec, P
<1>6. LastInside(P, rec)
  BY <1>1, <1>2, <1>4 DEF LastInside
<1>7. DwellBacked(P, rec)
  BY <1>2, <1>3 DEF DwellBacked
<1>8. DwellComplete(P, rec, t)
  <2>1. CASE RoiOf[place] = None
    BY <1>1, <1>2, <1>4, <2>1 DEF DwellComplete
  <2>2. CASE RoiOf[place] # None
    <3>1. ASSUME NEW a \in 0..t, Stay(P, RoiOf[place], a, t, MaxTrackingGap) PROVE t <= a
      BY <1>1, <1>4, <3>1 DEF Stay
    <3> QED BY <1>2, <1>3, <1>5, <2>2, <3>1 DEF DwellComplete
  <2> QED BY <2>1, <2>2
<1>9. RecordOf(rec, P, t)
  BY <1>2, <1>4, <1>5, <1>6, <1>7, <1>8 DEF RecordOf
<1> QED BY <1>4, <1>9 DEF rec, n

(* _freeze_dwell keeps what the interval was worth.                        *)
LEMMA FrozenSound ==
    ASSUME NEW t \in Nat, NEW P, NEW record, RecordOf(record, P, t)
    PROVE  /\ Frozen(record) \in Record
           /\ Frozen(record).place = record.place
           /\ Frozen(record).last_inside = record.last_inside
           /\ Frozen(record).roi = record.roi
           /\ Frozen(record).last_seen_at = record.last_seen_at
           /\ ~Frozen(record).inside
           /\ LastInside(P, Frozen(record))
           /\ DwellBacked(P, Frozen(record))
           /\ record.roi # None => \A a, b \in 0..record.last_seen_at :
                 LastVisit(P, record.roi, a, b) => Frozen(record).dwell >= b - a
<1> DEFINE new == Frozen(record)
           l == record.last_seen_at
           worth == IF record.inside THEN Later(record.dwell, l - record.first_inside_at)
                    ELSE record.dwell
<1>1. record \in Record /\ l \in Nat /\ record.dwell \in Nat
  BY DEF RecordOf, Record
<1>2. record.inside => record.first_inside_at \in 0..l
  BY DEF RecordOf, DwellComplete
<1>3. /\ worth \in Nat /\ worth >= record.dwell
      /\ record.inside => /\ worth >= l - record.first_inside_at
                          /\ worth = record.dwell \/ worth = l - record.first_inside_at
      /\ ~record.inside => worth = record.dwell
  BY <1>1, <1>2 DEF Later
<1>4. new = [record EXCEPT !.dwell = worth, !.inside = FALSE, !.first_inside_at = None]
  BY DEF Frozen
<1> HIDE DEF new, worth
<1>5. /\ new \in Record /\ new.place = record.place /\ new.last_inside = record.last_inside
      /\ new.roi = record.roi /\ new.last_seen_at = l /\ ~new.inside /\ new.dwell = worth
  BY <1>1, <1>3, <1>4 DEF Record
<1> HIDE DEF l
<1>6. LastInside(P, new)
  BY <1>5 DEF RecordOf, LastInside
<1>7. DwellBacked(P, new)
  <2> SUFFICES ASSUME record.roi # None
               PROVE  \E a, b \in 0..l : b - a >= worth
                                        /\ Stay(P, record.roi, a, b, MaxTrackingGap + MaxStep)
    BY <1>5 DEF DwellBacked
  <2>1. CASE worth = record.dwell
    BY <2>1 DEF RecordOf, DwellBacked, l
  <2>2. CASE record.inside /\ worth = l - record.first_inside_at
    <3>1. Stay(P, record.roi, record.first_inside_at, l, MaxTrackingGap + MaxStep)
      BY <2>2 DEF RecordOf, DwellComplete, l
    <3> QED BY <1>1, <1>2, <2>2, <3>1 DEF l
  <2> QED BY <1>3, <2>1, <2>2
<1>8. ASSUME record.roi # None, NEW a \in 0..l, NEW b \in 0..l, LastVisit(P, record.roi, a, b)
      PROVE  worth >= b - a
  <2>1. CASE record.inside
    <3>1. PICK s \in P : RoiOf[s.place] = record.roi /\ s.at = l
      BY <1>8, <2>1 DEF RecordOf, LastInside, l
    <3>2. b = l
      BY <1>1, <1>8, <3>1 DEF LastVisit, l
    <3>3. record.first_inside_at <= a
      BY <1>8, <2>1, <3>2 DEF RecordOf, DwellComplete, LastVisit, l
    <3> QED BY <1>1, <1>2, <1>3, <2>1, <3>2, <3>3 DEF l
  <2>2. CASE ~record.inside
    BY <1>3, <1>8, <2>2 DEF RecordOf, DwellComplete, l
  <2> QED BY <2>1, <2>2
<1> QED BY <1>5, <1>6, <1>7, <1>8 DEF new, l

LEMMA RecordUnseen ==
    ASSUME NEW t \in Nat, NEW u \in Nat, t < u, NEW P, NEW record, RecordOf(record, P, t),
           u - record.last_seen_at <= HistoryWindow
    PROVE  RecordOf(Unseen(record, u), P, u)
<1> DEFINE l == record.last_seen_at
<1>1. l \in Nat /\ l <= t /\ UpTo(P, l)
  BY DEF RecordOf, Record
<1>2. CASE LostTrack(record, u)
  <2> DEFINE new == Frozen(record)
  <2>1. Unseen(record, u) = new /\ u - l > MaxTrackingGap
    BY <1>2 DEF Unseen, LostTrack
  <2>2. /\ new \in Record /\ new.roi = record.roi /\ new.last_seen_at = l /\ ~new.inside
        /\ LastInside(P, new) /\ DwellBacked(P, new)
        /\ record.roi # None => \A a, b \in 0..l : LastVisit(P, record.roi, a, b) => new.dwell >= b - a
    BY FrozenSound
  <2> HIDE DEF new
  <2>3. DwellComplete(P, new, u)
    BY <2>1, <2>2 DEF DwellComplete
  <2> QED BY <1>1, <2>1, <2>2, <2>3 DEF RecordOf
<1>3. CASE ~LostTrack(record, u)
  <2>1. Unseen(record, u) = record /\ (record.inside => u - l <= MaxTrackingGap)
    <3>1. MaxTrackingGap \in Nat
      BY VehicleConstants
    <3> QED BY <1>1, <1>3, <3>1 DEF Unseen, LostTrack
  <2>2. t - l > MaxTrackingGap => u - l > MaxTrackingGap
    <3>1. MaxTrackingGap \in Nat
      BY VehicleConstants
    <3> QED BY <1>1, <3>1
  <2>3. DwellComplete(P, record, u)
    BY <2>1, <2>2 DEF RecordOf, DwellComplete
  <2> QED BY <1>1, <2>1, <2>3 DEF RecordOf
<1> QED BY <1>2, <1>3

LEMMA RecordOutside ==
    ASSUME NEW t \in Nat, NEW u \in Nat, t < u, NEW P, NEW record, RecordOf(record, P, t),
           NEW place \in Places, RoiOf[place] = None
    PROVE  RecordOf(SeenOutside(record, place, u), P \cup {Sighting(place, u)}, u)
<1> DEFINE l == record.last_seen_at
           n == Sighting(place, u)
           fr == Frozen(record)
           new == SeenOutside(record, place, u)
           Q == P \cup {n}
<1>1. l \in Nat /\ l <= t /\ l < u /\ UpTo(P, l)
  BY DEF RecordOf, Record
<1>2. n.at = u /\ n.place = place
  BY DEF Sighting
<1>3. /\ fr \in Record /\ fr.last_inside = record.last_inside
      /\ fr.roi = record.roi /\ fr.last_seen_at = l /\ ~fr.inside
      /\ LastInside(P, fr) /\ DwellBacked(P, fr)
      /\ record.roi # None => \A a, b \in 0..l : LastVisit(P, record.roi, a, b) => fr.dwell >= b - a
  BY FrozenSound
<1>4. new = [fr EXCEPT !.place = place, !.last_seen_at = u]
  BY DEF SeenOutside
<1>5. UpTo(Q, u)
  BY <1>1, UpToAdded
<1>6. \A r, gap, a, b : a \in Nat /\ b \in 0..l => (Stay(Q, r, a, b, gap) <=> Stay(P, r, a, b, gap))
  BY <1>1, StayKept
<1> HIDE DEF n, new, Q, fr
<1>7. /\ new \in Record /\ new.last_inside = fr.last_inside /\ new.roi = record.roi
      /\ new.last_seen_at = u /\ ~new.inside /\ new.dwell = fr.dwell
  BY <1>3, <1>4 DEF Record
<1> HIDE DEF l
<1>8. P \subseteq Q /\ n \in Q /\ \A s \in Q : s \in P \/ s = n
  BY DEF Q
<1>9. LastInside(Q, new)
  <2>1. CASE record.roi = None
    BY <1>2, <1>3, <1>7, <1>8, <2>1 DEF LastInside
  <2>2. CASE record.roi # None
    <3>1. PICK k \in P : /\ RoiOf[k.place] = fr.roi /\ k.place = fr.last_inside
                         /\ \A s \in P : s.at > k.at => RoiOf[s.place] = None
      BY <1>3, <2>2 DEF LastInside
    <3> QED BY <1>2, <1>3, <1>7, <1>8, <2>2, <3>1 DEF LastInside
  <2> QED BY <2>1, <2>2
<1>10. DwellBacked(Q, new)
  <2> SUFFICES ASSUME record.roi # None
               PROVE  \E a, b \in 0..u : b - a >= fr.dwell
                                        /\ Stay(Q, record.roi, a, b, MaxTrackingGap + MaxStep)
    BY <1>7 DEF DwellBacked
  <2>1. PICK a, b \in 0..l : b - a >= fr.dwell /\ Stay(P, record.roi, a, b, MaxTrackingGap + MaxStep)
    BY <1>3 DEF DwellBacked
  <2>2. a \in Nat /\ a \in 0..u /\ b \in 0..u
    BY <1>1
  <2> QED BY <1>6, <2>1, <2>2
<1>11. DwellComplete(Q, new, u)
  <2>1. ASSUME record.roi # None, NEW a \in 0..u, NEW b \in 0..u, LastVisit(Q, record.roi, a, b)
        PROVE  fr.dwell >= b - a
    <3>1. PICK s \in Q : s.at = b /\ RoiOf[s.place] = record.roi /\ a <= s.at
      BY <2>1 DEF LastVisit, Stay
    <3>2. s \in P
      BY <1>2, <1>8, <2>1, <3>1
    <3>3. b \in 0..l /\ a \in 0..l /\ a \in Nat
      BY <1>1, <3>1, <3>2 DEF UpTo
    <3>4. LastVisit(P, record.roi, a, b)
      BY <1>6, <1>8, <2>1, <3>3 DEF LastVisit
    <3> QED BY <1>3, <2>1, <3>3, <3>4
  <2>2. n \in Q /\ n.at = new.last_seen_at /\ RoiOf[n.place] = None
    BY <1>2, <1>7, <1>8
  <2> QED BY <1>7, <2>1, <2>2 DEF DwellComplete
<1>12. HistoryWindow \in Nat /\ u - u = 0
  BY VehicleConstants
<1>13. RecordOf(new, Q, u)
  BY <1>5, <1>7, <1>9, <1>10, <1>11, <1>12 DEF RecordOf
<1> QED BY <1>13 DEF new, Q, n

LEMMA RecordInside ==
    ASSUME NEW t \in Nat, NEW u \in Nat, t < u, u - t <= MaxStep,
           NEW P, NEW record, RecordOf(record, P, t),
           NEW place \in Places, RoiOf[place] # None
    PROVE  RecordOf(SeenInside(record, place, u), P \cup {Sighting(place, u)}, u)
<1> DEFINE l == record.last_seen_at
           n == Sighting(place, u)
           r == RoiOf[place]
           enters == Enters(record, r)
           since == IF enters THEN u ELSE record.first_inside_at
           so_far == IF enters THEN 0 ELSE record.dwell
           worth == Later(so_far, u - since)
           new == SeenInside(record, place, u)
           Q == P \cup {n}
<1>1. l \in Nat /\ l <= t /\ l < u /\ UpTo(P, l) /\ record.dwell \in Nat
  BY DEF RecordOf, Record
<1>2. n.at = u /\ n.place = place
  BY DEF Sighting
<1>3. ~enters => /\ record.inside /\ record.roi = r
                 /\ record.first_inside_at \in 0..l /\ t - l <= MaxTrackingGap
                 /\ Stay(P, r, record.first_inside_at, l, MaxTrackingGap + MaxStep)
                 /\ \A a \in 0..l : Stay(P, r, a, l, MaxTrackingGap) => record.first_inside_at <= a
  BY DEF RecordOf, DwellComplete, Enters
<1>4. {HistoryWindow, MaxTrackingGap} \subseteq Nat /\ MaxStep \in Nat
  BY VehicleConstants
<1>5. /\ since \in 0..u /\ so_far \in Nat
      /\ enters => since = u /\ so_far = 0
      /\ ~enters => since = record.first_inside_at /\ so_far = record.dwell
  BY <1>1, <1>3
<1> HIDE DEF since, so_far
<1>6. /\ worth \in Nat
      /\ worth = so_far \/ worth = u - since
  BY <1>5 DEF Later
<1>7. new = [place |-> place, last_inside |-> place, roi |-> r, first_inside_at |-> since,
             last_seen_at |-> u, dwell |-> worth, inside |-> TRUE]
  BY DEF SeenInside, since, so_far
<1>8. UpTo(Q, u)
  BY <1>1, UpToAdded
<1>9. \A q, gap, a, b : a \in Nat /\ b \in 0..l => (Stay(Q, q, a, b, gap) <=> Stay(P, q, a, b, gap))
  BY <1>1, StayKept
<1>10. \A gap : Stay(Q, r, u, u, gap)
  <2>1. \A s \in P : s.at \in Nat /\ s.at < u
    BY <1>1 DEF UpTo
  <2> QED BY <2>1, StayAlone
<1>11. ASSUME NEW a \in 0..u, a < u, Stay(Q, r, a, u, MaxTrackingGap)
       PROVE  a \in 0..l /\ u - l <= MaxTrackingGap /\ Stay(P, r, a, l, MaxTrackingGap)
  <2>1. a \in Nat
    OBVIOUS
  <2>2. a <= l /\ u - l <= MaxTrackingGap /\ Stay(P, r, a, l, MaxTrackingGap)
    BY <1>1, <1>4, <1>11, <2>1, StayBefore
  <2> QED BY <1>1, <2>1, <2>2
<1>12. ~enters => Stay(Q, r, since, u, MaxTrackingGap + MaxStep)
  <2> SUFFICES ASSUME ~enters PROVE Stay(Q, r, record.first_inside_at, u, MaxTrackingGap + MaxStep)
    BY <1>5
  <2>1. u - l <= MaxTrackingGap + MaxStep /\ MaxTrackingGap + MaxStep \in Nat
    BY <1>1, <1>3, <1>4
  <2> QED BY <1>1, <1>3, <2>1, StayExtended
<1> HIDE DEF worth, new, Q, n
<1>13. /\ new \in Record /\ new.last_inside = place /\ new.roi = r /\ new.first_inside_at = since
       /\ new.last_seen_at = u /\ new.inside /\ new.dwell = worth
  BY <1>5, <1>6, <1>7 DEF Record
<1>14. P \subseteq Q /\ n \in Q
  BY DEF Q
<1>15. LastInside(Q, new)
  <2>1. \A s \in Q : ~(s.at > u)
    BY <1>8 DEF UpTo
  <2> QED BY <1>2, <1>13, <1>14, <2>1 DEF LastInside
<1>16. Stay(Q, r, since, u, MaxTrackingGap + MaxStep)
  BY <1>5, <1>10, <1>12
<1>17. DwellBacked(Q, new)
  <2> SUFFICES \E a, b \in 0..u : b - a >= worth /\ Stay(Q, r, a, b, MaxTrackingGap + MaxStep)
    BY <1>13 DEF DwellBacked
  <2>1. CASE worth = u - since
    BY <1>5, <1>16, <2>1
  <2>2. CASE worth = so_far /\ enters
    BY <1>5, <1>16, <2>2
  <2>3. CASE worth = so_far /\ ~enters
    <3>1. PICK a, b \in 0..l : b - a >= record.dwell
                               /\ Stay(P, r, a, b, MaxTrackingGap + MaxStep)
      BY <1>3, <2>3 DEF RecordOf, DwellBacked
    <3>2. a \in Nat /\ a \in 0..u /\ b \in 0..u
      BY <1>1
    <3> QED BY <1>5, <1>9, <2>3, <3>1, <3>2
  <2> QED BY <1>6, <2>1, <2>2, <2>3
<1>18. ASSUME NEW a \in 0..u, Stay(Q, r, a, u, MaxTrackingGap) PROVE since <= a
  <2>1. CASE ~enters
    <3>1. CASE a < u
      BY <1>3, <1>5, <1>11, <1>18, <2>1, <3>1
    <3>2. CASE ~(a < u)
      BY <1>5, <3>2
    <3> QED BY <3>1, <3>2
  <2>2. CASE enters
    <3>1. ASSUME a < u PROVE FALSE
      <4>1. u - l <= MaxTrackingGap /\ Stay(P, r, a, l, MaxTrackingGap)
        BY <1>11, <1>18, <3>1
      <4>2. PICK s \in P : s.at = l /\ RoiOf[s.place] = r
        BY <4>1 DEF Stay
      <4>3. CASE record.inside
        <5>1. PICK k \in P : RoiOf[k.place] = record.roi /\ k.at = l
          BY <4>3 DEF RecordOf, LastInside
        <5>2. k = s
          BY <1>1, <4>2, <5>1 DEF UpTo
        <5> QED BY <2>2, <4>2, <4>3, <5>1, <5>2 DEF Enters
      <4>4. CASE ~record.inside
        <5>1. CASE t - l > MaxTrackingGap
          BY <1>1, <1>4, <4>1, <5>1
        <5>2. CASE \E k \in P : k.at = l /\ RoiOf[k.place] = None
          BY <1>1, <4>2, <5>2 DEF UpTo
        <5> QED BY <4>4, <5>1, <5>2 DEF RecordOf, DwellComplete
      <4> QED BY <4>3, <4>4
    <3> QED BY <1>5, <2>2, <3>1
  <2> QED BY <2>1, <2>2
<1>19. DwellComplete(Q, new, u)
  <2>1. u - u <= MaxTrackingGap
    BY <1>4
  <2> QED BY <1>5, <1>13, <1>16, <1>18, <2>1 DEF DwellComplete
<1>20. u - u <= HistoryWindow /\ u <= u
  BY <1>4
<1>21. RecordOf(new, Q, u)
  BY <1>8, <1>13, <1>15, <1>17, <1>19, <1>20 DEF RecordOf
<1> QED BY <1>21 DEF new, Q, n

-----------------------------------------------------------------------------
(* The associator *)

LEMMA DwellFrame ==
    ASSUME FilterInv, DwellInv,
           NEW frame \in [Vehicles -> Box \cup {None}], NEW t, ProcessFrame(frame, t)
    PROVE  DwellInv'
<1> DEFINE seen == Accepted(frame, t)
<1>1. /\ now \in Nat /\ t \in Nat /\ now < t /\ t - now <= MaxStep /\ now' = t
      /\ shown' = seen
      /\ records' = Dwelling(seen, frame, t)
      /\ path' = [v \in Vehicles |->
            IF v \notin DOMAIN records' THEN {}
            ELSE IF v \in shown' THEN path[v] \cup {Sighting(frame[v].place, t)}
            ELSE path[v]]
  BY VehicleConstants DEF FilterInv, ProcessFrame, Sighting
<1>2. /\ DOMAIN records \subseteq Vehicles
      /\ \A v \in DOMAIN records : RecordOf(records[v], path[v], now)
      /\ \A v \in Vehicles \ DOMAIN records : path[v] = {}
  BY DEF DwellInv
<1>3. seen \subseteq {v \in Vehicles : frame[v] # None}
  BY DEF FilterInv, Accepted, Opened
<1>4. \A v \in seen : v \in Vehicles /\ frame[v].place \in Places
  BY <1>3 DEF Box
<1> HIDE DEF seen
<1>5. /\ DOMAIN records' = Kept(seen, t)
      /\ \A v \in Kept(seen, t) :
            records'[v] = IF v \notin seen THEN Unseen(records[v], t)
                          ELSE IF v \notin DOMAIN records THEN NewRecord(frame[v].place, t)
                          ELSE IF RoiOf[frame[v].place] # None
                               THEN SeenInside(records[v], frame[v].place, t)
                               ELSE SeenOutside(records[v], frame[v].place, t)
  BY <1>1 DEF Dwelling
<1>6. Kept(seen, t) \subseteq Vehicles
  BY <1>2, <1>4 DEF Kept
<1>7. ASSUME NEW v \in Kept(seen, t) PROVE RecordOf(records'[v], path'[v], t)
  <2>1. v \in Vehicles /\ v \in DOMAIN records'
    BY <1>5, <1>6
  <2>2. path'[v] = IF v \in seen THEN path[v] \cup {Sighting(frame[v].place, t)} ELSE path[v]
    BY <1>1, <2>1
  <2>3. CASE v \notin seen
    <3>1. v \in DOMAIN records /\ t - records[v].last_seen_at <= HistoryWindow
      BY <2>3 DEF Kept
    <3>2. records'[v] = Unseen(records[v], t) /\ path'[v] = path[v]
      BY <1>5, <2>2, <2>3
    <3> QED BY <1>1, <1>2, <3>1, <3>2, RecordUnseen
  <2>4. CASE v \in seen /\ v \notin DOMAIN records
    <3>1. records'[v] = NewRecord(frame[v].place, t) /\ path'[v] = {Sighting(frame[v].place, t)}
      BY <1>2, <1>5, <2>1, <2>2, <2>4
    <3> QED BY <1>1, <1>4, <2>4, <3>1, RecordMade
  <2>5. CASE v \in seen /\ v \in DOMAIN records /\ RoiOf[frame[v].place] # None
    <3>1. /\ records'[v] = SeenInside(records[v], frame[v].place, t)
          /\ path'[v] = path[v] \cup {Sighting(frame[v].place, t)}
      BY <1>5, <2>2, <2>5
    <3>2. RecordOf(records[v], path[v], now) /\ frame[v].place \in Places
      BY <1>2, <1>4, <2>5
    <3>3. RecordOf(SeenInside(records[v], frame[v].place, t),
                   path[v] \cup {Sighting(frame[v].place, t)}, t)
      BY <1>1, <2>5, <3>2, RecordInside
    <3> QED BY <3>1, <3>3
  <2>6. CASE v \in seen /\ v \in DOMAIN records /\ RoiOf[frame[v].place] = None
    <3>1. /\ records'[v] = SeenOutside(records[v], frame[v].place, t)
          /\ path'[v] = path[v] \cup {Sighting(frame[v].place, t)}
      BY <1>5, <2>2, <2>6
    <3>2. RecordOf(records[v], path[v], now) /\ frame[v].place \in Places
      BY <1>2, <1>4, <2>6
    <3>3. RecordOf(SeenOutside(records[v], frame[v].place, t),
                   path[v] \cup {Sighting(frame[v].place, t)}, t)
      BY <1>1, <2>6, <3>2, RecordOutside
    <3> QED BY <3>1, <3>3
  <2> QED BY <2>3, <2>4, <2>5, <2>6
<1>8. ASSUME NEW v \in Vehicles, v \notin DOMAIN records' PROVE path'[v] = {}
  BY <1>1, <1>8
<1> QED BY <1>1, <1>5, <1>6, <1>7, <1>8 DEF DwellInv

LEMMA DwellStep == FilterInv /\ DwellInv /\ [Next]_vars => DwellInv'
<1> SUFFICES ASSUME FilterInv, DwellInv, [Next]_vars PROVE DwellInv'
  OBVIOUS
<1>1. ASSUME NEW frame \in [Vehicles -> Box \cup {None}], NEW t \in 1..MaxTime,
             ProcessFrame(frame, t)
      PROVE  DwellInv'
  BY <1>1, DwellFrame
<1>2. CASE ClearCamera
  BY <1>2 DEF ClearCamera, DwellInv
<1>3. CASE UNCHANGED vars
  BY <1>3 DEF vars, DwellInv
<1> QED BY <1>1, <1>2, <1>3 DEF Next

(* What the associator keeps of every vehicle is what its sightings say:   *)
(* the polygon it was last in and where, and how long a stay it made there.*)
THEOREM DwellInvariance == Spec => []DwellInv
<1>1. Init => DwellInv
  BY DEF Init, DwellInv
<1> QED BY <1>1, DwellStep, FilterInvariance, PTL DEF Spec

(* A vehicle find_related reports for trash in a polygon has made one stay *)
(* of min_vehicle_dwell_seconds there, without a longer gap than allowed.  *)
THEOREM RelationNeedsDwell == Spec => []RelatedVehicleDwelt
<1>1. DwellInv => RelatedVehicleDwelt
  <2> SUFFICES ASSUME DwellInv, NEW trash \in Places, NEW v \in Related(trash)
               PROVE  \E a, b \in 0..now :
                         b - a >= MinDwell
                         /\ Stay(path[v], RoiOf[trash], a, b, MaxTrackingGap + MaxStep)
    BY DEF RelatedVehicleDwelt
  <2> DEFINE record == records[v]
             l == record.last_seen_at
  <2>1. /\ RecordOf(record, path[v], now) /\ now \in Nat /\ MinDwell \in Nat
        /\ record.roi = RoiOf[trash] /\ record.roi # None /\ DwellOf(record) >= MinDwell
    BY VehicleConstants DEF DwellInv, Related
  <2> HIDE DEF record
  <2>2. l \in Nat /\ l <= now /\ record.dwell \in Nat
    BY <2>1 DEF RecordOf, Record
  <2>3. CASE record.dwell >= MinDwell
    <3>1. PICK a, b \in 0..l : b - a >= record.dwell
                              /\ Stay(path[v], record.roi, a, b, MaxTrackingGap + MaxStep)
      BY <2>1 DEF RecordOf, DwellBacked
    <3>2. a \in 0..now /\ b \in 0..now /\ b - a >= MinDwell
      BY <2>1, <2>2, <2>3, <3>1
    <3> QED BY <2>1, <3>1, <3>2
  <2>4. CASE record.inside /\ l - record.first_inside_at >= MinDwell
    <3>1. /\ record.first_inside_at \in 0..l
          /\ Stay(path[v], record.roi, record.first_inside_at, l, MaxTrackingGap + MaxStep)
      BY <2>1, <2>4 DEF RecordOf, DwellComplete
    <3>2. record.first_inside_at \in 0..now /\ l \in 0..now
      BY <2>1, <2>2, <3>1
    <3> QED BY <2>1, <2>4, <3>1, <3>2
  <2> QED BY <2>1, <2>3, <2>4 DEF DwellOf, Later
<1> QED BY <1>1, DwellInvariance, PTL

(* And a vehicle that made such a stay as its last visit to any polygon is *)
(* reported for trash near where it stood, for as long as it is remembered.*)
THEOREM DwellRelates == Spec => []DwellIsRemembered
<1>1. DwellInv => DwellIsRemembered
  <2> SUFFICES ASSUME DwellInv, NEW v \in DOMAIN records, NEW trash \in Places,
                      NEW a \in 0..now, NEW b \in 0..now,
                      RoiOf[trash] # None, b - a >= MinDwell,
                      LastVisit(path[v], RoiOf[trash], a, b),
                      NEW s \in path[v], s.at = b, <<s.place, trash>> \in Near
               PROVE  v \in Related(trash)
    BY DEF DwellIsRemembered
  <2> DEFINE record == records[v]
             l == record.last_seen_at
  <2>1. /\ RecordOf(record, path[v], now) /\ now \in Nat /\ MinDwell \in Nat
        /\ v \in DOMAIN records
    BY VehicleConstants DEF DwellInv
  <2> HIDE DEF record
  <2>2. l \in Nat /\ l <= now /\ record.dwell \in Nat /\ UpTo(path[v], l)
        /\ now - l <= HistoryWindow
    BY <2>1 DEF RecordOf, Record
  <2>3. RoiOf[s.place] = RoiOf[trash]
    <3>1. PICK x \in path[v] : x.at = b /\ RoiOf[x.place] = RoiOf[trash]
      BY DEF LastVisit, Stay
    <3> QED BY <2>2, <3>1 DEF UpTo
  <2>4. record.roi # None
    BY <2>1, <2>3 DEF RecordOf, LastInside
  <2>5. PICK k \in path[v] : /\ RoiOf[k.place] = record.roi /\ k.place = record.last_inside
                             /\ \A x \in path[v] : x.at > k.at => RoiOf[x.place] = None
                             /\ record.inside => k.at = l
    BY <2>1, <2>4 DEF RecordOf, LastInside
  <2>6. k = s
    <3>1. k.at \in Nat /\ s.at \in Nat
      BY <2>2 DEF UpTo
    <3>2. ~(k.at > b)
      BY <2>4, <2>5 DEF LastVisit
    <3>3. ~(s.at > k.at)
      BY <2>3, <2>5
    <3>4. k.at = s.at
      BY <3>1, <3>2, <3>3
    <3> QED BY <2>2, <3>4 DEF UpTo
  <2>7. record.roi = RoiOf[trash] /\ record.last_inside = s.place /\ s.place # None
    BY <2>2, <2>3, <2>5, <2>6, VehicleConstants DEF UpTo
  <2>8. a \in 0..l /\ b \in 0..l
    BY <2>1, <2>2 DEF UpTo
  <2>9. DwellOf(record) >= b - a
    <3>1. CASE record.inside
      <4>1. b = l /\ Stay(path[v], record.roi, a, l, MaxTrackingGap)
        <5>1. b = l
          BY <2>5, <2>6, <3>1
        <5>2. Stay(path[v], RoiOf[trash], a, b, MaxTrackingGap)
          BY DEF LastVisit
        <5> QED BY <2>7, <5>1, <5>2
      <4>2. record.first_inside_at \in 0..l /\ record.first_inside_at <= a
        BY <2>1, <2>8, <3>1, <4>1 DEF RecordOf, DwellComplete
      <4> QED BY <2>2, <2>8, <3>1, <4>1, <4>2 DEF DwellOf, Later
    <3>2. CASE ~record.inside
      BY <2>1, <2>4, <2>7, <2>8, <3>2 DEF RecordOf, DwellComplete, DwellOf
    <3> QED BY <3>1, <3>2
  <2>10. DwellOf(record) >= MinDwell
    <3>1. DwellOf(record) \in Int
      <4>1. record.inside => record.first_inside_at \in 0..l
        BY <2>1 DEF RecordOf, DwellComplete
      <4> QED BY <2>2, <4>1 DEF DwellOf, Later
    <3> QED BY <2>1, <2>8, <2>9, <3>1
  <2>11. <<LocationOf(record), trash>> \in Near
    BY <2>7 DEF LocationOf
  <2> QED BY <2>1, <2>2, <2>7, <2>10, <2>11 DEF Related, record
<1> QED BY <1>1, DwellInvariance, PTL

=============================================================================
