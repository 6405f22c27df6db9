-------------------------- MODULE RuleEngine_proofs --------------------------
(***************************************************************************)
(* Proofs about RuleEngine, for any sets of objects, persons and vehicles, *)
(* any durations and any settings of the gate.                             *)
(***************************************************************************)
EXTENDS RuleEngine, TLAPS

-----------------------------------------------------------------------------
(* What a frame does to one track *)

(* The part of it the engine relies on: the type; an alert is never taken  *)
(* back, and with a gate not raised either; time that has not passed       *)
(* cannot make a track await the gate.                                     *)
Keeps(t, u) ==
    /\ u \in Tracker!ObjectTrack
    /\ t.alerted => u.alerted
    /\ DeferAbandonedEvent => u.alerted = t.alerted
    /\ AbandonmentDwell > 0 /\ JustSeen(t) => JustSeen(u)

LEMMA KeepsTransitive ==
    ASSUME NEW t, NEW u, NEW v, Keeps(t, u), Keeps(u, v)
    PROVE  Keeps(t, v)
BY DEF Keeps

LEMMA TouchedKeeps ==
    ASSUME NEW t \in Tracker!ObjectTrack, NEW b \in Tracker!Blob
    PROVE  Keeps(t, Tracker!Touched(t, b))
<1> DEFINE u == Tracker!Touched(t, b)
           owner == Tracker!Or(t.owner_track_id, b.owner_hint)
           vehicle == Tracker!Or(t.related_vehicle_id, b.vehicle_hint)
<1>1. /\ owner \in Persons \cup {None}
      /\ vehicle \in Vehicles \cup {None}
      /\ 0 \in Tracker!Age
  BY DurationAssumption DEF Tracker!Or, Tracker!ObjectTrack, Tracker!Blob, Tracker!Age
<1>2. u = [t EXCEPT !.last_seen_at = 0, !.owner_track_id = owner, !.related_vehicle_id = vehicle]
  BY DEF Tracker!Touched
<1> HIDE DEF u, owner, vehicle
<1>3. /\ u \in Tracker!ObjectTrack
      /\ u.alerted = t.alerted
      /\ u.state = t.state
      /\ u.state_before_pending_claim = t.state_before_pending_claim
      /\ u.owner_left_at = t.owner_left_at
      /\ u.owner_absent_since = t.owner_absent_since
  BY <1>1, <1>2 DEF Tracker!ObjectTrack
<1> QED BY <1>3 DEF Keeps, JustSeen, u

LEMMA ReappearedKeeps ==
    ASSUME NEW t \in Tracker!ObjectTrack
    PROVE  Keeps(t, Tracker!Reappeared(t))
<1> DEFINE u == Tracker!Reappeared(t)
           s == Tracker!Or(t.state_before_pending_claim, "STATIC_NO_OWNER")
<1>1. CASE t.state # "PENDING_CLAIM"
  BY <1>1 DEF Tracker!Reappeared, Keeps
<1>2. CASE t.state = "PENDING_CLAIM"
  <2>1. /\ s \in Tracker!TrackState
        /\ s \in {t.state_before_pending_claim, "STATIC_NO_OWNER"}
    BY DEF Tracker!Or, Tracker!ObjectTrack, Tracker!TrackState, Tracker!Claimable, Tracker!Watched
  <2>2. u = [t EXCEPT !.state = s, !.pending_claim_at = None, !.state_before_pending_claim = None]
    BY <1>2 DEF Tracker!Reappeared
  <2> HIDE DEF u, s
  <2>3. /\ u \in Tracker!ObjectTrack
        /\ u.alerted = t.alerted
        /\ u.state = s
        /\ u.state_before_pending_claim = None
        /\ u.owner_left_at = t.owner_left_at
        /\ u.owner_absent_since = t.owner_absent_since
    BY <2>1, <2>2 DEF Tracker!ObjectTrack
  <2> QED BY <2>1, <2>3, NoneAssumption DEF Keeps, JustSeen, u
<1> QED BY <1>1, <1>2

LEMMA ConfirmedKeeps ==
    ASSUME NEW t \in Tracker!ObjectTrack, NEW b \in Tracker!Blob
    PROVE  Keeps(t, Tracker!Confirmed(t, b))
<1> DEFINE u == Tracker!Confirmed(t, b)
           owner == Tracker!Or(t.owner_track_id, b.owner_lookup)
           s == IF owner # None THEN "STATIC_WITH_OWNER" ELSE "STATIC_NO_OWNER"
<1>1. CASE t.state # "CONFIRMING" \/ ~b.static
  BY <1>1 DEF Tracker!Confirmed, Keeps
<1>2. CASE ~(t.state # "CONFIRMING" \/ ~b.static)
  <2>1. /\ owner \in Persons \cup {None}
        /\ s \in {"STATIC_WITH_OWNER", "STATIC_NO_OWNER"}
        /\ s \in Tracker!TrackState
    BY DEF Tracker!Or, Tracker!ObjectTrack, Tracker!Blob, Tracker!TrackState,
           Tracker!Claimable, Tracker!Watched
  <2>2. u = [t EXCEPT !.owner_track_id = owner, !.state = s]
    BY <1>2 DEF Tracker!Confirmed
  <2> HIDE DEF u, owner, s
  <2>3. /\ u \in Tracker!ObjectTrack
        /\ u.alerted = t.alerted
        /\ u.state = s
        /\ u.state_before_pending_claim = t.state_before_pending_claim
        /\ u.owner_left_at = t.owner_left_at
        /\ u.owner_absent_since = t.owner_absent_since
    BY <2>1, <2>2 DEF Tracker!ObjectTrack
  <2> QED BY <2>1, <2>3 DEF Keeps, JustSeen, u
<1> QED BY <1>1, <1>2

LEMMA PresenceKeeps ==
    ASSUME NEW t \in Tracker!ObjectTrack, NEW near \in BOOLEAN
    PROVE  Keeps(t, Tracker!Presence(t, near))
<1> DEFINE u == Tracker!Presence(t, near)
           since == Tracker!Or(t.owner_absent_since, 0)
<1>1. /\ since \in Tracker!Age /\ 0 \in Tracker!Age
      /\ since \in {t.owner_absent_since, 0}
  BY DurationAssumption DEF Tracker!Or, Tracker!ObjectTrack, Tracker!Age
<1>2. u = IF near THEN [t EXCEPT !.owner_last_seen_near_at = 0, !.owner_absent_since = None]
          ELSE [t EXCEPT !.owner_absent_since = since]
  BY DEF Tracker!Presence
<1> HIDE DEF u, since
<1>3. /\ u \in Tracker!ObjectTrack
      /\ u.alerted = t.alerted
      /\ u.state = t.state
      /\ u.state_before_pending_claim = t.state_before_pending_claim
      /\ u.owner_left_at = t.owner_left_at
      /\ u.owner_absent_since \in {since, None}
  BY <1>1, <1>2 DEF Tracker!ObjectTrack
<1> QED BY <1>1, <1>3 DEF Keeps, JustSeen, u

LEMMA AttendedKeeps ==
    ASSUME NEW t \in Tracker!ObjectTrack, NEW near \in BOOLEAN
    PROVE  Keeps(t, Tracker!Attended(t, near))
<1> DEFINE u == Tracker!Attended(t, near)
           left == IF near THEN None ELSE t.owner_left_at
<1>1. u = [t EXCEPT !.state = "STATIC_WITH_OWNER", !.owner_left_at = left]
  BY DEF Tracker!Attended
<1>2. left \in Tracker!Age \cup {None} /\ left \in {t.owner_left_at, None}
  BY DEF Tracker!ObjectTrack
<1> HIDE DEF u, left
<1>3. /\ u \in Tracker!ObjectTrack
      /\ u.alerted = t.alerted
      /\ u.state = "STATIC_WITH_OWNER"
      /\ u.state_before_pending_claim = t.state_before_pending_claim
      /\ u.owner_left_at = left
      /\ u.owner_absent_since = t.owner_absent_since
  BY <1>1, <1>2 DEF Tracker!ObjectTrack, Tracker!TrackState, Tracker!Claimable, Tracker!Watched
<1> QED BY <1>2, <1>3 DEF Keeps, JustSeen, u

LEMMA UnattendedKeeps ==
    ASSUME NEW t \in Tracker!ObjectTrack
    PROVE  Keeps(t, Tracker!Unattended(t)) /\ Tracker!Unattended(t).owner_left_at # None
<1> DEFINE u == Tracker!Unattended(t)
           s == IF t.state = "STATIC_WITH_OWNER" THEN "STATIC_NO_OWNER" ELSE t.state
           since == Tracker!Or(t.owner_absent_since, 0)
           left == IF t.state = "STATIC_WITH_OWNER" \/ t.owner_left_at = None
                   THEN since ELSE t.owner_left_at
<1>1. u = [t EXCEPT !.state = s, !.owner_left_at = left]
  BY DEF Tracker!Unattended
<1>2. since \in Tracker!Age /\ since # None /\ since \in {t.owner_absent_since, 0}
  BY DurationAssumption, NoneAssumption DEF Tracker!Or, Tracker!ObjectTrack, Tracker!Age
<1> HIDE DEF since
<1>3. left \in Tracker!Age /\ left # None /\ left \in {since, t.owner_left_at}
  BY <1>2 DEF Tracker!ObjectTrack
<1>4. s \in Tracker!TrackState /\ s \in {"STATIC_NO_OWNER", t.state}
  BY DEF Tracker!ObjectTrack, Tracker!TrackState, Tracker!Claimable, Tracker!Watched
<1> HIDE DEF u, s, left
<1>5. /\ u \in Tracker!ObjectTrack
      /\ u.alerted = t.alerted
      /\ u.state = s
      /\ u.state_before_pending_claim = t.state_before_pending_claim
      /\ u.owner_left_at = left
      /\ u.owner_absent_since = t.owner_absent_since
  BY <1>1, <1>3, <1>4 DEF Tracker!ObjectTrack
<1> QED BY <1>2, <1>3, <1>4, <1>5 DEF Keeps, JustSeen, u

LEMMA ConfirmTyped ==
    ASSUME NEW t \in Tracker!ObjectTrack
    PROVE  Tracker!Confirm(t) \in Tracker!ObjectTrack /\ Tracker!Confirm(t).alerted
BY DEF Tracker!Confirm, Tracker!ObjectTrack, Tracker!TrackState, Tracker!Claimable, Tracker!Watched

LEMMA EscalatedKeeps ==
    ASSUME NEW t \in Tracker!ObjectTrack, t.owner_left_at # None
    PROVE  Keeps(t, Tracker!Escalated(t))
<1> DEFINE u == Tracker!Escalated(t)
<1>1. t.owner_left_at \in Nat /\ AbandonmentDwell \in Nat
  BY DurationAssumption DEF Tracker!ObjectTrack, Tracker!Age
<1>2. CASE ~(t.owner_left_at >= AbandonmentDwell /\ ~t.alerted)
  BY <1>2 DEF Tracker!Escalated, Keeps
<1>3. CASE t.owner_left_at >= AbandonmentDwell /\ ~t.alerted
  <2>1. ~(AbandonmentDwell > 0 /\ JustSeen(t))
    BY <1>1, <1>3 DEF JustSeen
  <2>2. CASE DeferAbandonedEvent
    <3>1. u = [t EXCEPT !.state = "AWAITING_TARGET"]
      BY <1>3, <2>2 DEF Tracker!Escalated
    <3> HIDE DEF u
    <3>2. u \in Tracker!ObjectTrack /\ u.alerted = t.alerted
      BY <3>1 DEF Tracker!ObjectTrack, Tracker!TrackState, Tracker!Claimable, Tracker!Watched
    <3> QED BY <2>1, <3>2 DEF Keeps, u
  <2>3. CASE ~DeferAbandonedEvent
    <3>1. u = Tracker!Confirm(t)
      BY <1>3, <2>3 DEF Tracker!Escalated
    <3> QED BY <2>1, <2>3, <3>1, ConfirmTyped DEF Keeps
  <2> QED BY <2>2, <2>3
<1> QED BY <1>2, <1>3

LEMMA JudgedKeeps ==
    ASSUME NEW t \in Tracker!ObjectTrack, NEW b \in Tracker!Blob
    PROVE  Keeps(t, Tracker!Judged(t, b))
<1> DEFINE near == Tracker!ActuallyNearby(t, b)
           p == Tracker!Presence(t, near)
           u == Tracker!Unattended(p)
<1>1. near \in BOOLEAN
  BY DEF Tracker!ActuallyNearby
<1> HIDE DEF near
<1>2. Keeps(t, p)
  BY <1>1, PresenceKeeps
<1>3. p \in Tracker!ObjectTrack
  BY <1>2 DEF Keeps
<1> HIDE DEF p
<1>4. Keeps(p, Tracker!Attended(p, near))
  BY <1>1, <1>3, AttendedKeeps
<1>5. Keeps(p, u) /\ u.owner_left_at # None
  BY <1>3, UnattendedKeeps
<1>6. u \in Tracker!ObjectTrack
  BY <1>5 DEF Keeps
<1> HIDE DEF u
<1>7. Keeps(u, Tracker!Escalated(u))
  BY <1>5, <1>6, EscalatedKeeps
<1>8. Tracker!Judged(t, b) \in {Tracker!Attended(p, near), Tracker!Escalated(u)}
  BY DEF Tracker!Judged, p, u, near
<1> QED BY <1>2, <1>4, <1>5, <1>7, <1>8, KeepsTransitive

LEMMA ShownKeeps ==
    ASSUME NEW t \in Tracker!ObjectTrack, NEW b \in Tracker!Blob
    PROVE  Keeps(t, Tracker!Shown(t, b))
<1> DEFINE touched == Tracker!Touched(t, b)
           back == Tracker!Reappeared(touched)
           known == Tracker!Confirmed(back, b)
<1>1. Keeps(t, touched)
  BY TouchedKeeps
<1>2. touched \in Tracker!ObjectTrack
  BY <1>1 DEF Keeps
<1> HIDE DEF touched
<1>3. Keeps(touched, back)
  BY <1>2, ReappearedKeeps
<1>4. back \in Tracker!ObjectTrack
  BY <1>3 DEF Keeps
<1> HIDE DEF back
<1>5. Keeps(back, known)
  BY <1>4, ConfirmedKeeps
<1>6. known \in Tracker!ObjectTrack
  BY <1>5 DEF Keeps
<1> HIDE DEF known
<1>7. Keeps(known, Tracker!Judged(known, b))
  BY <1>6, JudgedKeeps
<1>8. Tracker!Shown(t, b) \in {touched, known, Tracker!Judged(known, b)}
  BY DEF Tracker!Shown, touched, back, known
<1>9. Keeps(t, known)
  BY <1>1, <1>3, <1>5, KeepsTransitive
<1>10. Keeps(t, Tracker!Judged(known, b))
  BY <1>7, <1>9, KeepsTransitive
<1> QED BY <1>1, <1>8, <1>9, <1>10

LEMMA NewTrackTyped ==
    ASSUME NEW s \in {"CONFIRMING", "BACKGROUND"}
    PROVE  /\ Tracker!NewTrack(s) \in Tracker!ObjectTrack
           /\ ~Tracker!NewTrack(s).alerted
           /\ JustSeen(Tracker!NewTrack(s))
BY DurationAssumption, NoneAssumption
   DEF Tracker!NewTrack, Tracker!ObjectTrack, Tracker!TrackState, Tracker!Age, JustSeen

(* What the first loop makes of an object, known or new.                   *)
LEMMA ObserveKeeps ==
    ASSUME Types, NEW o \in Objects, NEW b \in Tracker!Blob
    PROVE  LET t == Tracker!Observe(o, b) IN
           /\ t \in Tracker!ObjectTrack
           /\ Tracker!Alerted(o) => t.alerted
           /\ DeferAbandonedEvent /\ t.alerted => Tracker!Alerted(o)
           /\ AbandonmentDwell > 0 /\ (o \in DOMAIN tracks => JustSeen(tracks[o])) => JustSeen(t)
<1>1. CASE o \in DOMAIN tracks
  <2>1. tracks[o] \in Tracker!ObjectTrack
    BY <1>1 DEF Types, Tracker!TypeOK
  <2>2. Tracker!Observe(o, b) = Tracker!Shown(tracks[o], b)
    BY <1>1 DEF Tracker!Observe
  <2> QED BY <1>1, <2>1, <2>2, ShownKeeps DEF Keeps, Tracker!Alerted
<1>2. CASE o \notin DOMAIN tracks /\ baseline
  BY <1>2, NewTrackTyped DEF Tracker!Observe, Tracker!Alerted
<1>3. CASE o \notin DOMAIN tracks /\ ~baseline
  <2>1. Tracker!Observe(o, b) = Tracker!Shown(Tracker!NewTrack("CONFIRMING"), b)
    BY <1>3 DEF Tracker!Observe
  <2> QED BY <1>3, <2>1, NewTrackTyped, ShownKeeps DEF Keeps, Tracker!Alerted
<1> QED BY <1>1, <1>2, <1>3

LEMMA MissedKeeps ==
    ASSUME NEW t \in Tracker!ObjectTrack, NEW g
    PROVE  LET m == Tracker!Missed(t, g) IN
           /\ m \in Tracker!ObjectTrack
           /\ m.alerted = t.alerted
           /\ JustSeen(t) => JustSeen(m)
<1> DEFINE m == Tracker!Missed(t, g)
<1>1. CASE ~Tracker!Overlapped(t, g)
  BY <1>1 DEF Tracker!Missed
<1>2. CASE Tracker!Overlapped(t, g)
  <2>1. m = [t EXCEPT !.state_before_pending_claim = t.state, !.state = "PENDING_CLAIM",
                      !.pending_claim_at = 0]
    BY <1>2 DEF Tracker!Missed
  <2>2. t.state \in Tracker!Claimable /\ 0 \in Tracker!Age
    BY <1>2, DurationAssumption DEF Tracker!Overlapped, Tracker!Age
  <2> HIDE DEF m
  <2>3. /\ m \in Tracker!ObjectTrack
        /\ m.alerted = t.alerted
        /\ m.state = "PENDING_CLAIM"
        /\ m.state_before_pending_claim = t.state
        /\ m.owner_left_at = t.owner_left_at
        /\ m.owner_absent_since = t.owner_absent_since
    BY <2>1, <2>2 DEF Tracker!ObjectTrack, Tracker!TrackState
  <2> QED BY <2>3 DEF JustSeen, m
<1> QED BY <1>1, <1>2

LEMMA AgedTyped ==
    ASSUME NEW t \in Tracker!ObjectTrack
    PROVE  Tracker!Aged(t) \in Tracker!ObjectTrack /\ Tracker!Aged(t).alerted = t.alerted
<1>1. \A a \in Tracker!Age : Tracker!Older(a) \in Tracker!Age
  BY DurationAssumption DEF Tracker!Age, Tracker!Older
<1>2. \A a \in Tracker!Age \cup {None} : Tracker!OlderOrNone(a) \in Tracker!Age \cup {None}
  BY <1>1 DEF Tracker!OlderOrNone
<1> QED BY <1>1, <1>2 DEF Tracker!Aged, Tracker!ObjectTrack

-----------------------------------------------------------------------------
(* The actions keep EngineInv *)

LEMMA EventTyped ==
    ASSUME NEW o \in Objects, NEW t,
           NEW type \in {"object_abandoned", "target_verification_requested",
                         "object_claimed", "object_removed"}
    PROVE  /\ Tracker!Event(type, o, t) \in Tracker!EventRecord
           /\ Tracker!Event(type, o, t).event_type = type
           /\ Tracker!Event(type, o, t).object_id = o
BY DEF Tracker!Event, Tracker!EventRecord

LEMMA NoSamplesTyped ==
    /\ Gate!NoSamples \in [positives : Nat, negatives : Nat]
    /\ Gate!NoSamples.positives = 0
BY DEF Gate!NoSamples

LEMMA InitEngine == Init => EngineInv
<1> SUFFICES ASSUME Init PROVE EngineInv
  OBVIOUS
<1>1. Types
  BY DurationAssumption, GateAssumption, NoSamplesTyped
     DEF Init, Tracker!Init, Gate!Init, Types, Tracker!TypeOK, Tracker!Age, NoTracks
<1>2. WalkSound /\ AlertsUnderWay
  BY DEF Init, Tracker!Init, WalkSound, AlertsUnderWay, Tracker!Alerted
<1>3. NothingCollected /\ GateFollowsTracker
  BY DEF Init, Tracker!Init, Gate!Init, NothingCollected, GateFollowsTracker
<1> QED BY <1>1, <1>2, <1>3 DEF EngineInv

LEMMA TickEngine == EngineInv /\ Tick => EngineInv'
<1> SUFFICES ASSUME EngineInv, Tick PROVE EngineInv'
  OBVIOUS
<1>1. /\ pc = "idle" /\ mq = "idle"
      /\ DOMAIN tracks' = DOMAIN tracks
      /\ \A o \in DOMAIN tracks : tracks'[o] = Tracker!Aged(tracks[o])
      /\ tracks' = [o \in DOMAIN tracks |-> Tracker!Aged(tracks[o])]
      /\ UNCHANGED <<pc, image, todo, copied, checked, roi_set, mq, filtering, retired, votes,
                     announced>>
      /\ samples' = samples
      /\ events' = {} /\ seen' = seen /\ baseline' \in {baseline, FALSE}
      /\ owner_by' = [o \in Objects |-> Tracker!Older(owner_by[o])]
  BY DEF Tick, Tracker!Tick, Gate!Tick, frameVars, roiVars, history
<1>2. \A o \in DOMAIN tracks : /\ tracks[o] \in Tracker!ObjectTrack
                               /\ tracks'[o] \in Tracker!ObjectTrack
                               /\ tracks'[o].alerted = tracks[o].alerted
  BY <1>1, AgedTyped DEF EngineInv, Types, Tracker!TypeOK
<1>3. owner_by' \in [Objects -> Tracker!Age]
  BY <1>1, DurationAssumption DEF EngineInv, Types, Tracker!TypeOK, Tracker!Age, Tracker!Older
<1>4. Types'
  <2>1. tracks' \in [DOMAIN tracks' -> Tracker!ObjectTrack]
    BY <1>1, <1>2
  <2> QED BY <1>1, <1>3, <2>1 DEF EngineInv, Types, Tracker!TypeOK
<1>5. WalkSound'
  BY <1>1 DEF EngineInv, WalkSound
<1>6. AlertsUnderWay'
  BY <1>1, <1>2 DEF EngineInv, AlertsUnderWay, Tracker!Alerted
<1>7. NothingCollected'
  BY <1>1 DEF NothingCollected
<1>8. GateFollowsTracker'
  BY <1>1 DEF EngineInv, GateFollowsTracker
<1> QED BY <1>4, <1>5, <1>6, <1>7, <1>8 DEF EngineInv

LEMMA StartFrameEngine == EngineInv /\ StartFrame => EngineInv'
BY DEF StartFrame, EngineInv, Types, Tracker!TypeOK, WalkSound, AlertsUnderWay, Tracker!Alerted,
       Opened, NothingCollected, GateFollowsTracker, gateVars, roiVars, history

LEMMA EndEarlyEngine == EngineInv /\ EndEarly => EngineInv'
BY DEF EndEarly, EngineInv, Types, Tracker!TypeOK, WalkSound, AlertsUnderWay, Tracker!Alerted,
       Opened, NothingCollected, BeforeUpdate, GateFollowsTracker, trackerVars, gateVars, roiVars,
       history

LEMMA SightEngine ==
    ASSUME EngineInv, NEW o \in Objects, NEW b \in Tracker!Blob, Sight(o, b)
    PROVE  EngineInv'
<1> DEFINE t == Tracker!Observe(o, b)
<1>1. t \in Tracker!ObjectTrack
  BY ObserveKeeps DEF EngineInv
<1>2. /\ pc = "sighted" /\ o \notin seen
      /\ tracks' = [p \in DOMAIN tracks \cup {o} |-> IF p = o THEN t ELSE tracks[p]]
      /\ events' = events \cup Raised(o, t)
      /\ seen' = seen \cup {o}
      /\ UNCHANGED <<baseline, samples, last_sample_at, pc, image, todo, copied, checked,
                     roi_set, mq, filtering, retired, votes, announced>>
  BY DEF Sight, gateVars, frameVars, roiVars, history
<1>3. owner_by' \in [Objects -> Tracker!Age]
  <2> DEFINE age == IF (t.owner_track_id # None /\ b.distance[t.owner_track_id] = "near")
                       \/ ~(o \in DOMAIN tracks) THEN 0 ELSE owner_by[o]
  <2>1. owner_by' = [owner_by EXCEPT ![o] = age]
    BY DEF Sight
  <2>2. age \in Tracker!Age /\ owner_by \in [Objects -> Tracker!Age]
    BY DurationAssumption DEF EngineInv, Types, Tracker!TypeOK, Tracker!Age
  <2> HIDE DEF age
  <2> QED BY <2>1, <2>2
<1> HIDE DEF t
<1>4. /\ DOMAIN tracks' = DOMAIN tracks \cup {o}
      /\ tracks'[o] = t
      /\ \A p \in DOMAIN tracks : p # o => tracks'[p] = tracks[p]
  BY <1>2
<1>5. /\ Raised(o, t) \subseteq Tracker!EventRecord
      /\ t.alerted /\ ~Tracker!Alerted(o) =>
            \E e \in Raised(o, t) : e.event_type = "object_abandoned" /\ e.object_id = o
  BY EventTyped DEF Raised, Tracker!Alerted
<1>6. Types'
  <2>1. tracks' \in [DOMAIN tracks' -> Tracker!ObjectTrack]
    BY <1>1, <1>2, <1>4 DEF EngineInv, Types, Tracker!TypeOK
  <2>2. DOMAIN tracks' \subseteq Objects /\ seen' \subseteq Objects
    BY <1>2, <1>4 DEF EngineInv, Types, Tracker!TypeOK
  <2>3. events' \subseteq Tracker!EventRecord
    BY <1>2, <1>5 DEF EngineInv, Types, Tracker!TypeOK
  <2> QED BY <1>2, <1>3, <2>1, <2>2, <2>3 DEF EngineInv, Types, Tracker!TypeOK
<1>7. WalkSound'
  BY <1>2 DEF EngineInv, WalkSound
<1>8. AlertsUnderWay'
  <2> SUFFICES ASSUME NEW p \in Objects, Tracker!Alerted(p)'
               PROVE  p \in announced \/ p \in Opened'
    BY <1>2 DEF AlertsUnderWay
  <2>1. Opened \subseteq Opened'
    BY <1>2 DEF Opened
  <2>2. CASE p # o \/ Tracker!Alerted(o)
    <3>1. Tracker!Alerted(p)
      BY <1>4, <2>2 DEF Tracker!Alerted
    <3> QED BY <2>1, <3>1 DEF EngineInv, AlertsUnderWay
  <2>3. CASE p = o /\ ~Tracker!Alerted(o)
    BY <1>2, <1>4, <1>5, <2>3 DEF Tracker!Alerted, Opened
  <2> QED BY <2>2, <2>3
<1>9. NothingCollected'
  BY <1>2 DEF NothingCollected, BeforeUpdate
<1>10. GateFollowsTracker'
  BY <1>2, <1>4 DEF EngineInv, GateFollowsTracker
<1> QED BY <1>6, <1>7, <1>8, <1>9, <1>10 DEF EngineInv

LEMMA CopyTracksEngine == EngineInv /\ CopyTracks => EngineInv'
<1> SUFFICES ASSUME EngineInv, CopyTracks PROVE EngineInv'
  OBVIOUS
<1>1. /\ pc = "sighted" /\ pc' = "missing"
      /\ copied' = [o \in DOMAIN tracks \ seen |-> tracks[o]]
      /\ UNCHANGED <<tracks, events, seen, baseline, owner_by, samples, last_sample_at, image, todo,
                     checked, roi_set, mq, filtering, retired, votes, announced>>
  BY DEF CopyTracks, trackerVars, gateVars, roiVars, history
<1>2. Types'
  BY <1>1 DEF EngineInv, Types, Tracker!TypeOK
<1>3. WalkSound'
  BY <1>1 DEF EngineInv, WalkSound
<1>4. AlertsUnderWay'
  BY <1>1 DEF EngineInv, AlertsUnderWay, Tracker!Alerted, Opened
<1>5. NothingCollected' /\ GateFollowsTracker'
  BY <1>1 DEF EngineInv, NothingCollected, BeforeUpdate, GateFollowsTracker
<1> QED BY <1>2, <1>3, <1>4, <1>5 DEF EngineInv

(* A frame that is given up finds nothing left to report.                  *)
LEMMA AbortEngine ==
    ASSUME EngineInv, Abort, DOMAIN tracks = {},
           \A o \in Objects : samples[o] # Gate!NoSamples => o \in retired,
           UNCHANGED <<tracks, seen, baseline, owner_by, gateVars, roiVars, history>>
    PROVE  EngineInv'
<1>1. /\ pc' = "idle" /\ events' = {} /\ checked' = None
      /\ DOMAIN copied' = {}
      /\ DOMAIN tracks' = {}
      /\ UNCHANGED <<tracks, seen, baseline, owner_by, samples, mq, retired, votes, announced>>
  BY DEF Abort, NoTracks, gateVars, roiVars, history
<1>2. Types'
  BY <1>1 DEF EngineInv, Types, Tracker!TypeOK
<1>3. WalkSound' /\ AlertsUnderWay' /\ NothingCollected' /\ GateFollowsTracker'
  BY <1>1 DEF WalkSound, AlertsUnderWay, Tracker!Alerted, NothingCollected, GateFollowsTracker
<1> QED BY <1>2, <1>3 DEF EngineInv

LEMMA LeaveEngine ==
    ASSUME EngineInv, NEW o \in Objects, o \in DOMAIN copied, NEW g \in Tracker!Gap, Leave(o, g)
    PROVE  EngineInv'
<1>1. /\ pc = "missing"
      /\ UNCHANGED <<seen, baseline, owner_by, gateVars, image, roiVars>>
  BY DEF Leave
<1>2. CASE o \notin DOMAIN tracks
  <2>1. Abort /\ UNCHANGED <<tracks, history>>
    BY <1>2 DEF Leave
  <2>2. DOMAIN tracks = {}
    BY <1>1, <1>2 DEF EngineInv, WalkSound
  <2>3. \A p \in Objects : samples[p] # Gate!NoSamples => p \in retired
    BY <1>1, <1>2 DEF EngineInv, GateFollowsTracker
  <2> QED BY <1>1, <2>1, <2>2, <2>3, AbortEngine
<1>3. CASE o \in DOMAIN tracks
  <2> DEFINE ends == ClosingOf(IF Tracker!PickedUp(copied[o]) THEN "object_claimed"
                                                            ELSE "object_removed", o, copied[o])
  <2>1. /\ tracks' = [p \in DOMAIN tracks \ {o} |-> tracks[p]]
        /\ events' = events \cup ends
        /\ copied' = [p \in DOMAIN copied \ {o} |-> copied[p]]
        /\ votes' = [votes EXCEPT ![o] = 0]
        /\ announced' = announced \ {o}
        /\ UNCHANGED <<pc, todo, checked>>
    BY <1>3 DEF Leave, Without
  <2>2. ends \subseteq Tracker!EventRecord
    BY EventTyped DEF ClosingOf
  <2> HIDE DEF ends
  <2>3. UNCHANGED <<samples, mq, retired>>
    BY <1>1 DEF gateVars, roiVars
  <2>4. Types'
    <3>1. votes' \in [Objects -> 0..Confirmations]
      BY <2>1, GateAssumption DEF EngineInv, Types
    <3> QED BY <1>1, <2>1, <2>2, <2>3, <3>1 DEF EngineInv, Types, Tracker!TypeOK
  <2>5. WalkSound'
    BY <1>1, <1>3, <2>1 DEF EngineInv, WalkSound
  <2>6. AlertsUnderWay'
    BY <1>1, <2>1 DEF EngineInv, AlertsUnderWay, Tracker!Alerted, Opened
  <2>7. DOMAIN copied \subseteq DOMAIN tracks
    BY <1>1, <1>3 DEF EngineInv, WalkSound
  <2>8. NothingCollected' /\ GateFollowsTracker'
    BY <1>1, <2>1, <2>7 DEF NothingCollected, BeforeUpdate, GateFollowsTracker
  <2> QED BY <2>4, <2>5, <2>6, <2>8 DEF EngineInv
<1> QED BY <1>2, <1>3

LEMMA StayEngine ==
    ASSUME EngineInv, NEW o \in Objects, o \in DOMAIN copied, NEW g \in Tracker!Gap, Stay(o, g)
    PROVE  EngineInv'
<1>1. /\ pc = "missing"
      /\ copied' = [p \in DOMAIN copied \ {o} |-> copied[p]]
      /\ UNCHANGED <<events, seen, baseline, owner_by, samples, pc, checked, mq, retired, votes,
                     announced>>
  BY DEF Stay, gateVars, roiVars, history
<1>2. CASE o \notin DOMAIN tracks
  <2>1. tracks' = tracks
    BY <1>2 DEF Stay
  <2>2. DOMAIN tracks = {}
    BY <1>1, <1>2 DEF EngineInv, WalkSound
  <2>3. Types'
    BY <1>1, <2>1 DEF EngineInv, Types, Tracker!TypeOK
  <2>4. WalkSound' /\ AlertsUnderWay'
    BY <1>1, <2>1, <2>2 DEF EngineInv, WalkSound, AlertsUnderWay, Tracker!Alerted
  <2>5. NothingCollected' /\ GateFollowsTracker'
    BY <1>1, <1>2, <2>1 DEF EngineInv, NothingCollected, BeforeUpdate, GateFollowsTracker
  <2> QED BY <2>3, <2>4, <2>5 DEF EngineInv
<1>3. CASE o \in DOMAIN tracks
  <2> DEFINE m == Tracker!Missed(copied[o], g)
  <2>1. copied[o] = tracks[o] /\ DOMAIN copied \subseteq DOMAIN tracks
    BY <1>1, <1>3 DEF EngineInv, WalkSound
  <2>2. m \in Tracker!ObjectTrack /\ m.alerted = tracks[o].alerted
    BY <1>3, <2>1, MissedKeeps DEF EngineInv, Types, Tracker!TypeOK
  <2>3. tracks' = [tracks EXCEPT ![o] = m]
    BY <1>3 DEF Stay
  <2> HIDE DEF m
  <2>4. /\ DOMAIN tracks' = DOMAIN tracks
        /\ tracks'[o] = m
        /\ \A p \in DOMAIN tracks : p # o => tracks'[p] = tracks[p]
    BY <1>3, <2>3
  <2>5. Types'
    BY <1>1, <2>2, <2>3 DEF EngineInv, Types, Tracker!TypeOK
  <2>6. WalkSound'
    BY <1>1, <1>3, <2>4 DEF EngineInv, WalkSound
  <2>7. AlertsUnderWay'
    BY <1>1, <2>2, <2>4 DEF EngineInv, AlertsUnderWay, Tracker!Alerted, Opened
  <2>8. NothingCollected' /\ GateFollowsTracker'
    BY <1>1, <2>1, <2>4 DEF EngineInv, NothingCollected, BeforeUpdate, GateFollowsTracker
  <2> QED BY <2>5, <2>6, <2>7, <2>8 DEF EngineInv
<1> QED BY <1>2, <1>3

LEMMA FinishUpdateEngine == EngineInv /\ FinishUpdate => EngineInv'
BY DEF FinishUpdate, EngineInv, Types, Tracker!TypeOK, WalkSound, AlertsUnderWay, Tracker!Alerted,
       Opened, NothingCollected, BeforeUpdate, GateFollowsTracker, trackerVars, gateVars, roiVars, history

LEMMA CountedTyped ==
    ASSUME NEW s \in [positives : Nat, negatives : Nat], NEW prediction
    PROVE  /\ Gate!Counted(s, prediction) \in [positives : Nat, negatives : Nat]
           /\ Gate!Counted(s, prediction).positives
                = IF prediction = TRUE THEN s.positives + 1 ELSE s.positives
<1>1. CASE prediction = TRUE
  BY <1>1 DEF Gate!Counted
<1>2. CASE prediction # TRUE /\ prediction = FALSE
  <2>1. Gate!Counted(s, prediction) = [s EXCEPT !.negatives = s.negatives + 1]
    BY <1>2 DEF Gate!Counted
  <2> QED BY <1>2, <2>1
<1>3. CASE prediction # TRUE /\ prediction # FALSE
  BY <1>3 DEF Gate!Counted
<1> QED BY <1>1, <1>2, <1>3

(* The three outcomes of evaluate, as the engine's variables see them.     *)
LEMMA EvaluateEffect ==
    ASSUME Types, NEW o \in Objects, NEW prediction \in {TRUE, FALSE, None},
           Evaluate(o, prediction)
    PROVE  /\ pc = "gate" /\ o \in todo
           /\ UNCHANGED <<seen, baseline, owner_by, pc, image, copied, checked, roi_set, mq,
                          filtering, retired, announced>>
           /\ samples' \in [Objects -> [positives : Nat, negatives : Nat]]
           /\ votes' \in [Objects -> 0..Confirmations]
           /\ DOMAIN tracks' = DOMAIN tracks
           /\ tracks' \in [DOMAIN tracks -> Tracker!ObjectTrack]
           /\ events' \subseteq Tracker!EventRecord
           /\ \A p \in DOMAIN tracks : tracks[p].alerted => tracks'[p].alerted
           /\ Opened \subseteq Opened'
           /\ \A p \in DOMAIN tracks : tracks'[p].alerted /\ ~tracks[p].alerted =>
                 p = o /\ p \in Opened' /\ Gate!Decision(o, image, prediction) = "accept"
           /\ Requests' \subseteq Requests
           /\ tracks' # tracks => o \in DOMAIN tracks /\ \E e \in Requests : e.object_id = o
<1> DEFINE decision == Gate!Decision(o, image, prediction)
<1>1. /\ pc = "gate" /\ o \in todo
      /\ UNCHANGED <<pc, image, copied, checked, roiVars, announced>>
      /\ \/ decision = "accept" /\ Tracker!ConfirmAbandoned(o) /\ Gate!Forget(o)
         \/ decision = "reject" /\ Tracker!RejectTarget(o) /\ Gate!Forget(o)
         \/ decision = "pending" /\ Gate!Record(o, image, prediction) /\ UNCHANGED trackerVars
  BY DEF Evaluate
<1>2. votes' \in [Objects -> 0..Confirmations]
  BY GateAssumption DEF Evaluate, Types
<1> HIDE DEF decision
<1>3. samples' \in [Objects -> [positives : Nat, negatives : Nat]]
  <2>1. CASE Gate!Forget(o)
    BY <2>1, NoSamplesTyped DEF Gate!Forget, Types
  <2>2. CASE Gate!Record(o, image, prediction)
    <3> DEFINE s == Gate!Counted(samples[o], prediction)
    <3>1. s \in [positives : Nat, negatives : Nat]
      BY CountedTyped DEF Types
    <3>2. samples' \in {samples, [samples EXCEPT ![o] = s]}
      BY <2>2 DEF Gate!Record, Gate!vars
    <3> HIDE DEF s
    <3> QED BY <3>1, <3>2 DEF Types
  <2> QED BY <1>1, <2>1, <2>2
<1>4. Tracker!Requested(o) => \E e \in Requests : e.object_id = o
  BY DEF Tracker!Requested, Requests
<1>5. CASE decision = "accept" /\ Tracker!ConfirmAbandoned(o)
  <2>1. CASE o \in DOMAIN tracks /\ ~tracks[o].alerted
    <3> DEFINE e == Tracker!Event("object_abandoned", o, tracks'[o])
    <3>1. /\ tracks' = [tracks EXCEPT ![o] = Tracker!Confirm(tracks[o])]
          /\ events' = (events \ Tracker!RequestOf(o)) \cup {e}
          /\ UNCHANGED <<seen, baseline, owner_by>>
      BY <1>5, <2>1 DEF Tracker!ConfirmAbandoned
    <3>2. tracks[o] \in Tracker!ObjectTrack
      BY <2>1 DEF Types, Tracker!TypeOK
    <3>3. /\ e \in Tracker!EventRecord
          /\ e.event_type = "object_abandoned"
          /\ e.object_id = o
      BY EventTyped
    <3> HIDE DEF e
    <3>4. /\ Tracker!Confirm(tracks[o]) \in Tracker!ObjectTrack
          /\ Tracker!Confirm(tracks[o]).alerted
      BY <3>2, ConfirmTyped
    <3>5. /\ DOMAIN tracks' = DOMAIN tracks
          /\ tracks'[o].alerted
          /\ \A p \in DOMAIN tracks : p # o => tracks'[p] = tracks[p]
          /\ tracks' \in [DOMAIN tracks -> Tracker!ObjectTrack]
      BY <2>1, <3>1, <3>4 DEF Types, Tracker!TypeOK
    <3>6. Opened \subseteq Opened' /\ o \in Opened' /\ Requests' \subseteq Requests
      BY <3>1, <3>3 DEF Opened, Requests, Tracker!RequestOf
    <3>7. events' \subseteq Tracker!EventRecord
      BY <3>1, <3>3 DEF Types, Tracker!TypeOK
    <3>8. \E f \in Requests : f.object_id = o
      BY <1>4, <1>5 DEF Tracker!ConfirmAbandoned
    <3> QED BY <1>1, <1>2, <1>3, <1>5, <2>1, <3>1, <3>5, <3>6, <3>7, <3>8 DEF roiVars, decision
  <2>2. CASE ~(o \in DOMAIN tracks /\ ~tracks[o].alerted)
    <3>1. /\ tracks' = tracks /\ events' = events \ Tracker!RequestOf(o)
          /\ UNCHANGED <<seen, baseline, owner_by>>
      BY <1>5, <2>2 DEF Tracker!ConfirmAbandoned
    <3>2. Opened \subseteq Opened' /\ Requests' \subseteq Requests
      BY <3>1 DEF Opened, Requests, Tracker!RequestOf
    <3> QED BY <1>1, <1>2, <1>3, <3>1, <3>2 DEF roiVars, Types, Tracker!TypeOK
  <2> QED BY <2>1, <2>2
<1>6. CASE Tracker!RejectTarget(o)
  <2>1. /\ events' = events \ Tracker!RequestOf(o)
        /\ UNCHANGED <<seen, baseline, owner_by>>
        /\ tracks' = IF o \in DOMAIN tracks /\ ~tracks[o].alerted
                     THEN [tracks EXCEPT ![o].state = "IGNORED"] ELSE tracks
    BY <1>6 DEF Tracker!RejectTarget
  <2>2. Opened \subseteq Opened' /\ Requests' \subseteq Requests
    BY <2>1 DEF Opened, Requests, Tracker!RequestOf
  <2>3. /\ DOMAIN tracks' = DOMAIN tracks
        /\ tracks' \in [DOMAIN tracks -> Tracker!ObjectTrack]
        /\ \A p \in DOMAIN tracks : tracks'[p].alerted = tracks[p].alerted
    <3>1. tracks \in [DOMAIN tracks -> Tracker!ObjectTrack]
      BY DEF Types, Tracker!TypeOK
    <3>2. CASE o \in DOMAIN tracks /\ ~tracks[o].alerted
      <4> DEFINE i == [tracks[o] EXCEPT !.state = "IGNORED"]
      <4>1. tracks' = [tracks EXCEPT ![o] = i]
        BY <2>1, <3>2
      <4>2. i \in Tracker!ObjectTrack /\ i.alerted = tracks[o].alerted
        BY <3>1, <3>2 DEF Tracker!ObjectTrack, Tracker!TrackState
      <4> HIDE DEF i
      <4> QED BY <3>1, <3>2, <4>1, <4>2
    <3>3. CASE ~(o \in DOMAIN tracks /\ ~tracks[o].alerted)
      <4>1. tracks' = tracks
        BY <2>1, <3>3
      <4> QED BY <3>1, <4>1
    <3> QED BY <3>2, <3>3
  <2>4. tracks' # tracks => o \in DOMAIN tracks /\ \E e \in Requests : e.object_id = o
    BY <1>4, <1>6, <2>1 DEF Tracker!RejectTarget
  <2> QED BY <1>1, <1>2, <1>3, <2>1, <2>2, <2>3, <2>4 DEF roiVars, Types, Tracker!TypeOK
<1>7. CASE UNCHANGED trackerVars
  BY <1>1, <1>2, <1>3, <1>7 DEF roiVars, trackerVars, Types, Tracker!TypeOK, Opened, Requests
<1> QED BY <1>1, <1>5, <1>6, <1>7

LEMMA EvaluateEngine ==
    ASSUME EngineInv, NEW o \in Objects, NEW prediction \in {TRUE, FALSE, None},
           Evaluate(o, prediction)
    PROVE  EngineInv'
<1>1. Types
  BY DEF EngineInv
<1>2. /\ pc = "gate" /\ pc' = pc /\ checked' = checked /\ announced' = announced /\ mq' = mq
      /\ UNCHANGED <<seen, baseline, owner_by, copied, retired>>
      /\ DOMAIN tracks' = DOMAIN tracks
      /\ samples' \in [Objects -> [positives : Nat, negatives : Nat]]
      /\ votes' \in [Objects -> 0..Confirmations]
      /\ tracks' \in [DOMAIN tracks -> Tracker!ObjectTrack]
      /\ events' \subseteq Tracker!EventRecord
      /\ Opened \subseteq Opened'
      /\ \A p \in DOMAIN tracks : tracks'[p].alerted /\ ~tracks[p].alerted => p \in Opened'
  BY <1>1, EvaluateEffect
<1>3. Types'
  BY <1>2 DEF EngineInv, Types, Tracker!TypeOK
<1>4. WalkSound'
  BY <1>2 DEF EngineInv, WalkSound
<1>5. AlertsUnderWay'
  BY <1>2 DEF EngineInv, AlertsUnderWay, Tracker!Alerted
<1>6. NothingCollected' /\ GateFollowsTracker'
  BY <1>2 DEF NothingCollected, BeforeUpdate, GateFollowsTracker
<1> QED BY <1>3, <1>4, <1>5, <1>6 DEF EngineInv

LEMMA FinishFrameEngine == EngineInv /\ FinishFrame => EngineInv'
<1> SUFFICES ASSUME EngineInv, FinishFrame PROVE EngineInv'
  OBVIOUS
<1>1. /\ pc = "gate" /\ pc' = "publish"
      /\ UNCHANGED <<tracks, events, seen, baseline, owner_by, copied, checked, mq, votes, announced>>
      /\ samples' = [o \in Objects |->
                       IF samples[o] # Gate!NoSamples /\ o \notin DOMAIN tracks
                       THEN Gate!NoSamples ELSE samples[o]]
  BY DEF FinishFrame, Gate!Retain, trackerVars, roiVars, history
<1>2. Types'
  BY <1>1, NoSamplesTyped DEF EngineInv, Types, Tracker!TypeOK
<1>3. WalkSound' /\ AlertsUnderWay'
  BY <1>1 DEF EngineInv, WalkSound, AlertsUnderWay, Tracker!Alerted, Opened
<1>4. NothingCollected' /\ GateFollowsTracker'
  BY <1>1 DEF NothingCollected, BeforeUpdate, GateFollowsTracker
<1> QED BY <1>2, <1>3, <1>4 DEF EngineInv

LEMMA PassOverEngine ==
    ASSUME EngineInv, NEW o \in Objects, PassOver(o)
    PROVE  EngineInv'
BY DEF PassOver, EngineInv, Types, Tracker!TypeOK, WalkSound, AlertsUnderWay, Tracker!Alerted,
       Opened, NothingCollected, BeforeUpdate, GateFollowsTracker, trackerVars, gateVars, roiVars, history

LEMMA CheckTrackEngine ==
    ASSUME EngineInv, NEW o \in Objects, CheckTrack(o)
    PROVE  EngineInv'
BY DEF CheckTrack, EngineInv, Types, Tracker!TypeOK, WalkSound, AlertsUnderWay, Tracker!Alerted,
       Opened, NothingCollected, BeforeUpdate, GateFollowsTracker, trackerVars, gateVars, roiVars, history

LEMMA ReadTrackEngine == EngineInv /\ ReadTrack => EngineInv'
<1> SUFFICES ASSUME EngineInv, ReadTrack PROVE EngineInv'
  OBVIOUS
<1>1. /\ pc = "publish" /\ checked # None
      /\ UNCHANGED <<tracks, seen, baseline, owner_by, gateVars, image, roiVars, history>>
  BY DEF ReadTrack
<1>2. CASE checked \in DOMAIN tracks
  <2>1. checked' = None /\ UNCHANGED <<events, pc, todo, copied>>
    BY <1>2 DEF ReadTrack
  <2> QED BY <1>1, <2>1
          DEF EngineInv, Types, Tracker!TypeOK, WalkSound, AlertsUnderWay, Tracker!Alerted, Opened,
              NothingCollected, BeforeUpdate, GateFollowsTracker, gateVars, roiVars, history
<1>3. CASE checked \notin DOMAIN tracks
  <2>1. Abort /\ DOMAIN tracks = {}
    BY <1>1, <1>3 DEF ReadTrack, EngineInv, WalkSound
  <2>2. \A o \in Objects : samples[o] # Gate!NoSamples => o \in retired
    BY <1>1, <2>1 DEF EngineInv, GateFollowsTracker
  <2> QED BY <1>1, <2>1, <2>2, AbortEngine
<1> QED BY <1>2, <1>3

LEMMA PublishEngine == EngineInv /\ Publish => EngineInv'
BY DEF Publish, EngineInv, Types, Tracker!TypeOK, WalkSound, AlertsUnderWay, Tracker!Alerted,
       Opened, NothingCollected, BeforeUpdate, GateFollowsTracker, trackerVars, gateVars, roiVars, history

LEMMA ReplaceRoiEngine ==
    ASSUME EngineInv, NEW nonempty \in BOOLEAN, ReplaceRoi(nonempty)
    PROVE  EngineInv'
BY DEF ReplaceRoi, EngineInv, Types, Tracker!TypeOK, WalkSound, AlertsUnderWay, Tracker!Alerted,
       Opened, NothingCollected, BeforeUpdate, GateFollowsTracker, trackerVars, gateVars, frameVars, history

LEMMA FilterTracksEngine == EngineInv /\ FilterTracks => EngineInv'
BY DEF FilterTracks, EngineInv, Types, Tracker!TypeOK, WalkSound, AlertsUnderWay, Tracker!Alerted,
       Opened, NothingCollected, BeforeUpdate, GateFollowsTracker, trackerVars, gateVars, frameVars, history

LEMMA ClearTracksEngine == EngineInv /\ ClearTracks => EngineInv'
<1> SUFFICES ASSUME EngineInv, ClearTracks PROVE EngineInv'
  OBVIOUS
<1>1. /\ mq' = "clear_gate"
      /\ tracks' = [o \in {} |-> Tracker!NewTrack("CONFIRMING")]
      /\ votes' = [o \in Objects |-> 0]
      /\ announced' = {}
      /\ \A o \in Objects : samples[o] # Gate!NoSamples => o \in retired'
      /\ UNCHANGED <<events, seen, baseline, owner_by, samples, pc, copied, checked>>
  BY DEF ClearTracks, Tracker!ClearCamera, Known, gateVars, frameVars
<1>2. DOMAIN tracks' = {}
  BY <1>1
<1>3. Types'
  <2>1. tracks' \in [DOMAIN tracks' -> Tracker!ObjectTrack] /\ DOMAIN tracks' \subseteq Objects
    BY <1>1, <1>2
  <2> QED BY <1>1, <2>1, GateAssumption DEF EngineInv, Types, Tracker!TypeOK
<1>4. WalkSound'
  BY <1>1, <1>2 DEF EngineInv, WalkSound
<1>5. NothingCollected'
  BY <1>1 DEF EngineInv, NothingCollected, BeforeUpdate
<1>6. AlertsUnderWay' /\ GateFollowsTracker'
  BY <1>1, <1>2 DEF AlertsUnderWay, Tracker!Alerted, GateFollowsTracker
<1> QED BY <1>3, <1>4, <1>5, <1>6 DEF EngineInv

LEMMA FilterFailsEngine == EngineInv /\ FilterFails => EngineInv'
BY DEF FilterFails, EngineInv, Types, Tracker!TypeOK, WalkSound, AlertsUnderWay, Tracker!Alerted,
       Opened, NothingCollected, BeforeUpdate, GateFollowsTracker, trackerVars, gateVars, frameVars, history

LEMMA ClearFailsEngine == EngineInv /\ ClearFails => EngineInv'
BY DEF ClearFails, EngineInv, Types, Tracker!TypeOK, WalkSound, AlertsUnderWay, Tracker!Alerted,
       Opened, NothingCollected, BeforeUpdate, GateFollowsTracker, trackerVars, gateVars,
       frameVars, history

LEMMA ClearGateEngine == EngineInv /\ ClearGate => EngineInv'
<1> SUFFICES ASSUME EngineInv, ClearGate PROVE EngineInv'
  OBVIOUS
<1>1. /\ mq' = "idle"
      /\ samples' = [o \in Objects |-> Gate!NoSamples]
      /\ UNCHANGED <<tracks, events, seen, baseline, owner_by, pc, copied, checked, votes, announced>>
  BY DEF ClearGate, Gate!Clear, trackerVars, frameVars, history
<1>2. Types'
  BY <1>1, NoSamplesTyped DEF EngineInv, Types, Tracker!TypeOK
<1>3. WalkSound' /\ AlertsUnderWay'
  BY <1>1 DEF EngineInv, WalkSound, AlertsUnderWay, Tracker!Alerted, Opened
<1>4. NothingCollected' /\ GateFollowsTracker'
  BY <1>1 DEF EngineInv, NothingCollected, BeforeUpdate, GateFollowsTracker
<1> QED BY <1>2, <1>3, <1>4 DEF EngineInv

LEMMA StutterEngine == EngineInv /\ UNCHANGED vars => EngineInv'
BY DEF vars, EngineInv, Types, Tracker!TypeOK, WalkSound, AlertsUnderWay, Tracker!Alerted,
       Opened, NothingCollected, BeforeUpdate, GateFollowsTracker, trackerVars, gateVars, frameVars, roiVars, history

LEMMA StepEngine == EngineInv /\ [Next]_vars => EngineInv'
<1> SUFFICES ASSUME EngineInv, [Next]_vars PROVE EngineInv'
  OBVIOUS
<1>1. CASE Tick \/ StartFrame
  BY <1>1, TickEngine, StartFrameEngine
<1>2. CASE Update
  BY <1>2, SightEngine, LeaveEngine, StayEngine, EndEarlyEngine, CopyTracksEngine DEF Update
<1>3. CASE Verify
  BY <1>3, FinishUpdateEngine, EvaluateEngine, FinishFrameEngine DEF Verify
<1>4. CASE HandleFrame
  BY <1>4, PassOverEngine, CheckTrackEngine, ReadTrackEngine, PublishEngine DEF HandleFrame
<1>5. CASE UpdateRoi
  BY <1>5, ReplaceRoiEngine, FilterTracksEngine, ClearTracksEngine, FilterFailsEngine,
     ClearFailsEngine, ClearGateEngine DEF UpdateRoi
<1>6. CASE UNCHANGED vars
  BY <1>6, StutterEngine
<1> QED BY <1>1, <1>2, <1>3, <1>4, <1>5, <1>6 DEF Next

(* At every step of a frame and of an ROI update, what the walk has read,  *)
(* the alerts on their way and the gate's samples agree with the tracker.  *)
THEOREM EngineInvariance == Spec => []EngineInv
BY InitEngine, StepEngine, PTL DEF Spec

(* Between frames and ROI updates, the gate has samples of tracks that are *)
(* still there, and beside them only of ids the latest update_roi has taken*)
(* away and then failed to clear: retain, forget and clear reach all others*)
(* whatever the frames and the updates do to each other.                   *)
THEOREM GateSamples == Spec => []SamplesBelongToTracks
<1>1. EngineInv => SamplesBelongToTracks
  BY DEF EngineInv, GateFollowsTracker, SamplesBelongToTracks
<1> QED BY <1>1, EngineInvariance, PTL

(* When no frame is under way, every alerted object has had its            *)
(* object_abandoned handed out by the engine.                              *)
THEOREM AlertsAreHandedOut == Spec => []AlertedIsAnnounced
<1>1. EngineInv => AlertedIsAnnounced
  BY DEF EngineInv, AlertsUnderWay, AlertedIsAnnounced
<1> QED BY <1>1, EngineInvariance, PTL

-----------------------------------------------------------------------------
(* With a gate, an alert needs its consensus *)

ConsensusStep ==
    \A o \in Objects : ~Tracker!Alerted(o) /\ Tracker!Alerted(o)' => votes'[o] >= Confirmations

(* A step that leaves the tracks, the votes and the samples alone.         *)
LEMMA QuietVotes ==
    ASSUME VotesCount, UNCHANGED <<tracks, votes, samples, retired>>,
           Requests' \subseteq Requests, \A e \in Requests' : e.object_id \in seen',
           mq' = "clear_gate" <=> mq = "clear_gate"
    PROVE  VotesCount' /\ ConsensusStep
<1>1. VotesCount'
  BY DEF VotesCount, Backed
<1>2. ConsensusStep
  BY DEF ConsensusStep, Tracker!Alerted
<1> QED BY <1>1, <1>2

LEMMA TickVotes == EngineInv /\ VotesCount /\ Tick => VotesCount' /\ ConsensusStep
<1> SUFFICES ASSUME EngineInv, VotesCount, Tick PROVE VotesCount' /\ ConsensusStep
  OBVIOUS
<1>1. /\ mq = "idle" /\ mq' = mq
      /\ DOMAIN tracks' = DOMAIN tracks
      /\ \A o \in DOMAIN tracks : tracks'[o] = Tracker!Aged(tracks[o])
      /\ UNCHANGED <<votes, samples, retired>>
      /\ events' = {}
  BY DEF Tick, Tracker!Tick, Gate!Tick, frameVars, roiVars, history
<1>2. \A o \in DOMAIN tracks : tracks'[o].alerted = tracks[o].alerted
  BY <1>1, AgedTyped DEF EngineInv, Types, Tracker!TypeOK
<1>3. VotesCount'
  BY <1>1 DEF VotesCount, Backed, Requests
<1>4. ConsensusStep
  BY <1>1, <1>2 DEF ConsensusStep, Tracker!Alerted
<1> QED BY <1>3, <1>4

LEMMA SightVotes ==
    ASSUME EngineInv, VotesCount, DeferAbandonedEvent, AbandonmentDwell > 0,
           NEW o \in Objects, NEW b \in Tracker!Blob, Sight(o, b)
    PROVE  VotesCount' /\ ConsensusStep
<1> DEFINE t == Tracker!Observe(o, b)
<1>1. /\ pc = "sighted" /\ o \notin seen
      /\ tracks' = [p \in DOMAIN tracks \cup {o} |-> IF p = o THEN t ELSE tracks[p]]
      /\ events' = events \cup Raised(o, t)
      /\ seen' = seen \cup {o}
      /\ o \in retired => mq = "clear_gate"
      /\ UNCHANGED <<samples, mq, retired, votes>>
  BY DEF Sight, gateVars, roiVars, history
<1>2. /\ t.alerted => Tracker!Alerted(o)
      /\ (o \in DOMAIN tracks => JustSeen(tracks[o])) => JustSeen(t)
  BY ObserveKeeps DEF EngineInv
<1>3. \A e \in Raised(o, t) : /\ e.object_id = o
                              /\ e.event_type = "target_verification_requested"
                                    => t.state = "AWAITING_TARGET"
  BY EventTyped DEF Raised
<1> HIDE DEF t
<1>4. /\ DOMAIN tracks' = DOMAIN tracks \cup {o}
      /\ tracks'[o] = t
      /\ \A p \in DOMAIN tracks : p # o => tracks'[p] = tracks[p]
  BY <1>1
<1>5. \A e \in Requests' : e \in Requests \/ (e.object_id = o /\ t.state = "AWAITING_TARGET")
  BY <1>1, <1>3 DEF Requests
<1>6. \A e \in Requests' : e.object_id \in seen'
  BY <1>1, <1>5 DEF VotesCount
<1>7. \A p \in DOMAIN tracks' : Backed(p)' \/ p \in retired'
  <2>1. ASSUME o \notin DOMAIN tracks, o \notin retired PROVE Backed(o)
    <3>1. samples[o] = Gate!NoSamples
      BY <1>1, <2>1 DEF EngineInv, GateFollowsTracker
    <3> QED BY <3>1, NoSamplesTyped, GateAssumption DEF Backed, EngineInv, Types
  <2> QED BY <1>1, <1>4, <2>1 DEF VotesCount, Backed
<1>8. ASSUME mq = "clear_gate"
      PROVE  /\ \A p \in DOMAIN tracks' : JustSeen(tracks'[p])
             /\ \A e \in Requests' : e.object_id \notin DOMAIN tracks'
  <2>1. JustSeen(t)
    BY <1>2, <1>8 DEF VotesCount
  <2>2. \A p \in DOMAIN tracks' : JustSeen(tracks'[p])
    BY <1>4, <1>8, <2>1 DEF VotesCount
  <2>3. t.state # "AWAITING_TARGET"
    BY <2>1 DEF JustSeen
  <2>4. \A e \in Requests' : e.object_id \notin DOMAIN tracks'
    BY <1>1, <1>4, <1>5, <1>8, <2>3 DEF VotesCount
  <2> QED BY <2>2, <2>4
<1>9. ASSUME mq # "clear_gate"
      PROVE  \A e \in Requests' : e.object_id \notin DOMAIN tracks' \cap retired'
  BY <1>1, <1>4, <1>5, <1>9 DEF VotesCount
<1>10. VotesCount'
  BY <1>1, <1>6, <1>7, <1>8, <1>9 DEF VotesCount
<1>11. ConsensusStep
  BY <1>2, <1>4 DEF ConsensusStep, Tracker!Alerted
<1> QED BY <1>10, <1>11

LEMMA LeaveVotes ==
    ASSUME EngineInv, VotesCount, NEW o \in Objects, NEW g \in Tracker!Gap, Leave(o, g)
    PROVE  VotesCount' /\ ConsensusStep
<1>1. UNCHANGED <<seen, samples, mq, retired>>
  BY DEF Leave, gateVars, roiVars
<1>2. CASE o \notin DOMAIN tracks
  <2>1. UNCHANGED <<tracks, votes>> /\ events' = {}
    BY <1>2 DEF Leave, Abort, history
  <2>2. Requests' = {}
    BY <2>1 DEF Requests
  <2> QED BY <1>1, <2>1, <2>2, QuietVotes
<1>3. CASE o \in DOMAIN tracks
  <2> DEFINE ends == ClosingOf(IF Tracker!PickedUp(copied[o]) THEN "object_claimed"
                                                            ELSE "object_removed", o, copied[o])
  <2>1. /\ tracks' = [p \in DOMAIN tracks \ {o} |-> tracks[p]]
        /\ events' = events \cup ends
        /\ votes' = [votes EXCEPT ![o] = 0]
    BY <1>3 DEF Leave, Without
  <2>2. \A e \in ends : e.event_type # "target_verification_requested"
    BY EventTyped DEF ClosingOf
  <2> HIDE DEF ends
  <2>3. Requests' \subseteq Requests
    BY <2>1, <2>2 DEF Requests
  <2>4. /\ DOMAIN tracks' = DOMAIN tracks \ {o}
        /\ \A p \in DOMAIN tracks' : /\ tracks'[p] = tracks[p]
                                     /\ p \in Objects => votes'[p] = votes[p]
    BY <2>1 DEF EngineInv, Types
  <2>5. DOMAIN tracks \subseteq Objects
    BY DEF EngineInv, Types, Tracker!TypeOK
  <2>6. VotesCount'
    BY <1>1, <2>3, <2>4, <2>5 DEF VotesCount, Backed
  <2>7. ConsensusStep
    BY <2>4 DEF ConsensusStep, Tracker!Alerted
  <2> QED BY <2>6, <2>7
<1> QED BY <1>2, <1>3

LEMMA StayVotes ==
    ASSUME EngineInv, VotesCount,
           NEW o \in Objects, o \in DOMAIN copied, NEW g \in Tracker!Gap, Stay(o, g)
    PROVE  VotesCount' /\ ConsensusStep
<1>1. /\ pc = "missing"
      /\ UNCHANGED <<events, seen, samples, mq, retired, votes>>
  BY DEF Stay, gateVars, roiVars, history
<1>2. Requests' = Requests
  BY <1>1 DEF Requests
<1>3. CASE o \notin DOMAIN tracks
  <2>1. tracks' = tracks
    BY <1>3 DEF Stay
  <2> QED BY <1>1, <1>2, <2>1, QuietVotes DEF VotesCount
<1>4. CASE o \in DOMAIN tracks
  <2> DEFINE m == Tracker!Missed(copied[o], g)
  <2>1. copied[o] = tracks[o]
    BY <1>1, <1>4 DEF EngineInv, WalkSound
  <2>2. m.alerted = tracks[o].alerted /\ (JustSeen(tracks[o]) => JustSeen(m))
    BY <1>4, <2>1, MissedKeeps DEF EngineInv, Types, Tracker!TypeOK
  <2>3. tracks' = [tracks EXCEPT ![o] = m]
    BY <1>4 DEF Stay
  <2> HIDE DEF m
  <2>4. /\ DOMAIN tracks' = DOMAIN tracks
        /\ tracks'[o] = m
        /\ \A p \in DOMAIN tracks : p # o => tracks'[p] = tracks[p]
    BY <1>4, <2>3
  <2>5. VotesCount'
    BY <1>1, <1>2, <2>2, <2>4 DEF VotesCount, Backed
  <2>6. ConsensusStep
    BY <2>2, <2>4 DEF ConsensusStep, Tracker!Alerted
  <2> QED BY <2>5, <2>6
<1> QED BY <1>3, <1>4

(* A vote is counted exactly when the gate counts a positive.              *)
LEMMA EvaluateBacked ==
    ASSUME Types, NEW o \in Objects, NEW prediction \in {TRUE, FALSE, None},
           Evaluate(o, prediction),
           NEW p \in DOMAIN tracks, Backed(p)
    PROVE  /\ Backed(p)'
           /\ p = o /\ Gate!Decision(o, image, prediction) = "accept" => votes'[o] >= Confirmations
<1> DEFINE s == Gate!Counted(samples[o], prediction)
           counts == prediction = TRUE /\ Gate!Due(o, image)
<1>1. /\ samples[o] \in [positives : Nat, negatives : Nat]
      /\ p \in Objects /\ samples[p].positives \in Nat
      /\ votes \in [Objects -> 0..Confirmations] /\ Confirmations \in Nat
      /\ samples \in [Objects -> [positives : Nat, negatives : Nat]]
  BY GateAssumption DEF Types, Tracker!TypeOK
<1>2. s.positives = IF prediction = TRUE THEN samples[o].positives + 1 ELSE samples[o].positives
  BY <1>1, CountedTyped
<1>3. \/ Gate!Forget(o)
      \/ Gate!Record(o, image, prediction)
  BY DEF Evaluate
<1>4. votes' = IF counts /\ o \in DOMAIN tracks /\ votes[o] < Confirmations
               THEN [votes EXCEPT ![o] = votes[o] + 1] ELSE votes
  BY DEF Evaluate, Counts
<1>5. /\ p # o => votes'[p] = votes[p]
      /\ p = o => votes'[p] = IF counts /\ votes[p] < Confirmations THEN votes[p] + 1 ELSE votes[p]
  BY <1>1, <1>4
<1>6. \/ samples'[p] = Gate!NoSamples
      \/ samples'[p] = samples[p]
      \/ p = o /\ Gate!Due(o, image) /\ samples'[p] = s
  <2>1. CASE Gate!Forget(o)
    BY <1>1, <2>1 DEF Gate!Forget
  <2>2. CASE Gate!Record(o, image, prediction)
    BY <1>1, <2>2 DEF Gate!Record, Gate!vars
  <2> QED BY <1>3, <2>1, <2>2
<1>7. votes[p] \in 0..Confirmations /\ votes'[p] \in Nat /\ votes'[p] >= votes[p]
      /\ (votes[p] = Confirmations => votes'[p] = Confirmations)
  BY <1>1, <1>5
<1> HIDE DEF s
<1>8. samples[p].positives <= votes[p] \/ votes[p] = Confirmations
  BY DEF Backed
<1>9. p = o /\ Gate!Due(o, image) => s.positives <= votes'[p] \/ votes'[p] = Confirmations
  BY <1>1, <1>2, <1>5, <1>7, <1>8
<1>10. Backed(p)'
  <2>1. samples'[p].positives <= votes'[p] \/ votes'[p] = Confirmations
    BY <1>1, <1>6, <1>7, <1>8, <1>9, NoSamplesTyped
  <2> QED BY <2>1 DEF Backed
<1>11. ASSUME p = o, Gate!Decision(o, image, prediction) = "accept"
       PROVE  votes'[o] >= Confirmations
  <2>1. Gate!Due(o, image) /\ s.positives >= Confirmations
    BY <1>11 DEF Gate!Decision, Gate!Accepts, s
  <2>2. s.positives \in Nat
    BY <1>1, <1>2
  <2> QED BY <1>1, <1>7, <1>9, <1>11, <2>1, <2>2
<1> QED BY <1>10, <1>11

LEMMA EvaluateVotes ==
    ASSUME EngineInv, VotesCount,
           NEW o \in Objects, NEW prediction \in {TRUE, FALSE, None}, Evaluate(o, prediction)
    PROVE  VotesCount' /\ ConsensusStep
<1>1. Types
  BY DEF EngineInv
<1>2. /\ UNCHANGED <<seen, mq, retired>>
      /\ DOMAIN tracks' = DOMAIN tracks
      /\ \A p \in DOMAIN tracks : tracks'[p].alerted /\ ~tracks[p].alerted =>
            p = o /\ Gate!Decision(o, image, prediction) = "accept"
      /\ Requests' \subseteq Requests
      /\ tracks' # tracks => o \in DOMAIN tracks /\ \E e \in Requests : e.object_id = o
  BY <1>1, EvaluateEffect
<1>3. \A p \in DOMAIN tracks : Backed(p)' \/ p \in retired'
  BY <1>1, <1>2, EvaluateBacked DEF VotesCount
<1>4. CASE mq # "clear_gate"
  <2>1. VotesCount'
    BY <1>2, <1>3, <1>4 DEF VotesCount
  <2>2. ASSUME NEW p \in DOMAIN tracks, tracks'[p].alerted, ~tracks[p].alerted
        PROVE  votes'[p] >= Confirmations
    <3>1. p = o /\ Gate!Decision(o, image, prediction) = "accept" /\ tracks' # tracks
      BY <1>2, <2>2
    <3>2. p \notin retired
      BY <1>2, <1>4, <3>1 DEF VotesCount
    <3>3. Backed(p)
      BY <3>2 DEF VotesCount
    <3> QED BY <1>1, <3>1, <3>3, EvaluateBacked
  <2> QED BY <1>2, <2>1, <2>2 DEF ConsensusStep, Tracker!Alerted
<1>5. CASE mq = "clear_gate"
  <2>1. tracks' = tracks
    BY <1>2, <1>5 DEF VotesCount
  <2> QED BY <1>2, <1>3, <1>5, <2>1 DEF VotesCount, ConsensusStep, Tracker!Alerted
<1> QED BY <1>4, <1>5

LEMMA FinishFrameVotes == EngineInv /\ VotesCount /\ FinishFrame => VotesCount' /\ ConsensusStep
<1> SUFFICES ASSUME EngineInv, VotesCount, FinishFrame PROVE VotesCount' /\ ConsensusStep
  OBVIOUS
<1>1. /\ UNCHANGED <<tracks, events, seen, mq, votes>>
      /\ retired' = retired \cap DOMAIN tracks
      /\ \A o \in Objects : samples'[o] \in {samples[o], Gate!NoSamples}
  BY DEF FinishFrame, Gate!Retain, trackerVars, roiVars, history
<1>2. \A o \in DOMAIN tracks : Backed(o) => Backed(o)'
  BY <1>1, NoSamplesTyped, GateAssumption DEF Backed, EngineInv, Types, Tracker!TypeOK
<1>3. VotesCount'
  BY <1>1, <1>2 DEF VotesCount, Requests
<1> QED BY <1>1, <1>3 DEF ConsensusStep, Tracker!Alerted

LEMMA ClearTracksVotes == VotesCount /\ ClearTracks => VotesCount' /\ ConsensusStep
<1> SUFFICES ASSUME VotesCount, ClearTracks PROVE VotesCount' /\ ConsensusStep
  OBVIOUS
<1>1. mq' = "clear_gate" /\ DOMAIN tracks' = {} /\ UNCHANGED <<events, seen>>
  BY DEF ClearTracks, Tracker!ClearCamera, frameVars
<1>2. VotesCount'
  BY <1>1 DEF VotesCount, Requests
<1> QED BY <1>1, <1>2 DEF ConsensusStep, Tracker!Alerted

LEMMA ClearGateVotes == EngineInv /\ VotesCount /\ ClearGate => VotesCount' /\ ConsensusStep
<1> SUFFICES ASSUME EngineInv, VotesCount, ClearGate PROVE VotesCount' /\ ConsensusStep
  OBVIOUS
<1>1. /\ mq' = "idle"
      /\ samples' = [o \in Objects |-> Gate!NoSamples]
      /\ retired' = {}
      /\ UNCHANGED <<tracks, events, seen, votes>>
  BY DEF ClearGate, Gate!Clear, trackerVars, history
<1>2. \A o \in DOMAIN tracks : Backed(o)'
  BY <1>1, NoSamplesTyped, GateAssumption DEF Backed, EngineInv, Types, Tracker!TypeOK
<1>3. VotesCount'
  BY <1>1, <1>2 DEF VotesCount, Requests
<1> QED BY <1>1, <1>3 DEF ConsensusStep, Tracker!Alerted

(* No frame that could make update_roi fail has asked for anything yet.    *)
LEMMA ClearFailsVotes == VotesCount /\ ClearFails => VotesCount' /\ ConsensusStep
<1> SUFFICES ASSUME VotesCount, ClearFails PROVE VotesCount' /\ ConsensusStep
  OBVIOUS
<1>1. /\ mq' = "idle" /\ seen = {}
      /\ UNCHANGED <<tracks, events, seen, samples, retired, votes>>
  BY DEF ClearFails, BeforeUpdate, trackerVars, gateVars, history
<1>2. Requests = {}
  BY <1>1 DEF VotesCount
<1>3. Requests' = {}
  BY <1>1, <1>2 DEF Requests
<1>4. VotesCount'
  BY <1>1, <1>3 DEF VotesCount, Backed
<1> QED BY <1>1, <1>4 DEF ConsensusStep, Tracker!Alerted

(* The rest of the streaming thread, and update_roi before and after it    *)
(* clears anything.                                                        *)
LEMMA OtherVotes ==
    ASSUME VotesCount,
           \/ StartFrame \/ EndEarly \/ CopyTracks \/ FinishUpdate \/ ReadTrack \/ Publish
           \/ \E o \in Objects : PassOver(o) \/ CheckTrack(o)
           \/ \E nonempty \in BOOLEAN : ReplaceRoi(nonempty)
           \/ FilterTracks \/ FilterFails
    PROVE  VotesCount' /\ ConsensusStep
<1>1. /\ UNCHANGED <<tracks, votes, samples, retired>>
      /\ (events' = events /\ seen' = seen) \/ events' = {}
      /\ mq' = "clear_gate" <=> mq = "clear_gate"
  BY DEF StartFrame, EndEarly, CopyTracks, FinishUpdate, ReadTrack, Abort, Publish, PassOver,
         CheckTrack, ReplaceRoi, FilterTracks, FilterFails, trackerVars, gateVars, frameVars, roiVars, history
<1>2. Requests' \subseteq Requests /\ \A e \in Requests' : e.object_id \in seen'
  BY <1>1 DEF Requests, VotesCount
<1> QED BY <1>1, <1>2, QuietVotes

LEMMA StepVotes ==
    ASSUME DeferAbandonedEvent, AbandonmentDwell > 0, EngineInv, VotesCount, Next
    PROVE  VotesCount' /\ ConsensusStep
<1>1. CASE Tick
  BY <1>1, TickVotes
<1>2. ASSUME NEW o \in Objects, NEW b \in Tracker!Blob, Sight(o, b)
      PROVE  VotesCount' /\ ConsensusStep
  BY <1>2, SightVotes
<1>3. ASSUME NEW o \in Objects, o \in DOMAIN copied, NEW g \in Tracker!Gap, Leave(o, g) \/ Stay(o, g)
      PROVE  VotesCount' /\ ConsensusStep
  BY <1>3, LeaveVotes, StayVotes
<1>4. ASSUME NEW o \in Objects, NEW prediction \in {TRUE, FALSE, None}, Evaluate(o, prediction)
      PROVE  VotesCount' /\ ConsensusStep
  BY <1>4, EvaluateVotes
<1>5. CASE FinishFrame \/ ClearTracks \/ ClearFails \/ ClearGate
  BY <1>5, FinishFrameVotes, ClearTracksVotes, ClearFailsVotes, ClearGateVotes
<1>6. CASE \/ StartFrame \/ EndEarly \/ CopyTracks \/ FinishUpdate \/ ReadTrack \/ Publish
           \/ \E o \in Objects : PassOver(o) \/ CheckTrack(o)
           \/ \E nonempty \in BOOLEAN : ReplaceRoi(nonempty)
           \/ FilterTracks \/ FilterFails
  BY <1>6, OtherVotes
<1> QED BY <1>1, <1>2, <1>3, <1>4, <1>5, <1>6 DEF Next, Update, Verify, HandleFrame, UpdateRoi

(* With a gate, no object becomes alerted before as many positive samples  *)
(* as it needs have been taken of this very object's present track.  The   *)
(* dwell must not be zero: between clear_camera and the gate's clear, an   *)
(* object abandoned at once would be judged by samples of an earlier life. *)
THEOREM ConsensusBeforeAlert ==
    ASSUME DeferAbandonedEvent, AbandonmentDwell > 0
    PROVE  Spec => AlertNeedsConsensus
<1>1. Init => VotesCount
  BY NoSamplesTyped DEF Init, Tracker!Init, Gate!Init, VotesCount, Requests
<1>2. EngineInv /\ VotesCount /\ [Next]_vars => VotesCount'
  <2>1. ASSUME VotesCount, UNCHANGED vars PROVE VotesCount'
    BY <2>1 DEF vars, trackerVars, gateVars, roiVars, history, VotesCount, Backed, Requests
  <2> QED BY <2>1, StepVotes
<1>3. EngineInv /\ VotesCount /\ [Next]_vars => [ConsensusStep]_vars
  BY StepVotes
<1>4. Spec => [][ConsensusStep]_vars
  BY <1>1, <1>2, <1>3, EngineInvariance, PTL DEF Spec
<1> QED BY <1>4 DEF AlertNeedsConsensus, ConsensusStep

-----------------------------------------------------------------------------
(* The engine implements AlertLifecycle *)

(* The lifecycle's two variables, as the engine implements them.           *)
Open == {o \in DOMAIN tracks : tracks[o].alerted}

AsPublished(e) == [event_type |-> e.event_type, object_id |-> e.object_id]

Published == {AsPublished(e) : e \in Tracker!Public}

(* What a step must exhibit to be one Publish of the lifecycle.            *)
LEMMA Publishing ==
    ASSUME NEW base \in {{}, Published},
           NEW opening \in SUBSET (Objects \ Open),
           NEW closed \in SUBSET Open,
           NEW ends \in SUBSET Tracker!Lifecycle!Closing,
           Tracker!Lifecycle!Subjects(ends) = closed,
           \A c, d \in ends : c.object_id = d.object_id => c = d,
           Open' = (Open \cup opening) \ closed,
           Published' = base \cup Tracker!Lifecycle!Opening(opening) \cup ends
    PROVE  Tracker!Lifecycle!Publish
BY DEF Tracker!Lifecycle!Publish, Open, Published, AsPublished

(* A step that keeps the alerts, and the published events or drops them.   *)
LEMMA KeepingAlerts ==
    ASSUME Open' = Open, Published' \in {{}, Published}
    PROVE  Tracker!Lifecycle!Publish
<1>1. Tracker!Lifecycle!Subjects({}) = {} /\ Tracker!Lifecycle!Opening({}) = {}
  BY DEF Tracker!Lifecycle!Subjects, Tracker!Lifecycle!Opening
<1>2. Open' = (Open \cup {}) \ {} /\ Published' = Published' \cup Tracker!Lifecycle!Opening({}) \cup {}
  BY <1>1
<1>3. {} \in SUBSET (Objects \ Open) /\ {} \in SUBSET Open /\ {} \in SUBSET Tracker!Lifecycle!Closing
  OBVIOUS
<1>4. PICK base \in {{}, Published} : Published' = base
  OBVIOUS
<1>5. Published' = base \cup Tracker!Lifecycle!Opening({}) \cup {}
  BY <1>1, <1>4
<1> QED BY <1>1, <1>2, <1>3, <1>5, Publishing

(* One alert opens, in a frame that goes on.                               *)
LEMMA OpeningOne ==
    ASSUME NEW o \in Objects, o \notin Open, Open' = Open \cup {o},
           Published' = Published \cup {[event_type |-> "object_abandoned", object_id |-> o]}
    PROVE  Tracker!Lifecycle!Publish
<1>1. Tracker!Lifecycle!Subjects({}) = {}
      /\ Tracker!Lifecycle!Opening({o}) = {[event_type |-> "object_abandoned", object_id |-> o]}
  BY DEF Tracker!Lifecycle!Subjects, Tracker!Lifecycle!Opening
<1>2. Open' = (Open \cup {o}) \ {}
      /\ Published' = Published \cup Tracker!Lifecycle!Opening({o}) \cup {}
  BY <1>1
<1>3. {o} \in SUBSET (Objects \ Open) /\ {} \in SUBSET Open /\ {} \in SUBSET Tracker!Lifecycle!Closing
  OBVIOUS
<1> QED BY <1>1, <1>2, <1>3, Publishing

(* One alert ends, in a frame that goes on.                                *)
LEMMA ClosingOne ==
    ASSUME NEW o \in Open, o \in Objects, Open' = Open \ {o},
           NEW type \in {"object_claimed", "object_removed"},
           Published' = Published \cup {[event_type |-> type, object_id |-> o]}
    PROVE  Tracker!Lifecycle!Publish
<1> DEFINE c == [event_type |-> type, object_id |-> o]
<1>1. c \in Tracker!Lifecycle!Closing /\ c.object_id = o
  BY DEF Tracker!Lifecycle!Closing
<1>2. Published' = Published \cup {c}
  OBVIOUS
<1> HIDE DEF c
<1>3. Tracker!Lifecycle!Subjects({c}) = {o} /\ Tracker!Lifecycle!Opening({}) = {}
  BY <1>1 DEF Tracker!Lifecycle!Subjects, Tracker!Lifecycle!Opening
<1>4. Open' = (Open \cup {}) \ {o}
      /\ Published' = Published \cup Tracker!Lifecycle!Opening({}) \cup {c}
  BY <1>2, <1>3
<1>5. {} \in SUBSET (Objects \ Open) /\ {o} \in SUBSET Open /\ {c} \in SUBSET Tracker!Lifecycle!Closing
      /\ \A d, e \in {c} : d.object_id = e.object_id => d = e
  BY <1>1
<1> QED BY <1>3, <1>4, <1>5, Publishing

(* What a caller gets of one event more.                                   *)
LEMMA OneMore ==
    ASSUME NEW e, events' = events \cup {e}, e.event_type # "target_verification_requested"
    PROVE  Published' = Published \cup {AsPublished(e)}
<1>1. Tracker!Public' = Tracker!Public \cup {e}
  BY DEF Tracker!Public
<1> QED BY <1>1 DEF Published

LEMMA EventPublished ==
    ASSUME NEW o \in Objects, NEW t,
           NEW type \in {"object_abandoned", "target_verification_requested",
                         "object_claimed", "object_removed"}
    PROVE  AsPublished(Tracker!Event(type, o, t)) = [event_type |-> type, object_id |-> o]
BY DEF Tracker!Event, AsPublished

(* The engine's step as the lifecycle sees it.                             *)
Visible == Tracker!Lifecycle!Next \/ UNCHANGED <<Open, Published>>

LEMMA SightRefines ==
    ASSUME EngineInv, NEW o \in Objects, NEW b \in Tracker!Blob, Sight(o, b)
    PROVE  Visible
<1> DEFINE t == Tracker!Observe(o, b)
<1>1. /\ tracks' = [p \in DOMAIN tracks \cup {o} |-> IF p = o THEN t ELSE tracks[p]]
      /\ events' = events \cup Raised(o, t)
  BY DEF Sight
<1>2. /\ Tracker!Alerted(o) => t.alerted
      /\ t.alerted \in BOOLEAN
  BY ObserveKeeps DEF EngineInv, Tracker!ObjectTrack
<1> HIDE DEF t
<1>3. /\ DOMAIN tracks' = DOMAIN tracks \cup {o}
      /\ tracks'[o] = t
      /\ \A p \in DOMAIN tracks : p # o => tracks'[p] = tracks[p]
  BY <1>1
<1>4. CASE t.alerted /\ ~Tracker!Alerted(o)
  <2> DEFINE e == Tracker!Event("object_abandoned", o, t)
  <2>1. Raised(o, t) = {e}
    BY <1>4 DEF Raised, Tracker!Alerted
  <2>2. e.event_type = "object_abandoned"
        /\ AsPublished(e) = [event_type |-> "object_abandoned", object_id |-> o]
    BY EventTyped, EventPublished
  <2> HIDE DEF e
  <2>3. Published' = Published \cup {[event_type |-> "object_abandoned", object_id |-> o]}
    BY <1>1, <2>1, <2>2, OneMore
  <2>4. Open' = Open \cup {o} /\ o \notin Open
    BY <1>3, <1>4 DEF Open, Tracker!Alerted
  <2> QED BY <2>3, <2>4, OpeningOne DEF Visible, Tracker!Lifecycle!Next
<1>5. CASE ~(t.alerted /\ ~Tracker!Alerted(o))
  <2>1. \A e \in Raised(o, t) : e.event_type = "target_verification_requested"
    BY <1>5, EventTyped DEF Raised, Tracker!Alerted
  <2>2. Tracker!Public' = Tracker!Public
    BY <1>1, <2>1 DEF Tracker!Public
  <2>3. Open' = Open
    BY <1>2, <1>3, <1>5 DEF Open, Tracker!Alerted
  <2> QED BY <2>2, <2>3 DEF Visible, Published
<1> QED BY <1>4, <1>5

LEMMA LeaveRefines ==
    ASSUME EngineInv, NEW o \in Objects, o \in DOMAIN copied, NEW g \in Tracker!Gap, Leave(o, g)
    PROVE  Visible
<1>1. CASE o \notin DOMAIN tracks
  <2>1. tracks' = tracks /\ events' = {}
    BY <1>1 DEF Leave, Abort
  <2>2. Open' = Open /\ Published' = {}
    BY <2>1 DEF Open, Published, Tracker!Public
  <2> QED BY <2>2, KeepingAlerts DEF Visible, Tracker!Lifecycle!Next
<1>2. CASE o \in DOMAIN tracks
  <2>1. copied[o] = tracks[o] /\ tracks[o].alerted \in BOOLEAN
    BY <1>2 DEF Leave, EngineInv, WalkSound, Types, Tracker!TypeOK, Tracker!ObjectTrack
  <2>2. PICK type \in {"object_claimed", "object_removed"} :
           /\ tracks' = [p \in DOMAIN tracks \ {o} |-> tracks[p]]
           /\ events' = events \cup ClosingOf(type, o, copied[o])
    BY <1>2 DEF Leave, Without
  <2>3. Open' = Open \ {o}
    BY <2>2 DEF Open
  <2>4. CASE tracks[o].alerted
    <3> DEFINE e == Tracker!Event(type, o, copied[o])
    <3>1. events' = events \cup {e}
      BY <2>1, <2>2, <2>4 DEF ClosingOf
    <3>2. e.event_type # "target_verification_requested"
          /\ AsPublished(e) = [event_type |-> type, object_id |-> o]
      BY EventTyped, EventPublished
    <3> HIDE DEF e
    <3>3. Published' = Published \cup {[event_type |-> type, object_id |-> o]}
      BY <3>1, <3>2, OneMore
    <3>4. o \in Open
      BY <1>2, <2>4 DEF Open
    <3> QED BY <2>3, <3>3, <3>4, ClosingOne DEF Visible, Tracker!Lifecycle!Next
  <2>5. CASE ~tracks[o].alerted
    <3>1. events' = events
      BY <2>1, <2>2, <2>5 DEF ClosingOf
    <3>2. Open' = Open
      BY <2>3, <2>5 DEF Open
    <3> QED BY <3>1, <3>2 DEF Visible, Published, Tracker!Public
  <2> QED BY <2>1, <2>4, <2>5
<1> QED BY <1>1, <1>2

LEMMA StayRefines ==
    ASSUME EngineInv, NEW o \in Objects, o \in DOMAIN copied, NEW g \in Tracker!Gap, Stay(o, g)
    PROVE  Visible
<1>1. events' = events /\ pc = "missing"
  BY DEF Stay
<1>2. Open' = Open
  <2>1. CASE o \notin DOMAIN tracks
    BY <2>1 DEF Stay, Open
  <2>2. CASE o \in DOMAIN tracks
    <3>1. copied[o] = tracks[o]
      BY <1>1, <2>2 DEF EngineInv, WalkSound
    <3>2. Tracker!Missed(copied[o], g).alerted = tracks[o].alerted
      BY <2>2, <3>1, MissedKeeps DEF EngineInv, Types, Tracker!TypeOK
    <3>3. /\ DOMAIN tracks' = DOMAIN tracks
          /\ tracks'[o] = Tracker!Missed(copied[o], g)
          /\ \A p \in DOMAIN tracks : p # o => tracks'[p] = tracks[p]
      BY <2>2 DEF Stay
    <3> QED BY <2>2, <3>2, <3>3 DEF Open
  <2> QED BY <2>1, <2>2
<1> QED BY <1>1, <1>2 DEF Visible, Published, Tracker!Public

LEMMA EvaluateRefines ==
    ASSUME EngineInv,
           NEW o \in Objects, NEW prediction \in {TRUE, FALSE, None}, Evaluate(o, prediction)
    PROVE  Visible
<1>1. Types
  BY DEF EngineInv
<1>2. CASE Tracker!ConfirmAbandoned(o) /\ o \in DOMAIN tracks /\ ~tracks[o].alerted
  <2> DEFINE e == Tracker!Event("object_abandoned", o, tracks'[o])
  <2>1. /\ tracks' = [tracks EXCEPT ![o] = Tracker!Confirm(tracks[o])]
        /\ events' = (events \ Tracker!RequestOf(o)) \cup {e}
    BY <1>2 DEF Tracker!ConfirmAbandoned
  <2>2. Tracker!Confirm(tracks[o]).alerted
    BY <1>1, <1>2, ConfirmTyped DEF Types, Tracker!TypeOK
  <2>3. e.event_type = "object_abandoned"
        /\ AsPublished(e) = [event_type |-> "object_abandoned", object_id |-> o]
    BY EventTyped, EventPublished
  <2> HIDE DEF e
  <2>4. /\ DOMAIN tracks' = DOMAIN tracks
        /\ tracks'[o].alerted
        /\ \A p \in DOMAIN tracks : p # o => tracks'[p] = tracks[p]
    BY <1>2, <2>1, <2>2
  <2>5. Open' = Open \cup {o} /\ o \notin Open
    BY <1>2, <2>4 DEF Open
  <2>6. Tracker!Public' = Tracker!Public \cup {e}
    BY <2>1, <2>3 DEF Tracker!Public, Tracker!RequestOf
  <2>7. Published' = Published \cup {[event_type |-> "object_abandoned", object_id |-> o]}
    BY <2>3, <2>6 DEF Published
  <2> QED BY <2>5, <2>7, OpeningOne DEF Visible, Tracker!Lifecycle!Next
<1>3. CASE Tracker!ConfirmAbandoned(o) /\ ~(o \in DOMAIN tracks /\ ~tracks[o].alerted)
  <2>1. tracks' = tracks /\ events' = events \ Tracker!RequestOf(o)
    BY <1>3 DEF Tracker!ConfirmAbandoned
  <2>2. Tracker!Public' = Tracker!Public
    BY <2>1 DEF Tracker!Public, Tracker!RequestOf
  <2> QED BY <2>1, <2>2 DEF Visible, Open, Published
<1>4. CASE Tracker!RejectTarget(o)
  <2>1. Tracker!Public' = Tracker!Public
    BY <1>4 DEF Tracker!RejectTarget, Tracker!Public, Tracker!RequestOf
  <2>2. Open' = Open
    <3>1. CASE o \in DOMAIN tracks /\ ~tracks[o].alerted
      <4>1. tracks[o] \in Tracker!ObjectTrack
        BY <1>1, <3>1 DEF Types, Tracker!TypeOK
      <4>2. /\ DOMAIN tracks' = DOMAIN tracks
            /\ \A p \in DOMAIN tracks : p # o => tracks'[p] = tracks[p]
            /\ ~tracks'[o].alerted
        BY <1>4, <3>1, <4>1 DEF Tracker!RejectTarget, Tracker!ObjectTrack
      <4> QED BY <3>1, <4>2 DEF Open
    <3>2. CASE ~(o \in DOMAIN tracks /\ ~tracks[o].alerted)
      BY <1>4, <3>2 DEF Tracker!RejectTarget, Open
    <3> QED BY <3>1, <3>2
  <2> QED BY <2>1, <2>2 DEF Visible, Published
<1>5. CASE UNCHANGED trackerVars
  BY <1>5 DEF trackerVars, Visible, Open, Published, Tracker!Public
<1> QED BY <1>2, <1>3, <1>4, <1>5 DEF Evaluate

LEMMA TickRefines == EngineInv /\ Tick => Visible
<1> SUFFICES ASSUME EngineInv, Tick PROVE Visible
  OBVIOUS
<1>1. /\ DOMAIN tracks' = DOMAIN tracks
      /\ \A o \in DOMAIN tracks : tracks'[o].alerted = tracks[o].alerted
      /\ events' = {}
  BY AgedTyped DEF Tick, Tracker!Tick, EngineInv, Types, Tracker!TypeOK
<1>2. Open' = Open /\ Published' = {}
  BY <1>1 DEF Open, Published, Tracker!Public
<1> QED BY <1>2, KeepingAlerts DEF Visible, Tracker!Lifecycle!Next

LEMMA ClearTracksRefines == ClearTracks => Visible
<1> SUFFICES ASSUME ClearTracks PROVE Visible
  OBVIOUS
<1>1. Open' = {} /\ Published' = Published
  BY DEF ClearTracks, Tracker!ClearCamera, Open, Published, Tracker!Public
<1>2. Tracker!Lifecycle!Withdraw
  BY <1>1 DEF Tracker!Lifecycle!Withdraw, Open, Published, AsPublished
<1> QED BY <1>2 DEF Visible, Tracker!Lifecycle!Next

(* Everything else leaves the tracks, and the frame's events or drops them.*)
LEMMA OtherRefines ==
    ASSUME \/ StartFrame \/ EndEarly \/ CopyTracks \/ FinishUpdate \/ FinishFrame \/ ReadTrack \/ Publish
           \/ \E o \in Objects : PassOver(o) \/ CheckTrack(o)
           \/ \E nonempty \in BOOLEAN : ReplaceRoi(nonempty)
           \/ FilterTracks \/ FilterFails \/ ClearFails \/ ClearGate
    PROVE  Visible
<1>1. tracks' = tracks /\ events' \in {events, {}}
  BY DEF StartFrame, EndEarly, CopyTracks, FinishUpdate, FinishFrame, ReadTrack, Abort, Publish,
         PassOver, CheckTrack, ReplaceRoi, FilterTracks, FilterFails, ClearFails, ClearGate,
         trackerVars
<1>2. Open' = Open /\ Published' \in {Published, {}}
  BY <1>1 DEF Open, Published, Tracker!Public
<1> QED BY <1>2, KeepingAlerts DEF Visible, Tracker!Lifecycle!Next

LEMMA EngineStepRefines ==
    EngineInv /\ [Next]_vars => [Tracker!Lifecycle!Next]_(Tracker!Lifecycle!vars)
<1> SUFFICES ASSUME EngineInv, [Next]_vars PROVE Visible
  BY DEF Visible, Tracker!Lifecycle!vars, Open, Published, AsPublished
<1>1. CASE Tick
  BY <1>1, TickRefines
<1>2. ASSUME NEW o \in Objects, NEW b \in Tracker!Blob, Sight(o, b) PROVE Visible
  BY <1>2, SightRefines
<1>3. ASSUME NEW o \in Objects, o \in DOMAIN copied, NEW g \in Tracker!Gap, Leave(o, g) \/ Stay(o, g)
      PROVE  Visible
  BY <1>3, LeaveRefines, StayRefines
<1>4. ASSUME NEW o \in Objects, NEW prediction \in {TRUE, FALSE, None}, Evaluate(o, prediction)
      PROVE  Visible
  BY <1>4, EvaluateRefines
<1>5. CASE ClearTracks
  BY <1>5, ClearTracksRefines
<1>6. CASE UNCHANGED vars
  BY <1>6 DEF vars, trackerVars, Visible, Open, Published, Tracker!Public
<1>7. CASE \/ StartFrame \/ EndEarly \/ CopyTracks \/ FinishUpdate \/ FinishFrame \/ ReadTrack \/ Publish
           \/ \E o \in Objects : PassOver(o) \/ CheckTrack(o)
           \/ \E nonempty \in BOOLEAN : ReplaceRoi(nonempty)
           \/ FilterTracks \/ FilterFails \/ ClearFails \/ ClearGate
  BY <1>7, OtherRefines
<1> QED BY <1>1, <1>2, <1>3, <1>4, <1>5, <1>6, <1>7
           DEF Next, Update, Verify, HandleFrame, UpdateRoi

(* The engine keeps the promise of AlertLifecycle to the callers of        *)
(* process_frame whatever the gate answers, and wherever in a frame        *)
(* update_roi clears the tracker.                                          *)
THEOREM EngineRefinesLifecycle == Spec => EngineImplementsLifecycle
<1>1. Init => Tracker!Lifecycle!Init
  BY DEF Init, Tracker!Init, Tracker!Lifecycle!Init, Tracker!Public
<1>2. EngineInv /\ [Next]_vars => [Tracker!Lifecycle!Next]_(Tracker!Lifecycle!vars)
  BY EngineStepRefines
<1> QED BY <1>1, <1>2, EngineInvariance, PTL
        DEF Spec, EngineImplementsLifecycle, Tracker!ImplementsLifecycle, Tracker!Lifecycle!Spec

=============================================================================
