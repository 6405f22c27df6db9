---------------------- MODULE ObjectStateTracker_proofs ----------------------
(***************************************************************************)
(* Proofs about ObjectStateTracker, for any sets of objects, persons and   *)
(* vehicles and any durations.  A frame changes every track on its own, so *)
(* the argument is made track by track: each helper of update takes a      *)
(* track that satisfies TrackInv to one that does, and the lemmas about    *)
(* one track are then lifted to the actions.                               *)
(***************************************************************************)
EXTENDS ObjectStateTracker, TLAPS

(* What Judged may assume of a watched track: one that was just confirmed  *)
(* has no departure yet, all others satisfy the invariant.                 *)
Judgeable(t) ==
    /\ t \in ObjectTrack
    /\ t.state \in Watched
    /\ ~t.alerted
    /\ t.pending_claim_at = None
    /\ t.state_before_pending_claim = None
    /\ t.state = "STATIC_WITH_OWNER" => t.owner_left_at = None
    /\ t.owner_left_at # None => t.owner_left_at = t.owner_absent_since /\ ~WithinGrace(t)
    /\ t.state = "AWAITING_TARGET" =>
          t.owner_left_at # None /\ t.owner_left_at >= AbandonmentDwell

(* A new track satisfies the invariant.                                    *)
LEMMA NewTrackInv ==
    ASSUME NEW s \in {"CONFIRMING", "BACKGROUND"}
    PROVE  TrackInv(NewTrack(s))
BY DurationAssumption, NoneAssumption
   DEF TrackInv, NewTrack, ObjectTrack, Age, TrackState, Claimable, Watched, ClaimConsistent,
       AlertConsistent, DepartureSound, ClocksSound, StateUnderClaim, Or, WithinGrace

(* Touched only refreshes last_seen_at and the association.                *)
LEMMA TouchedInv ==
    ASSUME NEW t, TrackInv(t), NEW b \in Blob
    PROVE  /\ TrackInv(Touched(t, b))
           /\ Touched(t, b).state = t.state
           /\ Touched(t, b).owner_absent_since = t.owner_absent_since
           /\ Touched(t, b).alerted = t.alerted
           /\ StateUnderClaim(Touched(t, b)) = StateUnderClaim(t)
<1> DEFINE u == Touched(t, b)
<1>1. t \in ObjectTrack
  BY DEF TrackInv
<1>2. u \in ObjectTrack
  <2>1. 0 \in Age
    BY DurationAssumption DEF Age
  <2>2. Or(t.owner_track_id, b.owner_hint) \in Persons \cup {None}
    BY <1>1 DEF ObjectTrack, Blob, Or
  <2>3. Or(t.related_vehicle_id, b.vehicle_hint) \in Vehicles \cup {None}
    BY <1>1 DEF ObjectTrack, Blob, Or
  <2> QED BY <1>1, <2>1, <2>2, <2>3 DEF Touched, ObjectTrack
<1>3. /\ u.state = t.state
      /\ u.owner_left_at = t.owner_left_at
      /\ u.owner_absent_since = t.owner_absent_since
      /\ u.owner_last_seen_near_at = t.owner_last_seen_near_at
      /\ u.pending_claim_at = t.pending_claim_at
      /\ u.state_before_pending_claim = t.state_before_pending_claim
      /\ u.alerted = t.alerted
  BY <1>1 DEF Touched, ObjectTrack
<1> HIDE DEF u
<1>4. /\ StateUnderClaim(u) = StateUnderClaim(t)
      /\ WithinGrace(u) <=> WithinGrace(t)
  BY <1>3 DEF StateUnderClaim, WithinGrace
<1>5. TrackInv(u)
  BY <1>2, <1>3, <1>4 DEF TrackInv, ClaimConsistent, AlertConsistent, DepartureSound, ClocksSound
<1> QED BY <1>3, <1>4, <1>5 DEF u

(* Leaving PENDING_CLAIM restores the state under the claim.               *)
LEMMA ReappearedInv ==
    ASSUME NEW t, TrackInv(t)
    PROVE  /\ TrackInv(Reappeared(t))
           /\ Reappeared(t).state # "PENDING_CLAIM"
           /\ Reappeared(t).state = StateUnderClaim(t)
           /\ Reappeared(t).owner_absent_since = t.owner_absent_since
           /\ Reappeared(t).owner_track_id = t.owner_track_id
           /\ Reappeared(t).alerted = t.alerted
<1>1. CASE t.state # "PENDING_CLAIM"
  BY <1>1, NoneAssumption DEF Reappeared, TrackInv, ClaimConsistent, StateUnderClaim, Or
<1>2. CASE t.state = "PENDING_CLAIM"
  BY <1>2, NoneAssumption
     DEF Reappeared, TrackInv, ObjectTrack, TrackState, Claimable, Watched, ClaimConsistent,
         AlertConsistent, DepartureSound, ClocksSound, StateUnderClaim, Or, WithinGrace
<1> QED BY <1>1, <1>2

(* Outside PENDING_CLAIM, confirmation leads to a track ready to be judged *)
(* or leaves the track alone.                                              *)
LEMMA ConfirmedInv ==
    ASSUME NEW t, TrackInv(t), t.state # "PENDING_CLAIM", NEW b \in Blob
    PROVE  LET c == Confirmed(t, b) IN
           /\ c.owner_absent_since = t.owner_absent_since
           /\ c.alerted = t.alerted
           /\ c.state \in Watched => Judgeable(c)
           /\ c.state \notin Watched => c = t
           /\ c.state \in Watched /\ t.state \notin Watched => t.owner_absent_since = None
<1>1. CASE t.state # "CONFIRMING" \/ ~b.static
  BY <1>1, NoneAssumption
     DEF Confirmed, Judgeable, TrackInv, ClaimConsistent, AlertConsistent, DepartureSound,
         ClocksSound, StateUnderClaim, Or, Watched
<1>2. CASE t.state = "CONFIRMING" /\ b.static
  <2> DEFINE owner == Or(t.owner_track_id, b.owner_lookup)
             c == Confirmed(t, b)
             s == IF owner # None THEN "STATIC_WITH_OWNER" ELSE "STATIC_NO_OWNER"
  <2>1. t \in ObjectTrack /\ owner \in Persons \cup {None}
    BY DEF TrackInv, ObjectTrack, Blob, Or
  <2>2. c = [t EXCEPT !.owner_track_id = owner, !.state = s]
    BY <1>2 DEF Confirmed
  <2>3. c \in ObjectTrack /\ c.state = s /\ s \in {"STATIC_WITH_OWNER", "STATIC_NO_OWNER"}
    BY <2>1, <2>2 DEF ObjectTrack, TrackState, Claimable, Watched
  <2>4. /\ c.owner_left_at = t.owner_left_at
        /\ c.owner_absent_since = t.owner_absent_since
        /\ c.pending_claim_at = t.pending_claim_at
        /\ c.state_before_pending_claim = t.state_before_pending_claim
        /\ c.alerted = t.alerted
    BY <2>1, <2>2 DEF ObjectTrack
  <2> HIDE DEF c, s, owner
  <2>5. /\ t.owner_left_at = None
        /\ t.owner_absent_since = None
        /\ t.pending_claim_at = None
        /\ t.state_before_pending_claim = None
        /\ ~t.alerted
    BY <1>2, <2>1, NoneAssumption
       DEF TrackInv, ClocksSound, ClaimConsistent, AlertConsistent, ObjectTrack
  <2>6. Judgeable(c)
    BY <2>3, <2>4, <2>5 DEF Judgeable, Watched
  <2>7. c.state \in Watched
    BY <2>3 DEF Watched
  <2> QED BY <2>4, <2>5, <2>6, <2>7 DEF c
<1> QED BY <1>1, <1>2

(* Judging keeps the invariant.  The absence clock is cleared when the     *)
(* owner is near and keeps running otherwise, and an alert needs that clock*)
(* to have reached the dwell.                                              *)
LEMMA JudgedInv ==
    ASSUME NEW t, Judgeable(t), NEW b \in Blob
    PROVE  LET j == Judged(t, b)
               near == ActuallyNearby(t, b) IN
           /\ TrackInv(j)
           /\ j.state \in Claimable
           /\ j.owner_track_id = t.owner_track_id
           /\ j.owner_absent_since = IF near THEN None ELSE Or(t.owner_absent_since, 0)
           /\ j.alerted => ~near /\ Or(t.owner_absent_since, 0) >= AbandonmentDwell
           /\ j.state = "AWAITING_TARGET" => ~j.alerted
<1> DEFINE near == ActuallyNearby(t, b)
           p == Presence(t, near)
           j == Judged(t, b)
<1>1. t \in ObjectTrack /\ 0 \in Age /\ AbandonmentDwell \in Nat /\ OwnerLostGrace \in Nat
  BY DurationAssumption DEF Judgeable, Age
<1>2. /\ p \in ObjectTrack
      /\ p.state = t.state
      /\ p.owner_track_id = t.owner_track_id
      /\ p.owner_left_at = t.owner_left_at
      /\ p.owner_absent_since = IF near THEN None ELSE Or(t.owner_absent_since, 0)
      /\ p.owner_last_seen_near_at = IF near THEN 0 ELSE t.owner_last_seen_near_at
      /\ p.pending_claim_at = t.pending_claim_at
      /\ p.state_before_pending_claim = t.state_before_pending_claim
      /\ p.alerted = t.alerted
  <2>1. Or(t.owner_absent_since, 0) \in Age
    BY <1>1 DEF Or, ObjectTrack
  <2> QED BY <1>1, <2>1 DEF Presence, ObjectTrack
<1>3. CASE near \/ WithinGrace(p)
  <2>1. j = [p EXCEPT !.state = "STATIC_WITH_OWNER",
                      !.owner_left_at = IF near THEN None ELSE p.owner_left_at]
    BY <1>3 DEF Judged, Attended
  <2>2. /\ j \in ObjectTrack
        /\ j.state = "STATIC_WITH_OWNER"
        /\ j.owner_track_id = p.owner_track_id
        /\ j.owner_left_at = IF near THEN None ELSE p.owner_left_at
        /\ j.owner_absent_since = p.owner_absent_since
        /\ j.pending_claim_at = p.pending_claim_at
        /\ j.state_before_pending_claim = p.state_before_pending_claim
        /\ j.alerted = p.alerted
    BY <1>2, <2>1 DEF ObjectTrack, TrackState, Claimable, Watched
  <2>3. ~near => t.owner_left_at = None
    BY <1>2, <1>3 DEF WithinGrace, Judgeable
  <2> HIDE DEF j, p, near
  <2>4. ~j.alerted /\ j.pending_claim_at = None /\ j.state_before_pending_claim = None
        /\ j.owner_left_at = None
    BY <1>2, <2>2, <2>3 DEF Judgeable
  <2>5. TrackInv(j)
    BY <2>2, <2>4, NoneAssumption
       DEF TrackInv, ClaimConsistent, AlertConsistent, DepartureSound, ClocksSound,
           StateUnderClaim, Or
  <2> QED BY <1>2, <2>2, <2>4, <2>5 DEF j, near, Claimable, Watched
<1>4. CASE ~near /\ ~WithinGrace(p)
  <2> DEFINE u == Unattended(p)
             left == Or(t.owner_absent_since, 0)
  <2>1. left \in Age /\ left # None /\ left \in Nat
    BY <1>1, NoneAssumption, DurationAssumption DEF ObjectTrack, Or, Age
  <2>2. t.owner_left_at # None => t.owner_left_at = left
    BY NoneAssumption DEF Judgeable, Or
  <2>3. Or(p.owner_absent_since, 0) = left
    BY <1>2, <1>4, <2>1 DEF Or
  <2>4. /\ u \in ObjectTrack
        /\ u.state \in {"STATIC_NO_OWNER", "AWAITING_TARGET"}
        /\ u.state = "AWAITING_TARGET" => t.state = "AWAITING_TARGET"
        /\ u.owner_left_at = left
    <3>1. p \in ObjectTrack /\ p.state = t.state /\ p.owner_left_at = t.owner_left_at
      BY <1>2
    <3>2. t.state \in Watched
      BY DEF Judgeable
    <3> DEFINE s == IF p.state = "STATIC_WITH_OWNER" THEN "STATIC_NO_OWNER" ELSE p.state
               l == IF p.state = "STATIC_WITH_OWNER" \/ p.owner_left_at = None
                    THEN Or(p.owner_absent_since, 0) ELSE p.owner_left_at
    <3>3. u = [p EXCEPT !.state = s, !.owner_left_at = l]
      BY DEF Unattended
    <3> HIDE DEF p, u, left
    <3>4. l = left
      BY <2>2, <2>3, <3>1
    <3>5. /\ s \in {"STATIC_NO_OWNER", "AWAITING_TARGET"}
          /\ s = "AWAITING_TARGET" => t.state = "AWAITING_TARGET"
      BY <3>1, <3>2 DEF Watched
    <3>6. s \in TrackState /\ l \in Age \cup {None}
      BY <2>1, <3>4, <3>5 DEF TrackState, Claimable, Watched
    <3> HIDE DEF s, l
    <3>7. u \in ObjectTrack /\ u.state = s /\ u.owner_left_at = l
      BY <3>1, <3>3, <3>6 DEF ObjectTrack
    <3> QED BY <3>4, <3>5, <3>7
  <2>5. /\ u.owner_track_id = t.owner_track_id
        /\ u.owner_absent_since = left
        /\ u.owner_last_seen_near_at = p.owner_last_seen_near_at
        /\ u.pending_claim_at = None
        /\ u.state_before_pending_claim = None
        /\ u.alerted = FALSE
    BY <1>2, <1>4 DEF Unattended, ObjectTrack, Judgeable
  <2>6. j = Escalated(u)
    BY <1>4 DEF Judged
  <2>7. ~WithinGrace(u)
    BY <1>4, <2>5 DEF WithinGrace
  <2>8. u.state = "AWAITING_TARGET" => left >= AbandonmentDwell
    BY <2>2, <2>4 DEF Judgeable
  <2> HIDE DEF u, p, j, near, left
  <2>9. CASE left >= AbandonmentDwell /\ DeferAbandonedEvent
    <3>1. j = [u EXCEPT !.state = "AWAITING_TARGET"]
      BY <2>4, <2>5, <2>6, <2>9 DEF Escalated
    <3>2. /\ j \in ObjectTrack
          /\ j.state = "AWAITING_TARGET"
          /\ j.owner_track_id = t.owner_track_id
          /\ j.owner_left_at = left
          /\ j.owner_absent_since = left
          /\ j.owner_last_seen_near_at = u.owner_last_seen_near_at
          /\ j.pending_claim_at = None
          /\ j.state_before_pending_claim = None
          /\ j.alerted = FALSE
      BY <2>4, <2>5, <3>1 DEF ObjectTrack, TrackState, Claimable, Watched
    <3>3. TrackInv(j)
      BY <2>1, <2>7, <2>9, <3>2, NoneAssumption
         DEF TrackInv, ClaimConsistent, AlertConsistent, DepartureSound, ClocksSound,
             StateUnderClaim, Or, WithinGrace
    <3> QED BY <1>4, <3>2, <3>3 DEF j, near, left, Claimable, Watched
  <2>10. CASE left >= AbandonmentDwell /\ ~DeferAbandonedEvent
    <3>1. j = [u EXCEPT !.alerted = TRUE, !.state = "ABANDONED"]
      BY <2>4, <2>5, <2>6, <2>10 DEF Escalated, Confirm
    <3>2. /\ j \in ObjectTrack
          /\ j.state = "ABANDONED"
          /\ j.owner_track_id = t.owner_track_id
          /\ j.owner_absent_since = left
          /\ j.pending_claim_at = None
          /\ j.state_before_pending_claim = None
          /\ j.alerted = TRUE
      BY <2>4, <2>5, <3>1 DEF ObjectTrack, TrackState, Claimable, Watched
    <3>3. TrackInv(j)
      BY <3>2, NoneAssumption
         DEF TrackInv, ClaimConsistent, AlertConsistent, DepartureSound, ClocksSound,
             StateUnderClaim, Or
    <3> QED BY <1>4, <2>10, <3>2, <3>3 DEF j, near, left, Claimable, Watched
  <2>11. CASE ~(left >= AbandonmentDwell)
    <3>1. j = u
      BY <2>4, <2>6, <2>11 DEF Escalated
    <3>2. TrackInv(u)
      BY <2>1, <2>4, <2>5, <2>7, <2>8, NoneAssumption
         DEF TrackInv, ClaimConsistent, AlertConsistent, DepartureSound, ClocksSound,
             StateUnderClaim, Or
    <3> QED BY <1>4, <2>4, <2>5, <3>1, <3>2 DEF j, near, left, Claimable, Watched
  <2> QED BY <2>9, <2>10, <2>11
<1> QED BY <1>3, <1>4

(* Outside PENDING_CLAIM the state under the claim is the state itself.    *)
LEMMA NotPending ==
    ASSUME NEW t, TrackInv(t), t.state # "PENDING_CLAIM"
    PROVE  t.state_before_pending_claim = None /\ StateUnderClaim(t) = t.state
BY DEF TrackInv, ClaimConsistent, StateUnderClaim, Or

(* The age of the last frame with the owner near, after a sighting.        *)
Since(j, b, since) ==
    IF j.owner_track_id # None /\ b.distance[j.owner_track_id] = "near" THEN 0 ELSE since

(* A frame that shows a track keeps its invariant, and alerts only when    *)
(* the owner was away for the whole dwell.                                 *)
LEMMA ShownInv ==
    ASSUME NEW t, TrackInv(t), NEW b \in Blob, NEW since \in Age, AbsenceSound(t, since)
    PROVE  LET j == Shown(t, b) IN
           /\ TrackInv(j)
           /\ AbsenceSound(j, Since(j, b, since))
           /\ j.alerted /\ ~t.alerted => Since(j, b, since) >= AbandonmentDwell
           /\ t.alerted => j.alerted
<1> DEFINE touched == Touched(t, b)
           back == Reappeared(touched)
           known == Confirmed(back, b)
           j == Shown(t, b)
<1>1. /\ TrackInv(touched)
      /\ touched.state = t.state
      /\ touched.owner_absent_since = t.owner_absent_since
      /\ touched.alerted = t.alerted
      /\ StateUnderClaim(touched) = StateUnderClaim(t)
  BY TouchedInv
<1>2. /\ TrackInv(back)
      /\ back.state # "PENDING_CLAIM"
      /\ back.state = StateUnderClaim(t)
      /\ back.owner_absent_since = t.owner_absent_since
      /\ back.alerted = t.alerted
  BY <1>1, ReappearedInv
<1>3. /\ known.owner_absent_since = back.owner_absent_since
      /\ known.alerted = back.alerted
      /\ known.state \in Watched => Judgeable(known)
      /\ known.state \notin Watched => known = back
      /\ known.state \in Watched /\ back.state \notin Watched => back.owner_absent_since = None
  BY <1>2, ConfirmedInv
<1>4. since \in Nat /\ 0 <= since /\ AbandonmentDwell \in Nat
  BY DurationAssumption DEF Age
<1>5. CASE touched.state \in {"BACKGROUND", "IGNORED"}
  <2>1. j = touched
    BY <1>5 DEF Shown
  <2>2. StateUnderClaim(j) \notin Watched
    BY <1>1, <1>5, <2>1, NotPending DEF Watched
  <2> HIDE DEF touched, j
  <2>3. TrackInv(j) /\ AbsenceSound(j, Since(j, b, since)) /\ (j.alerted <=> t.alerted)
    BY <1>1, <2>1, <2>2 DEF AbsenceSound
  <2> QED BY <2>3 DEF j
<1>6. CASE touched.state \notin {"BACKGROUND", "IGNORED"} /\ known.state \notin Watched
  <2>1. j = back
    BY <1>3, <1>6 DEF Shown
  <2>2. StateUnderClaim(j) \notin Watched
    BY <1>2, <1>3, <1>6, <2>1, NotPending
  <2> HIDE DEF touched, back, known, j
  <2>3. TrackInv(j) /\ AbsenceSound(j, Since(j, b, since)) /\ (j.alerted <=> t.alerted)
    BY <1>2, <2>1, <2>2 DEF AbsenceSound
  <2> QED BY <2>3 DEF j
<1>7. CASE touched.state \notin {"BACKGROUND", "IGNORED"} /\ known.state \in Watched
  <2> DEFINE near == ActuallyNearby(known, b)
  <2>1. j = Judged(known, b)
    BY <1>7 DEF Shown
  <2>2. /\ TrackInv(j)
        /\ j.owner_track_id = known.owner_track_id
        /\ j.owner_absent_since = IF near THEN None ELSE Or(known.owner_absent_since, 0)
        /\ j.alerted => ~near /\ Or(known.owner_absent_since, 0) >= AbandonmentDwell
    BY <1>3, <1>7, <2>1, JudgedInv
  <2>3. ~near => Since(j, b, since) = since
    BY <2>2 DEF Since, ActuallyNearby
  <2>4. Or(known.owner_absent_since, 0) <= since /\ Or(known.owner_absent_since, 0) \in Nat
    <3>1. CASE t.owner_absent_since = None
      BY <1>2, <1>3, <1>4, <3>1 DEF Or
    <3>2. CASE t.owner_absent_since # None
      <4>1. back.state \in Watched
        BY <1>2, <1>3, <1>7, <3>2
      <4>2. t.owner_absent_since <= since
        BY <1>2, <3>2, <4>1 DEF AbsenceSound
      <4>3. t.owner_absent_since \in Nat
        BY <3>2, DurationAssumption DEF TrackInv, ObjectTrack, Age
      <4> QED BY <1>2, <1>3, <3>2, <4>2, <4>3 DEF Or
    <3> QED BY <3>1, <3>2
  <2>5. ~t.alerted
    BY <1>2, <1>3, <1>7 DEF Judgeable
  <2> HIDE DEF touched, back, known, near, j
  <2>6. AbsenceSound(j, Since(j, b, since))
    BY <2>2, <2>3, <2>4 DEF AbsenceSound
  <2>7. j.alerted => Since(j, b, since) >= AbandonmentDwell
    BY <1>4, <2>2, <2>3, <2>4
  <2> QED BY <2>2, <2>5, <2>6, <2>7 DEF j
<1> QED BY <1>5, <1>6, <1>7

(* A frame that misses a track at most starts a claim.                     *)
LEMMA MissedInv ==
    ASSUME NEW t, TrackInv(t), NEW g, NEW since, AbsenceSound(t, since)
    PROVE  /\ TrackInv(Missed(t, g))
           /\ AbsenceSound(Missed(t, g), since)
           /\ Missed(t, g).alerted = t.alerted
<1> DEFINE m == Missed(t, g)
<1>1. CASE ~Overlapped(t, g)
  BY <1>1 DEF Missed
<1>2. CASE Overlapped(t, g)
  <2>1. t \in ObjectTrack /\ t.state \in Claimable /\ t.state # "PENDING_CLAIM" /\ t.state # "CONFIRMING"
    BY <1>2 DEF Overlapped, TrackInv, Claimable, Watched
  <2>2. StateUnderClaim(t) = t.state /\ t.state # None /\ t.state_before_pending_claim = None
    BY <2>1, NotPending, NoneAssumption DEF Claimable, Watched
  <2>3. 0 \in Age /\ 0 # None
    BY DurationAssumption, NoneAssumption DEF Age
  <2>4. m = [t EXCEPT !.state_before_pending_claim = t.state, !.state = "PENDING_CLAIM",
                      !.pending_claim_at = 0]
    BY <1>2 DEF Missed
  <2>5. /\ m \in ObjectTrack
        /\ m.state = "PENDING_CLAIM"
        /\ m.state_before_pending_claim = t.state
        /\ m.pending_claim_at = 0
        /\ m.owner_left_at = t.owner_left_at
        /\ m.owner_absent_since = t.owner_absent_since
        /\ m.owner_last_seen_near_at = t.owner_last_seen_near_at
        /\ m.alerted = t.alerted
    BY <2>1, <2>3, <2>4 DEF ObjectTrack, TrackState
  <2> HIDE DEF m
  <2>6. StateUnderClaim(m) = t.state
    BY <2>2, <2>5 DEF StateUnderClaim, Or
  <2>7. WithinGrace(m) <=> WithinGrace(t)
    BY <2>5 DEF WithinGrace
  <2>8. AlertConsistent(m)
    BY <2>1, <2>2, <2>5, NoneAssumption DEF TrackInv, AlertConsistent
  <2>9. ClaimConsistent(m) /\ DepartureSound(m) /\ ClocksSound(m)
    BY <2>2, <2>3, <2>5, <2>6, <2>7
       DEF TrackInv, ClaimConsistent, DepartureSound, ClocksSound
  <2> QED BY <2>2, <2>5, <2>6, <2>8, <2>9 DEF m, TrackInv, AbsenceSound
<1> QED BY <1>1, <1>2

(* Ages only grow, up to Horizon.                                          *)
LEMMA OlderInv ==
    ASSUME NEW a \in Age
    PROVE  Older(a) \in Age /\ Older(a) >= a /\ Older(a) # None /\ a \in Nat /\ a # None
BY DurationAssumption, NoneAssumption DEF Age, Older

LEMMA OlderMonotone ==
    ASSUME NEW a \in Age, NEW b \in Age, a <= b
    PROVE  Older(a) <= Older(b)
BY DurationAssumption DEF Age, Older

(* Time passing keeps the invariant.                                       *)
LEMMA AgedInv ==
    ASSUME NEW t, TrackInv(t), NEW since \in Age, AbsenceSound(t, since)
    PROVE  /\ TrackInv(Aged(t))
           /\ AbsenceSound(Aged(t), Older(since))
           /\ Aged(t).alerted = t.alerted
           /\ Aged(t).state = t.state
<1> DEFINE m == Aged(t)
<1>1. t \in ObjectTrack
  BY DEF TrackInv
<1>2. \A a \in Age \cup {None} :
        /\ OlderOrNone(a) \in Age \cup {None}
        /\ OlderOrNone(a) = None <=> a = None
        /\ a # None => a \in Nat /\ OlderOrNone(a) \in Nat /\ OlderOrNone(a) >= a
  BY OlderInv, DurationAssumption, NoneAssumption DEF OlderOrNone, Age
<1>3. /\ m \in ObjectTrack
      /\ m.state = t.state
      /\ m.owner_left_at = OlderOrNone(t.owner_left_at)
      /\ m.owner_absent_since = OlderOrNone(t.owner_absent_since)
      /\ m.owner_last_seen_near_at = OlderOrNone(t.owner_last_seen_near_at)
      /\ m.pending_claim_at = OlderOrNone(t.pending_claim_at)
      /\ m.state_before_pending_claim = t.state_before_pending_claim
      /\ m.alerted = t.alerted
  <2>1. Older(t.last_seen_at) \in Age
    BY <1>1, OlderInv DEF ObjectTrack
  <2> QED BY <1>1, <1>2, <2>1 DEF Aged, ObjectTrack
<1>4. /\ t.owner_left_at \in Age \cup {None}
      /\ t.owner_absent_since \in Age \cup {None}
      /\ t.owner_last_seen_near_at \in Age \cup {None}
      /\ t.pending_claim_at \in Age \cup {None}
  BY <1>1 DEF ObjectTrack
<1> HIDE DEF m
<1>5. StateUnderClaim(m) = StateUnderClaim(t)
  BY <1>3 DEF StateUnderClaim
<1>6. ClaimConsistent(m) /\ AlertConsistent(m)
  BY <1>2, <1>3, <1>4 DEF TrackInv, ClaimConsistent, AlertConsistent
<1>7. WithinGrace(m) => WithinGrace(t)
  BY <1>2, <1>3, <1>4, DurationAssumption DEF WithinGrace
<1>8. ClocksSound(m)
  BY <1>2, <1>3, <1>4, <1>5, <1>7 DEF TrackInv, ClocksSound
<1>9. DepartureSound(m)
  <2>1. StateUnderClaim(t) = "AWAITING_TARGET" =>
           t.owner_left_at # None /\ t.owner_left_at >= AbandonmentDwell
    BY DEF TrackInv, DepartureSound
  <2>2. StateUnderClaim(m) = "AWAITING_TARGET" => m.owner_left_at >= AbandonmentDwell
    BY <1>2, <1>3, <1>4, <1>5, <2>1, DurationAssumption
  <2> QED BY <1>2, <1>3, <1>4, <1>5, <2>2 DEF TrackInv, DepartureSound
<1>10. AbsenceSound(m, Older(since))
  BY <1>2, <1>3, <1>4, <1>5, OlderMonotone DEF AbsenceSound, OlderOrNone
<1> QED BY <1>3, <1>6, <1>8, <1>9, <1>10 DEF m, TrackInv

(* The two verdicts of the gate on a track that awaits one.                *)
LEMMA VerdictInv ==
    ASSUME NEW t, TrackInv(t), t.state = "AWAITING_TARGET", NEW since \in Age, AbsenceSound(t, since)
    PROVE  /\ ~t.alerted
           /\ TrackInv(Confirm(t)) /\ AbsenceSound(Confirm(t), since) /\ Confirm(t).alerted
           /\ since >= AbandonmentDwell
           /\ TrackInv([t EXCEPT !.state = "IGNORED"])
           /\ AbsenceSound([t EXCEPT !.state = "IGNORED"], since)
           /\ ~[t EXCEPT !.state = "IGNORED"].alerted
<1>1. t \in ObjectTrack /\ t.state_before_pending_claim = None /\ t.pending_claim_at = None
  BY NotPending DEF TrackInv, ClaimConsistent
<1>2. StateUnderClaim(t) = "AWAITING_TARGET"
  BY NotPending
<1>3. ~t.alerted
  BY <1>1, NoneAssumption DEF TrackInv, AlertConsistent
<1>4. since >= AbandonmentDwell
  <2>1. /\ t.owner_left_at # None
        /\ t.owner_left_at = t.owner_absent_since
        /\ t.owner_left_at >= AbandonmentDwell
    BY <1>2 DEF TrackInv, DepartureSound
  <2>2. t.owner_absent_since <= since
    BY <1>2, <2>1 DEF AbsenceSound, Watched
  <2>3. t.owner_absent_since \in Nat /\ since \in Nat /\ AbandonmentDwell \in Nat
    BY <1>1, <2>1, DurationAssumption DEF ObjectTrack, Age
  <2> QED BY <2>1, <2>2, <2>3
<1>5. ASSUME NEW m \in {Confirm(t), [t EXCEPT !.state = "IGNORED"]}
      PROVE  TrackInv(m) /\ AbsenceSound(m, since) /\ (m.alerted <=> m = Confirm(t))
  <2>1. /\ m \in ObjectTrack
        /\ m.state \in {"ABANDONED", "IGNORED"}
        /\ m.alerted <=> m.state = "ABANDONED"
        /\ m.alerted <=> m = Confirm(t)
        /\ m.pending_claim_at = None
        /\ m.state_before_pending_claim = None
    BY <1>1, <1>3 DEF Confirm, ObjectTrack, TrackState, Claimable, Watched
  <2>2. StateUnderClaim(m) = m.state
    BY <2>1 DEF StateUnderClaim, Or
  <2> QED BY <2>1, <2>2, NoneAssumption
          DEF TrackInv, ClaimConsistent, AlertConsistent, DepartureSound, ClocksSound,
              AbsenceSound, Watched
<1>6. /\ TrackInv(Confirm(t)) /\ AbsenceSound(Confirm(t), since) /\ Confirm(t).alerted
      /\ TrackInv([t EXCEPT !.state = "IGNORED"])
      /\ AbsenceSound([t EXCEPT !.state = "IGNORED"], since)
  BY <1>5
<1>7. ~[t EXCEPT !.state = "IGNORED"].alerted
  BY <1>1, <1>3 DEF ObjectTrack
<1> QED BY <1>3, <1>4, <1>6, <1>7

-----------------------------------------------------------------------------
(* From one track to the actions *)

AlertsAfterAbsence ==
    \A o \in Objects : ~Alerted(o) /\ Alerted(o)' => owner_by'[o] >= AbandonmentDwell

LEMMA EventTyped ==
    ASSUME NEW o \in Objects, NEW t,
           NEW type \in {"object_abandoned", "target_verification_requested",
                         "object_claimed", "object_removed"}
    PROVE  /\ Event(type, o, t) \in EventRecord
           /\ Event(type, o, t).event_type = type
           /\ Event(type, o, t).object_id = o
BY DEF Event, EventRecord

LEMMA InitInv == Init => TrackerInv
BY DurationAssumption DEF Init, TrackerInv, TypeOK, RequestsAwait, Age

LEMMA TickInv == TrackerInv /\ Tick => TrackerInv' /\ AlertsAfterAbsence
<1> SUFFICES ASSUME TrackerInv, Tick PROVE TrackerInv' /\ AlertsAfterAbsence
  OBVIOUS
<1>1. /\ DOMAIN tracks' = DOMAIN tracks
      /\ \A o \in DOMAIN tracks : tracks'[o] = Aged(tracks[o])
      /\ tracks' = [o \in DOMAIN tracks |-> Aged(tracks[o])]
  BY DEF Tick
<1>2. \A o \in Objects : owner_by'[o] = Older(owner_by[o]) /\ owner_by[o] \in Age
  BY DEF Tick, TrackerInv, TypeOK
<1>3. \A o \in DOMAIN tracks : /\ o \in Objects
                               /\ TrackInv(tracks'[o])
                               /\ AbsenceSound(tracks'[o], owner_by'[o])
                               /\ tracks'[o].alerted = tracks[o].alerted
  BY <1>1, <1>2, AgedInv DEF TrackerInv, TypeOK
<1>4. TypeOK'
  <2>1. owner_by' \in [Objects -> Age]
    BY <1>2, OlderInv DEF Tick
  <2>2. tracks' \in [DOMAIN tracks' -> ObjectTrack]
    BY <1>1, <1>3 DEF TrackInv
  <2> QED BY <1>1, <2>1, <2>2 DEF Tick, TrackerInv, TypeOK
<1>5. RequestsAwait'
  BY DEF Tick, RequestsAwait
<1>6. AlertsAfterAbsence
  BY <1>1, <1>3 DEF AlertsAfterAbsence, Alerted
<1> QED BY <1>1, <1>3, <1>4, <1>5, <1>6 DEF TrackerInv

(* The tracks an update leaves, and what each of them came from.           *)
LEMMA UpdateTracks ==
    ASSUME TrackerInv, NEW frame \in [Objects -> Sighting], Update(frame)
    PROVE  /\ DOMAIN tracks' \subseteq Objects
           /\ tracks' = [o \in DOMAIN tracks' |-> tracks'[o]]
           /\ \A o \in DOMAIN tracks' :
                 /\ TrackInv(tracks'[o])
                 /\ AbsenceSound(tracks'[o], owner_by'[o])
                 /\ tracks'[o].alerted /\ ~Alerted(o) => owner_by'[o] >= AbandonmentDwell
                 /\ tracks'[o].alerted /\ ~frame[o].shown => Alerted(o)
                 /\ Alerted(o) => tracks'[o].alerted
                 /\ frame[o].shown \/ o \in DOMAIN tracks
<1> DEFINE shown == {o \in Objects : frame[o].shown}
           missing == DOMAIN tracks \ shown
           claimed == {o \in missing : PickedUp(tracks[o])}
           lost == {o \in missing : LostFromView(tracks[o], frame[o])}
           kept == shown \cup (missing \ (claimed \cup lost))
           near(o) == \/ o \notin DOMAIN tracks
                      \/ /\ tracks'[o].owner_track_id # None
                         /\ frame[o].distance[tracks'[o].owner_track_id] = "near"
<1>1. tracks' = [o \in kept |-> IF o \in shown THEN Observe(o, frame[o])
                                             ELSE Missed(tracks[o], frame[o])]
  BY DEF Update
<1>2. owner_by' = [o \in Objects |-> IF o \in shown /\ near(o) THEN 0 ELSE owner_by[o]]
  BY DEF Update
<1>3. DOMAIN tracks \subseteq Objects /\ \A o \in Objects : owner_by[o] \in Age
  BY DEF TrackerInv, TypeOK
<1>4. \A o \in DOMAIN tracks : TrackInv(tracks[o]) /\ AbsenceSound(tracks[o], owner_by[o])
  BY DEF TrackerInv
<1>5. \A o \in shown : frame[o] \in Blob
  BY DEF Sighting, Gap
<1> HIDE DEF near
<1>6. ASSUME NEW o \in kept, o \in shown, o \in DOMAIN tracks
      PROVE  /\ TrackInv(tracks'[o])
             /\ AbsenceSound(tracks'[o], owner_by'[o])
             /\ tracks'[o].alerted /\ ~Alerted(o) => owner_by'[o] >= AbandonmentDwell
             /\ Alerted(o) => tracks'[o].alerted
  <2>1. tracks'[o] = Shown(tracks[o], frame[o])
    BY <1>1, <1>6 DEF Observe
  <2>2. owner_by'[o] = Since(tracks'[o], frame[o], owner_by[o])
    BY <1>2, <1>3, <1>6 DEF Since, near
  <2> QED BY <1>3, <1>4, <1>5, <1>6, <2>1, <2>2, ShownInv DEF Alerted
<1>7. ASSUME NEW o \in kept, o \in shown, o \notin DOMAIN tracks
      PROVE  /\ TrackInv(tracks'[o])
             /\ AbsenceSound(tracks'[o], owner_by'[o])
             /\ tracks'[o].alerted => owner_by'[o] >= AbandonmentDwell
  <2>1. owner_by'[o] = 0 /\ 0 \in Age
    BY <1>2, <1>7, DurationAssumption DEF near, Age
  <2>2. CASE baseline
    <3>1. tracks'[o] = NewTrack("BACKGROUND")
      BY <1>1, <1>7, <2>2 DEF Observe
    <3> QED BY <2>1, <3>1, NewTrackInv DEF NewTrack, AbsenceSound
  <2>3. CASE ~baseline
    <3>1. tracks'[o] = Shown(NewTrack("CONFIRMING"), frame[o])
      BY <1>1, <1>7, <2>3 DEF Observe
    <3>2. TrackInv(NewTrack("CONFIRMING")) /\ AbsenceSound(NewTrack("CONFIRMING"), 0)
      BY NewTrackInv DEF NewTrack, AbsenceSound
    <3>3. Since(tracks'[o], frame[o], 0) = 0
      BY DEF Since
    <3>4. ~NewTrack("CONFIRMING").alerted
      BY DEF NewTrack
    <3> QED BY <1>5, <1>7, <2>1, <3>1, <3>2, <3>3, <3>4, ShownInv
  <2> QED BY <2>2, <2>3
<1>8. ASSUME NEW o \in kept, o \notin shown
      PROVE  /\ o \in DOMAIN tracks
             /\ TrackInv(tracks'[o])
             /\ AbsenceSound(tracks'[o], owner_by'[o])
             /\ tracks'[o].alerted = tracks[o].alerted
  <2>1. o \in DOMAIN tracks /\ tracks'[o] = Missed(tracks[o], frame[o])
    BY <1>1, <1>8
  <2>2. owner_by'[o] = owner_by[o]
    BY <1>2, <1>3, <1>8, <2>1
  <2> QED BY <1>4, <2>1, <2>2, MissedInv
<1>9. kept \subseteq Objects /\ DOMAIN tracks' = kept
  BY <1>1, <1>3
<1>10. tracks' = [o \in DOMAIN tracks' |-> tracks'[o]]
  BY <1>1
<1> HIDE DEF kept
<1>11. \A o \in kept : o \in shown <=> frame[o].shown
  BY <1>9
<1> HIDE DEF shown
<1> QED BY <1>6, <1>7, <1>8, <1>9, <1>10, <1>11 DEF Alerted

LEMMA UpdateInv ==
    ASSUME NEW frame \in [Objects -> Sighting]
    PROVE  TrackerInv /\ Update(frame) => TrackerInv' /\ AlertsAfterAbsence
<1> SUFFICES ASSUME TrackerInv, Update(frame) PROVE TrackerInv' /\ AlertsAfterAbsence
  OBVIOUS
<1>1. /\ DOMAIN tracks' \subseteq Objects
      /\ tracks' = [o \in DOMAIN tracks' |-> tracks'[o]]
      /\ \A o \in DOMAIN tracks' :
            /\ TrackInv(tracks'[o])
            /\ AbsenceSound(tracks'[o], owner_by'[o])
            /\ tracks'[o].alerted /\ ~Alerted(o) => owner_by'[o] >= AbandonmentDwell
  BY UpdateTracks
<1>2. tracks' \in [DOMAIN tracks' -> ObjectTrack]
  BY <1>1 DEF TrackInv
<1>3. events' \subseteq EventRecord /\ RequestsAwait'
  <2> SUFFICES ASSUME NEW e \in events'
               PROVE  /\ e \in EventRecord
                      /\ e.event_type = "target_verification_requested"
                            => tracks'[e.object_id].state = "AWAITING_TARGET"
    BY DEF RequestsAwait
  <2>1. DOMAIN tracks \subseteq Objects
    BY DEF TrackerInv, TypeOK
  <2>2. \/ \E o \in Objects : e = Event("object_abandoned", o, tracks'[o])
        \/ \E o \in Objects : /\ e = Event("target_verification_requested", o, tracks'[o])
                              /\ tracks'[o].state = "AWAITING_TARGET"
        \/ \E o \in Objects : e = Event("object_claimed", o, tracks[o])
        \/ \E o \in Objects : e = Event("object_removed", o, tracks[o])
    BY <2>1 DEF Update, Closings
  <2> QED BY <2>2, EventTyped
<1>4. owner_by' \in [Objects -> Age]
  <2>1. owner_by \in [Objects -> Age] /\ 0 \in Age
    BY DurationAssumption DEF TrackerInv, TypeOK, Age
  <2> DEFINE Attends(o) == /\ frame[o].shown
                           /\ \/ o \notin DOMAIN tracks
                              \/ /\ tracks'[o].owner_track_id # None
                                 /\ frame[o].distance[tracks'[o].owner_track_id] = "near"
  <2>2. owner_by' = [o \in Objects |-> IF Attends(o) THEN 0 ELSE owner_by[o]]
    BY DEF Update
  <2> HIDE DEF Attends
  <2> QED BY <2>1, <2>2
<1>5. TypeOK'
  BY <1>1, <1>2, <1>3, <1>4 DEF TrackerInv, TypeOK, Update
<1> QED BY <1>1, <1>3, <1>5 DEF TrackerInv, AlertsAfterAbsence, Alerted

LEMMA ConfirmAbandonedInv ==
    ASSUME NEW o \in Objects
    PROVE  TrackerInv /\ ConfirmAbandoned(o) => TrackerInv' /\ AlertsAfterAbsence
<1> SUFFICES ASSUME TrackerInv, ConfirmAbandoned(o) PROVE TrackerInv' /\ AlertsAfterAbsence
  OBVIOUS
<1>1. UNCHANGED <<seen, baseline, owner_by>> /\ owner_by[o] \in Age
  BY DEF ConfirmAbandoned, TrackerInv, TypeOK
<1>2. CASE ~(o \in DOMAIN tracks /\ ~tracks[o].alerted)
  BY <1>1, <1>2 DEF ConfirmAbandoned, TrackerInv, TypeOK, RequestsAwait, AlertsAfterAbsence, Alerted
<1>3. CASE o \in DOMAIN tracks /\ ~tracks[o].alerted
  <2>1. /\ tracks' = [tracks EXCEPT ![o] = Confirm(tracks[o])]
        /\ events' = (events \ RequestOf(o)) \cup {Event("object_abandoned", o, tracks'[o])}
    BY <1>3 DEF ConfirmAbandoned
  <2>2. tracks[o].state = "AWAITING_TARGET"
    BY <1>3 DEF ConfirmAbandoned, Requested, TrackerInv, RequestsAwait
  <2>3. TrackInv(tracks[o]) /\ AbsenceSound(tracks[o], owner_by[o])
    BY <1>3 DEF TrackerInv
  <2>4. /\ TrackInv(tracks'[o])
        /\ AbsenceSound(tracks'[o], owner_by'[o])
        /\ owner_by'[o] >= AbandonmentDwell
    BY <1>1, <1>3, <2>1, <2>2, <2>3, VerdictInv
  <2>5. /\ DOMAIN tracks' = DOMAIN tracks
        /\ \A p \in DOMAIN tracks : p # o => tracks'[p] = tracks[p]
    BY <2>1
  <2>6. tracks' \in [DOMAIN tracks' -> ObjectTrack]
    BY <2>1, <2>4, <2>5 DEF TrackerInv, TypeOK, TrackInv
  <2>7. events' \subseteq EventRecord
    BY <2>1, EventTyped DEF TrackerInv, TypeOK
  <2>8. RequestsAwait'
    <3> SUFFICES ASSUME NEW e \in events', e.event_type = "target_verification_requested",
                        e.object_id \in DOMAIN tracks'
                 PROVE  tracks'[e.object_id].state = "AWAITING_TARGET"
      BY DEF RequestsAwait
    <3>1. e \in events /\ e.object_id # o
      BY <2>1, EventTyped DEF RequestOf
    <3> QED BY <2>5, <3>1 DEF TrackerInv, RequestsAwait
  <2>9. TypeOK'
    BY <1>1, <2>5, <2>6, <2>7 DEF TrackerInv, TypeOK
  <2>10. AlertsAfterAbsence
    BY <2>4, <2>5 DEF AlertsAfterAbsence, Alerted
  <2>11. \A p \in DOMAIN tracks' : TrackInv(tracks'[p]) /\ AbsenceSound(tracks'[p], owner_by'[p])
    BY <1>1, <2>4, <2>5 DEF TrackerInv
  <2> QED BY <2>8, <2>9, <2>10, <2>11 DEF TrackerInv
<1> QED BY <1>2, <1>3

LEMMA RejectTargetInv ==
    ASSUME NEW o \in Objects
    PROVE  TrackerInv /\ RejectTarget(o) => TrackerInv' /\ AlertsAfterAbsence
<1> SUFFICES ASSUME TrackerInv, RejectTarget(o) PROVE TrackerInv' /\ AlertsAfterAbsence
  OBVIOUS
<1>1. /\ UNCHANGED <<seen, baseline, owner_by>> /\ owner_by[o] \in Age
      /\ events' = events \ RequestOf(o)
  BY DEF RejectTarget, TrackerInv, TypeOK
<1>2. CASE ~(o \in DOMAIN tracks /\ ~tracks[o].alerted)
  BY <1>1, <1>2 DEF RejectTarget, TrackerInv, TypeOK, RequestsAwait, AlertsAfterAbsence, Alerted
<1>3. CASE o \in DOMAIN tracks /\ ~tracks[o].alerted
  <2>1. /\ DOMAIN tracks' = DOMAIN tracks
        /\ \A p \in DOMAIN tracks : p # o => tracks'[p] = tracks[p]
        /\ tracks'[o] = [tracks[o] EXCEPT !.state = "IGNORED"]
        /\ tracks' = [p \in DOMAIN tracks' |-> tracks'[p]]
    BY <1>3 DEF RejectTarget
  <2>2. tracks[o].state = "AWAITING_TARGET"
    BY <1>3 DEF RejectTarget, Requested, TrackerInv, RequestsAwait
  <2>3. TrackInv(tracks[o]) /\ AbsenceSound(tracks[o], owner_by[o])
    BY <1>3 DEF TrackerInv
  <2>4. TrackInv(tracks'[o]) /\ AbsenceSound(tracks'[o], owner_by'[o]) /\ ~tracks'[o].alerted
    BY <1>1, <2>1, <2>2, <2>3, VerdictInv
  <2>5. \A p \in DOMAIN tracks' : TrackInv(tracks'[p]) /\ AbsenceSound(tracks'[p], owner_by'[p])
    BY <1>1, <2>1, <2>4 DEF TrackerInv
  <2>6. RequestsAwait'
    BY <1>1, <2>1 DEF TrackerInv, RequestsAwait, RequestOf
  <2>7. TypeOK'
    BY <1>1, <2>1, <2>5 DEF TrackerInv, TypeOK, TrackInv
  <2>8. AlertsAfterAbsence
    BY <2>1, <2>4 DEF AlertsAfterAbsence, Alerted
  <2> QED BY <2>5, <2>6, <2>7, <2>8 DEF TrackerInv
<1> QED BY <1>2, <1>3

LEMMA ClearCameraInv == TrackerInv /\ ClearCamera => TrackerInv' /\ AlertsAfterAbsence
BY DEF ClearCamera, TrackerInv, TypeOK, RequestsAwait, AlertsAfterAbsence, Alerted

LEMMA StepInv == TrackerInv /\ [Next]_vars => TrackerInv' /\ (AlertsAfterAbsence \/ UNCHANGED vars)
<1> SUFFICES ASSUME TrackerInv, [Next]_vars
             PROVE  TrackerInv' /\ (AlertsAfterAbsence \/ UNCHANGED vars)
  OBVIOUS
<1>1. CASE Tick
  BY <1>1, TickInv
<1>2. ASSUME NEW frame \in [Objects -> Sighting], Update(frame)
      PROVE  TrackerInv' /\ AlertsAfterAbsence
  BY <1>2, UpdateInv
<1>3. ASSUME NEW o \in Objects, ConfirmAbandoned(o)
      PROVE  TrackerInv' /\ AlertsAfterAbsence
  BY <1>3, ConfirmAbandonedInv
<1>4. ASSUME NEW o \in Objects, RejectTarget(o)
      PROVE  TrackerInv' /\ AlertsAfterAbsence
  BY <1>4, RejectTargetInv
<1>5. CASE ClearCamera
  BY <1>5, ClearCameraInv
<1>6. CASE UNCHANGED vars
  BY <1>6 DEF vars, TrackerInv, TypeOK, RequestsAwait
<1> QED BY <1>1, <1>2, <1>3, <1>4, <1>5, <1>6 DEF Next

-----------------------------------------------------------------------------
(* Theorems *)

(* TrackerInv is an invariant of the tracker.                              *)
THEOREM Invariance == Spec => []TrackerInv
<1>1. Init => TrackerInv
  BY InitInv
<1>2. TrackerInv /\ [Next]_vars => TrackerInv'
  BY StepInv
<1> QED BY <1>1, <1>2, PTL DEF Spec

(* Every variable keeps its type.                                          *)
THEOREM TypeCorrect == Spec => []TypeOK
<1>1. TrackerInv => TypeOK
  BY DEF TrackerInv
<1> QED BY <1>1, Invariance, PTL

(* Claim bookkeeping, alert flag and departure clock agree with the state  *)
(* of every track, through occlusions, returns and verdicts.               *)
THEOREM TrackSafety ==
    Spec => [](PendingClaimConsistent /\ AlertedIffAbandoned /\ DepartureClockSound)
<1>1. TrackerInv => PendingClaimConsistent /\ AlertedIffAbandoned /\ DepartureClockSound
  BY DEF TrackerInv, TrackInv, PendingClaimConsistent, AlertedIffAbandoned, DepartureClockSound
<1> QED BY <1>1, Invariance, PTL

(* Nothing is reported, by update or by the gate's verdict, before its     *)
(* owner has been away for abandonment_dwell_seconds.                      *)
THEOREM AlertTiming == Spec => AlertOnlyAfterAbsence
<1>1. TrackerInv /\ [Next]_vars => [AlertsAfterAbsence]_vars
  BY StepInv
<1>2. Spec => [][AlertsAfterAbsence]_vars
  BY <1>1, Invariance, PTL DEF Spec
<1> QED BY <1>2 DEF AlertOnlyAfterAbsence, AlertsAfterAbsence

-----------------------------------------------------------------------------
(* What a step may not do to a track *)

(* What one step may not do to a track: give a silent one another state,   *)
(* or replace an association once made.                                    *)
Continues(t, u) ==
    /\ t.state \in {"BACKGROUND", "IGNORED"} => u.state = t.state
    /\ t.owner_track_id \in {None, u.owner_track_id}
    /\ t.related_vehicle_id \in {None, u.related_vehicle_id}

(* Judging does not touch the vehicle.                                     *)
LEMMA JudgedKeepsVehicle ==
    ASSUME NEW t \in ObjectTrack, NEW b \in Blob
    PROVE  Judged(t, b).related_vehicle_id = t.related_vehicle_id
<1> DEFINE near == ActuallyNearby(t, b)
           p == Presence(t, near)
           u == Unattended(p)
<1>1. p.related_vehicle_id = t.related_vehicle_id
  BY DEF Presence, ObjectTrack
<1>2. DOMAIN p = DOMAIN t /\ "related_vehicle_id" \in DOMAIN p
  BY DEF Presence, ObjectTrack
<1> HIDE DEF p
<1>3. Attended(p, near).related_vehicle_id = p.related_vehicle_id
  BY <1>2 DEF Attended
<1>4. /\ u.related_vehicle_id = p.related_vehicle_id
      /\ DOMAIN u = DOMAIN p
  BY <1>2 DEF Unattended
<1> HIDE DEF u
<1>5. Escalated(u).related_vehicle_id = u.related_vehicle_id
  BY <1>2, <1>4 DEF Escalated, Confirm
<1>6. Judged(t, b) \in {Attended(p, near), Escalated(u)}
  BY DEF Judged, p, u
<1> QED BY <1>1, <1>3, <1>4, <1>5, <1>6

(* A frame that shows a track continues it.                                *)
LEMMA ShownContinues ==
    ASSUME NEW t, TrackInv(t), NEW b \in Blob
    PROVE  Continues(t, Shown(t, b))
<1> DEFINE touched == Touched(t, b)
           back == Reappeared(touched)
           known == Confirmed(back, b)
<1>1. t \in ObjectTrack
  BY DEF TrackInv
<1>2. /\ touched.state = t.state
      /\ t.owner_track_id \in {None, touched.owner_track_id}
      /\ t.related_vehicle_id \in {None, touched.related_vehicle_id}
      /\ TrackInv(touched)
  BY <1>1, TouchedInv DEF Touched, ObjectTrack, Or
<1>3. touched \in ObjectTrack
  BY <1>2 DEF TrackInv
<1> HIDE DEF touched
<1>4. /\ TrackInv(back)
      /\ back.state # "PENDING_CLAIM"
      /\ back.owner_track_id = touched.owner_track_id
      /\ back.related_vehicle_id = touched.related_vehicle_id
  BY <1>2, <1>3, ReappearedInv DEF Reappeared, ObjectTrack
<1>5. back \in ObjectTrack
  BY <1>4 DEF TrackInv
<1> HIDE DEF back
<1>6. /\ back.owner_track_id \in {None, known.owner_track_id}
      /\ known.related_vehicle_id = back.related_vehicle_id
  BY <1>5 DEF Confirmed, ObjectTrack, Or
<1>7. known.state \in Watched => Judgeable(known)
  BY <1>4, ConfirmedInv
<1> HIDE DEF known
<1>8. CASE touched.state \in {"BACKGROUND", "IGNORED"}
  BY <1>2, <1>8 DEF Shown, Continues, touched
<1>9. CASE touched.state \notin {"BACKGROUND", "IGNORED"} /\ known.state \notin Watched
  <2>1. Shown(t, b) = known
    BY <1>9 DEF Shown, known, back, touched
  <2> QED BY <1>2, <1>4, <1>6, <1>9, <2>1 DEF Continues
<1>10. CASE touched.state \notin {"BACKGROUND", "IGNORED"} /\ known.state \in Watched
  <2>1. Shown(t, b) = Judged(known, b)
    BY <1>10 DEF Shown, known, back, touched
  <2>2. /\ Judged(known, b).owner_track_id = known.owner_track_id
        /\ Judged(known, b).related_vehicle_id = known.related_vehicle_id
    BY <1>7, <1>10, JudgedInv, JudgedKeepsVehicle DEF Judgeable
  <2> QED BY <1>2, <1>4, <1>6, <1>10, <2>1, <2>2 DEF Continues
<1> QED BY <1>8, <1>9, <1>10

(* A frame that alerts a track shows its owner, if it has one, away from   *)
(* it, and a track is only confirmed without an owner when the lookup of   *)
(* that frame found none.                                                  *)
LEMMA ShownOwner ==
    ASSUME NEW t, TrackInv(t), NEW b \in Blob
    PROVE  LET j == Shown(t, b) IN
           /\ j.alerted /\ ~t.alerted =>
                 j.owner_track_id = None \/ b.distance[j.owner_track_id] # "near"
           /\ t.state = "CONFIRMING" /\ j.state # "CONFIRMING" /\ j.owner_track_id = None =>
                 b.owner_lookup = None
<1> DEFINE touched == Touched(t, b)
           back == Reappeared(touched)
           known == Confirmed(back, b)
           j == Shown(t, b)
<1>1. /\ TrackInv(touched)
      /\ touched.state = t.state
      /\ touched.alerted = t.alerted
  BY TouchedInv
<1>2. /\ TrackInv(back)
      /\ back.state # "PENDING_CLAIM"
      /\ back.alerted = t.alerted
      /\ t.state = "CONFIRMING" => back.state = "CONFIRMING"
  BY <1>1, ReappearedInv DEF Reappeared
<1>3. /\ known.alerted = back.alerted
      /\ known.state \in Watched => Judgeable(known)
      /\ known.state \notin Watched => known = back
  BY <1>2, ConfirmedInv
<1>4. ASSUME back.state = "CONFIRMING", known.state # "CONFIRMING", known.owner_track_id = None
      PROVE  b.owner_lookup = None
  <2>1. back \in ObjectTrack
    BY <1>2 DEF TrackInv
  <2>2. known.owner_track_id = Or(back.owner_track_id, b.owner_lookup)
    BY <1>4, <2>1 DEF Confirmed, ObjectTrack
  <2> QED BY <1>4, <2>2 DEF Or
<1>5. j = IF touched.state \in {"BACKGROUND", "IGNORED"} THEN touched
          ELSE IF known.state \in Watched THEN Judged(known, b) ELSE known
  BY DEF Shown
<1> HIDE DEF touched, back, known, j
<1>6. CASE touched.state \in {"BACKGROUND", "IGNORED"}
  BY <1>1, <1>5, <1>6 DEF j
<1>7. CASE touched.state \notin {"BACKGROUND", "IGNORED"} /\ known.state \notin Watched
  <2>1. j = known /\ known = back
    BY <1>3, <1>5, <1>7
  <2> QED BY <1>2, <2>1 DEF j
<1>8. CASE touched.state \notin {"BACKGROUND", "IGNORED"} /\ known.state \in Watched
  <2>1. j = Judged(known, b) /\ Judgeable(known)
    BY <1>3, <1>5, <1>8
  <2>2. /\ j.owner_track_id = known.owner_track_id
        /\ j.alerted => ~ActuallyNearby(known, b)
    BY <2>1, JudgedInv
  <2>3. known.state # "CONFIRMING"
    BY <1>8 DEF Watched
  <2>4. t.state = "CONFIRMING" /\ j.owner_track_id = None => b.owner_lookup = None
    BY <1>2, <1>4, <2>2, <2>3
  <2>5. j.alerted => j.owner_track_id = None \/ b.distance[j.owner_track_id] # "near"
    BY <2>2 DEF ActuallyNearby
  <2> QED BY <2>4, <2>5 DEF j
<1> QED BY <1>6, <1>7, <1>8

(* So do a frame that does not show it, time, and the gate's verdict on a  *)
(* track that awaits one.                                                  *)
LEMMA OthersContinue ==
    ASSUME NEW t, TrackInv(t)
    PROVE  /\ \A g : Continues(t, Missed(t, g))
           /\ Continues(t, Aged(t))
           /\ t.state = "AWAITING_TARGET" => /\ Continues(t, Confirm(t))
                                             /\ Continues(t, [t EXCEPT !.state = "IGNORED"])
<1>1. t \in ObjectTrack
  BY DEF TrackInv
<1>2. \A g : Continues(t, Missed(t, g))
  BY <1>1 DEF Missed, Overlapped, Continues, ObjectTrack, Claimable, Watched
<1>3. Continues(t, Aged(t))
  BY <1>1 DEF Aged, Continues, ObjectTrack
<1>4. t.state = "AWAITING_TARGET" => /\ Continues(t, Confirm(t))
                                     /\ Continues(t, [t EXCEPT !.state = "IGNORED"])
  BY <1>1 DEF Confirm, Continues, ObjectTrack
<1> QED BY <1>2, <1>3, <1>4

(* What a step of the tracker does to the tracks that live on.             *)
TracksContinue ==
    \A o \in DOMAIN tracks \cap DOMAIN tracks' : Continues(tracks[o], tracks'[o])

(* Only tracks that await a verdict are confirmed or rejected, so no step  *)
(* breaks this.                                                            *)
LEMMA StepContinues == TrackerInv /\ Next => TracksContinue
<1> SUFFICES ASSUME TrackerInv, Next, NEW o \in DOMAIN tracks, o \in DOMAIN tracks'
             PROVE  Continues(tracks[o], tracks'[o])
  BY DEF TracksContinue
<1>1. TrackInv(tracks[o]) /\ o \in Objects
  BY DEF TrackerInv, TypeOK
<1>2. Continues(tracks[o], tracks[o])
  BY DEF Continues
<1>3. CASE Tick
  BY <1>1, <1>3, OthersContinue DEF Tick
<1>4. ASSUME NEW frame \in [Objects -> Sighting], Update(frame)
      PROVE  Continues(tracks[o], tracks'[o])
  <2>1. \/ frame[o].shown /\ tracks'[o] = Shown(tracks[o], frame[o])
        \/ tracks'[o] = Missed(tracks[o], frame[o])
    BY <1>1, <1>4 DEF Update, Observe
  <2>2. frame[o].shown => frame[o] \in Blob
    BY <1>1 DEF Sighting, Gap
  <2> QED BY <1>1, <2>1, <2>2, ShownContinues, OthersContinue
<1>5. ASSUME NEW p \in Objects, ConfirmAbandoned(p)
      PROVE  Continues(tracks[o], tracks'[o])
  <2>1. \/ tracks'[o] = tracks[o]
        \/ o = p /\ tracks'[o] = Confirm(tracks[o])
    BY <1>5 DEF ConfirmAbandoned
  <2>2. o = p => tracks[o].state = "AWAITING_TARGET"
    BY <1>5 DEF ConfirmAbandoned, Requested, TrackerInv, RequestsAwait
  <2> QED BY <1>1, <1>2, <2>1, <2>2, OthersContinue
<1>6. ASSUME NEW p \in Objects, RejectTarget(p)
      PROVE  Continues(tracks[o], tracks'[o])
  <2>1. \/ tracks'[o] = tracks[o]
        \/ o = p /\ tracks'[o] = [tracks[o] EXCEPT !.state = "IGNORED"]
    BY <1>6 DEF RejectTarget
  <2>2. o = p => tracks[o].state = "AWAITING_TARGET"
    BY <1>6 DEF RejectTarget, Requested, TrackerInv, RequestsAwait
  <2> QED BY <1>1, <1>2, <2>1, <2>2, OthersContinue
<1>7. CASE ClearCamera
  BY <1>7 DEF ClearCamera
<1> QED BY <1>3, <1>4, <1>5, <1>6, <1>7 DEF Next

(* A part of the scene, or an object the gate rejected, stays what it is   *)
(* until its track is dropped.                                             *)
THEOREM SilenceIsKept == Spec => SilentStaysSilent
<1>1. TrackerInv /\ [Next]_vars => [TracksContinue]_vars
  BY StepContinues
<1>2. Spec => [][TracksContinue]_vars
  BY <1>1, Invariance, PTL DEF Spec
<1>3. TracksContinue =>
        \A o \in DOMAIN tracks \cap DOMAIN tracks' :
          tracks[o].state \in {"BACKGROUND", "IGNORED"} => tracks'[o].state = tracks[o].state
  BY DEF TracksContinue, Continues
<1> QED BY <1>2, <1>3, PTL DEF SilentStaysSilent

(* The person and the vehicle an incident is attributed to are never       *)
(* replaced while the track lives.                                         *)
THEOREM AttributionIsKept == Spec => AttributionIsFinal
<1>1. TrackerInv /\ [Next]_vars => [TracksContinue]_vars
  BY StepContinues
<1>2. Spec => [][TracksContinue]_vars
  BY <1>1, Invariance, PTL DEF Spec
<1>3. TracksContinue =>
        \A o \in DOMAIN tracks \cap DOMAIN tracks' :
          /\ tracks[o].owner_track_id \in {None, tracks'[o].owner_track_id}
          /\ tracks[o].related_vehicle_id \in {None, tracks'[o].related_vehicle_id}
  BY DEF TracksContinue, Continues
<1> QED BY <1>2, <1>3, PTL DEF AttributionIsFinal

-----------------------------------------------------------------------------
(* The tracker implements AlertLifecycle *)

(* The lifecycle's two variables, as the tracker implements them.          *)
Open == {o \in DOMAIN tracks : tracks[o].alerted}

AsPublished(e) == [event_type |-> e.event_type, object_id |-> e.object_id]

Published == {AsPublished(e) : e \in Public}

(* What AlertLifecycle sees of an event.                                   *)
LEMMA EventPublished ==
    ASSUME NEW o \in Objects, NEW t,
           NEW type \in {"object_abandoned", "target_verification_requested",
                         "object_claimed", "object_removed"}
    PROVE  AsPublished(Event(type, o, t)) = [event_type |-> type, object_id |-> o]
BY DEF Event, AsPublished

(* The two events that close an alert.                                     *)
LEMMA ClosingEvent ==
    ASSUME NEW type \in {"object_claimed", "object_removed"}, NEW o \in Objects
    PROVE  LET c == [event_type |-> type, object_id |-> o] IN
           c \in Lifecycle!Closing /\ c.object_id = o
BY DEF Lifecycle!Closing

(* What a frame must exhibit to be one Publish of the lifecycle.           *)
LEMMA Publishing ==
    ASSUME NEW base \in {{}, Published},
           NEW opening \in SUBSET (Objects \ Open),
           NEW closed \in SUBSET Open,
           NEW ends \in SUBSET Lifecycle!Closing,
           Lifecycle!Subjects(ends) = closed,
           \A c, d \in ends : c.object_id = d.object_id => c = d,
           Open' = (Open \cup opening) \ closed,
           Published' = base \cup Lifecycle!Opening(opening) \cup ends
    PROVE  Lifecycle!Publish
BY DEF Lifecycle!Publish, Open, Published, AsPublished

(* An update is one frame of the lifecycle: it forgets what was published, *)
(* opens the new alerts and closes those of claimed and lost objects.      *)
LEMMA UpdatePublishes ==
    ASSUME TrackerInv, NEW frame \in [Objects -> Sighting], Update(frame)
    PROVE  Lifecycle!Publish
<1> DEFINE shown == {o \in Objects : frame[o].shown}
           missing == DOMAIN tracks \ shown
           claimed == {o \in missing : PickedUp(tracks[o])}
           lost == {o \in missing : LostFromView(tracks[o], frame[o])}
           opened == {o \in shown : tracks'[o].alerted
                                    /\ ~(o \in DOMAIN tracks /\ tracks[o].alerted)}
           awaiting == {o \in shown : tracks'[o].state = "AWAITING_TARGET"}
           taken == {o \in claimed : tracks[o].alerted}
           removed == {o \in lost : tracks[o].alerted}
           closings == {[event_type |-> "object_claimed", object_id |-> o] : o \in taken}
                       \cup {[event_type |-> "object_removed", object_id |-> o] : o \in removed}
<1>1. DOMAIN tracks \subseteq Objects /\ DOMAIN tracks' = shown \cup (missing \ (claimed \cup lost))
  BY DEF Update, TrackerInv, TypeOK
<1>2. \A o \in DOMAIN tracks' : /\ tracks'[o].alerted /\ ~frame[o].shown => Alerted(o)
                                /\ Alerted(o) => tracks'[o].alerted
  BY UpdateTracks
<1>3. claimed \cap lost = {}
  BY DEF PickedUp, LostFromView
<1>4. events' = {Event("object_abandoned", o, tracks'[o]) : o \in opened}
                \cup {Event("target_verification_requested", o, tracks'[o]) : o \in awaiting}
                \cup {Event("object_claimed", o, tracks[o]) : o \in taken}
                \cup {Event("object_removed", o, tracks[o]) : o \in removed}
  BY DEF Update, Closings
<1>5. /\ shown \subseteq Objects /\ opened \subseteq shown /\ awaiting \subseteq shown
      /\ taken \subseteq missing /\ removed \subseteq missing /\ missing \subseteq Objects
      /\ taken \subseteq claimed /\ removed \subseteq lost
      /\ claimed \subseteq missing /\ lost \subseteq missing
  BY <1>1
<1>6. \A o \in shown : o \in DOMAIN tracks'
  BY <1>1
<1>7. opened \in SUBSET (Objects \ Open)
  BY <1>5 DEF Open
<1>8. (taken \cup removed) \in SUBSET Open
  BY <1>5 DEF Open
<1>9. Open' = (Open \cup opened) \ (taken \cup removed)
  <2>1. \A o : o \in Open' <=> o \in DOMAIN tracks' /\ tracks'[o].alerted
    BY DEF Open
  <2>2. \A o \in shown : o \in Open' <=> o \in (Open \cup opened) \ (taken \cup removed)
    BY <1>2, <1>5, <1>6, <2>1 DEF Open, Alerted
  <2>3. \A o \in missing \ (claimed \cup lost) :
           o \in Open' <=> o \in (Open \cup opened) \ (taken \cup removed)
    <3> SUFFICES ASSUME NEW o \in missing, o \notin claimed, o \notin lost
                 PROVE  o \in Open' <=> o \in (Open \cup opened) \ (taken \cup removed)
      OBVIOUS
    <3>1. o \in Objects /\ o \in DOMAIN tracks /\ o \in DOMAIN tracks' /\ ~frame[o].shown
      BY <1>1
    <3>2. o \notin opened /\ o \notin taken /\ o \notin removed
      BY <1>5
    <3>3. o \in Open' <=> o \in Open
      BY <1>2, <2>1, <3>1 DEF Open, Alerted
    <3> QED BY <3>2, <3>3
  <2>4. \A o \in claimed \cup lost : o \notin Open' /\ o \notin (Open \cup opened) \ (taken \cup removed)
    BY <1>1, <1>5, <2>1 DEF Open
  <2>5. \A o : o \notin shown /\ o \notin missing
                 => o \notin Open' /\ o \notin (Open \cup opened) \ (taken \cup removed)
    BY <1>1, <1>5, <2>1 DEF Open
  <2> QED BY <2>2, <2>3, <2>4, <2>5
<1> HIDE DEF shown, missing, claimed, lost, opened, awaiting, taken, removed
<1>10. Published' = Lifecycle!Opening(opened) \cup closings
  <2>1. \A e \in events' : e \in Public' =>
           AsPublished(e) \in Lifecycle!Opening(opened) \cup closings
    BY <1>4, <1>5, EventTyped, EventPublished DEF Public, Lifecycle!Opening
  <2>2. \A o \in opened : [event_type |-> "object_abandoned", object_id |-> o] \in Published'
    <3> SUFFICES ASSUME NEW o \in opened
                 PROVE  \E e \in Public' :
                          AsPublished(e) = [event_type |-> "object_abandoned", object_id |-> o]
      BY DEF Published
    <3>1. Event("object_abandoned", o, tracks'[o]) \in Public'
      BY <1>4, <1>5, EventTyped DEF Public
    <3> QED BY <1>5, <3>1, EventPublished
  <2>3. closings \subseteq Published'
    <3>1. \A o \in taken : /\ Event("object_claimed", o, tracks[o]) \in Public'
                           /\ AsPublished(Event("object_claimed", o, tracks[o]))
                                 = [event_type |-> "object_claimed", object_id |-> o]
      BY <1>4, <1>5, EventTyped, EventPublished DEF Public
    <3>2. \A o \in removed : /\ Event("object_removed", o, tracks[o]) \in Public'
                             /\ AsPublished(Event("object_removed", o, tracks[o]))
                                   = [event_type |-> "object_removed", object_id |-> o]
      BY <1>4, <1>5, EventTyped, EventPublished DEF Public
    <3> QED BY <3>1, <3>2 DEF Published
  <2>4. Published' = {AsPublished(e) : e \in Public'} /\ Public' \subseteq events'
    BY DEF Published, Public
  <2> QED BY <2>1, <2>2, <2>3, <2>4 DEF Lifecycle!Opening
<1>11. closings \subseteq Lifecycle!Closing /\ Lifecycle!Subjects(closings) = taken \cup removed
  <2>1. closings \subseteq Lifecycle!Closing
    BY <1>5, ClosingEvent
  <2>2. \A c \in closings : c.object_id \in taken \cup removed
    OBVIOUS
  <2>3. \A o \in taken \cup removed : \E c \in closings : c.object_id = o
    <3>1. \A o \in taken : [event_type |-> "object_claimed", object_id |-> o] \in closings
      OBVIOUS
    <3>2. \A o \in removed : [event_type |-> "object_removed", object_id |-> o] \in closings
      OBVIOUS
    <3> QED BY <1>5, <3>1, <3>2, ClosingEvent
  <2> QED BY <2>1, <2>2, <2>3 DEF Lifecycle!Subjects
<1>12. \A c, d \in closings : c.object_id = d.object_id => c = d
  BY <1>3, <1>5
<1> HIDE DEF closings
<1>13. Published' = {} \cup Lifecycle!Opening(opened) \cup closings
  BY <1>10
<1> QED BY <1>7, <1>8, <1>9, <1>11, <1>12, <1>13, Publishing

(* A verdict of the gate that confirms the object publishes its opening    *)
(* with what the frame has published so far.                               *)
LEMMA ConfirmPublishes ==
    ASSUME TrackerInv, NEW o \in Objects, ConfirmAbandoned(o)
    PROVE  Lifecycle!Publish \/ UNCHANGED <<Open, Published>>
<1>1. CASE ~(o \in DOMAIN tracks /\ ~tracks[o].alerted)
  <2>1. tracks' = tracks /\ events' = events \ RequestOf(o)
    BY <1>1 DEF ConfirmAbandoned
  <2>2. Public' = Public
    BY <2>1 DEF Public, RequestOf
  <2> QED BY <2>1, <2>2 DEF Open, Published
<1>2. CASE o \in DOMAIN tracks /\ ~tracks[o].alerted
  <2>1. /\ tracks' = [tracks EXCEPT ![o] = Confirm(tracks[o])]
        /\ events' = (events \ RequestOf(o)) \cup {Event("object_abandoned", o, tracks'[o])}
    BY <1>2 DEF ConfirmAbandoned
  <2>2. tracks[o] \in ObjectTrack
    BY <1>2 DEF TrackerInv, TrackInv
  <2>3. /\ DOMAIN tracks' = DOMAIN tracks
        /\ \A p \in DOMAIN tracks : p # o => tracks'[p] = tracks[p]
        /\ tracks'[o].alerted
    BY <1>2, <2>1, <2>2 DEF Confirm, ObjectTrack
  <2>4. Open' = Open \cup {o} /\ o \notin Open
    BY <1>2, <2>3 DEF Open
  <2> DEFINE e == Event("object_abandoned", o, tracks'[o])
  <2>5. e.event_type = "object_abandoned"
        /\ AsPublished(e) = [event_type |-> "object_abandoned", object_id |-> o]
    BY EventTyped, EventPublished
  <2>6. events' = (events \ RequestOf(o)) \cup {e}
    BY <2>1
  <2> HIDE DEF e
  <2>7. Public' = Public \cup {e}
    BY <2>5, <2>6 DEF Public, RequestOf
  <2>8. Published' = Published \cup Lifecycle!Opening({o})
    BY <2>5, <2>7 DEF Published, Lifecycle!Opening
  <2>9. Lifecycle!Subjects({}) = {}
    BY DEF Lifecycle!Subjects
  <2>10. {o} \in SUBSET (Objects \ Open) /\ Open' = (Open \cup {o}) \ {}
    BY <2>4
  <2>11. Published' = Published \cup Lifecycle!Opening({o}) \cup {}
    BY <2>8
  <2> QED BY <2>9, <2>10, <2>11, Publishing
<1> QED BY <1>1, <1>2

(* A rejection, which concerns a track without an alert, is not seen.      *)
LEMMA RejectIsSilent ==
    ASSUME TrackerInv, NEW o \in Objects, RejectTarget(o)
    PROVE  UNCHANGED <<Open, Published>>
<1>1. Public' = Public
  BY DEF RejectTarget, Public, RequestOf
<1>2. Open' = Open
  <2>1. CASE o \in DOMAIN tracks /\ ~tracks[o].alerted
    <3>1. tracks[o] \in ObjectTrack
      BY <2>1 DEF TrackerInv, TrackInv
    <3>2. /\ DOMAIN tracks' = DOMAIN tracks
          /\ \A p \in DOMAIN tracks : p # o => tracks'[p] = tracks[p]
          /\ ~tracks'[o].alerted
      BY <2>1, <3>1 DEF RejectTarget, ObjectTrack
    <3> QED BY <2>1, <3>2 DEF Open
  <2>2. CASE ~(o \in DOMAIN tracks /\ ~tracks[o].alerted)
    BY <2>2 DEF RejectTarget, Open
  <2> QED BY <2>1, <2>2
<1> QED BY <1>1, <1>2 DEF Published

(* Time passing ends the frame, and no alert with it.                      *)
LEMMA TickPublishes ==
    ASSUME TrackerInv, Tick
    PROVE  Lifecycle!Publish
<1>1. /\ DOMAIN tracks' = DOMAIN tracks
      /\ \A o \in DOMAIN tracks : tracks'[o].alerted = tracks[o].alerted
  BY AgedInv DEF Tick, TrackerInv, TypeOK
<1>2. Open' = Open
  BY <1>1 DEF Open
<1>3. Published' = {}
  BY DEF Tick, Published, Public
<1>4. Lifecycle!Subjects({}) = {} /\ Lifecycle!Opening({}) = {}
  BY DEF Lifecycle!Subjects, Lifecycle!Opening
<1>5. Open' = (Open \cup {}) \ {} /\ Published' = {} \cup Lifecycle!Opening({}) \cup {}
  BY <1>2, <1>3, <1>4
<1> QED BY <1>4, <1>5, Publishing

(* Replacing the ROI withdraws every alert and publishes nothing.          *)
LEMMA ClearWithdraws ==
    ASSUME ClearCamera
    PROVE  Lifecycle!Withdraw
<1>1. Open' = {} /\ Published' = Published
  BY DEF ClearCamera, Open, Published, Public
<1> QED BY <1>1 DEF Lifecycle!Withdraw, Open, Published, AsPublished

(* Every step of the tracker is a step of the lifecycle, or invisible.     *)
LEMMA StepRefines == TrackerInv /\ [Next]_vars => [Lifecycle!Next]_(Lifecycle!vars)
<1> SUFFICES ASSUME TrackerInv, [Next]_vars
             PROVE  Lifecycle!Next \/ UNCHANGED <<Open, Published>>
  BY DEF Lifecycle!vars, Open, Published, AsPublished
<1>1. ASSUME NEW frame \in [Objects -> Sighting], Update(frame) PROVE Lifecycle!Publish
  BY <1>1, UpdatePublishes
<1>2. ASSUME NEW o \in Objects, ConfirmAbandoned(o)
      PROVE  Lifecycle!Publish \/ UNCHANGED <<Open, Published>>
  BY <1>2, ConfirmPublishes
<1>3. ASSUME NEW o \in Objects, RejectTarget(o) PROVE UNCHANGED <<Open, Published>>
  BY <1>3, RejectIsSilent
<1>4. CASE Tick
  BY <1>4, TickPublishes DEF Lifecycle!Next
<1>5. CASE ClearCamera
  BY <1>5, ClearWithdraws DEF Lifecycle!Next
<1>6. CASE UNCHANGED vars
  BY <1>6 DEF vars, Open, Published, Public
<1> QED BY <1>1, <1>2, <1>3, <1>4, <1>5, <1>6 DEF Next, Lifecycle!Next

(* The tracker keeps the promise of AlertLifecycle to the callers of       *)
(* update: one open alert per object, closed exactly once, by a claim or a *)
(* removal, and no closing event without an alert.                         *)
THEOREM RefinesLifecycle == Spec => ImplementsLifecycle
<1>1. Init => Lifecycle!Init
  BY DEF Init, Lifecycle!Init, Public
<1>2. TrackerInv /\ [Next]_vars => [Lifecycle!Next]_(Lifecycle!vars)
  BY StepRefines
<1> QED BY <1>1, <1>2, Invariance, PTL DEF Spec, ImplementsLifecycle, Lifecycle!Spec

=============================================================================
