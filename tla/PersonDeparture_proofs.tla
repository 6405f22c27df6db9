----------------------- MODULE PersonDeparture_proofs -----------------------
(***************************************************************************)
(* Proofs about the departure detector, for any number of persons, any     *)
(* positions, distances and times within DepartureConstants.               *)
(***************************************************************************)
EXTENDS PersonDeparture, SequenceTheorems, WellFoundedInduction, TLAPS

-----------------------------------------------------------------------------
(* Persons one at a time *)

RecordShowsItsSpot(person) ==
    /\ person.reference \in {None, person.spot}
    /\ \A i \in DOMAIN person.zones :
          person.zones[i].reference \in {None, person.zones[i].spot}

Sound(person) ==
    /\ person \in PersonRecord
    /\ Len(person.zones) <= MaxZones
    /\ RecordShowsItsSpot(person)

(* StayOf, of a person whose sightings have been near positions so long.   *)
Stay(person, times) ==
    \/ \E i \in DOMAIN person.zones : person.zones[i].center = person.anchor
    \/ /\ person.anchor = person.spot
       /\ times[person.spot] # None
       /\ times[person.spot] >= person.since

Times == [Positions -> 0..MinDwell \cup {None}]

(* A record before its first sighting has no stay yet.                     *)
NewOrOld ==
    [anchor : Positions \cup {None}, since : 0..MinDwell \cup {None},
     spot : Positions \cup {None}, reference : Positions \cup {None},
     zones : Seq(ZoneRecord), processed : BOOLEAN,
     missing : (0..ForgetAfter + 1) \cup {None}]

LEMMA ZonesOf ==
    ASSUME NEW person \in NewOrOld
    PROVE  /\ person.zones \in Seq(ZoneRecord)
           /\ Len(person.zones) \in Nat
           /\ DOMAIN person.zones = 1..Len(person.zones)
           /\ \A i \in 1..Len(person.zones) : person.zones[i] \in ZoneRecord
<1>1. person.zones \in Seq(ZoneRecord)
  BY DEF NewOrOld
<1> QED BY <1>1, LenProperties, ElementOfSeq

LEMMA OldOrNew == PersonRecord \subseteq NewOrOld
BY DEF PersonRecord, NewOrOld

LEMMA Distances ==
    ASSUME NEW x \in Positions, NEW y \in Positions
    PROVE  Distance(x, y) \in Nat /\ Distance(x, x) = 0
BY DepartureConstants DEF Distance

-----------------------------------------------------------------------------
(* The three cases of _update_dwell_zones *)

LEMMA FirstMatchMatches ==
    ASSUME NEW person \in NewOrOld, NEW x \in Positions, Matching(person, x) # {}
    PROVE  FirstMatch(person, x) \in Matching(person, x)
<1> DEFINE M == Matching(person, x)
<1>1. M \subseteq Nat
  BY ZonesOf DEF Matching
<1>2. PICK i \in M : \A j \in M : ~(<<j, i>> \in OpToRel(<, Nat))
  BY <1>1, NatLessThanWellFounded, WFMin
<1>3. ASSUME NEW j \in M PROVE i <= j
  <2> HIDE DEF M
  <2>1. i \in Nat /\ j \in Nat
    BY <1>1
  <2>2. j < i => <<j, i>> \in OpToRel(<, Nat)
    BY ONLY <2>1 DEF OpToRel
  <2>3. ~(j < i)
    BY <1>2, <2>2
  <2> QED BY <2>1, <2>3
<1> QED BY <1>3 DEF FirstMatch

TakenOver(person, i, c) ==
    [person EXCEPT !.zones[i].center = c, !.anchor = c, !.since = person.zones[i].entered]

LEMMA ThreeCases ==
    ASSUME NEW person \in NewOrOld, NEW x \in Positions, NEW image \in BOOLEAN,
           NEW new \in UpdateDwellZones(person, x, image)
    PROVE  \/ \E i \in 1..Len(person.zones), c \in Positions :
                 new = TakenOver(person, i, c)
           \/ MovedAway(person, x) /\ new = NewAnchor(person, x, image)
           \/ /\ Matching(person, x) = {}
              /\ ~MovedAway(person, x)
              /\ new = Stays(person, image)
<1>1. CASE Matching(person, x) # {}
  <2>1. PICK c \in Drifts(person.zones[FirstMatch(person, x)].center, x) :
            new = InZone(person, x, c)
    BY <1>1 DEF UpdateDwellZones
  <2>2. c \in Positions
    BY DEF Drifts
  <2>3. FirstMatch(person, x) \in 1..Len(person.zones)
    BY <1>1, FirstMatchMatches, ZonesOf DEF Matching
  <2>4. new = TakenOver(person, FirstMatch(person, x), c)
    BY <2>1 DEF InZone, TakenOver
  <2> QED BY <2>2, <2>3, <2>4
<1>2. CASE Matching(person, x) = {}
  BY <1>2 DEF UpdateDwellZones
<1> QED BY <1>1, <1>2

(* A known zone takes over: its centre drifts, nothing else of it changes. *)
LEMMA InZoneFields ==
    ASSUME NEW person \in NewOrOld, NEW i \in 1..Len(person.zones), NEW c \in Positions, NEW new,
           new = TakenOver(person, i, c)
    PROVE  /\ new.anchor = c
           /\ new.since = person.zones[i].entered
           /\ new.spot = person.spot
           /\ new.reference = person.reference
           /\ new.processed = person.processed
           /\ new.missing = person.missing
           /\ new.zones \in Seq(ZoneRecord)
           /\ Len(new.zones) = Len(person.zones)
           /\ \A j \in 1..Len(person.zones) :
                 /\ new.zones[j].spot = person.zones[j].spot
                 /\ new.zones[j].reference = person.zones[j].reference
           /\ new.zones[i].center = c
           /\ new.since \in 0..MinDwell
           /\ new = [anchor |-> new.anchor, since |-> new.since, spot |-> new.spot,
                     reference |-> new.reference, zones |-> new.zones,
                     processed |-> new.processed, missing |-> new.missing]
<1> DEFINE zone == [person.zones[i] EXCEPT !.center = c]
           zones == [person.zones EXCEPT ![i] = zone]
<1>1. person.zones[i] \in ZoneRecord
  BY ZonesOf
<1>2. /\ zone \in ZoneRecord
      /\ zone.spot = person.zones[i].spot
      /\ zone.reference = person.zones[i].reference
      /\ zone.center = c
      /\ person.zones[i].entered \in 0..MinDwell
  BY <1>1 DEF ZoneRecord
<1> HIDE DEF zone
<1>3. /\ zones \in Seq(ZoneRecord)
      /\ Len(zones) = Len(person.zones)
      /\ \A j \in 1..Len(person.zones) :
            zones[j] = IF j = i THEN zone ELSE person.zones[j]
  BY <1>2, ZonesOf, ExceptSeq
<1>4. new = [person EXCEPT !.zones = zones, !.anchor = c, !.since = person.zones[i].entered]
  BY DEF zone, TakenOver
<1> HIDE DEF zones
<1>5. /\ new.anchor = c
      /\ new.since = person.zones[i].entered
      /\ new.spot = person.spot
      /\ new.reference = person.reference
      /\ new.processed = person.processed
      /\ new.missing = person.missing
      /\ new.zones = zones
      /\ new = [anchor |-> c, since |-> person.zones[i].entered, spot |-> person.spot,
                reference |-> person.reference, zones |-> zones,
                processed |-> person.processed, missing |-> person.missing]
  BY <1>4 DEF NewOrOld
<1>6. Len(new.zones) = Len(person.zones)
  BY <1>3, <1>5
<1>7. /\ new.zones \in Seq(ZoneRecord)
      /\ \A j \in 1..Len(person.zones) :
            /\ new.zones[j].spot = person.zones[j].spot
            /\ new.zones[j].reference = person.zones[j].reference
      /\ new.zones[i].center = c
  <2>1. new.zones = zones
    BY <1>5
  <2>2. zones[i] = zone /\ i \in 1..Len(person.zones)
    BY <1>3
  <2>3. \A j \in 1..Len(person.zones) :
            zones[j].spot = person.zones[j].spot /\ zones[j].reference = person.zones[j].reference
    BY ONLY <1>2, <1>3
  <2>4. zones[i].center = c
    BY ONLY <1>2, <2>2
  <2> QED BY ONLY <1>3, <2>1, <2>3, <2>4
<1> QED BY <1>2, <1>5, <1>6, <1>7

(* The last zone is the new one, the others are those that were there.     *)
LEMMA LastZonesKept ==
    ASSUME NEW zones \in Seq(ZoneRecord), Len(zones) <= MaxZones, NEW zone \in ZoneRecord
    PROVE  LET kept == LastZones(Append(zones, zone))
           IN /\ kept \in Seq(ZoneRecord)
              /\ Len(kept) <= MaxZones
              /\ Last(kept) = zone
              /\ \A i \in 1..Len(kept) :
                    kept[i] = zone \/ \E j \in 1..Len(zones) : kept[i] = zones[j]
<1> DEFINE all == Append(zones, zone)
           kept == LastZones(all)
<1>1. /\ all \in Seq(ZoneRecord)
      /\ Len(zones) \in Nat
      /\ Len(all) = Len(zones) + 1
      /\ \A i \in 1..Len(zones) : all[i] = zones[i]
      /\ all[Len(zones) + 1] = zone
      /\ \A i \in 1..Len(all) : all[i] \in ZoneRecord
  BY LenProperties, AppendProperties, ElementOfSeq
<1> HIDE DEF all
<1>2. CASE Len(all) <= MaxZones
  <2>1. kept = all
    BY <1>1, <1>2, DepartureConstants DEF LastZones
  <2> HIDE DEF kept
  <2>2. \A i \in 1..Len(all) : i \in 1..Len(zones) \/ i = Len(zones) + 1
    BY <1>1
  <2>3. \A i \in 1..Len(kept) :
            kept[i] = zone \/ \E j \in 1..Len(zones) : kept[i] = zones[j]
    BY <1>1, <2>1, <2>2
  <2>4. Last(kept) = zone
    BY <1>1, <2>1 DEF Last
  <2>5. kept \in Seq(ZoneRecord) /\ Len(kept) <= MaxZones
    BY <1>1, <1>2, <2>1
  <2> QED BY <2>3, <2>4, <2>5 DEF kept, all
<1>3. CASE Len(all) > MaxZones
  <2>1. MaxZones \in Nat \ {0} /\ Len(all) = MaxZones + 1 /\ Len(zones) = MaxZones
    BY <1>1, <1>3, DepartureConstants
  <2>2. kept = SubSeq(all, 2, MaxZones + 1)
    <3>1. Len(all) - MaxZones + 1 = 2
      BY <2>1
    <3> QED BY <2>1, <3>1, <1>3 DEF LastZones
  <2>3. \A i \in 2..MaxZones + 1 : all[i] \in ZoneRecord
    BY <1>1, <2>1
  <2>4. 2 \in Int /\ MaxZones + 1 \in Int
    BY <2>1
  <2> HIDE DEF kept
  <2>5. /\ kept \in Seq(ZoneRecord)
        /\ Len(kept) = MaxZones
        /\ \A i \in 1..MaxZones : kept[i] = all[i + 1]
    <3> DEFINE m == 2
               n == MaxZones + 1
    <3>1. m \in Int /\ n \in Int /\ \A i \in m..n : all[i] \in ZoneRecord
      BY <2>3, <2>4
    <3>2. m = 2 /\ n = MaxZones + 1
      OBVIOUS
    <3>3. kept = SubSeq(all, m, n)
      BY <2>2
    <3> HIDE DEF m, n
    <3>4. /\ kept \in Seq(ZoneRecord)
          /\ Len(kept) = IF m <= n THEN n - m + 1 ELSE 0
          /\ \A i \in 1..n - m + 1 : kept[i] = all[m + i - 1]
      BY <3>1, <3>3, SubSeqProperties
    <3>5. (IF m <= n THEN n - m + 1 ELSE 0) = MaxZones /\ n - m + 1 = MaxZones
      BY ONLY <2>1, <3>2
    <3>6. \A i \in 1..MaxZones : m + i - 1 = i + 1
      BY ONLY <2>1, <3>2
    <3> QED BY ONLY <3>4, <3>5, <3>6
  <2>6. Len(kept) = MaxZones /\ \A i \in 1..MaxZones : kept[i] = all[i + 1]
    BY <2>5
  <2>7. kept[MaxZones] = zone
    BY <1>1, <2>1, <2>6
  <2>8. ASSUME NEW i \in 1..MaxZones
        PROVE  kept[i] = zone \/ \E j \in 1..Len(zones) : kept[i] = zones[j]
    <3>1. CASE i = MaxZones
      BY <2>7, <3>1
    <3>2. CASE i # MaxZones
      <4>1. i + 1 \in 1..Len(zones)
        BY <2>1, <3>2
      <4>2. kept[i] = zones[i + 1]
        BY <1>1, <2>6, <4>1
      <4> QED BY <4>1, <4>2
    <3> QED BY <3>1, <3>2
  <2>9. Last(kept) = zone
    BY <2>6, <2>7 DEF Last
  <2>10. \A i \in 1..Len(kept) :
            kept[i] = zone \/ \E j \in 1..Len(zones) : kept[i] = zones[j]
    BY <2>6, <2>8
  <2>11. kept \in Seq(ZoneRecord) /\ Len(kept) <= MaxZones
    BY <2>1, <2>5, <2>6
  <2> QED BY <2>9, <2>10, <2>11 DEF kept, all
<1>4. Len(all) <= MaxZones \/ Len(all) > MaxZones
  BY <1>1, DepartureConstants
<1> QED BY <1>2, <1>3, <1>4 DEF all

LEMMA StaysFields ==
    ASSUME NEW person \in PersonRecord, NEW image \in BOOLEAN, Len(person.zones) <= MaxZones,
           RecordShowsItsSpot(person)
    PROVE  LET new == Stays(person, image)
           IN /\ new.anchor = person.anchor
              /\ new.since = person.since
              /\ new.spot = person.spot
              /\ new.reference \in {None, person.spot}
              /\ new.processed = person.processed
              /\ new.missing = person.missing
              /\ \/ new.zones = person.zones
                 \/ /\ person.since = MinDwell
                    /\ \E zone \in ZoneRecord :
                          /\ new.zones = LastZones(Append(person.zones, zone))
                          /\ zone.spot = person.spot
                          /\ zone.reference \in {None, zone.spot}
              /\ new = [anchor |-> new.anchor, since |-> new.since, spot |-> new.spot,
                        reference |-> new.reference, zones |-> new.zones,
                        processed |-> new.processed, missing |-> new.missing]
<1> DEFINE reference == IF person.reference = None THEN Snapshot(person.spot, image)
                        ELSE person.reference
           referenced == [person EXCEPT !.reference = reference]
<1>1. reference \in {None, person.spot} /\ person.spot \in Positions
  BY DEF RecordShowsItsSpot, Snapshot, PersonRecord
<1>2. Referenced(person, image) = referenced
  BY DEF Referenced
<1> HIDE DEF reference
<1>3. CASE person.since < MinDwell
  <2>1. Stays(person, image) = referenced
    BY <1>2, <1>3 DEF Stays
  <2> QED BY <1>1, <2>1 DEF PersonRecord
<1>4. CASE ~(person.since < MinDwell)
  <2> DEFINE zone == [center |-> person.anchor, spot |-> person.spot, entered |-> person.since,
                      reference |-> reference]
             zones == LastZones(Append(person.zones, zone))
  <2>1. zone \in ZoneRecord /\ zone.spot = person.spot /\ zone.reference = reference
    BY <1>1 DEF PersonRecord, ZoneRecord
  <2>2. Zone(referenced) = zone
    BY DEF Zone, PersonRecord
  <2>3. referenced.zones = person.zones
    BY DEF PersonRecord
  <2>4. Stays(person, image) = [referenced EXCEPT !.zones = zones]
    BY <1>2, <1>4, <2>2, <2>3 DEF Stays
  <2>5. person.since = MinDwell
    BY <1>4, DepartureConstants DEF PersonRecord
  <2> DEFINE new == Stays(person, image)
  <2> HIDE DEF zones, zone
  <2>6. new = [anchor |-> person.anchor, since |-> person.since, spot |-> person.spot,
               reference |-> reference, zones |-> zones,
               processed |-> person.processed, missing |-> person.missing]
    BY <2>4 DEF PersonRecord
  <2> HIDE DEF new
  <2>7. /\ new.anchor = person.anchor /\ new.since = person.since /\ new.spot = person.spot
        /\ new.reference = reference /\ new.zones = zones
        /\ new.processed = person.processed /\ new.missing = person.missing
    BY ONLY <2>6
  <2>8. \E z \in ZoneRecord :
            /\ new.zones = LastZones(Append(person.zones, z))
            /\ z.spot = person.spot
            /\ z.reference \in {None, z.spot}
    BY <1>1, <2>1, <2>7 DEF zones
  <2> QED BY <1>1, <2>5, <2>6, <2>7, <2>8 DEF new
<1> QED BY <1>3, <1>4

-----------------------------------------------------------------------------
(* A sighting keeps a person's record sound and its stay measured *)

ZonesShowTheirSpots(zones) ==
    \A i \in 1..Len(zones) : zones[i].reference \in {None, zones[i].spot}

(* The sightings near a position, after one more at x.                     *)
After(times, x) == [y \in Positions |-> Since(times[y], x, y)]

LEMMA TimesAfter ==
    ASSUME NEW times \in Times, NEW x \in Positions, NEW y \in Positions,
           Distance(x, y) <= StationaryDistance
    PROVE  /\ After(times, x)[y] \in 0..MinDwell
           /\ times[y] # None => After(times, x)[y] = times[y]
BY Distances, DepartureConstants DEF After, Since, Times

LEMMA AfterTyped ==
    ASSUME NEW times \in Times, NEW x \in Positions
    PROVE  After(times, x) \in Times
BY DepartureConstants DEF After, Since, Times

LEMMA NewAnchorSound ==
    ASSUME NEW person \in NewOrOld, NEW x \in Positions, NEW image \in BOOLEAN,
           NEW times \in Times,
           Len(person.zones) <= MaxZones, ZonesShowTheirSpots(person.zones)
    PROVE  LET new == NewAnchor(person, x, image)
           IN /\ Sound(new)
              /\ Stay(new, After(times, x))
              /\ new.zones = person.zones
              /\ new.processed = person.processed
              /\ new.missing = person.missing
<1> DEFINE new == NewAnchor(person, x, image)
<1>0. new = [anchor |-> x, since |-> 0, spot |-> x, reference |-> Snapshot(x, image),
             zones |-> person.zones, processed |-> person.processed,
             missing |-> person.missing]
  <2>1. new = [person EXCEPT !.anchor = x, !.since = 0, !.spot = x,
                             !.reference = Snapshot(x, image)]
    BY DEF NewAnchor
  <2>2. person \in NewOrOld
    OBVIOUS
  <2> HIDE DEF new
  <2> QED BY ONLY <2>1, <2>2 DEF NewOrOld
<1> HIDE DEF new
<1>1. /\ new.anchor = x /\ new.since = 0 /\ new.spot = x
      /\ new.reference = Snapshot(x, image) /\ new.zones = person.zones
      /\ new.processed = person.processed /\ new.missing = person.missing
  BY ONLY <1>0
<1>2. Snapshot(x, image) \in {None, x} /\ Snapshot(x, image) \in Positions \cup {None}
  BY DEF Snapshot
<1>3. 0 \in 0..MinDwell
  BY DepartureConstants
<1>4. /\ person.zones \in Seq(ZoneRecord) /\ person.processed \in BOOLEAN
      /\ person.missing \in (0..ForgetAfter + 1) \cup {None}
  BY DEF NewOrOld
<1>5. new \in PersonRecord
  BY <1>0, <1>2, <1>3, <1>4 DEF PersonRecord
<1>6. RecordShowsItsSpot(new)
  <2>1. new.reference \in {None, new.spot}
    BY <1>1, <1>2
  <2>2. DOMAIN new.zones = 1..Len(person.zones)
    BY <1>1, ZonesOf
  <2>3. \A i \in DOMAIN new.zones : new.zones[i].reference \in {None, new.zones[i].spot}
    BY <1>1, <2>2 DEF ZonesShowTheirSpots
  <2> QED BY ONLY <2>1, <2>3 DEF RecordShowsItsSpot
<1>7. Distance(x, x) <= StationaryDistance
  BY Distances, DepartureConstants
<1>8. After(times, x)[x] \in 0..MinDwell
  BY <1>7, TimesAfter
<1>9. After(times, x)[x] # None /\ After(times, x)[x] >= 0
  BY <1>8, DepartureConstants
<1>10. Stay(new, After(times, x))
  BY <1>1, <1>9 DEF Stay
<1> QED BY <1>1, <1>5, <1>6, <1>10 DEF Sound, new

(* The first sighting of a person.                                         *)
LEMMA FirstSighting ==
    ASSUME NEW x \in Positions, NEW image \in BOOLEAN, NEW times \in Times,
           NEW new \in UpdateDwellZones(NewPerson, x, image)
    PROVE  /\ Sound(new)
           /\ Stay(new, After(times, x))
           /\ new.processed = FALSE
           /\ new.missing = None
<1>1. NewPerson.zones = <<>> /\ Len(<<>>) = 0 /\ <<>> \in Seq(ZoneRecord)
  BY EmptySeq DEF NewPerson
<1>2. NewPerson \in NewOrOld
  BY <1>1 DEF NewPerson, NewOrOld
<1>3. MovedAway(NewPerson, x)
  BY DEF MovedAway, NewPerson
<1>4. ~ \E i \in 1..Len(NewPerson.zones) : TRUE
  BY <1>1
<1>5. new = NewAnchor(NewPerson, x, image)
  BY <1>2, <1>3, <1>4, ThreeCases
<1>6. Len(NewPerson.zones) <= MaxZones /\ ZonesShowTheirSpots(NewPerson.zones)
  BY <1>1, <1>4, DepartureConstants DEF ZonesShowTheirSpots
<1>7. NewPerson.processed = FALSE /\ NewPerson.missing = None
  BY DEF NewPerson
<1> QED BY <1>2, <1>5, <1>6, <1>7, NewAnchorSound

LEMMA InZoneSound ==
    ASSUME NEW person, Sound(person), NEW i \in 1..Len(person.zones), NEW c \in Positions,
           NEW times, NEW new,
           new = TakenOver(person, i, c)
    PROVE  /\ Sound(new)
           /\ Stay(new, times)
           /\ SpotsOf(new) = SpotsOf(person)
           /\ new.processed = person.processed
           /\ new.missing = person.missing
<1>1. person \in PersonRecord /\ person \in NewOrOld
  BY OldOrNew DEF Sound
<1>2. /\ new.anchor = c
      /\ new.spot = person.spot
      /\ new.reference = person.reference
      /\ new.processed = person.processed
      /\ new.missing = person.missing
      /\ new.zones \in Seq(ZoneRecord)
      /\ Len(new.zones) = Len(person.zones)
      /\ \A j \in 1..Len(person.zones) :
            /\ new.zones[j].spot = person.zones[j].spot
            /\ new.zones[j].reference = person.zones[j].reference
      /\ new.zones[i].center = c
      /\ new.since \in 0..MinDwell
      /\ new = [anchor |-> new.anchor, since |-> new.since, spot |-> new.spot,
                reference |-> new.reference, zones |-> new.zones,
                processed |-> new.processed, missing |-> new.missing]
  BY <1>1, InZoneFields
<1>3. new \in PersonRecord
  <2>1. /\ person.spot \in Positions /\ person.reference \in Positions \cup {None}
        /\ person.processed \in BOOLEAN
        /\ person.missing \in (0..ForgetAfter + 1) \cup {None}
    BY <1>1 DEF PersonRecord
  <2> QED BY ONLY <1>2, <2>1, c \in Positions DEF PersonRecord
<1>4. /\ DOMAIN person.zones = 1..Len(person.zones)
      /\ DOMAIN new.zones = 1..Len(person.zones)
  BY <1>1, <1>2, ZonesOf, LenProperties
<1>5. RecordShowsItsSpot(new)
  BY ONLY <1>2, <1>4, Sound(person) DEF RecordShowsItsSpot, Sound
<1>6. SpotsOf(new) = SpotsOf(person)
  BY ONLY <1>2, <1>4 DEF SpotsOf
<1>7. Stay(new, times)
  <2>1. i \in DOMAIN new.zones /\ new.zones[i].center = new.anchor
    BY <1>2, <1>4
  <2> QED BY ONLY <2>1 DEF Stay
<1>8. Len(new.zones) <= MaxZones
  BY <1>2 DEF Sound
<1> QED BY <1>2, <1>3, <1>5, <1>6, <1>7, <1>8 DEF Sound

(* A stay near the anchor and in no known zone is one at the spot of the   *)
(* reference, and long enough when it makes a zone.                        *)
LEMMA StaysSound ==
    ASSUME NEW person, Sound(person), NEW image \in BOOLEAN,
           NEW x \in Positions, NEW times \in Times, Stay(person, times),
           Matching(person, x) = {}, ~MovedAway(person, x)
    PROVE  LET new == Stays(person, image)
           IN /\ Sound(new)
              /\ Stay(new, After(times, x))
              /\ SpotsOf(new) # SpotsOf(person)
                    => After(times, x)[Last(new.zones).spot] = MinDwell
              /\ new.processed = person.processed
              /\ new.missing = person.missing
<1> DEFINE new == Stays(person, image)
<1>1. person \in PersonRecord /\ person \in NewOrOld /\ Len(person.zones) <= MaxZones
      /\ RecordShowsItsSpot(person)
  BY OldOrNew DEF Sound
<1>2. /\ person.anchor \in Positions /\ person.spot \in Positions
      /\ person.since \in 0..MinDwell
      /\ person.zones \in Seq(ZoneRecord) /\ person.processed \in BOOLEAN
      /\ person.missing \in (0..ForgetAfter + 1) \cup {None}
  BY <1>1 DEF PersonRecord
<1>3. Distance(x, person.anchor) <= StationaryDistance
  <2>1. Distance(x, person.anchor) \in Nat
    BY <1>2, Distances
  <2>2. ~(Distance(x, person.anchor) > StationaryDistance)
    BY DEF MovedAway
  <2> QED BY <2>1, <2>2, DepartureConstants
<1>4. ~ \E i \in DOMAIN person.zones : person.zones[i].center = person.anchor
  <2> SUFFICES ASSUME NEW i \in DOMAIN person.zones, person.zones[i].center = person.anchor
               PROVE  FALSE
    OBVIOUS
  <2>1. Distance(x, person.zones[i].center) <= MatchDistance
    <3> DEFINE d == Distance(x, person.anchor)
    <3>1. d \in Nat /\ d = Distance(x, person.zones[i].center)
      BY <1>2, Distances
    <3> HIDE DEF d
    <3>2. d <= StationaryDistance
      BY <1>3 DEF d
    <3>3. d <= MatchDistance
      BY ONLY <3>1, <3>2, DepartureConstants
    <3> QED BY <3>1, <3>3
  <2> QED BY <2>1 DEF Matching
<1>5. /\ person.anchor = person.spot
      /\ times[person.spot] # None
      /\ times[person.spot] >= person.since
  BY <1>4 DEF Stay
<1>6. After(times, x)[person.spot] \in 0..MinDwell
      /\ After(times, x)[person.spot] = times[person.spot]
  BY <1>2, <1>3, <1>5, TimesAfter
<1>7. /\ new.anchor = person.anchor
      /\ new.since = person.since
      /\ new.spot = person.spot
      /\ new.reference \in {None, person.spot}
      /\ new.processed = person.processed
      /\ new.missing = person.missing
      /\ \/ new.zones = person.zones
         \/ /\ person.since = MinDwell
            /\ \E zone \in ZoneRecord :
                  /\ new.zones = LastZones(Append(person.zones, zone))
                  /\ zone.spot = person.spot
                  /\ zone.reference \in {None, zone.spot}
      /\ new = [anchor |-> new.anchor, since |-> new.since, spot |-> new.spot,
                reference |-> new.reference, zones |-> new.zones,
                processed |-> new.processed, missing |-> new.missing]
  BY <1>1, StaysFields
<1> HIDE DEF new
<1>8. Stay(new, After(times, x))
  <2>1. After(times, x)[person.spot] # None
    BY <1>6, DepartureConstants
  <2> QED BY ONLY <1>5, <1>6, <1>7, <2>1 DEF Stay
<1>9. /\ new.zones \in Seq(ZoneRecord)
      /\ Len(new.zones) <= MaxZones
      /\ \A i \in 1..Len(new.zones) : new.zones[i].reference \in {None, new.zones[i].spot}
      /\ new.zones = person.zones \/ (Last(new.zones).spot = person.spot /\ person.since = MinDwell)
  <2>1. \A i \in 1..Len(person.zones) : person.zones[i].reference \in {None, person.zones[i].spot}
    BY <1>1, ZonesOf DEF RecordShowsItsSpot
  <2>2. CASE new.zones = person.zones
    BY ONLY <2>1, <2>2, <1>1, <1>2
  <2>3. ASSUME person.since = MinDwell, NEW zone \in ZoneRecord,
               new.zones = LastZones(Append(person.zones, zone)),
               zone.spot = person.spot, zone.reference \in {None, zone.spot}
        PROVE  /\ new.zones \in Seq(ZoneRecord)
               /\ Len(new.zones) <= MaxZones
               /\ \A i \in 1..Len(new.zones) :
                     new.zones[i].reference \in {None, new.zones[i].spot}
               /\ Last(new.zones).spot = person.spot
    <3> DEFINE kept == LastZones(Append(person.zones, zone))
    <3>1. /\ kept \in Seq(ZoneRecord)
          /\ Len(kept) <= MaxZones
          /\ Last(kept) = zone
          /\ \A i \in 1..Len(kept) :
                kept[i] = zone \/ \E j \in 1..Len(person.zones) : kept[i] = person.zones[j]
      BY <1>1, <1>2, LastZonesKept
    <3>2. new.zones = kept
      BY <2>3
    <3> HIDE DEF kept
    <3>3. \A i \in 1..Len(kept) : kept[i].reference \in {None, kept[i].spot}
      BY ONLY <3>1, <2>1, <2>3
    <3> QED BY ONLY <3>1, <3>2, <3>3, <2>3
  <2> QED BY <1>7, <2>2, <2>3
<1>10. new \in PersonRecord
  <2>1. new.reference \in Positions \cup {None}
    BY <1>2, <1>7
  <2> QED BY ONLY <1>2, <1>7, <1>9, <2>1 DEF PersonRecord
<1>11. RecordShowsItsSpot(new)
  <2>1. DOMAIN new.zones = 1..Len(new.zones)
    BY <1>9, LenProperties
  <2> QED BY ONLY <2>1, <1>7, <1>9 DEF RecordShowsItsSpot
<1>12. SpotsOf(new) # SpotsOf(person) => After(times, x)[Last(new.zones).spot] = MinDwell
  <2>1. new.zones = person.zones => SpotsOf(new) = SpotsOf(person)
    BY DEF SpotsOf
  <2>2. person.since = MinDwell => After(times, x)[person.spot] = MinDwell
    BY <1>2, <1>5, <1>6, DepartureConstants
  <2> QED BY ONLY <1>9, <2>1, <2>2
<1> QED BY <1>7, <1>8, <1>9, <1>10, <1>11, <1>12 DEF Sound, new

(* Any later sighting.                                                     *)
LEMMA LaterSighting ==
    ASSUME NEW person, Sound(person), NEW x \in Positions, NEW image \in BOOLEAN,
           NEW times \in Times, Stay(person, times),
           NEW new \in UpdateDwellZones(person, x, image)
    PROVE  /\ Sound(new)
           /\ Stay(new, After(times, x))
           /\ SpotsOf(new) # SpotsOf(person)
                 => After(times, x)[Last(new.zones).spot] = MinDwell
           /\ new.processed = person.processed
           /\ new.missing = person.missing
<1>1. person \in NewOrOld
  BY OldOrNew DEF Sound
<1>2. ASSUME NEW i \in 1..Len(person.zones), NEW c \in Positions, new = TakenOver(person, i, c)
      PROVE  /\ Sound(new)
             /\ Stay(new, After(times, x))
             /\ SpotsOf(new) = SpotsOf(person)
             /\ new.processed = person.processed
             /\ new.missing = person.missing
  BY <1>2, InZoneSound
<1>3. CASE new = NewAnchor(person, x, image)
  <2>1. Len(person.zones) <= MaxZones /\ ZonesShowTheirSpots(person.zones)
    BY <1>1, ZonesOf DEF Sound, RecordShowsItsSpot, ZonesShowTheirSpots
  <2>2. /\ Sound(new)
        /\ Stay(new, After(times, x))
        /\ new.zones = person.zones
        /\ new.processed = person.processed
        /\ new.missing = person.missing
    BY <1>1, <1>3, <2>1, NewAnchorSound
  <2>3. SpotsOf(new) = SpotsOf(person)
    BY <2>2 DEF SpotsOf
  <2> QED BY <2>2, <2>3
<1>4. CASE Matching(person, x) = {} /\ ~MovedAway(person, x) /\ new = Stays(person, image)
  BY <1>4, StaysSound
<1> QED BY <1>1, <1>2, <1>3, <1>4, ThreeCases

-----------------------------------------------------------------------------
(* The steps *)

LEMMA InvInParts ==
    PersonInv <=>
        /\ DOMAIN persons \subseteq Persons
        /\ candidates \subseteq Persons \X Positions
        /\ unseen \in [Persons -> 0..DepartureConfirm \cup {None}]
        /\ checks \in [Persons -> 0..2]
        /\ near \in [Persons -> Times]
        /\ \A p \in DOMAIN persons : /\ Sound(persons[p])
                                     /\ Stay(persons[p], near[p])
                                     /\ AbsenceOf(p)
BY DEF PersonInv, Types, Times, Sound, RecordShowsItsSpot, ReferenceShowsItsSpot, StayOf, Stay

LEMMA InitPersons == Init => PersonInv
<1> SUFFICES ASSUME Init PROVE PersonInv
  OBVIOUS
<1>1. DOMAIN persons = {} /\ candidates = {}
  BY DEF Init
<1>2. unseen \in [Persons -> 0..DepartureConfirm \cup {None}]
  BY DEF Init
<1>3. checks \in [Persons -> 0..2]
  BY DEF Init
<1>4. near \in [Persons -> Times]
  BY DEF Init, Times
<1> QED BY <1>1, <1>2, <1>3, <1>4, InvInParts

LEMMA ClearPersons == PersonInv /\ ClearCamera => PersonInv'
<1> SUFFICES ASSUME PersonInv, ClearCamera PROVE PersonInv'
  OBVIOUS
<1>1. DOMAIN persons' = {} /\ candidates' = candidates
  BY DEF ClearCamera
<1>2. unseen' \in [Persons -> 0..DepartureConfirm \cup {None}]
  BY DEF ClearCamera
<1>3. checks' \in [Persons -> 0..2]
  BY DEF ClearCamera
<1>4. near' \in [Persons -> Times]
  BY DEF ClearCamera, Times
<1>5. candidates \subseteq Persons \X Positions
  BY DEF PersonInv, Types
<1> QED BY <1>1, <1>2, <1>3, <1>4, <1>5
        DEF PersonInv, Types, Times, ReferenceShowsItsSpot

LEMMA SamePersons == PersonInv /\ UNCHANGED vars => PersonInv'
BY DEF vars, history, PersonInv, Types, ReferenceShowsItsSpot, AbsenceOf, StayOf

LEMMA OlderTyped ==
    ASSUME NEW limit \in Nat, NEW age \in 0..limit \cup {None}
    PROVE  /\ Older(age, limit) \in 0..limit \cup {None}
           /\ age # None => /\ Older(age, limit) \in 0..limit
                            /\ Older(age, limit) >= age
                            /\ age < limit => Older(age, limit) = age + 1
                            /\ age = limit => Older(age, limit) = limit
           /\ age = None => Older(age, limit) = None
           /\ None \notin 0..limit
BY DepartureConstants DEF Older

(* Time changes no place; clocks that are behind others stay behind.       *)
LEMMA TickPersons == PersonInv /\ Tick => PersonInv'
<1> SUFFICES ASSUME PersonInv, Tick PROVE PersonInv'
  OBVIOUS
<1>1. /\ {MinDwell, DepartureConfirm, ForgetAfter} \subseteq Nat /\ ForgetAfter + 1 \in Nat
      /\ None \notin Nat
  BY DepartureConstants
<1>2. /\ DOMAIN persons' = DOMAIN persons
      /\ candidates' = candidates /\ checks' = checks
      /\ \A p \in DOMAIN persons : persons'[p] = [persons[p] EXCEPT
                !.since = Older(@, MinDwell), !.missing = Older(@, ForgetAfter + 1)]
      /\ unseen' = [p \in Persons |-> Older(unseen[p], DepartureConfirm)]
      /\ near' = [p \in Persons |-> [x \in Positions |-> Older(near[p][x], MinDwell)]]
  BY DEF Tick
<1>3. /\ unseen \in [Persons -> 0..DepartureConfirm \cup {None}]
      /\ near \in [Persons -> Times]
  BY InvInParts
<1>4. unseen' \in [Persons -> 0..DepartureConfirm \cup {None}]
  BY <1>1, <1>2, <1>3, OlderTyped
<1>5. near' \in [Persons -> Times]
  <2>1. ASSUME NEW p \in Persons, NEW x \in Positions
        PROVE  Older(near[p][x], MinDwell) \in 0..MinDwell \cup {None}
    <3>1. near[p][x] \in 0..MinDwell \cup {None}
      BY <1>3 DEF Times
    <3> QED BY <1>1, <3>1, OlderTyped
  <2> QED BY <1>2, <2>1 DEF Times
<1>6. ASSUME NEW p \in DOMAIN persons
      PROVE  (Sound(persons[p]) /\ Stay(persons[p], near[p]) /\ AbsenceOf(p))'
  <2> DEFINE old == persons[p]
             new == persons'[p]
  <2>0. p \in Persons /\ Sound(old) /\ Stay(old, near[p]) /\ AbsenceOf(p)
    BY InvInParts
  <2>1. new = [old EXCEPT !.since = Older(old.since, MinDwell),
                          !.missing = Older(old.missing, ForgetAfter + 1)]
    BY <1>2
  <2>2. old \in PersonRecord
    BY <2>0 DEF Sound
  <2>3. /\ old.since \in 0..MinDwell
        /\ old.missing \in 0..(ForgetAfter + 1) \cup {None}
        /\ old.spot \in Positions
    BY <2>2 DEF PersonRecord
  <2> HIDE DEF old, new
  <2>4. /\ new.since = Older(old.since, MinDwell)
        /\ new.missing = Older(old.missing, ForgetAfter + 1)
        /\ new.anchor = old.anchor /\ new.spot = old.spot /\ new.reference = old.reference
        /\ new.zones = old.zones /\ new.processed = old.processed
    BY <2>1, <2>2 DEF PersonRecord
  <2>5. new.since \in 0..MinDwell /\ new.missing \in 0..(ForgetAfter + 1) \cup {None}
    <3> DEFINE limit == ForgetAfter + 1
    <3>1. limit \in Nat /\ MinDwell \in Nat /\ old.missing \in 0..limit \cup {None}
      BY <1>1, <2>3
    <3> HIDE DEF limit
    <3>2. Older(old.missing, limit) \in 0..limit \cup {None}
      BY <3>1, OlderTyped
    <3>3. Older(old.since, MinDwell) \in 0..MinDwell
      <4>1. old.since # None /\ old.since \in 0..MinDwell \cup {None}
        BY <1>1, <2>3
      <4> QED BY <3>1, <4>1, OlderTyped
    <3> QED BY <2>4, <3>2, <3>3 DEF limit
  <2>6. new \in PersonRecord
    BY <2>1, <2>2, <2>4, <2>5 DEF PersonRecord
  <2>7. Sound(new)
    BY <2>0, <2>4, <2>6 DEF Sound, RecordShowsItsSpot
  <2>8. Stay(new, near'[p])
    <3>1. CASE \E i \in DOMAIN old.zones : old.zones[i].center = old.anchor
      BY <2>4, <3>1 DEF Stay
    <3>2. CASE /\ old.anchor = old.spot /\ near[p][old.spot] # None
               /\ near[p][old.spot] >= old.since
      <4>1. near'[p][old.spot] = Older(near[p][old.spot], MinDwell)
        BY <1>2, <2>0, <2>3
      <4>2. near[p][old.spot] \in 0..MinDwell
        BY <1>3, <2>0, <2>3, <3>2 DEF Times
      <4> DEFINE a == near[p][old.spot]
                 b == old.since
      <4>3. a \in 0..MinDwell /\ b \in 0..MinDwell /\ a >= b
        BY <2>3, <3>2, <4>2
      <4> HIDE DEF a, b
      <4>4. Older(a, MinDwell) >= Older(b, MinDwell) /\ Older(a, MinDwell) # None
        BY <1>1, <4>3, OlderTyped
      <4> QED BY <2>4, <3>2, <4>1, <4>4 DEF Stay, a, b
    <3> QED BY <2>0, <3>1, <3>2 DEF Stay
  <2>9. AbsenceOf(p)'
    <3> DEFINE u == unseen[p]
               m == old.missing
    <3>1. /\ unseen'[p] = Older(u, DepartureConfirm)
          /\ u # None /\ u \in 0..DepartureConfirm \cup {None}
          /\ m # None => u = DepartureConfirm \/ u >= m
          /\ m \in 0..(ForgetAfter + 1) \cup {None}
      BY <1>2, <1>3, <2>0, <2>3 DEF AbsenceOf, old
    <3>2. checks'[p] = IF new.processed THEN 1 ELSE 0
      BY <1>2, <2>0, <2>4 DEF AbsenceOf, old
    <3> HIDE DEF u, m
    <3>3. /\ Older(u, DepartureConfirm) # None
          /\ Older(m, ForgetAfter + 1) # None =>
                 \/ Older(u, DepartureConfirm) = DepartureConfirm
                 \/ Older(u, DepartureConfirm) >= Older(m, ForgetAfter + 1)
      BY <1>1, <3>1 DEF Older
    <3>4. new.missing = Older(m, ForgetAfter + 1)
      BY <2>4 DEF m
    <3> QED BY <3>1, <3>2, <3>3, <3>4 DEF AbsenceOf, new
  <2> QED BY <2>7, <2>8, <2>9 DEF new
<1>7. candidates' \subseteq Persons \X Positions /\ checks' \in [Persons -> 0..2]
      /\ DOMAIN persons' \subseteq Persons
  BY <1>2, InvInParts
<1> QED BY <1>2, <1>4, <1>5, <1>6, <1>7
        DEF PersonInv, Types, Times, Sound, RecordShowsItsSpot, ReferenceShowsItsSpot, StayOf, Stay

(* What update does to each person.                                        *)
LEMMA UpdateOnePerson ==
    ASSUME PersonInv, NEW frame \in Frame, NEW image \in BOOLEAN, Update(frame, image)
    PROVE  /\ DOMAIN persons' \subseteq Persons
           /\ \A p \in Persons : frame[p] # None =>
                 /\ p \in DOMAIN persons'
                 /\ persons'[p] \in Seen(p, frame[p], image)
           /\ \A p \in Persons : frame[p] = None =>
                 /\ p \in DOMAIN persons' <=> p \in DOMAIN persons /\ ~Forgotten(p, image)
                 /\ p \in DOMAIN persons' => persons'[p] = Absent(p, image)
<1> DEFINE present == {p \in Persons : frame[p] # None}
           gone == {p \in DOMAIN persons \ present : Forgotten(p, image)}
<1>1. PICK seen \in [present -> UNION {Seen(p, frame[p], image) : p \in present}] :
          /\ \A p \in present : seen[p] \in Seen(p, frame[p], image)
          /\ persons' = [p \in (DOMAIN persons \cup present) \ gone |->
                            IF p \in present THEN seen[p] ELSE Absent(p, image)]
  BY DEF Update
<1>2. DOMAIN persons' = (DOMAIN persons \cup present) \ gone
  BY <1>1
<1>3. DOMAIN persons \subseteq Persons
  BY InvInParts
<1>4. \A p \in Persons : p \in present <=> frame[p] # None
  OBVIOUS
<1>5. \A p : p \in gone <=> p \in DOMAIN persons /\ p \notin present /\ Forgotten(p, image)
  OBVIOUS
<1>6. present \subseteq Persons
  OBVIOUS
<1> HIDE DEF present, gone
<1>7. \A p \in DOMAIN persons' :
          persons'[p] = IF p \in present THEN seen[p] ELSE Absent(p, image)
  BY <1>1, <1>2
<1>8. DOMAIN persons' \subseteq Persons
  BY <1>2, <1>3, <1>6
<1>9. ASSUME NEW p \in Persons, frame[p] # None
      PROVE  p \in DOMAIN persons' /\ persons'[p] \in Seen(p, frame[p], image)
  BY <1>1, <1>2, <1>4, <1>5, <1>7, <1>9
<1>10. ASSUME NEW p \in Persons, frame[p] = None
       PROVE  /\ p \in DOMAIN persons' <=> p \in DOMAIN persons /\ ~Forgotten(p, image)
              /\ p \in DOMAIN persons' => persons'[p] = Absent(p, image)
  BY <1>2, <1>4, <1>5, <1>7, <1>10
<1> QED BY <1>8, <1>9, <1>10

LEMMA MissingTyped ==
    ASSUME NEW p \in DOMAIN persons, Sound(persons[p])
    PROVE  /\ Missing(p) \in PersonRecord
           /\ Missing(p) = [persons[p] EXCEPT !.missing = Missing(p).missing]
           /\ Missing(p).missing \in 0..ForgetAfter + 1
           /\ Missing(p).missing = IF persons[p].missing = None THEN 0 ELSE persons[p].missing
<1>1. persons[p] \in PersonRecord
  BY DEF Sound
<1> DEFINE old == persons[p]
           m == IF old.missing = None THEN 0 ELSE old.missing
<1>2. m \in 0..ForgetAfter + 1
  BY <1>1, DepartureConstants DEF PersonRecord
<1>3. Missing(p) = [old EXCEPT !.missing = m]
  BY DEF Missing
<1> HIDE DEF m, old
<1>4. old \in PersonRecord
  BY <1>1 DEF old
<1>5. Missing(p).missing = m
  BY <1>3, <1>4 DEF PersonRecord
<1>6. Missing(p) \in PersonRecord
  BY <1>2, <1>3, <1>4 DEF PersonRecord
<1> QED BY <1>2, <1>3, <1>5, <1>6 DEF m, old

(* An absent person changes in two fields only.                            *)
LEMMA AbsentFields ==
    ASSUME NEW p \in DOMAIN persons, Sound(persons[p]), NEW image \in BOOLEAN
    PROVE  LET new == Absent(p, image)
           IN /\ Sound(new)
              /\ \A times : Stay(persons[p], times) => Stay(new, times)
              /\ SpotsOf(new) = SpotsOf(persons[p])
              /\ new.missing = Missing(p).missing
              /\ new.processed = (persons[p].processed \/ Checked(p, image))
<1> DEFINE old == persons[p]
           m == Missing(p).missing
           done == persons[p].processed \/ Checked(p, image)
           new == Absent(p, image)
<1>1. old \in PersonRecord
  BY DEF Sound
<1>2. m \in (0..ForgetAfter + 1) \cup {None}
  BY MissingTyped
<1>3. done \in BOOLEAN
  OBVIOUS
<1>4. new = [old EXCEPT !.missing = m, !.processed = done]
  <2>1. Missing(p) = [old EXCEPT !.missing = m]
    BY MissingTyped
  <2>2. new = [Missing(p) EXCEPT !.processed = @ \/ Checked(p, image)]
    BY DEF Absent, MarkedProcessed
  <2>3. Missing(p).processed = persons[p].processed
    <3> HIDE DEF m
    <3> QED BY <1>1, <2>1 DEF PersonRecord
  <2>4. new = [Missing(p) EXCEPT !.processed = done]
    BY <2>2, <2>3
  <2> HIDE DEF new, m, done, old
  <2> QED BY <1>1, <2>1, <2>4 DEF PersonRecord
<1> HIDE DEF new, m, done
<1>5. /\ new.anchor = old.anchor /\ new.since = old.since /\ new.spot = old.spot
      /\ new.reference = old.reference /\ new.zones = old.zones
      /\ new.processed = done /\ new.missing = m
  BY <1>1, <1>4 DEF PersonRecord
<1>6. new \in PersonRecord
  <2> HIDE DEF old
  <2> QED BY ONLY <1>1, <1>2, <1>3, <1>4 DEF PersonRecord
<1>7. Sound(new)
  BY <1>5, <1>6 DEF Sound, RecordShowsItsSpot
<1>8. SpotsOf(new) = SpotsOf(old)
  BY <1>5 DEF SpotsOf
<1>9. \A times : Stay(old, times) => Stay(new, times)
  BY <1>5 DEF Stay
<1> QED BY <1>5, <1>7, <1>8, <1>9 DEF new, m, done, old

LEMMA BackFields ==
    ASSUME NEW person, Sound(person)
    PROVE  /\ Sound(Back(person))
           /\ \A times : Stay(person, times) => Stay(Back(person), times)
           /\ SpotsOf(Back(person)) = SpotsOf(person)
           /\ Back(person).processed = FALSE
           /\ Back(person).missing = None
<1> DEFINE new == Back(person)
<1>1. person \in PersonRecord
  BY DEF Sound
<1>2. new = [person EXCEPT !.missing = None, !.processed = FALSE]
  BY DEF Back
<1> HIDE DEF new
<1>3. /\ new.anchor = person.anchor /\ new.since = person.since /\ new.spot = person.spot
      /\ new.reference = person.reference /\ new.zones = person.zones
      /\ new.processed = FALSE /\ new.missing = None
      /\ new \in PersonRecord
  BY <1>1, <1>2 DEF PersonRecord
<1>4. Sound(new)
  BY <1>3 DEF Sound, RecordShowsItsSpot
<1>5. SpotsOf(new) = SpotsOf(person)
  BY <1>3 DEF SpotsOf
<1>6. \A times : Stay(person, times) => Stay(new, times)
  BY <1>3 DEF Stay
<1> QED BY <1>3, <1>4, <1>5, <1>6 DEF new

(* A person in the frame.                                                  *)
LEMMA SeenPerson ==
    ASSUME PersonInv, NEW frame \in Frame, NEW image \in BOOLEAN, Update(frame, image),
           NEW p \in Persons, frame[p] # None
    PROVE  /\ Sound(persons'[p])
           /\ Stay(persons'[p], near'[p])
           /\ AbsenceOf(p)'
           /\ p \in DOMAIN persons /\ SpotsOf(persons'[p]) # SpotsOf(persons[p])
                 => near'[p][Last(persons'[p].zones).spot] = MinDwell
<1> DEFINE x == frame[p]
           new == persons'[p]
<1>1. x \in Positions
  BY DEF Frame
<1>2. p \in DOMAIN persons' /\ new \in Seen(p, x, image)
  BY UpdateOnePerson
<1>3. near'[p] = After(near[p], x) /\ near[p] \in Times
  <2>1. near[p] \in Times
    BY InvInParts
  <2>2. near'[p] = [y \in Positions |-> Since(near[p][y], x, y)]
    BY <1>2 DEF Update, Observed
  <2> QED BY <2>1, <2>2 DEF After
<1>4. unseen'[p] = 0 /\ checks'[p] = 0
  BY DEF Update, Observed
<1> HIDE DEF x, new
<1>5. /\ Sound(new)
      /\ Stay(new, After(near[p], x))
      /\ new.processed = FALSE
      /\ new.missing = None
      /\ p \in DOMAIN persons /\ SpotsOf(new) # SpotsOf(persons[p])
            => After(near[p], x)[Last(new.zones).spot] = MinDwell
  <2>1. CASE p \in DOMAIN persons
    <3>1. new \in UpdateDwellZones(Back(persons[p]), x, image)
      BY <1>2, <2>1 DEF Seen
    <3>2. Sound(persons[p]) /\ Stay(persons[p], near[p])
      BY <2>1, InvInParts
    <3>3. /\ Sound(Back(persons[p])) /\ Stay(Back(persons[p]), near[p])
          /\ SpotsOf(Back(persons[p])) = SpotsOf(persons[p])
          /\ Back(persons[p]).processed = FALSE /\ Back(persons[p]).missing = None
      BY <3>2, BackFields
    <3> QED BY <1>1, <1>3, <3>1, <3>3, LaterSighting
  <2>2. CASE p \notin DOMAIN persons
    <3>1. new \in UpdateDwellZones(NewPerson, x, image)
      BY <1>2, <2>2 DEF Seen
    <3> QED BY <1>1, <1>3, <2>2, <3>1, FirstSighting
  <2> QED BY <2>1, <2>2
<1>6. AbsenceOf(p)'
  <2>1. 0 # None
    BY DepartureConstants
  <2> QED BY <1>4, <1>5, <2>1 DEF AbsenceOf, new
<1> QED BY <1>3, <1>5, <1>6 DEF new

LEMMA AbsenceMeasured ==
    ASSUME PersonInv, NEW p \in DOMAIN persons
    PROVE  unseen[p] = DepartureConfirm \/ unseen[p] >= Missing(p).missing
<1>1. Sound(persons[p]) /\ AbsenceOf(p) /\ unseen[p] \in 0..DepartureConfirm \cup {None}
  BY InvInParts
<1>2. Missing(p).missing = IF persons[p].missing = None THEN 0 ELSE persons[p].missing
  BY <1>1, MissingTyped
<1> QED BY <1>1, <1>2, DepartureConstants DEF AbsenceOf

(* A person not in the frame, who is not forgotten.                        *)
LEMMA AbsentPerson ==
    ASSUME PersonInv, NEW frame \in Frame, NEW image \in BOOLEAN, Update(frame, image),
           NEW p \in Persons, frame[p] = None, p \in DOMAIN persons'
    PROVE  /\ Sound(persons'[p])
           /\ Stay(persons'[p], near'[p])
           /\ AbsenceOf(p)'
           /\ SpotsOf(persons'[p]) = SpotsOf(persons[p])
<1> DEFINE new == persons'[p]
<1>1. p \in DOMAIN persons /\ new = Absent(p, image)
  BY UpdateOnePerson
<1>2. Sound(persons[p]) /\ Stay(persons[p], near[p]) /\ AbsenceOf(p) /\ near[p] \in Times
  BY <1>1, InvInParts
<1>3. near'[p] = near[p]
  <2>1. near'[p] = [y \in Positions |-> near[p][y]]
    BY DEF Update, Observed
  <2> QED BY <1>2, <2>1 DEF Times
<1>4. /\ Sound(new)
      /\ Stay(new, near[p])
      /\ SpotsOf(new) = SpotsOf(persons[p])
      /\ new.missing = Missing(p).missing
      /\ new.processed = (persons[p].processed \/ Checked(p, image))
  BY <1>1, <1>2, AbsentFields
<1>5. unseen'[p] = unseen[p] /\ unseen[p] \in 0..DepartureConfirm \cup {None}
  <2>1. unseen \in [Persons -> 0..DepartureConfirm \cup {None}]
    BY InvInParts
  <2> QED BY <2>1 DEF Update, Observed
<1>6. checks'[p] = IF Checked(p, image) /\ checks[p] < 2 THEN checks[p] + 1 ELSE checks[p]
  BY <1>1 DEF Update, Observed
<1> HIDE DEF new
<1>7. AbsenceOf(p)'
  <2>1. /\ unseen[p] # None
        /\ persons[p].missing # None =>
               unseen[p] = DepartureConfirm \/ unseen[p] >= persons[p].missing
        /\ checks[p] = IF persons[p].processed THEN 1 ELSE 0
    BY <1>2 DEF AbsenceOf
  <2>2. unseen[p] = DepartureConfirm \/ unseen[p] >= Missing(p).missing
    BY <1>1, AbsenceMeasured
  <2>3. checks'[p] = IF new.processed THEN 1 ELSE 0
    <3>1. CASE Checked(p, image)
      <4>1. ~persons[p].processed
        BY <3>1 DEF Checked, DepartureDue
      <4>2. new.processed = TRUE
        BY <1>4, <3>1
      <4>3. checks[p] = 0
        BY <2>1, <4>1
      <4>4. checks'[p] = 1
        BY <1>6, <3>1, <4>3
      <4> QED BY <4>2, <4>4
    <3>2. CASE ~Checked(p, image)
      <4>1. persons[p].processed \in BOOLEAN
        BY <1>2 DEF Sound, PersonRecord
      <4>2. new.processed = persons[p].processed
        BY <1>4, <3>2, <4>1
      <4> QED BY <1>6, <2>1, <3>2, <4>2
    <3> QED BY <3>1, <3>2
  <2> QED BY <1>4, <1>5, <2>1, <2>2, <2>3 DEF AbsenceOf, new
<1> QED BY <1>3, <1>4, <1>7 DEF new

LEMMA ObservedTyped ==
    ASSUME PersonInv, NEW frame \in Frame, NEW image \in BOOLEAN, Update(frame, image)
    PROVE  /\ unseen' \in [Persons -> 0..DepartureConfirm \cup {None}]
           /\ checks' \in [Persons -> 0..2]
           /\ near' \in [Persons -> Times]
<1>1. /\ unseen \in [Persons -> 0..DepartureConfirm \cup {None}]
      /\ checks \in [Persons -> 0..2]
      /\ near \in [Persons -> Times]
  BY InvInParts
<1>2. unseen' \in [Persons -> 0..DepartureConfirm \cup {None}]
  BY <1>1, DepartureConstants DEF Update, Observed
<1>3. checks' \in [Persons -> 0..2]
  BY <1>1 DEF Update, Observed
<1>4. near' \in [Persons -> Times]
  <2>1. near' = [p \in Persons |-> [y \in Positions |->
            IF p \notin DOMAIN persons' THEN None
            ELSE IF frame[p] = None THEN near[p][y] ELSE Since(near[p][y], frame[p], y)]]
    BY DEF Update, Observed
  <2>2. ASSUME NEW p \in Persons, NEW y \in Positions
        PROVE  /\ near[p][y] \in 0..MinDwell \cup {None}
               /\ Since(near[p][y], frame[p], y) \in 0..MinDwell \cup {None}
    <3>1. near[p][y] \in 0..MinDwell \cup {None}
      BY <1>1 DEF Times
    <3>2. 0 \in 0..MinDwell
      BY DepartureConstants
    <3>3. Since(near[p][y], frame[p], y) \in {None, 0, near[p][y]}
      BY DEF Since
    <3> QED BY <3>1, <3>2, <3>3
  <2> QED BY <2>1, <2>2 DEF Times
<1> QED BY <1>2, <1>3, <1>4

LEMMA CandidatesTyped ==
    ASSUME PersonInv, NEW frame \in Frame, NEW image \in BOOLEAN, Update(frame, image)
    PROVE  candidates' \subseteq Persons \X Positions
<1>1. ASSUME NEW c \in candidates' PROVE c \in Persons \X Positions
  <2>1. PICK p \in DOMAIN persons : c \in Comparable(p)
    BY <1>1 DEF Update
  <2>2. PICK i \in DOMAIN persons[p].zones : c = <<p, persons[p].zones[i].spot>>
    BY <2>1 DEF Comparable
  <2>3. p \in Persons /\ persons[p] \in NewOrOld
    BY OldOrNew, InvInParts DEF Sound
  <2>4. persons[p].zones[i] \in ZoneRecord
    BY <2>3, ZonesOf
  <2> QED BY <2>2, <2>3, <2>4 DEF ZoneRecord
<1> QED BY <1>1

LEMMA UpdatePersons ==
    ASSUME PersonInv, NEW frame \in Frame, NEW image \in BOOLEAN, Update(frame, image)
    PROVE  PersonInv'
<1>1. DOMAIN persons' \subseteq Persons
  BY UpdateOnePerson
<1>2. ASSUME NEW p \in DOMAIN persons'
      PROVE  (Sound(persons[p]) /\ Stay(persons[p], near[p]) /\ AbsenceOf(p))'
  BY <1>1, SeenPerson, AbsentPerson
<1> QED BY <1>1, <1>2, ObservedTyped, CandidatesTyped
        DEF PersonInv, Types, Times, Sound, RecordShowsItsSpot, ReferenceShowsItsSpot, StayOf, Stay

-----------------------------------------------------------------------------
(* The theorems *)

(* Every record is sound, its absence is measured from the last sighting   *)
(* and checked at most once, and its stay from the first one at the spot.  *)
THEOREM PersonInvariance == Spec => []PersonInv
<1>1. PersonInv /\ [Next]_vars => PersonInv'
  BY TickPersons, UpdatePersons, ClearPersons, SamePersons DEF Next
<1> QED BY <1>1, InitPersons, PTL DEF Spec

(* Every variable of the detector keeps its type, and a person at most as  *)
(* many dwell zones as the configuration allows.                           *)
THEOREM TypeCorrect == Spec => []TypeOK
<1>1. ASSUME PersonInv PROVE TypeOK
  <2>1. ASSUME NEW s \in Seq(ZoneRecord), Len(s) <= MaxZones
        PROVE  s \in BoundedSeq(ZoneRecord, MaxZones)
    <3>1. Len(s) \in 0..MaxZones /\ s \in [1..Len(s) -> ZoneRecord]
      <4>1. MaxZones \in Nat /\ Len(s) \in Nat
        BY DepartureConstants, LenProperties
      <4> QED BY <2>1, <4>1, LenProperties
    <3> QED BY <3>1 DEF BoundedSeq, SeqOf
  <2>2. \A p \in DOMAIN persons : persons[p].zones \in BoundedSeq(ZoneRecord, MaxZones)
    BY <1>1, <2>1 DEF PersonInv, Types, PersonRecord
  <2> QED BY <1>1, <2>2 DEF PersonInv, Types, PersonRecord, TypeOK
<1> QED BY <1>1, PersonInvariance, PTL

(* The image a departure is compared with shows the spot it is compared    *)
(* at, whatever came between: frames without an image, moves from spot to  *)
(* spot, drifting zones, departures and returns.                           *)
THEOREM ReferencesFit == Spec => []ReferenceShowsItsSpot
<1>1. PersonInv => ReferenceShowsItsSpot
  BY DEF PersonInv
<1> QED BY <1>1, PersonInvariance, PTL

(* A spot becomes a dwell zone only after min_dwell_seconds in which the   *)
(* person was not seen away from it.                                       *)
THEOREM ZonesTakeTime == Spec => ZoneNeedsStay
<1> DEFINE Step == \A p \in Persons :
              NewZoneOf(p) => near'[p][Last(persons'[p].zones).spot] = MinDwell
<1>1. PersonInv /\ [Next]_vars => Step \/ UNCHANGED vars
  <2> SUFFICES ASSUME PersonInv, Next, NEW p \in Persons, NewZoneOf(p)
               PROVE  near'[p][Last(persons'[p].zones).spot] = MinDwell
    OBVIOUS
  <2>1. CASE Tick
    <3>1. persons'[p] = [persons[p] EXCEPT !.since = Older(@, MinDwell),
                                           !.missing = Older(@, ForgetAfter + 1)]
      BY <2>1 DEF Tick, NewZoneOf
    <3>2. persons[p] \in PersonRecord
      BY InvInParts DEF NewZoneOf, Sound
    <3>3. persons'[p].zones = persons[p].zones
      BY <3>1, <3>2 DEF PersonRecord
    <3> QED BY <3>3 DEF NewZoneOf, SpotsOf
  <2>2. ASSUME NEW frame \in Frame, NEW image \in BOOLEAN, Update(frame, image)
        PROVE  near'[p][Last(persons'[p].zones).spot] = MinDwell
    BY <2>2, SeenPerson, AbsentPerson DEF NewZoneOf
  <2>3. CASE ClearCamera
    BY <2>3 DEF ClearCamera, NewZoneOf
  <2> QED BY <2>1, <2>2, <2>3 DEF Next
<1>2. PersonInv /\ [Next]_vars => [Step]_vars
  BY <1>1
<1> QED BY <1>2, PersonInvariance, PTL DEF Spec, ZoneNeedsStay

(* A departure is checked only when the person has been in no frame for    *)
(* departure_confirm_seconds, and once per absence.                        *)
THEOREM OneCheckPerAbsence == Spec => CheckedOnceAfterAbsence
<1> DEFINE Step == \A p \in Persons : checks'[p] > checks[p] =>
                       unseen[p] = DepartureConfirm /\ checks[p] = 0
<1>1. PersonInv /\ [Next]_vars => Step \/ UNCHANGED vars
  <2> SUFFICES ASSUME PersonInv, Next, NEW p \in Persons, checks'[p] > checks[p]
               PROVE  unseen[p] = DepartureConfirm /\ checks[p] = 0
    OBVIOUS
  <2>0. checks[p] \in 0..2
    BY InvInParts
  <2>1. CASE Tick \/ ClearCamera
    <3>1. checks'[p] = checks[p] \/ checks'[p] = 0
      BY <2>1 DEF Tick, ClearCamera
    <3> QED BY <2>0, <3>1
  <2>2. ASSUME NEW frame \in Frame, NEW image \in BOOLEAN, Update(frame, image)
        PROVE  unseen[p] = DepartureConfirm /\ checks[p] = 0
    <3>1. p \in DOMAIN persons /\ Checked(p, image)
      <4>1. checks'[p] = IF frame[p] # None THEN 0
                         ELSE IF p \in DOMAIN persons /\ Checked(p, image) /\ checks[p] < 2
                              THEN checks[p] + 1
                         ELSE checks[p]
        BY <2>2 DEF Update, Observed
      <4> QED BY <2>0, <4>1
    <3>2. Missing(p).missing >= DepartureConfirm /\ ~persons[p].processed
      BY <3>1 DEF Checked, DepartureDue
    <3>3. Sound(persons[p]) /\ AbsenceOf(p) /\ unseen[p] \in 0..DepartureConfirm \cup {None}
      BY <3>1, InvInParts
    <3>4. Missing(p).missing \in 0..ForgetAfter + 1
      BY <3>1, <3>3, MissingTyped
    <3>5. unseen[p] = DepartureConfirm \/ unseen[p] >= Missing(p).missing
      BY <3>1, AbsenceMeasured
    <3>6. unseen[p] \in 0..DepartureConfirm
      BY <3>3 DEF AbsenceOf
    <3>7. unseen[p] = DepartureConfirm
      BY ONLY <3>2, <3>4, <3>5, <3>6, DepartureConstants
    <3> QED BY <3>2, <3>3, <3>7 DEF AbsenceOf
  <2> QED BY <2>1, <2>2 DEF Next
<1>2. PersonInv /\ [Next]_vars => [Step]_vars
  BY <1>1
<1> QED BY <1>2, PersonInvariance, PTL DEF Spec, CheckedOnceAfterAbsence

(* Nobody is forgotten whose departure was not compared, if the minute of  *)
(* update is not shorter than departure_confirm_seconds (3 seconds in      *)
(* configs/app_config.yaml).                                               *)
THEOREM NobodyForgotten ==
    ASSUME DepartureConfirm <= ForgetAfter
    PROVE  Spec => NobodyForgottenUnchecked
<1> DEFINE Step == \A p \in DOMAIN persons :
                       p \notin DOMAIN persons' => checks'[p] = 1 \/ ClearCamera
<1>1. PersonInv /\ [Next]_vars => Step \/ UNCHANGED vars
  <2> SUFFICES ASSUME PersonInv, Next, ~ClearCamera,
                      NEW p \in DOMAIN persons, p \notin DOMAIN persons'
               PROVE  checks'[p] = 1
    OBVIOUS
  <2>1. CASE Tick
    BY <2>1 DEF Tick
  <2>2. ASSUME NEW frame \in Frame, NEW image \in BOOLEAN, Update(frame, image)
        PROVE  checks'[p] = 1
    <3>1. p \in Persons /\ Sound(persons[p]) /\ AbsenceOf(p)
      BY InvInParts
    <3>2. frame[p] = None /\ Forgotten(p, image)
      BY <2>2, <3>1, UpdateOnePerson
    <3>3. checks'[p] = IF Checked(p, image) /\ checks[p] < 2 THEN checks[p] + 1 ELSE checks[p]
      BY <2>2, <3>1, <3>2 DEF Update, Observed
    <3>4. Missing(p).missing \in 0..ForgetAfter + 1 /\ Missing(p).missing > ForgetAfter
          /\ ~Waits(p, image)
      BY <3>1, <3>2, MissingTyped DEF Forgotten
    <3>5. Missing(p).missing >= DepartureConfirm
      BY ONLY <3>4, DepartureConstants, DepartureConfirm <= ForgetAfter
    <3>6. CASE persons[p].processed
      <4>1. ~Checked(p, image)
        BY <3>6 DEF Checked, DepartureDue
      <4> QED BY <3>1, <3>3, <3>6, <4>1 DEF AbsenceOf
    <3>7. CASE ~persons[p].processed
      <4>1. Checked(p, image)
        BY <3>4, <3>5, <3>7 DEF Waits, Checked, DepartureDue
      <4>2. checks[p] = 0
        BY <3>1, <3>7 DEF AbsenceOf
      <4> QED BY <3>3, <4>1, <4>2
    <3> QED BY <3>6, <3>7
  <2> QED BY <2>1, <2>2 DEF Next
<1>2. PersonInv /\ [Next]_vars => [Step]_vars
  BY <1>1
<1> QED BY <1>2, PersonInvariance, PTL DEF Spec, NobodyForgottenUnchecked

=============================================================================
