--------------------------- MODULE Service_proofs ---------------------------
(***************************************************************************)
(* Proofs about MqttAodClient, for any set of cameras and any number of    *)
(* messages and pipelines, and about Service, for any settings and numbers *)
(* of lists as well.  The service implements both its components, so what  *)
(* is proved of each of them alone holds of it.                            *)
(***************************************************************************)
EXTENDS Service, SequenceTheorems, TLAPS

-----------------------------------------------------------------------------
(* The retained entries of one camera *)

(* The keys and the last version of the three forms the entries can have.  *)
LEMMA OneEntry ==
    ASSUME NEW key, NEW version
    PROVE  LET s == <<Entry(key, version)>> IN
           /\ s # <<>>
           /\ ToSet(s) = {Entry(key, version)}
           /\ Keys(s) = {key}
           /\ Last(s) = Entry(key, version)
<1> DEFINE s == <<Entry(key, version)>>
<1>1. Len(s) = 1 /\ DOMAIN s = {1} /\ s[1] = Entry(key, version)
  OBVIOUS
<1>2. ToSet(s) = {Entry(key, version)}
  BY <1>1 DEF ToSet
<1>3. Keys(s) = {key}
  BY <1>2 DEF Keys, Entry
<1> QED BY <1>1, <1>2, <1>3 DEF Last

LEMMA TwoEntries ==
    ASSUME NEW key, NEW version, NEW key2, NEW version2
    PROVE  LET s == <<Entry(key, version), Entry(key2, version2)>> IN
           /\ s # <<>>
           /\ ToSet(s) = {Entry(key, version), Entry(key2, version2)}
           /\ Keys(s) = {key, key2}
           /\ Last(s) = Entry(key2, version2)
<1> DEFINE s == <<Entry(key, version), Entry(key2, version2)>>
<1>1. Len(s) = 2 /\ DOMAIN s = {1, 2} /\ s[1] = Entry(key, version) /\ s[2] = Entry(key2, version2)
  OBVIOUS
<1>2. ToSet(s) = {Entry(key, version), Entry(key2, version2)}
  BY <1>1 DEF ToSet
<1>3. Keys(s) = {key, key2}
  BY <1>2 DEF Keys, Entry
<1> QED BY <1>1, <1>2, <1>3 DEF Last

LEMMA AppendOne == ASSUME NEW a, NEW b PROVE Append(<<a>>, b) = <<a, b>>
<1> DEFINE S == {a, b}
           s == Append(<<a>>, b)
<1>1. <<a>> \in Seq(S) /\ <<a, b>> \in Seq(S) /\ s \in Seq(S)
  OBVIOUS
<1>2. Len(s) = 2 /\ s[1] = a /\ s[2] = b
  BY <1>1, AppendProperties
<1>3. \A i \in 1..Len(s) : s[i] = <<a, b>>[i]
  BY <1>2
<1> HIDE DEF S, s
<1>4. s = <<a, b>>
  BY <1>1, <1>2, <1>3, SeqEqual
<1> QED BY <1>4 DEF s

LEMMA NoEntries == Keys(<<>>) = {} /\ ToSet(<<>>) = {}
BY DEF Keys, ToSet

(* Registering the camera leaves one entry, that of the last message, under*)
(* the camera's id.                                                        *)
LEMMA RekeyedSound ==
    ASSUME NEW n, NEW s, EntriesSound(s, n)
    PROVE  /\ EntriesSound(Rekeyed(s), n)
           /\ Keys(Rekeyed(s)) \subseteq {"id"}
           /\ "id" \in Keys(s) => "id" \in Keys(Rekeyed(s))
<1>1. CASE s = <<>>
  BY <1>1, NoEntries DEF Rekeyed, EntriesSound
<1>2. CASE s # <<>>
  <2>1. Last(s).version = n /\ n \in 1..MaxVersion
    BY <1>2, OneEntry, TwoEntries DEF EntriesSound, Entry
  <2>2. Rekeyed(s) = <<Entry("id", n)>>
    BY <1>2, <2>1 DEF Rekeyed
  <2> QED BY <2>1, <2>2, OneEntry DEF EntriesSound
<1> QED BY <1>1, <1>2

(* A message under the key that the registry gives it: a registered camera *)
(* has no other key, an unregistered one gets its code behind the id.      *)
LEMMA PutSound ==
    ASSUME NEW n, NEW s, EntriesSound(s, n), NEW version \in 1..MaxVersion,
           NEW key \in {"id", "code"}, key = "id" => Keys(s) \subseteq {"id"}
    PROVE  /\ EntriesSound(Put(s, key, version), version)
           /\ Keys(Put(s, key, version)) = Keys(s) \cup {key}
<1>1. CASE s = <<>>
  <2>1. Put(s, key, version) = <<Entry(key, version)>>
    BY <1>1, NoEntries DEF Put
  <2> QED BY <1>1, <2>1, NoEntries, OneEntry DEF EntriesSound
<1>2. ASSUME NEW k \in {"id", "code"}, s = <<Entry(k, n)>>
      PROVE  /\ EntriesSound(Put(s, key, version), version)
             /\ Keys(Put(s, key, version)) = Keys(s) \cup {key}
  <2>1. Keys(s) = {k} /\ DOMAIN s = {1} /\ s[1] = Entry(k, n)
    BY <1>2, OneEntry
  <2>2. CASE k = key
    <3>1. Put(s, key, version) = [i \in DOMAIN s |->
                IF s[i].key = key THEN Entry(key, version) ELSE s[i]]
      BY <2>1, <2>2 DEF Put
    <3>2. Put(s, key, version) = <<Entry(key, version)>>
      BY <2>1, <2>2, <3>1 DEF Entry
    <3> QED BY <2>1, <2>2, <3>2, OneEntry DEF EntriesSound
  <2>3. CASE k # key
    <3>1. k = "id" /\ key = "code"
      BY <2>1, <2>3
    <3>2. Put(s, key, version) = <<Entry("id", n), Entry("code", version)>>
      <4>1. Put(s, key, version) = Append(s, Entry("code", version))
        BY <2>1, <2>3, <3>1 DEF Put
      <4>2. Append(<<Entry("id", n)>>, Entry("code", version))
              = <<Entry("id", n), Entry("code", version)>>
        BY AppendOne
      <4> QED BY <1>2, <3>1, <4>1, <4>2
    <3>3. n \in 1..MaxVersion
      BY <1>2, OneEntry DEF EntriesSound
    <3> QED BY <2>1, <3>1, <3>2, <3>3, TwoEntries DEF EntriesSound
  <2> QED BY <2>2, <2>3
<1>3. ASSUME NEW v \in 1..MaxVersion, s = <<Entry("id", v), Entry("code", n)>>
      PROVE  /\ EntriesSound(Put(s, key, version), version)
             /\ Keys(Put(s, key, version)) = Keys(s) \cup {key}
  <2>1. /\ Keys(s) = {"id", "code"} /\ DOMAIN s = {1, 2}
        /\ s[1] = Entry("id", v) /\ s[2] = Entry("code", n)
    BY <1>3, TwoEntries
  <2>2. key = "code"
    BY <2>1
  <2>3. Put(s, key, version) = [i \in DOMAIN s |->
              IF s[i].key = key THEN Entry(key, version) ELSE s[i]]
    BY <2>1, <2>2 DEF Put
  <2>4. Put(s, key, version) = <<Entry("id", v), Entry("code", version)>>
    BY <2>1, <2>2, <2>3 DEF Entry
  <2> QED BY <2>1, <2>2, <2>4, TwoEntries DEF EntriesSound
<1> QED BY <1>1, <1>2, <1>3 DEF EntriesSound

(* What a new pipeline copies: every entry, typed.                         *)
LEMMA EntriesTyped ==
    ASSUME NEW n, NEW s, EntriesSound(s, n)
    PROVE  /\ \A e \in ToSet(s) : /\ e = Entry(e.key, e.version)
                                  /\ e.key \in {"id", "code"}
                                  /\ e.version \in 1..MaxVersion
           /\ s = <<>> <=> n = 0
           /\ s # <<>> => Last(s).version = n
           /\ "id" \in Keys(s) => \E e \in ToSet(s) : e.key = "id"
<1>1. CASE s = <<>> /\ n = 0
  BY <1>1, NoEntries
<1>2. ASSUME NEW k \in {"id", "code"}, s = <<Entry(k, n)>>, n \in 1..MaxVersion
      PROVE  /\ \A e \in ToSet(s) : /\ e = Entry(e.key, e.version)
                                    /\ e.key \in {"id", "code"}
                                    /\ e.version \in 1..MaxVersion
             /\ s # <<>> /\ n # 0
             /\ Last(s).version = n
  BY <1>2, OneEntry, ClientAssumption DEF Entry
<1>3. ASSUME NEW v \in 1..MaxVersion, s = <<Entry("id", v), Entry("code", n)>>, n \in 1..MaxVersion
      PROVE  /\ \A e \in ToSet(s) : /\ e = Entry(e.key, e.version)
                                    /\ e.key \in {"id", "code"}
                                    /\ e.version \in 1..MaxVersion
             /\ s # <<>> /\ n # 0
             /\ Last(s).version = n
  BY <1>3, TwoEntries, ClientAssumption DEF Entry
<1>4. "id" \in Keys(s) => \E e \in ToSet(s) : e.key = "id"
  BY DEF Keys
<1> QED BY <1>1, <1>2, <1>3, <1>4 DEF EntriesSound

-----------------------------------------------------------------------------
(* The MQTT thread *)

LEMMA InitClient == Init => ClientInv
<1> SUFFICES ASSUME Init PROVE ClientInv
  OBVIOUS
<1>1. Types
  BY ClientAssumption DEF Init, Types, Pipelines, Waiting
<1>2. RetainedInv
  BY NoEntries DEF Init, RetainedInv, EntriesSound
<1>3. ZonesOnTheWay
  BY ClientAssumption DEF Init, ZonesOnTheWay, Pipelines
<1> QED BY <1>1, <1>2, <1>3 DEF ClientInv

LEMMA SetCameraRegistryClient ==
    ASSUME ClientInv, NEW listed \in [Cameras -> {"absent", "disabled", "enabled"}],
           SetCameraRegistry(listed)
    PROVE  ClientInv'
<1>1. /\ registry' = listed
      /\ DOMAIN latest_zones' = Cameras
      /\ \A c \in Cameras : latest_zones'[c] = IF listed[c] = "absent" THEN latest_zones[c]
                                                ELSE Rekeyed(latest_zones[c])
      /\ UNCHANGED <<cmd_handlers, roi, on_message, pipeline, pending, newest, heard>>
  BY DEF SetCameraRegistry
<1>2. Types'
  BY <1>1 DEF ClientInv, Types
<1>3. RetainedInv'
  <2> SUFFICES ASSUME NEW c \in Cameras
               PROVE  /\ EntriesSound(latest_zones'[c], newest[c])
                      /\ listed[c] # "absent" => Keys(latest_zones'[c]) \subseteq {"id"}
                      /\ heard[c] # 0 => "id" \in Keys(latest_zones'[c])
    BY <1>1 DEF RetainedInv
  <2>1. EntriesSound(latest_zones[c], newest[c])
        /\ (heard[c] # 0 => "id" \in Keys(latest_zones[c]))
    BY DEF ClientInv, RetainedInv
  <2> QED BY <1>1, <2>1, RekeyedSound
<1>4. ZonesOnTheWay'
  BY <1>1 DEF ClientInv, ZonesOnTheWay, ToBeReplayed, BeingDelivered
<1> QED BY <1>2, <1>3, <1>4 DEF ClientInv

LEMMA StoreZonesClient ==
    ASSUME ClientInv, NEW c \in Cameras, NEW version \in 1..MaxVersion, StoreZones(c, version)
    PROVE  ClientInv'
<1> DEFINE key == IF registry[c] = "absent" THEN "code" ELSE "id"
<1>1. /\ on_message.at = "idle"
      /\ latest_zones' = [latest_zones EXCEPT ![c] = Put(latest_zones[c], key, version)]
      /\ on_message' = [at |-> "stored", camera |-> c, key |-> key, version |-> version,
                        handler |-> None]
      /\ newest' = [newest EXCEPT ![c] = version]
      /\ heard' = IF key = "id" THEN [heard EXCEPT ![c] = version] ELSE heard
      /\ UNCHANGED <<registry, cmd_handlers, roi, pipeline, pending>>
  BY DEF StoreZones, Waiting
<1>2. key \in {"id", "code"} /\ (key = "id" <=> registry[c] # "absent")
  OBVIOUS
<1> HIDE DEF key
<1>3. Types'
  BY <1>1, <1>2, ClientAssumption DEF ClientInv, Types
<1>4. RetainedInv'
  <2> SUFFICES ASSUME NEW d \in Cameras
               PROVE  /\ EntriesSound(latest_zones'[d], newest'[d])
                      /\ registry[d] # "absent" => Keys(latest_zones'[d]) \subseteq {"id"}
                      /\ heard'[d] # 0 => "id" \in Keys(latest_zones'[d])
    BY <1>1 DEF RetainedInv
  <2>1. /\ EntriesSound(latest_zones[d], newest[d])
        /\ registry[d] # "absent" => Keys(latest_zones[d]) \subseteq {"id"}
        /\ heard[d] # 0 => "id" \in Keys(latest_zones[d])
    BY DEF ClientInv, RetainedInv
  <2>2. CASE d # c
    BY <1>1, <2>1, <2>2 DEF ClientInv, Types
  <2>3. CASE d = c
    <3>1. latest_zones'[d] = Put(latest_zones[d], key, version) /\ newest'[d] = version
      BY <1>1, <2>3 DEF ClientInv, Types
    <3>2. heard'[d] # 0 => key = "id" \/ heard[d] # 0
      BY <1>1, <2>3 DEF ClientInv, Types
    <3> QED BY <1>2, <2>1, <2>3, <3>1, <3>2, PutSound
  <2> QED BY <2>2, <2>3
<1>5. ZonesOnTheWay'
  <2> SUFFICES ASSUME NEW p \in Pipelines, cmd_handlers = p,
                      NEW d \in Cameras, heard'[d] # 0, roi[p][d] = 0
               PROVE  ToBeReplayed(p, d)' \/ BeingDelivered(p, d)'
    BY <1>1 DEF ClientInv, ZonesOnTheWay
  <2>1. CASE heard[d] # 0
    BY <1>1, <2>1 DEF ClientInv, ZonesOnTheWay, ToBeReplayed, BeingDelivered
  <2>2. CASE heard[d] = 0
    BY <1>1, <2>2 DEF ClientInv, Types, BeingDelivered
  <2> QED BY <2>1, <2>2 DEF ClientInv, Types
<1> QED BY <1>3, <1>4, <1>5 DEF ClientInv

LEMMA GetHandlerClient == ClientInv /\ GetHandler => ClientInv'
<1> SUFFICES ASSUME ClientInv, GetHandler PROVE ClientInv'
  OBVIOUS
<1>1. /\ on_message.at = "stored"
      /\ UNCHANGED <<registry, latest_zones, cmd_handlers, roi, pipeline, pending, newest, heard>>
  BY DEF GetHandler
<1>2. RetainedInv'
  BY <1>1 DEF ClientInv, RetainedInv
<1>3. CASE cmd_handlers = None
  <2>1. on_message' = Waiting
    BY <1>3 DEF GetHandler
  <2>2. Types'
    BY <1>1, <2>1 DEF ClientInv, Types, Waiting
  <2>3. ZonesOnTheWay'
    BY <1>1, <1>3, ClientAssumption DEF ClientInv, ZonesOnTheWay, Pipelines
  <2> QED BY <1>2, <2>2, <2>3 DEF ClientInv
<1>4. CASE cmd_handlers # None
  <2>1. /\ on_message' = [on_message EXCEPT !.at = "fetched", !.handler = cmd_handlers]
        /\ cmd_handlers \in Pipelines
    BY <1>4 DEF GetHandler, ClientInv, Types
  <2>2. Types'
    BY <1>1, <2>1 DEF ClientInv, Types
  <2>3. ZonesOnTheWay'
    BY <1>1, <2>1 DEF ClientInv, Types, ZonesOnTheWay, ToBeReplayed, BeingDelivered
  <2> QED BY <1>2, <2>2, <2>3 DEF ClientInv
<1> QED BY <1>3, <1>4

-----------------------------------------------------------------------------
(* A handler is called, by either thread *)

(* An engine is still without zones only if this call was not for it.      *)
LEMMA AppliedTyped ==
    ASSUME Types, NEW p \in Pipelines, NEW c \in Cameras, NEW key, NEW version \in 1..MaxVersion
    PROVE  /\ Applied(p, c, key, version) \in [Pipelines -> [Cameras -> 0..MaxVersion \cup {None}]]
           /\ \A q \in Pipelines, d \in Cameras : Applied(p, c, key, version)[q][d] = 0 =>
                 roi[q][d] = 0 /\ ~(q = p /\ d = c /\ key = "id")
<1>1. roi \in [Pipelines -> [Cameras -> 0..MaxVersion \cup {None}]] /\ None # 0
  BY ClientAssumption DEF Types
<1>2. version \in 0..MaxVersion /\ version # 0
  BY ClientAssumption
<1>3. CASE key = "id" /\ roi[p][c] # None
  <2>1. Applied(p, c, key, version) = [roi EXCEPT ![p] = [roi[p] EXCEPT ![c] = version]]
    BY <1>3 DEF Applied
  <2>2. [roi[p] EXCEPT ![c] = version] \in [Cameras -> 0..MaxVersion \cup {None}]
    BY <1>1, <1>2
  <2>3. Applied(p, c, key, version) \in [Pipelines -> [Cameras -> 0..MaxVersion \cup {None}]]
    BY <1>1, <2>1, <2>2
  <2>4. \A q \in Pipelines, d \in Cameras : Applied(p, c, key, version)[q][d] =
           IF q = p /\ d = c THEN version ELSE roi[q][d]
    BY <1>1, <2>1
  <2> QED BY <1>2, <2>3, <2>4
<1>4. CASE ~(key = "id" /\ roi[p][c] # None)
  BY <1>1, <1>4 DEF Applied
<1> QED BY <1>3, <1>4

LEMMA CallHandlerClient == ClientInv /\ CallHandler => ClientInv'
<1> SUFFICES ASSUME ClientInv, CallHandler PROVE ClientInv'
  OBVIOUS
<1> DEFINE m == on_message
           applied == Applied(m.handler, m.camera, m.key, m.version)
<1>1. /\ m.at = "fetched"
      /\ roi' = applied
      /\ on_message' = Waiting
      /\ UNCHANGED <<registry, latest_zones, cmd_handlers, pipeline, pending, newest, heard>>
  BY DEF CallHandler
<1>2. /\ m.handler \in Pipelines /\ m.camera \in Cameras /\ m.version \in 1..MaxVersion
      /\ Types
  BY <1>1 DEF ClientInv, Types
<1>3. /\ applied \in [Pipelines -> [Cameras -> 0..MaxVersion \cup {None}]]
      /\ \A q \in Pipelines, d \in Cameras : applied[q][d] = 0 =>
            roi[q][d] = 0 /\ ~(q = m.handler /\ d = m.camera /\ m.key = "id")
  BY <1>2, AppliedTyped
<1> HIDE DEF applied
<1>4. Types'
  BY <1>1, <1>3 DEF ClientInv, Types, Waiting
<1>5. RetainedInv'
  BY <1>1 DEF ClientInv, RetainedInv
<1>6. ZonesOnTheWay'
  <2> SUFFICES ASSUME NEW p \in Pipelines, cmd_handlers = p,
                      NEW d \in Cameras, heard[d] # 0, applied[p][d] = 0
               PROVE  ToBeReplayed(p, d)'
    BY <1>1 DEF ClientInv, ZonesOnTheWay
  <2>1. ~BeingDelivered(p, d)
    BY <1>1, <1>3 DEF BeingDelivered
  <2>2. ToBeReplayed(p, d)
    BY <1>3, <2>1 DEF ClientInv, ZonesOnTheWay
  <2> QED BY <1>1, <2>2 DEF ToBeReplayed
<1> QED BY <1>4, <1>5, <1>6 DEF ClientInv

-----------------------------------------------------------------------------
(* The pipeline threads *)

LEMMA BuildEnginesClient ==
    ASSUME ClientInv, NEW p \in Pipelines, NEW cameras \in SUBSET Cameras, BuildEngines(p, cameras)
    PROVE  ClientInv'
<1>1. /\ pipeline[p] = "none"
      /\ pipeline' = [pipeline EXCEPT ![p] = "build"]
      /\ roi' = [roi EXCEPT ![p] = [c \in Cameras |-> IF c \in cameras THEN 0 ELSE None]]
      /\ UNCHANGED <<registry, latest_zones, cmd_handlers, on_message, pending, newest, heard>>
  BY DEF BuildEngines
<1>2. Types'
  <2>1. [c \in Cameras |-> IF c \in cameras THEN 0 ELSE None]
          \in [Cameras -> 0..MaxVersion \cup {None}]
    BY ClientAssumption
  <2> QED BY <1>1, <2>1 DEF ClientInv, Types
<1>3. RetainedInv'
  BY <1>1 DEF ClientInv, RetainedInv
<1>4. ZonesOnTheWay'
  BY <1>1 DEF ClientInv, Types, ZonesOnTheWay, ToBeReplayed, BeingDelivered
<1> QED BY <1>2, <1>3, <1>4 DEF ClientInv

(* Whatever was heard under an id is retained under it, and so copied.     *)
LEMMA SetCmdHandlersClient ==
    ASSUME ClientInv, NEW p \in Pipelines, SetCmdHandlers(p)
    PROVE  ClientInv'
<1> DEFINE copied == {z \in Copied : Entry(z.key, z.version) \in ToSet(latest_zones[z.camera])}
<1>1. /\ cmd_handlers' = p
      /\ pending' = [pending EXCEPT ![p] = copied]
      /\ pipeline' = [pipeline EXCEPT ![p] = "replay"]
      /\ UNCHANGED <<registry, latest_zones, roi, on_message, newest, heard>>
  BY DEF SetCmdHandlers
<1>2. \A c \in Cameras : EntriesSound(latest_zones[c], newest[c])
  BY DEF ClientInv, RetainedInv
<1>3. copied \subseteq [camera : Cameras, key : {"id", "code"}, version : 1..MaxVersion]
  BY <1>2, EntriesTyped DEF Copied
<1>4. ASSUME NEW c \in Cameras, heard[c] # 0
      PROVE  \E z \in copied : z.camera = c /\ z.key = "id"
  <2>1. "id" \in Keys(latest_zones[c])
    BY <1>4 DEF ClientInv, RetainedInv
  <2>2. PICK e \in ToSet(latest_zones[c]) : e.key = "id" /\ e = Entry(e.key, e.version)
    BY <1>2, <2>1, EntriesTyped
  <2>3. [camera |-> c, key |-> e.key, version |-> e.version] \in copied
    BY <2>2 DEF Copied
  <2> QED BY <2>2, <2>3
<1> HIDE DEF copied
<1>5. Types'
  BY <1>1, <1>3 DEF ClientInv, Types
<1>6. RetainedInv'
  BY <1>1 DEF ClientInv, RetainedInv
<1>7. ZonesOnTheWay'
  BY <1>1, <1>4 DEF ClientInv, Types, ZonesOnTheWay, ToBeReplayed
<1> QED BY <1>5, <1>6, <1>7 DEF ClientInv

LEMMA ReplayClient ==
    ASSUME ClientInv, NEW p \in Pipelines, NEW z \in pending[p], Replay(p, z)
    PROVE  ClientInv'
<1> DEFINE applied == Applied(p, z.camera, z.key, z.version)
<1>1. /\ pipeline[p] = "replay"
      /\ roi' = applied
      /\ pending' = [pending EXCEPT ![p] = pending[p] \ {z}]
      /\ UNCHANGED <<registry, latest_zones, cmd_handlers, on_message, pipeline, newest, heard>>
  BY DEF Replay
<1>2. z \in [camera : Cameras, key : {"id", "code"}, version : 1..MaxVersion] /\ Types
  BY DEF ClientInv, Types
<1>3. /\ applied \in [Pipelines -> [Cameras -> 0..MaxVersion \cup {None}]]
      /\ \A q \in Pipelines, d \in Cameras : applied[q][d] = 0 =>
            roi[q][d] = 0 /\ ~(q = p /\ d = z.camera /\ z.key = "id")
  BY <1>2, AppliedTyped
<1> HIDE DEF applied
<1>4. /\ pending'[p] = pending[p] \ {z}
      /\ \A q \in Pipelines : q # p => pending'[q] = pending[q]
  BY <1>1 DEF ClientInv, Types
<1>5. Types'
  BY <1>1, <1>3 DEF ClientInv, Types
<1>6. RetainedInv'
  BY <1>1 DEF ClientInv, RetainedInv
<1>7. ZonesOnTheWay'
  <2>1. \A q \in Pipelines : pipeline[q] = "done" => pending'[q] = {}
    BY <1>1, <1>4 DEF ClientInv, ZonesOnTheWay
  <2>2. ASSUME NEW q \in Pipelines, cmd_handlers = q,
               NEW d \in Cameras, heard[d] # 0, applied[q][d] = 0
        PROVE  ToBeReplayed(q, d)' \/ BeingDelivered(q, d)'
    <3>1. ToBeReplayed(q, d) \/ BeingDelivered(q, d)
      BY <1>3, <2>2 DEF ClientInv, ZonesOnTheWay
    <3>2. ~(q = p /\ d = z.camera /\ z.key = "id")
      BY <1>3, <2>2
    <3>3. BeingDelivered(q, d) => BeingDelivered(q, d)'
      BY <1>1 DEF BeingDelivered
    <3>4. ToBeReplayed(q, d) => ToBeReplayed(q, d)'
      BY <1>4, <3>2 DEF ToBeReplayed
    <3> QED BY <3>1, <3>3, <3>4
  <2> QED BY <1>1, <2>1, <2>2 DEF ClientInv, ZonesOnTheWay
<1> QED BY <1>5, <1>6, <1>7 DEF ClientInv

LEMMA FinishReplayClient ==
    ASSUME ClientInv, NEW p \in Pipelines, FinishReplay(p)
    PROVE  ClientInv'
<1>1. /\ pending[p] = {}
      /\ pipeline[p] = "replay"
      /\ pipeline' = [pipeline EXCEPT ![p] = "done"]
      /\ UNCHANGED <<registry, latest_zones, cmd_handlers, roi, on_message, pending, newest, heard>>
  BY DEF FinishReplay
<1>2. Types'
  BY <1>1 DEF ClientInv, Types
<1>3. RetainedInv'
  BY <1>1 DEF ClientInv, RetainedInv
<1>4. ZonesOnTheWay'
  BY <1>1 DEF ClientInv, Types, ZonesOnTheWay, ToBeReplayed, BeingDelivered
<1> QED BY <1>2, <1>3, <1>4 DEF ClientInv

-----------------------------------------------------------------------------
(* The theorems about the client *)

LEMMA StepClient == ClientInv /\ [Next]_vars => ClientInv'
<1> SUFFICES ASSUME ClientInv, [Next]_vars PROVE ClientInv'
  OBVIOUS
<1>1. CASE MqttThread
  BY <1>1, SetCameraRegistryClient, StoreZonesClient, GetHandlerClient, CallHandlerClient
     DEF MqttThread
<1>2. ASSUME NEW p \in Pipelines, PipelineThread(p) PROVE ClientInv'
  BY <1>2, BuildEnginesClient, SetCmdHandlersClient, ReplayClient, FinishReplayClient
     DEF PipelineThread
<1>3. CASE UNCHANGED vars
  BY <1>3 DEF vars, ClientInv, Types, RetainedInv, ZonesOnTheWay, ToBeReplayed, BeingDelivered
<1> QED BY <1>1, <1>2, <1>3 DEF Next

(* Every state of the client satisfies the inductive invariant.            *)
THEOREM ClientInvariance == Spec => []ClientInv
BY InitClient, StepClient, PTL DEF Spec

(* Every variable of the client keeps its type, the retained entries too.  *)
THEOREM ClientTypeCorrect == Spec => []TypeOK
<1>1. ASSUME ClientInv PROVE TypeOK
  <2>1. \A c \in Cameras : \A e \in ToSet(latest_zones[c]) :
           e \in [key : {"id", "code"}, version : 1..MaxVersion]
    BY <1>1, EntriesTyped DEF ClientInv, RetainedInv, Entry
  <2> QED BY <1>1, <2>1 DEF ClientInv, Types, TypeOK
<1> QED BY <1>1, ClientInvariance, PTL

(* However often a camera enters and leaves the registry, and whether its  *)
(* zones come under its code or its id, _latest_zone_payloads holds the    *)
(* last accepted message last, and one entry while it is registered.       *)
THEOREM LastRetained == Spec => []LastMessageIsRetained
<1>1. ClientInv => LastMessageIsRetained
  BY EntriesTyped DEF ClientInv, RetainedInv, LastMessageIsRetained
<1> QED BY <1>1, ClientInvariance, PTL

(* Whichever comes first, the zone message or the new pipeline's handlers, *)
(* the engine that receives commands gets zones once both are through.     *)
THEOREM ZonesReachEngines == Spec => []NoZonesLost
<1>1. ClientInv => NoZonesLost
  BY DEF ClientInv, ZonesOnTheWay, ToBeReplayed, BeingDelivered, NoZonesLost, Quiet
<1> QED BY <1>1, ClientInvariance, PTL

-----------------------------------------------------------------------------
(* The main thread and its pipelines *)

(* The supervisor as the service composes it, for any camera lists and any *)
(* number of changes: as long as no join gives up, one pipeline thread     *)
(* lives at a time, and the commands and the next stop reach it.           *)
LEMMA SupervisorAssumed ==
    /\ MaxPipelines \in Nat
    /\ None \notin ListedSignatures \cup {{}} \cup Nat
BY ClientAssumption, ListAssumption DEF ListedSignatures

LEMMA SupervisorInit == Main!Init => Main!SupervisorInv
<1> SUFFICES ASSUME Main!Init PROVE Main!SupervisorInv
  OBVIOUS
<1>1. Main!TypeOK
  <2>1. <<>> \in Seq(Main!Signatures)
    OBVIOUS
  <2>2. [t \in Main!Threads |-> "none"] \in [Main!Threads -> Main!Stage] /\ 0 \in 0..MaxPipelines
    BY SupervisorAssumed DEF Main!Stage
  <2> QED BY <2>1, <2>2 DEF Main!Init, Main!TypeOK, Main!Idle
<1>2. /\ Main!Started = 0 /\ Main!InHand = 0
      /\ camera_config_queue = <<>> /\ changes = 0
  BY DEF Main!Init, Main!Idle, Main!Started, Main!InHand
<1>3. Main!ThreadsFromChanges
  BY <1>2 DEF Main!Init, Main!ThreadsFromChanges, Main!Threads
<1>4. Main!OnlyLatestLives
  BY DEF Main!Init, Main!Idle, Main!OnlyLatestLives, Main!Alive, Main!Plays
<1> QED BY <1>1, <1>3, <1>4 DEF Main!SupervisorInv

LEMMA CameraListInv ==
    ASSUME NEW signature \in Main!Signatures
    PROVE  Main!SupervisorInv /\ Main!CameraList(signature) => Main!SupervisorInv'
<1> SUFFICES ASSUME Main!SupervisorInv, Main!CameraList(signature) PROVE Main!SupervisorInv'
  OBVIOUS
<1>1. Main!TypeOK'
  BY SupervisorAssumed DEF Main!SupervisorInv, Main!TypeOK, Main!CameraList
<1>2. Main!ThreadsFromChanges'
  <2>1. /\ Len(camera_config_queue) \in Nat /\ Main!Started \in Nat /\ changes \in Nat
        /\ Len(camera_config_queue') = Len(camera_config_queue) + 1
        /\ changes' = changes + 1
    BY SupervisorAssumed
       DEF Main!SupervisorInv, Main!TypeOK, Main!CameraList, Main!Started, Main!Threads
  <2>2. Main!Started' = Main!Started /\ Main!InHand' = Main!InHand /\ Main!InHand \in {0, 1}
    BY DEF Main!CameraList, Main!Started, Main!InHand
  <2>3. Main!Started' + Len(camera_config_queue') + Main!InHand' <= changes'
    BY <2>1, <2>2 DEF Main!SupervisorInv, Main!ThreadsFromChanges
  <2> QED BY <2>2, <2>3 DEF Main!SupervisorInv, Main!CameraList, Main!ThreadsFromChanges
<1>3. Main!OnlyLatestLives'
  BY DEF Main!SupervisorInv, Main!CameraList, Main!OnlyLatestLives, Main!Alive, Main!Plays
<1> QED BY <1>1, <1>2, <1>3 DEF Main!SupervisorInv

LEMMA TakeConfigInv == Main!SupervisorInv /\ Main!TakeConfig => Main!SupervisorInv'
<1> SUFFICES ASSUME Main!SupervisorInv, Main!TakeConfig PROVE Main!SupervisorInv'
  OBVIOUS
<1>1. /\ camera_config_queue \in Seq(Main!Signatures) /\ camera_config_queue # <<>>
      /\ Head(camera_config_queue) \in Main!Signatures
      /\ Tail(camera_config_queue) \in Seq(Main!Signatures)
      /\ Len(Tail(camera_config_queue)) = Len(camera_config_queue) - 1
      /\ Len(camera_config_queue) \in Nat
  BY DEF Main!SupervisorInv, Main!TypeOK, Main!TakeConfig
<1>2. Main!TypeOK'
  BY <1>1 DEF Main!SupervisorInv, Main!TypeOK, Main!TakeConfig
<1>3. Main!ThreadsFromChanges'
  BY <1>1, SupervisorAssumed
     DEF Main!SupervisorInv, Main!TypeOK, Main!TakeConfig, Main!ThreadsFromChanges,
         Main!Started, Main!InHand, Main!Threads
<1>4. Main!OnlyLatestLives'
  BY DEF Main!SupervisorInv, Main!TakeConfig, Main!OnlyLatestLives, Main!Alive, Main!Plays
<1> QED BY <1>2, <1>3, <1>4 DEF Main!SupervisorInv

(* A quit reaches at most one loop, and leaves every other thread alone.   *)
LEMMA QuitLoopTyped ==
    ASSUME Main!SupervisorInv, thread' = Main!QuitLoop
    PROVE  /\ thread' \in [Main!Threads -> Main!Stage]
           /\ \A t \in Main!Threads :
                 /\ thread'[t] = "none" <=> thread[t] = "none"
                 /\ Main!Alive(t)' <=> Main!Alive(t)
                 /\ Main!Plays(t)' <=> Main!Plays(t)
                 /\ thread'[t] = "build" <=> thread[t] = "build"
                 /\ thread'[t] = "made" <=> thread[t] = "made"
<1>1. CASE current_pipeline # None /\ thread[current_pipeline] = "running"
  BY <1>1
     DEF Main!SupervisorInv, Main!TypeOK, Main!QuitLoop, Main!Stage, Main!Alive,
         Main!Plays
<1>2. CASE ~(current_pipeline # None /\ thread[current_pipeline] = "running")
  BY <1>2 DEF Main!SupervisorInv, Main!TypeOK, Main!QuitLoop, Main!Alive, Main!Plays
<1> QED BY <1>1, <1>2

LEMMA StopOldInv == Main!SupervisorInv /\ Main!StopOld => Main!SupervisorInv'
<1> SUFFICES ASSUME Main!SupervisorInv, Main!StopOld PROVE Main!SupervisorInv'
  OBVIOUS
<1>1. thread' = Main!QuitLoop
  BY DEF Main!StopOld
<1>2. Main!TypeOK'
  BY <1>1, QuitLoopTyped DEF Main!SupervisorInv, Main!TypeOK, Main!StopOld
<1>3. Main!ThreadsFromChanges'
  BY <1>1, QuitLoopTyped
     DEF Main!SupervisorInv, Main!TypeOK, Main!StopOld, Main!ThreadsFromChanges,
         Main!Started, Main!InHand
<1>4. Main!OnlyLatestLives'
  BY <1>1, QuitLoopTyped
     DEF Main!SupervisorInv, Main!TypeOK, Main!StopOld, Main!OnlyLatestLives
<1> QED BY <1>2, <1>3, <1>4 DEF Main!SupervisorInv

LEMMA JoinInv == Main!SupervisorInv /\ (Main!Join \/ Main!JoinTimeout) => Main!SupervisorInv'
<1> SUFFICES ASSUME Main!SupervisorInv, Main!Join \/ Main!JoinTimeout PROVE Main!SupervisorInv'
  OBVIOUS
<1>1. Main!TypeOK'
  BY DEF Main!SupervisorInv, Main!TypeOK, Main!Join, Main!JoinTimeout
<1>2. Main!ThreadsFromChanges'
  BY DEF Main!SupervisorInv, Main!TypeOK, Main!Join, Main!JoinTimeout,
         Main!ThreadsFromChanges, Main!Started, Main!InHand
<1>3. Main!OnlyLatestLives'
  BY SupervisorAssumed
     DEF Main!SupervisorInv, Main!TypeOK, Main!Join, Main!JoinTimeout,
         Main!OnlyLatestLives, Main!OldAlive, Main!Alive, Main!Plays, Main!Threads
<1> QED BY <1>1, <1>2, <1>3 DEF Main!SupervisorInv

LEMMA LaunchInv == Main!SupervisorInv /\ Main!Launch => Main!SupervisorInv'
<1> SUFFICES ASSUME Main!SupervisorInv, Main!Launch PROVE Main!SupervisorInv'
  OBVIOUS
<1>1. CASE main.cameras = {}
  <2>1. Main!TypeOK'
    BY <1>1 DEF Main!SupervisorInv, Main!TypeOK, Main!Launch, Main!Idle, Main!Signatures
  <2>2. Main!ThreadsFromChanges'
    BY <1>1, SupervisorAssumed
       DEF Main!SupervisorInv, Main!TypeOK, Main!Launch, Main!Idle,
           Main!ThreadsFromChanges, Main!Started, Main!InHand, Main!Threads
  <2>3. Main!OnlyLatestLives'
    BY <1>1
       DEF Main!SupervisorInv, Main!Launch, Main!Idle, Main!OnlyLatestLives, Main!Alive,
           Main!Plays
  <2> QED BY <2>1, <2>2, <2>3 DEF Main!SupervisorInv
<1>2. CASE main.cameras # {}
  <2>1. /\ Main!NextThread \in Main!Threads /\ Main!NextThread # None /\ Main!Started \in Nat
        /\ Main!InHand = 1 /\ main.cameras \in Main!Signatures
        /\ Len(camera_config_queue) \in Nat
    BY SupervisorAssumed
       DEF Main!SupervisorInv, Main!TypeOK, Main!Launch, Main!ThreadsFromChanges,
           Main!Started, Main!NextThread, Main!InHand, Main!Threads
  <2>2. /\ thread' = [thread EXCEPT ![Main!NextThread] = "build"]
        /\ pipeline_thread' = Main!NextThread
        /\ main' = Main!Idle /\ served' = main.cameras
    BY <1>2 DEF Main!Launch
  <2>3. Main!TypeOK'
    BY <2>1, <2>2 DEF Main!SupervisorInv, Main!TypeOK, Main!Launch, Main!Idle, Main!Stage
  <2>4. Main!Started' = Main!Started + 1 /\ Main!InHand' = 0
    BY <2>1, <2>2 DEF Main!NextThread, Main!Started, Main!InHand, Main!Idle
  <2>5. Main!ThreadsFromChanges'
    BY <2>1, <2>2, <2>4
       DEF Main!SupervisorInv, Main!TypeOK, Main!Launch, Main!ThreadsFromChanges,
           Main!NextThread, Main!Threads
  <2>6. Main!OnlyLatestLives'
    BY <2>1, <2>2
       DEF Main!SupervisorInv, Main!TypeOK, Main!Launch, Main!Idle,
           Main!OnlyLatestLives, Main!Alive, Main!Plays
  <2> QED BY <2>3, <2>5, <2>6 DEF Main!SupervisorInv
<1> QED BY <1>1, <1>2

LEMMA InterruptInv == Main!SupervisorInv /\ Main!Interrupt => Main!SupervisorInv'
<1> SUFFICES ASSUME Main!SupervisorInv, Main!Interrupt PROVE Main!SupervisorInv'
  OBVIOUS
<1>1. thread' = Main!QuitLoop
  BY DEF Main!Interrupt
<1>2. Main!TypeOK'
  BY <1>1, QuitLoopTyped DEF Main!SupervisorInv, Main!TypeOK, Main!Interrupt
<1>3. Main!ThreadsFromChanges'
  <2>1. Main!Started' = Main!Started /\ Main!InHand \in {0, 1} /\ Main!InHand' = 0
    BY DEF Main!Interrupt, Main!Started, Main!InHand
  <2>2. Main!Started \in Nat /\ Len(camera_config_queue) \in Nat /\ changes \in Nat
    BY SupervisorAssumed DEF Main!SupervisorInv, Main!TypeOK, Main!Started, Main!Threads
  <2>3. Main!Started' + Len(camera_config_queue') + Main!InHand' <= changes'
    BY <2>1, <2>2 DEF Main!SupervisorInv, Main!Interrupt, Main!ThreadsFromChanges
  <2> QED BY <1>1, <2>1, <2>3, QuitLoopTyped DEF Main!SupervisorInv, Main!ThreadsFromChanges
<1>4. Main!OnlyLatestLives'
  BY <1>1, QuitLoopTyped
     DEF Main!SupervisorInv, Main!TypeOK, Main!Interrupt, Main!OnlyLatestLives
<1> QED BY <1>2, <1>3, <1>4 DEF Main!SupervisorInv

LEMMA ExitInv == Main!SupervisorInv /\ Main!Exit => Main!SupervisorInv'
<1> SUFFICES ASSUME Main!SupervisorInv, Main!Exit PROVE Main!SupervisorInv'
  OBVIOUS
<1>1. /\ thread' \in [Main!Threads -> Main!Stage]
      /\ \A t \in Main!Threads : /\ thread'[t] = "none" <=> thread[t] = "none"
                            /\ ~Main!Alive(t)' /\ ~Main!Plays(t)' /\ thread'[t] # "made"
  BY DEF Main!SupervisorInv, Main!TypeOK, Main!Exit, Main!Alive, Main!Plays, Main!Stage
<1>2. Main!TypeOK'
  BY <1>1 DEF Main!SupervisorInv, Main!TypeOK, Main!Exit
<1>3. Main!ThreadsFromChanges'
  BY <1>1
     DEF Main!SupervisorInv, Main!TypeOK, Main!Exit, Main!ThreadsFromChanges,
         Main!Started, Main!InHand
<1>4. Main!OnlyLatestLives'
  BY <1>1 DEF Main!Exit, Main!OnlyLatestLives
<1> QED BY <1>2, <1>3, <1>4 DEF Main!SupervisorInv

(* A step of a pipeline thread concerns a thread that lives; what it       *)
(* publishes of itself is its own name.                                    *)
LEMMA ThreadStepInv ==
    ASSUME NEW t \in Main!Threads,
           NEW from \in Main!Stage \ {"none", "dead"}, NEW to \in Main!Stage \ {"none"},
           Main!SupervisorInv, Main!ThreadStep(t, from, to),
           cmd_handlers' \in {t, cmd_handlers},
           current_pipeline' \in {t, current_pipeline},
           to \in {"build", "dead"} \/ cmd_handlers' = t \/ from # "build",
           to \in {"build", "wired", "dead"} \/ current_pipeline' = t \/ from \notin {"build", "wired"}
    PROVE  Main!SupervisorInv'
<1>1. /\ thread' = [thread EXCEPT ![t] = to]
      /\ thread[t] = from
      /\ UNCHANGED <<last_camera_signature, camera_config_queue, main, pipeline_thread,
                     changes, served, timed_out>>
  BY DEF Main!ThreadStep
<1>2. Main!TypeOK'
  BY <1>1 DEF Main!SupervisorInv, Main!TypeOK
<1>3. Main!ThreadsFromChanges'
  BY <1>1
     DEF Main!SupervisorInv, Main!TypeOK, Main!ThreadsFromChanges, Main!Started,
         Main!InHand
<1>4. ASSUME ~timed_out PROVE t = pipeline_thread /\ main.at # "launch"
  BY <1>1, <1>4 DEF Main!SupervisorInv, Main!OnlyLatestLives, Main!Alive
<1>5. \A u \in Main!Threads : u # t => thread'[u] = thread[u]
  BY <1>1 DEF Main!SupervisorInv, Main!TypeOK
<1>6. ASSUME ~timed_out, NEW u \in Main!Threads, u # t
      PROVE  ~Main!Alive(u)' /\ ~Main!Plays(u)' /\ thread'[u] # "made"
  BY <1>4, <1>5, <1>6 DEF Main!SupervisorInv, Main!OnlyLatestLives, Main!Alive, Main!Plays
<1>7. thread'[t] = to
  BY <1>1 DEF Main!SupervisorInv, Main!TypeOK
<1>8. ASSUME ~timed_out, to # "build", to # "dead" PROVE cmd_handlers' = t
  BY <1>1, <1>8 DEF Main!SupervisorInv, Main!OnlyLatestLives, Main!Alive
<1>9. ASSUME ~timed_out, to = "made" \/ Main!Plays(t)' PROVE current_pipeline' = t
  <2>1. from \in {"made", "playing", "looped", "running", "quit"} \/ current_pipeline' = t
    BY <1>7, <1>9 DEF Main!Plays, Main!Stage
  <2> QED BY <1>1, <1>9, <2>1 DEF Main!SupervisorInv, Main!OnlyLatestLives, Main!Plays
<1>10. Main!OnlyLatestLives'
  <2> SUFFICES ASSUME ~timed_out'
               PROVE  /\ \A u \in Main!Threads : Main!Alive(u)' => u = pipeline_thread'
                      /\ main'.at # "launch"
                      /\ \A u \in Main!Threads : Main!Alive(u)' /\ thread'[u] # "build" => cmd_handlers' = u
                      /\ \A u \in Main!Threads : thread'[u] = "made" \/ Main!Plays(u)' => current_pipeline' = u
    BY DEF Main!OnlyLatestLives
  <2>1. ~timed_out
    BY <1>1
  <2>2. t = pipeline_thread' /\ main'.at # "launch"
    BY <1>1, <1>4, <2>1
  <2>3. Main!Alive(t)' /\ thread'[t] # "build" => cmd_handlers' = t
    BY <1>7, <1>8, <2>1 DEF Main!Alive
  <2>4. thread'[t] = "made" \/ Main!Plays(t)' => current_pipeline' = t
    BY <1>7, <1>9, <2>1
  <2> QED BY <1>6, <2>1, <2>2, <2>3, <2>4
<1> QED BY <1>2, <1>3, <1>10 DEF Main!SupervisorInv

LEMMA PipelineInv ==
    ASSUME NEW t \in Main!Threads, Main!SupervisorInv,
           Main!Progress(t) \/ Main!BusMessage(t) \/ Main!BuildFails(t)
    PROVE  Main!SupervisorInv'
<1>1. CASE Main!SetCmdHandlers(t)
  BY <1>1, ThreadStepInv DEF Main!SetCmdHandlers, Main!Stage
<1>2. CASE Main!Assign(t)
  BY <1>2, ThreadStepInv DEF Main!Assign, Main!Stage
<1>3. CASE Main!SetPlaying(t)
  BY <1>3, ThreadStepInv DEF Main!SetPlaying, Main!Stage
<1>4. CASE Main!CreateLoop(t)
  BY <1>4, ThreadStepInv DEF Main!CreateLoop, Main!Stage
<1>5. CASE Main!RunLoop(t)
  BY <1>5, ThreadStepInv DEF Main!RunLoop, Main!Stage
<1>6. CASE Main!Teardown(t)
  BY <1>6, ThreadStepInv DEF Main!Teardown, Main!Stage
<1>7. CASE Main!BusMessage(t)
  BY <1>7, ThreadStepInv DEF Main!BusMessage, Main!Stage
<1>8. CASE Main!BuildFails(t)
  <2>1. PICK stage \in {"build", "wired"} : Main!ThreadStep(t, stage, "dead")
    BY <1>8 DEF Main!BuildFails
  <2> QED BY <1>8, <2>1, ThreadStepInv DEF Main!BuildFails, Main!Stage
<1> QED BY <1>1, <1>2, <1>3, <1>4, <1>5, <1>6, <1>7, <1>8 DEF Main!Progress

LEMMA SupervisorStep == Main!SupervisorInv /\ [Main!Next]_(Main!vars) => Main!SupervisorInv'
<1> SUFFICES ASSUME Main!SupervisorInv, [Main!Next]_(Main!vars) PROVE Main!SupervisorInv'
  OBVIOUS
<1>1. ASSUME NEW signature \in Main!Signatures, Main!CameraList(signature)
      PROVE  Main!SupervisorInv'
  BY <1>1, CameraListInv
<1>2. CASE Main!MainStep
  BY <1>2, TakeConfigInv, StopOldInv, JoinInv, LaunchInv, ExitInv DEF Main!MainStep
<1>3. CASE Main!Interrupt
  BY <1>3, InterruptInv
<1>4. ASSUME NEW t \in Main!Threads, Main!Progress(t) \/ Main!BusMessage(t) \/ Main!BuildFails(t)
      PROVE  Main!SupervisorInv'
  BY <1>4, PipelineInv
<1>5. CASE UNCHANGED Main!vars
  BY <1>5
     DEF Main!vars, Main!SupervisorInv, Main!TypeOK, Main!ThreadsFromChanges,
         Main!OnlyLatestLives, Main!Started, Main!InHand, Main!Alive, Main!Plays
<1> QED BY <1>1, <1>2, <1>3, <1>4, <1>5 DEF Main!Next

(* SupervisorInv is an invariant of the supervisor.                        *)
LEMMA SupervisorSound == Main!Spec => []Main!SupervisorInv
BY SupervisorInit, SupervisorStep, PTL DEF Main!Spec

-----------------------------------------------------------------------------
(* The service implements the supervisor *)

(* The list that is put to the supervisor is one it knows.                 *)
LEMMA NormalisedTyped ==
    ASSUME NEW list \in [Cameras -> {"absent", "disabled", "offline"} \cup Settings]
    PROVE  Normalised(list) \in ListedSignatures
<1>1. \A row \in Normalised(list) : row \in Cameras \X Settings /\ row = <<row[1], list[row[1]]>>
  BY DEF Normalised
<1>2. \A r, q \in Normalised(list) : r[1] = q[1] => r = q
  BY <1>1
<1> QED BY <1>1, <1>2 DEF ListedSignatures

LEMMA StepSupervises ==
    ASSUME ListTypes, [ServiceNext]_serviceVars
    PROVE  [Main!Next]_(Main!vars)
<1>1. ASSUME AcceptList PROVE [Main!Next]_(Main!vars)
  <2>1. CASE UNCHANGED <<mainVars, cmd_handlers>>
    BY <2>1 DEF mainVars, Main!vars
  <2>2. CASE Main!CameraList(incoming)
    <3>1. incoming \in (ListedSignatures \ {{}}) \cup {{}}
      BY <1>1 DEF AcceptList, ListTypes
    <3> QED BY <2>2, <3>1 DEF Main!Next, Main!Signatures
  <2> QED BY <1>1, <2>1, <2>2 DEF AcceptList
<1>2. ASSUME NEW list, ReceiveList(list) PROVE UNCHANGED Main!vars
  BY <1>2 DEF ReceiveList, SetCameraRegistry, mainVars, Main!vars
<1>3. ASSUME ZoneMessage PROVE UNCHANGED Main!vars
  BY <1>3 DEF ZoneMessage, StoreZones, GetHandler, CallHandler, mainVars, Main!vars
<1>4. ASSUME MainThread \/ StartPipeline PROVE Main!Next
  BY <1>4 DEF MainThread, StartPipeline, Main!Next, Main!MainStep
<1>5. ASSUME NEW t \in Pipelines, ReplayZones(t) \/ EndReplay(t) PROVE UNCHANGED Main!vars
  BY <1>5 DEF ReplayZones, EndReplay, Replay, FinishReplay, mainVars, Main!vars
<1>6. ASSUME NEW t \in Pipelines, WireCommands(t) \/ BecomeCurrent(t) \/ Play(t) \/ Fail(t)
      PROVE  Main!Next
  BY <1>6 DEF WireCommands, BecomeCurrent, Play, Fail, Main!Next, Main!Progress, Main!Threads,
              Pipelines
<1>7. CASE UNCHANGED serviceVars
  BY <1>7 DEF serviceVars, mainVars, Main!vars
<1> QED BY <1>1, <1>2, <1>3, <1>4, <1>5, <1>6, <1>7 DEF ServiceNext

-----------------------------------------------------------------------------
(* The actions keep ServiceInv *)

(* No zone message makes or unmakes an engine.                             *)
LEMMA AppliedKeepsEngines ==
    ASSUME Types, NEW p \in Pipelines, NEW c \in Cameras, NEW key, NEW version \in 1..MaxVersion,
           NEW q \in Pipelines, NEW d \in Cameras
    PROVE  Applied(p, c, key, version)[q][d] = None <=> roi[q][d] = None
<1>1. roi \in [Pipelines -> [Cameras -> 0..MaxVersion \cup {None}]] /\ version # None
  BY ClientAssumption DEF Types
<1>2. CASE key = "id" /\ roi[p][c] # None
  <2>1. Applied(p, c, key, version) = [roi EXCEPT ![p] = [roi[p] EXCEPT ![c] = version]]
    BY <1>2 DEF Applied
  <2> QED BY <1>1, <1>2, <2>1
<1>3. CASE ~(key = "id" /\ roi[p][c] # None)
  BY <1>3 DEF Applied
<1> QED BY <1>2, <1>3

LEMMA LastOfOne ==
    ASSUME NEW S, NEW s \in Seq(S), s # <<>>, Tail(s) = <<>>
    PROVE  Last(s) = Head(s)
<1>1. Len(Tail(s)) = Len(s) - 1
  BY HeadTailProperties
<1>2. Len(s) \in Nat /\ Head(s) = s[1]
  OBVIOUS
<1>3. Len(Tail(s)) = Len(<<>>)
  OBVIOUS
<1>4. Len(<<>>) = 0
  BY EmptySeq
<1>5. Len(Tail(s)) = 0
  BY ONLY <1>3, <1>4
<1>6. Len(s) = 1
  BY <1>1, <1>2, <1>5
<1> QED BY <1>2, <1>6 DEF Last

LEMMA ListsKept ==
    ASSUME ListTypes, LastListIsUnderWay,
           UNCHANGED <<web, incoming, cameras_of, last_camera_signature, camera_config_queue,
                       main, served, pipeline_thread>>
    PROVE  ListTypes' /\ LastListIsUnderWay'
BY DEF ListTypes, LastListIsUnderWay, Normalised

LEMMA EnginesKept ==
    ASSUME EnginesAsListed, cameras_of' = cameras_of,
           \A t \in Pipelines : thread'[t] # "none" => thread[t] # "none",
           \A t \in Pipelines : thread'[t] = "made" \/ Main!Plays(t)' => pipeline'[t] = "done",
           \A t \in Pipelines, c \in Cameras : roi'[t][c] = None <=> roi[t][c] = None
    PROVE  EnginesAsListed'
BY DEF EnginesAsListed

LEMMA InitService == ServiceInit => ServiceInv
<1> SUFFICES ASSUME ServiceInit PROVE ServiceInv
  OBVIOUS
<1>1. ListTypes
  BY DEF ServiceInit, ListTypes, ListedSignatures
<1>2. LastListIsUnderWay
  BY DEF ServiceInit, LastListIsUnderWay, Main!Init, Main!Idle
<1>3. EnginesAsListed
  BY DEF ServiceInit, EnginesAsListed, Main!Init, Main!Threads, Main!Plays, Pipelines
<1> QED BY <1>1, <1>2, <1>3 DEF ServiceInv

LEMMA ReceiveListService ==
    ASSUME ServiceInv, NEW list \in [Cameras -> {"absent", "disabled", "offline"} \cup Settings],
           ReceiveList(list)
    PROVE  ServiceInv'
<1>1. /\ web' = list /\ incoming' = Normalised(list)
      /\ UNCHANGED <<last_camera_signature, camera_config_queue, main, served, pipeline_thread,
                     cameras_of, thread, pipeline, roi>>
  BY DEF ReceiveList, SetCameraRegistry, mainVars
<1>2. Normalised(list) \in ListedSignatures /\ Normalised(list) # None
  BY NormalisedTyped, ListAssumption
<1>3. ListTypes'
  BY <1>1, <1>2 DEF ServiceInv, ListTypes
<1>4. Normalised(web)' = Normalised(list)
  BY <1>1 DEF Normalised
<1>5. LastListIsUnderWay'
  BY <1>1, <1>2, <1>4 DEF ServiceInv, LastListIsUnderWay
<1>6. EnginesAsListed'
  BY <1>1 DEF ServiceInv, EnginesAsListed, Main!Plays
<1> QED BY <1>3, <1>5, <1>6 DEF ServiceInv

LEMMA AcceptListService ==
    ASSUME ServiceInv, Main!SupervisorInv, AcceptList
    PROVE  ServiceInv'
<1>1. /\ incoming # None /\ incoming' = None
      /\ UNCHANGED <<web, cameras_of, pipeline, roi, main, served, pipeline_thread, thread>>
      /\ \/ incoming = last_camera_signature
            /\ UNCHANGED <<last_camera_signature, camera_config_queue>>
         \/ last_camera_signature' = incoming
            /\ camera_config_queue' = Append(camera_config_queue, incoming)
  BY DEF AcceptList, mainVars, clientVars, Main!CameraList
<1>2. ListTypes'
  BY <1>1 DEF ServiceInv, ListTypes
<1>3. incoming = Normalised(web) /\ Normalised(web)' = Normalised(web)
  BY <1>1 DEF ServiceInv, LastListIsUnderWay, Normalised
<1>4. LastListIsUnderWay'
  <2>1. CASE UNCHANGED <<last_camera_signature, camera_config_queue>> /\ incoming = last_camera_signature
    BY <1>1, <1>3, <2>1 DEF ServiceInv, LastListIsUnderWay
  <2>2. CASE /\ last_camera_signature' = incoming
             /\ camera_config_queue' = Append(camera_config_queue, incoming)
    <3> DEFINE S == Main!Signatures \cup {incoming}
    <3>1. camera_config_queue \in Seq(S) /\ incoming \in S
      BY DEF Main!SupervisorInv, Main!TypeOK
    <3> HIDE DEF S
    <3>2. camera_config_queue' # <<>> /\ Last(camera_config_queue') = incoming
      BY <2>2, <3>1, AppendProperties DEF Last
    <3> QED BY <1>1, <1>3, <2>2, <3>2 DEF ServiceInv, LastListIsUnderWay
  <2> QED BY <1>1, <2>1, <2>2
<1>5. EnginesAsListed'
  BY <1>1 DEF ServiceInv, EnginesAsListed, Main!Plays
<1> QED BY <1>2, <1>4, <1>5 DEF ServiceInv

LEMMA ZoneMessageService ==
    ASSUME ServiceInv, Types, ZoneMessage
    PROVE  ServiceInv'
<1>1. /\ UNCHANGED <<web, incoming, cameras_of, last_camera_signature, camera_config_queue,
                     main, served, pipeline_thread, thread>>
      /\ pipeline' = pipeline
  BY DEF ZoneMessage, mainVars, listVars, StoreZones, GetHandler, CallHandler
<1>2. \A t \in Pipelines, c \in Cameras : roi'[t][c] = None <=> roi[t][c] = None
  <2>1. CASE CallHandler
    BY <2>1, AppliedKeepsEngines DEF CallHandler, Types
  <2>2. CASE ~CallHandler
    BY <2>2 DEF ZoneMessage, StoreZones, GetHandler
  <2> QED BY <2>1, <2>2
<1>3. EnginesAsListed'
  BY <1>1, <1>2, EnginesKept DEF ServiceInv, EnginesAsListed, Main!Plays
<1> QED BY <1>1, <1>3, ListsKept DEF ServiceInv

LEMMA MainThreadService ==
    ASSUME ServiceInv, Main!SupervisorInv, MainThread
    PROVE  ServiceInv'
<1>1. UNCHANGED <<web, incoming, cameras_of, roi, pipeline>>
  BY DEF MainThread, clientVars, listVars
<1>2. ListTypes'
  BY <1>1 DEF ServiceInv, ListTypes
<1>3. Normalised(web)' = Normalised(web)
  BY <1>1 DEF Normalised
<1>4. /\ UNCHANGED <<last_camera_signature, served, pipeline_thread>>
      /\ \/ camera_config_queue' = camera_config_queue
            /\ \/ main'.at \in {"join", "launch"} /\ main.at \in {"stop_old", "join"}
                  /\ main'.cameras = main.cameras
               \/ main'.at \in {"exiting", "exited"}
         \/ /\ camera_config_queue # <<>>
            /\ camera_config_queue' = Tail(camera_config_queue)
            /\ main' = [at |-> "stop_old", cameras |-> Head(camera_config_queue)]
  BY DEF MainThread, Main!TakeConfig, Main!StopOld, Main!Join, Main!JoinTimeout, Main!Interrupt,
         Main!Exit, Main!SupervisorInv, Main!TypeOK
<1>5. LastListIsUnderWay'
  <2>1. CASE /\ camera_config_queue # <<>>
             /\ camera_config_queue' = Tail(camera_config_queue)
             /\ main' = [at |-> "stop_old", cameras |-> Head(camera_config_queue)]
    <3>1. camera_config_queue \in Seq(Main!Signatures)
      BY DEF Main!SupervisorInv, Main!TypeOK
    <3>2. Last(camera_config_queue) = last_camera_signature
      BY <2>1 DEF ServiceInv, LastListIsUnderWay
    <3>3. camera_config_queue' # <<>> => Last(camera_config_queue') = last_camera_signature
      BY <2>1, <3>1, <3>2 DEF Last
    <3>4. camera_config_queue' = <<>> => Head(camera_config_queue) = last_camera_signature
      BY <2>1, <3>1, <3>2, LastOfOne
    <3> QED BY <1>1, <1>3, <1>4, <2>1, <3>3, <3>4 DEF ServiceInv, LastListIsUnderWay
  <2>2. CASE camera_config_queue' = camera_config_queue
             /\ \/ main'.at \in {"join", "launch"} /\ main.at \in {"stop_old", "join"}
                   /\ main'.cameras = main.cameras
                \/ main'.at \in {"exiting", "exited"}
    BY <1>1, <1>3, <1>4, <2>2 DEF ServiceInv, LastListIsUnderWay
  <2> QED BY <1>4, <2>1, <2>2
<1>6. EnginesAsListed'
  <2>1. \A t \in Pipelines : /\ thread'[t] # "none" => thread[t] # "none"
                             /\ thread'[t] = "made" \/ Main!Plays(t)' =>
                                   thread[t] = "made" \/ Main!Plays(t)
    <3>1. thread \in [Pipelines -> Main!Stage]
      BY DEF Main!SupervisorInv, Main!TypeOK, Main!Threads, Pipelines
    <3>2. CASE thread' = thread
      BY <3>2 DEF Main!Plays
    <3>3. CASE thread' = Main!QuitLoop
      BY <3>1, <3>3 DEF Main!QuitLoop, Main!Plays
    <3>4. CASE thread' = [t \in Main!Threads |-> IF Main!Alive(t) THEN "dead" ELSE thread[t]]
      BY <3>4 DEF Main!Alive, Main!Plays, Main!Threads, Pipelines
    <3> QED BY <3>2, <3>3, <3>4
            DEF MainThread, Main!TakeConfig, Main!StopOld, Main!Join, Main!JoinTimeout,
                Main!Interrupt, Main!Exit
  <2> QED BY <1>1, <2>1, EnginesKept DEF ServiceInv, EnginesAsListed
<1> QED BY <1>2, <1>5, <1>6 DEF ServiceInv

(* The thread that is launched is a new one, with a number in range.       *)
LEMMA LaunchedThread ==
    ASSUME Main!SupervisorInv, Main!Launch, main.cameras # {}
    PROVE  LET p == Main!NextThread IN
           /\ p \in Pipelines
           /\ thread[p] = "none"
           /\ main.cameras \in ListedSignatures
           /\ thread' = [thread EXCEPT ![p] = "build"]
           /\ pipeline_thread' = p
<1>1. Main!InHand = 1
  BY DEF Main!Launch, Main!InHand
<1>2. /\ Main!Started + Len(camera_config_queue) + 1 <= changes
      /\ changes \in 0..MaxPipelines
      /\ Len(camera_config_queue) \in Nat
      /\ Main!Started \in Nat
      /\ \A t \in Main!Threads : thread[t] = "none" <=> t > Main!Started
      /\ main.cameras \in ListedSignatures
  BY <1>1, ClientAssumption
     DEF Main!SupervisorInv, Main!TypeOK, Main!ThreadsFromChanges, Main!Started, Main!Threads,
         Main!Signatures, ListedSignatures
<1>3. Main!NextThread \in 1..MaxPipelines /\ Main!NextThread > Main!Started
  BY <1>2, ClientAssumption DEF Main!NextThread
<1> QED BY <1>2, <1>3 DEF Main!Launch, Main!Threads, Pipelines

LEMMA StartPipelineService ==
    ASSUME ServiceInv, Types, Main!SupervisorInv, StartPipeline
    PROVE  ServiceInv'
<1>1. /\ Main!Launch
      /\ main.at = "launch" /\ main' = [at |-> "get", cameras |-> None]
      /\ served' = main.cameras
      /\ UNCHANGED <<web, incoming, last_camera_signature, camera_config_queue>>
  BY DEF StartPipeline, Main!Launch, Main!Idle
<1>2. Normalised(web)' = Normalised(web)
  BY <1>1 DEF Normalised
<1>3. CASE main.cameras = {}
  <2>1. UNCHANGED <<thread, pipeline_thread, roi, pipeline, cameras_of>>
    BY <1>1, <1>3 DEF StartPipeline, Main!Launch, clientVars
  <2>2. ListTypes'
    BY <1>1, <2>1 DEF ServiceInv, ListTypes
  <2>3. served' # None
    BY <1>1, <1>3, ListAssumption DEF ListedSignatures
  <2>4. LastListIsUnderWay'
    BY <1>1, <1>2, <1>3, <2>1, <2>3 DEF ServiceInv, LastListIsUnderWay
  <2>5. EnginesAsListed'
    BY <2>1 DEF ServiceInv, EnginesAsListed, Main!Plays
  <2> QED BY <2>2, <2>4, <2>5 DEF ServiceInv
<1>4. CASE main.cameras # {}
  <2> DEFINE p == Main!NextThread
             cameras == {row[1] : row \in main.cameras}
  <2>1. /\ p \in Pipelines
        /\ thread[p] = "none"
        /\ main.cameras \in ListedSignatures
        /\ thread' = [thread EXCEPT ![p] = "build"]
        /\ pipeline_thread' = p
    BY <1>1, <1>4, LaunchedThread
  <2>2. /\ BuildEngines(p, cameras)
        /\ cameras_of' = [cameras_of EXCEPT ![p] = main.cameras]
    BY <1>4 DEF StartPipeline
  <2>3. /\ roi' = [roi EXCEPT ![p] = [c \in Cameras |-> IF c \in cameras THEN 0 ELSE None]]
        /\ pipeline' = [pipeline EXCEPT ![p] = "build"]
    BY <2>2 DEF BuildEngines
  <2>4. p # None /\ main.cameras # None
    BY <2>1, ClientAssumption, ListAssumption DEF Pipelines
  <2>5. \A c \in Cameras : c \in cameras <=> \E row \in main.cameras : row[1] = c
    OBVIOUS
  <2> HIDE DEF p, cameras
  <2>6. /\ thread \in [Pipelines -> Main!Stage]
        /\ cameras_of \in [Pipelines -> ListedSignatures]
        /\ roi \in [Pipelines -> [Cameras -> 0..MaxVersion \cup {None}]]
        /\ pipeline \in [Pipelines -> {"none", "build", "replay", "done"}]
    BY DEF Main!SupervisorInv, Main!TypeOK, Main!Threads, Pipelines, ServiceInv, ListTypes, Types
  <2>7. ListTypes'
    BY <1>1, <2>1, <2>2, <2>6 DEF ServiceInv, ListTypes
  <2>8. cameras_of'[p] = main.cameras
    BY <2>1, <2>2, <2>6
  <2>9. LastListIsUnderWay'
    BY <1>1, <1>2, <1>4, <2>1, <2>4, <2>8 DEF ServiceInv, LastListIsUnderWay
  <2>10. ASSUME NEW t \in Pipelines, t # p
         PROVE  /\ thread'[t] # "none" => \A c \in Cameras :
                     roi'[t][c] # None <=> \E row \in cameras_of'[t] : row[1] = c
                /\ thread'[t] = "made" \/ Main!Plays(t)' => pipeline'[t] = "done"
    <3>1. /\ thread'[t] = thread[t] /\ roi'[t] = roi[t] /\ cameras_of'[t] = cameras_of[t]
          /\ pipeline'[t] = pipeline[t]
      BY <2>1, <2>2, <2>3, <2>6, <2>10
    <3> QED BY <3>1 DEF ServiceInv, EnginesAsListed, Main!Plays
  <2>11. /\ \A c \in Cameras : roi'[p][c] # None <=> \E row \in cameras_of'[p] : row[1] = c
         /\ thread'[p] = "build"
    <3>1. thread'[p] = "build"
      BY <2>1, <2>6
    <3>2. \A c \in Cameras : roi'[p][c] = IF c \in cameras THEN 0 ELSE None
      BY <2>1, <2>3, <2>6
    <3> QED BY <2>5, <2>8, <3>1, <3>2, ClientAssumption
  <2>12. EnginesAsListed'
    BY <2>10, <2>11 DEF EnginesAsListed, Main!Plays
  <2> QED BY <2>7, <2>9, <2>12 DEF ServiceInv
<1> QED BY <1>3, <1>4

(* The steps of a pipeline thread.                                         *)
LEMMA PipelineThreadService ==
    ASSUME ServiceInv, Types, Main!SupervisorInv, NEW t \in Pipelines,
           \/ WireCommands(t) \/ ReplayZones(t) \/ EndReplay(t) \/ BecomeCurrent(t)
           \/ Play(t) \/ Fail(t)
    PROVE  ServiceInv'
<1>1. /\ thread \in [Pipelines -> Main!Stage]
      /\ pipeline \in [Pipelines -> {"none", "build", "replay", "done"}]
  BY DEF Main!SupervisorInv, Main!TypeOK, Main!Threads, Pipelines, Types
<1>2. UNCHANGED <<web, incoming, cameras_of, last_camera_signature, camera_config_queue,
                  main, served, pipeline_thread>>
  BY DEF WireCommands, ReplayZones, EndReplay, BecomeCurrent, Play, Fail, mainVars, listVars,
         Main!SetCmdHandlers, Main!Assign, Main!SetPlaying, Main!CreateLoop, Main!RunLoop,
         Main!BusMessage, Main!Teardown, Main!BuildFails, Main!ThreadStep
<1>3. /\ \A q \in Pipelines : pipeline'[q] = "done" \/ pipeline[q] # "done"
      /\ \A q \in Pipelines, c \in Cameras : roi'[q][c] = None <=> roi[q][c] = None
  <2>1. CASE ReplayZones(t)
    <3>1. PICK z \in pending[t] : Replay(t, z)
      BY <2>1 DEF ReplayZones
    <3>2. z \in [camera : Cameras, key : {"id", "code"}, version : 1..MaxVersion]
      BY DEF Types
    <3> QED BY <3>1, <3>2, AppliedKeepsEngines DEF Replay
  <2>2. CASE WireCommands(t)
    BY <1>1, <2>2 DEF WireCommands, SetCmdHandlers
  <2>3. CASE EndReplay(t)
    BY <1>1, <2>3 DEF EndReplay, FinishReplay
  <2>4. CASE BecomeCurrent(t) \/ Play(t) \/ Fail(t)
    BY <2>4 DEF BecomeCurrent, Play, Fail, clientVars
  <2> QED BY <2>1, <2>2, <2>3, <2>4
<1>4. \A q \in Pipelines : /\ thread'[q] # "none" => thread[q] # "none"
                           /\ thread'[q] = "made" \/ Main!Plays(q)' =>
                                 thread[q] = "made" \/ Main!Plays(q) \/ pipeline[q] = "done"
  <2>1. CASE ReplayZones(t) \/ EndReplay(t)
    BY <2>1 DEF ReplayZones, EndReplay, mainVars, Main!Plays
  <2>2. ASSUME NEW from \in Main!Stage \ {"none"}, NEW to \in Main!Stage,
               thread[t] = from, thread' = [thread EXCEPT ![t] = to],
               \/ to \in {"wired", "dead"}
               \/ from \in {"made", "playing", "looped", "running", "quit"}
               \/ pipeline[t] = "done"
        PROVE  \A q \in Pipelines :
                  /\ thread'[q] # "none" => thread[q] # "none"
                  /\ thread'[q] = "made" \/ Main!Plays(q)' =>
                        thread[q] = "made" \/ Main!Plays(q) \/ pipeline[q] = "done"
    <3> SUFFICES ASSUME NEW q \in Pipelines
                 PROVE  /\ thread'[q] # "none" => thread[q] # "none"
                        /\ thread'[q] = "made" \/ Main!Plays(q)' =>
                              thread[q] = "made" \/ Main!Plays(q) \/ pipeline[q] = "done"
      OBVIOUS
    <3>1. CASE q = t
      BY <1>1, <2>2, <3>1 DEF Main!Plays
    <3>2. CASE q # t
      BY <1>1, <2>2, <3>2 DEF Main!Plays
    <3> QED BY <3>1, <3>2
  <2>3. CASE WireCommands(t) \/ BecomeCurrent(t) \/ Play(t) \/ Fail(t)
    BY <2>2, <2>3
       DEF WireCommands, BecomeCurrent, Play, Fail, Main!SetCmdHandlers, Main!Assign,
           Main!SetPlaying, Main!CreateLoop, Main!RunLoop, Main!BusMessage, Main!Teardown,
           Main!BuildFails, Main!ThreadStep, Main!Stage
  <2> QED BY <2>1, <2>3
<1>5. EnginesAsListed'
  BY <1>2, <1>3, <1>4, EnginesKept DEF ServiceInv, EnginesAsListed
<1> QED BY <1>2, <1>5, ListsKept DEF ServiceInv

LEMMA StepService ==
    ASSUME ServiceInv, Types, Main!SupervisorInv, [ServiceNext]_serviceVars
    PROVE  ServiceInv'
<1>1. CASE UNCHANGED serviceVars
  BY <1>1 DEF serviceVars, mainVars, listVars, clientVars, ServiceInv, ListTypes,
              LastListIsUnderWay, Normalised, EnginesAsListed, Main!Plays
<1>2. CASE ServiceNext
  BY <1>2, ReceiveListService, AcceptListService, ZoneMessageService, MainThreadService,
     StartPipelineService, PipelineThreadService DEF ServiceNext
<1> QED BY <1>1, <1>2

-----------------------------------------------------------------------------
(* The service implements the client *)

LEMMA StepServesClient ==
    ASSUME ServiceInv, Types, Main!SupervisorInv, [ServiceNext]_serviceVars
    PROVE  [Next]_vars
<1>1. ASSUME NEW list \in [Cameras -> {"absent", "disabled", "offline"} \cup Settings],
             ReceiveList(list)
      PROVE  Next
  <2> DEFINE listed == [c \in Cameras |-> Enabled(list[c])]
  <2>1. listed \in [Cameras -> {"absent", "disabled", "enabled"}]
    BY DEF Enabled
  <2>2. SetCameraRegistry(listed)
    BY <1>1 DEF ReceiveList
  <2> HIDE DEF listed
  <2> QED BY <2>1, <2>2 DEF Next, MqttThread
<1>2. ASSUME ZoneMessage PROVE Next
  BY <1>2 DEF ZoneMessage, Next, MqttThread
<1>3. ASSUME AcceptList \/ MainThread PROVE UNCHANGED vars
  BY <1>3 DEF AcceptList, MainThread, clientVars, vars, Main!CameraList, Main!TakeConfig,
              Main!StopOld, Main!Join, Main!JoinTimeout, Main!Interrupt, Main!Exit
<1>4. ASSUME StartPipeline PROVE [Next]_vars
  <2>1. Main!Launch
    BY <1>4 DEF StartPipeline
  <2>2. CASE main.cameras = {}
    BY <1>4, <2>1, <2>2 DEF StartPipeline, Main!Launch, clientVars, vars
  <2>3. CASE main.cameras # {}
    <3> DEFINE cameras == {row[1] : row \in main.cameras}
    <3>1. Main!NextThread \in Pipelines /\ main.cameras \in ListedSignatures
      BY <2>1, <2>3, LaunchedThread
    <3>2. cameras \in (SUBSET Cameras) \ {{}}
      <4>1. \A row \in main.cameras : row[1] \in Cameras
        BY <3>1 DEF ListedSignatures
      <4>2. PICK row \in main.cameras : TRUE
        BY <2>3
      <4>3. row[1] \in cameras
        OBVIOUS
      <4>4. cameras \subseteq Cameras
        BY <4>1
      <4> HIDE DEF cameras
      <4> QED BY <4>3, <4>4
    <3>3. BuildEngines(Main!NextThread, cameras)
      BY <1>4, <2>3 DEF StartPipeline
    <3> HIDE DEF cameras
    <3> QED BY <3>1, <3>2, <3>3 DEF Next, PipelineThread
  <2> QED BY <2>2, <2>3
<1>5. ASSUME NEW t \in Pipelines, WireCommands(t) \/ ReplayZones(t) \/ EndReplay(t) PROVE Next
  BY <1>5 DEF WireCommands, ReplayZones, EndReplay, Next, PipelineThread
<1>6. ASSUME NEW t \in Pipelines, BecomeCurrent(t) \/ Play(t) \/ Fail(t) PROVE UNCHANGED vars
  BY <1>6 DEF BecomeCurrent, Play, Fail, clientVars, vars, Main!Assign, Main!SetPlaying,
              Main!CreateLoop, Main!RunLoop, Main!BusMessage, Main!Teardown, Main!BuildFails
<1>7. CASE UNCHANGED serviceVars
  BY <1>7 DEF serviceVars, clientVars, vars
<1> QED BY <1>1, <1>2, <1>3, <1>4, <1>5, <1>6, <1>7 DEF ServiceNext

-----------------------------------------------------------------------------
(* The theorems *)

(* The service's own invariant, and those of its two components, hold      *)
(* together: each step needs all three.                                    *)
THEOREM ServiceInvariance == ServiceSpec => [](ServiceInv /\ ClientInv /\ Main!SupervisorInv)
<1> DEFINE IInv == ServiceInv /\ ClientInv /\ Main!SupervisorInv
<1>1. ServiceInit => IInv
  BY InitService, InitClient, SupervisorInit DEF ServiceInit
<1>2. IInv /\ [ServiceNext]_serviceVars => IInv'
  <2> SUFFICES ASSUME ServiceInv, ClientInv, Main!SupervisorInv, [ServiceNext]_serviceVars
               PROVE  IInv'
    OBVIOUS
  <2>1. Types /\ ListTypes
    BY DEF ClientInv, ServiceInv
  <2>2. ServiceInv'
    BY <2>1, StepService
  <2>3. ClientInv'
    BY <2>1, StepServesClient, StepClient
  <2>4. Main!SupervisorInv'
    BY <2>1, StepSupervises, SupervisorStep
  <2> QED BY <2>2, <2>3, <2>4
<1> QED BY <1>1, <1>2, PTL DEF ServiceSpec

(* The service implements the client and the supervisor: what it does is   *)
(* in every step what each of them may do, or invisible to it.             *)
THEOREM ServiceImplementsComponents == ServiceSpec => Spec /\ Main!Spec
<1>1. ServiceInit => Init /\ Main!Init
  BY DEF ServiceInit
<1>2. ServiceInv /\ ClientInv /\ Main!SupervisorInv /\ [ServiceNext]_serviceVars
         => [Next]_vars /\ [Main!Next]_(Main!vars)
  BY StepServesClient, StepSupervises DEF ServiceInv, ClientInv
<1> QED BY <1>1, <1>2, ServiceInvariance, PTL DEF ServiceSpec, Spec, Main!Spec

(* In the running service too, the last zone message is retained last and  *)
(* no zones get lost between it and a new pipeline.                        *)
THEOREM ServiceKeepsZones == ServiceSpec => []LastMessageIsRetained /\ []NoZonesLost
BY ServiceImplementsComponents, LastRetained, ZonesReachEngines, PTL

(* The main loop of the service keeps the supervisor's invariant.          *)
THEOREM SupervisorInvariance == ServiceSpec => []SupervisorInv
BY SupervisorSound, ServiceImplementsComponents, PTL DEF SupervisorInv

(* Without a timed-out join, pipelines never overlap, and commands and the *)
(* stop request reach the one that lives, whatever lists and zones come and*)
(* whatever the pipeline threads do.                                       *)
THEOREM HandoverSafety == ServiceSpec => []CleanHandover
<1>1. SupervisorInv => CleanHandover
  BY DEF SupervisorInv, Main!SupervisorInv, Main!OnlyLatestLives, Main!CleanHandover, CleanHandover
<1> QED BY <1>1, SupervisorInvariance, PTL

(* Once nothing is on its way, the pipeline that plays analyses exactly    *)
(* the cameras the web has active, with the settings of its last list.     *)
THEOREM AnalysedCameras == ServiceSpec => []AnalysedAsListed
<1>1. ServiceInv /\ Main!SupervisorInv => AnalysedAsListed
  <2> SUFFICES ASSUME ServiceInv, Main!SupervisorInv, AtRest, served # {}
               PROVE
          /\ cameras_of[pipeline_thread] =
                {<<c, web[c]>> : c \in {d \in Cameras : web[d] \in Settings}}
          /\ \A c \in Cameras : roi[pipeline_thread][c] # None <=> web[c] \in Settings
    BY DEF AnalysedAsListed
  <2>1. served = last_camera_signature /\ served # None
    BY DEF AtRest, ServiceInv, LastListIsUnderWay
  <2>2. cameras_of[pipeline_thread] = Normalised(web)
    BY <2>1 DEF AtRest, ServiceInv, LastListIsUnderWay
  <2>3. \A c \in Cameras : web[c] \in Settings <=> web[c] \notin {"absent", "disabled", "offline"}
    BY SettingsAssumption DEF ServiceInv, ListTypes
  <2>4. Normalised(web) = {<<c, web[c]>> : c \in {d \in Cameras : web[d] \in Settings}}
    BY <2>3 DEF Normalised
  <2>5. pipeline_thread \in Pipelines
    BY DEF AtRest, Main!SupervisorInv, Main!TypeOK, Main!Threads, Pipelines
  <2>6. \A c \in Cameras :
           (\E row \in cameras_of[pipeline_thread] : row[1] = c) <=> web[c] \in Settings
    <3> DEFINE active == {d \in Cameras : web[d] \in Settings}
               rows == {<<c, web[c]>> : c \in active}
    <3>1. \A row \in rows : row[1] \in active
      OBVIOUS
    <3>2. \A c \in active : <<c, web[c]>> \in rows /\ <<c, web[c]>>[1] = c
      OBVIOUS
    <3>3. cameras_of[pipeline_thread] = rows
      BY <2>2, <2>4
    <3>4. \A c : c \in active <=> c \in Cameras /\ web[c] \in Settings
      OBVIOUS
    <3> HIDE DEF active, rows
    <3> QED BY <3>1, <3>2, <3>3, <3>4
  <2>7. \A c \in Cameras : roi[pipeline_thread][c] # None
                              <=> \E row \in cameras_of[pipeline_thread] : row[1] = c
    BY <2>5 DEF AtRest, ServiceInv, EnginesAsListed
  <2> QED BY <2>2, <2>4, <2>6, <2>7
<1> QED BY <1>1, ServiceInvariance, PTL

(* Once nothing is on its way and no join has given up, commands go to the *)
(* pipeline that plays, and it has had the zones of its cameras.           *)
THEOREM ZonesInPlay == ServiceSpec => []ZonesInForce
<1>1. ServiceInv /\ ClientInv /\ Main!SupervisorInv => ZonesInForce
  <2> SUFFICES ASSUME ServiceInv, ClientInv, Main!SupervisorInv, AtRest, ~timed_out
               PROVE  /\ cmd_handlers = pipeline_thread
                      /\ \A c \in Cameras : roi[pipeline_thread][c] # None /\ heard[c] # 0
                            => roi[pipeline_thread][c] # 0
    BY DEF ZonesInForce
  <2>1. pipeline_thread \in Pipelines /\ thread[pipeline_thread] = "running"
    BY DEF AtRest, Main!SupervisorInv, Main!TypeOK, Main!Threads, Pipelines
  <2>2. cmd_handlers = pipeline_thread
    BY <2>1 DEF Main!SupervisorInv, Main!OnlyLatestLives, Main!Alive, Main!Threads, Pipelines
  <2>3. pipeline[pipeline_thread] = "done"
    BY <2>1 DEF ServiceInv, EnginesAsListed, Main!Plays
  <2> QED BY <2>1, <2>2, <2>3
          DEF AtRest, ClientInv, ZonesOnTheWay, ToBeReplayed, BeingDelivered
<1> QED BY <1>1, ServiceInvariance, PTL

=============================================================================
