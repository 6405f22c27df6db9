# A formal model of the AOD engine

The AOD engine watches camera streams for objects that somebody leaves behind
(trash, in the deployed configuration), decides whether an object is really
abandoned, attributes it to a person and a vehicle, and publishes events over
MQTT.  This directory holds TLA+ modules of the engine's decision logic and of
the threads around it, configurations to model-check them with TLC, and proofs
for TLAPS.  Paths such as `src/src/main.py` are those of the repository.

## 1. The system

```
 broker --(camera lists, zone messages)--> MQTT thread: AodMqttClient._on_message
                                              |                    |
                     on_camera_config_received|                    |update_roi
                                              v                    |
 main thread: queue -> stop old, join(15 s), start pipeline thread |
                                              |                    |
                                              v                    v
 pipeline thread: engines, set_cmd_handlers, DeepStream, GLib loop
                                              |              AbandonmentRuleEngine (one per camera)
 GStreamer streaming thread: probe -> FrameHandler -> process_frame
                                              |
                                              v
                 blob/detector trackers, vehicle filter, departure detector
                     -> ObjectStateTracker.update -> target gate -> events -> MQTT
 watcher thread: ConfigLoader
```

| Part (source) | State | Operations | What makes it hard |
|---|---|---|---|
| object state tracker (`tracking/object_state_tracker.py`) | `tracks`: state, owner, vehicle, four clocks, alert flag, claim fields | `update`, `confirm_abandoned`, `reject_target`, `clear_camera` | eight states, four timers, occlusion by persons, verdicts that arrive after the state was read |
| target gate (`detection/target_verifier.py`) | `_samples`, `_last_sample_at` | `evaluate`, `forget`, `retain`, `clear` | count and ratio thresholds, early rejection, reuse of ids |
| rule engine (`logic/abandonment_rules.py`) | ROI, gate, trackers | `process_frame` (streaming thread), `update_roi` (MQTT thread) | no lock between the two |
| pipeline supervisor (`main.py`, `pipeline/deepstream_pipeline.py`) | queue, last signature, thread, current pipeline, loop | camera list, stop, join, launch, interrupt; a pipeline's life | stop of a pipeline that is still being built, timed-out joins |
| MQTT client (`mqtt/mqtt_client.py`, `mqtt/cmd_handlers.py`) | registry, retained zones, handlers | `_on_message`, `set_camera_registry`, `set_cmd_handlers` | replay of retained zones against new zones; messages under code or id |
| configuration loader (`utils/config_loader.py`) | `_data`, `_mtime` | `reload`, the watch loop | edits between read and `getmtime`, half-written files |
| vehicle filter and dwell associator (`detection/vehicle_track_filter.py`, `logic/ownership.py`) | detector evidence, dwell records | `update`, `find_related`, `clear_camera` | gaps, class changes, irregular frame times |
| person departure detector (`detection/person_departure_detector.py`) | anchors, stay clocks, dwell zones, reference images | `update`, `clear_camera` | departure due in a frame without an image, return just before it |
| detected object tracker (`detection/detected_object_tracker.py`) | tracks with hits, templates, margins | `update`, `clear` | sparse detections, templates that keep false detections alive |
| frame handler (`pipeline/probe_callbacks.py`) | frame counter | `process_frame`, publish | looks the tracks up twice after `process_frame` returned; an image on every fifth frame only |
| blob tracker (`detection/blob_tracker.py`) | boxes with hits and time of the last sighting | `update`, `clear` | hits are never reset, ids outlive tracks |
| person history (`logic/ownership.py`) | frames of the last five seconds | `push`, `find_owner_at_location` | not cleared with the ROI; the nearest of the whole window wins |
| camera contract (`mqtt/camera_contract.py`) | none | normalisation, signature | which cameras of a list count, against the client's own registry |
| image analysis, models, geometry | numeric | | inputs of the models |

With the repository's own configuration (`object_detection.enabled` true,
`target_filter.enabled` false) candidates come from the semantic detector and
its tracker, and the state tracker alerts by itself; the gate decides when
`target_filter.enabled` is true, and the departure detector adds candidates when
the semantic detector is off (legacy mode).  The models cover both choices of both:
`DeferAbandonedEvent` is a constant of the state tracker and the engine, and
`ProcessFrame` has a behaviour for either value of `object_detection.enabled`.

`PROJECT.json` lists every component with its status, and, under "hazards",
the places in the code where something can go wrong that a test would hardly
reach, with the properties that watch each of them.

## 2. Modules

| Module | Models | State and actions against the code |
|---|---|---|
| `AlertLifecycle` | abstract: what the callers of `update` and `process_frame` rely on | one open alert per object; `Publish`, `Withdraw` (ROI replaced) |
| `ObjectStateTracker` | `ObjectStateTracker` of one camera | a track is a record with the fields of `ObjectTrack`; `Update` is the whole of `update`, both loops; `ConfirmAbandoned`, `RejectTarget`, `ClearCamera` are the other methods |
| `TemporalTargetGate` | `TemporalTargetGate` | a sample list is its counts; `Decision`/`Record` are `evaluate` |
| `TargetGateProtocol` | the gate under its caller's protocol | adds the sequence of predictions as history, against a reference decision |
| `RuleEngine` | `process_frame`, `update_roi` and the frame handler as threads, composing `ObjectStateTracker` and `TemporalTargetGate` | the streaming thread takes `update` object by object (`Sight`, `CopyTracks`, `Leave`/`Stay`), then `Evaluate` per request, `FinishFrame`, and per shown object `CheckTrack` and `ReadTrack`, then `Publish`; an exception in either is `Abort`; `EndEarly` is a frame that is refused for want of a ROI or loses its tables before it reaches the tracker; the MQTT thread's `ReplaceRoi`, `FilterTracks`, `ClearTracks` or `FilterFails`, `ClearGate` or `ClearFails`; `retired` holds the ids that the latest `update_roi` took from the trackers of boxes while the gate knew them |
| `ProcessFrame` | `process_frame` between the scene and the state tracker, with `PersonHistoryBuffer`, `BlobTracker` and the boxes of `DetectedObjectTracker` | a frame is one step: `DetectorFrame` (detections take boxes, `Looked`; templates may find the others again; `Lasting` drops what was unseen too long; `Unrivalled` is the snapshot), or `LegacyFrame` (departures and known boxes, `Unique`, `Valid`, `Blobs`, then `Tracker!Update`); `Move` is the scene |
| `Supervisor` | main loop, pipeline threads | one action per step between which another thread can act: `TakeConfig`, `StopOld`, `Join`/`JoinTimeout`, `Launch`; `SetCmdHandlers`, `Assign`, `SetPlaying`, `CreateLoop`, `RunLoop`, `Teardown` |
| `MqttAodClient` | zone messages against camera lists and new pipelines | one action per locked section or unlocked call |
| `Service` | the client and the main loop with its pipeline threads, composed as `main.py` does, and the camera contract | `ReceiveList` then `AcceptList`; `WireCommands` is the thread's `SetCmdHandlers` and the client's; the other actions are those of the two modules |
| `ConfigLoader` | watcher thread and an editor of the file | `file` is the content, `mtime` the time of the file; `Poll` compares times only, `Read` loads the content, `Stamp` takes the time; `Edit` changes either, or both |
| `VehicleEvidence` (`MCVehicleEvidence`) | vehicle filter followed by the dwell associator | `ProcessFrame` is both updates of a frame; `Related` is `find_related` |
| `PersonDeparture` | departure detector | `Update` with or without an image |
| `DetectedObjects` (`MCDetectedObjects`) | detected object tracker | `Update`: matching, template search, expiry, snapshot |
| `<module>_proofs` of `ObjectStateTracker`, `TargetGateProtocol`, `RuleEngine`, `ProcessFrame`, `Service` (with `MqttAodClient` and `Supervisor`), `VehicleEvidence`, `PersonDeparture`, `DetectedObjects` | theorems | section 5 |

Conventions:

- **Time.** Where the code compares ages with durations, a timestamp is held as
  its age, saturated at `Horizon` (or at the largest duration).  A `Horizon`
  above every duration loses nothing, and time itself needs no bound.  Any number
  of frames may fall between two ticks.  `VehicleEvidence` compares timestamps
  with each other, so it keeps an absolute clock up to `MaxTime`; `MaxStep` is the
  longest time between two processed frames, in it and in `DetectedObjects`.
  All models assume a clock that does not jump, as the code does.
- **Pictures.** A box is a position or a member of a small set of places, its
  geometric relations are those the code tests (within the threshold, within the
  hysteresis, beyond; IoU above the threshold; inside a polygon).  What a network
  or an image comparison answers is any answer.
- **Payload.** Labels, confidences, messages and formatting are left out where no
  decision depends on them.
- **History variables** (`owner_by`, `votes`, `taken`, `verdict`, `served`,
  `timed_out`, `newest`, `heard`, `evidence`, `path`, `unseen`, `checks`, `near`,
  `steady`, `looks`, `undetected`, `raced`, `disguised`, `announced`, `attended`) record what happened so that properties
  can be stated about the frames, predictions and messages themselves instead of
  the code's own bookkeeping.  No guard of an action reads them, except the bound
  on the version of a zone message; the fairness of `PersonDeparture` reads `unseen`.
- **Mutants.** A definition marked "Mutant of" is a plausible wrong version of the
  one below it.  It is not part of the specification; put in its place, it violates
  the property `PROJECT.json` names, which shows that the property can tell.

## 3. Runs

Run one with `tlc -config <cfg> <module>`.

| Run | Module, configuration | Question | Bounds and why they are enough |
|---|---|---|---|
| tracker_deferred | `ObjectStateTracker`, `MCTrackerDeferred.cfg` | Behind a gate: is the bookkeeping of claims, alerts and departures consistent (`TrackerInv`), does what is published implement `AlertLifecycle`, does an alert need the full absence (`AlertOnlyAfterAbsence`), do rejected objects stay silent, is the attribution never rewritten, is what is gone forgotten? | one object: tracks do not read each other; two persons: the owner and a passer-by; dwell 3 above grace 2, so both orders of expiry happen; `Horizon` 4 above all |
| process_frame | `ProcessFrame`, `MCProcessFrame.cfg` | Is one who stands by an object not reported, is an object left alone reported, is everything forgotten when everything is taken away, with the boxes, ids and owners `process_frame` gives the tracker? | one person, one object and two places, so that both can be together or apart; two disjoint ROIs, so that each replacement excludes what the last one had; the occlusion gap, the window and the dwell are 1, the blob tracker's lifetime is longer than the occlusion gap as in the code; a detected box lasts unseen for 0 or 1 by its evidence, and a template finds it again at either place |
| engine | `RuleEngine`, `MCRuleEngine.cfg` | With both threads interleaved inside `update`, between the gate's decisions and inside publication: does an alert need the gate's votes for this very track, do samples outlive their track only where a failed `update_roi` leaves them, does the lifecycle hold, is a verdict reached, is every alert published? | two objects, so that one is deleted or added while the walk is at the other; each loses and regains its track, which is what reuse of ids needs; two of three votes; no persons, since owners only decide when a request comes |
| roi_leak | `RuleEngine`, `MCRoiLeak.cfg` | "old candidates cannot leak": violated, section 6 | |
| target_gate | `TargetGateProtocol`, `MCTargetGate.cfg` | Is every verdict the one a reference makes of the same predictions, neither early nor hopelessly late, and does a new life of an id start from nothing? | the deployed numbers themselves: 3 of at most 5, 60 percent; two objects |
| supervisor | `Supervisor`, `MCSupervisor.cfg` | Is a running pipeline stopped, is the last list served? | three changes: one pipeline, its successor, and a list that comes during the handover; two lists and the empty one |
| service | `Service`, `MCService.cfg` | Is a handover without timeout clean (`SupervisorInv`, `CleanHandover`), is the last message the retained one under every change of key, does a message that crosses the installation of handlers arrive, is in the end what is analysed what the web listed last, and are its zones in force in the pipeline that plays? | a camera that is absent, disabled, offline or active with one of two settings (a change of settings and a change of the set both change the signature); two pipelines, the second replacing the first; three zone messages; cameras do not share state, so one |
| mqtt_stale_replay | `MqttAodClient`, `MCMqttStaleReplay.cfg` | "replay the latest retained ROI": violated, section 6 | |
| config_loader | `ConfigLoader`, `MCConfigLoader.cfg` | Is a file that settles loaded? | three contents, one of which does not parse, and three times, chosen independently: a later, an older and the same time with the same or another content |
| vehicle_evidence | `MCVehicleEvidence`, `MCVehicleEvidence.cfg` | Is a track confirmed exactly by repeated strong evidence, and related exactly by a sufficient stay? | two polygons and a road, so that a vehicle leaves, changes polygon and returns; frames 1 or 2 apart around gaps of 1 and 2; six units hold confirmation, stay, gap and return; two interchangeable classes (symmetry over them) |
| person_departure | `PersonDeparture`, `MCPersonDeparture.cfg` | Is each departure compared once, not early, not never, and with an image of the right spot? | one person: persons do not share state; three positions, so that a person leaves a zone and comes back; frames with and without image |
| detected_objects | `MCDetectedObjects`, `MCDetectedObjects.cfg` | Do hits count looks of the detector, and can templates alone make an object static or keep it alive? | two ids at overlapping positions, so that boxes compete for tracks; thresholds 2 and 3; ids interchangeable (symmetry) |

The configurations of `Supervisor`, `MqttAodClient` and `Service` switch deadlock checking off: the process may end
(`Exit`), and a system whose list never changes again has nothing to do.

Symmetry is only used in runs without temporal properties.

### Fairness

- `ProcessFrame`: time passes and frames keep coming.  A thing that goes on lying
  where its track has it, with nobody near, is shown at rest again and again
  (`FrameShows`, per object: a detector that never reports the thing, or an engine
  that gets no frames, makes no promise), and frames of an empty scene come
  (`FrameOfNothing`), in which boxes may still be carried on and found again.  In the legacy mode `FrameShows` is a frame without an image,
  four of five in the code.
- `ObjectStateTracker`: time passes, and frames keep coming.  What they show is
  up to the scene, so the fairness is per situation: an object that was not in the
  last frame is also missing from some next frame (`FrameWithout`), and one seen
  without its owner is seen so again (`FrameAlone`, which only `MCTrackerDirect.cfg`
  needs), unless the scene changes.  This
  is what a live camera gives, and no more: it brings no owner back and removes no
  object.
- `PersonDeparture`: time passes, and while a person is out of view frames with an
  image keep coming; `FrameHandler` takes an image on every fifth frame.
- `Supervisor`: threads are scheduled and a `join` returns.  Camera lists, bus
  messages, failures and the interrupt may never come.
- `ConfigLoader`: the watcher thread is scheduled; nobody has to edit.
- `RuleEngine`: none is assumed; `VerdictIsReached` has the fairness it needs,
  infinitely many usable predictions, as its premise.

## 4. Properties in short

- *Timing of alerts.* `AlertOnlyAfterAbsence` compares the alert with a history of
  what frames showed, not with the code's clocks: the owner was in no frame of the
  object within the base distance for the whole dwell.  The grace period, the 1.5
  hysteresis and occlusions may delay an alert and never advance it.
- *Lifecycle.* `ImplementsLifecycle` and `EngineImplementsLifecycle` are refinements
  of `AlertLifecycle` (the set of open alerts is the set of alerted tracks): an alert
  is opened once and closed once, by a claim or a removal.  They speak of what `update`
  and `process_frame` return.  The broker hears less: `publish_event` drops every type that
  is not in `event_source_types` (`mqtt_client.py:351-352`), which `mqtt_config.yaml:22-24`
  sets to `object_abandoned` on purpose, so no closing event leaves the process.  An ROI replacement
  withdraws alerts without a closing event; this is what `clear_camera` does, and
  the abstract specification says so.
- *Fail closed.* `AlertNeedsConsensus`: in spite of ROI commands between any two
  steps of a frame, an alert needs the required votes for the very track.
- *No alert is lost.* `AlertedIsAnnounced`: an alerted track never alerts again, so an
  event lost with an exception would be lost for good.  `update_roi` in the middle of a
  frame makes the streaming thread raise `KeyError` (`object_state_tracker.py:258`,
  `probe_callbacks.py:116`), and the frame's events go with it; the property holds
  because the same `update_roi` has by then withdrawn every alert they could open.
- *Scene to alert.* `StandingByIsNotReported`, `LeftAloneIsReported` and
  `VanishedIsForgotten` are the test cases of the repository's README (`src/README.md`)
  as properties of all runs.  The last is stated for the semantic detector, whose tracker
  carries a vanished box on for seconds, by its evidence, and for longer each time its
  template matches.  The property says that this ends: when everything is taken away and
  from some time on no template matches the bare ground (`Rediscovered`), the detector's
  tracker lets go of every box whatever its evidence, no id is revived, and the state
  tracker, to which a carried box is as good as a seen one, forgets each track.  Without the
  proviso about templates, and in the legacy mode, it is false, see section 6.
- *Samples of the gate.* `SamplesBelongToTracks`: between frames and commands the gate
  has samples of live tracks, apart from those an `update_roi` leaves behind that fails
  between the tracker and the gate (`abandonment_rules.py:134-136`; `MCGateResidue.cfg`
  shows it).  Their ids were taken from the cleared trackers of boxes, and being uuid4 come
  back on no box; `retain` drops them in the next frame that goes through, which with an
  empty required ROI may be long in coming (244-247).  `AlertNeedsConsensus` holds
  nevertheless.
- *Reload.* `SettledFileIsLoaded`: a file that settles is loaded in the end, whatever
  edits, removals and touches came before and whether its time went forward or back.  Its
  premises are the two cases in which the watcher has no means to notice: an edit between
  `reload`'s read and its `getmtime`, and other content under the time it compares with.
- *Handover.* `CleanHandover`: without a timed-out join one pipeline thread lives,
  and commands and the next stop go to it.  After a timed-out join none of this holds,
  see section 6.
- *Delivery of zones and lists.* `LastMessageIsRetained` and `NoZonesLost`;
  `AnalysedAsListed` and `ZonesInForce` relate what the web sent to what the playing
  pipeline does, across the registry, the signature, the queue, the threads and the
  handlers.  `ZonesInForce` needs that no join has timed out (`MCServiceLate.cfg`).
- *Evidence.* `ConfirmedIffRepeated` and the pair `RelatedVehicleDwelt` /
  `DwellIsRemembered` relate the incremental bookkeeping to all detections and
  sightings of a track; `HitsAreDistinctLooks`, `StillnessNeedsTheDetector` and
  `CarriedOnEvidence` bound what templates can do.
- *Departures.* `CheckedOnceAfterAbsence`, `NobodyForgottenUnchecked`,
  `DepartureIsChecked`, `ZoneNeedsStay`, `ReferenceShowsItsSpot`.  The model assumes
  `stationary_distance_px <= dwell_zone_match_distance` (40 and 60 in the
  configuration); with the opposite order a person could leave a zone without leaving
  its anchor, and a new zone would carry the box of an earlier spot.

## 5. Proofs

All theorems hold for every value of the constants that satisfies the named
assumptions of the modules, in particular any number of objects, persons, cameras, lists
and any durations and thresholds.  The invariants they rest on are definitions of the
component's module, at its end; TLC has checked each of them on the instance of the
component's run (put its name under `INVARIANTS` of the configuration to repeat that).

| Module | Theorem | Property |
|---|---|---|
| `ObjectStateTracker_proofs` | `Invariance`, `TypeCorrect`, `TrackSafety` | `TrackerInv` and its parts |
| | `AlertTiming`, `SilenceIsKept`, `AttributionIsKept` | `AlertOnlyAfterAbsence`, `SilentStaysSilent`, `AttributionIsFinal` |
| | `RefinesLifecycle` | `ImplementsLifecycle` |
| `TargetGateProtocol_proofs` | `GateInvariance`, `RejectionLosesNothing`, `HistoryInvariance` | `GateInv`, `HistoryInv` |
| | `SamplesOfThisLife`, `AcceptanceIsConsensus`, `RejectionIsFinal`, `SamplingHasHope` | `SamplesAreThisLife`, `AcceptedByConsensus`, `RejectedWithoutHope`, `NoIdleSampling` |
| `RuleEngine_proofs` | `EngineInvariance`, `GateSamples`, `AlertsAreHandedOut` | `EngineInv`, `SamplesBelongToTracks`, `AlertedIsAnnounced` |
| | `ConsensusBeforeAlert`, `EngineRefinesLifecycle` | `AlertNeedsConsensus`, `EngineImplementsLifecycle` |
| `ProcessFrame_proofs` | `FrameInvariance`, `TypeCorrect` | `FrameTyped` with the tracker's `TrackerInv`, `TypeOK` |
| | `FrameImplementsTracker` | `ObjectStateTracker!Spec` |
| | `StandingBy` | `StandingByIsNotReported` |
| `Service_proofs`, the client | `ClientInvariance`, `ClientTypeCorrect`, `LastRetained`, `ZonesReachEngines` | `ClientInv`, `TypeOK`, `LastMessageIsRetained`, `NoZonesLost` |
| `Service_proofs`, the main loop | `SupervisorInvariance`, `HandoverSafety` | `SupervisorInv`, `CleanHandover` |
| `Service_proofs`, the composition | `ServiceInvariance`, `ServiceImplementsComponents`, `ServiceKeepsZones` | the three invariants; `MqttAodClient!Spec` and `Supervisor!Spec` |
| | `AnalysedCameras`, `ZonesInPlay` | `AnalysedAsListed`, `ZonesInForce` |
| `VehicleEvidence_proofs` | `FilterInvariance`, `ConfirmationIsEvidence`, `EvidenceHasNoGap` | `FilterInv`, `ConfirmedIffRepeated`, `EvidenceIsContinuous` |
| | `DwellInvariance`, `RelationNeedsDwell`, `DwellRelates` | `DwellInv`, `RelatedVehicleDwelt`, `DwellIsRemembered` |
| `PersonDeparture_proofs` | `PersonInvariance`, `TypeCorrect`, `ReferencesFit`, `ZonesTakeTime` | `PersonInv`, `TypeOK`, `ReferenceShowsItsSpot`, `ZoneNeedsStay` |
| | `OneCheckPerAbsence`, `NobodyForgotten` | `CheckedOnceAfterAbsence`, `NobodyForgottenUnchecked` |
| `DetectedObjects_proofs` | `ObjectsInvariance` | `TypeOK`, `TracksSound` |
| | `HitsAreLooks`, `StillnessFromDetector`, `TemplatesCarryEvidence` | `HitsAreDistinctLooks`, `StillnessNeedsTheDetector`, `CarriedOnEvidence` |

**`ObjectStateTracker_proofs`** (assumes `DurationAssumption`, `NoneAssumption`,
`DeferAssumption`).  What one wants (claims, alerts and departures are consistent) is not
inductive.  `TrackerInv` adds:
that a confirming track has no owner clock running and a recorded departure means
that the grace period is over (`ClocksSound`; without it a track could enter
`STATIC_NO_OWNER` with clocks from nowhere);
that the tracker's absence clock never runs ahead of what frames showed
(`AbsenceSound`, the bridge from the code's clock to the history);
and that a request of the frame in progress belongs to a track that awaits a verdict
(`RequestsAwait`, without which `confirm_abandoned` could alert for a track whose
owner is back).
The proof goes track by track: one lemma for each stage of `update` on a single track
(`TouchedInv`, `ReappearedInv`, `ConfirmedInv`, `JudgedInv`, `ShownInv`, `MissedInv`),
one for ageing, then one per action, combined in `StepInv`.  The action properties and
the refinement follow the same stages: what a stage does to the state and to the
attribution of a track, and which of its events go with a change of the alert flag.  The
refinement maps the open alerts of `AlertLifecycle` to the alerted tracks and shows that
every step is `Publish`, `Withdraw` or a stutter.

**`TargetGateProtocol_proofs`** (assumes `GateAssumption`).  `GateInv` says that what the
gate keeps between two samples is undecided, neither enough to accept nor hopeless;
`HistoryInv` ties these counts to the predictions of the present life of the id, no prefix
of which agreed.  Lemmas about `Votes` (appending a prediction, continuing a sequence by
any other, at most as many votes as predictions) carry the arithmetic of the counts over to
the reference decision on sequences.  `SamplingHasHope` needs
`Confirmations * RatioDen >= RatioNum * MaxSamples`: with a ratio that asks for more
than the confirmations, the early rejection of `evaluate`, which looks at the number of
confirmations alone, comes later than it could.  The deployed 3 of 5 for 0.60 meets it.

**`RuleEngine_proofs`** rests on the lemmas about single tracks above and on two
invariants that follow both threads.  `EngineInv` says what the streaming thread's private
copies are worth while `update_roi` is anywhere: the part of the table the second loop of
`update` has not walked yet is as it was copied, or the table was cleared (`WalkSound`,
which is why a `KeyError` there can only lose events of alerts that are withdrawn);
an alerted track was announced or its event is on the way in this frame
(`AlertsUnderWay`); the gate has samples of known tracks and of retired ids only, and
during a walk that is about to fail of retired ones only (`GateFollowsTracker`); before a
frame reaches the tracker nothing has been collected for it (`NothingCollected`), so that
ending there loses nothing.  For `AlertNeedsConsensus` it is
strengthened by `VotesCount`: the positives of a track were votes for this very track, or
are those a failed `update_roi` left under a retired id, about which nobody asks again;
and while `update_roi` stands between tracker and gate no known track has been asked
about.  The last part is why `ConsensusBeforeAlert` supposes `AbandonmentDwell > 0`: with
a dwell of zero an object could be abandoned in the frame that first shows it and be
judged by samples of the id's earlier life.  `EngineRefinesLifecycle` shows for the step
of each thread that it opens, closes or withdraws alerts as `AlertLifecycle` allows.

**`ProcessFrame_proofs`** (assumes `ProcessFrameConstants`, `DurationAssumption`,
`NoneAssumption`).  The loops of `process_frame` over proposals and boxes are recursive
functions over a sequence of any length; `LoopRuns` shows that such a function exists (a loop
of n steps has a run) and `LoopTyped` that its values stay in a set every step keeps.  On
them rest the lemmas about the loops: what `Unique`, `Valid` and `Blobs` put out
(`UniqueTyped`, `ValidTyped`, `BlobsTyped`), and that the ids of the tracks remain listed
once each when some go and others come (`MembersListed`, `ConcatListed`).  `Handed` is what
both modes have in common: results of the right kind, looked up in the history to which this
frame has been pushed.  From it follow the types (`FrameInvariance`, `TypeCorrect`) and that
every step of `ProcessFrame` is one of the state tracker (`FrameImplementsTracker`), so that
the theorems about `ObjectStateTracker`, which takes any sighting, hold of the sightings
`process_frame` makes.

`StandingByIsNotReported` is not inductive: an alert comes a dwell later than the step that
settles the owner.  `OwnerlessIsUnattended` is what lasts from one to the other: a track that
was confirmed without an owner is one nobody has stood by in all its frames.  When a
confirming track gets none (`ShownOwner`), the lookup of that frame found nobody; but who
stands by is in the history with age 0 (`Pushed`), within `OwnerReach` when `OwnerReach >=
NearReach`, and then the nearest of the window is within it too (`OwnerFound`, over
the least element of a set of naturals).  And who stands by is near the box, so a track whose
owner stands by is not abandoned.  Hence the hypothesis `NearReach <= OwnerReach` of
`StandingBy`, the two numbers of the configuration (`owner_distance_threshold_px` 150,
`owner_max_distance_px` 200); with a shorter lookup one who stands by need not be found.

**`Service_proofs`, about the main loop** (assumes `SupervisorAssumption`).  `SupervisorInv`
adds to the types that threads come from changes of their own, in order (`ThreadsFromChanges`,
which keeps the number of the next thread in range), and that without a timed-out join only the
latest thread lives, none does when the main thread is about to launch, and what the latest
has published of itself is not overwritten (`OnlyLatestLives`).  The lemmas are about the
supervisor as the service uses it, with the signatures of its camera lists.

**`Service_proofs`, about the client** (assumes `ClientAssumption`).  `ClientInv` has, beside the types,
the possible shapes of a camera's retained entries (`RetainedInv`: none, one under either
key, or the code behind the id, whose versions show which of the two is newer; the merge
of `_on_message` and `set_camera_registry` preserves this, and only this order makes "the
later key wins" right), and for the pipeline that has the handlers where the zones of a
camera are that its engine still lacks: in the copy to be replayed or with the message in
progress (`ZonesOnTheWay`).

**`Service_proofs`, about the composition** (assumes `ListAssumption`, `SettingsAssumption` and those of the
components).  The composition is first shown to implement both components, so that their invariants, and with them
`LastMessageIsRetained` and `NoZonesLost`, hold of it.  `ServiceInv` adds what only the
composition can say: the list the web sent last is incoming, or it is the signature and
then last in the queue, with the main thread, or served (`LastListIsUnderWay`), and the
engines of a pipeline are those of the list it was started with and have had their replay
before the pipeline is assigned (`EnginesAsListed`).  At rest the three invariants meet in
`AnalysedAsListed` and `ZonesInForce`; the latter has the premise that no join timed out,
without which it is false (`MCServiceLate.cfg`).

**`VehicleEvidence_proofs`** (assumes `VehicleConstants`) compares the counters of the code
with sets of detections and sightings.  `FilterInv` says that the hits of a track are the
size of a run of strong detections that ends with the last one, and that the strong
detection before the run, if there is one, broke it off: without that last part a longer run
could exist that the counter has missed, and "confirmed exactly when" would not be
inductive.  The lemmas on sets say what one later detection does: it changes no order, row
or succession among the earlier ones (`FiledAdded`, `FollowsKept`, `RowKept`), extends the
run (`StrongContinues`) or begins one (`StrongBegins`), and decides alone whether there now
is a run of `MinHits` (`RepeatedByRun`).  `DwellInv` says where the vehicle was last inside
a polygon; that the dwell is not more than a stay with gaps up to the tracking gap plus one frame
interval (`DwellBacked`), and not less than any stay with gaps up to the tracking gap, the one in
progress included (`DwellComplete`).  The difference of one frame interval is the
code's: it notices a gap only in the next frame that has come.  `UpTo`, `StayKept`,
`StayExtended` and `StayBefore` are the lemmas about stays.  `FilterInv` is used once here:
only known vehicles are accepted.

**`PersonDeparture_proofs`** (assumes `DepartureConstants`).  `AbsenceOf` says that the
code's absence clock does not run ahead of the history and that `processed` is set
exactly by a check since the last sighting; `StayOf` that the stay clock runs at the spot
of the reference image and no longer than the person has been near it, or that a known
zone lies at the anchor.  `NobodyForgotten` supposes `DepartureConfirm <= ForgetAfter`
(3 s against 60 s): a confirmation that takes longer than the retention comes too late.

**`DetectedObjects_proofs`** (assumes `DetectedObjectConstants`).  `TrackSound` sets a track
against the history of its detections; its last parts are what `CarriedOnEvidence` lacks to
be inductive: every track is within its lifetime (`Live`), and one whose age is below the
time since its last detection may be searched for by its template, today as on the day the
search began, since only detections change its hits and its margin.  The heart is the
matching loop of `update`, which is not atomic for the property: `WorkSound` says
of a frame half matched that each detection so far took a track of its own and the other tracks
are as they were, so that no track is hit twice in one look (`MatchedSound`).  The loop is a
recursive function of the number of detections; with the two of `Detections` it is unrolled
(`AllMatchedInOrder`).

Only model-checked:

- liveness (`GoneIsForgotten`, `AbandonmentIsReported`, `LeftAloneIsReported`,
  `VanishedIsForgotten`, `VerdictIsReached`, `LastListIsServed`, `RunningPipelineIsStopped`,
  `SettledFileIsLoaded`, `DepartureIsChecked`), which the proof system does not handle
  under fairness;
- the `TypeOK` of the modules whose invariant carries only the types the proof needs
  (`RuleEngine`, `VehicleEvidence`), and that of `ConfigLoader`, whose properties are
  liveness and what the code does not keep (section 6).

## 6. Where code and documentation disagree

Two runs are expected to find a violation:

- **roi_leak**: the docstring of `update_roi` (`abandonment_rules.py:128`) promises
  "Atomically replace ROI-facing state so old candidates cannot leak."  It runs on the
  MQTT thread without a lock.  A frame that has read the old polygons puts its candidate
  into the tracker after it was cleared; with an empty new ROI no later frame reaches the
  tracker, so the candidate stays.
- **mqtt_stale_replay**: the docstring of `set_cmd_handlers` (`mqtt_client.py:258`)
  promises to "replay the latest retained ROI per camera."  It copies the retained zones
  under the lock and replays them after releasing it.  A newer message applied in between
  is overwritten by the copy.

Thirteen more configurations are kept beside the runs; each demonstrates one statement
of a document or comment, or one property without its premise, that the code does
not keep:

| Command | Statement | What the trace shows |
|---|---|---|
| `tlc -config MCConfigRace.cfg ConfigLoader` (`ChangedFileIsReloaded`) | hot reload "when the configuration file changes" (`config_loader.py:3`) | an edit between `reload`'s read and its `getmtime` (32-34): the new time is stamped on the old content, which is then served for good |
| `tlc -config MCConfigSameTime.cfg ConfigLoader` (`ChangedContentIsReloaded`) | the same | `_watch_loop` compares modification times only (`config_loader.py:40-41`): other content under the time already loaded (restored with its time, or edited twice within the resolution of the clock) is never loaded |
| `tlc -config MCConfigUse.cfg ConfigLoader` (`LoadedConfigIsUsed`) | "without restarting the DeepStream pipeline" (`config_loader.py:3-4`) | `main.py:50` takes the dictionary once; a reload replaces the loader's and nobody reads it |
| `tlc -config MCSupervisorOverlap.cfg Supervisor` (`OnePipelinePlays`) | "Stop the old pipeline if it is running" (`main.py:142`, translated) | the stop reaches a pipeline without a running loop, or its predecessor (143-149, `deepstream_pipeline.py:215-221`); the join times out and two pipelines play |
| `tlc -config MCVehicleDriveThrough.cfg MCVehicleEvidence` (`RelatedVehicleStopped`) | the vehicle must stop, one that only drives through must not be attached (`configs/app_config.yaml:164-165`, translated) | a slow vehicle that keeps moving through one polygon for the dwell time is related (`ownership.py:118-128`, 172-176) |
| `tlc -config MCPersonPasserBy.cfg PersonDeparture` (`PassersByMakeNoZone`) | one who only passes by creates no dwell zone (`docs/TRASH_ONLY_DEPLOYMENT.md:27-29`, translated) | a person who leaves and passes the same place again keeps the stay clock of the first visit (`person_departure_detector.py:136-138`, 215-239) |
| `tlc -config MCDetectedTwins.cfg MCDetectedObjects` (`ReportedIdIsStable`) | "Keep detector IDs stable" (`detected_object_tracker.py:27`) | a twin track that got more hits replaces the reported id (286-312) |
| `tlc -config MCServiceLate.cfg Service` (`ZonesInForceAlways`) | none: `ZonesInForce` without its premise that no join has timed out | after a timed-out join the old thread, still building, installs its handlers over those of its successor; zones go to the old engines |
| `tlc -config MCLegacyVanished.cfg ProcessFrame` (`VanishedIsForgottenAlways`) | a thing picked up loses its track (test case 2, `src/README.md:92`, translated) | legacy mode: a frame without an image feeds the track's own box back unverified (`abandonment_rules.py:419-437`, 501-502), so the track goes on between occlusion and dwell without the thing |
| `tlc -config MCTemplateGhost.cfg ProcessFrame` (`VanishedIsForgottenAlways`) | the same | with the semantic detector: a template that goes on matching the ground where the thing lay refreshes `last_seen_at` (`detected_object_tracker.py:121-187`), and the box, the track and its dwell go on without the thing |
| `tlc -config MCLegacyTwins.cfg ProcessFrame` (`OneAlertPerPlace`) | overlapping boxes are removed (`abandonment_rules.py:439`, translated) | the removal comes before `verify_region` moves the boxes (463-500); two tracks come to lie on one thing and both alert |
| `tlc -config MCOwnerOldRoi.cfg ProcessFrame` (`OwnerFromRoi`) | "Only a person/vehicle whose tracked box is in the configured ROI can contribute" (`abandonment_rules.py:249-251`) | `update_roi` (127-138) does not clear the person history: a person of the old ROI becomes the owner |

| `tlc -config MCGateResidue.cfg RuleEngine` (`NoSamplesWithoutTrack`) | "Atomically replace ROI-facing state" (`abandonment_rules.py:128`) | a frame changes the size of a table that `update_roi` walks (134-136) after it has cleared the tracker; the `RuntimeError` leaves the gate uncleared, and the frame, refused for want of a ROI, does not reach `retain` |

Two more hold: `tlc -config MCTrackerDirect.cfg ObjectStateTracker` (the lifecycle and
`AbandonmentIsReported` without a gate, two objects) and
`tlc -config MCRuleEngineDirect.cfg RuleEngine` (the engine without a gate and without a
required ROI, as deployed).

## 7. Abstractions and what is left out

- In `RuleEngine` the body of `update` for one object is one step; within it the thread
  holds the track and writes only to it, so a clear in its middle has the effect of one
  before or after.  A frame and an `update_roi` take no time.  A closing event that an
  `Abort` loses counts as published for `AlertLifecycle`: the ROI command that causes the
  exception withdraws the alerts anyway.  `published` there is the list being built.
  What a frame does before it reaches the tracker, the walks over the vehicles, persons and
  boxes, is one stretch in which it may fail or make `update_roi` fail.  Ids are uuid4: the
  model reuses an id after its track is gone, but not one `update_roi` has just taken from
  the trackers of boxes, as long as samples may remain under it (`retired`).
- In `ProcessFrame` a frame is one step (its interleaving is `RuleEngine`'s subject), a
  place is a point of a line, distances stand for IoU, coverage and pixels alike, and one
  departure proposal a frame is considered.  What the detector and the background model
  find is chosen among the things that lie in the scene; what is reported is what the
  detector's tracker carries, which may have gone.  Of its boxes `ProcessFrame` has the
  position and the time since they were last seen; whether a template is searched for,
  which retention applies and which of two overlapping boxes is shown is any choice the
  evidence could bring about.  The evidence itself, and false detections, are the subject of
  `DetectedObjects`.  Vehicles are left to `VehicleEvidence`.
- In `ObjectStateTracker` itself the owner and vehicle hints of a frame and the owner
  lookup are any value.
- `DetectedObjects` leaves the choice between tracks of equal hits open (the code
  compares confidences) and lets two boxes a frame compete.
- The filter-disabled path of the vehicle filter is only exercised by
  `MCVehicleDriveThrough.cfg`.
- A camera list in `Supervisor` is its signature.  `Service` normalises lists, with the
  settings of an active camera as one value; how `camera_contract.py` reads the JSON
  fields of a camera is not modelled, nor that this reading may raise after the registry was
  replaced (the list is then known to the registry and not to the main loop).  A camera
  without a code is taken for active under its id (`camera_contract.py:47-50`) and left out
  of the registry (`mqtt_client.py:138-141`); the lists of `Service` have a code for every
  camera.
- Zone messages are well-formed.  A zone without a list of points makes the handler raise
  before it changes anything (`cmd_handlers.py:41-42`); such a message is retained like any
  other (`mqtt_client.py:232-234`), is answered with an error, and brings no zones to a
  later pipeline either.  `NoZonesLost` and `ZonesInForce` are about messages that can be
  applied.
- Type invariants of `ConfigLoader`, `VehicleEvidence`, `PersonDeparture`,
  `DetectedObjects`, `MqttAodClient`, `RuleEngine` and `ProcessFrame` are definitions of
  their modules and hold in the runs' instances; the runs spend their time on the others.
  Those of `PersonDeparture`, `DetectedObjects`, `MqttAodClient` and `ProcessFrame` are proved.
- A clock that jumps (`time.time` is the wall clock) is not modelled; nothing in the code
  handles one.
- A zone message that arrives while the module is disabled for its camera is dropped in
  the model as in the code.
- Not modelled: image analysis and networks (numeric; their answers are inputs), the
  GStreamer graph and paho (external libraries), rendering of messages, the unit tests.
- The program is the Python code under `src/src`.  The C and C++ files of the repository
  are not part of it: `src/ds_includes` holds NVIDIA's DeepStream SDK headers (and
  CivetWeb's), and `src/models/DeepStream-Yolo` the DeepStream-Yolo plugin, which decodes
  network output inside GStreamer.  They are vendored, keep no state of this system, and
  no definition maps to them.

## 8. Plan

Done: the state tracker with its abstract lifecycle, the gate, the engine with its threads
interleaved inside `update` and the frame handler, `process_frame` from the scene to the
tracker, the supervisor and the MQTT client with their composition, the loader, the
vehicles, the departure detector and the detected object tracker.  Proved: every safety
property the runs check, with the refinements of `AlertLifecycle` by the state tracker and
by the engine, of the state tracker by `process_frame`, and of the supervisor and the client by
the service.

Next: the remaining `TypeOK` as theorems; the three hazards of `PROJECT.json` that no
property covers, two about two tracks of one object and one about the boxes that legacy mode
feeds back (section 6 shows all three); for the blob tracker, that two boxes
of one frame never get one id.
