------------------------- MODULE TemporalTargetGate -------------------------
(***************************************************************************)
(* The semantic gate of src/src/detection/target_verifier.py: an object is *)
(* accepted as a target only by agreement over several sampled crops.      *)
(*                                                                         *)
(* A sample list is held as its two counts, which is all evaluate looks at *)
(* besides the label it reports; an object without an entry in _samples    *)
(* has none of either.  Timestamps are ages, as in ObjectStateTracker.     *)
(***************************************************************************)
EXTENDS Naturals

CONSTANTS
    Objects,
    None,
    Confirmations,   \* positives needed
    MaxSamples,      \* samples taken at most
    RatioNum,        \* min_positive_ratio = RatioNum / RatioDen
    RatioDen,
    SampleInterval,  \* sample_interval_seconds
    Horizon          \* ages saturate here

(* __init__ raises max_samples to confirmations when it is smaller.        *)
ASSUME GateAssumption ==
    /\ Confirmations \in Nat \ {0}
    /\ MaxSamples \in Nat /\ MaxSamples >= Confirmations
    /\ RatioNum \in Nat /\ RatioDen \in Nat \ {0}
    /\ Horizon \in Nat /\ SampleInterval \in 0..Horizon
    /\ None \notin Nat \cup BOOLEAN

VARIABLES
    samples,         \* self._samples
    last_sample_at   \* self._last_sample_at

vars == <<samples, last_sample_at>>

NoSamples == [positives |-> 0, negatives |-> 0]

Total(s) == s.positives + s.negatives

Tally == {s \in [positives : 0..MaxSamples, negatives : 0..MaxSamples] : Total(s) <= MaxSamples}

Init ==
    /\ samples = [o \in Objects |-> NoSamples]
    /\ last_sample_at = [o \in Objects |-> None]

Tick ==
    /\ last_sample_at' = [o \in Objects |->
                            IF last_sample_at[o] = None THEN None
                            ELSE IF last_sample_at[o] < Horizon THEN last_sample_at[o] + 1
                            ELSE Horizon]
    /\ UNCHANGED samples

-----------------------------------------------------------------------------
(* evaluate *)

(* No frame, or too soon after the last sample: nothing is recorded.       *)
Due(o, image) ==
    /\ image
    /\ last_sample_at[o] = None \/ last_sample_at[o] >= SampleInterval

(* Mutant of Counted: an unavailable prediction counts as a target.        *)
CountedUnknownAsTarget(s, prediction) ==
    IF prediction = FALSE THEN [s EXCEPT !.negatives = @ + 1]
    ELSE [s EXCEPT !.positives = @ + 1]

(* Mutant of Counted: rejected crops leave no trace.                       *)
CountedPositivesOnly(s, prediction) ==
    IF prediction = TRUE THEN [s EXCEPT !.positives = @ + 1] ELSE s

Counted(s, prediction) ==
    IF prediction = TRUE THEN [s EXCEPT !.positives = @ + 1]
    ELSE IF prediction = FALSE THEN [s EXCEPT !.negatives = @ + 1]
    ELSE s

(* Mutant of Accepts: the samples are counted instead of the positives.    *)
AcceptsBySampleCount(s) ==
    /\ Total(s) >= Confirmations
    /\ s.positives * RatioDen >= RatioNum * Total(s)

Accepts(s) ==
    /\ s.positives >= Confirmations
    /\ s.positives * RatioDen >= RatioNum * Total(s)

(* Mutant of Hopeless: gives up while the last samples could still decide. *)
HopelessTooEarly(s) ==
    \/ Total(s) >= MaxSamples
    \/ s.positives + MaxSamples <= Confirmations + Total(s)

(* Mutant of Hopeless: only max_samples ends the sampling.                 *)
HopelessAtTheEnd(s) == Total(s) >= MaxSamples

Hopeless(s) ==
    \/ Total(s) >= MaxSamples
    \/ s.positives + MaxSamples < Confirmations + Total(s)

Decision(o, image, prediction) ==
    LET s == Counted(samples[o], prediction)
    IN IF ~Due(o, image) \/ prediction = None THEN "pending"
       ELSE IF Accepts(s) THEN "accept"
       ELSE IF Hopeless(s) THEN "reject"
       ELSE "pending"

(* The state evaluate leaves when its decision is pending.  An unavailable *)
(* prediction (None) spends the interval but adds no sample.               *)
Record(o, image, prediction) ==
    IF Due(o, image)
    THEN /\ samples' = [samples EXCEPT ![o] = Counted(@, prediction)]
         /\ last_sample_at' = [last_sample_at EXCEPT ![o] = 0]
    ELSE UNCHANGED vars

-----------------------------------------------------------------------------
(* forget, clear, retain *)

(* Mutant of Forget: only the sample time is dropped.                      *)
ForgetKeepsSamples(o) ==
    /\ UNCHANGED samples
    /\ last_sample_at' = [last_sample_at EXCEPT ![o] = None]

Forget(o) ==
    /\ samples' = [samples EXCEPT ![o] = NoSamples]
    /\ last_sample_at' = [last_sample_at EXCEPT ![o] = None]

Clear == samples' = [o \in Objects |-> NoSamples] /\ last_sample_at' = [o \in Objects |-> None]

(* Mutant of Retain: nothing is dropped.                                   *)
RetainEverything(active) == UNCHANGED vars

(* Only ids with an entry in _samples are visited: the sample time of an   *)
(* object that never had a usable prediction stays behind.                 *)
Retain(active) ==
    LET dropped == {o \in Objects : samples[o] # NoSamples} \ active
    IN /\ samples' = [o \in Objects |-> IF o \in dropped THEN NoSamples ELSE samples[o]]
       /\ last_sample_at' = [o \in Objects |-> IF o \in dropped THEN None ELSE last_sample_at[o]]

=============================================================================
