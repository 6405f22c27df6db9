------------------------- MODULE TargetGateProtocol -------------------------
(***************************************************************************)
(* The target gate under the protocol its caller follows                   *)
(* (logic/abandonment_rules.py:545-572): evaluate any pending object in    *)
(* any frame, forget it on a verdict, retain the live ids after a frame,   *)
(* clear everything when the ROI changes.                                  *)
(*                                                                         *)
(* taken is the history the verdicts are judged by: the usable predictions *)
(* made for an object, in order, since it was last forgotten.              *)
(***************************************************************************)
EXTENDS TemporalTargetGate, Sequences, FiniteSets

VARIABLES
    taken,    \* history: sequence of BOOLEAN predictions per object
    verdict   \* history: the latest verdict and the predictions behind it

protocolVars == <<vars, taken, verdict>>

Undecided == [decision |-> "none", on |-> <<>>]

ProtocolInit ==
    /\ Init
    /\ taken = [o \in Objects |-> <<>>]
    /\ verdict = Undecided

TimePasses ==
    /\ Tick
    /\ UNCHANGED <<taken, verdict>>

Usable(o, image, prediction) == Due(o, image) /\ prediction # None

Evaluate(o, image, prediction) ==
    LET decision == Decision(o, image, prediction)
        now == IF Usable(o, image, prediction) THEN Append(taken[o], prediction) ELSE taken[o]
    IN /\ IF decision = "pending" THEN Record(o, image, prediction) ELSE Forget(o)
       /\ taken' = [taken EXCEPT ![o] = IF decision = "pending" THEN now ELSE <<>>]
       /\ verdict' = IF decision = "pending" THEN verdict
                     ELSE [decision |-> decision, on |-> now]

(* A finished frame: the rule engine retains the ids of live tracks.       *)
RetainLive(active) ==
    /\ Retain(active)
    /\ taken' = [o \in Objects |-> IF o \in active THEN taken[o] ELSE <<>>]
    /\ UNCHANGED verdict

ClearAll ==
    /\ Clear
    /\ taken' = [o \in Objects |-> <<>>]
    /\ UNCHANGED verdict

ProtocolNext ==
    \/ TimePasses
    \/ \E o \in Objects, image \in BOOLEAN, prediction \in {TRUE, FALSE, None} :
          Evaluate(o, image, prediction)
    \/ \E active \in SUBSET Objects : RetainLive(active)
    \/ ClearAll

ProtocolSpec == ProtocolInit /\ [][ProtocolNext]_protocolVars

-----------------------------------------------------------------------------
(* The reference: what a list of predictions decides *)

Votes(seq, value) == Cardinality({i \in 1..Len(seq) : seq[i] = value})

Consensus(seq) ==
    /\ Votes(seq, TRUE) >= Confirmations
    /\ Votes(seq, TRUE) * RatioDen >= RatioNum * Len(seq)

Continuations(seq) == UNION {[1..n -> BOOLEAN] : n \in 0..(MaxSamples - Len(seq))}

CanStillAgree(seq) == \E more \in Continuations(seq) : Consensus(seq \o more)

-----------------------------------------------------------------------------
(* Properties *)

TypeOK ==
    /\ samples \in [Objects -> Tally]
    /\ last_sample_at \in [Objects -> 0..Horizon \cup {None}]

(* An accepted object had its consensus, over exactly the predictions made *)
(* since it was last forgotten, and not one prediction earlier: the alert  *)
(* is raised by the sample that establishes the agreement.                 *)
AcceptedByConsensus ==
    verdict.decision = "accept" =>
        /\ Consensus(verdict.on)
        /\ \A n \in 0..(Len(verdict.on) - 1) : ~Consensus(SubSeq(verdict.on, 1, n))

(* A rejected object ends its track in IGNORED for good, so giving up      *)
(* before max_samples must lose nothing: no further samples could have     *)
(* brought agreement.                                                      *)
RejectedWithoutHope ==
    verdict.decision = "reject" => ~CanStillAgree(verdict.on)

(* With the confirmations and the ratio the deployment configures, the     *)
(* gate does not go on sampling (and does not keep the object pending)     *)
(* when no further samples could bring agreement.                          *)
NoIdleSampling == \A o \in Objects : CanStillAgree(taken[o])

(* retain, forget and clear leave no sample of an earlier life of the id.  *)
SamplesAreThisLife ==
    \A o \in Objects : /\ samples[o].positives = Votes(taken[o], TRUE)
                       /\ samples[o].negatives = Votes(taken[o], FALSE)

-----------------------------------------------------------------------------
(* The inductive invariant behind the theorems *)

(* What is kept between two samples is undecided: it is neither enough to  *)
(* accept nor enough to give up.                                           *)
OpenTally(s) == ~Accepts(s) /\ ~Hopeless(s)

GateInv ==
    /\ TypeOK
    /\ \A o \in Objects : OpenTally(samples[o])

(* The predictions behind an open tally: as many as it counts, and at no   *)
(* point enough to accept.                                                 *)
NeverAgreed(seq) == \A n \in 0..Len(seq) : ~Consensus(SubSeq(seq, 1, n))

HistoryInv ==
    /\ taken \in [Objects -> Seq(BOOLEAN)]
    /\ SamplesAreThisLife
    /\ \A o \in Objects : Total(samples[o]) = Len(taken[o]) /\ NeverAgreed(taken[o])

=============================================================================
