---------------------- MODULE TargetGateProtocol_proofs ----------------------
(***************************************************************************)
(* Proofs about the target gate, for any number of objects, confirmations  *)
(* and samples and for any ratio and interval.                             *)
(***************************************************************************)
EXTENDS TargetGateProtocol, SequenceTheorems, FiniteSetTheorems, TLAPS

-----------------------------------------------------------------------------
(* Tallies *)

LEMMA NoSamplesOpen == NoSamples \in Tally /\ OpenTally(NoSamples)
BY GateAssumption DEF NoSamples, Tally, Total, OpenTally, Accepts, Hopeless

LEMMA TallyCounts ==
    ASSUME NEW s \in Tally
    PROVE  s.positives \in Nat /\ s.negatives \in Nat /\ Total(s) = s.positives + s.negatives
BY GateAssumption DEF Tally, Total

(* One more usable prediction fits: an open tally has room for it.         *)
LEMMA CountedTally ==
    ASSUME NEW s \in Tally, OpenTally(s), NEW prediction \in {TRUE, FALSE, None}
    PROVE  Counted(s, prediction) \in Tally
<1>1. Total(s) < MaxSamples
  BY GateAssumption DEF OpenTally, Hopeless, Tally, Total
<1>2. CASE prediction = TRUE
  <2>1. Counted(s, prediction) = [s EXCEPT !.positives = @ + 1]
    BY <1>2 DEF Counted
  <2> QED BY <1>1, <2>1, GateAssumption DEF Tally, Total
<1>3. CASE prediction = FALSE
  <2>1. Counted(s, prediction) = [s EXCEPT !.negatives = @ + 1]
    BY <1>3 DEF Counted
  <2> QED BY <1>1, <2>1, GateAssumption DEF Tally, Total
<1>4. CASE prediction = None /\ prediction \notin BOOLEAN
  BY <1>4 DEF Counted
<1> QED BY <1>2, <1>3, <1>4

(* What evaluate keeps after a pending decision is open again.             *)
LEMMA PendingOpen ==
    ASSUME NEW o \in Objects, NEW image \in BOOLEAN, NEW prediction \in {TRUE, FALSE, None},
           Due(o, image), OpenTally(samples[o]),
           Decision(o, image, prediction) = "pending"
    PROVE  OpenTally(Counted(samples[o], prediction))
<1>1. CASE prediction = None
  <2>1. prediction # TRUE /\ prediction # FALSE
    BY <1>1, GateAssumption
  <2> QED BY <2>1 DEF Counted
<1>2. CASE prediction # None
  BY <1>2 DEF Decision, OpenTally
<1> QED BY <1>1, <1>2

-----------------------------------------------------------------------------
(* The actions *)

LEMMA InitGateInv == ProtocolInit => GateInv
BY NoSamplesOpen DEF ProtocolInit, Init, GateInv, TypeOK

LEMMA TickGateInv == GateInv /\ TimePasses => GateInv'
<1> SUFFICES ASSUME GateInv, TimePasses PROVE GateInv'
  OBVIOUS
<1>1. samples' = samples
  BY DEF TimePasses, Tick
<1>2. last_sample_at' \in [Objects -> 0..Horizon \cup {None}]
  BY GateAssumption DEF TimePasses, Tick, GateInv, TypeOK
<1> QED BY <1>1, <1>2 DEF GateInv, TypeOK

LEMMA ForgetGateInv ==
    ASSUME NEW o \in Objects
    PROVE  GateInv /\ Forget(o) => GateInv'
BY NoSamplesOpen DEF Forget, GateInv, TypeOK

LEMMA EvaluateGateInv ==
    ASSUME NEW o \in Objects, NEW image \in BOOLEAN, NEW prediction \in {TRUE, FALSE, None}
    PROVE  GateInv /\ Evaluate(o, image, prediction) => GateInv'
<1> SUFFICES ASSUME GateInv, Evaluate(o, image, prediction) PROVE GateInv'
  OBVIOUS
<1>1. CASE Decision(o, image, prediction) # "pending"
  BY <1>1, ForgetGateInv DEF Evaluate
<1>2. CASE Decision(o, image, prediction) = "pending" /\ ~Due(o, image)
  <2>1. UNCHANGED vars
    BY <1>2 DEF Evaluate, Record
  <2> QED BY <2>1 DEF vars, GateInv, TypeOK
<1>3. CASE Decision(o, image, prediction) = "pending" /\ Due(o, image)
  <2> DEFINE s == Counted(samples[o], prediction)
  <2>1. /\ samples' = [samples EXCEPT ![o] = s]
        /\ last_sample_at' = [last_sample_at EXCEPT ![o] = 0]
    BY <1>3 DEF Evaluate, Record
  <2>2. s \in Tally /\ OpenTally(s)
    BY <1>3, CountedTally, PendingOpen DEF GateInv, TypeOK
  <2> HIDE DEF s
  <2>3. 0 \in 0..Horizon
    BY GateAssumption
  <2> QED BY <2>1, <2>2, <2>3 DEF GateInv, TypeOK
<1> QED BY <1>1, <1>2, <1>3

LEMMA RetainGateInv ==
    ASSUME NEW active \in SUBSET Objects
    PROVE  GateInv /\ RetainLive(active) => GateInv'
BY NoSamplesOpen DEF RetainLive, Retain, GateInv, TypeOK

LEMMA ClearGateInv == GateInv /\ ClearAll => GateInv'
BY NoSamplesOpen DEF ClearAll, Clear, GateInv, TypeOK

-----------------------------------------------------------------------------
(* Theorems *)

(* Between two samples no object is kept whose samples already decide: the *)
(* sample that brings agreement, or rules it out, is the last one taken,   *)
(* and max_samples bounds what is stored.                                  *)
THEOREM GateInvariance == ProtocolSpec => []GateInv
<1>1. GateInv /\ [ProtocolNext]_protocolVars => GateInv'
  <2> SUFFICES ASSUME GateInv, [ProtocolNext]_protocolVars PROVE GateInv'
    OBVIOUS
  <2>1. CASE TimePasses
    BY <2>1, TickGateInv
  <2>2. ASSUME NEW o \in Objects, NEW image \in BOOLEAN, NEW prediction \in {TRUE, FALSE, None},
               Evaluate(o, image, prediction)
        PROVE  GateInv'
    BY <2>2, EvaluateGateInv
  <2>3. ASSUME NEW active \in SUBSET Objects, RetainLive(active)
        PROVE  GateInv'
    BY <2>3, RetainGateInv
  <2>4. CASE ClearAll
    BY <2>4, ClearGateInv
  <2>5. CASE UNCHANGED protocolVars
    BY <2>5 DEF protocolVars, vars, GateInv, TypeOK
  <2> QED BY <2>1, <2>2, <2>3, <2>4, <2>5 DEF ProtocolNext
<1> QED BY <1>1, InitGateInv, PTL DEF ProtocolSpec

(* Giving up early is sound whatever the configuration: a tally evaluate   *)
(* rejects stays short of acceptance through every further prediction it   *)
(* could still have taken, in any mix.                                     *)
THEOREM RejectionLosesNothing ==
    ASSUME NEW s \in Tally, Hopeless(s), ~Accepts(s),
           NEW p \in Nat, NEW n \in Nat, Total(s) + p + n <= MaxSamples
    PROVE  ~Accepts([positives |-> s.positives + p, negatives |-> s.negatives + n])
<1> DEFINE later == [positives |-> s.positives + p, negatives |-> s.negatives + n]
<1>1. s.positives \in Nat /\ s.negatives \in Nat /\ Total(s) = s.positives + s.negatives
  BY GateAssumption DEF Tally, Total
<1>2. CASE Total(s) >= MaxSamples
  <2>1. p = 0 /\ n = 0
    BY <1>1, <1>2, GateAssumption
  <2>2. later = s
    BY <2>1, <1>1 DEF Tally
  <2> QED BY <2>2
<1>3. CASE s.positives + MaxSamples < Confirmations + Total(s)
  <2>1. ~(later.positives >= Confirmations)
    BY <1>1, <1>3, GateAssumption
  <2> QED BY <2>1 DEF Accepts
<1> QED BY <1>2, <1>3 DEF Hopeless

-----------------------------------------------------------------------------
(* Votes: what the predictions of a sequence add up to *)

Voters(seq, value) == {i \in 1..Len(seq) : seq[i] = value}

LEMMA VotersFinite ==
    ASSUME NEW seq \in Seq(BOOLEAN), NEW value
    PROVE  /\ IsFiniteSet(Voters(seq, value))
           /\ Votes(seq, value) = Cardinality(Voters(seq, value))
           /\ Votes(seq, value) \in Nat
<1>1. IsFiniteSet(1..Len(seq))
  BY LenProperties, FS_Interval
<1>2. Voters(seq, value) \in SUBSET (1..Len(seq))
  BY DEF Voters
<1>3. IsFiniteSet(Voters(seq, value))
  BY <1>1, <1>2, FS_Subset
<1>4. Votes(seq, value) = Cardinality(Voters(seq, value))
  BY DEF Votes, Voters
<1> QED BY <1>3, <1>4, FS_CardinalityType

LEMMA NoVotes ==
    ASSUME NEW value
    PROVE  Votes(<<>>, value) = 0
<1>1. {i \in 1..Len(<<>>) : (<<>>)[i] = value} = {}
  BY EmptySeq
<1> QED BY <1>1, FS_EmptySet DEF Votes

(* One more prediction is one more vote for its value.                     *)
LEMMA VotesAppended ==
    ASSUME NEW seq \in Seq(BOOLEAN), NEW new \in BOOLEAN, NEW value \in BOOLEAN
    PROVE  Votes(Append(seq, new), value) =
             IF new = value THEN Votes(seq, value) + 1 ELSE Votes(seq, value)
<1> DEFINE longer == Append(seq, new)
<1>1. /\ Len(seq) \in Nat
      /\ longer \in Seq(BOOLEAN)
      /\ Len(longer) = Len(seq) + 1
      /\ \A i \in 1..Len(seq) : longer[i] = seq[i]
      /\ longer[Len(seq) + 1] = new
  BY LenProperties, AppendProperties
<1> HIDE DEF longer
<1>2. Len(seq) + 1 \notin Voters(seq, value)
  BY <1>1 DEF Voters
<1>3. CASE new = value
  <2>1. Voters(longer, value) = Voters(seq, value) \cup {Len(seq) + 1}
    BY <1>1, <1>3 DEF Voters
  <2>2. Cardinality(Voters(longer, value)) = Cardinality(Voters(seq, value)) + 1
    BY <2>1, <1>2, VotersFinite, FS_AddElement
  <2> QED BY <2>2, <1>1, <1>3, VotersFinite DEF longer
<1>4. CASE new # value
  <2>1. Voters(longer, value) = Voters(seq, value)
    BY <1>1, <1>4 DEF Voters
  <2> QED BY <2>1, <1>1, <1>4, VotersFinite DEF longer
<1> QED BY <1>3, <1>4

(* A continuation adds at most a vote a prediction, and exactly that if    *)
(* all of it agrees.                                                       *)
LEMMA VotesContinued ==
    ASSUME NEW seq \in Seq(BOOLEAN), NEW more \in Seq(BOOLEAN), NEW value \in BOOLEAN
    PROVE  /\ Votes(seq \o more, value) <= Votes(seq, value) + Len(more)
           /\ (\A i \in 1..Len(more) : more[i] = value)
                  => Votes(seq \o more, value) = Votes(seq, value) + Len(more)
<1> DEFINE longer == seq \o more
           added == (Len(seq) + 1)..(Len(seq) + Len(more))
<1>1. /\ Len(seq) \in Nat /\ Len(more) \in Nat
      /\ longer \in Seq(BOOLEAN)
      /\ Len(longer) = Len(seq) + Len(more)
      /\ \A i \in 1..Len(seq) + Len(more) :
            longer[i] = IF i <= Len(seq) THEN seq[i] ELSE more[i - Len(seq)]
  BY LenProperties, ConcatProperties
<1>2. IsFiniteSet(added) /\ Cardinality(added) = Len(more)
  <2> DEFINE a == Len(seq) + 1
             b == Len(seq) + Len(more)
  <2>1. /\ a \in Int /\ b \in Int
        /\ (IF a > b THEN 0 ELSE b - a + 1) = Len(more)
    BY <1>1
  <2> HIDE DEF a, b
  <2>2. IsFiniteSet(a..b) /\ Cardinality(a..b) = Len(more)
    BY <2>1, FS_Interval
  <2> QED BY <2>2 DEF a, b
<1>3. Voters(seq, value) \cap added = {}
  BY <1>1 DEF Voters
<1> DEFINE both == Voters(seq, value) \cup added
<1>4. IsFiniteSet(both) /\ Cardinality(both) = Votes(seq, value) + Len(more)
  <2>1. /\ IsFiniteSet(both)
        /\ Cardinality(both) = Cardinality(Voters(seq, value)) + Cardinality(added)
                                  - Cardinality(Voters(seq, value) \cap added)
    BY <1>2, VotersFinite, FS_Union
  <2>2. Cardinality(Voters(seq, value) \cap added) = 0
    BY <1>3, FS_EmptySet
  <2>3. /\ Votes(seq, value) = Cardinality(Voters(seq, value))
        /\ Votes(seq, value) \in Nat
    BY VotersFinite
  <2> HIDE DEF both, added
  <2> QED BY <2>1, <2>2, <2>3, <1>1, <1>2
<1>5. Voters(longer, value) \subseteq both
  BY <1>1 DEF Voters
<1>6. ASSUME \A i \in 1..Len(more) : more[i] = value
      PROVE  Voters(longer, value) = both
  <2>1. \A i \in added : i \in 1..Len(longer) /\ longer[i] = more[i - Len(seq)]
                          /\ i - Len(seq) \in 1..Len(more)
    BY <1>1
  <2>2. \A i \in Voters(seq, value) : i \in 1..Len(longer) /\ longer[i] = value
    BY <1>1 DEF Voters
  <2> QED BY <2>1, <2>2, <1>5, <1>6 DEF Voters
<1> HIDE DEF longer, both
<1>7. Votes(longer, value) = Cardinality(Voters(longer, value))
  BY <1>1, VotersFinite
<1>8. Cardinality(Voters(longer, value)) <= Cardinality(both)
  BY <1>4, <1>5, FS_Subset
<1> QED BY <1>4, <1>6, <1>7, <1>8 DEF longer

-----------------------------------------------------------------------------
(* The history behind the tallies *)

(* The counts evaluate looks at tell of the predictions all it needs.      *)
LEMMA TallySuffices ==
    ASSUME NEW seq \in Seq(BOOLEAN), NEW s,
           s.positives = Votes(seq, TRUE), Total(s) = Len(seq)
    PROVE  Consensus(seq) <=> Accepts(s)
BY DEF Consensus, Accepts

(* One more usable prediction is counted where it is remembered.           *)
LEMMA CountedAppended ==
    ASSUME NEW seq \in Seq(BOOLEAN), NEW s \in Tally, NEW new \in BOOLEAN,
           s.positives = Votes(seq, TRUE), s.negatives = Votes(seq, FALSE),
           Total(s) = Len(seq)
    PROVE  LET longer == Append(seq, new)
               counted == Counted(s, new)
           IN /\ counted.positives = Votes(longer, TRUE)
              /\ counted.negatives = Votes(longer, FALSE)
              /\ Total(counted) = Len(longer)
<1> DEFINE longer == Append(seq, new)
           counted == Counted(s, new)
<1>1. /\ Len(seq) \in Nat
      /\ Len(longer) = Len(seq) + 1
  BY LenProperties, AppendProperties
<1>2. s.positives \in Nat /\ s.negatives \in Nat /\ Total(s) = s.positives + s.negatives
  BY TallyCounts
<1>3. CASE new = TRUE
  <2>1. counted.positives = s.positives + 1 /\ counted.negatives = s.negatives
    BY <1>3 DEF Counted, Tally
  <2>2. Votes(longer, TRUE) = Votes(seq, TRUE) + 1 /\ Votes(longer, FALSE) = Votes(seq, FALSE)
    <3>1. new # FALSE
      BY <1>3
    <3> QED BY <1>3, <3>1, VotesAppended
  <2> HIDE DEF longer, counted
  <2>3. Total(counted) = counted.positives + counted.negatives
    BY DEF Total
  <2>4. Total(counted) = Total(s) + 1
    BY ONLY <2>1, <1>2, <2>3
  <2>5. /\ counted.positives = Votes(longer, TRUE)
        /\ counted.negatives = Votes(longer, FALSE)
    BY ONLY <2>1, <2>2, s.positives = Votes(seq, TRUE), s.negatives = Votes(seq, FALSE)
  <2>6. Total(counted) = Len(longer)
    BY ONLY <2>4, <1>1, Total(s) = Len(seq)
  <2> QED BY <2>5, <2>6 DEF longer, counted
<1>4. CASE new = FALSE
  <2>1. counted.positives = s.positives /\ counted.negatives = s.negatives + 1
    BY <1>4 DEF Counted, Tally
  <2>2. Votes(longer, TRUE) = Votes(seq, TRUE) /\ Votes(longer, FALSE) = Votes(seq, FALSE) + 1
    <3>1. new # TRUE
      BY <1>4
    <3> QED BY <1>4, <3>1, VotesAppended
  <2> HIDE DEF longer, counted
  <2>3. Total(counted) = counted.positives + counted.negatives
    BY DEF Total
  <2>4. Total(counted) = Total(s) + 1
    BY ONLY <2>1, <1>2, <2>3
  <2>5. /\ counted.positives = Votes(longer, TRUE)
        /\ counted.negatives = Votes(longer, FALSE)
    BY ONLY <2>1, <2>2, s.positives = Votes(seq, TRUE), s.negatives = Votes(seq, FALSE)
  <2>6. Total(counted) = Len(longer)
    BY ONLY <2>4, <1>1, Total(s) = Len(seq)
  <2> QED BY <2>5, <2>6 DEF longer, counted
<1> QED BY <1>3, <1>4

LEMMA PrefixOfAppended ==
    ASSUME NEW seq \in Seq(BOOLEAN), NEW new \in BOOLEAN, NEW n \in 0..Len(seq)
    PROVE  SubSeq(Append(seq, new), 1, n) = SubSeq(seq, 1, n)
<1> DEFINE longer == Append(seq, new)
<1>1. /\ Len(seq) \in Nat
      /\ longer \in Seq(BOOLEAN)
      /\ Len(longer) = Len(seq) + 1
      /\ \A i \in 1..Len(seq) : longer[i] = seq[i] /\ seq[i] \in BOOLEAN
  BY LenProperties, AppendProperties, ElementOfSeq
<1> HIDE DEF longer
<1>2. \A i \in 1..n : seq[i] \in BOOLEAN /\ longer[i] = seq[i]
  BY <1>1
<1>3. n \in Int /\ 1 \in Int
  BY <1>1
<1> DEFINE p == SubSeq(seq, 1, n)
           q == SubSeq(longer, 1, n)
<1>4. /\ p \in Seq(BOOLEAN)
      /\ Len(p) = IF 1 <= n THEN n - 1 + 1 ELSE 0
      /\ \A i \in 1..n - 1 + 1 : p[i] = seq[1 + i - 1]
  BY <1>2, <1>3, SubSeqProperties
<1>5. /\ q \in Seq(BOOLEAN)
      /\ Len(q) = IF 1 <= n THEN n - 1 + 1 ELSE 0
      /\ \A i \in 1..n - 1 + 1 : q[i] = longer[1 + i - 1]
  BY <1>2, <1>3, SubSeqProperties
<1> HIDE DEF p, q
<1>6. Len(p) = Len(q) /\ Len(p) = n
  BY <1>1, <1>4, <1>5
<1>7. \A i \in 1..n : p[i] = seq[i] /\ q[i] = longer[i]
  BY <1>1, <1>4, <1>5
<1>8. \A i \in 1..Len(p) : p[i] = q[i]
  BY <1>2, <1>6, <1>7
<1>9. p = q
  BY <1>4, <1>5, <1>6, <1>8, SeqEqual
<1> QED BY <1>9 DEF p, q, longer

(* A tally that stays open extends a history without agreement.            *)
LEMMA StillNoAgreement ==
    ASSUME NEW seq \in Seq(BOOLEAN), NEW new \in BOOLEAN, NeverAgreed(seq),
           ~Consensus(Append(seq, new))
    PROVE  NeverAgreed(Append(seq, new))
<1> DEFINE longer == Append(seq, new)
<1>1. /\ Len(seq) \in Nat
      /\ longer \in Seq(BOOLEAN)
      /\ Len(longer) = Len(seq) + 1
  BY LenProperties, AppendProperties
<1>2. SubSeq(longer, 1, Len(longer)) = longer
  BY <1>1, SubSeqFull
<1>3. \A n \in 0..Len(seq) : ~Consensus(SubSeq(longer, 1, n))
  BY PrefixOfAppended DEF NeverAgreed
<1> HIDE DEF longer
<1>4. \A n \in 0..Len(longer) : n \in 0..Len(seq) \/ n = Len(longer)
  BY <1>1
<1>5. ~Consensus(longer)
  BY DEF longer
<1>6. NeverAgreed(longer)
  BY <1>2, <1>3, <1>4, <1>5 DEF NeverAgreed
<1> QED BY <1>6 DEF longer

LEMMA NothingAgreed ==
    /\ <<>> \in Seq(BOOLEAN)
    /\ NeverAgreed(<<>>)
    /\ NoSamples.positives = Votes(<<>>, TRUE)
    /\ NoSamples.negatives = Votes(<<>>, FALSE)
    /\ Total(NoSamples) = Len(<<>>)
<1>1. <<>> \in Seq(BOOLEAN) /\ Len(<<>>) = 0
  BY EmptySeq
<1>2. Votes(<<>>, TRUE) = 0 /\ Votes(<<>>, FALSE) = 0
  BY NoVotes
<1>3. ~Consensus(<<>>)
  <2>1. ~(0 >= Confirmations)
    BY GateAssumption
  <2> QED BY <1>2, <2>1, Zenon DEF Consensus
<1>4. SubSeq(<<>>, 1, 0) = <<>>
  BY SubSeqEmpty
<1>5. \A n \in 0..0 : n = 0
  OBVIOUS
<1>6. NeverAgreed(<<>>)
  BY <1>1, <1>3, <1>4, <1>5 DEF NeverAgreed
<1>7. NoSamples.positives = 0 /\ NoSamples.negatives = 0 /\ Total(NoSamples) = 0
  BY DEF NoSamples, Total
<1> QED BY <1>1, <1>2, <1>6, <1>7, Zenon

-----------------------------------------------------------------------------
(* The actions keep the history *)

Matches(s, seq) ==
    /\ seq \in Seq(BOOLEAN)
    /\ s.positives = Votes(seq, TRUE)
    /\ s.negatives = Votes(seq, FALSE)
    /\ Total(s) = Len(seq)
    /\ NeverAgreed(seq)

LEMMA AllMatch ==
    HistoryInv <=> /\ taken \in [Objects -> Seq(BOOLEAN)]
                   /\ \A o \in Objects : Matches(samples[o], taken[o])
BY DEF HistoryInv, Matches, SamplesAreThisLife

LEMMA AllMatchNext ==
    ASSUME NEW new, taken' = [o \in Objects |-> new[o]],
           \A o \in Objects : Matches(samples[o]', new[o])
    PROVE  HistoryInv'
<1>1. \A o \in Objects : taken'[o] = new[o] /\ taken'[o] \in Seq(BOOLEAN)
  BY DEF Matches
<1>2. taken' \in [Objects -> Seq(BOOLEAN)]
  BY <1>1
<1> QED BY <1>1, <1>2 DEF HistoryInv, Matches, SamplesAreThisLife

LEMMA NothingMatches == Matches(NoSamples, <<>>)
BY NothingAgreed, Zenon DEF Matches

LEMMA InitHistory == ProtocolInit => HistoryInv
<1> SUFFICES ASSUME ProtocolInit PROVE HistoryInv
  OBVIOUS
<1>1. \A o \in Objects : samples[o] = NoSamples /\ taken[o] = <<>>
  BY DEF ProtocolInit, Init
<1>2. taken \in [Objects -> Seq(BOOLEAN)]
  BY NothingAgreed DEF ProtocolInit
<1> QED BY <1>1, <1>2, NothingMatches, AllMatch

(* What a usable prediction leaves: one longer, with the same counts.      *)
LEMMA UsedPrediction ==
    ASSUME GateInv, HistoryInv,
           NEW o \in Objects, NEW image \in BOOLEAN, NEW prediction \in {TRUE, FALSE, None},
           Usable(o, image, prediction)
    PROVE  LET now == Append(taken[o], prediction)
               s == Counted(samples[o], prediction)
           IN /\ prediction \in BOOLEAN
              /\ now \in Seq(BOOLEAN)
              /\ s.positives = Votes(now, TRUE)
              /\ s.negatives = Votes(now, FALSE)
              /\ Total(s) = Len(now)
              /\ Consensus(now) <=> Accepts(s)
<1>1. prediction \in BOOLEAN
  BY DEF Usable
<1>2. samples[o] \in Tally /\ Matches(samples[o], taken[o])
  BY AllMatch DEF GateInv, TypeOK
<1> DEFINE now == Append(taken[o], prediction)
           s == Counted(samples[o], prediction)
<1>3. now \in Seq(BOOLEAN)
  BY <1>1, <1>2, AppendProperties DEF Matches
<1>4. /\ s.positives = Votes(now, TRUE)
      /\ s.negatives = Votes(now, FALSE)
      /\ Total(s) = Len(now)
  BY <1>1, <1>2, CountedAppended DEF Matches
<1> HIDE DEF now, s
<1>5. Consensus(now) <=> Accepts(s)
  BY <1>3, <1>4, TallySuffices
<1> QED BY <1>1, <1>3, <1>4, <1>5 DEF now, s

LEMMA EvaluateHistory ==
    ASSUME NEW o \in Objects, NEW image \in BOOLEAN, NEW prediction \in {TRUE, FALSE, None}
    PROVE  GateInv /\ HistoryInv /\ Evaluate(o, image, prediction) => HistoryInv'
<1> SUFFICES ASSUME GateInv, HistoryInv, Evaluate(o, image, prediction) PROVE HistoryInv'
  OBVIOUS
<1> DEFINE kept == IF Decision(o, image, prediction) = "pending"
                   THEN IF Usable(o, image, prediction) THEN Append(taken[o], prediction)
                        ELSE taken[o]
                   ELSE <<>>
<1>1. taken' = [taken EXCEPT ![o] = kept]
  BY DEF Evaluate
<1>2. /\ taken \in [Objects -> Seq(BOOLEAN)]
      /\ \A p \in Objects : Matches(samples[p], taken[p])
  BY AllMatch
<1>3. /\ \A p \in Objects \ {o} : samples'[p] = samples[p]
      /\ Matches(samples'[o], kept)
  <2>0. samples \in [Objects -> Tally]
    BY DEF GateInv, TypeOK
  <2>1. CASE Decision(o, image, prediction) # "pending"
    <3>1. samples' = [samples EXCEPT ![o] = NoSamples] /\ kept = <<>>
      BY <2>1 DEF Evaluate, Forget
    <3> HIDE DEF kept
    <3> QED BY <2>0, <3>1, NothingMatches
  <2>2. CASE Decision(o, image, prediction) = "pending" /\ ~Due(o, image)
    <3>1. samples' = samples /\ kept = taken[o]
      BY <2>2 DEF Evaluate, Record, vars, Usable
    <3> HIDE DEF kept
    <3> QED BY <3>1, <1>2
  <2>3. CASE Decision(o, image, prediction) = "pending" /\ Due(o, image) /\ prediction = None
    <3>1. samples' = [samples EXCEPT ![o] = samples[o]] /\ kept = taken[o]
      BY <2>3, GateAssumption DEF Evaluate, Record, Usable, Counted
    <3> HIDE DEF kept
    <3> QED BY <2>0, <3>1, <1>2
  <2>4. CASE Decision(o, image, prediction) = "pending" /\ Usable(o, image, prediction)
    <3> DEFINE now == Append(taken[o], prediction)
               s == Counted(samples[o], prediction)
    <3>1. samples' = [samples EXCEPT ![o] = s] /\ kept = now
      BY <2>4 DEF Evaluate, Record, Usable
    <3>2. ~Accepts(s)
      BY <2>4 DEF Decision, Usable
    <3>3. /\ now \in Seq(BOOLEAN)
          /\ s.positives = Votes(now, TRUE)
          /\ s.negatives = Votes(now, FALSE)
          /\ Total(s) = Len(now)
          /\ ~Consensus(now)
          /\ prediction \in BOOLEAN
      BY <2>4, <3>2, UsedPrediction
    <3>4. NeverAgreed(now)
      BY <1>2, <3>3, StillNoAgreement DEF Matches
    <3> HIDE DEF now, s, kept
    <3>5. Matches(s, now)
      BY <3>3, <3>4 DEF Matches
    <3> QED BY <2>0, <3>1, <3>5
  <2> QED BY <2>1, <2>2, <2>3, <2>4 DEF Usable
<1> HIDE DEF kept
<1> DEFINE new == [p \in Objects |-> IF p = o THEN kept ELSE taken[p]]
<1>4. \A p \in Objects : Matches(samples'[p], new[p])
  BY <1>2, <1>3
<1>5. taken' = [p \in Objects |-> new[p]]
  BY <1>1, <1>2
<1> HIDE DEF new
<1> QED BY <1>4, <1>5, AllMatchNext

LEMMA RetainHistory ==
    ASSUME NEW active \in SUBSET Objects
    PROVE  HistoryInv /\ RetainLive(active) => HistoryInv'
<1> SUFFICES ASSUME HistoryInv, RetainLive(active) PROVE HistoryInv'
  OBVIOUS
<1> DEFINE new == [o \in Objects |-> IF o \in active THEN taken[o] ELSE <<>>]
<1>1. taken' = [o \in Objects |-> new[o]]
  BY DEF RetainLive
<1>2. ASSUME NEW o \in Objects PROVE Matches(samples'[o], new[o])
  <2>1. samples'[o] = IF o \in active THEN samples[o] ELSE NoSamples
    BY DEF RetainLive, Retain
  <2>2. new[o] = IF o \in active THEN taken[o] ELSE <<>>
    OBVIOUS
  <2> HIDE DEF new
  <2> QED BY <2>1, <2>2, NothingMatches, AllMatch
<1> HIDE DEF new
<1> QED BY <1>1, <1>2, AllMatchNext

LEMMA ClearHistory == HistoryInv /\ ClearAll => HistoryInv'
<1> SUFFICES ASSUME HistoryInv, ClearAll PROVE HistoryInv'
  OBVIOUS
<1> DEFINE new == [o \in Objects |-> <<>>]
<1>1. taken' = [o \in Objects |-> new[o]]
  BY DEF ClearAll
<1>2. \A o \in Objects : Matches(samples'[o], new[o])
  BY NothingMatches DEF ClearAll, Clear
<1> HIDE DEF new
<1> QED BY <1>1, <1>2, AllMatchNext

LEMMA SameHistory == HistoryInv /\ UNCHANGED <<samples, taken>> => HistoryInv'
BY DEF HistoryInv, SamplesAreThisLife

-----------------------------------------------------------------------------
(* The verdicts *)

(* After a rejected sample no continuation brings agreement: it is too     *)
(* short for the missing confirmations, or there is none.                  *)
LEMMA RejectedHopeless ==
    ASSUME NEW seq \in Seq(BOOLEAN), NEW s \in Tally,
           s.positives = Votes(seq, TRUE), Total(s) = Len(seq),
           ~Consensus(seq), Hopeless(s)
    PROVE  ~CanStillAgree(seq)
<1> SUFFICES ASSUME NEW more \in Continuations(seq), Consensus(seq \o more) PROVE FALSE
  BY DEF CanStillAgree
<1>1. PICK n \in 0..(MaxSamples - Len(seq)) : more \in [1..n -> BOOLEAN]
  BY DEF Continuations
<1>2. Len(seq) \in Nat /\ n \in Nat /\ Len(seq) + n <= MaxSamples
  BY <1>1, LenProperties, GateAssumption
<1>3. more \in Seq(BOOLEAN) /\ Len(more) = n
  BY <1>1, <1>2
<1>4. s.positives \in Nat /\ s.negatives \in Nat
  BY TallyCounts
<1>5. CASE Total(s) >= MaxSamples
  <2>1. Len(more) = 0
    BY <1>2, <1>3, <1>5, GateAssumption
  <2>2. more = <<>>
    BY <1>3, <2>1, EmptySeq
  <2>3. seq \o more = seq
    BY <2>2, ConcatEmptySeq
  <2> QED BY <2>3
<1>6. CASE s.positives + MaxSamples < Confirmations + Total(s)
  <2>1. Votes(seq \o more, TRUE) <= Votes(seq, TRUE) + Len(more)
    BY <1>3, VotesContinued
  <2>2. seq \o more \in Seq(BOOLEAN)
    BY <1>3, ConcatProperties
  <2>3. Votes(seq \o more, TRUE) \in Nat
    BY <2>2, VotersFinite
  <2>4. Votes(seq \o more, TRUE) >= Confirmations
    BY DEF Consensus
  <2> DEFINE v == Votes(seq \o more, TRUE)
             w == Votes(seq, TRUE)
  <2>5. /\ v <= w + n /\ v \in Nat /\ v >= Confirmations
        /\ w = s.positives /\ w \in Nat
    BY <1>3, <1>4, <2>1, <2>3, <2>4
  <2>6. w + MaxSamples < Confirmations + Len(seq)
    BY <1>6
  <2> HIDE DEF v, w
  <2> QED BY ONLY <2>5, <2>6, <1>2, GateAssumption
<1> QED BY <1>5, <1>6 DEF Hopeless

(* An open tally can still be brought to agreement, by positives only: the *)
(* confirmations are enough of max_samples for the ratio.                  *)
LEMMA OpenCanAgree ==
    ASSUME Confirmations * RatioDen >= RatioNum * MaxSamples,
           NEW seq \in Seq(BOOLEAN), NEW s \in Tally,
           s.positives = Votes(seq, TRUE), Total(s) = Len(seq), ~Hopeless(s)
    PROVE  CanStillAgree(seq)
<1> DEFINE n == MaxSamples - Len(seq)
           more == [i \in 1..n |-> TRUE]
<1>1. Len(seq) \in Nat /\ n \in Nat /\ Len(seq) + n = MaxSamples /\ n \in 0..n
  <2>1. Len(seq) \in Nat
    BY LenProperties
  <2>2. ~(Len(seq) >= MaxSamples)
    BY DEF Hopeless
  <2> QED BY ONLY <2>1, <2>2, GateAssumption
<1>2. more \in [1..n -> BOOLEAN]
  OBVIOUS
<1>3. more \in Continuations(seq)
  <2> DEFINE lengths == 0..(MaxSamples - Len(seq))
  <2>1. n \in lengths
    BY <1>1
  <2> HIDE DEF more, n, lengths
  <2>2. more \in UNION {[1..m -> BOOLEAN] : m \in lengths}
    BY <1>2, <2>1
  <2> QED BY <2>2 DEF Continuations, lengths
<1>4. more \in Seq(BOOLEAN) /\ Len(more) = n /\ \A i \in 1..n : more[i] = TRUE
  <2>1. \A i \in 1..n : more[i] = TRUE
    OBVIOUS
  <2> HIDE DEF more, n
  <2>2. more \in Seq(BOOLEAN) /\ Len(more) = n
    BY ONLY <1>1, <1>2
  <2> QED BY <2>1, <2>2, Zenon
<1> DEFINE v == Votes(seq \o more, TRUE)
<1> HIDE DEF more
<1>5. v = Votes(seq, TRUE) + Len(more)
  <2>1. \A i \in 1..Len(more) : more[i] = TRUE
    BY <1>4
  <2> QED BY <1>4, <2>1, VotesContinued, Zenon
<1>6. Len(seq \o more) = MaxSamples
  BY <1>1, <1>4, ConcatProperties
<1>7. v \in Nat /\ v >= Confirmations
  <2>1. s.positives \in Nat /\ ~(s.positives + MaxSamples < Confirmations + Len(seq))
    BY TallyCounts DEF Hopeless
  <2>2. v = s.positives + n
    BY <1>4, <1>5
  <2> HIDE DEF v, n
  <2> QED BY ONLY <2>1, <2>2, <1>1, GateAssumption
<1> HIDE DEF v
<1>8. v * RatioDen >= Confirmations * RatioDen
  <2>1. PICK d \in Nat : v = Confirmations + d
    BY <1>7, GateAssumption
  <2>2. v * RatioDen = Confirmations * RatioDen + d * RatioDen
    BY <2>1, GateAssumption
  <2>3. d * RatioDen \in Nat /\ Confirmations * RatioDen \in Nat
    BY <2>1, GateAssumption
  <2> QED BY <2>2, <2>3
<1>9. v * RatioDen >= RatioNum * MaxSamples
  <2>1. v * RatioDen \in Nat /\ Confirmations * RatioDen \in Nat /\ RatioNum * MaxSamples \in Nat
    BY <1>7, GateAssumption
  <2> QED BY <2>1, <1>8
<1>10. Consensus(seq \o more)
  BY <1>6, <1>7, <1>9 DEF Consensus, v
<1> QED BY <1>3, <1>10 DEF CanStillAgree

(* Only a usable prediction decides.                                       *)
LEMMA DecidedByUsed ==
    ASSUME NEW o \in Objects, NEW image \in BOOLEAN, NEW prediction \in {TRUE, FALSE, None},
           Decision(o, image, prediction) # "pending"
    PROVE  /\ Usable(o, image, prediction)
           /\ LET s == Counted(samples[o], prediction)
              IN \/ Decision(o, image, prediction) = "accept" /\ Accepts(s)
                 \/ Decision(o, image, prediction) = "reject" /\ ~Accepts(s) /\ Hopeless(s)
BY DEF Decision, Usable

VerdictsSound == AcceptedByConsensus /\ RejectedWithoutHope

LEMMA EvaluateVerdict ==
    ASSUME NEW o \in Objects, NEW image \in BOOLEAN, NEW prediction \in {TRUE, FALSE, None},
           GateInv, HistoryInv, VerdictsSound, Evaluate(o, image, prediction)
    PROVE  VerdictsSound'
<1> DEFINE decision == Decision(o, image, prediction)
           s == Counted(samples[o], prediction)
           now == Append(taken[o], prediction)
<1>1. CASE decision = "pending"
  <2>1. verdict' = verdict
    BY <1>1 DEF Evaluate
  <2> QED BY <2>1 DEF VerdictsSound, AcceptedByConsensus, RejectedWithoutHope
<1>2. CASE decision # "pending"
  <2>1. /\ Usable(o, image, prediction)
        /\ \/ decision = "accept" /\ Accepts(s)
           \/ decision = "reject" /\ ~Accepts(s) /\ Hopeless(s)
    BY <1>2, DecidedByUsed
  <2>2. verdict' = [decision |-> decision, on |-> now]
    BY <1>2, <2>1 DEF Evaluate
  <2>3. /\ prediction \in BOOLEAN
        /\ now \in Seq(BOOLEAN)
        /\ s.positives = Votes(now, TRUE)
        /\ s.negatives = Votes(now, FALSE)
        /\ Total(s) = Len(now)
        /\ Consensus(now) <=> Accepts(s)
    BY <2>1, UsedPrediction
  <2>4. s \in Tally
    BY CountedTally DEF GateInv, TypeOK
  <2>5. /\ taken[o] \in Seq(BOOLEAN)
        /\ NeverAgreed(taken[o])
    BY DEF HistoryInv
  <2>6. \A n \in 0..(Len(now) - 1) : ~Consensus(SubSeq(now, 1, n))
    <3>1. Len(now) - 1 = Len(taken[o])
      BY <2>3, <2>5, LenProperties, AppendProperties
    <3> QED BY <2>3, <2>5, <3>1, PrefixOfAppended DEF NeverAgreed
  <2> HIDE DEF s, now, decision
  <2>7. verdict'.decision = decision /\ verdict'.on = now
    BY <2>2
  <2>8. decision = "accept" => Consensus(now)
    BY <2>1, <2>3
  <2>9. decision = "reject" => ~CanStillAgree(now)
    BY <2>1, <2>3, <2>4, RejectedHopeless
  <2>10. AcceptedByConsensus'
    BY <2>6, <2>7, <2>8 DEF AcceptedByConsensus
  <2>11. RejectedWithoutHope'
    BY <2>7, <2>9 DEF RejectedWithoutHope
  <2> QED BY <2>10, <2>11 DEF VerdictsSound
<1> QED BY <1>1, <1>2

LEMMA SameVerdict == VerdictsSound /\ UNCHANGED verdict => VerdictsSound'
BY DEF VerdictsSound, AcceptedByConsensus, RejectedWithoutHope

LEMMA InitVerdict == ProtocolInit => VerdictsSound
BY DEF ProtocolInit, Undecided, VerdictsSound, AcceptedByConsensus, RejectedWithoutHope

-----------------------------------------------------------------------------
(* Theorems about the history *)

(* The gate's two counts per object are those of the predictions made      *)
(* since it was last forgotten, none of whose prefixes was an agreement.   *)
THEOREM HistoryInvariance == ProtocolSpec => []HistoryInv
<1>1. GateInv /\ HistoryInv /\ [ProtocolNext]_protocolVars => HistoryInv'
  <2> SUFFICES ASSUME GateInv, HistoryInv, [ProtocolNext]_protocolVars PROVE HistoryInv'
    OBVIOUS
  <2>1. CASE TimePasses
    BY <2>1, SameHistory DEF TimePasses, Tick
  <2>2. ASSUME NEW o \in Objects, NEW image \in BOOLEAN, NEW prediction \in {TRUE, FALSE, None},
               Evaluate(o, image, prediction)
        PROVE  HistoryInv'
    BY <2>2, EvaluateHistory
  <2>3. ASSUME NEW active \in SUBSET Objects, RetainLive(active)
        PROVE  HistoryInv'
    BY <2>3, RetainHistory
  <2>4. CASE ClearAll
    BY <2>4, ClearHistory
  <2>5. CASE UNCHANGED protocolVars
    BY <2>5, SameHistory DEF protocolVars, vars
  <2> QED BY <2>1, <2>2, <2>3, <2>4, <2>5 DEF ProtocolNext
<1> QED BY <1>1, InitHistory, GateInvariance, PTL DEF ProtocolSpec

(* retain, forget and clear leave no sample of an earlier life of an id.   *)
THEOREM SamplesOfThisLife == ProtocolSpec => []SamplesAreThisLife
<1>1. HistoryInv => SamplesAreThisLife
  BY DEF HistoryInv
<1> QED BY <1>1, HistoryInvariance, PTL

LEMMA VerdictsInvariance == ProtocolSpec => []VerdictsSound
<1>1. GateInv /\ HistoryInv /\ VerdictsSound /\ [ProtocolNext]_protocolVars => VerdictsSound'
  <2> SUFFICES ASSUME GateInv, HistoryInv, VerdictsSound, [ProtocolNext]_protocolVars
               PROVE  VerdictsSound'
    OBVIOUS
  <2>1. ASSUME NEW o \in Objects, NEW image \in BOOLEAN, NEW prediction \in {TRUE, FALSE, None},
               Evaluate(o, image, prediction)
        PROVE  VerdictsSound'
    BY <2>1, EvaluateVerdict
  <2>2. CASE TimePasses \/ ClearAll \/ \E active \in SUBSET Objects : RetainLive(active)
    BY <2>2, SameVerdict DEF TimePasses, ClearAll, RetainLive
  <2>3. CASE UNCHANGED protocolVars
    BY <2>3, SameVerdict DEF protocolVars
  <2> QED BY <2>1, <2>2, <2>3 DEF ProtocolNext
<1> QED BY <1>1, InitVerdict, GateInvariance, HistoryInvariance, PTL DEF ProtocolSpec

(* An accepted object had its consensus, over the predictions made since   *)
(* it was last forgotten, and by the last of them: whatever frames come    *)
(* without image or prediction, and whatever is forgotten in between.      *)
THEOREM AcceptanceIsConsensus == ProtocolSpec => []AcceptedByConsensus
<1>1. VerdictsSound => AcceptedByConsensus
  BY DEF VerdictsSound
<1> QED BY <1>1, VerdictsInvariance, PTL

(* Giving up loses nothing: no further samples could have brought a        *)
(* rejected object its consensus.                                          *)
THEOREM RejectionIsFinal == ProtocolSpec => []RejectedWithoutHope
<1>1. VerdictsSound => RejectedWithoutHope
  BY DEF VerdictsSound
<1> QED BY <1>1, VerdictsInvariance, PTL

(* If the confirmations are enough of max_samples for the ratio, as they   *)
(* are in configs/app_config.yaml (3 of 5 for 0.60), the gate keeps no     *)
(* object pending that no further samples could bring to agreement.        *)
THEOREM SamplingHasHope ==
    ASSUME Confirmations * RatioDen >= RatioNum * MaxSamples
    PROVE  ProtocolSpec => []NoIdleSampling
<1>1. GateInv /\ HistoryInv => NoIdleSampling
  BY OpenCanAgree DEF GateInv, TypeOK, OpenTally, HistoryInv, SamplesAreThisLife, NoIdleSampling
<1> QED BY <1>1, GateInvariance, HistoryInvariance, PTL

=============================================================================
