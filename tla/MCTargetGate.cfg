\* The decision rule of configs/app_config.yaml: three of at most five
\* predictions, and at least 60 percent of those made.
CONSTANTS
    Objects = {o1, o2}
    None = None
    Confirmations = 3
    MaxSamples = 5
    RatioNum = 3
    RatioDen = 5
    SampleInterval = 1
    Horizon = 1
SPECIFICATION ProtocolSpec
INVARIANTS GateInv AcceptedByConsensus RejectedWithoutHope NoIdleSampling SamplesAreThisLife
