---------------------------- MODULE SensorAverage ----------------------------
(***************************************************************************)
(* PDK_SensorAverage: a hook that replaces a sensor's reading by the       *)
(* average of the last AVERAGING_SIZE samples.  The samples, the index and *)
(* the flag InitDone are static, one for all the sensors that call it, and *)
(* the sum of the samples is kept in 16 bits.                              *)
(***************************************************************************)
EXTENDS Integers, Sequences

CONSTANTS
    AVERAGING_SIZE,    \* 30 in the source
    AverageWord,       \* 2^16: the width of AverageVal
    MaxSample,         \* bound: the largest reading that is tried
    AveragedSensor     \* the sensors that use the hook

ASSUME AverageAssumption ==
    AVERAGING_SIZE \in Nat \ {0} /\ AverageWord \in Nat \ {0} /\ MaxSample \in Nat

VARIABLES
    averageBuf, averageCount, averageInitDone,   \* the statics
    updateInProgress,  \* the sensors whose EventFlags have bit 1
    averaged,          \* what the last call gave back
    samples            \* history: the samples so far, the last AVERAGING_SIZE

averageVars == <<averageBuf, averageCount, averageInitDone, updateInProgress,
                 averaged, samples>>

BufIndex == 0 .. AVERAGING_SIZE - 1
Sample == 0 .. MaxSample

\* The sum of the sequence of the buffer's places, in 16 bits.
SumOf(s) ==
    LET total[i \in 0 .. Len(s)] == IF i = 0 THEN 0 ELSE total[i - 1] + s[i]
    IN  total[Len(s)]
AverageVal(buf) == SumOf([i \in 1 .. AVERAGING_SIZE |-> buf[i - 1]]) % AverageWord

AverageInit ==
    /\ averageBuf = [i \in BufIndex |-> 0]
    /\ averageCount = 0
    /\ averageInitDone = FALSE
    /\ updateInProgress = {}
    /\ averaged = [Reading |-> 0, ReadFlags |-> "no_event"]
    /\ samples = <<>>

\* Mutation: the averaging starts one sample early.
DoneAtOnceEarlier(index) == averageInitDone \/ index = AVERAGING_SIZE - 2

\* InitDone is set by the call that fills the last place for the first time.
DoneAfter(index) == averageInitDone \/ index = AVERAGING_SIZE - 1

PDK_SensorAverage(s, v) ==
    LET index == averageCount % AVERAGING_SIZE
        buf == [averageBuf EXCEPT ![index] = v]
    IN  /\ averageInitDone' = DoneAfter(index)
        /\ updateInProgress' = IF averageInitDone THEN updateInProgress \ {s}
                               ELSE updateInProgress \cup {s}
        /\ averageBuf' = buf
        /\ averageCount' = (averageCount + 1) % AVERAGING_SIZE
        /\ averaged' = IF DoneAfter(index)
                       THEN [Reading |-> AverageVal(buf) \div AVERAGING_SIZE, ReadFlags |-> "valid"]
                       ELSE [Reading |-> 0, ReadFlags |-> "no_event"]
        /\ samples' = LET all == Append(samples, v)
                      IN  IF Len(all) > AVERAGING_SIZE THEN Tail(all) ELSE all

\* Without a record of the sensor the reading and the flags stay as they came,
\* which the stack takes for a reading.
AverageUnknownSensor(v) ==
    /\ averaged' = [Reading |-> v, ReadFlags |-> "as_it_came"]
    /\ UNCHANGED <<averageBuf, averageCount, averageInitDone, updateInProgress, samples>>

AverageNext ==
    \/ \E s \in AveragedSensor, v \in Sample : PDK_SensorAverage(s, v)
    \/ \E v \in Sample : AverageUnknownSensor(v)
AverageSpec == AverageInit /\ [][AverageNext]_averageVars

-----------------------------------------------------------------------------
(* Properties                                                              *)

\* The buffer and the index stay in their bounds.
AverageTypeOK ==
    /\ averageBuf \in [BufIndex -> Sample]
    /\ averageCount \in BufIndex
    /\ averageInitDone \in BOOLEAN
    /\ updateInProgress \subseteq AveragedSensor
    /\ averaged \in [Reading : 0 .. AverageWord \cup Sample, 
                    ReadFlags : {"no_event", "valid", "as_it_came"}]
    /\ samples \in Seq(Sample) /\ Len(samples) <= AVERAGING_SIZE

\* A reading that is given out as valid is taken over AVERAGING_SIZE samples,
\* the last ones of all the sensors together, and lies between the smallest and
\* the largest of them as long as their sum fits 16 bits.
AverageIsOfTheLastSamples ==
    averaged.ReadFlags = "valid" =>
        /\ Len(samples) = AVERAGING_SIZE
        /\ SumOf(samples) < AverageWord =>
              /\ \E i \in DOMAIN samples : samples[i] <= averaged.Reading
              /\ \E i \in DOMAIN samples : averaged.Reading <= samples[i]
=============================================================================
