--------------------------- MODULE ShapePredictor ---------------------------
(***************************************************************************)
(* runtime::ShapePredictor: how often each shape signature was seen.       *)
(* Every method runs under the predictor's mutex and is one step.          *)
(* PredictTopK has no caller in the runtime and changes nothing.           *)
(***************************************************************************)
EXTENDS Integers, Sequences

CONSTANTS Shapes,       \* the signatures callers use
          MaxRecent     \* kMaxRecent (200 in the code)

VARIABLES freq,         \* freq_: 0 stands for "no entry"
          recent,       \* recent_: the last MaxRecent signatures
          total_count   \* total_count_

predictorVars == <<freq, recent, total_count>>

PredictorInit ==
    /\ freq = [s \in Shapes |-> 0]
    /\ recent = <<>>
    /\ total_count = 0

\* Mutant of Record: recent_ keeps growing.
RecordUnbounded(sig) ==
    /\ freq' = [freq EXCEPT ![sig] = @ + 1]
    /\ recent' = Append(recent, sig)
    /\ total_count' = total_count + 1

Record(sig) ==
    /\ freq' = [freq EXCEPT ![sig] = @ + 1]
    /\ recent' = LET longer == Append(recent, sig)
                 IN  IF Len(longer) > MaxRecent THEN Tail(longer) ELSE longer
    /\ total_count' = total_count + 1

GetCount(sig) == freq[sig]

\* ShouldCompile(sig, 2, 0.05): the ratio branch can only answer TRUE where
\* the last line answers TRUE as well.
CountThreshold == 2

\* Mutant of ShouldCompile: the threshold is off by one.
ShouldCompileEarly(sig) == freq[sig] + 1 >= CountThreshold

ShouldCompile(sig) ==
    /\ freq[sig] >= CountThreshold
    /\ \/ total_count > 0 /\ 100 * freq[sig] >= 5 * total_count
       \/ freq[sig] >= CountThreshold
=============================================================================
