------------------------------ MODULE KefHealth ------------------------------
(***************************************************************************)
(* The health of the connection, which is kept apart from the state of the *)
(* speaker: a failed exchange degrades it, several of them over a long     *)
(* silence make the speaker unavailable, one answer brings it back.        *)
(*                                                                         *)
(* The clock is abstracted to two flags: "state" says that the last read   *)
(* of the source register is older than stale_after, "channel" that the    *)
(* last answer of any kind is older than unavailable_after.  The flags are *)
(* looked at only when something happens, exactly as the code does.        *)
(***************************************************************************)
EXTENDS Integers

CONSTANT FailureThreshold

ASSUME ThresholdAssumption == FailureThreshold \in Nat \ {0}

\* The failure count is compared with zero and the threshold only, so the
\* model stops counting at the threshold.
Health == [available : BOOLEAN, stale : BOOLEAN, degraded : BOOLEAN,
           failures : 0..FailureThreshold]

Ages == [state : BOOLEAN, channel : BOOLEAN]

InitialHealth ==
    [available |-> TRUE, stale |-> FALSE, degraded |-> FALSE, failures |-> 0]

JustStarted == [state |-> FALSE, channel |-> FALSE]

\* Mutant of Unavailable: either reason is enough.
UnavailableAtOnce(h, ages) == h.failures >= FailureThreshold \/ ages.channel

Unavailable(h, ages) == h.failures >= FailureThreshold /\ ages.channel

ComputeHealth(h, failed, ages) ==
    [h EXCEPT !.available = ~Unavailable(h, ages),
              !.stale     = ages.state,
              !.degraded  = failed \/ ages.state \/ h.failures > 0]

\* The ages after an answer of the speaker, which may have carried its state.
Heard(ages, carriesState) == [state |-> ages.state /\ ~carriesState, channel |-> FALSE]

\* An answer of the speaker; ages are those after it.
RecordSuccess(h, ages) ==
    ComputeHealth([h EXCEPT !.available = TRUE, !.failures = 0], FALSE, ages)

CountFailure(h) ==
    [h EXCEPT !.failures = IF h.failures < FailureThreshold THEN h.failures + 1
                                                            ELSE h.failures]

\* A failed poll or control.
RecordPrimaryFailure(h, ages) == ComputeHealth(CountFailure(h), TRUE, ages)

\* A failed verification or volume maintenance read.
RecordOptionalFailure(h, ages) == ComputeHealth([h EXCEPT !.degraded = TRUE], TRUE, ages)
=============================================================================
