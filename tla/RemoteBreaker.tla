--------------------------- MODULE RemoteBreaker ---------------------------
(***************************************************************************)
(* The availability breakers of the daemon's remote client, one for reads  *)
(* and one for writes. An operation is admitted with a permit that carries *)
(* the breaker's epoch; its result counts only for that epoch.             *)
(*                                                                         *)
(* Epochs are compared for equality alone, so they are drawn from a set    *)
(* and one is reused when no permit carries it any more: the 64-bit        *)
(* counter does not come round within one operation.                       *)
(***************************************************************************)
EXTENDS Naturals

CONSTANTS
    Task,           \* daemon tasks, each with at most one remote operation
    Epoch,          \* breaker generations
    Threshold,      \* REMOTE_FAILURE_THRESHOLD, at least 1
    FailureCap,     \* where the failure counter saturates
    Nothing         \* a task without a permit

Direction == {"Read", "Write"}
Operation == {"DemandGet", "UploadHead", "UploadPut", "PrefetchGet", "ListIndex",
              "WarmAllList", "ShardGet", "ManifestGet", "PredictionGet"}
RemoteErrorClass == {"Miss", "Transient", "Timeout", "Authentication", "Configuration",
                     "Integrity", "Local"}

Permit == [dir : Direction, epoch : Epoch, probe : BOOLEAN]

ASSUME BreakerAssumption ==
    /\ Threshold \in Nat \ {0}
    /\ FailureCap \in Nat /\ FailureCap >= Threshold
    /\ Nothing \notin Permit
    /\ Epoch # {}

VARIABLES
    mode,       \* per direction: "Closed", "Open" or "HalfOpen"
    failures,   \* consecutive poisoning failures of a direction
    epoch,      \* generation of a direction's breaker
    cooled,     \* the deadline of an open breaker has passed
    permit,     \* the permit of each task, or Nothing
    answers     \* the remote service answers requests of this direction

breakerVars == <<mode, failures, epoch, cooled, permit, answers>>

-----------------------------------------------------------------------------
poisons_breaker(class) == class \in {"Transient", "Timeout"}

direction(op) == IF op \in {"UploadHead", "UploadPut"} THEN "Write" ELSE "Read"

Live == {t \in Task : permit[t] # Nothing}

CurrentPermit(t) == permit[t].epoch = epoch[permit[t].dir]

\* An epoch no permit carries: wrapping_add on a 64-bit counter.
NewEpochs(d) == Epoch \ ({epoch[d]} \cup {permit[t].epoch : t \in Live})

BreakerInit ==
    /\ mode = [d \in Direction |-> "Closed"]
    /\ failures = [d \in Direction |-> 0]
    /\ epoch \in {[d \in Direction |-> e] : e \in Epoch}
    /\ cooled = [d \in Direction |-> FALSE]
    /\ permit = [t \in Task |-> Nothing]
    /\ answers = [d \in Direction |-> TRUE]

-----------------------------------------------------------------------------
(* Admission. A suppressed operation changes nothing.                      *)

Grant(t, d, e, p) ==
    permit' = [permit EXCEPT ![t] = [dir |-> d, epoch |-> e, probe |-> p]]

AcquireClosed(t, op) ==
    /\ permit[t] = Nothing /\ mode[direction(op)] = "Closed"
    /\ Grant(t, direction(op), epoch[direction(op)], FALSE)
    /\ UNCHANGED <<mode, failures, epoch, cooled, answers>>

\* Mutant: admits the probe without leaving the open state.
AcquireProbeStillOpen(t, op) ==
    LET d == direction(op) IN
    /\ permit[t] = Nothing /\ mode[d] = "Open" /\ cooled[d]
    /\ Grant(t, d, epoch[d], TRUE)
    /\ UNCHANGED <<mode, failures, epoch, cooled, answers>>

AcquireProbe(t, op) ==
    LET d == direction(op) IN
    /\ permit[t] = Nothing /\ mode[d] = "Open" /\ cooled[d]
    /\ \E e \in NewEpochs(d) :
          /\ epoch' = [epoch EXCEPT ![d] = e]
          /\ Grant(t, d, e, TRUE)
    /\ mode' = [mode EXCEPT ![d] = "HalfOpen"]
    /\ UNCHANGED <<failures, cooled, answers>>

try_acquire(t, op) == AcquireClosed(t, op) \/ AcquireProbe(t, op)

\* Lookahead is admitted only while the direction is closed.
try_acquire_speculative(t, op) == AcquireClosed(t, op)

-----------------------------------------------------------------------------
(* Results.                                                                *)

Return(t) == permit' = [permit EXCEPT ![t] = Nothing]

\* The breaker opens again, with a new generation and a new deadline.
Reopen(d) ==
    /\ \E e \in NewEpochs(d) : epoch' = [epoch EXCEPT ![d] = e]
    /\ mode' = [mode EXCEPT ![d] = "Open"]
    /\ cooled' = [cooled EXCEPT ![d] = FALSE]

\* A result of an older generation is dropped.
FinishStale(t) ==
    /\ t \in Live /\ ~CurrentPermit(t)
    /\ Return(t)
    /\ UNCHANGED <<mode, failures, epoch, cooled, answers>>

\* Mutant: recovers without clearing the count of failures.
RecoverUncounted(t) ==
    LET d == permit[t].dir IN
    /\ t \in Live /\ CurrentPermit(t)
    /\ mode' = [mode EXCEPT ![d] = "Closed"]
    /\ Return(t)
    /\ UNCHANGED <<failures, epoch, cooled, answers>>

\* Mutant: any success is proof that the remote is back.
RecoverStale(t) ==
    LET d == permit[t].dir IN
    /\ t \in Live
    /\ mode' = [mode EXCEPT ![d] = "Closed"]
    /\ failures' = [failures EXCEPT ![d] = 0]
    /\ Return(t)
    /\ UNCHANGED <<epoch, cooled, answers>>

\* A success, or a failure that says nothing of the remote's availability.
FinishHealthy(t) ==
    LET d == permit[t].dir IN
    /\ t \in Live /\ CurrentPermit(t)
    /\ mode' = [mode EXCEPT ![d] = "Closed"]
    /\ failures' = [failures EXCEPT ![d] = 0]
    /\ Return(t)
    /\ UNCHANGED <<epoch, cooled, answers>>

FinishPoisoned(t) ==
    LET d == permit[t].dir
        n == IF failures[d] < FailureCap THEN failures[d] + 1 ELSE FailureCap
    IN
    /\ t \in Live /\ CurrentPermit(t)
    /\ failures' = [failures EXCEPT ![d] = n]
    /\ IF permit[t].probe \/ n >= Threshold
       THEN Reopen(d)
       ELSE UNCHANGED <<mode, epoch, cooled>>
    /\ Return(t)
    /\ UNCHANGED answers

success(t) == FinishStale(t) \/ FinishHealthy(t)

\* While the remote is up no operation runs into a poisoning error.
failure(t, class) ==
    /\ t \in Live
    /\ \/ FinishStale(t)
       \/ poisons_breaker(class) /\ ~answers[permit[t].dir] /\ FinishPoisoned(t)
       \/ ~poisons_breaker(class) /\ FinishHealthy(t)

\* Mutant: a permit that is dropped leaves the breaker as it is.
DropSilent(t) ==
    /\ t \in Live
    /\ Return(t)
    /\ UNCHANGED <<mode, failures, epoch, cooled, answers>>

\* A cancelled operation drops its permit; a cancelled probe opens the breaker.
Drop(t) ==
    LET d == permit[t].dir IN
    /\ t \in Live
    /\ IF permit[t].probe /\ mode[d] = "HalfOpen" /\ CurrentPermit(t)
       THEN Reopen(d)
       ELSE UNCHANGED <<mode, epoch, cooled>>
    /\ Return(t)
    /\ UNCHANGED <<failures, answers>>

-----------------------------------------------------------------------------
(* The environment.                                                        *)

\* REMOTE_DEGRADED_FOR has passed since the breaker opened.
CooldownOver(d) ==
    /\ mode[d] = "Open" /\ ~cooled[d]
    /\ cooled' = [cooled EXCEPT ![d] = TRUE]
    /\ UNCHANGED <<mode, failures, epoch, permit, answers>>

Outage(d) ==
    /\ answers' = [answers EXCEPT ![d] = ~answers[d]]
    /\ UNCHANGED <<mode, failures, epoch, cooled, permit>>

BreakerNext ==
    \/ \E t \in Task, op \in Operation : try_acquire(t, op) \/ try_acquire_speculative(t, op)
    \/ \E t \in Task : success(t) \/ Drop(t)
    \/ \E t \in Task, class \in RemoteErrorClass : failure(t, class)
    \/ \E d \in Direction : CooldownOver(d) \/ Outage(d)

BreakerSpec == BreakerInit /\ [][BreakerNext]_breakerVars

\* The probes a direction has in flight.
Probes(d) ==
    {t \in Live : permit[t].dir = d /\ permit[t].probe /\ CurrentPermit(t)}

\* Time passes, every operation ends (each has a deadline), builds go on asking
\* for artifacts and storing them, and not every probe is cancelled.
BreakerFairness ==
    /\ \A t \in Task : WF_breakerVars(success(t) \/ Drop(t))
    /\ \A d \in Direction :
          /\ WF_breakerVars(CooldownOver(d))
          /\ SF_breakerVars(\E t \in Task, op \in Operation :
                        direction(op) = d /\ AcquireProbe(t, op))
          /\ SF_breakerVars(\E t \in Task : t \in Probes(d) /\ success(t))

BreakerFairSpec == BreakerSpec /\ BreakerFairness

-----------------------------------------------------------------------------
(* Properties.                                                             *)

BreakerTypeOK ==
    /\ mode \in [Direction -> {"Closed", "Open", "HalfOpen"}]
    /\ failures \in [Direction -> 0 .. FailureCap]
    /\ epoch \in [Direction -> Epoch]
    /\ cooled \in [Direction -> BOOLEAN]
    /\ permit \in [Task -> Permit \cup {Nothing}]
    /\ answers \in [Direction -> BOOLEAN]

\* "exactly one half-open probe is admitted": a half-open direction has one
\* probe in flight, and no result but that probe's counts for it.
OneProbe ==
    \A d \in Direction : mode[d] = "HalfOpen" =>
        \E t \in Probes(d) :
            \A u \in Live : permit[u].dir = d /\ CurrentPermit(u) => u = t

\* While a direction is open there is no permit whose result would count.
OpenIsFresh ==
    \A d \in Direction : mode[d] = "Open" =>
        \A t \in Live : permit[t].dir = d => ~CurrentPermit(t)

\* A probe of the current generation belongs to a half-open breaker.
ProbeIsHalfOpen ==
    \A d \in Direction : Probes(d) # {} => mode[d] = "HalfOpen"

\* A closed direction is below the threshold: after a recovery it takes as
\* many consecutive failures as before to degrade it again.
ClosedBelowThreshold ==
    \A d \in Direction : mode[d] = "Closed" => failures[d] < Threshold

BreakerInv ==
    BreakerTypeOK /\ OneProbe /\ OpenIsFresh /\ ProbeIsHalfOpen /\ ClosedBelowThreshold

\* A degraded direction closes only when the probe of its half-open generation
\* reports: "Results from operations admitted before a newer open/half-open
\* generation cannot close or reopen that newer generation".
RecoversByProbe ==
    [][\A d \in Direction : mode[d] # "Closed" /\ mode'[d] = "Closed" =>
          mode[d] = "HalfOpen" /\ \E t \in Probes(d) : permit'[t] = Nothing]_breakerVars

\* Once the remote is back for good its direction closes for good, although
\* probes may be cancelled along the way.
Recovers == \A d \in Direction : <>[]answers[d] => <>[](mode[d] = "Closed")
=============================================================================
