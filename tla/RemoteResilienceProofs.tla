----------------------- MODULE RemoteResilienceProofs -----------------------
(***************************************************************************)
(* How the daemon lives with its remote: what it believes about the keys   *)
(* there (module RemoteKnowledge) and when it asks at all (module          *)
(* RemoteBreaker), for any number of tasks, keys, epochs and generations,  *)
(* any cache limits and any threshold. The two modules share no variable;  *)
(* their theorems stand side by side.                                      *)
(***************************************************************************)
EXTENDS RemoteBreaker, RemoteKnowledge, FiniteSetTheorems, TLAPS

-----------------------------------------------------------------------------
(* When the daemon asks.                                                   *)

\* The invariant apart from the types: what epochs say about modes.
Generations == OneProbe /\ OpenIsFresh /\ ProbeIsHalfOpen

\* Every operation belongs to a direction.
LEMMA DirectionType == \A op : direction(op) \in Direction
  BY DEF direction, Direction

\* The three ways a live permit of type Permit can be read.
LEMMA PermitType ==
  ASSUME BreakerTypeOK, NEW t \in Live
  PROVE  /\ t \in Task
         /\ permit[t] \in Permit
         /\ permit[t].dir \in Direction
         /\ permit[t].epoch \in Epoch
         /\ permit[t].probe \in BOOLEAN
<1>1. t \in Task /\ permit[t] \in Permit \cup {Nothing} /\ permit[t] # Nothing
  BY DEF BreakerTypeOK, Live
<1> QED BY <1>1 DEF Permit

\* A granted permit is one, and is not the empty slot.
LEMMA GrantType ==
  ASSUME NEW d \in Direction, NEW e \in Epoch, NEW p \in BOOLEAN
  PROVE  /\ [dir |-> d, epoch |-> e, probe |-> p] \in Permit
         /\ [dir |-> d, epoch |-> e, probe |-> p] # Nothing
<1>1. [dir |-> d, epoch |-> e, probe |-> p] \in Permit
  BY DEF Permit
<1> QED BY <1>1, BreakerAssumption DEF BreakerAssumption

\* Opening a breaker keeps the types of what it assigns.
LEMMA ReopenType ==
  ASSUME BreakerTypeOK, NEW d \in Direction, Reopen(d)
  PROVE  /\ mode' \in [Direction -> {"Closed", "Open", "HalfOpen"}]
         /\ epoch' \in [Direction -> Epoch]
         /\ cooled' \in [Direction -> BOOLEAN]
<1>1. PICK e \in Epoch : epoch' = [epoch EXCEPT ![d] = e]
  BY DEF Reopen, NewEpochs
<1> QED BY <1>1 DEF Reopen, BreakerTypeOK

-----------------------------------------------------------------------------
\* Every step keeps the types.
LEMMA BreakerTypeStep == BreakerTypeOK /\ [BreakerNext]_breakerVars => BreakerTypeOK'
<1> SUFFICES ASSUME BreakerTypeOK, [BreakerNext]_breakerVars PROVE BreakerTypeOK'
  OBVIOUS
<1> USE BreakerAssumption DEF BreakerAssumption
<1>1. ASSUME NEW t \in Task, NEW op \in Operation, AcquireClosed(t, op) PROVE BreakerTypeOK'
  <2>1. direction(op) \in Direction
    BY DirectionType
  <2>2. epoch[direction(op)] \in Epoch
    BY <2>1 DEF BreakerTypeOK
  <2>3. [dir |-> direction(op), epoch |-> epoch[direction(op)], probe |-> FALSE] \in Permit
    BY <2>1, <2>2, GrantType
  <2> QED BY <1>1, <2>3 DEF AcquireClosed, Grant, BreakerTypeOK
<1>2. ASSUME NEW t \in Task, NEW op \in Operation, AcquireProbe(t, op) PROVE BreakerTypeOK'
  <2> DEFINE d == direction(op)
  <2>1. d \in Direction
    BY DirectionType
  <2>2. PICK e \in Epoch : epoch' = [epoch EXCEPT ![d] = e] /\ Grant(t, d, e, TRUE)
    BY <1>2 DEF AcquireProbe, NewEpochs
  <2>3. [dir |-> d, epoch |-> e, probe |-> TRUE] \in Permit
    BY <2>1, GrantType
  <2> HIDE DEF d
  <2>4. mode' = [mode EXCEPT ![d] = "HalfOpen"] /\ UNCHANGED <<failures, cooled, answers>>
    BY <1>2 DEF AcquireProbe, d
  <2> QED BY <2>1, <2>2, <2>3, <2>4 DEF Grant, BreakerTypeOK
<1>3. ASSUME NEW t \in Task, FinishStale(t) PROVE BreakerTypeOK'
  BY <1>3 DEF FinishStale, Return, BreakerTypeOK
<1>4. ASSUME NEW t \in Task, FinishHealthy(t) PROVE BreakerTypeOK'
  <2>1. PICK d \in Direction : d = permit[t].dir
    BY <1>4, PermitType DEF FinishHealthy
  <2>2. 0 \in 0 .. FailureCap
    OBVIOUS
  <2> QED BY <1>4, <2>1, <2>2 DEF FinishHealthy, Return, BreakerTypeOK
<1>5. ASSUME NEW t \in Task, FinishPoisoned(t) PROVE BreakerTypeOK'
  <2>1. PICK d \in Direction : d = permit[t].dir
    BY <1>5, PermitType DEF FinishPoisoned
  <2>2. permit' \in [Task -> Permit \cup {Nothing}] /\ answers' \in [Direction -> BOOLEAN]
    BY <1>5 DEF FinishPoisoned, Return, BreakerTypeOK
  <2>3. failures' \in [Direction -> 0 .. FailureCap]
    BY <1>5, <2>1 DEF FinishPoisoned, BreakerTypeOK
  <2>4. Reopen(d) \/ UNCHANGED <<mode, epoch, cooled>>
    BY <1>5, <2>1 DEF FinishPoisoned
  <2> QED BY <2>1, <2>2, <2>3, <2>4, ReopenType DEF BreakerTypeOK
<1>6. ASSUME NEW t \in Task, Drop(t) PROVE BreakerTypeOK'
  <2>1. PICK d \in Direction : d = permit[t].dir
    BY <1>6, PermitType DEF Drop
  <2>2. permit' \in [Task -> Permit \cup {Nothing}] /\ UNCHANGED <<failures, answers>>
    BY <1>6 DEF Drop, Return, BreakerTypeOK
  <2>3. Reopen(d) \/ UNCHANGED <<mode, epoch, cooled>>
    BY <1>6, <2>1 DEF Drop
  <2> QED BY <2>1, <2>2, <2>3, ReopenType DEF BreakerTypeOK
<1>7. ASSUME NEW d \in Direction, CooldownOver(d) \/ Outage(d) PROVE BreakerTypeOK'
  BY <1>7 DEF CooldownOver, Outage, BreakerTypeOK
<1>8. CASE UNCHANGED breakerVars
  BY <1>8 DEF breakerVars, BreakerTypeOK
<1> QED
  BY <1>1, <1>2, <1>3, <1>4, <1>5, <1>6, <1>7, <1>8
  DEF BreakerNext, try_acquire, try_acquire_speculative, success, failure

-----------------------------------------------------------------------------
\* A closed breaker stays below its threshold.
LEMMA ThresholdStep ==
  BreakerTypeOK /\ ClosedBelowThreshold /\ [BreakerNext]_breakerVars => ClosedBelowThreshold'
<1> SUFFICES ASSUME BreakerTypeOK, ClosedBelowThreshold, [BreakerNext]_breakerVars
             PROVE  ClosedBelowThreshold'
  OBVIOUS
<1> USE BreakerAssumption DEF BreakerAssumption, ClosedBelowThreshold
<1>1. ASSUME NEW t \in Task, NEW op \in Operation, AcquireClosed(t, op) \/ AcquireProbe(t, op)
      PROVE  ClosedBelowThreshold'
  BY <1>1, DirectionType DEF AcquireClosed, AcquireProbe, BreakerTypeOK
<1>2. ASSUME NEW t \in Task, FinishStale(t) PROVE ClosedBelowThreshold'
  BY <1>2 DEF FinishStale
<1>3. ASSUME NEW t \in Task, FinishHealthy(t) PROVE ClosedBelowThreshold'
  BY <1>3, PermitType DEF FinishHealthy, BreakerTypeOK
<1>4. ASSUME NEW t \in Task, FinishPoisoned(t) PROVE ClosedBelowThreshold'
  BY <1>4, PermitType DEF FinishPoisoned, Reopen, BreakerTypeOK
<1>5. ASSUME NEW t \in Task, Drop(t) PROVE ClosedBelowThreshold'
  BY <1>5, PermitType DEF Drop, Reopen, BreakerTypeOK
<1>6. ASSUME NEW d \in Direction, CooldownOver(d) \/ Outage(d) PROVE ClosedBelowThreshold'
  BY <1>6 DEF CooldownOver, Outage
<1>7. CASE UNCHANGED breakerVars
  BY <1>7 DEF breakerVars
<1> QED
  BY <1>1, <1>2, <1>3, <1>4, <1>5, <1>6, <1>7
  DEF BreakerNext, try_acquire, try_acquire_speculative, success, failure

-----------------------------------------------------------------------------
\* What a step that opens a breaker again does to epochs: no permit that is
\* left carries the new one.
LEMMA ReopenFresh ==
  ASSUME BreakerTypeOK, NEW d \in Direction, Reopen(d), NEW t \in Task, Return(t),
         permit[t].dir = d, t \in Live,
         OneProbe, OpenIsFresh, ProbeIsHalfOpen
  PROVE  Generations'
<1>1. PICK e \in NewEpochs(d) : epoch' = [epoch EXCEPT ![d] = e]
  BY DEF Reopen
<1>2. mode' = [mode EXCEPT ![d] = "Open"] /\ permit' = [permit EXCEPT ![t] = Nothing]
  BY DEF Reopen, Return
<1>3. \A u \in Live' : u \in Live /\ u # t /\ permit'[u] = permit[u]
  BY <1>2 DEF Live, BreakerTypeOK
<1>4. \A u \in Live' : permit[u].dir = d => ~CurrentPermit(u)'
  BY <1>1, <1>3 DEF NewEpochs, CurrentPermit, BreakerTypeOK
<1>5. \A u \in Live' : permit[u].dir # d => (CurrentPermit(u)' <=> CurrentPermit(u))
  BY <1>1, <1>3, PermitType DEF CurrentPermit, BreakerTypeOK
<1>6. \A c \in Direction : c # d => mode'[c] = mode[c]
  BY <1>2 DEF BreakerTypeOK
<1>7. mode'[d] = "Open"
  BY <1>2 DEF BreakerTypeOK
<1>8. OpenIsFresh'
  BY <1>3, <1>4, <1>5, <1>6, <1>7 DEF OpenIsFresh
<1>9. \A c \in Direction : c # d => Probes(c)' = Probes(c)
  <2> SUFFICES ASSUME NEW c \in Direction, c # d PROVE Probes(c)' = Probes(c)
    OBVIOUS
  <2>1. \A u \in Live : permit[u].dir = c => u \in Live' /\ permit'[u] = permit[u]
    BY <1>2 DEF Live, BreakerTypeOK
  <2> QED BY <1>3, <1>5, <2>1 DEF Probes
<1>10. Probes(d)' = {}
  BY <1>3, <1>4 DEF Probes
<1>11. ProbeIsHalfOpen'
  BY <1>6, <1>9, <1>10 DEF ProbeIsHalfOpen
<1>12. OneProbe'
  BY <1>3, <1>5, <1>6, <1>7, <1>9 DEF OneProbe
<1> QED BY <1>8, <1>11, <1>12 DEF Generations

\* A permit that goes back without a change of mode or epoch, and is not the
\* probe of a half-open breaker.
LEMMA ReturnKeeps ==
  ASSUME BreakerTypeOK, Generations, NEW t \in Task, t \in Live, Return(t),
         UNCHANGED <<mode, epoch>>,
         CurrentPermit(t) => mode[permit[t].dir] # "HalfOpen"
  PROVE  Generations'
<1>1. permit' = [permit EXCEPT ![t] = Nothing]
  BY DEF Return
<1>2. \A u \in Live' : u \in Live /\ u # t /\ permit'[u] = permit[u]
  BY <1>1 DEF Live, BreakerTypeOK
<1>3. \A u \in Live : u # t => u \in Live' /\ permit'[u] = permit[u]
  BY <1>1 DEF Live, BreakerTypeOK
<1>4. \A u \in Live' : CurrentPermit(u)' <=> CurrentPermit(u)
  BY <1>2 DEF CurrentPermit
<1>5. OpenIsFresh'
  BY <1>2, <1>4 DEF Generations, OpenIsFresh
<1>6. \A c \in Direction : Probes(c)' \subseteq Probes(c)
  BY <1>2, <1>4 DEF Probes
<1>7. ProbeIsHalfOpen'
  BY <1>6 DEF Generations, ProbeIsHalfOpen
<1>8. OneProbe'
  <2> SUFFICES ASSUME NEW c \in Direction, mode[c] = "HalfOpen"
               PROVE  \E u \in Probes(c)' :
                         \A w \in Live' : permit'[w].dir = c /\ CurrentPermit(w)' => w = u
    BY DEF OneProbe
  <2>1. PICK u \in Probes(c) : \A w \in Live : permit[w].dir = c /\ CurrentPermit(w) => w = u
    BY DEF Generations, OneProbe
  <2>2. u # t
    BY <2>1 DEF Probes
  <2>3. u \in Probes(c)'
    BY <1>3, <1>4, <2>1, <2>2 DEF Probes
  <2> QED BY <1>2, <1>4, <2>1, <2>3
<1> QED BY <1>5, <1>7, <1>8 DEF Generations

-----------------------------------------------------------------------------
\* Every step keeps what epochs say about modes.
LEMMA GenerationsStep ==
  BreakerTypeOK /\ Generations /\ [BreakerNext]_breakerVars => Generations'
<1> SUFFICES ASSUME BreakerTypeOK, Generations, [BreakerNext]_breakerVars PROVE Generations'
  OBVIOUS
<1> USE DEF Generations
<1>1. ASSUME NEW t \in Task, NEW op \in Operation, AcquireClosed(t, op) PROVE Generations'
  <2> DEFINE d == direction(op)
             new == [dir |-> d, epoch |-> epoch[d], probe |-> FALSE]
  <2>1. d \in Direction /\ mode[d] = "Closed" /\ permit[t] = Nothing
    BY <1>1, DirectionType DEF AcquireClosed
  <2>2. new \in Permit /\ new # Nothing
    BY <2>1, GrantType DEF BreakerTypeOK
  <2>3. permit' = [permit EXCEPT ![t] = new] /\ UNCHANGED <<mode, epoch>>
    BY <1>1 DEF AcquireClosed, Grant
  <2>4. new.dir = d /\ ~new.probe /\ new.epoch = epoch[d]
    OBVIOUS
  <2> HIDE DEF d, new
  <2>5. \A u \in Task : u # t => permit'[u] = permit[u]
    BY <2>3 DEF BreakerTypeOK
  <2>6. permit'[t] = new
    BY <2>3 DEF BreakerTypeOK
  <2>7. \A u \in Live : u # t
    BY <2>1 DEF Live
  <2>8. \A u \in Live' : u # t => u \in Live /\ (CurrentPermit(u)' <=> CurrentPermit(u))
    BY <2>3, <2>5 DEF Live, CurrentPermit
  <2>9. \A c \in Direction : Probes(c)' = Probes(c)
    <3> SUFFICES ASSUME NEW c \in Direction PROVE Probes(c)' = Probes(c)
      OBVIOUS
    <3>1. Probes(c)' \subseteq Probes(c)
      BY <2>4, <2>5, <2>6, <2>8 DEF Probes, Live
    <3>2. Probes(c) \subseteq Probes(c)'
      BY <2>3, <2>5, <2>7 DEF Probes, Live, CurrentPermit
    <3> QED BY <3>1, <3>2
  <2>10. OpenIsFresh'
    BY <2>1, <2>3, <2>4, <2>5, <2>6, <2>8 DEF OpenIsFresh, Live
  <2>11. ProbeIsHalfOpen'
    BY <2>3, <2>9 DEF ProbeIsHalfOpen
  <2>12. OneProbe'
    BY <2>1, <2>3, <2>4, <2>5, <2>6, <2>8, <2>9 DEF OneProbe, Live
  <2> QED BY <2>10, <2>11, <2>12
<1>2. ASSUME NEW t \in Task, NEW op \in Operation, AcquireProbe(t, op) PROVE Generations'
  <2> DEFINE d == direction(op)
  <2>1. d \in Direction /\ mode[d] = "Open" /\ permit[t] = Nothing
    BY <1>2, DirectionType DEF AcquireProbe
  <2>2. PICK e \in NewEpochs(d) : epoch' = [epoch EXCEPT ![d] = e] /\ Grant(t, d, e, TRUE)
    BY <1>2 DEF AcquireProbe
  <2>3. mode' = [mode EXCEPT ![d] = "HalfOpen"]
    BY <1>2 DEF AcquireProbe
  <2> DEFINE new == [dir |-> d, epoch |-> e, probe |-> TRUE]
  <2>4. new \in Permit /\ new # Nothing
    BY <2>1, <2>2, GrantType DEF NewEpochs
  <2>5. new.dir = d /\ new.probe /\ new.epoch = e
    OBVIOUS
  <2>6. permit' = [permit EXCEPT ![t] = new]
    BY <2>2 DEF Grant
  <2> HIDE DEF d, new
  <2>7. permit'[t] = new /\ \A u \in Task : u # t => permit'[u] = permit[u]
    BY <2>6 DEF BreakerTypeOK
  <2>8. \A u \in Live : u # t
    BY <2>1 DEF Live
  <2>9. \A u \in Live' : u # t => u \in Live /\ permit'[u] = permit[u]
    BY <2>7 DEF Live
  <2>10. t \in Live' /\ CurrentPermit(t)'
    BY <2>1, <2>2, <2>4, <2>5, <2>7 DEF Live, CurrentPermit, BreakerTypeOK
  <2>11. \A u \in Live : permit[u].epoch # e
    BY <2>2 DEF NewEpochs
  <2>12. \A u \in Live' : u # t /\ permit'[u].dir = d => ~CurrentPermit(u)'
    BY <2>1, <2>2, <2>9, <2>11 DEF CurrentPermit, BreakerTypeOK
  <2>13. \A u \in Live : permit[u].dir # d => u \in Live' /\ permit'[u] = permit[u]
    BY <2>7, <2>8 DEF Live
  <2>14. \A u \in Live' : permit'[u].dir # d =>
            u # t /\ (CurrentPermit(u)' <=> CurrentPermit(u))
    BY <2>1, <2>2, <2>5, <2>7, <2>9, PermitType DEF CurrentPermit, BreakerTypeOK
  <2>15. \A c \in Direction : c # d => mode'[c] = mode[c] /\ Probes(c)' = Probes(c)
    <3> SUFFICES ASSUME NEW c \in Direction, c # d
                 PROVE  mode'[c] = mode[c] /\ Probes(c)' = Probes(c)
      OBVIOUS
    <3>1. mode'[c] = mode[c]
      BY <2>1, <2>3 DEF BreakerTypeOK
    <3>2. Probes(c)' \subseteq Probes(c)
      BY <2>9, <2>14 DEF Probes
    <3>3. Probes(c) \subseteq Probes(c)'
      BY <2>13, <2>14 DEF Probes
    <3> QED BY <3>1, <3>2, <3>3
  <2>16. mode'[d] = "HalfOpen"
    BY <2>1, <2>3 DEF BreakerTypeOK
  <2>17. t \in Probes(d)'
    BY <2>5, <2>7, <2>10 DEF Probes
  <2>18. OpenIsFresh'
    BY <2>9, <2>14, <2>15, <2>16 DEF OpenIsFresh
  <2>19. ProbeIsHalfOpen'
    BY <2>15, <2>16 DEF ProbeIsHalfOpen
  <2>20. OneProbe'
    <3> SUFFICES ASSUME NEW c \in Direction, mode'[c] = "HalfOpen"
                 PROVE  \E u \in Probes(c)' :
                           \A w \in Live' : permit'[w].dir = c /\ CurrentPermit(w)' => w = u
      BY DEF OneProbe
    <3>1. CASE c = d
      BY <2>12, <2>17, <3>1
    <3>2. CASE c # d
      BY <2>9, <2>14, <2>15, <3>2 DEF OneProbe
    <3> QED BY <3>1, <3>2
  <2> QED BY <2>18, <2>19, <2>20
<1>3. ASSUME NEW t \in Task, FinishStale(t) PROVE Generations'
  BY <1>3, ReturnKeeps DEF FinishStale
<1>4. ASSUME NEW t \in Task, FinishHealthy(t) PROVE Generations'
  <2>0. PICK d \in Direction : d = permit[t].dir
    BY <1>4, PermitType DEF FinishHealthy
  <2>1. t \in Live /\ CurrentPermit(t)
    BY <1>4 DEF FinishHealthy
  <2>2. /\ mode' = [mode EXCEPT ![d] = "Closed"]
        /\ permit' = [permit EXCEPT ![t] = Nothing]
        /\ epoch' = epoch
    BY <1>4, <2>0 DEF FinishHealthy, Return
  <2>3. \A u \in Live' : /\ u \in Live /\ u # t /\ permit'[u] = permit[u]
                         /\ CurrentPermit(u)' <=> CurrentPermit(u)
    BY <2>2 DEF Live, CurrentPermit, BreakerTypeOK
  <2>4. \A u \in Live : permit[u].dir # d => u \in Live' /\ permit'[u] = permit[u]
    BY <2>0, <2>2 DEF Live, BreakerTypeOK
  <2>5. mode'[d] = "Closed" /\ \A c \in Direction : c # d => mode'[c] = mode[c]
    BY <2>1, <2>2 DEF BreakerTypeOK
  <2>6. Probes(d)' = {}
    <3>1. ASSUME NEW u \in Probes(d)' PROVE FALSE
      <4>1. u \in Live /\ u # t /\ u \in Probes(d)
        BY <2>3, <3>1 DEF Probes
      <4>2. mode[d] = "HalfOpen"
        BY <2>1, <4>1 DEF ProbeIsHalfOpen
      <4> QED BY <2>0, <2>1, <4>1, <4>2 DEF OneProbe, Probes
    <3> QED BY <3>1
  <2>7. \A c \in Direction : c # d => Probes(c)' = Probes(c)
    BY <2>3, <2>4 DEF Probes
  <2>8. OpenIsFresh'
    BY <2>3, <2>5 DEF OpenIsFresh
  <2>9. ProbeIsHalfOpen'
    BY <2>5, <2>6, <2>7 DEF ProbeIsHalfOpen
  <2>10. OneProbe'
    BY <2>3, <2>5, <2>7 DEF OneProbe
  <2> QED BY <2>8, <2>9, <2>10
<1>5. ASSUME NEW t \in Task, FinishPoisoned(t) PROVE Generations'
  <2>1. t \in Live /\ CurrentPermit(t) /\ Return(t) /\ permit[t].dir \in Direction
    BY <1>5, PermitType DEF FinishPoisoned
  <2>2. CASE Reopen(permit[t].dir)
    BY <2>1, <2>2, ReopenFresh
  <2>3. CASE ~permit[t].probe /\ UNCHANGED <<mode, epoch, cooled>>
    <3>1. mode[permit[t].dir] # "HalfOpen"
      BY <2>1, <2>3 DEF OneProbe, Probes
    <3> QED BY <2>1, <2>3, <3>1, ReturnKeeps
  <2> QED BY <1>5, <2>2, <2>3 DEF FinishPoisoned
<1>6. ASSUME NEW t \in Task, Drop(t) PROVE Generations'
  <2>1. t \in Live /\ Return(t) /\ permit[t].dir \in Direction
    BY <1>6, PermitType DEF Drop
  <2>2. CASE Reopen(permit[t].dir)
    BY <2>1, <2>2, ReopenFresh
  <2>3. CASE /\ ~(permit[t].probe /\ mode[permit[t].dir] = "HalfOpen" /\ CurrentPermit(t))
             /\ UNCHANGED <<mode, epoch, cooled>>
    <3>1. CurrentPermit(t) => mode[permit[t].dir] # "HalfOpen"
      BY <2>1, <2>3 DEF OneProbe, Probes
    <3> QED BY <2>1, <2>3, <3>1, ReturnKeeps
  <2> QED BY <1>6, <2>2, <2>3 DEF Drop
<1>7. ASSUME NEW d \in Direction, CooldownOver(d) \/ Outage(d) PROVE Generations'
  BY <1>7 DEF CooldownOver, Outage, OneProbe, OpenIsFresh, ProbeIsHalfOpen, Probes, Live,
              CurrentPermit
<1>8. CASE UNCHANGED breakerVars
  BY <1>8 DEF breakerVars, OneProbe, OpenIsFresh, ProbeIsHalfOpen, Probes, Live, CurrentPermit
<1> QED
  BY <1>1, <1>2, <1>3, <1>4, <1>5, <1>6, <1>7, <1>8
  DEF BreakerNext, try_acquire, try_acquire_speculative, success, failure

-----------------------------------------------------------------------------
\* The breaker admits one probe at a time, an open breaker listens to nobody,
\* and a closed one is below its threshold, whatever results arrive late.
THEOREM BreakerInvariant == BreakerSpec => []BreakerInv
<1>1. BreakerInit => BreakerInv
  BY BreakerAssumption
  DEF BreakerInit, BreakerInv, BreakerTypeOK, OneProbe, OpenIsFresh, ProbeIsHalfOpen, Probes,
      Live, ClosedBelowThreshold, Direction, BreakerAssumption
<1>2. BreakerInv /\ [BreakerNext]_breakerVars => BreakerInv'
  BY BreakerTypeStep, ThresholdStep, GenerationsStep DEF BreakerInv, Generations
<1> QED BY <1>1, <1>2, PTL DEF BreakerSpec

\* Only the probe of a half-open breaker closes a degraded direction.
THEOREM RecoveryByProbe == BreakerSpec => RecoversByProbe
<1>1. BreakerInv /\ [BreakerNext]_breakerVars =>
        [\A d \in Direction : mode[d] # "Closed" /\ mode'[d] = "Closed" =>
          mode[d] = "HalfOpen" /\ \E t \in Probes(d) : permit'[t] = Nothing]_breakerVars
  <2> SUFFICES ASSUME BreakerInv, BreakerNext, NEW d \in Direction,
                      mode[d] # "Closed", mode'[d] = "Closed"
               PROVE  mode[d] = "HalfOpen" /\ \E t \in Probes(d) : permit'[t] = Nothing
    OBVIOUS
  <2> USE DEF BreakerInv
  <2>1. ASSUME NEW t \in Task, FinishHealthy(t)
        PROVE  mode[d] = "HalfOpen" /\ \E u \in Probes(d) : permit'[u] = Nothing
    <3>1. permit[t].dir = d /\ t \in Live /\ CurrentPermit(t) /\ permit'[t] = Nothing
      BY <2>1 DEF FinishHealthy, Return, BreakerTypeOK
    <3>2. mode[d] = "HalfOpen"
      BY <3>1 DEF OpenIsFresh, BreakerTypeOK
    <3> QED BY <3>1, <3>2 DEF OneProbe
  <2>2. ASSUME NEW t \in Task, FinishPoisoned(t) \/ Drop(t) PROVE FALSE
    BY <2>2, PermitType DEF FinishPoisoned, Drop, Reopen, BreakerTypeOK
  <2>3. ASSUME NEW t \in Task, FinishStale(t) PROVE FALSE
    BY <2>3 DEF FinishStale
  <2>4. ASSUME NEW t \in Task, NEW op \in Operation,
               AcquireClosed(t, op) \/ AcquireProbe(t, op)
        PROVE  FALSE
    BY <2>4, DirectionType DEF AcquireClosed, AcquireProbe, BreakerTypeOK
  <2>5. ASSUME NEW c \in Direction, CooldownOver(c) \/ Outage(c) PROVE FALSE
    BY <2>5 DEF CooldownOver, Outage
  <2> QED
    BY <2>1, <2>2, <2>3, <2>4, <2>5
    DEF BreakerNext, try_acquire, try_acquire_speculative, success, failure
<1> QED BY <1>1, BreakerInvariant, PTL DEF BreakerSpec, RecoversByProbe

-----------------------------------------------------------------------------
(* What the daemon knows.                                                  *)

\* What the setup fixes.
LEMMA SetupTypes ==
  ASSUME setup \in Setups
  PROVE  MaxEpoch \in Nat /\ setup.keys \subseteq Key /\ setup.listers \subseteq Lister
  BY KnowledgeAssumption DEF KnowledgeAssumption, MaxEpoch

\* A reader that is not idle is at one step of a restore, of a key and with the
\* epoch it drew for it.
LEMMA ReaderType ==
  ASSUME TypeOK, NEW r \in Reader
  PROVE  /\ rd[r] = Idle <=> rd[r].pc = "idle"
         /\ rd[r].pc # "idle" =>
               /\ rd[r].pc \in {"get", "found", "missing", "evict", "insert"}
               /\ rd[r].key \in Key
               /\ rd[r].epoch \in 1 .. MaxEpoch
               /\ rd[r] \in [pc : {"get", "found", "missing", "evict", "insert"},
                             key : Key, epoch : 1 .. MaxEpoch]
<1>1. rd[r] \in ReaderState
  BY DEF TypeOK
<1> QED BY <1>1 DEF ReaderState, Idle

\* An uploader that is not idle has a key.
LEMMA UploaderType ==
  ASSUME TypeOK, NEW u \in Uploader
  PROVE  /\ up[u] = Idle <=> up[u].pc = "idle"
         /\ up[u].pc # "idle" =>
               /\ up[u].pc \in {"put", "confirm", "insert"}
               /\ up[u].key \in Key
               /\ up[u] \in [pc : {"put", "confirm", "insert"}, key : Key]
<1>1. up[u] \in UploaderState
  BY DEF TypeOK
<1> QED BY <1>1 DEF UploaderState, Idle

\* A lister that is not idle has the epoch it began with, then the revision, and
\* the keys it was given once it has them.
LEMMA ListerType ==
  ASSUME TypeOK, NEW l \in Lister
  PROVE  /\ ls[l] = Idle <=> ls[l].pc = "idle"
         /\ ls[l].pc # "idle" =>
               ls[l].pc \in {"epoch", "list", "listed", "swap"} /\ ls[l].epoch \in 0 .. MaxEpoch
         /\ Begun(l) => ls[l].pc # "idle" /\ ls[l].revision \in 0 .. MaxEpoch
         /\ ls[l].pc \in {"listed", "swap"} =>
               /\ ls[l].keys \subseteq Key
               /\ ls[l] \in [pc : {"listed", "swap"}, epoch : 0 .. MaxEpoch,
                             revision : 0 .. MaxEpoch, keys : SUBSET Key]
<1>1. ls[l] \in ListerState
  BY DEF TypeOK
<1> QED BY <1>1 DEF ListerState, Begun, Idle

-----------------------------------------------------------------------------
(* The caches.                                                             *)

\* Forgetting n keys takes n away and changes nothing else.
LEMMA ForgetFacts ==
  ASSUME NEW f \in [Key -> Nat], NEW n \in Nat, NEW g \in Forget(f, n)
  PROVE  /\ g \in [Key -> Nat] /\ \A j \in Key : g[j] \in {0, f[j]}
         /\ IsFiniteSet(Remembered(f)) /\ IsFiniteSet(Remembered(g))
         /\ Cardinality(Remembered(g)) = Cardinality(Remembered(f)) - n
<1>1. PICK o \in SUBSET Remembered(f) :
         Cardinality(o) = n /\ g = [j \in Key |-> IF j \in o THEN 0 ELSE f[j]]
  BY DEF Forget
<1>2. IsFiniteSet(Remembered(f))
  BY FS_Subset, KnowledgeAssumption DEF KnowledgeAssumption, Remembered
<1>3. Remembered(g) = Remembered(f) \ o
  BY <1>1 DEF Remembered
<1>4. Remembered(f) \cap o = o
  BY <1>1
<1>5. Cardinality(Remembered(f) \ o) = Cardinality(Remembered(f)) - n
  BY <1>1, <1>2, <1>4, FS_Difference
<1>6. IsFiniteSet(Remembered(g))
  BY <1>2, <1>3, FS_Difference
<1>7. g \in [Key -> Nat] /\ \A j \in Key : g[j] \in {0, f[j]}
  BY <1>1
<1> QED BY <1>2, <1>3, <1>5, <1>6, <1>7

\* A cache in which keys are only cleared does not grow.
LEMMA ClearFacts ==
  ASSUME NEW f \in [Key -> Nat], NEW g \in [Key -> Nat], \A j \in Key : g[j] \in {0, f[j]}
  PROVE  /\ IsFiniteSet(Remembered(f)) /\ IsFiniteSet(Remembered(g))
         /\ Cardinality(Remembered(f)) \in Nat /\ Cardinality(Remembered(g)) \in Nat
         /\ Cardinality(Remembered(g)) <= Cardinality(Remembered(f))
<1>1. IsFiniteSet(Remembered(f))
  BY FS_Subset, KnowledgeAssumption DEF KnowledgeAssumption, Remembered
<1>2. Remembered(g) \in SUBSET Remembered(f)
  BY DEF Remembered
<1>3. IsFiniteSet(Remembered(g)) /\ Cardinality(Remembered(g)) <= Cardinality(Remembered(f))
  BY <1>1, <1>2, FS_Subset
<1> QED BY <1>1, <1>3, FS_CardinalityType

\* With room made for it, one more key keeps a cache within its limit.
LEMMA RoomFacts ==
  ASSUME NEW f \in [Key -> Nat], NEW limit \in Nat \ {0}, NEW k \in Key, NEW e \in Nat,
         Cardinality(Remembered(f)) <= limit, NEW g \in Room(f, limit, k)
  PROVE  /\ g \in [Key -> Nat] /\ \A j \in Key : g[j] \in {0, f[j]}
         /\ Cardinality(Remembered([g EXCEPT ![k] = e])) <= limit
<1> DEFINE h == [g EXCEPT ![k] = e]
<1>1. Cardinality(Remembered(f)) \in Nat /\ IsFiniteSet(Remembered(f))
  BY ClearFacts
<1>2. CASE f[k] # 0
  <2>1. g = f
    BY <1>2 DEF Room
  <2>2. Remembered(h) \in SUBSET Remembered(f)
    BY <1>2, <2>1 DEF Remembered
  <2>3. Cardinality(Remembered(h)) <= Cardinality(Remembered(f)) /\ IsFiniteSet(Remembered(h))
    BY <1>1, <2>2, FS_Subset
  <2>4. Cardinality(Remembered(h)) \in Nat
    BY <2>3, FS_CardinalityType
  <2> QED BY <1>1, <2>1, <2>3, <2>4
<1>3. CASE f[k] = 0
  <2>1. /\ g \in [Key -> Nat] /\ \A j \in Key : g[j] \in {0, f[j]}
        /\ IsFiniteSet(Remembered(g)) /\ Cardinality(Remembered(g)) \in Nat
        /\ Cardinality(Remembered(g)) + 1 <= limit
    <3>1. CASE Cardinality(Remembered(f)) >= limit
      <4>1. g \in Forget(f, 1)
        BY <1>3, <3>1 DEF Room
      <4>2. Cardinality(Remembered(g)) = Cardinality(Remembered(f)) - 1
        BY <4>1, ForgetFacts
      <4>3. /\ g \in [Key -> Nat] /\ \A j \in Key : g[j] \in {0, f[j]}
            /\ IsFiniteSet(Remembered(g))
        BY <4>1, ForgetFacts
      <4>4. Cardinality(Remembered(g)) \in Nat
        BY <4>3, FS_CardinalityType
      <4> QED BY <1>1, <3>1, <4>2, <4>3, <4>4
    <3>2. CASE ~(Cardinality(Remembered(f)) >= limit)
      <4>1. g = f
        BY <3>2 DEF Room
      <4> QED BY <1>1, <3>2, <4>1
    <3> QED BY <3>1, <3>2
  <2>2. Remembered(h) \in SUBSET (Remembered(g) \cup {k})
    BY <2>1 DEF Remembered
  <2>3. IsFiniteSet(Remembered(g) \cup {k}) /\ Cardinality(Remembered(g) \cup {k}) <= limit
    BY <2>1, FS_AddElement
  <2>4. /\ IsFiniteSet(Remembered(h))
        /\ Cardinality(Remembered(h)) <= Cardinality(Remembered(g) \cup {k})
    BY <2>2, <2>3, FS_Subset
  <2>5. Cardinality(Remembered(h)) \in Nat /\ Cardinality(Remembered(g) \cup {k}) \in Nat
    BY <2>3, <2>4, FS_CardinalityType
  <2> QED BY <2>1, <2>3, <2>4, <2>5
<1> QED BY <1>2, <1>3

\* A cache with no room remembers nothing.
LEMMA NoRoom ==
  ASSUME NEW f \in [Key -> Nat], Cardinality(Remembered(f)) <= 0
  PROVE  \A j \in Key : f[j] = 0
<1>1. IsFiniteSet(Remembered(f)) /\ Cardinality(Remembered(f)) \in Nat
  BY ClearFacts
<1>2. Remembered(f) = {}
  BY <1>1, FS_EmptySet
<1> QED BY <1>2 DEF Remembered

-----------------------------------------------------------------------------
(* What the steps do to the caches.                                        *)

\* The caches have their types and limits, and no epoch is ahead of the counter.
Caches ==
    /\ setup \in Setups
    /\ entries \in [Key -> 0 .. MaxEpoch] /\ epochs \in [Key -> 0 .. MaxEpoch]
    /\ next_epoch \in 0 .. MaxEpoch
    /\ Limits
    /\ \A k \in Key : entries[k] <= next_epoch /\ epochs[k] <= next_epoch

\* A new epoch is the key's latest where epochs are kept; other keys may be
\* forgotten.
LEMMA NewEpochFacts ==
  ASSUME Caches, NEW k \in Key, NewEpoch(k)
  PROVE  /\ next_epoch' = next_epoch + 1 /\ next_epoch' \in 1 .. MaxEpoch
         /\ epochs' \in [Key -> 0 .. MaxEpoch]
         /\ \A j \in Key : /\ epochs'[j] \in {0, epochs[j], next_epoch + 1}
                           /\ epochs'[j] <= next_epoch'
         /\ \A j \in Key : epochs'[j] = next_epoch + 1 => j = k
         /\ epochs'[k] \in {0, next_epoch + 1}
         /\ Cardinality(Remembered(epochs')) <= 2 * MaxEntries
<1>1. MaxEpoch \in Nat /\ MaxEntries \in Nat
  BY SetupTypes, KnowledgeAssumption DEF Caches, KnowledgeAssumption
<1>2. next_epoch' = next_epoch + 1 /\ next_epoch' \in 1 .. MaxEpoch /\ epochs \in [Key -> Nat]
  BY <1>1 DEF Caches, NewEpoch
<1>3. CASE MaxEntries = 0
  <2>1. epochs' = epochs
    BY <1>3 DEF NewEpoch
  <2>2. \A j \in Key : epochs[j] = 0
    BY <1>2, <1>3, NoRoom DEF Caches, Limits
  <2> QED BY <1>1, <1>2, <2>1, <2>2 DEF Caches, Limits
<1>4. CASE MaxEntries # 0
  <2>1. PICK g \in Room(epochs, 2 * MaxEntries, k) : epochs' = [g EXCEPT ![k] = next_epoch + 1]
    BY <1>4 DEF NewEpoch
  <2>2. 2 * MaxEntries \in Nat \ {0} /\ next_epoch + 1 \in Nat
    BY <1>1, <1>2, <1>4
  <2>3. Cardinality(Remembered(epochs)) <= 2 * MaxEntries
    BY DEF Caches, Limits
  <2>4. /\ g \in [Key -> Nat] /\ \A j \in Key : g[j] \in {0, epochs[j]}
        /\ Cardinality(Remembered(epochs')) <= 2 * MaxEntries
    BY <1>2, <2>1, <2>2, <2>3, RoomFacts
  <2> QED BY <1>1, <1>2, <2>1, <2>4 DEF Caches
<1> QED BY <1>3, <1>4

\* The misses of a cache that only forgets keep type and limit.
LEMMA EntriesCleared ==
  ASSUME Caches, \A j \in Key : entries'[j] \in {0, entries[j]},
         entries' = [j \in Key |-> entries'[j]]
  PROVE  /\ entries' \in [Key -> 0 .. MaxEpoch]
         /\ Cardinality(Remembered(entries')) <= MaxEntries
<1>1. MaxEpoch \in Nat /\ MaxEntries \in Nat
  BY SetupTypes, KnowledgeAssumption DEF Caches, KnowledgeAssumption
<1>2. entries \in [Key -> Nat] /\ entries' \in [Key -> Nat] /\ entries' \in [Key -> 0 .. MaxEpoch]
  BY <1>1 DEF Caches
<1>3. /\ Cardinality(Remembered(entries')) <= Cardinality(Remembered(entries))
      /\ Cardinality(Remembered(entries)) \in Nat /\ Cardinality(Remembered(entries')) \in Nat
  BY <1>2, ClearFacts
<1> QED BY <1>1, <1>2, <1>3 DEF Caches, Limits

\* A miss is recorded only where epochs are kept, and within the limit.
LEMMA RecordFacts ==
  ASSUME Caches, NEW k \in Key, NEW e \in 1 .. MaxEpoch, IsLatest(k, e),
         NEW g \in Room(entries, MaxEntries, k), entries' = [g EXCEPT ![k] = e]
  PROVE  /\ entries' \in [Key -> 0 .. MaxEpoch]
         /\ \A j \in Key \ {k} : entries'[j] \in {0, entries[j]}
         /\ entries'[k] = e
         /\ Cardinality(Remembered(entries')) <= MaxEntries
<1>1. MaxEpoch \in Nat /\ MaxEntries \in Nat
  BY SetupTypes, KnowledgeAssumption DEF Caches, KnowledgeAssumption
<1>2. entries \in [Key -> Nat] /\ epochs \in [Key -> Nat] /\ epochs[k] # 0
  BY <1>1 DEF Caches, IsLatest
<1>3. MaxEntries # 0
  BY <1>1, <1>2, NoRoom DEF Caches, Limits
<1>4. Cardinality(Remembered(entries)) <= MaxEntries
  BY DEF Caches, Limits
<1>5. MaxEntries \in Nat \ {0} /\ e \in Nat
  BY <1>1, <1>3
<1>6. /\ g \in [Key -> Nat] /\ \A j \in Key : g[j] \in {0, entries[j]}
      /\ Cardinality(Remembered(entries')) <= MaxEntries
  BY <1>2, <1>4, <1>5, RoomFacts
<1> QED BY <1>1, <1>6 DEF Caches

\* A listing clears the misses it disproves and gives their keys new epochs.
LEMMA PresentInFacts ==
  ASSUME Caches, NEW l \in Lister, remove_present_in(l), Disproved(l) \subseteq Key
  PROVE  /\ next_epoch' \in 0 .. MaxEpoch /\ next_epoch' >= next_epoch
         /\ entries' = [k \in Key |-> IF k \in Disproved(l) THEN 0 ELSE entries[k]]
         /\ epochs' \in [Key -> 0 .. MaxEpoch]
         /\ \A j \in Key : /\ epochs'[j] \in {0, epochs[j]} \/ epochs'[j] > next_epoch
                           /\ epochs'[j] <= next_epoch'
         /\ Cardinality(Remembered(epochs')) <= 2 * MaxEntries
<1> DEFINE gone == Disproved(l)
           last == next_epoch + Cardinality(gone)
<1>1. MaxEpoch \in Nat /\ MaxEntries \in Nat /\ IsFiniteSet(Key)
  BY SetupTypes, KnowledgeAssumption DEF Caches, KnowledgeAssumption
<1>2. Cardinality(gone) \in Nat
  BY <1>1, FS_Subset, FS_CardinalityType
<1>3. /\ last <= MaxEpoch /\ next_epoch' = last
      /\ entries' = [k \in Key |-> IF k \in gone THEN 0 ELSE entries[k]]
  BY DEF remove_present_in
<1>4. PICK new \in [gone -> (next_epoch + 1) .. last] :
         LET all  == [k \in Key |-> IF k \in gone THEN new[k] ELSE epochs[k]]
             over == Cardinality(Remembered(all)) - 2 * MaxEntries
         IN epochs' \in Forget(all, IF over > 0 THEN over ELSE 0)
  BY DEF remove_present_in
<1> DEFINE all == [k \in Key |-> IF k \in gone THEN new[k] ELSE epochs[k]]
           over == Cardinality(Remembered(all)) - 2 * MaxEntries
           n == IF over > 0 THEN over ELSE 0
<1>5. epochs' \in Forget(all, n)
  BY <1>4
<1> HIDE DEF gone
<1>6. next_epoch \in Nat /\ next_epoch <= last /\ last \in Nat
  BY <1>1, <1>2 DEF Caches
<1>7. all \in [Key -> 0 .. last] /\ all \in [Key -> Nat]
  BY <1>4, <1>6 DEF Caches
<1>8. \A j \in Key : all[j] = epochs[j] \/ all[j] > next_epoch
  BY <1>4, <1>6
<1> HIDE DEF all, last
<1>9. Cardinality(Remembered(all)) \in Nat
  BY <1>7, ClearFacts
<1>10. n \in Nat
  BY <1>1, <1>9
<1>11. /\ epochs' \in [Key -> Nat] /\ \A j \in Key : epochs'[j] \in {0, all[j]}
       /\ Cardinality(Remembered(epochs')) = Cardinality(Remembered(all)) - n
  BY <1>5, <1>7, <1>10, ForgetFacts
<1>12. Cardinality(Remembered(epochs')) <= 2 * MaxEntries
  BY <1>1, <1>9, <1>11
<1>13. \A j \in Key : /\ epochs'[j] \in {0, epochs[j]} \/ epochs'[j] > next_epoch
                      /\ epochs'[j] \in 0 .. last
  BY <1>6, <1>7, <1>8, <1>11
<1>14. epochs' \in [Key -> 0 .. MaxEpoch]
  BY <1>1, <1>3, <1>6, <1>11, <1>13
<1> QED BY <1>1, <1>3, <1>6, <1>12, <1>13, <1>14 DEF gone

-----------------------------------------------------------------------------
(* The invariant, part by part.                                            *)

\* The invariant has what the lemmas about the caches need.
LEMMA CachesHold ==
  ASSUME TypeOK, Limits, Fresh
  PROVE  Caches /\ MaxEpoch \in Nat
  BY SetupTypes DEF Caches, TypeOK, Fresh

\* The reader records its miss and goes on to take the key out of the index.
Recorded(r) ==
    /\ rd[r].pc = "missing" /\ IsLatest(rd[r].key, rd[r].epoch)
    /\ rd'[r].pc = "evict" /\ rd'[r].key = rd[r].key

\* What every step does to the caches: epochs are given out in order, and a miss
\* is recorded only with the latest epoch of its key.
LEMMA CachesStep ==
  ASSUME TypeOK, Limits, Fresh, [Next]_vars
  PROVE  /\ Caches' /\ next_epoch' >= next_epoch
         /\ \A j \in Key : epochs'[j] \in {0, epochs[j]} \/ epochs'[j] > next_epoch
         /\ \A j \in Key :
               \/ entries'[j] \in {0, entries[j]}
               \/ \E r \in Reader : Recorded(r) /\ rd[r].key = j /\ entries'[j] = rd[r].epoch
<1> DEFINE Goal ==
         /\ Caches' /\ next_epoch' >= next_epoch
         /\ \A j \in Key : epochs'[j] \in {0, epochs[j]} \/ epochs'[j] > next_epoch
         /\ \A j \in Key :
               \/ entries'[j] \in {0, entries[j]}
               \/ \E r \in Reader : Recorded(r) /\ rd[r].key = j /\ entries'[j] = rd[r].epoch
<1>0. /\ Caches /\ MaxEpoch \in Nat /\ setup.keys \subseteq Key /\ setup.listers \subseteq Lister
      /\ MaxEntries \in Nat /\ next_epoch \in Nat
  BY CachesHold, SetupTypes, KnowledgeAssumption DEF TypeOK, KnowledgeAssumption
<1>a. ASSUME NEW k \in Key, NewEpoch(k), setup' = setup,
             entries' = entries \/ entries' = [entries EXCEPT ![k] = 0]
      PROVE  Goal
  <2>1. \A j \in Key : entries'[j] \in {0, entries[j]}
    BY <1>0, <1>a DEF Caches
  <2>2. entries' = [j \in Key |-> entries'[j]]
    BY <1>0, <1>a DEF Caches
  <2>3. entries' \in [Key -> 0 .. MaxEpoch] /\ Cardinality(Remembered(entries')) <= MaxEntries
    BY <1>0, <2>1, <2>2, EntriesCleared
  <2>4. /\ next_epoch' = next_epoch + 1 /\ next_epoch' \in 0 .. MaxEpoch
        /\ epochs' \in [Key -> 0 .. MaxEpoch]
        /\ \A j \in Key : /\ epochs'[j] \in {0, epochs[j], next_epoch + 1}
                          /\ epochs'[j] <= next_epoch'
        /\ Cardinality(Remembered(epochs')) <= 2 * MaxEntries
    BY <1>0, <1>a, NewEpochFacts
  <2>5. MaxEpoch' = MaxEpoch
    BY <1>a DEF MaxEpoch
  <2>6. \A j \in Key : entries'[j] <= next_epoch'
    BY <1>0, <2>1, <2>4 DEF Caches
  <2>7. Caches'
    BY <1>0, <1>a, <2>3, <2>4, <2>5, <2>6 DEF Caches, Limits
  <2> QED BY <1>0, <2>1, <2>4, <2>7
<1>b. ASSUME UNCHANGED <<epochs, next_epoch, setup>>,
             \A j \in Key : entries'[j] \in {0, entries[j]},
             entries' = [j \in Key |-> entries'[j]]
      PROVE  Goal
  <2>1. entries' \in [Key -> 0 .. MaxEpoch] /\ Cardinality(Remembered(entries')) <= MaxEntries
    BY <1>0, <1>b, EntriesCleared
  <2>2. MaxEpoch' = MaxEpoch
    BY <1>b DEF MaxEpoch
  <2>3. \A j \in Key : entries'[j] <= next_epoch
    BY <1>0, <1>b DEF Caches
  <2>4. Caches'
    BY <1>0, <1>b, <2>1, <2>2, <2>3 DEF Caches, Limits
  <2> QED BY <1>0, <1>b, <2>4
<1>c. ASSUME UNCHANGED <<negative, setup>> PROVE Goal
  <2>1. entries' = [j \in Key |-> entries'[j]] /\ \A j \in Key : entries'[j] \in {0, entries[j]}
    BY <1>0, <1>c DEF Caches, negative
  <2> QED BY <1>b, <1>c, <2>1 DEF negative
<1> HIDE DEF Goal
<1>1. ASSUME NEW r \in Reader, NEW k \in setup.keys, Demand(r, k) \/ Prefetch(r, k) PROVE Goal
  BY <1>0, <1>1, <1>a DEF Demand, Prefetch, fixed
<1>2. ASSUME NEW r \in Reader, Get(r) \/ GiveUp(r) \/ ReaderInsert(r) \/ ReaderRemove(r)
      PROVE  Goal
  BY <1>2, <1>c DEF Get, GiveUp, ReaderInsert, ReaderRemove, fixed
<1>3. ASSUME NEW r \in Reader, record_miss(r) PROVE Goal
  <2>1. CASE IsLatest(rd[r].key, rd[r].epoch)
    <3>1. PICK g \in Room(entries, MaxEntries, rd[r].key) :
             entries' = [g EXCEPT ![rd[r].key] = rd[r].epoch]
      BY <1>3, <2>1 DEF record_miss
    <3>2. rd[r].key \in Key /\ rd[r].epoch \in 1 .. MaxEpoch /\ rd[r].epoch <= next_epoch
      BY <1>3, ReaderType DEF record_miss, Fresh
    <3>3. /\ entries' \in [Key -> 0 .. MaxEpoch]
          /\ \A j \in Key \ {rd[r].key} : entries'[j] \in {0, entries[j]}
          /\ entries'[rd[r].key] = rd[r].epoch
          /\ Cardinality(Remembered(entries')) <= MaxEntries
      BY <1>0, <2>1, <3>1, <3>2, RecordFacts
    <3>4. Recorded(r)
      <4>1. rd[r].pc = "missing" /\ rd' = [rd EXCEPT ![r].pc = "evict"]
        BY <1>3, <2>1 DEF record_miss
      <4>2. rd[r] \in [pc : {"get", "found", "missing", "evict", "insert"}, key : Key,
                       epoch : 1 .. MaxEpoch]
        BY <4>1, ReaderType
      <4> QED BY <2>1, <4>1, <4>2 DEF Recorded, TypeOK
    <3>5. UNCHANGED <<epochs, next_epoch, setup>> /\ MaxEpoch' = MaxEpoch
      BY <1>3 DEF record_miss, fixed, MaxEpoch
    <3>6. \A j \in Key : entries'[j] <= next_epoch
      BY <1>0, <3>2, <3>3 DEF Caches
    <3>7. Caches'
      BY <1>0, <3>3, <3>5, <3>6 DEF Caches, Limits
    <3> QED BY <1>0, <3>3, <3>4, <3>5, <3>7 DEF Goal
  <2>2. CASE ~IsLatest(rd[r].key, rd[r].epoch)
    BY <1>3, <2>2, <1>c DEF record_miss, negative, fixed
  <2> QED BY <2>1, <2>2
<1>4. ASSUME NEW r \in Reader, record_present(r) PROVE Goal
  <2>1. entries' = entries \/ entries' = [entries EXCEPT ![rd[r].key] = 0]
    BY <1>4 DEF record_present
  <2>2. entries' = [j \in Key |-> entries'[j]] /\ \A j \in Key : entries'[j] \in {0, entries[j]}
    BY <1>0, <2>1 DEF Caches
  <2> QED BY <1>4, <2>2, <1>b DEF record_present, fixed
<1>5. ASSUME NEW u \in Uploader, NEW k \in setup.keys, begin_write(u, k) PROVE Goal
  BY <1>0, <1>5, <1>a DEF begin_write, fixed
<1>6. ASSUME NEW u \in Uploader,
             \/ Put(u) \/ UploadFails(u) \/ UploadInsert(u)
             \/ \E k \in setup.keys : PackedImport(u, k)
      PROVE  Goal
  BY <1>6, <1>c DEF PackedImport, Put, UploadFails, UploadInsert, fixed
<1>7. ASSUME NEW u \in Uploader, confirm_present(u) PROVE Goal
  BY <1>7, <1>a, UploaderType DEF confirm_present, fixed
<1>8. ASSUME NEW l \in setup.listers,
             ListBegin(l) \/ ListRevision(l) \/ List(l) \/ ListFails(l) \/ populate_if_unchanged(l) PROVE Goal
  BY <1>8, <1>c DEF ListBegin, ListRevision, List, ListFails, populate_if_unchanged, fixed
<1>9. ASSUME NEW l \in setup.listers, remove_present_in(l) PROVE Goal
  <2>1. l \in Lister /\ Disproved(l) \subseteq Key
    BY <1>0, <1>9, ListerType DEF remove_present_in, Disproved
  <2>2. /\ next_epoch' \in 0 .. MaxEpoch /\ next_epoch' >= next_epoch
        /\ entries' = [k \in Key |-> IF k \in Disproved(l) THEN 0 ELSE entries[k]]
        /\ epochs' \in [Key -> 0 .. MaxEpoch]
        /\ \A j \in Key : /\ epochs'[j] \in {0, epochs[j]} \/ epochs'[j] > next_epoch
                          /\ epochs'[j] <= next_epoch'
        /\ Cardinality(Remembered(epochs')) <= 2 * MaxEntries
    BY <1>0, <1>9, <2>1, PresentInFacts
  <2>3. /\ entries' = [j \in Key |-> entries'[j]]
        /\ \A j \in Key : entries'[j] \in {0, entries[j]}
    BY <2>2
  <2>4. entries' \in [Key -> 0 .. MaxEpoch] /\ Cardinality(Remembered(entries')) <= MaxEntries
    BY <1>0, <2>3, EntriesCleared
  <2>5. setup' = setup /\ MaxEpoch' = MaxEpoch
    BY <1>9 DEF remove_present_in, fixed, MaxEpoch
  <2>6. \A j \in Key : entries'[j] <= next_epoch'
    BY <1>0, <2>2, <2>3 DEF Caches
  <2>7. Caches'
    BY <1>0, <2>2, <2>4, <2>5, <2>6 DEF Caches, Limits
  <2> QED BY <2>2, <2>3, <2>7 DEF Goal
<1>10. ASSUME NEW k \in setup.keys, Expire(k) PROVE Goal
  <2>1. entries' = [j \in Key |-> entries'[j]] /\ \A j \in Key : entries'[j] \in {0, entries[j]}
    BY <1>0, <1>10 DEF Caches, Expire
  <2> QED BY <1>10, <2>1, <1>b DEF Expire, fixed
<1>11. ASSUME NEW k \in setup.keys, StoreElsewhere(k) \/ Delete(k) PROVE Goal
  BY <1>11, <1>c DEF StoreElsewhere, Delete, fixed
<1>12. CASE UNCHANGED vars
  <2>1. UNCHANGED <<negative, setup>>
    BY <1>12 DEF vars, negative
  <2> QED BY <2>1, <1>c DEF negative, Goal
<1> QED
  BY <1>1, <1>2, <1>3, <1>4, <1>5, <1>6, <1>7, <1>8, <1>9, <1>10, <1>11, <1>12
  DEF Next, Exhausted, Goal

\* The setup and all that depends on it alone stays.
LEMMA SetupFixed ==
  ASSUME TypeOK, [Next]_vars
  PROVE  /\ setup' = setup /\ MaxEpoch' = MaxEpoch
         /\ ReaderState' = ReaderState /\ ListerState' = ListerState
<1>1. setup' = setup
  BY DEF Next, vars, fixed, Exhausted, Demand, Prefetch, Get, GiveUp, record_miss, record_present,
         ReaderInsert, ReaderRemove, begin_write, PackedImport, Put, UploadFails, confirm_present, UploadInsert,
         ListBegin, ListRevision, List, ListFails, remove_present_in, populate_if_unchanged, Expire,
         StoreElsewhere, Delete
<1> QED BY <1>1 DEF MaxEpoch, ReaderState, ListerState

\* Every step keeps the types.
LEMMA TypeStep ==
  ASSUME TypeOK, Limits, Fresh, [Next]_vars
  PROVE  TypeOK'
<1> DEFINE Rest ==
         /\ remote' \subseteq Key /\ noted' \subseteq remote' /\ index' \subseteq Key
         /\ revision' \in 0 .. MaxEpoch /\ populated' \in BOOLEAN
         /\ rd' \in [Reader -> ReaderState]
         /\ up' \in [Uploader -> UploaderState]
         /\ ls' \in [Lister -> ListerState]
<1>0. /\ MaxEpoch \in Nat /\ setup.keys \subseteq Key /\ setup.listers \subseteq Lister
      /\ next_epoch \in 0 .. MaxEpoch /\ revision \in 0 .. MaxEpoch
  BY SetupTypes DEF TypeOK
<1>e. next_epoch' \in 0 .. MaxEpoch
  BY CachesStep, SetupFixed DEF Caches
<1>i. Idle \in ReaderState /\ Idle \in UploaderState /\ Idle \in ListerState
  BY DEF ReaderState, UploaderState, ListerState
<1>r. \A c \in {"get", "found", "missing", "evict", "insert"}, k \in Key, e \in 1 .. MaxEpoch :
         [pc |-> c, key |-> k, epoch |-> e] \in ReaderState
  BY DEF ReaderState
<1>u. \A c \in {"put", "confirm", "insert"}, k \in Key : [pc |-> c, key |-> k] \in UploaderState
  BY DEF UploaderState
<1>l. \A e, v \in 0 .. MaxEpoch :
         /\ [pc |-> "epoch", epoch |-> e] \in ListerState
         /\ [pc |-> "list", epoch |-> e, revision |-> v] \in ListerState
         /\ \A c \in {"listed", "swap"}, ks \in SUBSET Key :
               [pc |-> c, epoch |-> e, revision |-> v, keys |-> ks] \in ListerState
  BY DEF ListerState
<1>1. ASSUME NEW r \in Reader, NEW k \in setup.keys, Demand(r, k) \/ Prefetch(r, k) PROVE Rest
  <2>1. next_epoch' \in 1 .. MaxEpoch /\ k \in Key
    BY <1>0, <1>1, <1>e DEF Demand, Prefetch, NewEpoch
  <2>2. [pc |-> "get", key |-> k, epoch |-> next_epoch'] \in ReaderState
    BY <1>r, <2>1
  <2> QED BY <1>1, <1>0, <2>2 DEF Demand, Prefetch, TypeOK
<1>2. ASSUME NEW r \in Reader, Get(r) PROVE Rest
  <2>1. rd[r].key \in Key /\ rd[r].epoch \in 1 .. MaxEpoch
    BY <1>2, ReaderType DEF Get
  <2>2. [pc |-> IF rd[r].key \in remote THEN "found" ELSE "missing",
         key |-> rd[r].key, epoch |-> rd[r].epoch] \in ReaderState
    BY <1>r, <2>1
  <2> QED BY <1>2, <1>0, <2>2 DEF Get, positive, TypeOK
<1>3. ASSUME NEW r \in Reader, GiveUp(r) \/ ReaderInsert(r) \/ ReaderRemove(r) PROVE Rest
  <2>1. rd[r].key \in Key
    BY <1>3, ReaderType DEF GiveUp, ReaderInsert, ReaderRemove
  <2>2. rd' \in [Reader -> ReaderState]
    BY <1>3, <1>i DEF GiveUp, ReaderInsert, ReaderRemove, TypeOK
  <2> QED BY <1>3, <1>0, <2>1, <2>2
          DEF GiveUp, ReaderInsert, ReaderRemove, insert, remove, positive, TypeOK
<1>4. ASSUME NEW r \in Reader, record_miss(r) \/ record_present(r) PROVE Rest
  <2>1. \A c \in {"evict", "insert"} : [rd[r] EXCEPT !.pc = c] \in ReaderState
    <3>1. rd[r] \in [pc : {"get", "found", "missing", "evict", "insert"}, key : Key,
                     epoch : 1 .. MaxEpoch]
      BY <1>4, ReaderType DEF record_miss, record_present
    <3> QED BY <3>1 DEF ReaderState
  <2>2. rd' \in [Reader -> ReaderState]
    BY <1>4, <1>i, <2>1 DEF record_miss, record_present, TypeOK
  <2> QED BY <1>4, <1>0, <2>2 DEF record_miss, record_present, positive, TypeOK
<1>5. ASSUME NEW u \in Uploader, NEW k \in setup.keys, begin_write(u, k) \/ PackedImport(u, k)
      PROVE  Rest
  <2>1. \A c \in {"put", "confirm"} : [pc |-> c, key |-> k] \in UploaderState
    BY <1>0, <1>u
  <2> QED BY <1>5, <1>0, <2>1 DEF begin_write, PackedImport, positive, TypeOK
<1>6. ASSUME NEW u \in Uploader, UploadFails(u) \/ UploadInsert(u) PROVE Rest
  <2>1. up[u].key \in Key
    BY <1>6, UploaderType DEF UploadFails, UploadInsert
  <2>2. up' \in [Uploader -> UploaderState]
    BY <1>6, <1>i DEF UploadFails, UploadInsert, TypeOK
  <2> QED BY <1>6, <1>0, <2>1, <2>2 DEF UploadFails, UploadInsert, insert, positive, TypeOK
<1>7. ASSUME NEW u \in Uploader, Put(u) \/ confirm_present(u) PROVE Rest
  <2>1. up[u].key \in Key /\ up[u] \in [pc : {"put", "confirm", "insert"}, key : Key]
    BY <1>7, UploaderType DEF Put, confirm_present
  <2>2. \A c \in {"confirm", "insert"} : [up[u] EXCEPT !.pc = c] \in UploaderState
    BY <2>1 DEF UploaderState
  <2>3. up' \in [Uploader -> UploaderState]
    BY <1>7, <2>2 DEF Put, confirm_present, TypeOK
  <2> QED BY <1>7, <1>0, <2>1, <2>3 DEF Put, confirm_present, positive, TypeOK
<1>8. ASSUME NEW l \in setup.listers, ListBegin(l) \/ ListRevision(l) \/ List(l) \/ ListFails(l) PROVE Rest
  <2>1. /\ ls[l].pc \in {"epoch", "list"} => ls[l].epoch \in 0 .. MaxEpoch
        /\ ls[l].pc = "list" => ls[l].revision \in 0 .. MaxEpoch
    BY <1>0, ListerType DEF Begun
  <2>2. remote \in SUBSET Key
    BY DEF TypeOK
  <2>3. PICK x \in ListerState : ls' = [ls EXCEPT ![l] = x]
    <3>1. CASE ListBegin(l)
      BY <1>0, <3>1, <1>l DEF ListBegin
    <3>4. CASE ListRevision(l)
      BY <1>0, <3>4, <1>l, <2>1 DEF ListRevision
    <3>2. CASE List(l)
      BY <3>2, <1>l, <2>1, <2>2 DEF List
    <3>3. CASE ListFails(l)
      BY <3>3, <1>i DEF ListFails
    <3> QED BY <1>8, <3>1, <3>2, <3>3, <3>4
  <2>4. ls' \in [Lister -> ListerState]
    BY <1>0, <2>3 DEF TypeOK
  <2> QED BY <1>8, <1>0, <2>4 DEF ListBegin, ListRevision, List, ListFails, positive, TypeOK
<1>9. ASSUME NEW l \in setup.listers, remove_present_in(l) \/ populate_if_unchanged(l) PROVE Rest
  <2>1. /\ ls[l].keys \subseteq Key
        /\ ls[l] \in [pc : {"listed", "swap"}, epoch : 0 .. MaxEpoch, revision : 0 .. MaxEpoch,
                      keys : SUBSET Key]
    BY <1>0, <1>9, ListerType DEF remove_present_in, populate_if_unchanged
  <2>2. [ls[l] EXCEPT !.pc = "swap"] \in ListerState
    BY <2>1 DEF ListerState
  <2>3. ls' \in [Lister -> ListerState]
    BY <1>9, <1>i, <2>2 DEF remove_present_in, populate_if_unchanged, TypeOK
  <2> QED BY <1>9, <1>0, <2>1, <2>3 DEF remove_present_in, populate_if_unchanged, positive, TypeOK
<1>10. ASSUME NEW k \in setup.keys, Expire(k) \/ StoreElsewhere(k) \/ Delete(k) PROVE Rest
  BY <1>10, <1>0 DEF Expire, StoreElsewhere, Delete, positive, TypeOK
<1>11. CASE UNCHANGED vars
  BY <1>11 DEF vars, TypeOK, MaxEpoch, ReaderState, ListerState
<1>12. Rest
  <2>1. CASE UNCHANGED vars
    BY <2>1 DEF vars, TypeOK
  <2> QED
    BY <2>1, <1>1, <1>2, <1>3, <1>4, <1>5, <1>6, <1>7, <1>8, <1>9, <1>10 DEF Next, Exhausted
<1> QED BY <1>12, CachesStep, SetupFixed DEF TypeOK, Caches

\* Every step takes epochs that are new.
LEMMA FreshStep ==
  ASSUME TypeOK, Limits, Fresh, [Next]_vars
  PROVE  Fresh'
<1>0. /\ MaxEpoch \in Nat /\ setup.keys \subseteq Key /\ setup.listers \subseteq Lister
      /\ next_epoch \in Nat /\ revision \in Nat
  BY SetupTypes DEF TypeOK
<1>1. /\ next_epoch' \in Nat /\ next_epoch' >= next_epoch
      /\ \A k \in Key : entries'[k] <= next_epoch' /\ epochs'[k] <= next_epoch'
  BY <1>0, CachesStep, SetupFixed DEF Caches
<1>2. TypeOK'
  BY TypeStep
<1>3. \A r \in Reader :
         /\ rd[r] = Idle <=> rd[r].pc = "idle"
         /\ rd'[r] = Idle <=> rd'[r].pc = "idle"
         /\ rd[r].pc # "idle" => rd[r].epoch \in Nat
         /\ rd'[r].pc # "idle" => rd'[r].epoch \in Nat
  <2> TAKE r \in Reader
  <2>1. rd[r] \in ReaderState /\ rd'[r] \in ReaderState
    BY <1>2, SetupFixed DEF TypeOK
  <2> QED BY <1>0, <2>1 DEF ReaderState, Idle
<1>4. \A l \in Lister :
         /\ ls[l] = Idle <=> ls[l].pc = "idle"
         /\ ls'[l] = Idle <=> ls'[l].pc = "idle"
         /\ ls[l].pc # "idle" => ls[l].epoch \in Nat
         /\ Begun(l) => ls[l].pc # "idle" /\ ls[l].revision \in Nat
  <2> TAKE l \in Lister
  <2>1. ls[l] \in ListerState /\ ls'[l] \in ListerState
    BY <1>2, SetupFixed DEF TypeOK
  <2> QED BY <1>0, <2>1 DEF ListerState, Begun, Idle
<1>5. \/ \A r \in Reader : rd'[r] = Idle \/ (rd[r] # Idle /\ rd'[r].epoch = rd[r].epoch)
      \/ \E r \in Reader :
            /\ rd'[r].epoch = next_epoch' /\ next_epoch' > next_epoch
            /\ \A s \in Reader \ {r} : rd'[s] = rd[s]
  <2>1. ASSUME NEW r \in Reader, NEW k \in setup.keys, Demand(r, k) \/ Prefetch(r, k)
        PROVE  <1>5
    BY <1>0, <2>1 DEF Demand, Prefetch, NewEpoch, TypeOK
  <2>2. ASSUME NEW r \in Reader, Get(r) \/ record_miss(r) \/ record_present(r) PROVE <1>5
    <3>1. rd[r].pc # "idle" /\ rd[r] # Idle
      BY <1>3, <2>2 DEF Get, record_miss, record_present
    <3>2. rd'[r] = Idle \/ rd'[r].epoch = rd[r].epoch
      BY <2>2, <3>1, ReaderType DEF Get, record_miss, record_present, TypeOK
    <3>3. \A s \in Reader \ {r} : rd'[s] = rd[s]
      BY <2>2 DEF Get, record_miss, record_present, TypeOK
    <3> QED BY <3>1, <3>2, <3>3
  <2>3. ASSUME NEW r \in Reader, GiveUp(r) \/ ReaderInsert(r) \/ ReaderRemove(r) PROVE <1>5
    BY <2>3 DEF GiveUp, ReaderInsert, ReaderRemove, TypeOK
  <2>4. CASE rd' = rd
    BY <2>4
  <2> QED BY <2>1, <2>2, <2>3, <2>4
          DEF Next, vars, Exhausted, begin_write, PackedImport, Put, UploadFails, confirm_present, UploadInsert,
              ListBegin, ListRevision, List, ListFails, remove_present_in, populate_if_unchanged, Expire,
              StoreElsewhere, Delete
<1>6. /\ \A r \in Reader : rd'[r] # Idle => rd'[r].epoch <= next_epoch'
      /\ \A r, s \in Reader :
            rd'[r] # Idle /\ rd'[s] # Idle /\ rd'[r].epoch = rd'[s].epoch => r = s
  <2>1. \A r \in Reader : rd[r] # Idle => rd[r].epoch \in Nat /\ rd[r].epoch <= next_epoch
    BY <1>3 DEF Fresh
  <2>2. \A r, s \in Reader :
            rd[r] # Idle /\ rd[s] # Idle /\ rd[r].epoch = rd[s].epoch => r = s
    BY DEF Fresh
  <2>3. CASE \A r \in Reader : rd'[r] = Idle \/ (rd[r] # Idle /\ rd'[r].epoch = rd[r].epoch)
    BY <1>0, <1>1, <2>1, <2>2, <2>3
  <2>4. CASE \E r \in Reader :
            /\ rd'[r].epoch = next_epoch' /\ next_epoch' > next_epoch
            /\ \A s \in Reader \ {r} : rd'[s] = rd[s]
    BY <1>0, <1>1, <2>1, <2>2, <2>4
  <2> QED BY <1>5, <2>3, <2>4
<1>7. revision' \in Nat /\ revision' >= revision
  BY <1>0 DEF Next, vars, Exhausted, Demand, Prefetch, Get, GiveUp, record_miss, record_present,
         ReaderInsert, ReaderRemove, begin_write, PackedImport, Put, UploadFails, confirm_present, UploadInsert,
         ListBegin, ListRevision, List, ListFails, remove_present_in, populate_if_unchanged, Expire,
         StoreElsewhere, Delete, insert, remove, positive
<1>8. \A l \in Lister :
         \/ ls'[l] = Idle
         \/ ls'[l].epoch = next_epoch /\ ls'[l].pc = "epoch"
         \/ /\ ls[l] # Idle /\ ls'[l].epoch = ls[l].epoch
            /\ Begun(l)' => ls'[l].revision = revision \/ (Begun(l) /\ ls'[l].revision = ls[l].revision)
  <2>1. ASSUME NEW l \in setup.listers, ListBegin(l) \/ ListFails(l) \/ populate_if_unchanged(l)
        PROVE  <1>8
    BY <1>0, <1>4, <2>1 DEF ListBegin, ListFails, populate_if_unchanged, TypeOK, Begun
  <2>2. ASSUME NEW l \in setup.listers, ListRevision(l) \/ List(l) \/ remove_present_in(l)
        PROVE  <1>8
    <3>1. ls[l].pc # "idle" /\ ls[l] # Idle
      BY <1>0, <1>4, <2>2 DEF ListRevision, List, remove_present_in
    <3>2. /\ ls'[l].epoch = ls[l].epoch
          /\ ls'[l].revision = revision \/ (Begun(l) /\ ls'[l].revision = ls[l].revision)
      BY <1>0, <2>2, <3>1, ListerType DEF ListRevision, List, remove_present_in, TypeOK, Begun
    <3>3. \A m \in Lister \ {l} : ls'[m] = ls[m]
      BY <2>2 DEF ListRevision, List, remove_present_in, TypeOK
    <3> QED BY <1>0, <1>4, <3>1, <3>2, <3>3 DEF Begun
  <2>3. CASE ls' = ls
    BY <1>4, <2>3 DEF Begun
  <2> QED BY <2>1, <2>2, <2>3
          DEF Next, vars, Exhausted, Demand, Prefetch, Get, GiveUp, record_miss, record_present,
              ReaderInsert, ReaderRemove, begin_write, PackedImport, Put, UploadFails, confirm_present,
              UploadInsert, Expire, StoreElsewhere, Delete
<1>9. \A l \in Lister : /\ ls'[l] # Idle => ls'[l].epoch <= next_epoch'
                        /\ Begun(l)' => ls'[l].revision <= revision'
  <2> TAKE l \in Lister
  <2>1. CASE ls'[l] = Idle
    BY <1>4, <2>1 DEF Begun, Idle
  <2>2. CASE ls'[l].epoch = next_epoch /\ ls'[l].pc = "epoch"
    BY <1>0, <1>1, <2>2 DEF Begun
  <2>3. CASE /\ ls[l] # Idle /\ ls'[l].epoch = ls[l].epoch
             /\ Begun(l)' => \/ ls'[l].revision = revision
                             \/ Begun(l) /\ ls'[l].revision = ls[l].revision
    <3>1. ls'[l].epoch <= next_epoch'
      BY <1>0, <1>1, <1>4, <2>3 DEF Fresh
    <3>2. Begun(l)' => ls'[l].revision <= revision'
      BY <1>0, <1>4, <1>7, <2>3 DEF Fresh
    <3> QED BY <3>1, <3>2
  <2> QED BY <1>8, <2>1, <2>2, <2>3
<1> QED BY <1>1, <1>6, <1>9 DEF Fresh

\* One reader goes on with its restore, and the others stay.
ReaderMove(r, from, to) ==
    /\ rd[r].pc = from /\ rd'[r].pc = to
    /\ rd'[r].key = rd[r].key /\ rd'[r].epoch = rd[r].epoch
    /\ \A s \in Reader \ {r} : rd'[s] = rd[s]

\* The answer of the remote, and an observation that is still the latest, send a
\* reader on.
LEMMA ReaderMoves ==
  ASSUME TypeOK, NEW r \in Reader
  PROVE  /\ Get(r) => IF rd[r].key \in remote THEN ReaderMove(r, "get", "found")
                                              ELSE ReaderMove(r, "get", "missing")
         /\ record_miss(r) /\ IsLatest(rd[r].key, rd[r].epoch) =>
               ReaderMove(r, "missing", "evict")
         /\ record_present(r) /\ IsLatest(rd[r].key, rd[r].epoch) =>
               ReaderMove(r, "found", "insert")
<1>1. ASSUME Get(r)
      PROVE  IF rd[r].key \in remote THEN ReaderMove(r, "get", "found")
                                     ELSE ReaderMove(r, "get", "missing")
  BY <1>1 DEF Get, ReaderMove, TypeOK
<1>2. ASSUME record_miss(r), IsLatest(rd[r].key, rd[r].epoch)
      PROVE  ReaderMove(r, "missing", "evict")
  <2>1. rd' = [rd EXCEPT ![r].pc = "evict"] /\ rd[r].pc = "missing"
    BY <1>2 DEF record_miss
  <2>2. rd[r] \in [pc : {"get", "found", "missing", "evict", "insert"}, key : Key,
                   epoch : 1 .. MaxEpoch]
    BY <2>1, ReaderType
  <2> QED BY <2>1, <2>2 DEF ReaderMove, TypeOK
<1>3. ASSUME record_present(r), IsLatest(rd[r].key, rd[r].epoch)
      PROVE  ReaderMove(r, "found", "insert")
  <2>1. rd' = [rd EXCEPT ![r].pc = "insert"] /\ rd[r].pc = "found"
    BY <1>3 DEF record_present
  <2>2. rd[r] \in [pc : {"get", "found", "missing", "evict", "insert"}, key : Key,
                   epoch : 1 .. MaxEpoch]
    BY <2>1, ReaderType
  <2> QED BY <2>1, <2>2 DEF ReaderMove, TypeOK
<1> QED BY <1>1, <1>2, <1>3

\* Reading the idle state.
LEMMA IdlePc == Idle.pc = "idle"
  BY DEF Idle

\* A reader that ends, or begins with a request, and the others as they were.
ReaderEnds(r) == rd'[r].pc = "idle" /\ \A s \in Reader \ {r} : rd'[s] = rd[s]
ReaderBegins(r, k) ==
    /\ rd[r].pc = "idle" /\ rd'[r].pc = "get" /\ rd'[r].key = k
    /\ \A s \in Reader \ {r} : rd'[s] = rd[s]

\* An observation that is no longer the latest ends its restore, as the last step
\* does; a request begins one.
LEMMA ReaderEnd ==
  ASSUME TypeOK, NEW r \in Reader
  PROVE  /\ GiveUp(r) \/ ReaderInsert(r) \/ ReaderRemove(r) => ReaderEnds(r)
         /\ record_miss(r) /\ ~IsLatest(rd[r].key, rd[r].epoch) => ReaderEnds(r)
         /\ record_present(r) /\ ~IsLatest(rd[r].key, rd[r].epoch) => ReaderEnds(r)
         /\ \A k \in setup.keys : Demand(r, k) \/ Prefetch(r, k) => ReaderBegins(r, k)
  BY IdlePc DEF GiveUp, ReaderInsert, ReaderRemove, record_miss, record_present, Demand, Prefetch,
         ReaderEnds, ReaderBegins, TypeOK

\* What was found or stored is there, or was deleted.
LEMMA SeenStep ==
  ASSUME TypeOK, Seen, [Next]_vars
  PROVE  Seen'
<1>1. ASSUME NEW r \in Reader, NEW k \in setup.keys, Demand(r, k) \/ Prefetch(r, k) PROVE Seen'
  <2>1. ReaderBegins(r, k) /\ UNCHANGED <<remote, deleted, noted, up>>
    BY <1>1, ReaderEnd DEF Demand, Prefetch, fixed
  <2> QED BY <2>1 DEF Seen, ReaderBegins
<1>2. ASSUME NEW r \in Reader, Get(r) PROVE Seen'
  <2>1. UNCHANGED <<remote, deleted, noted, up>>
    BY <1>2 DEF Get, fixed
  <2> QED BY <1>2, <2>1, ReaderMoves DEF Seen, ReaderMove
<1>3. ASSUME NEW r \in Reader, record_miss(r) \/ record_present(r) PROVE Seen'
  <2>1. UNCHANGED <<remote, deleted, noted, up>>
    BY <1>3 DEF record_miss, record_present, fixed
  <2>2. ReaderEnds(r) \/ ReaderMove(r, "missing", "evict") \/ ReaderMove(r, "found", "insert")
    BY <1>3, ReaderMoves, ReaderEnd
  <2> QED BY <2>1, <2>2 DEF Seen, ReaderMove, ReaderEnds
<1>4. ASSUME NEW r \in Reader, GiveUp(r) \/ ReaderInsert(r) \/ ReaderRemove(r) PROVE Seen'
  <2>1. ReaderEnds(r) /\ UNCHANGED <<remote, deleted, noted, up>>
    BY <1>4, ReaderEnd DEF GiveUp, ReaderInsert, ReaderRemove, fixed
  <2> QED BY <2>1 DEF Seen, ReaderEnds
<1>5. ASSUME NEW u \in Uploader, NEW k \in setup.keys, begin_write(u, k) \/ PackedImport(u, k)
      PROVE  Seen'
  BY <1>5 DEF begin_write, PackedImport, fixed, Seen, TypeOK
<1>6. ASSUME NEW u \in Uploader, UploadFails(u) \/ UploadInsert(u) PROVE Seen'
  BY <1>6, IdlePc DEF UploadFails, UploadInsert, fixed, Seen, TypeOK
<1>7. ASSUME NEW u \in Uploader, Put(u) \/ confirm_present(u) PROVE Seen'
  <2>1. up[u] \in [pc : {"put", "confirm", "insert"}, key : Key]
    BY <1>7, UploaderType DEF Put, confirm_present
  <2>2. UNCHANGED <<rd, deleted>>
    BY <1>7 DEF Put, confirm_present, fixed
  <2> QED BY <1>7, <2>1, <2>2 DEF Put, confirm_present, Seen, TypeOK
<1>8. ASSUME NEW l \in setup.listers,
             \/ ListBegin(l) \/ ListRevision(l) \/ List(l) \/ ListFails(l)
             \/ remove_present_in(l) \/ populate_if_unchanged(l)
      PROVE  Seen'
  BY <1>8 DEF ListBegin, ListRevision, List, ListFails, remove_present_in, populate_if_unchanged, fixed, Seen
<1>9. ASSUME NEW k \in setup.keys, Expire(k) \/ StoreElsewhere(k) \/ Delete(k) PROVE Seen'
  BY <1>9 DEF Expire, StoreElsewhere, Delete, fixed, Seen
<1>10. CASE UNCHANGED vars
  BY <1>10 DEF vars, Seen
<1> QED
  BY <1>1, <1>2, <1>3, <1>4, <1>5, <1>6, <1>7, <1>8, <1>9, <1>10 DEF Next, Exhausted

\* A key that is known is in the remote.
LEMMA KnownIsThere ==
  ASSUME TypeOK, Seen, NEW k \in Key, Known(k)
  PROVE  k \in remote
  BY DEF TypeOK, Seen, Known

\* A step that neither moves a reader nor makes a key known leaves the late
\* observations of known keys behind.
LEMMA OutdatedKept ==
  ASSUME TypeOK, Limits, Fresh, Outdated, [Next]_vars, NEW k \in Key, Known(k),
         \A r \in Reader : rd'[r].pc = "missing" /\ rd'[r].key = k =>
                              rd[r].pc = "missing" /\ rd[r].key = k /\ rd'[r].epoch = rd[r].epoch
  PROVE  /\ entries'[k] = 0
         /\ \A r \in Reader : rd'[r].pc = "missing" /\ rd'[r].key = k => epochs'[k] # rd'[r].epoch
<1>1. /\ entries[k] = 0
      /\ \A r \in Reader : rd[r].pc = "missing" /\ rd[r].key = k => epochs[k] # rd[r].epoch
  BY DEF Outdated, IsLatest
<1>2. /\ epochs'[k] \in {0, epochs[k]} \/ epochs'[k] > next_epoch
      /\ \/ entries'[k] \in {0, entries[k]}
         \/ \E r \in Reader : Recorded(r) /\ rd[r].key = k /\ entries'[k] = rd[r].epoch
  BY CachesStep
<1>3. entries'[k] = 0
  BY <1>1, <1>2 DEF Recorded, IsLatest
<1>4. \A r \in Reader : rd[r].pc = "missing" =>
         rd[r].epoch \in 1 .. MaxEpoch /\ rd[r].epoch <= next_epoch
  BY ReaderType DEF Fresh
<1>5. next_epoch \in Nat /\ MaxEpoch \in Nat
  BY SetupTypes DEF TypeOK
<1> QED BY <1>1, <1>2, <1>3, <1>4, <1>5

\* A key becomes known only with a new epoch, by which every earlier observation
\* of it is outdated.
LEMMA OutdatedStep ==
  ASSUME TypeOK, Limits, Fresh, Seen, Outdated, [Next]_vars
  PROVE  Outdated'
<1> SUFFICES ASSUME NEW k \in Key, Known(k)'
             PROVE  /\ entries'[k] = 0
                    /\ \A r \in Reader : rd'[r].pc = "missing" /\ rd'[r].key = k =>
                                            epochs'[k] # rd'[r].epoch
  BY DEF Outdated, IsLatest
<1> DEFINE Late == \A r \in Reader : rd'[r].pc = "missing" /\ rd'[r].key = k =>
                      rd[r].pc = "missing" /\ rd[r].key = k /\ rd'[r].epoch = rd[r].epoch
           Goal == /\ entries'[k] = 0
                   /\ \A r \in Reader : rd'[r].pc = "missing" /\ rd'[r].key = k =>
                                           epochs'[k] # rd'[r].epoch
<1>0. ASSUME Known(k), Late PROVE Goal
  BY <1>0, OutdatedKept
<1> HIDE DEF Goal, Late
<1>1. ASSUME NEW r \in Reader, NEW j \in setup.keys, Demand(r, j) \/ Prefetch(r, j) PROVE Goal
  <2>1. ReaderBegins(r, j) /\ UNCHANGED <<deleted, noted>>
    BY <1>1, ReaderEnd DEF Demand, Prefetch, fixed
  <2> QED BY <2>1, <1>0 DEF Known, ReaderBegins, Late
<1>2. ASSUME NEW r \in Reader, Get(r) PROVE Goal
  <2>1. UNCHANGED <<deleted, noted>>
    BY <1>2 DEF Get, fixed
  <2>2. Known(k)
    BY <1>2, <2>1, ReaderMoves DEF ReaderMove, Known
  <2>3. k \in remote
    BY <2>2, KnownIsThere
  <2>4. Late
    BY <1>2, <2>3, ReaderMoves DEF ReaderMove, Late
  <2> QED BY <1>0, <2>2, <2>4
<1>3. ASSUME NEW r \in Reader, GiveUp(r) \/ ReaderInsert(r) \/ ReaderRemove(r) PROVE Goal
  <2>1. ReaderEnds(r) /\ UNCHANGED <<deleted, noted>>
    BY <1>3, ReaderEnd DEF GiveUp, ReaderInsert, ReaderRemove, fixed
  <2> QED BY <2>1, <1>0 DEF Known, ReaderEnds, Late
<1>4. ASSUME NEW r \in Reader, record_miss(r) PROVE Goal
  <2>1. UNCHANGED <<deleted, noted>>
    BY <1>4 DEF record_miss, fixed
  <2>2. ReaderEnds(r) \/ ReaderMove(r, "missing", "evict")
    BY <1>4, ReaderMoves, ReaderEnd
  <2> QED BY <2>1, <2>2, <1>0 DEF Known, ReaderEnds, ReaderMove, Late
<1>5. ASSUME NEW r \in Reader, record_present(r) PROVE Goal
  <2>1. UNCHANGED <<deleted, noted, epochs>>
    BY <1>5 DEF record_present, fixed
  <2>2. CASE ReaderEnds(r)
    BY <2>1, <2>2, <1>0 DEF Known, ReaderEnds, Late
  <2>3. CASE ReaderMove(r, "found", "insert") /\ IsLatest(rd[r].key, rd[r].epoch)
    <3>1. CASE Known(k)
      BY <2>3, <3>1, <1>0 DEF ReaderMove, Late
    <3>2. CASE ~Known(k)
      <4>1. k = rd[r].key
        BY <2>1, <2>3, <3>2 DEF Known, ReaderMove
      <4>2. entries'[k] = 0
        BY <1>5, <2>3, <4>1 DEF record_present, TypeOK
      <4>3. \A s \in Reader : rd'[s].pc = "missing" => s # r /\ rd'[s] = rd[s]
        BY <2>3 DEF ReaderMove
      <4>4. \A s \in Reader : rd[s].pc # "idle" <=> rd[s] # Idle
        BY ReaderType
      <4>5. \A s \in Reader : rd[s].pc = "missing" /\ s # r => rd[s].epoch # rd[r].epoch
        BY <2>3, <4>4 DEF Fresh, ReaderMove
      <4> QED BY <2>1, <2>3, <4>1, <4>2, <4>3, <4>5 DEF IsLatest, Goal
    <3> QED BY <3>1, <3>2
  <2> QED BY <1>5, <2>2, <2>3, ReaderMoves, ReaderEnd
<1>6. ASSUME NEW u \in Uploader, confirm_present(u) PROVE Goal
  <2>1. UNCHANGED <<rd, deleted>> /\ noted' \subseteq noted \cup {up[u].key}
    BY <1>6 DEF confirm_present, fixed
  <2>2. CASE Known(k)
    BY <2>1, <2>2, <1>0 DEF Late
  <2>3. CASE ~Known(k)
    <3>1. k = up[u].key
      BY <2>1, <2>3 DEF Known
    <3>2. entries'[k] = 0
      BY <1>6, <3>1 DEF confirm_present, TypeOK
    <3>3. epochs'[k] \in {0, next_epoch + 1}
      BY <1>6, <3>1, NewEpochFacts, CachesHold DEF confirm_present
    <3>4. \A r \in Reader : rd[r].pc = "missing" =>
             rd[r].epoch \in 1 .. MaxEpoch /\ rd[r].epoch <= next_epoch
      BY ReaderType DEF Fresh
    <3>5. next_epoch \in Nat /\ MaxEpoch \in Nat
      BY SetupTypes DEF TypeOK
    <3> QED BY <2>1, <3>2, <3>3, <3>4, <3>5 DEF Goal
  <2> QED BY <2>2, <2>3
<1>7. ASSUME UNCHANGED <<rd, noted, deleted>> PROVE Goal
  BY <1>7, <1>0 DEF Known, Late
<1>8. ASSUME NEW j \in setup.keys, Delete(j) PROVE Goal
  <2>1. rd' = rd /\ noted' \subseteq noted /\ deleted \subseteq deleted'
    BY <1>8 DEF Delete
  <2> QED BY <2>1, <1>0 DEF Known, Late
<1>9. CASE UNCHANGED vars
  BY <1>9, <1>7 DEF vars, Goal
<1> QED
  BY <1>1, <1>2, <1>3, <1>4, <1>5, <1>6, <1>7, <1>8, <1>9
  DEF Next, Exhausted, Goal, begin_write, PackedImport, Put, UploadFails, UploadInsert, ListBegin, ListRevision, List,
      ListFails, remove_present_in, populate_if_unchanged, Expire, StoreElsewhere, fixed

\* A recorded miss is on its way to the index until it is taken out there.
LEMMA EvictingKept ==
  ASSUME TypeOK, [Next]_vars, NEW k \in Key, Evicting(k), ~Evicting(k)'
  PROVE  k \notin index' /\ revision' = revision + 1 /\ ls' = ls
<1>1. PICK e \in Reader : rd[e].pc = "evict" /\ rd[e].key = k
  BY DEF Evicting
<1>2. ~(rd'[e] = rd[e])
  BY <1>1 DEF Evicting
<1>3. ASSUME NEW r \in Reader, ReaderRemove(r)
      PROVE  k \notin index' /\ revision' = revision + 1 /\ ls' = ls
  <2>1. e = r
    BY <1>2, <1>3, ReaderEnd DEF ReaderEnds
  <2> QED BY <1>1, <1>3, <2>1 DEF ReaderRemove, remove
<1>4. ASSUME NEW r \in Reader, NEW j \in setup.keys, Demand(r, j) \/ Prefetch(r, j) PROVE FALSE
  BY <1>1, <1>2, <1>4, ReaderEnd DEF ReaderBegins
<1>5. ASSUME NEW r \in Reader, Get(r) PROVE FALSE
  BY <1>1, <1>2, <1>5, ReaderMoves DEF ReaderMove
<1>6. ASSUME NEW r \in Reader, record_miss(r) PROVE FALSE
  BY <1>1, <1>2, <1>6, ReaderMoves, ReaderEnd DEF ReaderMove, ReaderEnds, record_miss
<1>7. ASSUME NEW r \in Reader, record_present(r) PROVE FALSE
  BY <1>1, <1>2, <1>7, ReaderMoves, ReaderEnd DEF ReaderMove, ReaderEnds, record_present
<1>8. ASSUME NEW r \in Reader, GiveUp(r) \/ ReaderInsert(r) PROVE FALSE
  BY <1>1, <1>2, <1>8, ReaderEnd DEF ReaderEnds, GiveUp, ReaderInsert
<1>9. ASSUME rd' = rd PROVE FALSE
  BY <1>2, <1>9
<1>10. CASE UNCHANGED vars
  BY <1>9, <1>10 DEF vars
<1> QED
  BY <1>3, <1>4, <1>5, <1>6, <1>7, <1>8, <1>9, <1>10
  DEF Next, Exhausted, begin_write, PackedImport, Put, UploadFails, confirm_present, UploadInsert, ListBegin, ListRevision,
      List, ListFails, remove_present_in, populate_if_unchanged, Expire, StoreElsewhere, Delete

\* What a listing failed to notice stays so, and only its second read adds to it.
LEMMA BetweenGrows ==
  ASSUME [Next]_vars PROVE between \subseteq between'
  BY DEF Next, vars, fixed, Exhausted, Demand, Prefetch, Get, GiveUp, record_miss, record_present,
         ReaderInsert, ReaderRemove, begin_write, PackedImport, Put, UploadFails, confirm_present,
         UploadInsert, ListBegin, ListRevision, List, ListFails, remove_present_in,
         populate_if_unchanged, Expire, StoreElsewhere, Delete

\* A miss that is remembered after a step was so before, or is on its way.
LEMMA MissKept ==
  ASSUME TypeOK, Limits, Fresh, [Next]_vars, NEW k \in Key, Missed(k)', ~Evicting(k)'
  PROVE  entries'[k] = entries[k] /\ Missed(k) /\ entries'[k] \notin between'
<1>2. between \subseteq between'
  BY BetweenGrows
<1>3. entries'[k] # 0 /\ entries'[k] \notin between'
  BY DEF Missed
<1>1. \/ entries'[k] \in {0, entries[k]}
      \/ \E r \in Reader : Recorded(r) /\ rd[r].key = k /\ entries'[k] = rd[r].epoch
  BY CachesStep
<1> QED BY <1>1, <1>2, <1>3 DEF Recorded, Evicting, Missed

\* Only a restore or an upload that knows the key, or a listing that has it, puts
\* a key into the index.
LEMMA IndexGrows ==
  ASSUME TypeOK, Seen, [Next]_vars, NEW k \in Key \ deleted', k \in index', k \notin index
  PROVE  \/ Known(k)
         \/ \E l \in Lister : /\ ls[l].pc = "swap" /\ ls[l].revision = revision
                              /\ k \in ls[l].keys /\ rd' = rd
<1> DEFINE Goal == \/ Known(k)
                   \/ \E l \in Lister : /\ ls[l].pc = "swap" /\ ls[l].revision = revision
                                        /\ k \in ls[l].keys /\ rd' = rd
<1>1. ASSUME NEW r \in Reader, ReaderInsert(r) PROVE Goal
  BY <1>1 DEF ReaderInsert, insert, fixed, Known
<1>2. ASSUME NEW u \in Uploader, UploadInsert(u) PROVE Goal
  BY <1>2 DEF UploadInsert, insert, fixed, Known, Seen
<1>3. ASSUME NEW l \in setup.listers, populate_if_unchanged(l) PROVE Goal
  BY <1>3, SetupTypes DEF populate_if_unchanged, TypeOK
<1>4. ASSUME NEW r \in Reader, ReaderRemove(r) PROVE Goal
  BY <1>4 DEF ReaderRemove, remove
<1>5. ASSUME index' = index PROVE Goal
  BY <1>5
<1> QED
  BY <1>1, <1>2, <1>3, <1>4, <1>5
  DEF Next, vars, Exhausted, positive, Demand, Prefetch, Get, GiveUp, record_miss, record_present,
      begin_write, PackedImport, Put, UploadFails, confirm_present, ListBegin, ListRevision, List, ListFails,
      remove_present_in, Expire, StoreElsewhere, Delete

\* What was deleted counts as deleted for good.
LEMMA DeletedGrows ==
  ASSUME [Next]_vars PROVE deleted \subseteq deleted'
  BY DEF Next, vars, fixed, Exhausted, Demand, Prefetch, Get, GiveUp, record_miss, record_present,
         ReaderInsert, ReaderRemove, begin_write, PackedImport, Put, UploadFails, confirm_present, UploadInsert,
         ListBegin, ListRevision, List, ListFails, remove_present_in, populate_if_unchanged, Expire,
         StoreElsewhere, Delete

\* The views differ only while a miss is on its way to the index.
LEMMA ApartStep ==
  ASSUME KnowledgeInv, [Next]_vars
  PROVE  Apart'
<1> SUFFICES ASSUME NEW k \in Key \ deleted', Missed(k)', k \in index', ~Evicting(k)'
             PROVE  FALSE
  BY DEF Apart
<1> USE DEF KnowledgeInv
<1>1. Missed(k) /\ k \notin deleted
  BY MissKept, DeletedGrows
<1>2. ~Evicting(k)
  BY EvictingKept
<1>3. k \notin index
  BY <1>1, <1>2 DEF Apart
<1>4. ~Known(k)
  BY <1>1 DEF Outdated, Missed
<1>5. PICK l \in Lister : ls[l].pc = "swap" /\ ls[l].revision = revision /\ k \in ls[l].keys
  BY <1>3, <1>4, IndexGrows
<1>6. Current(l)
  BY <1>5 DEF Current, Begun
<1> QED BY <1>1, <1>2, <1>5, <1>6 DEF Listings

\* What the steps do to a listing that is under way.
LEMMA ListingMoves ==
  ASSUME TypeOK, [Next]_vars, NEW l \in Lister, ls'[l] # ls[l]
  PROVE  /\ UNCHANGED <<rd, up, remote, noted, revision>>
         /\ \/ ls'[l] = Idle
            \/ ls'[l].pc = "epoch"
            \/ /\ ls[l].pc = "epoch" /\ ls'[l].pc = "list" /\ ls'[l].epoch = ls[l].epoch
               /\ UNCHANGED entries
               /\ \A k \in Unnoticed(l) : entries[k] \in between'
            \/ /\ ls[l].pc = "list" /\ ls'[l].pc = "listed" /\ ls'[l].keys = remote
               /\ ls'[l].epoch = ls[l].epoch /\ ls'[l].revision = ls[l].revision
               /\ UNCHANGED entries
            \/ /\ ls[l].pc = "listed" /\ ls'[l].pc = "swap" /\ ls'[l].keys = ls[l].keys
               /\ ls'[l].revision = ls[l].revision
               /\ entries' = [k \in Key |-> IF k \in Disproved(l) THEN 0 ELSE entries[k]]
<1> DEFINE Goal ==
         /\ UNCHANGED <<rd, up, remote, noted, revision>>
         /\ \/ ls'[l] = Idle
            \/ ls'[l].pc = "epoch"
            \/ /\ ls[l].pc = "epoch" /\ ls'[l].pc = "list" /\ ls'[l].epoch = ls[l].epoch
               /\ UNCHANGED entries
               /\ \A k \in Unnoticed(l) : entries[k] \in between'
            \/ /\ ls[l].pc = "list" /\ ls'[l].pc = "listed" /\ ls'[l].keys = remote
               /\ ls'[l].epoch = ls[l].epoch /\ ls'[l].revision = ls[l].revision
               /\ UNCHANGED entries
            \/ /\ ls[l].pc = "listed" /\ ls'[l].pc = "swap" /\ ls'[l].keys = ls[l].keys
               /\ ls'[l].revision = ls[l].revision
               /\ entries' = [k \in Key |-> IF k \in Disproved(l) THEN 0 ELSE entries[k]]
<1>0. setup.listers \subseteq Lister
  BY SetupTypes DEF TypeOK
<1>1. ASSUME NEW m \in setup.listers, ListBegin(m) PROVE Goal
  <2>1. m = l
    BY <1>0, <1>1 DEF ListBegin, TypeOK
  <2> QED BY <1>1, <2>1 DEF ListBegin, negative, positive, TypeOK
<1>6. ASSUME NEW m \in setup.listers, ListRevision(m) PROVE Goal
  <2>1. m = l
    BY <1>0, <1>6 DEF ListRevision, TypeOK
  <2>2. \A k \in Unnoticed(l) : entries[k] \in between'
    BY <1>6, <2>1 DEF ListRevision
  <2> QED BY <1>6, <2>1, <2>2 DEF ListRevision, negative, positive, TypeOK
<1>2. ASSUME NEW m \in setup.listers, List(m) PROVE Goal
  <2>1. m = l
    BY <1>0, <1>2 DEF List, TypeOK
  <2> QED BY <1>2, <2>1 DEF List, negative, positive, TypeOK
<1>3. ASSUME NEW m \in setup.listers, ListFails(m) \/ populate_if_unchanged(m) PROVE Goal
  <2>1. m = l
    BY <1>0, <1>3 DEF ListFails, populate_if_unchanged, TypeOK
  <2> QED BY <1>3, <2>1 DEF ListFails, populate_if_unchanged, negative, positive, TypeOK
<1>4. ASSUME NEW m \in setup.listers, remove_present_in(m) PROVE Goal
  <2>1. m = l
    BY <1>0, <1>4 DEF remove_present_in, TypeOK
  <2>2. /\ ls[l].pc = "listed" /\ ls' = [ls EXCEPT ![l].pc = "swap"]
        /\ entries' = [k \in Key |-> IF k \in Disproved(l) THEN 0 ELSE entries[k]]
        /\ UNCHANGED <<rd, up, remote, noted, revision>>
    BY <1>4, <2>1 DEF remove_present_in, positive
  <2>3. ls[l] \in [pc : {"listed", "swap"}, epoch : 0 .. MaxEpoch, revision : 0 .. MaxEpoch,
                   keys : SUBSET Key]
    BY <2>2, ListerType
  <2>4. ls'[l] = [ls[l] EXCEPT !.pc = "swap"]
    BY <2>2 DEF TypeOK
  <2>5. ls'[l].pc = "swap" /\ ls'[l].keys = ls[l].keys /\ ls'[l].revision = ls[l].revision
    BY <2>3, <2>4
  <2> QED BY <2>2, <2>5
<1>5. ASSUME ls' = ls PROVE Goal
  BY <1>5
<1> QED
  BY <1>1, <1>2, <1>3, <1>4, <1>5, <1>6
  DEF Next, vars, Exhausted, Demand, Prefetch, Get, GiveUp, record_miss, record_present,
      ReaderInsert, ReaderRemove, begin_write, PackedImport, Put, UploadFails, confirm_present, UploadInsert,
      Expire, StoreElsewhere, Delete

\* A key becomes noted with an upload that is yet to insert it, and the insert
\* moves the revision on.
LEMMA NotedMoves ==
  ASSUME TypeOK, [Next]_vars, NEW k \in Key
  PROVE  /\ k \in noted' \ noted => \E u \in Uploader : up'[u].pc = "insert" /\ up'[u].key = k
         /\ \A u \in Uploader : up[u].pc = "insert" /\ up[u].key = k =>
               up'[u] = up[u] \/ (revision' = revision + 1 /\ ls' = ls)
<1> DEFINE Goal ==
         /\ k \in noted' \ noted => \E u \in Uploader : up'[u].pc = "insert" /\ up'[u].key = k
         /\ \A u \in Uploader : up[u].pc = "insert" /\ up[u].key = k =>
               up'[u] = up[u] \/ (revision' = revision + 1 /\ ls' = ls)
<1>1. ASSUME NEW u \in Uploader, confirm_present(u) PROVE Goal
  <2>1. /\ up[u].pc = "confirm" /\ up' = [up EXCEPT ![u].pc = "insert"]
        /\ noted' = noted \cup ({up[u].key} \cap remote)
    BY <1>1 DEF confirm_present
  <2>2. up[u] \in [pc : {"put", "confirm", "insert"}, key : Key]
    BY <2>1, UploaderType
  <2>3. up'[u].pc = "insert" /\ up'[u].key = up[u].key /\ \A v \in Uploader \ {u} : up'[v] = up[v]
    BY <2>1, <2>2 DEF TypeOK
  <2> QED BY <2>1, <2>3
<1>2. ASSUME NEW u \in Uploader, UploadInsert(u) PROVE Goal
  BY <1>2 DEF UploadInsert, insert, TypeOK
<1>3. ASSUME NEW u \in Uploader, Put(u) \/ UploadFails(u) PROVE Goal
  BY <1>3 DEF Put, UploadFails, TypeOK
<1>4. ASSUME NEW u \in Uploader, NEW j \in setup.keys, begin_write(u, j) \/ PackedImport(u, j)
      PROVE  Goal
  BY <1>4, UploaderType DEF begin_write, PackedImport, TypeOK
<1>5. ASSUME UNCHANGED up, noted' \subseteq noted PROVE Goal
  BY <1>5
<1> QED
  BY <1>1, <1>2, <1>3, <1>4, <1>5
  DEF Next, vars, Exhausted, Demand, Prefetch, Get, GiveUp, record_miss, record_present,
      ReaderInsert, ReaderRemove, ListBegin, ListRevision, List, ListFails, remove_present_in,
      populate_if_unchanged, Expire, StoreElsewhere, Delete

\* A listing whose revision is the index's knows of every miss and upload.
LEMMA ListingsStep ==
  ASSUME KnowledgeInv, [Next]_vars
  PROVE  Listings'
<1> USE DEF KnowledgeInv
<1> SUFFICES ASSUME NEW l \in Lister, NEW k \in Key, Current(l)'
             PROVE  /\ Missed(k)' /\ ~Evicting(k)' =>
                          IF ls'[l].pc = "swap" THEN k \notin ls'[l].keys
                                                ELSE entries'[k] <= ls'[l].epoch
                    /\ ls'[l].pc \in {"listed", "swap"} /\ k \in noted' \ ls'[l].keys =>
                          \E u \in Uploader : up'[u].pc = "insert" /\ up'[u].key = k
  BY DEF Listings
<1>0. /\ Begun(l) => ls[l].revision \in Nat
      /\ revision \in Nat /\ next_epoch \in Nat
      /\ ls[l] = Idle <=> ls[l].pc = "idle"
      /\ Begun(l) => ls[l].revision <= revision
      /\ entries[k] \in Nat
      /\ ls[l].pc # "idle" => ls[l].epoch \in Nat
      /\ noted \subseteq remote
  BY ListerType, SetupTypes DEF Fresh, TypeOK
<1>1. ls' = ls => revision' # revision + 1
  BY <1>0 DEF Current, Begun
<1>2. Missed(k)' /\ ~Evicting(k)' =>
         IF ls'[l].pc = "swap" THEN k \notin ls'[l].keys ELSE entries'[k] <= ls'[l].epoch
  <2> SUFFICES ASSUME Missed(k)', ~Evicting(k)'
               PROVE  IF ls'[l].pc = "swap" THEN k \notin ls'[l].keys
                                            ELSE entries'[k] <= ls'[l].epoch
    OBVIOUS
  <2>1. entries'[k] = entries[k] /\ Missed(k) /\ entries[k] # 0 /\ entries[k] \notin between'
    BY MissKept DEF Missed
  <2>2. ~Evicting(k)
    BY <1>1, EvictingKept
  <2>3. CASE ls'[l] = ls[l]
    <3>1. revision' = revision
      <4>1. revision' \in {revision, revision + 1}
        BY DEF Next, vars, Exhausted, Demand, Prefetch, Get, GiveUp, record_miss, record_present,
               ReaderInsert, ReaderRemove, begin_write, PackedImport, Put, UploadFails, confirm_present,
               UploadInsert, ListBegin, ListRevision, List, ListFails, remove_present_in,
               populate_if_unchanged, Expire, StoreElsewhere, Delete, insert, remove, positive
      <4> QED BY <1>0, <2>3, <4>1 DEF Current, Begun
    <3>2. Current(l)
      BY <2>3, <3>1 DEF Current, Begun
    <3> QED BY <2>1, <2>2, <2>3, <3>2 DEF Listings
  <2>4. CASE ls'[l] # ls[l]
    <3>1. revision' = revision /\ ls'[l] # Idle
      BY <2>4, ListingMoves, IdlePc DEF Current, Begun
    <3>5. ls'[l].pc # "epoch"
      BY DEF Current, Begun
    <3>2. CASE /\ ls[l].pc = "epoch" /\ ls'[l].pc = "list" /\ ls'[l].epoch = ls[l].epoch
               /\ \A j \in Unnoticed(l) : entries[j] \in between'
      <4>1. k \notin Unnoticed(l)
        BY <2>1, <3>2
      <4> QED BY <1>0, <2>1, <2>2, <3>2, <4>1 DEF Unnoticed
    <3>3. CASE /\ ls[l].pc = "list" /\ ls'[l].pc = "listed"
               /\ ls'[l].epoch = ls[l].epoch /\ ls'[l].revision = ls[l].revision
      <4>1. Current(l)
        BY <1>0, <3>1, <3>3 DEF Current, Begun
      <4> QED BY <2>1, <2>2, <3>3, <4>1 DEF Listings
    <3>4. CASE /\ ls[l].pc = "listed" /\ ls'[l].pc = "swap" /\ ls'[l].keys = ls[l].keys
               /\ ls'[l].revision = ls[l].revision
               /\ entries' = [j \in Key |-> IF j \in Disproved(l) THEN 0 ELSE entries[j]]
      <4>1. Current(l)
        BY <1>0, <3>1, <3>4 DEF Current, Begun
      <4>2. entries[k] <= ls[l].epoch
        BY <2>1, <2>2, <3>4, <4>1 DEF Listings
      <4>3. k \notin Disproved(l)
        BY <2>1, <3>4
      <4> QED BY <2>1, <3>4, <4>2, <4>3 DEF Disproved
    <3> QED BY <2>4, <3>1, <3>2, <3>3, <3>4, <3>5, ListingMoves
  <2> QED BY <2>3, <2>4
<1>3. ls'[l].pc \in {"listed", "swap"} /\ k \in noted' \ ls'[l].keys =>
         \E u \in Uploader : up'[u].pc = "insert" /\ up'[u].key = k
  <2> SUFFICES ASSUME ls'[l].pc \in {"listed", "swap"}, k \in noted', k \notin ls'[l].keys,
                      ~(\E u \in Uploader : up'[u].pc = "insert" /\ up'[u].key = k)
               PROVE  FALSE
    OBVIOUS
  <2>1. k \in noted /\ ~(\E u \in Uploader : up[u].pc = "insert" /\ up[u].key = k)
    BY <1>1, NotedMoves
  <2>2. /\ ls[l].pc \in {"listed", "swap"}
        /\ ls'[l].keys = ls[l].keys /\ ls'[l].revision = ls[l].revision
    BY <1>0, <2>1, ListingMoves, IdlePc DEF Current, Begun
  <2>3. revision' = revision
    <3>1. revision' \in {revision, revision + 1} /\ (revision' # revision => ls' = ls)
      BY DEF Next, vars, Exhausted, Demand, Prefetch, Get, GiveUp, record_miss, record_present,
             ReaderInsert, ReaderRemove, begin_write, PackedImport, Put, UploadFails, confirm_present,
             UploadInsert, ListBegin, ListRevision, List, ListFails, remove_present_in,
             populate_if_unchanged, Expire, StoreElsewhere, Delete, insert, remove, positive
    <3> QED BY <1>1, <3>1
  <2>4. Current(l)
    BY <1>0, <2>2, <2>3 DEF Current, Begun
  <2> QED BY <2>1, <2>2, <2>4 DEF Listings
<1> QED BY <1>2, <1>3

-----------------------------------------------------------------------------
\* A daemon that starts knows nothing.
LEMMA KnowledgeInitially == Init => KnowledgeInv
<1> SUFFICES ASSUME Init PROVE KnowledgeInv
  OBVIOUS
<1>0. MaxEpoch \in Nat /\ MaxEntries \in Nat
  BY SetupTypes, KnowledgeAssumption DEF Init, KnowledgeAssumption
<1>1. TypeOK
  <2>1. Idle \in ReaderState /\ Idle \in UploaderState /\ Idle \in ListerState
    BY DEF ReaderState, UploaderState, ListerState
  <2>2. 0 \in 0 .. MaxEpoch
    BY <1>0
  <2> QED BY <2>1, <2>2 DEF Init, TypeOK
<1>2. Limits
  <2>1. Remembered(entries) = {} /\ Remembered(epochs) = {}
    BY DEF Init, Remembered
  <2> QED BY <1>0, <2>1, FS_EmptySet DEF Limits
<1>3. Fresh /\ Seen /\ Outdated /\ Apart /\ Listings
  BY IdlePc DEF Init, Fresh, Seen, Outdated, Known, Apart, Listings, Current, Begun
<1> QED BY <1>1, <1>2, <1>3 DEF KnowledgeInv

\* Every step preserves the invariant.
LEMMA KnowledgeStep == KnowledgeInv /\ [Next]_vars => KnowledgeInv'
<1> SUFFICES ASSUME KnowledgeInv, [Next]_vars PROVE KnowledgeInv'
  OBVIOUS
<1>1. TypeOK /\ Limits /\ Fresh /\ Seen /\ Outdated /\ Apart /\ Listings
  BY DEF KnowledgeInv
<1>2. TypeOK' /\ Fresh'
  BY <1>1, TypeStep, FreshStep
<1>3. Limits'
  BY <1>1, CachesStep DEF Caches
<1>4. Seen' /\ Outdated'
  BY <1>1, SeenStep, OutdatedStep
<1>5. Apart' /\ Listings'
  BY ApartStep, ListingsStep
<1> QED BY <1>2, <1>3, <1>4, <1>5 DEF KnowledgeInv

\* The caches of misses and of epochs never exceed their limits, an epoch is given
\* out once, and the two views differ only while a miss is on its way.
THEOREM KnowledgeInvariant == Spec => []KnowledgeInv
  BY KnowledgeInitially, KnowledgeStep, PTL DEF Spec

\* No key this daemon uploaded is remembered as missing: confirm_present clears
\* the miss and a restore that asked before the upload is refused by its epoch.
THEOREM UploadsNotNegative == Spec => []UploadNeverNegative
<1>1. KnowledgeInv => UploadNeverNegative
  BY DEF KnowledgeInv, TypeOK, Outdated, Known, UploadNeverNegative
<1> QED BY <1>1, KnowledgeInvariant, PTL

\* Once the restores and uploads of a key are over, a remembered miss is not also
\* in the index, whatever was forgotten for want of room, unless it fell between
\* the two reads with which one listing began.
THEOREM ViewsDoNotContradict == Spec => []ViewsAgree
<1>1. KnowledgeInv => ViewsAgree
  <2> SUFFICES ASSUME KnowledgeInv, NEW k \in Key \ deleted, Settled(k), Missed(k),
                      k \in index
               PROVE  FALSE
    BY DEF ViewsAgree
  <2>1. PICK r \in Reader : rd[r].pc = "evict" /\ rd[r].key = k
    BY DEF KnowledgeInv, Apart, Evicting
  <2> QED BY <2>1, IdlePc DEF Settled
<1> QED BY <1>1, KnowledgeInvariant, PTL

\* A listing that was under way during an upload is discarded or has the key: the
\* revision the upload moved on is not the one the listing began with.
THEOREM ListingsKeepUploads == Spec => ListingKeepsUploads
<1>1. ASSUME KnowledgeInv, NEW l \in Lister, NEW k \in noted, populate_if_unchanged(l),
             k \in index, Settled(k)
      PROVE  k \in index'
  <2>1. CASE revision = ls[l].revision
    <3>1. ls[l].pc = "swap" /\ index' = ls[l].keys
      BY <1>1, <2>1 DEF populate_if_unchanged
    <3>2. Current(l) /\ k \in Key
      BY <1>1, <2>1, <3>1 DEF Current, Begun, KnowledgeInv, TypeOK
    <3>3. ~(\E u \in Uploader : up[u].pc = "insert" /\ up[u].key = k)
      BY <1>1, IdlePc DEF Settled
    <3> QED BY <1>1, <3>1, <3>2, <3>3 DEF KnowledgeInv, Listings
  <2>2. CASE revision # ls[l].revision
    BY <1>1, <2>2 DEF populate_if_unchanged
  <2> QED BY <2>1, <2>2
<1>2. KnowledgeInv /\ [Next]_vars =>
         [\A l \in Lister, k \in noted :
            populate_if_unchanged(l) /\ k \in index /\ Settled(k) => k \in index']_vars
  BY <1>1
<1> QED BY <1>2, KnowledgeInvariant, PTL DEF Spec, ListingKeepsUploads
=============================================================================
