------------------------ MODULE CircuitBreakerProofs ------------------------
(***************************************************************************)
(* Proofs about CircuitBreaker, for any number of queries, any threshold   *)
(* and any number of half-open slots.                                      *)
(***************************************************************************)
EXTENDS CircuitBreaker, TLAPS

\* A closed breaker has counted every failure of the streak and is below its
\* threshold; a half-open one was entered after the pause and nothing has failed
\* since, and its slots and the query that opened it are all the trials.
ClosedInv == state = "closed" =>
                 /\ failureCount < MaxFailures
                 /\ streak <= failureCount
HalfOpenInv == state = "halfOpen" => ~cooling /\ trials = halfOpenReqs + 1
BreakerInv == TypeOK /\ ClosedInv /\ HalfOpenInv

LEMMA InitEstablishes == Init => BreakerInv
<1> SUFFICES ASSUME Init PROVE BreakerInv
  OBVIOUS
<1>1. cooling \in BOOLEAN /\ enabled \in BOOLEAN /\ query \in [Queries -> {"idle", "direct", "source"}]
  BY Zenon DEF Init
<1>2. state = "closed" /\ failureCount = 0 /\ halfOpenReqs = 0 /\ streak = 0 /\ trials = 0
  BY DEF Init
<1> QED BY <1>1, <1>2, BreakerAssumption, SMT DEF BreakerInv, TypeOK, ClosedInv, HalfOpenInv

\* What an admission leaves behind, whichever query it admits.
LEMMA AdmittedKeeps ==
    ASSUME BreakerInv, Admitted, UNCHANGED <<cooling, streak>>
    PROVE  /\ state' \in {"closed", "open", "halfOpen"}
           /\ failureCount' \in Nat /\ halfOpenReqs' \in 0 .. HalfOpenMaxReqs /\ trials' \in Nat
           /\ ClosedInv' /\ HalfOpenInv'
<1>1. CASE state = "closed" /\ UNCHANGED <<breaker, trials>>
  BY <1>1, SMT DEF BreakerInv, TypeOK, ClosedInv, HalfOpenInv, breaker
<1>2. CASE /\ state = "open" /\ ~cooling
           /\ state' = "halfOpen" /\ halfOpenReqs' = 0 /\ trials' = 1
           /\ UNCHANGED failureCount
  BY <1>2, BreakerAssumption, SMT DEF BreakerInv, TypeOK, ClosedInv, HalfOpenInv
<1>3. CASE /\ state = "halfOpen" /\ halfOpenReqs < HalfOpenMaxReqs
           /\ halfOpenReqs' = halfOpenReqs + 1 /\ trials' = trials + 1
           /\ UNCHANGED <<state, failureCount>>
  BY <1>3, BreakerAssumption, SMT DEF BreakerInv, TypeOK, ClosedInv, HalfOpenInv
<1> QED BY <1>1, <1>2, <1>3 DEF Admitted

LEMMA BeginKeeps ==
    ASSUME BreakerInv, NEW q \in Queries, Begin(q) PROVE BreakerInv'
<1>1. query' \in [Queries -> {"idle", "direct", "source"}]
  BY Zenon DEF Begin, BreakerInv, TypeOK
<1>2. UNCHANGED <<cooling, enabled, streak>>
  BY DEF Begin
<1>3. CASE Admitted
  BY <1>1, <1>2, <1>3, AdmittedKeeps, SMT DEF BreakerInv, TypeOK
<1>4. CASE UNCHANGED <<breaker, trials>>
  BY <1>1, <1>2, <1>4, SMT DEF BreakerInv, TypeOK, ClosedInv, HalfOpenInv, breaker
<1> QED BY <1>3, <1>4 DEF Begin

LEMMA SucceedKeeps ==
    ASSUME BreakerInv, NEW q \in Queries, Succeed(q) PROVE BreakerInv'
<1>1. query' \in [Queries -> {"idle", "direct", "source"}]
  BY Zenon DEF Succeed, End, BreakerInv, TypeOK
<1>2. UNCHANGED <<cooling, enabled, trials>>
  BY DEF Succeed, End
<1>3. CASE enabled
  <2>1. OnSuccess /\ streak' = 0
    BY <1>3 DEF Succeed
  <2> QED BY <1>1, <1>2, <2>1, BreakerAssumption, SMT
          DEF OnSuccess, BreakerInv, TypeOK, ClosedInv, HalfOpenInv
<1>4. CASE ~enabled
  <2>1. UNCHANGED breaker /\ streak' = IF enabled THEN 0 ELSE streak
    BY <1>4 DEF Succeed
  <2> QED BY <1>1, <1>2, <1>4, <2>1, SMT
          DEF breaker, BreakerInv, TypeOK, ClosedInv, HalfOpenInv
<1> QED BY <1>3, <1>4

LEMMA FailKeeps ==
    ASSUME BreakerInv, NEW q \in Queries, Fail(q) PROVE BreakerInv'
<1>1. query' \in [Queries -> {"idle", "direct", "source"}]
  BY Zenon DEF Fail, End, BreakerInv, TypeOK
<1>2. UNCHANGED <<enabled, trials>>
  BY DEF Fail, End
<1>3. CASE enabled
  <2>1. OnFailure /\ streak' = streak + 1
    BY <1>3 DEF Fail
  <2> QED BY <1>1, <1>2, <2>1, BreakerAssumption, SMT
          DEF OnFailure, BreakerInv, TypeOK, ClosedInv, HalfOpenInv
<1>4. CASE ~enabled
  <2>1. UNCHANGED <<breaker, cooling, streak>>
    BY <1>4 DEF Fail
  <2> QED BY <1>1, <1>2, <2>1, SMT DEF breaker, BreakerInv, TypeOK, ClosedInv, HalfOpenInv
<1> QED BY <1>3, <1>4

LEMMA NextKeeps == BreakerInv /\ [Next]_vars => BreakerInv'
<1> SUFFICES ASSUME BreakerInv, [Next]_vars PROVE BreakerInv'
  OBVIOUS
<1>1. ASSUME NEW q \in Queries, Begin(q) \/ Finish(q) PROVE BreakerInv'
  <2>1. ASSUME BreakOff(q) PROVE BreakerInv'
    <3>1. query' \in [Queries -> {"idle", "direct", "source"}]
      BY <2>1, Zenon DEF BreakOff, End, BreakerInv, TypeOK
    <3> QED BY <2>1, <3>1, SMT
            DEF BreakOff, End, BreakerInv, TypeOK, ClosedInv, HalfOpenInv, breaker
  <2> QED BY <1>1, <2>1, BeginKeeps, SucceedKeeps, FailKeeps DEF Finish
<1>2. CASE Cool
  <2>1. cooling' = FALSE /\ cooling' \in BOOLEAN
    BY <1>2, Zenon DEF Cool
  <2>2. UNCHANGED <<state, failureCount, halfOpenReqs, enabled, query, streak, trials>>
    BY <1>2 DEF Cool, breaker
  <2> QED BY <2>1, <2>2, SMT DEF BreakerInv, TypeOK, ClosedInv, HalfOpenInv
<1>3. CASE Reset
  BY <1>3, BreakerAssumption, SMT DEF Reset, BreakerInv, TypeOK, ClosedInv, HalfOpenInv
<1>4. ASSUME NEW on \in BOOLEAN, SetKnowledgeProviderEnabled(on) PROVE BreakerInv'
  BY <1>4, SMT DEF SetKnowledgeProviderEnabled, BreakerInv, TypeOK, ClosedInv, HalfOpenInv, breaker
<1>5. CASE UNCHANGED vars
  BY <1>5, SMT DEF vars, breaker, BreakerInv, TypeOK, ClosedInv, HalfOpenInv
<1> QED BY <1>1, <1>2, <1>3, <1>4, <1>5 DEF Next

LEMMA InvariantHolds == Spec => []BreakerInv
BY InitEstablishes, NextKeeps, PTL DEF Spec

----------------------------------------------------------------------------

\* The breaker, the queries and the history keep their types; no more than
\* HalfOpenMaxReqs slots are ever taken.
THEOREM TypesHold == Spec => []TypeOK
<1>1. BreakerInv => TypeOK
  BY DEF BreakerInv
<1> QED BY <1>1, InvariantHolds, PTL

\* A closed breaker is below its threshold, in whatever order late successes
\* and failures reach it (OnSuccess, OnFailure, Reset).
THEOREM ClosedStaysBelowThreshold == Spec => []ClosedBelowThreshold
<1>1. BreakerInv => ClosedBelowThreshold
  BY DEF BreakerInv, ClosedInv, ClosedBelowThreshold
<1> QED BY <1>1, InvariantHolds, PTL

\* A half-open breaker lets at most HalfOpenMaxReqs + 1 queries through (Allow).
THEOREM TrialsStayBounded == Spec => []TrialsBounded
<1>1. BreakerInv => TrialsBounded
  BY BreakerAssumption, SMT DEF BreakerInv, HalfOpenInv, TypeOK, TrialsBounded
<1> QED BY <1>1, InvariantHolds, PTL

\* A breaker shared by all queries spares the source: after MaxFailures failures
\* in a row no query reaches it before ResetTimeout has passed.
THEOREM SharedBreakerSpares == Spec => SourceIsSpared
<1> DEFINE Spared == \A q \in Queries :
                       query[q] = "idle" /\ query'[q] = "source"
                         => ~(cooling /\ streak >= MaxFailures)
<1>1. ASSUME BreakerInv, [Next]_vars PROVE [Spared]_vars
  <2> SUFFICES ASSUME Next, NEW q \in Queries, query[q] = "idle", query'[q] = "source",
                      cooling, streak >= MaxFailures
               PROVE FALSE
    BY <1>1
  <2>1. PICK p \in Queries : Begin(p) \/ Finish(p)
    BY <1>1, Zenon DEF Next, Cool, Reset, SetKnowledgeProviderEnabled
  <2>2. ~Finish(p)
    BY <1>1, <2>1, Zenon DEF Finish, Succeed, Fail, BreakOff, End, BreakerInv, TypeOK
  <2>3. Admitted
    BY <1>1, <2>1, <2>2, Zenon DEF Begin, BreakerInv, TypeOK
  <2>4. state # "halfOpen" /\ state # "open"
    BY <1>1, <2>3 DEF Admitted, BreakerInv, HalfOpenInv
  <2>5. state = "closed"
    BY <1>1, <2>4 DEF BreakerInv, TypeOK
  <2> QED BY <1>1, <2>5, BreakerAssumption, SMT DEF BreakerInv, ClosedInv, TypeOK
<1> QED BY <1>1, InvariantHolds, PTL DEF Spec, SourceIsSpared
=============================================================================
