--------------------------- MODULE CircuitBreaker ---------------------------
(***************************************************************************)
(* The circuit breaker that guards the external knowledge source, and the  *)
(* queries that use it.                                                    *)
(*                                                                         *)
(* A query asks Allow when it starts; if it is refused it goes on without  *)
(* the source, straight to the language model.  Either way it reports      *)
(* OnSuccess or OnFailure when it ends, and the breaker may be in another  *)
(* state by then.  A stream that breaks off reports nothing.  All queries  *)
(* share one service, as on the unscoped route.                            *)
(***************************************************************************)
EXTENDS Integers

CONSTANTS
    Queries,          \* concurrent queries; each may run again and again
    Streams,          \* those that go through ProcessQueryStream
    MaxFailures,
    HalfOpenMaxReqs,
    MaxCount          \* bound: failures counted since the breaker last closed

ASSUME BreakerAssumption ==
    /\ Streams \subseteq Queries
    /\ MaxFailures \in Nat \ {0}
    /\ HalfOpenMaxReqs \in Nat
    /\ MaxCount \in Nat

VARIABLES
    state, failureCount, halfOpenReqs,  \* the breaker
    cooling,  \* the last failure is not older than ResetTimeout
    enabled,  \* knowledgeProviderEnabled, which an operator switches
    query,    \* [Queries -> "idle", "direct" (without the source), "source"]
    streak,   \* history: failures reported since a success or a reset
    trials    \* history: queries let through since the breaker became half-open

breaker == <<state, failureCount, halfOpenReqs>>
vars == <<breaker, cooling, enabled, query, streak, trials>>

Init ==
    /\ state = "closed" /\ failureCount = 0 /\ halfOpenReqs = 0
    /\ cooling = FALSE
    /\ enabled = TRUE
    /\ query = [q \in Queries |-> "idle"]
    /\ streak = 0
    /\ trials = 0

----------------------------------------------------------------------------
(* The breaker *)

\* Mutants: trials that are not counted, one trial too many, and an open
\* breaker that lets queries through while it still cools down.
AdmittedOneMore ==
    \/ state = "closed" /\ UNCHANGED <<breaker, trials>>
    \/ /\ state = "open" /\ ~cooling
       /\ state' = "halfOpen" /\ halfOpenReqs' = 0 /\ trials' = 1
       /\ UNCHANGED failureCount
    \/ /\ state = "halfOpen" /\ halfOpenReqs <= HalfOpenMaxReqs
       /\ halfOpenReqs' = halfOpenReqs + 1 /\ trials' = trials + 1
       /\ UNCHANGED <<state, failureCount>>
AdmittedUncounted ==
    \/ state = "closed" /\ UNCHANGED <<breaker, trials>>
    \/ /\ state = "open" /\ ~cooling
       /\ state' = "halfOpen" /\ halfOpenReqs' = 0 /\ trials' = 1
       /\ UNCHANGED failureCount
    \/ /\ state = "halfOpen" /\ halfOpenReqs < HalfOpenMaxReqs
       /\ trials' = trials + 1
       /\ UNCHANGED breaker
AdmittedHot ==
    /\ state = "open" => state' = "halfOpen" /\ halfOpenReqs' = 0 /\ trials' = 1
    /\ state # "open" => UNCHANGED <<state, halfOpenReqs, trials>>
    /\ UNCHANGED failureCount

\* Allow, when it lets the query through ...
Admitted ==
    \/ state = "closed" /\ UNCHANGED <<breaker, trials>>
    \/ /\ state = "open" /\ ~cooling
       /\ state' = "halfOpen" /\ halfOpenReqs' = 0 /\ trials' = 1
       /\ UNCHANGED failureCount
    \/ /\ state = "halfOpen" /\ halfOpenReqs < HalfOpenMaxReqs
       /\ halfOpenReqs' = halfOpenReqs + 1 /\ trials' = trials + 1
       /\ UNCHANGED <<state, failureCount>>

\* ... and when it does not.
Refused == \/ state = "open" /\ cooling
           \/ state = "halfOpen" /\ halfOpenReqs >= HalfOpenMaxReqs

\* Mutant: a success that never closes the breaker.
OnSuccessStays ==
    /\ failureCount' = IF state = "closed" THEN 0 ELSE failureCount
    /\ UNCHANGED <<state, halfOpenReqs>>

OnSuccess ==
    /\ state' = IF state = "halfOpen" THEN "closed" ELSE state
    /\ failureCount' = IF state = "open" THEN failureCount ELSE 0
    /\ halfOpenReqs' = IF state = "halfOpen" THEN 0 ELSE halfOpenReqs

OnFailure ==
    /\ failureCount' = failureCount + 1
    /\ cooling' = TRUE
    /\ state' = IF state = "halfOpen" \/ failureCount' >= MaxFailures THEN "open" ELSE state
    /\ halfOpenReqs' = IF state = "halfOpen" THEN 0 ELSE halfOpenReqs

----------------------------------------------------------------------------
(* Queries and operators *)

Begin(q) ==
    /\ query[q] = "idle"
    /\ \/ /\ enabled /\ Admitted
          /\ query' = [query EXCEPT ![q] = "source"]
       \/ /\ ~enabled \/ Refused
          /\ query' = [query EXCEPT ![q] = "direct"]
          /\ UNCHANGED <<breaker, trials>>
    /\ UNCHANGED <<cooling, enabled, streak>>

End(q) == query' = [query EXCEPT ![q] = "idle"] /\ UNCHANGED <<enabled, trials>>

\* The model has answered.
Succeed(q) ==
    /\ query[q] # "idle"
    /\ IF enabled THEN OnSuccess ELSE UNCHANGED breaker
    /\ streak' = IF enabled THEN 0 ELSE streak
    /\ UNCHANGED cooling
    /\ End(q)

\* The source has failed, or the model has; a stream reports only the source.
Fail(q) ==
    /\ query[q] = "source" \/ (query[q] = "direct" /\ q \notin Streams)
    /\ failureCount < MaxCount /\ streak < MaxCount
    /\ IF enabled THEN OnFailure
       ELSE UNCHANGED <<breaker, cooling>>
    /\ streak' = IF enabled THEN streak + 1 ELSE streak
    /\ End(q)

\* A stream ends without a result: an error before it started, or in the
\* middle of it.
BreakOff(q) ==
    /\ q \in Streams /\ query[q] # "idle"
    /\ UNCHANGED <<breaker, cooling, streak>>
    /\ End(q)

\* ResetTimeout has passed since the last failure.
Cool ==
    /\ cooling
    /\ cooling' = FALSE
    /\ UNCHANGED <<breaker, enabled, query, streak, trials>>

Reset ==
    /\ state' = "closed" /\ failureCount' = 0 /\ halfOpenReqs' = 0
    /\ streak' = 0
    /\ UNCHANGED <<cooling, enabled, query, trials>>

SetKnowledgeProviderEnabled(on) ==
    /\ enabled' = on
    /\ UNCHANGED <<breaker, cooling, query, streak, trials>>

Finish(q) == Succeed(q) \/ Fail(q) \/ BreakOff(q)

Next ==
    \/ \E q \in Queries : Begin(q) \/ Finish(q)
    \/ Cool
    \/ Reset
    \/ \E on \in BOOLEAN : SetKnowledgeProviderEnabled(on)

\* Calls return (they have timeouts), and time passes.
Fairness == (\A q \in Queries : WF_vars(Finish(q))) /\ WF_vars(Cool)

Spec == Init /\ [][Next]_vars
FairSpec == Spec /\ Fairness

----------------------------------------------------------------------------
(* Properties *)

\* Types of the breaker, of the queries and of the history.
TypeOK ==
    /\ state \in {"closed", "open", "halfOpen"}
    /\ failureCount \in Nat /\ halfOpenReqs \in 0 .. HalfOpenMaxReqs
    /\ streak \in Nat /\ trials \in Nat
    /\ cooling \in BOOLEAN /\ enabled \in BOOLEAN
    /\ query \in [Queries -> {"idle", "direct", "source"}]

\* A closed breaker has room for at least one more failure: what late queries
\* reported to it while it was open does not count against it.
ClosedBelowThreshold == state = "closed" => failureCount < MaxFailures

\* A half-open breaker lets through the query that opened it half way and
\* HalfOpenMaxReqs more, however many wait.
TrialsBounded == state = "halfOpen" => trials <= HalfOpenMaxReqs + 1

\* After MaxFailures failures in a row the source is left alone until
\* ResetTimeout has passed, also when results arrive late and out of order.
SourceIsSpared ==
    [][\A q \in Queries :
         query[q] = "idle" /\ query'[q] = "source"
           => ~(cooling /\ streak >= MaxFailures)]_vars

\* When nothing fails or breaks off any more, and queries keep coming while the
\* source is switched on, the breaker closes in the end.
Recovers ==
    /\ []<><<\E q \in Queries : Begin(q)>>_vars
    /\ <>[][\A q \in Queries : ~Fail(q) /\ ~BreakOff(q)]_vars
    /\ <>[]enabled
    => []<>(state = "closed")
=============================================================================
