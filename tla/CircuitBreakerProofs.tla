------------------------ MODULE CircuitBreakerProofs ------------------------
(* The breaker's state and its failure count agree, for every threshold.   *)
EXTENDS CircuitBreaker, TLAPS

BreakerInv == TypeOK /\ CountDecides

(* Every step of admit, record_success, record_failure and of time keeps   *)
(* the types and the agreement of state and count.                         *)
LEMMA BreakerStep == BreakerInv /\ [Next]_vars => BreakerInv'
<1> SUFFICES ASSUME BreakerInv, [Next]_vars
             PROVE  BreakerInv'
  OBVIOUS
<1> USE BreakerConstants DEF BreakerInv, TypeOK, CountDecides, BreakerState
<1>1. CASE Admit
  <2> DEFINE b == StateRead
  <2>1. /\ b \in [state : BreakerState, failures : Nat, probes : Nat, elapsed : BOOLEAN]
        /\ b.failures = breaker.failures
        /\ b.state = "CLOSED" <=> breaker.state = "CLOSED"
    BY DEF StateRead
  <2>2. \/ breaker' = b
        \/ breaker' = [b EXCEPT !.probes = @ + 1]
    BY <1>1 DEF Admit
  <2>3. call' \in {"none", "admitted"}
    BY <1>1 DEF Admit
  <2> HIDE DEF b
  <2> QED
    BY <2>1, <2>2, <2>3
<1>2. CASE RecordSuccess
  <2>1. 0 < Threshold
    OBVIOUS
  <2>2. breaker'.failures = 0 /\ breaker'.state = "CLOSED"
    BY <1>2 DEF RecordSuccess
  <2>3. TypeOK'
    BY <1>2 DEF RecordSuccess
  <2> QED
    BY <2>1, <2>2, <2>3
<1>3. CASE RecordFailure
  <2> DEFINE n == breaker.failures + 1
  <2>1. n \in Nat /\ n > breaker.failures
    OBVIOUS
  <2>2. /\ call' = "none"
        /\ breaker' = IF breaker.state = "HALF_OPEN" \/ n >= Threshold
                        THEN [breaker EXCEPT !.failures = n, !.state = "OPEN", !.elapsed = FALSE]
                        ELSE [breaker EXCEPT !.failures = n]
    BY <1>3 DEF RecordFailure
  <2> HIDE DEF n
  <2>3. CASE breaker.state = "HALF_OPEN" \/ n >= Threshold
    <3>1. n >= Threshold
      BY <2>1, <2>3
    <3>2. breaker' = [breaker EXCEPT !.failures = n, !.state = "OPEN", !.elapsed = FALSE]
      BY <2>2, <2>3
    <3>3. TypeOK'
      BY <2>1, <2>2, <3>2
    <3>4. breaker'.failures = n /\ breaker'.state = "OPEN"
      BY <3>2
    <3> QED
      BY <2>1, <3>1, <3>3, <3>4
  <2>4. CASE ~(breaker.state = "HALF_OPEN" \/ n >= Threshold)
    <3>1. n < Threshold
      BY <2>1, <2>4
    <3>2. breaker' = [breaker EXCEPT !.failures = n]
      BY <2>2, <2>4
    <3>3. breaker.state = "CLOSED"
      BY <2>1, <3>1
    <3> QED
      BY <2>1, <2>2, <3>1, <3>2, <3>3
  <2> QED
    BY <2>3, <2>4
<1>4. CASE LeaveUnrecorded
  BY <1>4 DEF LeaveUnrecorded
<1>5. CASE Elapse
  BY <1>5 DEF Elapse
<1>6. CASE UNCHANGED vars
  BY <1>6 DEF vars
<1> QED
  BY <1>1, <1>2, <1>3, <1>4, <1>5, <1>6 DEF Next

(* The breaker is closed exactly while fewer than failure_threshold        *)
(* failures are on record, in every reachable state and for every          *)
(* threshold: record_success leaves no count behind and record_failure     *)
(* never leaves a half-open breaker half-open.                             *)
THEOREM CountAlwaysDecides == Spec => []CountDecides
<1>1. Init => BreakerInv
  BY BreakerConstants DEF Init, BreakerInv, TypeOK, CountDecides, BreakerState
<1>2. BreakerInv => CountDecides
  BY DEF BreakerInv
<1> QED
  BY <1>1, <1>2, BreakerStep, PTL DEF Spec
=============================================================================
