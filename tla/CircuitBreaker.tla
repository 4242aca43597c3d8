--------------------------- MODULE CircuitBreaker ---------------------------
(***************************************************************************)
(* The circuit breaker of one adapter and the worker process that owns it. *)
(* A process dispatches one command at a time, so one call is under way at *)
(* most; it asks the breaker before it opens an attempt, and tells the     *)
(* breaker how the attempt ended - on the ways out of dispatch that do so. *)
(***************************************************************************)
EXTENDS Naturals

CONSTANTS Threshold,    \* failure_threshold
          MaxProbes,    \* half_open_max_probes
          Unrecorded,   \* the states in which a dispatch may end without a result
          MaxFailures   \* bound on the failure count

ASSUME BreakerConstants ==
    /\ Threshold \in Nat \ {0} /\ MaxProbes \in Nat \ {0}
    /\ Unrecorded \subseteq {"CLOSED", "HALF_OPEN"} /\ MaxFailures \in Nat

VARIABLES breaker,  \* _state, _failures, _probes, and whether open_seconds have passed
          call      \* the dispatch: "none", or "admitted" once admit() returned

vars == <<breaker, call>>

BreakerState == {"CLOSED", "OPEN", "HALF_OPEN"}

TypeOK ==
    /\ breaker \in [state : BreakerState, failures : Nat, probes : Nat, elapsed : BOOLEAN]
    /\ call \in {"none", "admitted"}

Init ==
    /\ breaker = [state |-> "CLOSED", failures |-> 0, probes |-> 0, elapsed |-> FALSE]
    /\ call = "none"

(* Reading the state property moves an OPEN breaker whose time is up.      *)
StateRead ==
    IF breaker.state = "OPEN" /\ breaker.elapsed
      THEN [breaker EXCEPT !.state = "HALF_OPEN", !.probes = 0]
      ELSE breaker

Admit ==
    /\ call = "none"
    /\ LET b == StateRead IN
         \/ /\ b.state = "CLOSED"
            /\ breaker' = b /\ call' = "admitted"
         \/ /\ b.state = "HALF_OPEN" /\ b.probes < MaxProbes
            /\ breaker' = [b EXCEPT !.probes = @ + 1] /\ call' = "admitted"
         \/ /\ b.state = "OPEN" \/ (b.state = "HALF_OPEN" /\ b.probes >= MaxProbes)
            /\ breaker' = b /\ UNCHANGED call

RecordSuccessKeepsCount ==
    /\ call = "admitted" /\ call' = "none"
    /\ breaker' = [breaker EXCEPT !.state = "CLOSED"]

(* The provider acknowledged.                                              *)
RecordSuccess ==
    /\ call = "admitted" /\ call' = "none"
    /\ breaker' = [breaker EXCEPT !.failures = 0, !.state = "CLOSED"]

(* Every other outcome, a timeout of the adapter included.                 *)
RecordFailure ==
    /\ call = "admitted" /\ call' = "none"
    /\ breaker.failures < MaxFailures
    /\ breaker' = IF breaker.state = "HALF_OPEN" \/ breaker.failures + 1 >= Threshold
                    THEN [breaker EXCEPT !.failures = @ + 1, !.state = "OPEN", !.elapsed = FALSE]
                    ELSE [breaker EXCEPT !.failures = @ + 1]

(* The dispatch ends between admit() and _finalize: the ledger refuses the *)
(* attempt, a transaction fails, or the handler's timeout cancels it.      *)
LeaveUnrecorded ==
    /\ breaker.state \in Unrecorded
    /\ call = "admitted" /\ call' = "none"
    /\ UNCHANGED breaker

(* open_seconds pass.                                                      *)
Elapse ==
    /\ breaker.state = "OPEN" /\ ~breaker.elapsed
    /\ breaker' = [breaker EXCEPT !.elapsed = TRUE]
    /\ UNCHANGED call

Next == Admit \/ RecordSuccess \/ RecordFailure \/ LeaveUnrecorded \/ Elapse

Spec == Init /\ [][Next]_vars

(* Commands keep coming, every call ends, and time passes.                 *)
FairBreaker ==
    WF_vars(Admit) /\ WF_vars(RecordSuccess \/ RecordFailure) /\ WF_vars(Elapse)

FairSpec == Spec /\ FairBreaker

(* The state and the failure count agree: the breaker is closed exactly    *)
(* while fewer than failure_threshold failures are on record, so a success *)
(* (record_success) never leaves a breaker that the next failure reopens,  *)
(* and a failed probe always reopens it (record_failure).                  *)
CountDecides == breaker.state = "CLOSED" <=> breaker.failures < Threshold

(* No breaker shuts its adapter out for good: after open_seconds (state)   *)
(* a probe is admitted again, whatever became of the earlier ones.  Holds  *)
(* only as long as no probe is left unrecorded.                            *)
AlwaysTriedAgain == []<>(call = "admitted")

(* What the docstring of CircuitBreaker promises: "one probe attempt is    *)
(* admitted (HALF_OPEN) and its outcome closes or re-opens the breaker".   *)
(* A half-open breaker out of probes therefore waits for one under way.    *)
(* Does not hold of a probe whose dispatch ends before _finalize.          *)
ProbeHeld ==
    breaker.state = "HALF_OPEN" /\ breaker.probes >= MaxProbes => call = "admitted"
=============================================================================
