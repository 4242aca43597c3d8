----------------------------- MODULE N8nRuntime -----------------------------
(***************************************************************************)
(* The governed n8n runtime: dispatch intake and result callbacks          *)
(* (app/api/v1/n8n_runtime.py), the dispatch worker                        *)
(* (app/workers/n8n_runtime.py, app/entrypoints/n8n_runtime_worker.py),    *)
(* and the delivery of completed results to Odoo (OdooResults), which the  *)
(* callback queues in its own transaction.                                 *)
(*                                                                         *)
(* dispatch_one keeps the row locked while it posts to n8n: recovery,      *)
(* expiry, claims and callbacks of that execution wait.                    *)
(***************************************************************************)
EXTENDS Naturals, FiniteSets

CONSTANTS
    Execs,        \* executions that are requested
    N8nWorkers,   \* processes of the dispatch worker
    N8nAttempts,  \* min(settings.n8n_runtime_max_attempts, 8)
    N8nFaults,    \* bound: deaths of a worker, and leases that run out
                  \* under a living one
    N8nCallbacks  \* bound: callbacks per execution
CONSTANTS Deliveries, OdooWorkers, DeliveryLimit, BadBodies, OdooPauses

ASSUME N8nConstants ==
    /\ IsFiniteSet(N8nWorkers) /\ "none" \notin Execs
    /\ N8nAttempts \in Nat \ {0}

VARIABLES
    exec,      \* n8n_runtime_execution
    disp,      \* the dispatch workers
    n8n,       \* per execution: workflow runs started, callbacks sent
    trouble    \* faults so far
VARIABLES dlv, sender, accepted, overrun

Odoo == INSTANCE OdooResults

odooVars == <<dlv, sender, accepted, overrun>>
vars == <<exec, disp, n8n, trouble, odooVars>>

Terminal == {"COMPLETED", "FAILED", "DEAD_LETTER", "TIMED_OUT"}
Status == {"none", "PENDING", "DISPATCHING", "RUNNING", "RETRY"} \cup Terminal

(***************************************************************************)
(* late: timeout_at has passed; old: updated_at is a dispatch lease ago;   *)
(* due: next_attempt_at has passed or is not set; syn: the execution is    *)
(* bound to an Odoo event by the approved TEST_SYN mapping; reopened       *)
(* counts the recoveries and retry callbacks, for a property.              *)
(***************************************************************************)
ExecRow == [status: Status, attempts: Nat, late: BOOLEAN, old: BOOLEAN,
            due: BOOLEAN, syn: BOOLEAN, reopened: Nat]
Dispatcher == [pc: {"recover", "expire", "claim", "dispatch", "post"},
               todo: SUBSET Execs, x: Execs \cup {"none"}]
Fresh == [pc |-> "recover", todo |-> {}, x |-> "none"]

TypeOK ==
    /\ exec \in [Execs -> ExecRow]
    /\ disp \in [N8nWorkers -> Dispatcher]
    /\ n8n \in [Execs -> [runs: Nat, calls: 0..N8nCallbacks]]
    /\ trouble \in 0..N8nFaults
    /\ Odoo!TypeOK

Init ==
    /\ exec = [x \in Execs |-> [status |-> "none", attempts |-> 0,
                 late |-> FALSE, old |-> FALSE, due |-> TRUE, syn |-> FALSE,
                 reopened |-> 0]]
    /\ disp = [w \in N8nWorkers |-> Fresh]
    /\ n8n = [x \in Execs |-> [runs |-> 0, calls |-> 0]]
    /\ trouble = 0
    /\ Odoo!Init

Become(w, s) == disp' = [disp EXCEPT ![w] = s]
Store(x, row) == exec' = [exec EXCEPT ![x] = row]
Locked(x) == \E w \in N8nWorkers : disp[w].pc = "post" /\ disp[w].x = x

(***************************************************************************)
(* dispatch (the route): one execution per idempotency scope.              *)
(***************************************************************************)
Request(x) ==
    /\ exec[x].status = "none"
    /\ \E syn \in BOOLEAN :
          Store(x, [exec[x] EXCEPT !.status = "PENDING", !.syn = syn])
    /\ UNCHANGED <<disp, n8n, trouble, odooVars>>

(***************************************************************************)
(* The worker loop, one transaction after the other: a statement waits for *)
(* the rows it would write to be unlocked.                                 *)
(***************************************************************************)
Stale(x) == exec[x].status = "DISPATCHING" /\ exec[x].old

RecoverStaleDispatches(w) ==
    /\ disp[w].pc = "recover"
    /\ \A x \in Execs : Stale(x) => ~Locked(x)
    /\ exec' = [x \in Execs |->
                  IF Stale(x)
                  THEN [exec[x] EXCEPT !.status = "RETRY", !.old = FALSE,
                                       !.due = TRUE, !.reopened = @ + 1]
                  ELSE exec[x]]
    /\ Become(w, [disp[w] EXCEPT !.pc = "expire"])
    /\ UNCHANGED <<n8n, trouble, odooVars>>

NeverExpired(x) == FALSE
Expired(x) == exec[x].status = "RUNNING" /\ exec[x].late

ExpireRunning(w) ==
    /\ disp[w].pc = "expire"
    /\ exec' = [x \in Execs |->
                  IF Expired(x) THEN [exec[x] EXCEPT !.status = "TIMED_OUT"]
                  ELSE exec[x]]
    /\ Become(w, [disp[w] EXCEPT !.pc = "claim"])
    /\ UNCHANGED <<n8n, trouble, odooVars>>

(***************************************************************************)
(* claim: what is due (the executions are fewer than the batch limit).  An *)
(* execution past its deadline is timed out instead.                       *)
(***************************************************************************)
Claimed(row) ==
    IF row.late THEN [row EXCEPT !.status = "TIMED_OUT"]
    ELSE [row EXCEPT !.status = "DISPATCHING", !.attempts = @ + 1,
                     !.old = FALSE]

Claimable(row) == row.status \in {"PENDING", "RETRY"} /\ row.due

Claim(w) ==
    LET batch == {x \in Execs : Claimable(exec[x])}
    IN /\ disp[w].pc = "claim"
       /\ exec' = [x \in Execs |->
                     IF x \in batch THEN Claimed(exec[x]) ELSE exec[x]]
       /\ Become(w, [disp[w] EXCEPT !.pc = "dispatch",
                       !.todo = {x \in batch : ~exec[x].late}])
       /\ UNCHANGED <<n8n, trouble, odooVars>>

(***************************************************************************)
(* dispatch_one, first part: lock the row.  The status is all it asks for: *)
(* the claim may be another worker's.                                      *)
(***************************************************************************)
BeginKeepsTodo(w, x) ==
    /\ disp[w].pc = "dispatch" /\ x \in disp[w].todo /\ ~Locked(x)
    /\ IF exec[x].status = "DISPATCHING"
       THEN Become(w, [disp[w] EXCEPT !.pc = "post", !.x = x])
       ELSE Become(w, [disp[w] EXCEPT !.todo = @ \ {x}])
    /\ UNCHANGED <<exec, n8n, trouble, odooVars>>

Begin(w, x) ==
    /\ disp[w].pc = "dispatch" /\ x \in disp[w].todo /\ ~Locked(x)
    /\ IF exec[x].status = "DISPATCHING"
       THEN Become(w, [disp[w] EXCEPT !.pc = "post", !.x = x,
                                      !.todo = @ \ {x}])
       ELSE Become(w, [disp[w] EXCEPT !.todo = @ \ {x}])
    /\ UNCHANGED <<exec, n8n, trouble, odooVars>>

EndBatch(w) ==
    /\ disp[w].pc = "dispatch" /\ disp[w].todo = {}
    /\ Become(w, Fresh)
    /\ UNCHANGED <<exec, n8n, trouble, odooVars>>

(***************************************************************************)
(* dispatch_one, second part, and _fail: n8n starts a run or does not, and *)
(* the answer is good, lost or retryable, or one that is not retried; a    *)
(* registry or target refusal posts nothing.                               *)
(***************************************************************************)
FailedUnlimited(row, canRetry) ==
    [row EXCEPT !.status = IF canRetry THEN "RETRY" ELSE "DEAD_LETTER",
                !.due = ~canRetry, !.old = FALSE]

Failed(row, canRetry) ==
    IF canRetry /\ row.attempts < N8nAttempts
    THEN [row EXCEPT !.status = "RETRY", !.due = FALSE, !.old = FALSE]
    ELSE [row EXCEPT !.status = "DEAD_LETTER", !.old = FALSE]

Post(w) ==
    LET x == disp[w].x
    IN /\ disp[w].pc = "post"
       /\ \/ /\ n8n' = [n8n EXCEPT ![x].runs = @ + 1]
             /\ Store(x, [exec[x] EXCEPT !.status = "RUNNING", !.old = FALSE,
                                         !.due = TRUE])
          \/ /\ n8n' = [n8n EXCEPT ![x].runs = @ + 1] \/ UNCHANGED n8n
             /\ \E canRetry \in BOOLEAN : Store(x, Failed(exec[x], canRetry))
       /\ Become(w, [disp[w] EXCEPT !.pc = "dispatch", !.x = "none"])
       /\ UNCHANGED <<trouble, odooVars>>

(***************************************************************************)
(* result_callback: a run reports, as often as it likes.  A body or a      *)
(* nonce seen before changes nothing; any other body counts, a second      *)
(* completion too, for its time is part of its hash.  Whatever the status  *)
(* of the execution is, the reported one replaces it.  An approved         *)
(* execution may only report completion, and each queues a delivery.       *)
(***************************************************************************)
Reported == {"running", "completed", "failed", "retry", "dead_letter"}

Mapped(s) == CASE s = "running" -> "RUNNING" [] s = "completed" -> "COMPLETED"
               [] s = "failed" -> "FAILED" [] s = "retry" -> "RETRY"
               [] s = "dead_letter" -> "DEAD_LETTER"

Callback(x, s) ==
    /\ n8n[x].runs > 0 /\ n8n[x].calls < N8nCallbacks /\ ~Locked(x)
    /\ exec[x].syn => s = "completed"
    /\ Store(x, [exec[x] EXCEPT !.status = Mapped(s), !.old = FALSE,
                   !.reopened = IF s = "retry" THEN @ + 1 ELSE @])
    /\ n8n' = [n8n EXCEPT ![x].calls = @ + 1]
    /\ IF exec[x].syn THEN \E d \in Deliveries : Odoo!Queue(d)
       ELSE UNCHANGED odooVars
    /\ UNCHANGED <<disp, trouble>>

(***************************************************************************)
(* Faults and time.  A worker that dies drops its lock and its batch; an   *)
(* n8n request it had sent may have started a run.                         *)
(***************************************************************************)
Crash(w) ==
    /\ disp[w].todo # {} \/ disp[w].x # "none"
    /\ trouble < N8nFaults /\ trouble' = trouble + 1
    /\ \/ UNCHANGED n8n
       \/ disp[w].x # "none" /\ n8n' = [n8n EXCEPT ![disp[w].x].runs = @ + 1]
    /\ Become(w, Fresh)
    /\ UNCHANGED <<exec, odooVars>>

Held(x) == \E w \in N8nWorkers : x \in disp[w].todo \/ disp[w].x = x

LeaseExpires(x) ==
    /\ exec[x].status = "DISPATCHING" /\ ~exec[x].old /\ ~Held(x)
    /\ Store(x, [exec[x] EXCEPT !.old = TRUE])
    /\ UNCHANGED <<disp, n8n, trouble, odooVars>>

LeaseOverrun(x) ==
    /\ exec[x].status = "DISPATCHING" /\ ~exec[x].old /\ Held(x)
    /\ trouble < N8nFaults /\ trouble' = trouble + 1
    /\ Store(x, [exec[x] EXCEPT !.old = TRUE])
    /\ UNCHANGED <<disp, n8n, odooVars>>

Backoff(x) ==
    /\ ~exec[x].due
    /\ Store(x, [exec[x] EXCEPT !.due = TRUE])
    /\ UNCHANGED <<disp, n8n, trouble, odooVars>>

Deadline(x) ==
    /\ exec[x].status # "none" /\ ~exec[x].late
    /\ Store(x, [exec[x] EXCEPT !.late = TRUE])
    /\ UNCHANGED <<disp, n8n, trouble, odooVars>>

Loop(w) ==
    \/ RecoverStaleDispatches(w) \/ ExpireRunning(w) \/ Claim(w)
    \/ \E x \in Execs : Begin(w, x)
    \/ EndBatch(w) \/ Post(w)

Next ==
    \/ \E w \in N8nWorkers : Loop(w) \/ Crash(w)
    \/ \E x \in Execs :
          \/ Request(x) \/ LeaseExpires(x) \/ LeaseOverrun(x)
          \/ Backoff(x) \/ Deadline(x)
          \/ \E s \in Reported : Callback(x, s)
    \/ Odoo!Step /\ UNCHANGED <<exec, disp, n8n, trouble>>

(***************************************************************************)
(* The supervisor restarts the worker, its loop never waits for work, and  *)
(* clocks move on.  n8n owes no callback.                                  *)
(***************************************************************************)
Fairness ==
    /\ \A w \in N8nWorkers : WF_vars(Loop(w))
    /\ \A x \in Execs : /\ WF_vars(LeaseExpires(x))
                         /\ WF_vars(Backoff(x)) /\ WF_vars(Deadline(x))
    /\ Odoo!Fairness

Spec == Init /\ [][Next]_vars /\ Fairness

-----------------------------------------------------------------------------

(***************************************************************************)
(* n8n is asked to run an execution no more often than claim counted an    *)
(* attempt, even when two workers believe they claimed it and whoever dies *)
(* in between: each posts what it claimed at most once.                    *)
(***************************************************************************)
RunsAreAttempts == \A x \in Execs : n8n[x].runs <= exec[x].attempts

(***************************************************************************)
(* Beyond the limit of _fail an execution is attempted only as often as a  *)
(* stale dispatch was recovered or n8n itself asked for a retry.           *)
(***************************************************************************)
RetriesAccounted ==
    \A x \in Execs : exec[x].attempts <= N8nAttempts + exec[x].reopened

(***************************************************************************)
(* Every requested execution is at rest in a terminal status some day,     *)
(* even if n8n never calls back or reopens it a few times: the deadline    *)
(* closes it.                                                              *)
(***************************************************************************)
EveryExecutionEnds ==
    \A x \in Execs :
        exec[x].status = "PENDING" ~> [](exec[x].status \in Terminal)

(***************************************************************************)
(* "backoff is bounded ... and attempts at eight"                          *)
(* (docs/N8N-FAILURE-RECOVERY.md).  Does not hold: recover_stale_dispatches*)
(* puts an execution back whatever its attempt_count.                      *)
(***************************************************************************)
AttemptsLimited == \A x \in Execs : exec[x].attempts <= N8nAttempts

=============================================================================
