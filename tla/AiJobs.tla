------------------------------- MODULE AiJobs -------------------------------
(***************************************************************************)
(* The durable AI job queue and its two kinds of worker: the polling       *)
(* worker, which talks to the internal API over a network that may lose or *)
(* delay a request, and the OpenAI worker, which uses the database itself. *)
(*                                                                         *)
(* A row of ai_generation_jobs carries its result, approval and chunk rows *)
(* with it.  Database time is two flags: live (the lease has not run out)  *)
(* and overdue (the deadline has passed).  Audit, event and attempt rows   *)
(* are written and never read back to decide anything: they are left out.  *)
(***************************************************************************)
EXTENDS Naturals, FiniteSets

CONSTANTS Jobs,         \* job ids
          ApiSlots,     \* execution slots of the polling worker
          OpenSlots,    \* the OpenAI worker, whose concurrency is one, or nothing
          Classes,      \* runtime classes of the jobs' model profiles
          MaxAttempts,  \* bound on max_attempts
          MaxQueued,    \* the tenant's queue quota
          MaxChunks,    \* bound on the length of a streamed answer
          MaxLate       \* bound on the requests a client gave up on

ASSUME AiConstants ==
    /\ Jobs # {} /\ IsFiniteSet(Jobs) /\ ApiSlots \cap OpenSlots = {}
    /\ Classes \subseteq {"chat-light", "coding-fallback", "single-admission"}
    /\ MaxAttempts \in Nat \ {0} /\ MaxQueued \in Nat
    /\ MaxChunks \in Nat \ {0} /\ MaxLate \in Nat

VARIABLES job,   \* the rows
          poll,  \* how far the polling worker's claim request has got
          slot,  \* what each execution slot is doing
          late   \* requests still under way although their sender timed out

vars == <<job, poll, slot, late>>

Slots == ApiSlots \cup OpenSlots
WorkerOf(s) == IF s \in ApiSlots THEN "api" ELSE "openai"

\* WORKER_HARD_SAFETY_CAP; the OpenAI worker registers a concurrency of one.
Capacity(w) == IF w = "api" THEN 2 ELSE 1

Resting == {"completed", "approval_required", "approved", "rejected",
            "cancelled", "expired", "dead_letter"}

\* "absent": no row yet.  "counted": submit has read the quota, not yet inserted.
JobState == Resting \cup {"absent", "counted", "queued", "retry_wait", "leased", "cancel_requested"}

JobRow == [state : JobState, owner : {"none", "api", "openai"}, live : BOOLEAN,
           token : Nat, attempts : Nat, max : 1..MaxAttempts, class : Classes, needs : BOOLEAN,
           cancel : BOOLEAN, overdue : BOOLEAN, result : Nat,
           approval : {"none", "pending", "approved", "rejected"},
           chunks : [1..MaxChunks -> Nat]]

Request == [op : {"complete", "fail", "cancel"}, job : Jobs, token : Nat]

Pc == {"idle", "running", "append", "cancel", "complete", "fail"}

TypeOK ==
    /\ job \in [Jobs -> JobRow]
    /\ poll \in {"idle", "expired", "recovered"}
    /\ slot \in [Slots -> [pc : Pc, job : Jobs, token : Nat, said : 0..MaxChunks]]
    /\ late \subseteq Request

Init ==
    /\ job \in [Jobs -> {[state |-> "absent", owner |-> "none", live |-> FALSE, token |-> 0,
                          attempts |-> 0, max |-> m, class |-> c, needs |-> n,
                          cancel |-> FALSE, overdue |-> FALSE, result |-> 0,
                          approval |-> "none", chunks |-> [i \in 1..MaxChunks |-> 0]]
                         : m \in 1..MaxAttempts, c \in Classes, n \in BOOLEAN}]
    /\ poll = "idle"
    /\ slot = [s \in Slots |-> [pc |-> "idle", job |-> CHOOSE j \in Jobs : TRUE,
                                token |-> 0, said |-> 0]]
    /\ late = {}

-----------------------------------------------------------------------------
(* Submission.                                                             *)

\* The rows the tenant's quota counts.
Queued == {j \in Jobs : job[j].state \in {"queued", "retry_wait", "approval_required"}}

\* The command route counts the queue before it inserts: the lock it holds is that of
\* its idempotency key, so other submissions and retries run in between.
SubmitCount(j) ==
    /\ job[j].state = "absent" /\ Cardinality(Queued) < MaxQueued
    /\ job' = [job EXCEPT ![j].state = "counted"]
    /\ UNCHANGED <<poll, slot, late>>

Submit(j) ==
    /\ job[j].state = "counted"
    /\ job' = [job EXCEPT ![j].state = "queued"]
    /\ UNCHANGED <<poll, slot, late>>

\* The console route has no quota, and its commands need no approval.
CreateMessageJob(j) ==
    /\ job[j].state = "absent" /\ ~job[j].needs
    /\ job' = [job EXCEPT ![j].state = "queued"]
    /\ UNCHANGED <<poll, slot, late>>

-----------------------------------------------------------------------------
(* The lease of a row, and what a worker's request does to it.             *)

\* A lease is checked by its owner and its time, whatever its token.
AssertLeaseUnfenced(r, w, t, states) == r.state \in states /\ r.owner = w /\ r.live

AssertLease(r, w, t, states) ==
    r.state \in states /\ r.owner = w /\ r.token = t /\ r.live

Leased == {"leased"}
LeasedOrCancelling == {"leased", "cancel_requested"}

\* The lease of a row is given up as the row goes to another state.
Released(r, state) == [r EXCEPT !.state = state, !.owner = "none", !.live = FALSE]

\* The last attempt is followed by another one.
FinishOneMore(r, failed, retryable, completion) ==
    Released(r, IF r.cancel THEN "cancelled"
                ELSE IF ~failed THEN completion
                ELSE IF retryable /\ r.attempts <= r.max THEN "retry_wait" ELSE "dead_letter")

Finish(r, failed, retryable, completion) ==
    Released(r, IF r.cancel THEN "cancelled"
                ELSE IF ~failed THEN completion
                ELSE IF retryable /\ r.attempts < r.max THEN "retry_wait" ELSE "dead_letter")

\* The row of ai_job_results is written once, and so is the approval it may need.
StoreResult(r, t) ==
    [r EXCEPT !.result = IF @ = 0 THEN t ELSE @,
              !.approval = IF r.needs /\ @ = "none" THEN "pending" ELSE @]

CompletionState(r) == IF r.needs THEN "approval_required" ELSE "completed"

\* complete_job, for a row that holds no result yet: a repeated completion changes nothing.
\* The polling worker always sends a result, so the branch without one is left out.
Complete(r, w, t) ==
    IF r.state \notin {"completed", "approval_required"} /\ AssertLease(r, w, t, Leased)
      THEN Finish(StoreResult(r, t), FALSE, FALSE, CompletionState(r))
      ELSE r

\* fail_job and release_job: both ask for another attempt.
FailJob(r, w, t) ==
    IF AssertLease(r, w, t, LeasedOrCancelling) THEN Finish(r, TRUE, TRUE, "completed") ELSE r

WorkerCancel(r, w, t) ==
    IF AssertLease(r, w, t, LeasedOrCancelling) /\ r.cancel THEN Released(r, "cancelled") ELSE r

Serve(r, w, q) ==
    CASE q.op = "complete" -> Complete(r, w, q.token)
      [] q.op = "fail"     -> FailJob(r, w, q.token)
      [] q.op = "cancel"   -> WorkerCancel(r, w, q.token)

-----------------------------------------------------------------------------
(* Recovery: one transaction over all the rows.                            *)

Recover(r) ==
    IF r.state \in LeasedOrCancelling /\ r.owner # "none" /\ ~r.live
      THEN IF r.state = "cancel_requested" THEN Released(r, "cancelled")
           ELSE IF r.overdue THEN r
           ELSE Released(r, IF r.attempts < r.max THEN "retry_wait" ELSE "dead_letter")
      ELSE r

RecoverExpired == job' = [j \in Jobs |-> Recover(job[j])]

\* Deadlines are looked at in the queue only: a lease is left to its recovery.
ExpireUnlessLeased(r) ==
    IF r.state \in {"queued", "retry_wait"} /\ r.overdue THEN Released(r, "expired") ELSE r

Expire(r) ==
    IF r.state \in {"queued", "retry_wait", "leased"} /\ r.overdue THEN Released(r, "expired") ELSE r

ExpireDeadlines == job' = [j \in Jobs |-> Expire(job[j])]

\* The recover-expired route.
RecoverRoute ==
    /\ RecoverExpired
    /\ UNCHANGED <<poll, slot, late>>

-----------------------------------------------------------------------------
(* Claiming.                                                               *)

\* The jobs a worker holds a live lease on.
Active(w) ==
    {j \in Jobs : job[j].state \in LeasedOrCancelling /\ job[j].owner = w /\ job[j].live}

\* Every class may run beside its own: single-admission too.
\* The classes that may run beside the classes in active.
CompatibleProfiles(active) ==
    IF active = {} THEN Classes
    ELSE IF Cardinality(active) = 1 THEN active \ {"single-admission"} ELSE {}

\* A cancelled row in the queue may still be leased.
CandidateAlsoCancelled(j, allowed) ==
    /\ job[j].state \in {"queued", "retry_wait"}
    /\ job[j].class \in allowed /\ ~job[j].overdue

Candidate(j, allowed) ==
    /\ job[j].state \in {"queued", "retry_wait"}
    /\ job[j].class \in allowed /\ ~job[j].cancel /\ ~job[j].overdue

LeaseTo(r, w) ==
    [r EXCEPT !.state = "leased", !.owner = w, !.live = TRUE,
              !.token = @ + 1, !.attempts = @ + 1]

\* Below the limit, or the claim is refused.
MayClaim(w) == Cardinality(Active(w)) < Capacity(w)

\* The classes of the jobs the polling worker believes it is running.
Running == {job[slot[s].job].class : s \in {a \in ApiSlots : slot[a].pc # "idle"}}

\* claim: the classes both the server and, for the polling worker, the client allow.
Allowed(w) ==
    CompatibleProfiles({job[j].class : j \in Active(w)})
        \cap (IF w = "api" THEN CompatibleProfiles(Running) ELSE Classes)

Idle(s) == [slot EXCEPT ![s].pc = "idle", ![s].said = 0]

\* The polling worker has a free slot and something may run in it, so it polls: first the
\* deadlines...
PollExpire ==
    /\ poll = "idle" /\ \E s \in ApiSlots : slot[s].pc = "idle"
    /\ CompatibleProfiles(Running) # {}
    /\ ExpireDeadlines /\ poll' = "expired"
    /\ UNCHANGED <<slot, late>>

\* ... then the leases ...
PollRecover ==
    /\ poll = "expired"
    /\ RecoverExpired /\ poll' = "recovered"
    /\ UNCHANGED <<slot, late>>

\* ... then the claim, whose answer may be lost: the lease stays, and nobody works on it.
PollClaim(j) ==
    /\ poll = "recovered" /\ MayClaim("api") /\ Candidate(j, Allowed("api"))
    /\ job' = [job EXCEPT ![j] = LeaseTo(@, "api")]
    /\ \/ \E s \in ApiSlots :
            /\ slot[s].pc = "idle"
            /\ slot' = [slot EXCEPT ![s] = [pc |-> "running", job |-> j,
                                            token |-> job'[j].token, said |-> 0]]
       \/ UNCHANGED slot
    /\ poll' = "idle" /\ UNCHANGED late

\* Nothing to claim, or the claim is refused.
PollNothing ==
    /\ poll = "recovered"
    /\ ~MayClaim("api") \/ \A j \in Jobs : ~Candidate(j, Allowed("api"))
    /\ poll' = "idle" /\ UNCHANGED <<job, slot, late>>

-----------------------------------------------------------------------------
(* A slot of the polling worker.                                           *)

Row(s) == job[slot[s].job]
Holds(s, states) == AssertLease(Row(s), WorkerOf(s), slot[s].token, states)

\* The heartbeat thread finds the lease gone or cannot reach the server: the slot gives
\* the job up and tells nobody.  A crash of the worker looks the same.
LeaseLost(s) ==
    /\ s \in ApiSlots /\ slot[s].pc # "idle"
    /\ slot' = Idle(s) /\ UNCHANGED <<job, poll, late>>

\* The heartbeat renews the lease, and the check after it finds the cancellation.
SeeCancel(s) ==
    /\ s \in ApiSlots /\ slot[s].pc = "running"
    /\ Holds(s, LeasedOrCancelling) /\ Row(s).cancel
    /\ slot' = [slot EXCEPT ![s].pc = "cancel"] /\ UNCHANGED <<job, poll, late>>

\* Inference ends, with an answer or without one, or a shutdown releases the job.
Infer(s) ==
    /\ s \in ApiSlots /\ slot[s].pc = "running"
    /\ \E pc \in {"complete", "fail"} : slot' = [slot EXCEPT ![s].pc = pc]
    /\ UNCHANGED <<job, poll, late>>

\* The request that ends the job.  A completion that gets no answer is followed by a failure.
Call(s) ==
    LET q == [op |-> slot[s].pc, job |-> slot[s].job, token |-> slot[s].token]
        GiveUp == IF q.op = "complete" THEN [slot EXCEPT ![s].pc = "fail"] ELSE Idle(s) IN
    /\ s \in ApiSlots /\ slot[s].pc \in {"complete", "fail", "cancel"}
    /\ \/ /\ job' = [job EXCEPT ![q.job] = Serve(@, "api", q)]
          /\ slot' \in {Idle(s), GiveUp} /\ UNCHANGED late
       \/ /\ slot' = GiveUp /\ UNCHANGED job
          /\ late' \in {late} \cup (IF Cardinality(late) < MaxLate THEN {late \cup {q}} ELSE {})
    /\ UNCHANGED poll

\* A request its sender no longer waits for is served.
ServeLate(q) ==
    /\ q \in late
    /\ job' = [job EXCEPT ![q.job] = Serve(@, "api", q)]
    /\ late' = late \ {q} /\ UNCHANGED <<poll, slot>>

-----------------------------------------------------------------------------
(* The OpenAI worker.                                                      *)

OpenClaim(s, j) ==
    /\ s \in OpenSlots /\ slot[s].pc = "idle"
    /\ MayClaim("openai") /\ Candidate(j, Allowed("openai"))
    /\ job' = [job EXCEPT ![j] = LeaseTo(@, "openai")]
    /\ slot' = [slot EXCEPT ![s] = [pc |-> "running", job |-> j, token |-> job'[j].token, said |-> 0]]
    /\ UNCHANGED <<poll, late>>

\* finish in the worker's own session, after which the cycle ends.
OpenFinish(s, failed, retryable) ==
    /\ Holds(s, LeasedOrCancelling)
    /\ job' = [job EXCEPT ![slot[s].job] = Finish(@, failed, retryable, "completed")]
    /\ slot' = Idle(s)

\* Each event of the stream: the row is read for a cancellation, and with none the chunk is next.
OpenEvent(s) ==
    /\ s \in OpenSlots /\ slot[s].pc = "running"
    /\ \/ Row(s).cancel /\ OpenFinish(s, FALSE, FALSE)
       \/ /\ ~Row(s).cancel /\ slot[s].said < MaxChunks
          /\ slot' = [slot EXCEPT ![s].pc = "append"] /\ UNCHANGED job
    /\ UNCHANGED <<poll, late>>

\* A chunk is written over the one an earlier attempt left.
ChunkReplaced(r, i, t) == [r EXCEPT !.chunks[i] = t]

Chunk(r, i, t) == [r EXCEPT !.chunks[i] = IF @ = 0 THEN t ELSE @]

OpenAppend(s) ==
    /\ s \in OpenSlots /\ slot[s].pc = "append" /\ Holds(s, Leased)
    /\ job' = [job EXCEPT ![slot[s].job] = Chunk(@, slot[s].said + 1, slot[s].token)]
    /\ slot' = [slot EXCEPT ![s].pc = "running", ![s].said = @ + 1]
    /\ UNCHANGED <<poll, late>>

\* The provider fails, or an event or limit cannot be handled: no second attempt once a
\* chunk is out.
OpenFail(s) ==
    /\ s \in OpenSlots /\ slot[s].pc \in {"running", "append"}
    /\ \E retryable \in {b \in BOOLEAN : b => slot[s].pc = "running" /\ slot[s].said = 0} :
         OpenFinish(s, TRUE, retryable)
    /\ UNCHANGED <<poll, late>>

\* The stream is over.  The result is stored first and the lease checked after it, in one
\* transaction.
OpenComplete(s) ==
    /\ s \in OpenSlots /\ slot[s].pc = "running" /\ slot[s].said > 0
    /\ Holds(s, LeasedOrCancelling)
    /\ job' = [job EXCEPT ![slot[s].job] =
                 Finish(StoreResult(@, slot[s].token), FALSE, FALSE, CompletionState(@))]
    /\ slot' = Idle(s) /\ UNCHANGED <<poll, late>>

\* The lease is gone: finish refuses, twice.  An error other than the provider's is followed
\* by a rollback and a recovery; a provider error ends the process.
OpenLeaseLost(s) ==
    /\ s \in OpenSlots /\ slot[s].pc # "idle" /\ ~Holds(s, LeasedOrCancelling)
    /\ RecoverExpired \/ UNCHANGED job
    /\ slot' = Idle(s) /\ UNCHANGED <<poll, late>>

\* The process dies and is started again.
OpenCrash(s) ==
    /\ s \in OpenSlots /\ slot[s].pc # "idle"
    /\ slot' = Idle(s) /\ UNCHANGED <<job, poll, late>>

-----------------------------------------------------------------------------
(* People, and time.                                                       *)

\* The command route's cancel.
Cancel(j) ==
    /\ job[j].state \in {"queued", "retry_wait", "approval_required",
                         "leased", "approved", "cancel_requested"}
    /\ job' = [job EXCEPT ![j].cancel = TRUE,
                          ![j].state = IF @ \in {"queued", "retry_wait", "approval_required"}
                                         THEN "cancelled" ELSE "cancel_requested"]
    /\ UNCHANGED <<poll, slot, late>>

\* The console's cancel leaves a leased row leased.
ConsoleCancel(j) ==
    /\ job[j].state \notin {"absent", "counted", "completed", "cancelled", "dead_letter"}
    /\ job' = [job EXCEPT ![j].cancel = TRUE,
                          ![j].state = IF @ \in {"queued", "retry_wait"} THEN "cancelled" ELSE @]
    /\ UNCHANGED <<poll, slot, late>>

\* Approval and rejection: the pending approval is decided, and the row follows it.
Decide(j) ==
    /\ job[j].approval = "pending"
    /\ \E d \in {"approved", "rejected"} :
         job' = [job EXCEPT ![j].approval = d, ![j].state = d]
    /\ UNCHANGED <<poll, slot, late>>

LeaseExpires(j) ==
    /\ job[j].live
    /\ job' = [job EXCEPT ![j].live = FALSE] /\ UNCHANGED <<poll, slot, late>>

DeadlinePasses(j) ==
    /\ job[j].state \notin {"absent", "counted"} /\ ~job[j].overdue
    /\ job' = [job EXCEPT ![j].overdue = TRUE] /\ UNCHANGED <<poll, slot, late>>

ApiStep(s) == LeaseLost(s) \/ SeeCancel(s) \/ Infer(s) \/ Call(s)

OpenStep(s) ==
    \/ \E j \in Jobs : OpenClaim(s, j)
    \/ OpenEvent(s) \/ OpenAppend(s) \/ OpenFail(s) \/ OpenComplete(s)
    \/ OpenLeaseLost(s) \/ OpenCrash(s)

RowStep(j) ==
    \/ SubmitCount(j) \/ Submit(j) \/ CreateMessageJob(j)
    \/ Cancel(j) \/ ConsoleCancel(j) \/ Decide(j)
    \/ LeaseExpires(j) \/ DeadlinePasses(j)

Next ==
    \/ PollExpire \/ PollRecover \/ PollNothing \/ RecoverRoute
    \/ \E j \in Jobs : PollClaim(j) \/ RowStep(j)
    \/ \E s \in ApiSlots : ApiStep(s)
    \/ \E s \in OpenSlots : OpenStep(s)
    \/ \E q \in late : ServeLate(q)

\* A lease nobody renews: no slot works under its token.
Unattended(j) == \A s \in Slots : slot[s].pc = "idle" \/ slot[s].job # j \/ slot[s].token # job[j].token

Fairness ==
    /\ WF_vars(PollExpire) /\ WF_vars(PollRecover)
    /\ WF_vars(PollNothing \/ \E j \in Jobs : PollClaim(j))
    /\ \A s \in ApiSlots : WF_vars(ApiStep(s))
    /\ \A s \in OpenSlots : WF_vars(OpenStep(s))
    /\ \A j \in Jobs :
         WF_vars(LeaseExpires(j) /\ Unattended(j)) /\ WF_vars(DeadlinePasses(j))

Spec == Init /\ [][Next]_vars /\ Fairness

-----------------------------------------------------------------------------
(* The properties.                                                         *)

(* A row in the queue always has an attempt left: claim does not look at   *)
(* max_attempts, so every way back into the queue has to.                  *)
AttemptsBounded ==
    \A j \in Jobs :
      /\ job[j].attempts <= job[j].max
      /\ job[j].state \in {"queued", "retry_wait"} => job[j].attempts < job[j].max

(* Completion is unique.  A stored result is that of the last lease the    *)
(* row was ever given: no attempt starts once there is a result, and no    *)
(* answer of an earlier attempt is stored.  What is completed or waits for *)
(* an approval has a result.                                               *)
CompletionIsUnique ==
    \A j \in Jobs :
      /\ job[j].result # 0 => job[j].result = job[j].token
      /\ job[j].state \in {"completed", "approval_required", "approved", "rejected"}
           => job[j].result # 0

(* Admission control: the live leases of a worker are within its           *)
(* concurrency, and two of them are of one class that tolerates company.   *)
AdmissionRespected ==
    \A w \in {"api", "openai"} :
      /\ Cardinality(Active(w)) <= Capacity(w)
      /\ \A i, j \in Active(w) :
           i # j => job[i].class = job[j].class /\ job[i].class # "single-admission"

(* A dead-lettered job has no approval row: approvals come with results.   *)
(* retry_dead_letter asks for one that was decided after the failure, so   *)
(* it refuses every job the queue can dead-letter, and is not an action.   *)
DeadLetterHasNoApproval ==
    \A j \in Jobs : job[j].state = "dead_letter" => job[j].approval = "none"

(* Nobody completes or takes up a job after its cancellation: a request in *)
(* flight, a late one and the OpenAI worker's last write all give way.     *)
CancelWins ==
    [][\A j \in Jobs :
         job[j].cancel /\ job'[j].state # job[j].state
           => job'[j].state \notin {"leased", "completed", "approval_required"}]_vars

(* Fencing.  A result or a chunk is written only under the live lease of   *)
(* the attempt that produced it, never by an attempt the row has outlived. *)
WritesAreFenced ==
    [][\A j \in Jobs :
         /\ job'[j].result # job[j].result => job[j].live /\ job'[j].result = job[j].token
         /\ \A i \in 1..MaxChunks : job'[j].chunks[i] # job[j].chunks[i]
              => job[j].live /\ job[j].chunks[i] = 0 /\ job'[j].chunks[i] = job[j].token]_vars

(* Whatever a job has been through, one round of expire_deadlines and      *)
(* recover_expired leaves no lease that ran out and nothing overdue in the *)
(* queue, and what it puts back has an attempt left; a job in time under   *)
(* a live lease is not touched.                                            *)
RoundSettles ==
    \A j \in Jobs :
      LET r == job[j]
          n == Recover(Expire(r)) IN
      /\ n.owner # "none" => n.live
      /\ n.state \in {"queued", "retry_wait"} => ~n.overdue /\ n.attempts < n.max
      /\ r.live /\ ~r.overdue => n = r

(* "a lost lease is recovered" (docs/ai/openai-worker-crash-recovery.md):  *)
(* a lease that ran out does not stay.  Does not hold for the OpenAI       *)
(* worker alone: a restarted process claims and never recovers.            *)
LostLeaseRecovered ==
    \A j \in Jobs : (job[j].owner # "none" /\ ~job[j].live) ~> (job[j].owner = "none")

(* "cancellation races are fenced": a cancelled job stays cancelled.       *)
CancelledStays ==
    [][\A j \in Jobs : job[j].state = "cancelled" => job'[j].state = "cancelled"]_vars
=============================================================================
