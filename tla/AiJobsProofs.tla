---------------------------- MODULE AiJobsProofs ----------------------------
(***************************************************************************)
(* What holds of the AI job queue for any number of jobs, slots, attempts, *)
(* chunks and late requests.  A request touches one row, and recovery      *)
(* touches each row by itself, so the inductive invariant is an invariant  *)
(* of one row, and each operation on a row is shown to keep it.            *)
(***************************************************************************)
EXTENDS AiJobs, FiniteSetTheorems, TLAPS

Queueing == {"absent", "counted", "queued", "retry_wait"}
Answered == {"completed", "approval_required", "approved", "rejected"}

(* A row with an owner is under lease, has a token and no result; a result *)
(* is that of the last token; what waits in the queue has neither, and an  *)
(* attempt left.                                                           *)
RowInv(r) ==
    /\ r \in JobRow
    /\ r.attempts <= r.max
    /\ r.state \in Queueing => r.attempts < r.max
    /\ r.owner # "none" => r.state \in LeasedOrCancelling /\ r.token > 0
    /\ r.state = "leased" => r.owner # "none"
    /\ r.live => r.owner # "none"
    /\ r.result # 0 => /\ r.result = r.token /\ r.owner = "none"
                       /\ r.state \notin Queueing \cup {"leased", "dead_letter", "expired"}
    /\ r.approval # "none" => r.result # 0
    /\ r.state \in Answered => r.result # 0

SlotInv(a) ==
    /\ a \in [pc : Pc, job : Jobs, token : Nat, said : 0..MaxChunks]
    /\ a.pc = "append" => a.said < MaxChunks

RowsInv == job \in [Jobs -> JobRow] /\ \A j \in Jobs : RowInv(job[j])

SlotsInv ==
    /\ slot \in [Slots -> [pc : Pc, job : Jobs, token : Nat, said : 0..MaxChunks]]
    /\ \A s \in Slots : SlotInv(slot[s])

AiInv ==
    /\ RowsInv /\ SlotsInv
    /\ poll \in {"idle", "expired", "recovered"}
    /\ late \subseteq Request

-----------------------------------------------------------------------------
(* The operations on one row.                                              *)

(* Released gives the lease up: the row is sound in its new state when the *)
(* attempts and the result are right for that state.                       *)
LEMMA ReleasedRow ==
    ASSUME NEW r, RowInv(r), NEW st \in JobState, st # "leased",
           st \in Queueing => r.attempts < r.max,
           st \in Queueing \cup {"dead_letter", "expired"} => r.result = 0,
           st \in Answered => r.result # 0
    PROVE  RowInv(Released(r, st))
BY DEF RowInv, Released, JobRow, Queueing, LeasedOrCancelling, Answered

(* StoreResult under a lease: the row is sound but for its lease, which    *)
(* finish is about to give up.                                             *)
LEMMA StoredRow ==
    ASSUME NEW r, RowInv(r), NEW t, NEW w, w # "none",
           AssertLease(r, w, t, LeasedOrCancelling),
           NEW st \in JobState, st \notin Queueing \cup {"leased", "dead_letter", "expired"}
    PROVE  RowInv(Released(StoreResult(r, t), st))
<1> DEFINE n == Released(StoreResult(r, t), st)
<1>1. /\ r \in JobRow /\ r.result = 0 /\ t = r.token /\ t > 0 /\ t \in Nat
      /\ r.attempts <= r.max
  BY DEF RowInv, AssertLease, JobRow
<1>2. /\ StoreResult(r, t) \in JobRow /\ StoreResult(r, t).result = t
      /\ StoreResult(r, t).token = t
      /\ StoreResult(r, t).attempts = r.attempts /\ StoreResult(r, t).max = r.max
  BY <1>1 DEF StoreResult, JobRow
<1>3. /\ n \in JobRow /\ n.result = t /\ n.token = t /\ n.state = st /\ n.owner = "none"
      /\ n.live = FALSE /\ n.attempts <= n.max
  BY <1>1, <1>2 DEF Released, JobRow
<1> QED
  BY <1>1, <1>3 DEF RowInv, Queueing

(* finish of a failure, or of a cancellation.                              *)
LEMMA FinishRow ==
    ASSUME NEW r, RowInv(r), NEW t, NEW w, w # "none",
           AssertLease(r, w, t, LeasedOrCancelling),
           NEW failed \in BOOLEAN, NEW retryable \in BOOLEAN, failed \/ r.cancel
    PROVE  RowInv(Finish(r, failed, retryable, "completed"))
<1>1. r.result = 0
  BY DEF RowInv, AssertLease
<1>2. CASE r.cancel
  BY <1>1, <1>2, ReleasedRow DEF Finish, JobState, Resting, Queueing, Answered
<1>3. CASE ~r.cancel /\ retryable /\ r.attempts < r.max
  BY <1>1, <1>3, ReleasedRow DEF Finish, JobState, Resting, Queueing, Answered
<1>4. CASE ~r.cancel /\ ~(retryable /\ r.attempts < r.max)
  BY <1>1, <1>4, ReleasedRow DEF Finish, JobState, Resting, Queueing, Answered
<1> QED
  BY <1>2, <1>3, <1>4

(* store_result and finish, in one transaction.                            *)
LEMMA CompleteRow ==
    ASSUME NEW r, RowInv(r), NEW t, NEW w, w # "none",
           AssertLease(r, w, t, LeasedOrCancelling)
    PROVE  RowInv(Finish(StoreResult(r, t), FALSE, FALSE, CompletionState(r)))
<1>1. StoreResult(r, t).cancel = r.cancel
  BY DEF StoreResult, RowInv, JobRow
<1>2. Finish(StoreResult(r, t), FALSE, FALSE, CompletionState(r))
        = Released(StoreResult(r, t), IF r.cancel THEN "cancelled" ELSE CompletionState(r))
  BY <1>1 DEF Finish
<1>3. (IF r.cancel THEN "cancelled" ELSE CompletionState(r))
        \in {"cancelled", "approval_required", "completed"}
  BY DEF CompletionState
<1> QED
  BY <1>2, <1>3, StoredRow DEF JobState, Resting, Queueing

(* Every request of the polling worker.                                    *)
LEMMA ServeRow ==
    ASSUME NEW r, RowInv(r), NEW w, w # "none", NEW q \in Request
    PROVE  RowInv(Serve(r, w, q))
<1>1. CASE q.op = "complete"
  <2>1. AssertLease(r, w, q.token, Leased) => AssertLease(r, w, q.token, LeasedOrCancelling)
    BY DEF AssertLease, Leased, LeasedOrCancelling
  <2> QED
    BY <1>1, <2>1, CompleteRow DEF Serve, Complete
<1>2. CASE q.op = "fail"
  BY <1>2, FinishRow DEF Serve, FailJob
<1>3. CASE q.op = "cancel"
  <2>1. ASSUME AssertLease(r, w, q.token, LeasedOrCancelling) PROVE RowInv(Released(r, "cancelled"))
    BY <2>1, ReleasedRow DEF JobState, Resting, Queueing, Answered
  <2> QED
    BY <1>3, <2>1 DEF Serve, WorkerCancel
<1> QED
  BY <1>1, <1>2, <1>3 DEF Request

(* recover_expired, on each row.                                           *)
LEMMA RecoverRow ==
    ASSUME NEW r, RowInv(r)
    PROVE  RowInv(Recover(r))
<1>1. ASSUME r.owner # "none" PROVE r.result = 0
  BY <1>1 DEF RowInv
<1>2. ASSUME r.owner # "none" PROVE RowInv(Released(r, "cancelled"))
  BY <1>1, <1>2, ReleasedRow DEF JobState, Resting, Queueing, Answered
<1>3. ASSUME r.owner # "none", r.attempts < r.max PROVE RowInv(Released(r, "retry_wait"))
  BY <1>1, <1>3, ReleasedRow DEF JobState, Resting, Queueing, Answered
<1>4. ASSUME r.owner # "none" PROVE RowInv(Released(r, "dead_letter"))
  BY <1>1, <1>4, ReleasedRow DEF JobState, Resting, Queueing, Answered
<1> QED
  BY <1>2, <1>3, <1>4 DEF Recover

(* expire_deadlines, on each row.                                          *)
LEMMA ExpireRow ==
    ASSUME NEW r, RowInv(r)
    PROVE  RowInv(Expire(r))
<1>1. ASSUME r.state \in {"queued", "retry_wait", "leased"} PROVE r.result = 0
  BY <1>1 DEF RowInv, Queueing
<1>2. ASSUME r.state \in {"queued", "retry_wait", "leased"} PROVE RowInv(Released(r, "expired"))
  BY <1>1, <1>2, ReleasedRow DEF JobState, Resting, Queueing, Answered
<1> QED
  BY <1>2 DEF Expire

(* claim.                                                                  *)
LEMMA LeaseRow ==
    ASSUME NEW r, RowInv(r), r.state \in {"queued", "retry_wait"}, NEW w \in {"api", "openai"}
    PROVE  RowInv(LeaseTo(r, w))
<1>1. r \in JobRow /\ r.result = 0 /\ r.approval = "none" /\ r.attempts < r.max
  BY DEF RowInv, Queueing
<1>2. "leased" \in JobState /\ w \in {"none", "api", "openai"}
      /\ r.token + 1 \in Nat /\ r.attempts + 1 \in Nat
  BY <1>1 DEF JobState, JobRow
<1>3. LeaseTo(r, w) \in JobRow
  BY <1>1, <1>2 DEF LeaseTo, JobRow
<1>4. /\ LeaseTo(r, w).state = "leased" /\ LeaseTo(r, w).owner = w
      /\ LeaseTo(r, w).token = r.token + 1 /\ LeaseTo(r, w).attempts = r.attempts + 1
      /\ LeaseTo(r, w).max = r.max /\ LeaseTo(r, w).result = 0
      /\ LeaseTo(r, w).approval = "none"
  BY <1>1 DEF LeaseTo, JobRow
<1> QED
  BY <1>1, <1>3, <1>4 DEF RowInv, JobRow, Queueing, LeasedOrCancelling, Answered

(* append_chunk.                                                           *)
LEMMA ChunkRow ==
    ASSUME NEW r, RowInv(r), NEW t \in Nat, NEW i \in 1..MaxChunks
    PROVE  RowInv(Chunk(r, i, t))
<1>1. [r.chunks EXCEPT ![i] = IF @ = 0 THEN t ELSE @] \in [1..MaxChunks -> Nat]
  BY DEF RowInv, JobRow
<1>2. Chunk(r, i, t) = [r EXCEPT !.chunks = [r.chunks EXCEPT ![i] = IF @ = 0 THEN t ELSE @]]
  BY DEF Chunk, RowInv, JobRow
<1>3. /\ Chunk(r, i, t) \in JobRow /\ Chunk(r, i, t).state = r.state
      /\ Chunk(r, i, t).owner = r.owner /\ Chunk(r, i, t).live = r.live
      /\ Chunk(r, i, t).token = r.token /\ Chunk(r, i, t).attempts = r.attempts
      /\ Chunk(r, i, t).max = r.max /\ Chunk(r, i, t).result = r.result
      /\ Chunk(r, i, t).approval = r.approval
  BY <1>1, <1>2 DEF RowInv, JobRow
<1> QED
  BY <1>3 DEF RowInv

-----------------------------------------------------------------------------
(* From one row or slot to all of them.                                    *)

LEMMA RowWritten ==
    ASSUME RowsInv, NEW j \in Jobs, NEW x, RowInv(x), job' = [job EXCEPT ![j] = x]
    PROVE  RowsInv'
BY DEF RowsInv, RowInv

LEMMA SlotWritten ==
    ASSUME SlotsInv, NEW s \in Slots, NEW x, SlotInv(x), slot' = [slot EXCEPT ![s] = x]
    PROVE  SlotsInv'
BY DEF SlotsInv, SlotInv

LEMMA SlotIdle ==
    ASSUME SlotsInv, NEW s \in Slots, slot' = Idle(s)
    PROVE  SlotsInv'
<1> DEFINE x == [slot[s] EXCEPT !.pc = "idle", !.said = 0]
<1>1. slot' = [slot EXCEPT ![s] = x]
  BY DEF Idle, SlotsInv
<1>2. slot[s] \in [pc : Pc, job : Jobs, token : Nat, said : 0..MaxChunks]
  BY DEF SlotsInv
<1>3. "idle" \in Pc /\ 0 \in 0..MaxChunks
  BY AiConstants DEF Pc
<1>4. SlotInv(x)
  BY <1>2, <1>3 DEF SlotInv
<1> QED
  BY <1>1, <1>4, SlotWritten

(* A slot moves on to another step of its job.                             *)
LEMMA SlotMoves ==
    ASSUME SlotsInv, NEW s \in Slots, NEW pc \in Pc \ {"append"},
           slot' = [slot EXCEPT ![s].pc = pc]
    PROVE  SlotsInv'
<1> DEFINE x == [slot[s] EXCEPT !.pc = pc]
<1>1. slot' = [slot EXCEPT ![s] = x]
  BY DEF SlotsInv
<1>2. SlotInv(x)
  BY DEF SlotsInv, SlotInv, Pc
<1> QED
  BY <1>1, <1>2, SlotWritten

LEMMA RecoveredRows ==
    ASSUME RowsInv, RecoverExpired
    PROVE  RowsInv'
<1>1. \A j \in Jobs : RowInv(job'[j])
  BY RecoverRow DEF RowsInv, RecoverExpired
<1>2. job' \in [Jobs -> JobRow]
  BY <1>1 DEF RecoverExpired, RowInv
<1> QED
  BY <1>1, <1>2 DEF RowsInv

LEMMA ExpiredRows ==
    ASSUME RowsInv, ExpireDeadlines
    PROVE  RowsInv'
<1>1. \A j \in Jobs : RowInv(job'[j])
  BY ExpireRow DEF RowsInv, ExpireDeadlines
<1>2. job' \in [Jobs -> JobRow]
  BY <1>1 DEF ExpireDeadlines, RowInv
<1> QED
  BY <1>1, <1>2 DEF RowsInv

(* A claim leases the row and may give it to a slot.                       *)
LEMMA ClaimStep ==
    ASSUME AiInv, NEW j \in Jobs, NEW w \in {"api", "openai"},
           job[j].state \in {"queued", "retry_wait"},
           job' = [job EXCEPT ![j] = LeaseTo(@, w)]
    PROVE  RowsInv' /\ job'[j].token \in Nat
<1>1. RowInv(LeaseTo(job[j], w))
  BY LeaseRow DEF AiInv, RowsInv
<1>2. job' = [job EXCEPT ![j] = LeaseTo(job[j], w)]
  BY DEF AiInv, RowsInv
<1>3. RowsInv'
  BY <1>1, <1>2, RowWritten DEF AiInv
<1> QED
  BY <1>3 DEF RowsInv, JobRow

LEMMA ClaimedSlot ==
    ASSUME SlotsInv, NEW s \in Slots, NEW j \in Jobs, NEW t \in Nat,
           slot' = [slot EXCEPT ![s] = [pc |-> "running", job |-> j, token |-> t, said |-> 0]]
    PROVE  SlotsInv'
<1>1. SlotInv([pc |-> "running", job |-> j, token |-> t, said |-> 0])
  BY AiConstants DEF SlotInv, Pc
<1> QED
  BY <1>1, SlotWritten

(* A request of the polling worker, in time or late.                       *)
LEMMA ServeStep ==
    ASSUME RowsInv, NEW q \in Request, job' = [job EXCEPT ![q.job] = Serve(@, "api", q)]
    PROVE  RowsInv'
<1>1. q.job \in Jobs
  BY DEF Request
<1>2. RowInv(Serve(job[q.job], "api", q))
  BY <1>1, ServeRow DEF RowsInv
<1>3. job' = [job EXCEPT ![q.job] = Serve(job[q.job], "api", q)]
  BY <1>1 DEF RowsInv
<1> QED
  BY <1>1, <1>2, <1>3, RowWritten

LEMMA OpenFinishStep ==
    ASSUME RowsInv, SlotsInv, NEW s \in Slots, NEW failed \in BOOLEAN, NEW retryable \in BOOLEAN,
           OpenFinish(s, failed, retryable), failed \/ Row(s).cancel
    PROVE  RowsInv' /\ SlotsInv'
<1> DEFINE j == slot[s].job
<1>1. j \in Jobs /\ WorkerOf(s) # "none"
  BY DEF SlotsInv, WorkerOf
<1>2. RowInv(Finish(job[j], failed, retryable, "completed"))
  BY <1>1, FinishRow DEF RowsInv, OpenFinish, Holds, Row
<1>3. job' = [job EXCEPT ![j] = Finish(job[j], failed, retryable, "completed")]
  BY <1>1 DEF RowsInv, OpenFinish
<1>4. RowsInv'
  BY <1>1, <1>2, <1>3, RowWritten
<1> QED
  BY <1>4, SlotIdle DEF OpenFinish

-----------------------------------------------------------------------------
(* The invariant: it holds at first, and every step keeps it.              *)

LEMMA InitInv == Init => AiInv
<1> SUFFICES ASSUME Init PROVE AiInv
  OBVIOUS
<1>1. \A j \in Jobs :
        /\ job[j] \in JobRow /\ job[j].state = "absent" /\ job[j].owner = "none" /\ ~job[j].live
        /\ job[j].attempts = 0 /\ job[j].result = 0 /\ job[j].approval = "none"
        /\ job[j].max \in 1..MaxAttempts
  <2> TAKE j \in Jobs
  <2>1. PICK m \in 1..MaxAttempts, c \in Classes, n \in BOOLEAN :
          job[j] = [state |-> "absent", owner |-> "none", live |-> FALSE, token |-> 0,
                    attempts |-> 0, max |-> m, class |-> c, needs |-> n,
                    cancel |-> FALSE, overdue |-> FALSE, result |-> 0,
                    approval |-> "none", chunks |-> [i \in 1..MaxChunks |-> 0]]
    BY DEF Init
  <2>2. "absent" \in JobState /\ [i \in 1..MaxChunks |-> 0] \in [1..MaxChunks -> Nat]
    BY DEF JobState
  <2> QED
    BY <2>1, <2>2 DEF JobRow
<1>2. \A j \in Jobs : RowInv(job[j])
  BY <1>1 DEF RowInv, Answered
<1>3. RowsInv
  BY <1>1, <1>2 DEF RowsInv, Init
<1>4. (CHOOSE j \in Jobs : TRUE) \in Jobs
  BY AiConstants
<1>5. "idle" \in Pc /\ 0 \in 0..MaxChunks
  BY AiConstants DEF Pc
<1>6. SlotsInv
  BY <1>4, <1>5 DEF SlotsInv, SlotInv, Init
<1> QED
  BY <1>3, <1>6 DEF AiInv, Init

LEMMA RowStepInv ==
    ASSUME AiInv, NEW j \in Jobs, RowStep(j)
    PROVE  AiInv'
<1> DEFINE r == job[j]
<1>0. RowInv(r) /\ r \in JobRow
  BY DEF AiInv, RowsInv, RowInv
<1>1. ASSUME NEW x, RowInv(x), job' = [job EXCEPT ![j] = x], UNCHANGED <<poll, slot, late>>
      PROVE  AiInv'
  <2>1. RowsInv'
    BY <1>1, RowWritten DEF AiInv
  <2> QED
    BY <1>1, <2>1 DEF AiInv, SlotsInv
<1>2. CASE SubmitCount(j)
  <2>1. RowInv([r EXCEPT !.state = "counted"])
    BY <1>0, <1>2 DEF SubmitCount, RowInv, JobRow, JobState, Queueing, Answered, LeasedOrCancelling
  <2> QED
    BY <1>1, <1>2, <2>1 DEF SubmitCount
<1>3. CASE Submit(j)
  <2>1. RowInv([r EXCEPT !.state = "queued"])
    BY <1>0, <1>3 DEF Submit, RowInv, JobRow, JobState, Queueing, Answered, LeasedOrCancelling
  <2> QED
    BY <1>1, <1>3, <2>1 DEF Submit
<1>4. CASE CreateMessageJob(j)
  <2>1. RowInv([r EXCEPT !.state = "queued"])
    BY <1>0, <1>4 DEF CreateMessageJob, RowInv, JobRow, JobState, Queueing, Answered, LeasedOrCancelling
  <2> QED
    BY <1>1, <1>4, <2>1 DEF CreateMessageJob
<1>5. CASE Cancel(j)
  <2> DEFINE st == IF r.state \in {"queued", "retry_wait", "approval_required"}
                     THEN "cancelled" ELSE "cancel_requested"
             x == [r EXCEPT !.cancel = TRUE, !.state = st]
  <2>1. job' = [job EXCEPT ![j] = x]
    BY <1>5 DEF Cancel, AiInv, RowsInv
  <2>2. st \in JobState /\ st \in {"cancelled", "cancel_requested"}
    BY DEF JobState, Resting
  <2>3. x \in JobRow
    BY <1>0, <2>2 DEF JobRow
  <2>4. /\ x.state = st /\ x.owner = r.owner /\ x.live = r.live /\ x.token = r.token
        /\ x.attempts = r.attempts /\ x.max = r.max /\ x.result = r.result
        /\ x.approval = r.approval
    BY <1>0 DEF JobRow
  <2>5. r.owner # "none" => st = "cancel_requested"
    BY <1>0 DEF RowInv, LeasedOrCancelling
  <2>6. RowInv(x)
    BY <1>0, <2>2, <2>3, <2>4, <2>5 DEF RowInv, Queueing, Answered, LeasedOrCancelling
  <2> QED
    BY <1>1, <1>5, <2>1, <2>6 DEF Cancel
<1>6. CASE ConsoleCancel(j)
  <2> DEFINE st == IF r.state \in {"queued", "retry_wait"} THEN "cancelled" ELSE r.state
             x == [r EXCEPT !.cancel = TRUE, !.state = st]
  <2>1. job' = [job EXCEPT ![j] = x]
    BY <1>6 DEF ConsoleCancel, AiInv, RowsInv
  <2>2. st \in JobState
    BY <1>0 DEF JobState, Resting, JobRow
  <2>3. x \in JobRow
    BY <1>0, <2>2 DEF JobRow
  <2>4. /\ x.state = st /\ x.owner = r.owner /\ x.live = r.live /\ x.token = r.token
        /\ x.attempts = r.attempts /\ x.max = r.max /\ x.result = r.result
        /\ x.approval = r.approval
    BY <1>0 DEF JobRow
  <2>5. RowInv(x)
    BY <1>0, <2>3, <2>4 DEF RowInv, Queueing, Answered, LeasedOrCancelling
  <2> QED
    BY <1>1, <1>6, <2>1, <2>5 DEF ConsoleCancel
<1>7. CASE Decide(j)
  <2>1. PICK d \in {"approved", "rejected"} :
          job' = [job EXCEPT ![j].approval = d, ![j].state = d]
    BY <1>7 DEF Decide
  <2> DEFINE x == [r EXCEPT !.approval = d, !.state = d]
  <2>2. job' = [job EXCEPT ![j] = x]
    BY <2>1 DEF AiInv, RowsInv
  <2>3. r.result # 0
    BY <1>0, <1>7 DEF Decide, RowInv
  <2>4. x \in JobRow
    BY <1>0 DEF JobRow, JobState, Resting
  <2>5. /\ x.state = d /\ x.owner = r.owner /\ x.live = r.live /\ x.token = r.token
        /\ x.attempts = r.attempts /\ x.max = r.max /\ x.result = r.result
        /\ x.approval = d
    BY <1>0 DEF JobRow
  <2>6. RowInv(x)
    BY <1>0, <2>3, <2>4, <2>5 DEF RowInv, Queueing
  <2> QED
    BY <1>1, <1>7, <2>2, <2>6 DEF Decide
<1>8. CASE LeaseExpires(j)
  <2>1. RowInv([r EXCEPT !.live = FALSE])
    BY <1>0 DEF RowInv, JobRow
  <2> QED
    BY <1>1, <1>8, <2>1 DEF LeaseExpires
<1>9. CASE DeadlinePasses(j)
  <2>1. RowInv([r EXCEPT !.overdue = TRUE])
    BY <1>0 DEF RowInv, JobRow
  <2> QED
    BY <1>1, <1>9, <2>1 DEF DeadlinePasses
<1> QED
  BY <1>2, <1>3, <1>4, <1>5, <1>6, <1>7, <1>8, <1>9 DEF RowStep

LEMMA PollStepInv ==
    ASSUME AiInv,
           PollExpire \/ PollRecover \/ PollNothing \/ RecoverRoute \/ \E j \in Jobs : PollClaim(j)
    PROVE  AiInv'
<1>1. CASE PollExpire
  BY <1>1, ExpiredRows DEF PollExpire, AiInv, SlotsInv
<1>2. CASE PollRecover
  BY <1>2, RecoveredRows DEF PollRecover, AiInv, SlotsInv
<1>3. CASE PollNothing
  BY <1>3 DEF PollNothing, AiInv, SlotsInv, RowsInv
<1>4. CASE RecoverRoute
  BY <1>4, RecoveredRows DEF RecoverRoute, AiInv, SlotsInv
<1>5. ASSUME NEW j \in Jobs, PollClaim(j) PROVE AiInv'
  <2>1. RowsInv' /\ job'[j].token \in Nat
    BY <1>5, ClaimStep DEF PollClaim, Candidate
  <2>2. CASE UNCHANGED slot
    BY <1>5, <2>1, <2>2 DEF PollClaim, AiInv, SlotsInv
  <2>3. ASSUME NEW s \in ApiSlots,
               slot' = [slot EXCEPT ![s] = [pc |-> "running", job |-> j,
                                            token |-> job'[j].token, said |-> 0]]
        PROVE  AiInv'
    <3>1. SlotsInv'
      BY <2>1, <2>3, ClaimedSlot DEF AiInv, Slots
    <3> QED
      BY <1>5, <2>1, <3>1 DEF PollClaim, AiInv
  <2> QED
    BY <1>5, <2>2, <2>3 DEF PollClaim
<1> QED
  BY <1>1, <1>2, <1>3, <1>4, <1>5

LEMMA ApiStepInv ==
    ASSUME AiInv, NEW s \in ApiSlots, ApiStep(s)
    PROVE  AiInv'
<1>0. s \in Slots /\ SlotsInv /\ RowsInv
  BY DEF Slots, AiInv
<1>1. CASE LeaseLost(s)
  BY <1>0, <1>1, SlotIdle DEF LeaseLost, AiInv, RowsInv
<1>2. CASE SeeCancel(s)
  <2>1. "cancel" \in Pc \ {"append"}
    BY DEF Pc
  <2> QED
    BY <1>0, <1>2, <2>1, SlotMoves DEF SeeCancel, AiInv, RowsInv
<1>3. CASE Infer(s)
  <2>1. {"complete", "fail"} \subseteq Pc \ {"append"}
    BY DEF Pc
  <2> QED
    BY <1>0, <1>3, <2>1, SlotMoves DEF Infer, AiInv, RowsInv
<1>4. CASE Call(s)
  <2> DEFINE q == [op |-> slot[s].pc, job |-> slot[s].job, token |-> slot[s].token]
             GiveUp == IF q.op = "complete" THEN [slot EXCEPT ![s].pc = "fail"] ELSE Idle(s)
  <2>1. q \in Request
    BY <1>0, <1>4 DEF Call, Request, SlotsInv
  <2>2. ASSUME slot' \in {Idle(s), GiveUp} PROVE SlotsInv'
    <3>1. "fail" \in Pc \ {"append"}
      BY DEF Pc
    <3>2. CASE slot' = Idle(s)
      BY <1>0, <3>2, SlotIdle
    <3>3. CASE slot' = [slot EXCEPT ![s].pc = "fail"]
      BY <1>0, <3>1, <3>3, SlotMoves
    <3> QED
      BY <2>2, <3>2, <3>3
  <2>3. CASE job' = [job EXCEPT ![q.job] = Serve(@, "api", q)] /\ slot' \in {Idle(s), GiveUp}
             /\ UNCHANGED <<late, poll>>
    <3>1. RowsInv'
      BY <1>0, <2>1, <2>3, ServeStep
    <3> QED
      BY <2>2, <2>3, <3>1 DEF AiInv
  <2>4. CASE slot' = GiveUp /\ UNCHANGED <<job, poll>> /\ late' \subseteq late \cup {q}
    BY <1>0, <2>1, <2>2, <2>4 DEF AiInv, RowsInv
  <2>5. late' \in {late} \cup (IF Cardinality(late) < MaxLate THEN {late \cup {q}} ELSE {})
          => late' \subseteq late \cup {q}
    OBVIOUS
  <2> QED
    BY <1>4, <2>3, <2>4, <2>5 DEF Call
<1> QED
  BY <1>1, <1>2, <1>3, <1>4 DEF ApiStep

LEMMA OpenStepInv ==
    ASSUME AiInv, NEW s \in OpenSlots, OpenStep(s)
    PROVE  AiInv'
<1> DEFINE j == slot[s].job
<1>0. s \in Slots /\ SlotsInv /\ RowsInv /\ j \in Jobs /\ RowInv(job[j]) /\ WorkerOf(s) # "none"
  BY DEF Slots, AiInv, SlotsInv, RowsInv, WorkerOf
<1>1. ASSUME NEW i \in Jobs, OpenClaim(s, i) PROVE AiInv'
  <2>1. RowsInv' /\ job'[i].token \in Nat
    BY <1>1, ClaimStep DEF OpenClaim, Candidate
  <2>2. SlotsInv'
    BY <1>0, <1>1, <2>1, ClaimedSlot DEF OpenClaim
  <2> QED
    BY <1>1, <2>1, <2>2 DEF OpenClaim, AiInv
<1>2. CASE OpenEvent(s)
  <2>1. CASE Row(s).cancel /\ OpenFinish(s, FALSE, FALSE)
    BY <1>0, <1>2, <2>1, OpenFinishStep DEF OpenEvent, AiInv
  <2>2. CASE slot[s].said < MaxChunks /\ slot' = [slot EXCEPT ![s].pc = "append"] /\ UNCHANGED job
    <3> DEFINE x == [slot[s] EXCEPT !.pc = "append"]
    <3>1. slot' = [slot EXCEPT ![s] = x]
      BY <1>0, <2>2 DEF SlotsInv
    <3>2. slot[s] \in [pc : Pc, job : Jobs, token : Nat, said : 0..MaxChunks] /\ "append" \in Pc
      BY <1>0 DEF SlotsInv, Pc
    <3>3. SlotInv(x)
      BY <2>2, <3>2 DEF SlotInv
    <3>4. SlotsInv'
      BY <1>0, <3>1, <3>3, SlotWritten
    <3> QED
      BY <1>2, <2>2, <3>4 DEF OpenEvent, AiInv, RowsInv
  <2> QED
    BY <1>2, <2>1, <2>2 DEF OpenEvent
<1>3. CASE OpenAppend(s)
  <2>1. /\ slot[s] \in [pc : Pc, job : Jobs, token : Nat, said : 0..MaxChunks]
        /\ slot[s].said < MaxChunks /\ MaxChunks \in Nat
    BY <1>0, <1>3, AiConstants DEF OpenAppend, SlotsInv, SlotInv
  <2>2. slot[s].token \in Nat /\ slot[s].said + 1 \in 1..MaxChunks
    BY <2>1
  <2>3. RowInv(Chunk(job[j], slot[s].said + 1, slot[s].token))
    BY <1>0, <2>2, ChunkRow
  <2>4. job' = [job EXCEPT ![j] = Chunk(job[j], slot[s].said + 1, slot[s].token)]
    BY <1>0, <1>3 DEF OpenAppend, RowsInv
  <2>5. RowsInv'
    BY <1>0, <2>3, <2>4, RowWritten
  <2> DEFINE x == [slot[s] EXCEPT !.pc = "running", !.said = @ + 1]
  <2>6. slot' = [slot EXCEPT ![s] = x]
    BY <1>0, <1>3 DEF OpenAppend, SlotsInv
  <2>7. "running" \in Pc
    BY DEF Pc
  <2>8. SlotInv(x)
    <3>1. slot[s].said + 1 \in 0..MaxChunks
      BY <2>1
    <3>2. x \in [pc : Pc, job : Jobs, token : Nat, said : 0..MaxChunks] /\ x.pc = "running"
      BY <2>1, <2>7, <3>1
    <3> QED
      BY <3>2 DEF SlotInv
  <2>9. SlotsInv'
    BY <1>0, <2>6, <2>8, SlotWritten
  <2> QED
    BY <1>3, <2>5, <2>9 DEF OpenAppend, AiInv
<1>4. CASE OpenFail(s)
  <2>1. PICK retryable \in BOOLEAN : OpenFinish(s, TRUE, retryable)
    BY <1>4 DEF OpenFail
  <2>2. RowsInv' /\ SlotsInv'
    BY <1>0, <2>1, OpenFinishStep
  <2> QED
    BY <1>4, <2>2 DEF OpenFail, AiInv
<1>5. CASE OpenComplete(s)
  <2>1. RowInv(Finish(StoreResult(job[j], slot[s].token), FALSE, FALSE, CompletionState(job[j])))
    BY <1>0, <1>5, CompleteRow DEF OpenComplete, Holds, Row
  <2>2. job' = [job EXCEPT ![j] =
                  Finish(StoreResult(job[j], slot[s].token), FALSE, FALSE, CompletionState(job[j]))]
    BY <1>0, <1>5 DEF OpenComplete, RowsInv
  <2>3. RowsInv'
    BY <1>0, <2>1, <2>2, RowWritten
  <2>4. SlotsInv'
    BY <1>0, <1>5, SlotIdle DEF OpenComplete
  <2> QED
    BY <1>5, <2>3, <2>4 DEF OpenComplete, AiInv
<1>6. CASE OpenLeaseLost(s)
  <2>1. RowsInv'
    BY <1>0, <1>6, RecoveredRows DEF OpenLeaseLost, RowsInv
  <2>2. SlotsInv'
    BY <1>0, <1>6, SlotIdle DEF OpenLeaseLost
  <2> QED
    BY <1>6, <2>1, <2>2 DEF OpenLeaseLost, AiInv
<1>7. CASE OpenCrash(s)
  BY <1>0, <1>7, SlotIdle DEF OpenCrash, AiInv, RowsInv
<1> QED
  BY <1>1, <1>2, <1>3, <1>4, <1>5, <1>6, <1>7 DEF OpenStep

LEMMA StepInv == AiInv /\ [Next]_vars => AiInv'
<1> SUFFICES ASSUME AiInv, [Next]_vars PROVE AiInv'
  OBVIOUS
<1>1. CASE UNCHANGED vars
  BY <1>1 DEF vars, AiInv, RowsInv, SlotsInv
<1>2. ASSUME NEW q \in late, ServeLate(q) PROVE AiInv'
  <2>1. q \in Request
    BY <1>2 DEF AiInv
  <2>2. RowsInv'
    BY <1>2, <2>1, ServeStep DEF AiInv, ServeLate
  <2> QED
    BY <1>2, <2>2 DEF AiInv, ServeLate, SlotsInv
<1> QED
  BY <1>1, <1>2, PollStepInv, RowStepInv, ApiStepInv, OpenStepInv DEF Next

LEMMA AiInvariant == Spec => []AiInv
BY InitInv, StepInv, PTL DEF Spec

-----------------------------------------------------------------------------
(* The theorems.                                                           *)

(* No way back into the queue - a retryable failure, a release, a recovery *)
(* - leaves a row that claim would take past its max_attempts.             *)
THEOREM AttemptsAreBounded == Spec => []AttemptsBounded
<1>1. AiInv => AttemptsBounded
  BY DEF AiInv, RowsInv, RowInv, AttemptsBounded, Queueing
<1> QED
  BY <1>1, AiInvariant, PTL

(* A stored result is that of the last lease, and every completed, decided *)
(* or waiting job has one.                                                 *)
THEOREM OneCompletion == Spec => []CompletionIsUnique
<1>1. AiInv => CompletionIsUnique
  BY DEF AiInv, RowsInv, RowInv, CompletionIsUnique, Answered
<1> QED
  BY <1>1, AiInvariant, PTL

(* What expire_deadlines and recover_expired together may make of a row r. *)
Settles(r, n) ==
    /\ n.owner # "none" => n.live
    /\ n.state \in {"queued", "retry_wait"} => ~n.overdue /\ n.attempts < n.max
    /\ r.live /\ ~r.overdue => n = r

(* One round over a row.                                                   *)
LEMMA RowSettles ==
    ASSUME NEW r, RowInv(r)
    PROVE  Settles(r, Recover(Expire(r)))
<1>0. r \in JobRow /\ r.live \in BOOLEAN /\ r.overdue \in BOOLEAN
  BY DEF RowInv, JobRow
<1>e. PICK e : e = Expire(r)
  OBVIOUS
<1>n. PICK n : n = Recover(e)
  OBVIOUS
<1>1. CASE r.state \in {"queued", "retry_wait", "leased"} /\ r.overdue
  <2>1. e = Released(r, "expired")
    BY <1>1, <1>e DEF Expire
  <2>2. e.state = "expired" /\ e.owner = "none"
    BY <1>0, <2>1 DEF Released, JobRow
  <2>3. n = e
    BY <2>2, <1>n DEF Recover, LeasedOrCancelling
  <2> QED
    BY <1>1, <1>e, <1>n, <2>2, <2>3 DEF Settles
<1>2. CASE ~(r.state \in {"queued", "retry_wait", "leased"} /\ r.overdue)
  <2>1. n = Recover(r)
    BY <1>2, <1>e, <1>n DEF Expire
  <2>2. CASE r.state \in LeasedOrCancelling /\ r.owner # "none" /\ ~r.live
    <3>1. PICK st \in {"cancelled", "retry_wait", "dead_letter"} :
             /\ n = Released(r, st)
             /\ st = "retry_wait" => r.attempts < r.max /\ ~r.overdue
      BY <1>2, <2>1, <2>2 DEF Recover, LeasedOrCancelling
    <3>2. /\ n.state = st /\ n.owner = "none" /\ n.overdue = r.overdue
          /\ n.attempts = r.attempts /\ n.max = r.max
      BY <1>0, <3>1 DEF Released, JobRow
    <3> QED
      BY <1>e, <1>n, <2>2, <3>1, <3>2 DEF Settles
  <2>3. CASE ~(r.state \in LeasedOrCancelling /\ r.owner # "none" /\ ~r.live)
    <3>1. n = r
      BY <2>1, <2>3 DEF Recover
    <3>2. r.owner # "none" => r.live
      BY <2>3 DEF RowInv
    <3>3. r.state \in {"queued", "retry_wait"} => ~r.overdue /\ r.attempts < r.max
      BY <1>2 DEF RowInv, Queueing
    <3> QED
      BY <1>e, <1>n, <3>1, <3>2, <3>3 DEF Settles
  <2> QED
    BY <2>2, <2>3
<1> QED
  BY <1>1, <1>2

(* However late, lost or cancelled a job is, one round of the two sweeps   *)
(* leaves it with a live lease, in time in the queue with an attempt left, *)
(* or at rest.                                                             *)
THEOREM RoundsSettle == Spec => []RoundSettles
<1>1. AiInv => RoundSettles
  BY RowSettles DEF AiInv, RowsInv, RoundSettles, Settles
<1> QED
  BY <1>1, AiInvariant, PTL

(* No dead-lettered job has the approval that retry_dead_letter asks for.  *)
THEOREM DeadLettersStay == Spec => []DeadLetterHasNoApproval
<1>1. AiInv => DeadLetterHasNoApproval
  BY DEF AiInv, RowsInv, RowInv, DeadLetterHasNoApproval
<1> QED
  BY <1>1, AiInvariant, PTL

-----------------------------------------------------------------------------
(* What a step may do to a row: the two action properties, row by row.     *)

Sound(r, n) ==
    /\ r.cancel /\ n.state # r.state => n.state \notin {"leased", "completed", "approval_required"}
    /\ n.result # r.result => r.live /\ n.result = r.token
    /\ \A i \in 1..MaxChunks :
         n.chunks[i] # r.chunks[i] => r.live /\ r.chunks[i] = 0 /\ n.chunks[i] = r.token

LEMMA SoundReleased ==
    ASSUME NEW r \in JobRow, NEW st,
           r.cancel => st \notin {"leased", "completed", "approval_required"}
    PROVE  Sound(r, Released(r, st))
<1>1. /\ Released(r, st).state = st /\ Released(r, st).result = r.result
      /\ Released(r, st).chunks = r.chunks
  BY DEF Released, JobRow
<1> QED
  BY <1>1 DEF Sound

LEMMA SoundFinish ==
    ASSUME NEW r \in JobRow, NEW failed, NEW retryable
    PROVE  Sound(r, Finish(r, failed, retryable, "completed"))
BY SoundReleased DEF Finish

LEMMA SoundComplete ==
    ASSUME NEW r, RowInv(r), NEW w, NEW t, AssertLease(r, w, t, LeasedOrCancelling)
    PROVE  Sound(r, Finish(StoreResult(r, t), FALSE, FALSE, CompletionState(r)))
<1> DEFINE m == StoreResult(r, t)
           n == Finish(m, FALSE, FALSE, CompletionState(r))
<1>1. r \in JobRow /\ r.live /\ t = r.token /\ t \in Nat
  BY DEF RowInv, AssertLease, JobRow
<1>2. m \in JobRow /\ m.cancel = r.cancel /\ m.chunks = r.chunks /\ m.result \in {r.result, t}
  BY <1>1 DEF StoreResult, JobRow
<1>3. n.result = m.result /\ n.chunks = m.chunks /\ (r.cancel => n.state = "cancelled")
  BY <1>2 DEF Finish, Released, JobRow
<1> QED
  BY <1>1, <1>2, <1>3 DEF Sound

LEMMA SoundServe ==
    ASSUME NEW r, RowInv(r), NEW q \in Request
    PROVE  Sound(r, Serve(r, "api", q))
<1>1. r \in JobRow /\ Sound(r, r)
  BY DEF RowInv, Sound
<1>2. CASE q.op = "complete"
  <2>1. AssertLease(r, "api", q.token, Leased) => AssertLease(r, "api", q.token, LeasedOrCancelling)
    BY DEF AssertLease, Leased, LeasedOrCancelling
  <2> QED
    BY <1>1, <1>2, <2>1, SoundComplete DEF Serve, Complete
<1>3. CASE q.op = "fail"
  BY <1>1, <1>3, SoundFinish DEF Serve, FailJob
<1>4. CASE q.op = "cancel"
  BY <1>1, <1>4, SoundReleased DEF Serve, WorkerCancel
<1> QED
  BY <1>2, <1>3, <1>4 DEF Request

LEMMA SoundRecover ==
    ASSUME NEW r \in JobRow
    PROVE  Sound(r, Recover(r)) /\ Sound(r, Expire(r))
<1>1. Sound(r, r)
  BY DEF Sound
<1> QED
  BY <1>1, SoundReleased DEF Recover, Expire

(* A claim takes no cancelled row, and writes neither result nor chunk.    *)
LEMMA SoundLease ==
    ASSUME NEW r \in JobRow, ~r.cancel, NEW w
    PROVE  Sound(r, LeaseTo(r, w))
<1>1. LeaseTo(r, w).result = r.result /\ LeaseTo(r, w).chunks = r.chunks
  BY DEF LeaseTo, JobRow
<1> QED
  BY <1>1 DEF Sound

LEMMA SoundChunk ==
    ASSUME NEW r \in JobRow, r.live, NEW k \in 1..MaxChunks
    PROVE  Sound(r, Chunk(r, k, r.token))
<1> DEFINE n == Chunk(r, k, r.token)
<1>1. n = [r EXCEPT !.chunks = [r.chunks EXCEPT ![k] = IF @ = 0 THEN r.token ELSE @]]
  BY DEF Chunk, JobRow
<1>2. /\ n.state = r.state /\ n.result = r.result
      /\ n.chunks = [r.chunks EXCEPT ![k] = IF @ = 0 THEN r.token ELSE @]
  BY <1>1 DEF JobRow
<1>3. r.chunks \in [1..MaxChunks -> Nat]
  BY DEF JobRow
<1> QED
  BY <1>2, <1>3 DEF Sound

(* One row is written, the others stay.                                    *)
LEMMA SoundWritten ==
    ASSUME RowsInv, NEW j \in Jobs, NEW x, Sound(job[j], x), job' = [job EXCEPT ![j] = x]
    PROVE  \A i \in Jobs : Sound(job[i], job'[i])
<1>1. \A i \in Jobs : job'[i] = IF i = j THEN x ELSE job[i]
  BY DEF RowsInv
<1>2. \A i \in Jobs : Sound(job[i], job[i])
  BY DEF Sound
<1> QED
  BY <1>1, <1>2

LEMMA SoundRowStep ==
    ASSUME AiInv, NEW j \in Jobs, RowStep(j)
    PROVE  \A i \in Jobs : Sound(job[i], job'[i])
<1> DEFINE r == job[j]
<1>0. RowsInv /\ RowInv(r) /\ r \in JobRow
  BY DEF AiInv, RowsInv, RowInv
<1>1. ASSUME NEW st, r.cancel => st = r.state \/ st \notin {"leased", "completed", "approval_required"},
             NEW x, x.state = st, x.result = r.result, x.chunks = r.chunks,
             job' = [job EXCEPT ![j] = x]
      PROVE  \A i \in Jobs : Sound(job[i], job'[i])
  <2>1. Sound(r, x)
    BY <1>1 DEF Sound
  <2> QED
    BY <1>0, <1>1, <2>1, SoundWritten
<1>2. CASE SubmitCount(j)
  <2> DEFINE x == [r EXCEPT !.state = "counted"]
  <2>1. x.state = "counted" /\ x.result = r.result /\ x.chunks = r.chunks
    BY <1>0 DEF JobRow
  <2> QED
    BY <1>1, <1>2, <2>1 DEF SubmitCount
<1>3. CASE Submit(j) \/ CreateMessageJob(j)
  <2> DEFINE x == [r EXCEPT !.state = "queued"]
  <2>1. x.state = "queued" /\ x.result = r.result /\ x.chunks = r.chunks
    BY <1>0 DEF JobRow
  <2> QED
    BY <1>1, <1>3, <2>1 DEF Submit, CreateMessageJob
<1>4. CASE Cancel(j)
  <2> DEFINE st == IF r.state \in {"queued", "retry_wait", "approval_required"}
                     THEN "cancelled" ELSE "cancel_requested"
             x == [r EXCEPT !.cancel = TRUE, !.state = st]
  <2>1. x.state = st /\ x.result = r.result /\ x.chunks = r.chunks
    BY <1>0 DEF JobRow
  <2>2. job' = [job EXCEPT ![j] = x]
    BY <1>0, <1>4 DEF Cancel, RowsInv
  <2> QED
    BY <1>1, <2>1, <2>2
<1>5. CASE ConsoleCancel(j)
  <2> DEFINE st == IF r.state \in {"queued", "retry_wait"} THEN "cancelled" ELSE r.state
             x == [r EXCEPT !.cancel = TRUE, !.state = st]
  <2>1. x.state = st /\ x.result = r.result /\ x.chunks = r.chunks
    BY <1>0 DEF JobRow
  <2>2. job' = [job EXCEPT ![j] = x]
    BY <1>0, <1>5 DEF ConsoleCancel, RowsInv
  <2> QED
    BY <1>1, <2>1, <2>2
<1>6. CASE Decide(j)
  <2>1. PICK d \in {"approved", "rejected"} : job' = [job EXCEPT ![j].approval = d, ![j].state = d]
    BY <1>6 DEF Decide
  <2> DEFINE x == [r EXCEPT !.approval = d, !.state = d]
  <2>2. x.state = d /\ x.result = r.result /\ x.chunks = r.chunks
    BY <1>0 DEF JobRow
  <2>3. job' = [job EXCEPT ![j] = x]
    BY <1>0, <2>1 DEF RowsInv
  <2> QED
    BY <1>1, <2>2, <2>3
<1>7. CASE LeaseExpires(j)
  <2> DEFINE x == [r EXCEPT !.live = FALSE]
  <2>1. x.state = r.state /\ x.result = r.result /\ x.chunks = r.chunks
    BY <1>0 DEF JobRow
  <2> QED
    BY <1>1, <1>7, <2>1 DEF LeaseExpires
<1>8. CASE DeadlinePasses(j)
  <2> DEFINE x == [r EXCEPT !.overdue = TRUE]
  <2>1. x.state = r.state /\ x.result = r.result /\ x.chunks = r.chunks
    BY <1>0 DEF JobRow
  <2> QED
    BY <1>1, <1>8, <2>1 DEF DeadlinePasses
<1> QED
  BY <1>2, <1>3, <1>4, <1>5, <1>6, <1>7, <1>8 DEF RowStep

LEMMA SoundClaim ==
    ASSUME RowsInv, NEW j \in Jobs, NEW w, ~job[j].cancel, job' = [job EXCEPT ![j] = LeaseTo(@, w)]
    PROVE  \A i \in Jobs : Sound(job[i], job'[i])
<1>1. Sound(job[j], LeaseTo(job[j], w))
  BY SoundLease DEF RowsInv
<1>2. job' = [job EXCEPT ![j] = LeaseTo(job[j], w)]
  BY DEF RowsInv
<1> QED
  BY <1>1, <1>2, SoundWritten

LEMMA SoundRequest ==
    ASSUME RowsInv, NEW q \in Request, job' = [job EXCEPT ![q.job] = Serve(@, "api", q)]
    PROVE  \A i \in Jobs : Sound(job[i], job'[i])
<1>1. q.job \in Jobs
  BY DEF Request
<1>2. Sound(job[q.job], Serve(job[q.job], "api", q))
  BY <1>1, SoundServe DEF RowsInv
<1>3. job' = [job EXCEPT ![q.job] = Serve(job[q.job], "api", q)]
  BY <1>1 DEF RowsInv
<1> QED
  BY <1>1, <1>2, <1>3, SoundWritten

LEMMA SoundOpenStep ==
    ASSUME AiInv, NEW s \in OpenSlots, OpenStep(s)
    PROVE  \A i \in Jobs : Sound(job[i], job'[i])
<1> DEFINE j == slot[s].job
<1>0. SlotsInv /\ RowsInv /\ j \in Jobs /\ RowInv(job[j]) /\ job[j] \in JobRow
  BY DEF Slots, AiInv, SlotsInv, RowsInv
<1>1. ASSUME UNCHANGED job PROVE \A i \in Jobs : Sound(job[i], job'[i])
  BY <1>1 DEF Sound
<1>2. ASSUME NEW i \in Jobs, OpenClaim(s, i) PROVE \A k \in Jobs : Sound(job[k], job'[k])
  BY <1>0, <1>2, SoundClaim DEF OpenClaim, Candidate
<1>3. ASSUME NEW failed, NEW retryable, OpenFinish(s, failed, retryable)
      PROVE  \A i \in Jobs : Sound(job[i], job'[i])
  <2>1. job' = [job EXCEPT ![j] = Finish(job[j], failed, retryable, "completed")]
    BY <1>0, <1>3 DEF OpenFinish, RowsInv
  <2>2. Sound(job[j], Finish(job[j], failed, retryable, "completed"))
    BY <1>0, SoundFinish
  <2> QED
    BY <1>0, <2>1, <2>2, SoundWritten
<1>4. CASE OpenEvent(s)
  BY <1>1, <1>3, <1>4 DEF OpenEvent
<1>5. CASE OpenAppend(s)
  <2>1. /\ slot[s] \in [pc : Pc, job : Jobs, token : Nat, said : 0..MaxChunks]
        /\ slot[s].said < MaxChunks /\ MaxChunks \in Nat
    BY <1>0, <1>5, AiConstants DEF OpenAppend, SlotsInv, SlotInv, Slots
  <2>2. slot[s].said + 1 \in 1..MaxChunks
    BY <2>1
  <2>3. job[j].live /\ slot[s].token = job[j].token
    BY <1>5 DEF OpenAppend, Holds, Row, AssertLease
  <2>4. Sound(job[j], Chunk(job[j], slot[s].said + 1, slot[s].token))
    BY <1>0, <2>2, <2>3, SoundChunk
  <2>5. job' = [job EXCEPT ![j] = Chunk(job[j], slot[s].said + 1, slot[s].token)]
    BY <1>0, <1>5 DEF OpenAppend, RowsInv
  <2> QED
    BY <1>0, <2>4, <2>5, SoundWritten
<1>6. CASE OpenFail(s)
  BY <1>3, <1>6 DEF OpenFail
<1>7. CASE OpenComplete(s)
  <2>1. Sound(job[j], Finish(StoreResult(job[j], slot[s].token), FALSE, FALSE, CompletionState(job[j])))
    BY <1>0, <1>7, SoundComplete DEF OpenComplete, Holds, Row
  <2>2. job' = [job EXCEPT ![j] =
                  Finish(StoreResult(job[j], slot[s].token), FALSE, FALSE, CompletionState(job[j]))]
    BY <1>0, <1>7 DEF OpenComplete, RowsInv
  <2> QED
    BY <1>0, <2>1, <2>2, SoundWritten
<1>8. CASE OpenLeaseLost(s)
  BY <1>0, <1>1, <1>8, SoundRecover DEF OpenLeaseLost, RecoverExpired, RowsInv
<1>9. CASE OpenCrash(s)
  BY <1>1, <1>9 DEF OpenCrash
<1> QED
  BY <1>2, <1>4, <1>5, <1>6, <1>7, <1>8, <1>9 DEF OpenStep

LEMMA SoundStep ==
    ASSUME AiInv, [Next]_vars
    PROVE  \A i \in Jobs : Sound(job[i], job'[i])
<1>0. RowsInv /\ SlotsInv
  BY DEF AiInv
<1>1. ASSUME UNCHANGED job PROVE \A i \in Jobs : Sound(job[i], job'[i])
  BY <1>1 DEF Sound
<1>2. CASE UNCHANGED vars
  BY <1>1, <1>2 DEF vars
<1>3. CASE PollExpire \/ PollRecover \/ RecoverRoute
  BY <1>0, <1>3, SoundRecover
     DEF PollExpire, PollRecover, RecoverRoute, RecoverExpired, ExpireDeadlines, RowsInv
<1>4. CASE PollNothing
  BY <1>1, <1>4 DEF PollNothing
<1>5. ASSUME NEW j \in Jobs, PollClaim(j) PROVE \A i \in Jobs : Sound(job[i], job'[i])
  BY <1>0, <1>5, SoundClaim DEF PollClaim, Candidate
<1>6. ASSUME NEW s \in ApiSlots, ApiStep(s) PROVE \A i \in Jobs : Sound(job[i], job'[i])
  <2>1. CASE LeaseLost(s) \/ SeeCancel(s) \/ Infer(s)
    BY <1>1, <2>1 DEF LeaseLost, SeeCancel, Infer
  <2>2. CASE Call(s)
    <3> DEFINE q == [op |-> slot[s].pc, job |-> slot[s].job, token |-> slot[s].token]
    <3>1. q \in Request
      BY <1>0, <2>2 DEF Call, Request, SlotsInv, Slots
    <3>2. CASE job' = [job EXCEPT ![q.job] = Serve(@, "api", q)]
      BY <1>0, <3>1, <3>2, SoundRequest
    <3> QED
      BY <1>1, <2>2, <3>2 DEF Call
  <2> QED
    BY <1>6, <2>1, <2>2 DEF ApiStep
<1>7. ASSUME NEW q \in late, ServeLate(q) PROVE \A i \in Jobs : Sound(job[i], job'[i])
  <2>1. q \in Request
    BY <1>7 DEF AiInv
  <2> QED
    BY <1>0, <1>7, <2>1, SoundRequest DEF ServeLate
<1> QED
  BY <1>2, <1>3, <1>4, <1>5, <1>6, <1>7, SoundRowStep, SoundOpenStep DEF Next

(* A cancellation is final for the work: nobody leases, completes or puts  *)
(* up for approval a job whose cancellation was requested before.          *)
THEOREM CancellationWins == Spec => CancelWins
<1>1. AiInv /\ [Next]_vars =>
        [\A j \in Jobs :
           job[j].cancel /\ job'[j].state # job[j].state
             => job'[j].state \notin {"leased", "completed", "approval_required"}]_vars
  BY SoundStep DEF Sound
<1> QED
  BY <1>1, AiInvariant, PTL DEF Spec, CancelWins

(* Results and chunks are written under the live lease of the attempt that *)
(* made them.                                                              *)
THEOREM FencedWrites == Spec => WritesAreFenced
<1>1. AiInv /\ [Next]_vars =>
        [\A j \in Jobs :
           /\ job'[j].result # job[j].result => job[j].live /\ job'[j].result = job[j].token
           /\ \A i \in 1..MaxChunks : job'[j].chunks[i] # job[j].chunks[i]
                => job[j].live /\ job[j].chunks[i] = 0 /\ job'[j].chunks[i] = job[j].token]_vars
  BY SoundStep DEF Sound
<1> QED
  BY <1>1, AiInvariant, PTL DEF Spec, WritesAreFenced
-----------------------------------------------------------------------------
(* Admission control.  Only a claim adds a live lease to a worker; every   *)
(* other operation on a row keeps its class and makes no lease live.       *)

Calm(r, n) == n.class = r.class /\ (n.live => r.live /\ n.owner = r.owner)

AllCalm == \A i \in Jobs : Calm(job[i], job'[i])

(* Released, and finish with it, ends the lease.                           *)
LEMMA CalmReleased ==
    ASSUME NEW r \in JobRow, NEW st
    PROVE  Calm(r, Released(r, st))
<1>1. Released(r, st).class = r.class /\ ~Released(r, st).live
  BY DEF Released, JobRow
<1> QED
  BY <1>1 DEF Calm

(* finish, whatever its outcome.                                           *)
LEMMA CalmFinish ==
    ASSUME NEW r \in JobRow, NEW failed, NEW retryable, NEW st
    PROVE  Calm(r, Finish(r, failed, retryable, st))
BY CalmReleased DEF Finish

(* A completion stores the result and finishes.                            *)
LEMMA CalmComplete ==
    ASSUME NEW r \in JobRow, NEW t \in Nat, NEW st
    PROVE  Calm(r, Finish(StoreResult(r, t), FALSE, FALSE, st))
<1> DEFINE m == StoreResult(r, t)
           n == Finish(m, FALSE, FALSE, st)
<1>1. m \in JobRow /\ m.class = r.class
  BY DEF StoreResult, JobRow
<1>2. n.class = m.class /\ ~n.live
  BY <1>1 DEF Finish, Released, JobRow
<1> QED
  BY <1>1, <1>2 DEF Calm

(* The requests that end a job: served, or refused with the row as it was. *)
LEMMA CalmServe ==
    ASSUME NEW r \in JobRow, NEW q \in Request
    PROVE  Calm(r, Serve(r, "api", q))
<1>0. Calm(r, r) /\ q.token \in Nat
  BY DEF Calm, Request
<1>1. CASE q.op = "complete"
  BY <1>0, <1>1, CalmComplete DEF Serve, Complete
<1>2. CASE q.op = "fail"
  BY <1>0, <1>2, CalmFinish DEF Serve, FailJob
<1>3. CASE q.op = "cancel"
  BY <1>0, <1>3, CalmReleased DEF Serve, WorkerCancel
<1> QED
  BY <1>1, <1>2, <1>3 DEF Request

(* recover_expired and the expiry of deadlines.                            *)
LEMMA CalmRecover ==
    ASSUME NEW r \in JobRow
    PROVE  Calm(r, Recover(r)) /\ Calm(r, Expire(r))
<1>1. Calm(r, r)
  BY DEF Calm
<1> QED
  BY <1>1, CalmReleased DEF Recover, Expire

(* One row is written, the others stay.                                    *)
LEMMA CalmWritten ==
    ASSUME RowsInv, NEW j \in Jobs, NEW x, Calm(job[j], x), job' = [job EXCEPT ![j] = x]
    PROVE  AllCalm
<1>1. \A i \in Jobs : job'[i] = IF i = j THEN x ELSE job[i]
  BY DEF RowsInv
<1>2. \A i \in Jobs : Calm(job[i], job[i])
  BY DEF Calm
<1> QED
  BY <1>1, <1>2 DEF AllCalm

(* The routes that touch a row outside any lease, and the clock.           *)
LEMMA CalmRowStep ==
    ASSUME AiInv, NEW j \in Jobs, RowStep(j)
    PROVE  AllCalm
<1> DEFINE r == job[j]
<1>0. RowsInv /\ r \in JobRow /\ job \in [Jobs -> JobRow]
  BY DEF AiInv, RowsInv
<1>1. ASSUME NEW x, x.class = r.class, x.owner = r.owner, x.live => r.live,
             job' = [job EXCEPT ![j] = x]
      PROVE  AllCalm
  <2>1. Calm(r, x)
    BY <1>1 DEF Calm
  <2> QED
    BY <1>0, <1>1, <2>1, CalmWritten
<1>2. ASSUME NEW st, job' = [job EXCEPT ![j].state = st] PROVE AllCalm
  <2> DEFINE x == [r EXCEPT !.state = st]
  <2>1. x.class = r.class /\ x.owner = r.owner /\ (x.live => r.live)
    BY <1>0 DEF JobRow
  <2>2. job' = [job EXCEPT ![j] = x]
    BY <1>0, <1>2
  <2> HIDE DEF x
  <2> QED
    BY <1>1, <2>1, <2>2
<1>3. ASSUME NEW st, job' = [job EXCEPT ![j].cancel = TRUE, ![j].state = st] PROVE AllCalm
  <2> DEFINE x == [r EXCEPT !.cancel = TRUE, !.state = st]
  <2>1. x.class = r.class /\ x.owner = r.owner /\ (x.live => r.live)
    BY <1>0 DEF JobRow
  <2>2. job' = [job EXCEPT ![j] = x]
    BY <1>0, <1>3
  <2> HIDE DEF x
  <2> QED
    BY <1>1, <2>1, <2>2
<1>4. CASE SubmitCount(j) \/ Submit(j) \/ CreateMessageJob(j)
  BY <1>2, <1>4 DEF SubmitCount, Submit, CreateMessageJob
<1>5. CASE Cancel(j)
  <2> DEFINE st == IF r.state \in {"queued", "retry_wait", "approval_required"}
                     THEN "cancelled" ELSE "cancel_requested"
  <2>1. job' = [job EXCEPT ![j].cancel = TRUE, ![j].state = st]
    BY <1>0, <1>5 DEF Cancel
  <2> QED
    BY <1>3, <2>1
<1>6. CASE ConsoleCancel(j)
  <2> DEFINE st == IF r.state \in {"queued", "retry_wait"} THEN "cancelled" ELSE r.state
  <2>1. job' = [job EXCEPT ![j].cancel = TRUE, ![j].state = st]
    BY <1>0, <1>6 DEF ConsoleCancel
  <2> QED
    BY <1>3, <2>1
<1>7. CASE Decide(j)
  <2>1. PICK d \in {"approved", "rejected"} : job' = [job EXCEPT ![j].approval = d, ![j].state = d]
    BY <1>7 DEF Decide
  <2> DEFINE x == [r EXCEPT !.approval = d, !.state = d]
  <2>2. x.class = r.class /\ x.owner = r.owner /\ (x.live => r.live)
    BY <1>0 DEF JobRow
  <2>3. job' = [job EXCEPT ![j] = x]
    BY <1>0, <2>1
  <2> HIDE DEF x
  <2> QED
    BY <1>1, <2>2, <2>3
<1>8. CASE LeaseExpires(j)
  <2> DEFINE x == [r EXCEPT !.live = FALSE]
  <2>1. x.class = r.class /\ x.owner = r.owner /\ ~x.live
    BY <1>0 DEF JobRow
  <2> QED
    BY <1>1, <1>8, <2>1 DEF LeaseExpires
<1>9. CASE DeadlinePasses(j)
  <2> DEFINE x == [r EXCEPT !.overdue = TRUE]
  <2>1. x.class = r.class /\ x.owner = r.owner /\ x.live = r.live
    BY <1>0 DEF JobRow
  <2> QED
    BY <1>1, <1>9, <2>1 DEF DeadlinePasses
<1> QED
  BY <1>4, <1>5, <1>6, <1>7, <1>8, <1>9 DEF RowStep

(* A request that reaches the server, in time or late.                     *)
LEMMA CalmRequest ==
    ASSUME RowsInv, NEW q \in Request, job' = [job EXCEPT ![q.job] = Serve(@, "api", q)]
    PROVE  AllCalm
<1>1. q.job \in Jobs
  BY DEF Request
<1>2. Calm(job[q.job], Serve(job[q.job], "api", q))
  BY <1>1, CalmServe DEF RowsInv
<1>3. job' = [job EXCEPT ![q.job] = Serve(job[q.job], "api", q)]
  BY <1>1 DEF RowsInv
<1> QED
  BY <1>1, <1>2, <1>3, CalmWritten

(* The polling worker's slots end jobs and never lease them.               *)
LEMMA CalmApiStep ==
    ASSUME AiInv, NEW s \in ApiSlots, ApiStep(s)
    PROVE  AllCalm
<1>0. RowsInv /\ SlotsInv
  BY DEF AiInv
<1>1. ASSUME UNCHANGED job PROVE AllCalm
  BY <1>1 DEF Calm, AllCalm
<1>2. CASE LeaseLost(s) \/ SeeCancel(s) \/ Infer(s)
  BY <1>1, <1>2 DEF LeaseLost, SeeCancel, Infer
<1>3. CASE Call(s)
  <2> DEFINE q == [op |-> slot[s].pc, job |-> slot[s].job, token |-> slot[s].token]
  <2>1. q \in Request
    BY <1>0, <1>3 DEF Call, Request, SlotsInv, Slots
  <2>2. CASE job' = [job EXCEPT ![q.job] = Serve(@, "api", q)]
    BY <1>0, <2>1, <2>2, CalmRequest
  <2> QED
    BY <1>1, <1>3, <2>2 DEF Call
<1> QED
  BY <1>2, <1>3 DEF ApiStep

(* The OpenAI worker, but for its claim.                                   *)
LEMMA CalmOpenStep ==
    ASSUME AiInv, NEW s \in OpenSlots, OpenStep(s), ~(\E i \in Jobs : OpenClaim(s, i))
    PROVE  AllCalm
<1> DEFINE j == slot[s].job
           t == slot[s].token
<1>0. /\ RowsInv /\ j \in Jobs /\ job[j] \in JobRow /\ t \in Nat /\ job \in [Jobs -> JobRow]
      /\ \A i \in Jobs : job[i] \in JobRow
  BY DEF Slots, AiInv, SlotsInv, RowsInv
<1>1. ASSUME UNCHANGED job PROVE AllCalm
  BY <1>1 DEF Calm, AllCalm
<1>2. ASSUME NEW failed, NEW retryable, OpenFinish(s, failed, retryable) PROVE AllCalm
  <2>1. job' = [job EXCEPT ![j] = Finish(job[j], failed, retryable, "completed")]
    BY <1>0, <1>2 DEF OpenFinish
  <2>2. Calm(job[j], Finish(job[j], failed, retryable, "completed"))
    BY <1>0, CalmFinish
  <2> QED
    BY <1>0, <2>1, <2>2, CalmWritten
<1>3. CASE OpenEvent(s)
  BY <1>1, <1>2, <1>3 DEF OpenEvent
<1>4. CASE OpenAppend(s)
  <2> DEFINE x == Chunk(job[j], slot[s].said + 1, t)
  <2>1. x.class = job[j].class /\ x.owner = job[j].owner /\ x.live = job[j].live
    BY <1>0 DEF Chunk, JobRow
  <2>2. Calm(job[j], x)
    BY <2>1 DEF Calm
  <2>3. job' = [job EXCEPT ![j] = x]
    BY <1>0, <1>4 DEF OpenAppend
  <2> QED
    BY <1>0, <2>2, <2>3, CalmWritten
<1>5. CASE OpenFail(s)
  BY <1>2, <1>5 DEF OpenFail
<1>6. CASE OpenComplete(s)
  <2>1. Calm(job[j], Finish(StoreResult(job[j], t), FALSE, FALSE, CompletionState(job[j])))
    BY <1>0, CalmComplete
  <2>2. job' = [job EXCEPT ![j] = Finish(StoreResult(job[j], t), FALSE, FALSE, CompletionState(job[j]))]
    BY <1>0, <1>6 DEF OpenComplete
  <2> QED
    BY <1>0, <2>1, <2>2, CalmWritten
<1>7. CASE OpenLeaseLost(s)
  BY <1>0, <1>1, <1>7, CalmRecover DEF OpenLeaseLost, RecoverExpired, AllCalm
<1>8. CASE OpenCrash(s)
  BY <1>1, <1>8 DEF OpenCrash
<1> QED
  BY <1>3, <1>4, <1>5, <1>6, <1>7, <1>8 DEF OpenStep

(* The live leases of w are within its concurrency, and of one class.      *)
Admitted(w) ==
    /\ Cardinality(Active(w)) <= Capacity(w)
    /\ \A i, j \in Active(w) :
         i # j => job[i].class = job[j].class /\ job[i].class # "single-admission"

(* The live leases are finitely many.                                      *)
LEMMA ActiveFinite ==
    ASSUME NEW w
    PROVE  /\ IsFiniteSet(Active(w)) /\ IsFiniteSet(Active(w)')
           /\ Cardinality(Active(w)) \in Nat /\ Cardinality(Active(w)') \in Nat
<1>1. Active(w) \in SUBSET Jobs /\ Active(w)' \in SUBSET Jobs
  BY DEF Active
<1>2. IsFiniteSet(Active(w)) /\ IsFiniteSet(Active(w)')
  BY <1>1, AiConstants, FS_Subset
<1> QED
  BY <1>2, FS_CardinalityType

(* A row w holds after a calm write it held before, and as the same class. *)
LEMMA CalmHeld ==
    ASSUME AiInv, NEW w \in {"api", "openai"}, NEW i \in Jobs, Calm(job[i], job'[i]),
           i \in Active(w)'
    PROVE  i \in Active(w) /\ job'[i].class = job[i].class
<1>1. RowInv(job[i])
  BY DEF AiInv, RowsInv
<1>2. job'[i].live /\ job'[i].owner = w
  BY DEF Active
<1>3. job[i].live /\ job[i].owner = w /\ job'[i].class = job[i].class
  BY <1>2 DEF Calm
<1>4. job[i].state \in LeasedOrCancelling
  BY <1>1, <1>3 DEF RowInv
<1> QED
  BY <1>3, <1>4 DEF Active

(* A step that is no claim gives no worker a lease.                        *)
LEMMA AdmittedCalm ==
    ASSUME AiInv, AllCalm, NEW w \in {"api", "openai"}, Admitted(w)
    PROVE  Admitted(w)'
<1>1. \A i \in Active(w)' : i \in Active(w) /\ job'[i].class = job[i].class
  <2>1. Active(w)' \subseteq Jobs
    BY DEF Active
  <2> QED
    BY <2>1, CalmHeld DEF AllCalm
<1>2. Active(w)' \in SUBSET Active(w)
  BY <1>1
<1>3. Cardinality(Active(w)') <= Cardinality(Active(w))
  BY <1>2, ActiveFinite, FS_Subset
<1>4. Cardinality(Active(w)') <= Capacity(w)
  BY <1>3, ActiveFinite DEF Admitted, Capacity
<1>5. \A i, j \in Active(w)' :
        i # j => job'[i].class = job'[j].class /\ job'[i].class # "single-admission"
  BY <1>1 DEF Admitted
<1> QED
  BY <1>4, <1>5 DEF Admitted, Capacity

(* Sets of runtime classes are finite.                                     *)
LEMMA ClassesFinite ==
    ASSUME NEW C \in SUBSET Classes
    PROVE  IsFiniteSet(C)
<1> DEFINE A == {} \cup {"chat-light"}
           B == A \cup {"coding-fallback"}
           D == B \cup {"single-admission"}
<1>1. IsFiniteSet(A)
  BY FS_EmptySet, FS_AddElement
<1>2. IsFiniteSet(B)
  BY <1>1, FS_AddElement
<1>3. IsFiniteSet(D)
  BY <1>2, FS_AddElement
<1>4. C \in SUBSET D
  BY AiConstants
<1> QED
  BY <1>3, <1>4, FS_Subset

(* claim: there is room, and the class of the row may run beside those of  *)
(* the leases the worker holds.                                            *)
LEMMA AdmittedClaim ==
    ASSUME AiInv, NEW v \in {"api", "openai"}, NEW j \in Jobs, MayClaim(v),
           Candidate(j, Allowed(v)), job' = [job EXCEPT ![j] = LeaseTo(@, v)],
           NEW w \in {"api", "openai"}, Admitted(w)
    PROVE  Admitted(w)'
<1> DEFINE n == LeaseTo(job[j], v)
           K == {job[i].class : i \in Active(w)}
<1>0. /\ job \in [Jobs -> JobRow] /\ job[j] \in JobRow
      /\ \A i \in Jobs : job'[i] = IF i = j THEN n ELSE job[i]
  BY DEF AiInv, RowsInv
<1>1. n.class = job[j].class /\ n.owner = v
  BY <1>0 DEF LeaseTo, JobRow
<1>2. \A i \in Jobs : job'[i].class = job[i].class
  BY <1>0, <1>1
<1>3. \A i \in Active(w)' : i \in Jobs /\ (i \in Active(w) \/ i = j)
  BY <1>0 DEF Active
<1>4. CASE w # v
  <2>1. j \notin Active(w)'
    BY <1>0, <1>1, <1>4 DEF Active
  <2>2. Active(w)' \in SUBSET Active(w)
    BY <1>3, <2>1
  <2>3. Cardinality(Active(w)') <= Cardinality(Active(w))
    BY <2>2, ActiveFinite, FS_Subset
  <2>4. Cardinality(Active(w)') <= Capacity(w)
    BY <2>3, ActiveFinite DEF Admitted, Capacity
  <2>5. \A i, k \in Active(w)' :
          i # k => job'[i].class = job'[k].class /\ job'[i].class # "single-admission"
    BY <1>2, <1>3, <2>1 DEF Admitted
  <2> QED
    BY <2>4, <2>5 DEF Admitted, Capacity
<1>5. CASE w = v
  <2>1. Active(w)' \in SUBSET (Active(w) \cup {j})
    BY <1>3
  <2>2. /\ IsFiniteSet(Active(w) \cup {j})
        /\ Cardinality(Active(w) \cup {j}) \in {Cardinality(Active(w)), Cardinality(Active(w)) + 1}
    BY ActiveFinite, FS_AddElement
  <2>3. Cardinality(Active(w)') <= Cardinality(Active(w) \cup {j})
    BY <2>1, <2>2, FS_Subset
  <2>4. Cardinality(Active(w)) < Capacity(w) /\ Capacity(w) \in Nat
    BY <1>5 DEF MayClaim, Capacity
  <2>5. Cardinality(Active(w)') <= Capacity(w)
    BY <2>2, <2>3, <2>4, ActiveFinite
  <2>6. job[j].class \in CompatibleProfiles(K)
    BY <1>5 DEF Candidate, Allowed
  <2>7. \A i \in Active(w) : job[i].class = job[j].class /\ job[j].class # "single-admission"
    <3> SUFFICES ASSUME NEW i \in Active(w)
                 PROVE  job[i].class = job[j].class /\ job[j].class # "single-admission"
      OBVIOUS
    <3>1. job[i].class \in K
      OBVIOUS
    <3>2. K # {}
      BY <3>1
    <3>3. K \in SUBSET Classes
      BY <1>0 DEF Active, JobRow
    <3> HIDE DEF K
    <3>4. Cardinality(K) = 1 /\ job[j].class \in K \ {"single-admission"}
      BY <2>6, <3>2 DEF CompatibleProfiles
    <3>5. PICK c : K = {c}
      BY <3>3, <3>4, ClassesFinite, FS_Singleton
    <3> QED
      BY <3>1, <3>4, <3>5
  <2>8. \A i, k \in Active(w)' :
          i # k => job'[i].class = job'[k].class /\ job'[i].class # "single-admission"
    BY <1>2, <1>3, <2>7 DEF Admitted
  <2> QED
    BY <2>5, <2>8 DEF Admitted, Capacity
<1> QED
  BY <1>4, <1>5

AdmissionInv == AiInv /\ \A w \in {"api", "openai"} : Admitted(w)

LEMMA AdmissionStep == AdmissionInv /\ [Next]_vars => AdmissionInv'
<1> SUFFICES ASSUME AdmissionInv, [Next]_vars, NEW w \in {"api", "openai"}
             PROVE  Admitted(w)'
  BY StepInv DEF AdmissionInv
<1>0. AiInv /\ RowsInv /\ SlotsInv /\ Admitted(w) /\ \A i \in Jobs : job[i] \in JobRow
  BY DEF AdmissionInv, AiInv, RowsInv
<1>1. ASSUME AllCalm PROVE Admitted(w)'
  BY <1>0, <1>1, AdmittedCalm
<1>2. ASSUME UNCHANGED job PROVE AllCalm
  BY <1>2 DEF Calm, AllCalm
<1>3. CASE UNCHANGED vars \/ PollNothing
  BY <1>1, <1>2, <1>3 DEF vars, PollNothing
<1>4. CASE PollExpire \/ PollRecover \/ RecoverRoute
  <2>1. AllCalm
    BY <1>0, <1>4, CalmRecover
       DEF PollExpire, PollRecover, RecoverRoute, RecoverExpired, ExpireDeadlines, AllCalm
  <2> QED
    BY <1>1, <2>1
<1>5. ASSUME NEW j \in Jobs, PollClaim(j) PROVE Admitted(w)'
  BY <1>0, <1>5, AdmittedClaim DEF PollClaim
<1>6. ASSUME NEW s \in OpenSlots, NEW j \in Jobs, OpenClaim(s, j) PROVE Admitted(w)'
  BY <1>0, <1>6, AdmittedClaim DEF OpenClaim
<1>7. ASSUME NEW j \in Jobs, RowStep(j) PROVE Admitted(w)'
  BY <1>0, <1>1, <1>7, CalmRowStep
<1>8. ASSUME NEW s \in ApiSlots, ApiStep(s) PROVE Admitted(w)'
  BY <1>0, <1>1, <1>8, CalmApiStep
<1>9. ASSUME NEW s \in OpenSlots, OpenStep(s) PROVE Admitted(w)'
  BY <1>0, <1>1, <1>6, <1>9, CalmOpenStep
<1>10. ASSUME NEW q \in late, ServeLate(q) PROVE Admitted(w)'
  <2>1. q \in Request
    BY <1>0 DEF AiInv
  <2> QED
    BY <1>0, <1>1, <1>10, <2>1, CalmRequest DEF ServeLate
<1> QED
  BY <1>3, <1>4, <1>5, <1>7, <1>8, <1>9, <1>10 DEF Next

LEMMA AdmissionInit == Init => AdmissionInv
<1> SUFFICES ASSUME Init, NEW w \in {"api", "openai"} PROVE Admitted(w)
  BY InitInv DEF AdmissionInv
<1>1. \A j \in Jobs : job[j].live = FALSE
  BY DEF Init
<1>2. Active(w) = {}
  BY <1>1 DEF Active
<1> QED
  BY <1>2, FS_EmptySet DEF Admitted, Capacity

(* claim never gives a worker more live leases than its concurrency, nor a *)
(* job that may not run beside the ones it already holds, however many     *)
(* jobs wait and whatever recovery and late requests do in between.        *)
THEOREM AdmissionHolds == Spec => []AdmissionRespected
<1>1. AdmissionInv => AdmissionRespected
  BY DEF AdmissionInv, Admitted, AdmissionRespected
<1> QED
  BY <1>1, AdmissionInit, AdmissionStep, PTL DEF Spec
=============================================================================
