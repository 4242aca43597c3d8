---------------------------- MODULE ExecutionBus ----------------------------
(***************************************************************************)
(* The execution side of the command kernel: OutboxWorker (app/worker.py)  *)
(* running AdapterDispatch (app/platform/bus.py) as its handler, the       *)
(* Reconciler (app/platform/reconciler.py), the operator's mutations, and  *)
(* the provider behind the adapter, over the command ledger and the        *)
(* outbox.  A step is one database transaction, one provider exchange or   *)
(* one local decision that reads no shared state; between two steps of a   *)
(* process every other process may run, and the process may die.           *)
(***************************************************************************)
EXTENDS CommandLedger, OutboxStore, FiniteSets

CONSTANTS
    SafeReexecution,  \* the adapter advertises safe_reexecution
    Faults,           \* what may go wrong, a subset of AllFaults
    MaxVersion        \* bound on resource_version for operator mutations

\* worker_crash, recon_crash : the process dies, or the handler timeout cancels it
\* lease_loss : a lease may run out under a process that is still working
\* preflight  : readiness or the breaker may turn a dispatch away
\* gate       : no handler, or the effect gate denies the dispatch
\* denial     : the registry does not own the command, or the safety gate refuses
\* gateway    : a gateway answers 408/502/503/504 for a request that was sent
AllFaults ==
    {"worker_crash", "recon_crash", "lease_loss", "preflight", "gate", "denial", "gateway"}

ASSUME BusAssumption ==
    /\ SafeReexecution \in BOOLEAN
    /\ Faults \subseteq AllFaults
    /\ MaxVersion \in Nat

VARIABLES
    worker,     \* [Workers -> local state of run_once and dispatch]
    recon,      \* [Reconcilers -> local state of Reconciler.run_once]
    requests    \* [Commands -> the provider's side of each attempt]

vars == <<cmd, deadLetters, outbox, tick, worker, recon, requests>>

InFlight == {"dispatching", "accepted", "readback_pending"}
Final == {"completed", "failed", "dead_lettered", "cancelled"}

\* open: the attempt exists, nothing sent; sent: may take effect at any time;
\* applied: the effect exists; refused: it never will.
RequestState == {"open", "sent", "applied", "refused"}

Outcome == {"ACCEPTED", "REJECTED", "TRANSIENT", "UNKNOWN"}
ReadbackStatus == {"MATCHED", "MISMATCH", "NOT_FOUND", "UNAVAILABLE", "UNSUPPORTED"}
NoAnswer == "none"

WorkerPC ==
    {"idle", "claimed", "handling", "opening", "opened", "executing", "sent",
     "finalizing", "recovering", "recovered", "accepted", "reading", "judging",
     "failing", "refusing", "failed", "requeueing", "exhausting", "recording",
     "returning", "retrying"}

\* own   : the attempt this dispatch opened;  fence : the expected_attempt it uses
\* seen  : the command state it last read;    answer : what the provider told it
WorkerState ==
    [pc: WorkerPC, row: Nat, token: Nat, own: Nat, fence: SUBSET Nat,
     seen: CommandState, answer: Outcome \cup ReadbackStatus \cup {NoAnswer}]

IdleWorker ==
    [pc |-> "idle", row |-> 0, token |-> 0, own |-> 0, fence |-> {},
     seen |-> "absent", answer |-> NoAnswer]

ReconPC ==
    {"idle", "claimed", "owned", "reading", "judging", "burying", "exhausting",
     "recording", "complete", "dead_letter", "retry", "release"}

ReconState ==
    [pc: ReconPC, row: Nat, spent: BOOLEAN, version: Nat, attempt: Nat,
     answer: ReadbackStatus \cup {NoAnswer}]

IdleRecon ==
    [pc |-> "idle", row |-> 0, spent |-> FALSE, version |-> 0, attempt |-> 0,
     answer |-> NoAnswer]

Init ==
    /\ LedgerInit
    /\ OutboxInit
    /\ worker = [w \in Workers |-> IdleWorker]
    /\ recon = [r \in Reconcilers |-> IdleRecon]
    /\ requests = [c \in Commands |-> <<>>]

TypeOK ==
    /\ LedgerTypeOK
    /\ outbox \in Seq(OutboxRow(Commands))
    /\ tick \in Nat
    /\ worker \in [Workers -> WorkerState]
    /\ recon \in [Reconcilers -> ReconState]
    /\ requests \in [Commands -> Seq(RequestState)]

----------------------------------------------------------------------------
(* The command service: submit writes the command and its intent.          *)
Submit(c) ==
    /\ SubmitCommand(c)
    /\ InsertRow(c)
    /\ UNCHANGED <<worker, recon, requests>>

Cancel(c) ==
    /\ cmd[c].version < MaxVersion
    /\ \E new \in CancelTo(c, ActiveLease(c)) :
          /\ Mutated(c, new)
          /\ IF new = "cancelled" THEN CancelRows(c) ELSE UNCHANGED outboxVars
    /\ UNCHANGED <<worker, recon, requests>>

\* With no open adapter row left the code writes a Temporal intent instead;
\* that destination is not consumed here.
Reconcile(c) ==
    /\ cmd[c].version < MaxVersion
    /\ MutateReconcile(c)
    /\ ReconcileRows(c)
    /\ UNCHANGED <<worker, recon, requests>>

Retry(c) ==
    /\ cmd[c].version < MaxVersion
    /\ MutateRetry(c)
    /\ InsertRow(c)
    /\ UNCHANGED <<worker, recon, requests>>

----------------------------------------------------------------------------
(* OutboxWorker.run_once up to the handler.                                *)
At(w, pc) == worker[w].pc = pc
CommandOf(w) == outbox[worker[w].row].cmd
Goto(w, pc) == worker' = [worker EXCEPT ![w].pc = pc]

\* run_once ends: the row keeps whatever lease and quarantine it has.
Leave(w) == worker' = [worker EXCEPT ![w] = IdleWorker]

WorkerClaim(w) ==
    /\ At(w, "idle")
    /\ \E i \in RowIds :
          /\ Claim(w, i)
          /\ worker' = [worker EXCEPT ![w].pc = "claimed", ![w].row = i,
                                      ![w].token = outbox'[i].token]
    /\ UNCHANGED <<ledgerVars, recon, requests>>

\* Taken only when the sweep changes something: polling an empty outbox is a stutter.
WorkerClaimNothing(w) ==
    /\ At(w, "idle")
    /\ \E i \in RowIds : Exhausted(outbox[i])
    /\ ClaimNothing
    /\ UNCHANGED <<ledgerVars, worker, recon, requests>>

\* No handler, or the effect gate is shut: fail() before any provider code.
GateDenies(w) ==
    /\ "gate" \in Faults
    /\ At(w, "claimed")
    /\ \/ Fail(w, worker[w].row, worker[w].token)
       \/ /\ ~CanFail(w, worker[w].row, worker[w].token)
          /\ UNCHANGED outboxVars
    /\ Leave(w)
    /\ UNCHANGED <<ledgerVars, recon, requests>>

StartHandler(w) ==
    /\ At(w, "claimed")
    /\ \/ /\ Quarantine(w, worker[w].row, worker[w].token)
          /\ Goto(w, "handling")
       \/ /\ ~CanQuarantine(w, worker[w].row, worker[w].token)
          /\ UNCHANGED outboxVars
          /\ Leave(w)
    /\ UNCHANGED <<ledgerVars, recon, requests>>

\* _heartbeat_active_dispatch runs beside the handler until run_once ends.
Heartbeat(w) ==
    /\ worker[w].pc \notin {"idle", "claimed"}
    /\ RenewActiveDispatch(w, worker[w].row, worker[w].token)
    /\ UNCHANGED <<ledgerVars, worker, recon, requests>>

(* The handler returned ("complete") or raised KnownSafeRetryError         *)
(* ("retry").  A refused resolution propagates out of run_once.            *)
Resolve(w, pc, action) ==
    /\ At(w, pc)
    /\ \/ ResolveReconciliation(w, worker[w].row, worker[w].token, action)
       \/ /\ ~CanResolve(w, worker[w].row, worker[w].token, action)
          /\ UNCHANGED outboxVars
    /\ Leave(w)
    /\ UNCHANGED <<ledgerVars, recon, requests>>

\* The process dies, is shut down, or the handler timeout cancels the handler.
WorkerCrash(w) ==
    /\ "worker_crash" \in Faults
    /\ ~At(w, "idle")
    /\ Leave(w)
    /\ UNCHANGED <<ledgerVars, outboxVars, recon, requests>>

----------------------------------------------------------------------------
(* AdapterDispatch.dispatch.  A ledger transition that is refused raises   *)
(* CommandConflict: run_once logs it and the row stays quarantined.        *)
Ledger(w, new, fence, next) ==
    LET c == CommandOf(w) IN
    /\ \/ /\ Transition(c, new, fence)
          /\ worker' = [worker EXCEPT ![w] = next]
       \/ /\ ~CanTransition(c, new, fence)
          /\ UNCHANGED ledgerVars
          /\ Leave(w)
    /\ UNCHANGED <<outboxVars, recon, requests>>

Then(w, pc) == [worker[w] EXCEPT !.pc = pc]

\* dispatch is over; only the row is left to settle.
Finish(w, pc) == [IdleWorker EXCEPT !.pc = pc, !.row = worker[w].row, !.token = worker[w].token]

\* Read the command, then decide: nothing left to do, refused by the registry
\* or the safety gate, turned away before an attempt, recover, or go ahead.
Dispatch(w) ==
    LET s == cmd[CommandOf(w)].state IN
    /\ At(w, "handling")
    /\ \/ s \in Final /\ Goto(w, "returning")
       \/ s \notin Final /\ "denial" \in Faults /\ Goto(w, "failing")
       \/ s \notin Final \cup InFlight /\ "preflight" \in Faults /\ Goto(w, "retrying")
       \/ /\ s \notin Final
          /\ worker' = [worker EXCEPT ![w].seen = s,
                ![w].pc = IF s \in InFlight THEN "recovering" ELSE "opening"]
    /\ UNCHANGED <<ledgerVars, outboxVars, recon, requests>>

\* persisted -> queued, from the state that was read.
Enqueue(w) ==
    /\ At(w, "opening")
    /\ worker[w].seen = "persisted"
    /\ Ledger(w, "queued", Unfenced, [worker[w] EXCEPT !.seen = "queued"])

\* queued -> dispatching opens the next attempt.
OpenAttempt(w) ==
    LET c == CommandOf(w) IN
    /\ At(w, "opening")
    /\ worker[w].seen # "persisted"
    /\ \/ /\ Transition(c, "dispatching", Unfenced)
          /\ requests' = [requests EXCEPT ![c] = Append(@, "open")]
          /\ worker' = [worker EXCEPT ![w].pc = "opened", ![w].own = cmd[c].attempts + 1,
                                      ![w].seen = "absent"]
       \/ /\ ~CanTransition(c, "dispatching", Unfenced)
          /\ UNCHANGED <<ledgerVars, requests>>
          /\ Leave(w)
    /\ UNCHANGED <<outboxVars, recon>>

\* latest_attempt, a transaction of its own.
LatestAttempt(w) ==
    /\ At(w, "opened")
    /\ worker' = [worker EXCEPT ![w].pc = "executing",
                                ![w].fence = {cmd[CommandOf(w)].attempts}]
    /\ UNCHANGED <<ledgerVars, outboxVars, recon, requests>>

\* adapter.execute: the request leaves the process, or never could.
Send(w) ==
    /\ At(w, "executing")
    /\ \E s \in {"sent", "refused"} :
          requests' = [requests EXCEPT ![CommandOf(w)][worker[w].own] = s]
    /\ Goto(w, "sent")
    /\ UNCHANGED <<ledgerVars, outboxVars, recon>>

\* Mutant: a read timeout is classified like a failed connect.
TimeoutIsTransient(s) ==
    {"UNKNOWN", "REJECTED", "TRANSIENT"}
        \cup (IF s \in {"sent", "applied"} THEN {"ACCEPTED"} ELSE {})

\* The outcomes normalize_result and the exception handlers can make of it.  A
\* ValueError counts as a refusal, also when it is about the answer to a request
\* that was sent.
PossibleOutcome(s) ==
    {"UNKNOWN", "REJECTED"}
        \cup (IF s \in {"sent", "applied"} THEN {"ACCEPTED"} ELSE {})
        \cup (IF s = "refused" \/ "gateway" \in Faults THEN {"TRANSIENT"} ELSE {})

Answer(w) ==
    /\ At(w, "sent")
    /\ \E o \in PossibleOutcome(requests[CommandOf(w)][worker[w].own]) :
          worker' = [worker EXCEPT ![w].pc = "finalizing", ![w].answer = o]
    /\ UNCHANGED <<ledgerVars, outboxVars, recon, requests>>

\* context.attempt >= max_attempts; the bus uses the outbox's limit.
RetryBudgetSpent(w) == \E a \in worker[w].fence : a >= MaxClaims

Finalize(w) ==
    LET fence == worker[w].fence
        o == worker[w].answer
    IN
    /\ At(w, "finalizing")
    /\ \/ o = "ACCEPTED" /\ Ledger(w, "accepted", fence, Then(w, "accepted"))
       \/ /\ o = "REJECTED" \/ (o = "TRANSIENT" /\ ~RetryBudgetSpent(w))
          /\ Goto(w, "failing")
          /\ UNCHANGED <<ledgerVars, outboxVars, recon, requests>>
       \/ /\ o = "TRANSIENT" /\ RetryBudgetSpent(w)
          /\ Ledger(w, "failed", fence, Then(w, "exhausting"))
       \/ o = "UNKNOWN" /\ Ledger(w, "reconciliation_required", fence, IdleWorker)

\* _recover: fence to the newest attempt; a dispatching command is first accepted.
Recover(w) ==
    /\ At(w, "recovering")
    /\ worker' = [worker EXCEPT
          ![w].pc = IF worker[w].seen = "dispatching" THEN "recovered" ELSE "accepted",
          ![w].fence = {cmd[CommandOf(w)].attempts},
          ![w].seen = "absent"]
    /\ UNCHANGED <<ledgerVars, outboxVars, recon, requests>>

RecoverAccept(w) ==
    /\ At(w, "recovered")
    /\ Ledger(w, "accepted", worker[w].fence, Then(w, "accepted"))

\* _readback: the transition, the provider read, the verdict.
ReadbackPending(w) ==
    /\ At(w, "accepted")
    /\ Ledger(w, "readback_pending", worker[w].fence, Then(w, "reading"))

\* The provider answers MATCHED only for an effect that exists, NOT_FOUND only
\* when none does; every other answer may come at any time.
PossibleReadback(c) ==
    LET applied == \E k \in DOMAIN requests[c] : requests[c][k] = "applied" IN
    {"MISMATCH", "UNAVAILABLE", "UNSUPPORTED"}
        \cup (IF applied THEN {"MATCHED"} ELSE {"NOT_FOUND"})

Readback(w) ==
    /\ At(w, "reading")
    /\ \E v \in PossibleReadback(CommandOf(w)) :
          worker' = [worker EXCEPT ![w].pc = "judging", ![w].answer = v]
    /\ UNCHANGED <<ledgerVars, outboxVars, recon, requests>>

\* Mutant: an absent read-back counts as confirmation.
JudgeTrustsAccept(w) ==
    LET fence == worker[w].fence
        v == worker[w].answer
    IN
    /\ At(w, "judging")
    /\ \/ v = "MISMATCH" /\ Ledger(w, "failed", fence, Finish(w, "returning"))
       \/ v # "MISMATCH" /\ Ledger(w, "completed", fence, Finish(w, "returning"))

Judge(w) ==
    LET fence == worker[w].fence
        v == worker[w].answer
    IN
    /\ At(w, "judging")
    /\ \/ v = "MATCHED" /\ Ledger(w, "completed", fence, Finish(w, "returning"))
       \/ v = "MISMATCH" /\ Ledger(w, "failed", fence, Finish(w, "returning"))
       \/ /\ v \in {"NOT_FOUND", "UNAVAILABLE", "UNSUPPORTED"}
          /\ Ledger(w, "reconciliation_required", fence, IdleWorker)

----------------------------------------------------------------------------
(* _fail: reads the command again and acts on that reading.                *)
ReadForFail(w) ==
    LET s == cmd[CommandOf(w)].state IN
    /\ At(w, "failing")
    /\ \/ s \notin {"persisted", "queued"} /\ Goto(w, "failed")
       \/ /\ s \in {"persisted", "queued"}
          /\ worker' = [worker EXCEPT ![w] =
                IF worker[w].answer = "TRANSIENT" THEN Finish(w, "retrying")
                ELSE [worker[w] EXCEPT !.pc = "refusing", !.seen = s]]
    /\ UNCHANGED <<ledgerVars, outboxVars, recon, requests>>

\* No attempt was opened: queued -> dead_lettered.
Refuse(w) ==
    /\ At(w, "refusing")
    /\ IF worker[w].seen = "persisted"
       THEN Ledger(w, "queued", Unfenced, [worker[w] EXCEPT !.seen = "queued"])
       ELSE Ledger(w, "dead_lettered", Unfenced, Then(w, "recording"))

\* Mutant: a failed attempt is final, transient or not.
FailForGood(w) ==
    /\ At(w, "failed")
    /\ Ledger(w, "failed", worker[w].fence, Then(w, "recording"))

FailAttempt(w) ==
    /\ At(w, "failed")
    /\ Ledger(w, "failed", worker[w].fence,
              Then(w, IF worker[w].answer = "TRANSIENT" THEN "requeueing" ELSE "recording"))

Requeue(w) ==
    /\ At(w, "requeueing")
    /\ Ledger(w, "queued", Unfenced, Finish(w, "retrying"))

ExhaustRetries(w) ==
    /\ At(w, "exhausting")
    /\ Ledger(w, "dead_lettered", Unfenced, Then(w, "recording"))

WorkerRecord(w) ==
    /\ At(w, "recording")
    /\ RecordDeadLetter(CommandOf(w))
    /\ worker' = [worker EXCEPT ![w] =
          Finish(w, IF worker[w].answer = "TRANSIENT" THEN "retrying" ELSE "returning")]
    /\ UNCHANGED <<outboxVars, recon, requests>>

----------------------------------------------------------------------------
(* Reconciler.run_once.                                                    *)
RAt(r, pc) == recon[r].pc = pc
RCommandOf(r) == outbox[recon[r].row].cmd
RLeave(r) == recon' = [recon EXCEPT ![r] = IdleRecon]

\* The decision is made; only the claim is left to settle.
RFinish(r, pc) == recon' = [recon EXCEPT ![r] = [IdleRecon EXCEPT !.pc = pc, !.row = recon[r].row]]

RClaim(r) ==
    /\ RAt(r, "idle")
    /\ \E i \in RowIds :
          /\ ReconcilerClaim(r, i)
          /\ recon' = [recon EXCEPT ![r].pc = "claimed", ![r].row = i,
                                    ![r].spent = outbox[i].claims + 1 >= Budget]
    /\ UNCHANGED <<ledgerVars, worker, requests>>

\* The registry of the process may not own the command: released.
RGet(r) ==
    LET row == cmd[RCommandOf(r)] IN
    /\ RAt(r, "claimed")
    /\ \/ row.state = "completed" /\ RFinish(r, "complete")
       \/ row.state \in Final \ {"completed"} /\ RFinish(r, "dead_letter")
       \/ row.state \notin Final \cup {"reconciliation_required"} /\ RFinish(r, "release")
       \/ /\ row.state = "reconciliation_required"
          /\ \/ "denial" \in Faults /\ RFinish(r, "release")
             \/ recon' = [recon EXCEPT ![r].pc = "owned", ![r].version = row.version]
    /\ UNCHANGED <<ledgerVars, outboxVars, worker, requests>>

\* latest_attempt; then the connector may turn out to be gone.
RAttempt(r) ==
    /\ RAt(r, "owned")
    /\ \E next \in {"reading"} \cup (IF "denial" \in Faults THEN {"burying"} ELSE {}) :
          recon' = [recon EXCEPT ![r].pc = next,
                                 ![r].attempt = cmd[RCommandOf(r)].attempts]
    /\ UNCHANGED <<ledgerVars, outboxVars, worker, requests>>

RReadback(r) ==
    /\ RAt(r, "reading")
    /\ \E v \in PossibleReadback(RCommandOf(r)) :
          recon' = [recon EXCEPT ![r].pc = "judging", ![r].answer = v]
    /\ UNCHANGED <<ledgerVars, outboxVars, worker, requests>>

RLedger(r, new, fence, next) ==
    LET c == RCommandOf(r) IN
    \/ Transition(c, new, fence) /\ RFinish(r, next)
    \/ ~CanTransition(c, new, fence) /\ UNCHANGED ledgerVars /\ RLeave(r)

\* _fenced_reconcile: a conflict releases the claim.
FencedReconcile(r, matched, next) ==
    LET c == RCommandOf(r) IN
    \/ ReconcileVerdict(c, matched, recon[r].version) /\ RFinish(r, next)
    \/ ~CanReconcile(c, recon[r].version) /\ UNCHANGED ledgerVars /\ RFinish(r, "release")

RJudge(r) ==
    LET v == recon[r].answer
        exhausted == recon[r].spent \/ v = "UNSUPPORTED"
        undecided == IF exhausted THEN "exhausting" ELSE "release"
    IN
    /\ RAt(r, "judging")
    /\ \/ v = "MATCHED" /\ FencedReconcile(r, TRUE, "complete")
       \/ /\ v = "NOT_FOUND" /\ SafeReexecution /\ ~exhausted
          /\ RLedger(r, "queued", {recon[r].attempt}, "retry")
       \/ v = "NOT_FOUND" /\ ~SafeReexecution /\ FencedReconcile(r, FALSE, "burying")
       \/ v = "MISMATCH" /\ FencedReconcile(r, FALSE, undecided)
       \/ /\ \/ v \in {"UNAVAILABLE", "UNSUPPORTED"}
             \/ v = "NOT_FOUND" /\ SafeReexecution /\ exhausted
          /\ RFinish(r, undecided)
          /\ UNCHANGED ledgerVars
    /\ UNCHANGED <<outboxVars, worker, requests>>

\* dead_lettered, with (exhausting) and without (burying) a dead-letter record.
RBury(r) ==
    /\ \/ RAt(r, "burying") /\ RLedger(r, "dead_lettered", Unfenced, "dead_letter")
       \/ RAt(r, "exhausting") /\ RLedger(r, "dead_lettered", Unfenced, "recording")
    /\ UNCHANGED <<outboxVars, worker, requests>>

RRecord(r) ==
    /\ RAt(r, "recording")
    /\ RecordDeadLetter(RCommandOf(r))
    /\ RFinish(r, "dead_letter")
    /\ UNCHANGED <<outboxVars, worker, requests>>

RResolve(r) ==
    /\ recon[r].pc \in {"complete", "dead_letter", "retry"}
    /\ \/ ReconcilerResolve(r, recon[r].row, recon[r].pc)
       \/ ~CanReconcilerResolve(r, recon[r].row) /\ UNCHANGED outboxVars
    /\ RLeave(r)
    /\ UNCHANGED <<ledgerVars, worker, requests>>

RRelease(r) ==
    /\ RAt(r, "release")
    /\ \/ ReconcilerRelease(r, recon[r].row)
       \/ outbox[recon[r].row].owner # r /\ UNCHANGED outboxVars
    /\ RLeave(r)
    /\ UNCHANGED <<ledgerVars, worker, requests>>

\* Bound: past MaxVersion reconcilers live on, so mismatch verdicts come to an end.
ReconCrash(r) ==
    /\ "recon_crash" \in Faults
    /\ ~RAt(r, "idle")
    /\ cmd[RCommandOf(r)].version <= MaxVersion
    /\ RLeave(r)
    /\ UNCHANGED <<ledgerVars, outboxVars, worker, requests>>

----------------------------------------------------------------------------
(* The provider, and time.                                                 *)
Provider(c) ==
    /\ \E k \in DOMAIN requests[c], s \in {"applied", "refused"} :
          /\ requests[c][k] = "sent"
          /\ requests' = [requests EXCEPT ![c][k] = s]
    /\ UNCHANGED <<ledgerVars, outboxVars, worker, recon>>

\* A process still working under its lease.
Working(i) ==
    \/ \E w \in Workers : outbox[i].owner = w /\ worker[w].row = i
    \/ \E r \in Reconcilers : outbox[i].owner = r /\ recon[r].row = i

Expire(i) ==
    /\ LeaseExpires(i)
    /\ "lease_loss" \in Faults \/ ~Working(i)
    /\ UNCHANGED <<ledgerVars, worker, recon, requests>>

----------------------------------------------------------------------------
WorkerStep(w) ==
    \/ WorkerClaim(w) \/ WorkerClaimNothing(w) \/ GateDenies(w) \/ StartHandler(w)
    \/ Dispatch(w) \/ Enqueue(w) \/ OpenAttempt(w) \/ LatestAttempt(w)
    \/ Send(w) \/ Answer(w) \/ Finalize(w)
    \/ Recover(w) \/ RecoverAccept(w) \/ ReadbackPending(w) \/ Readback(w) \/ Judge(w)
    \/ ReadForFail(w) \/ Refuse(w) \/ FailAttempt(w) \/ Requeue(w)
    \/ ExhaustRetries(w) \/ WorkerRecord(w)
    \/ Resolve(w, "returning", "complete") \/ Resolve(w, "retrying", "retry")

ReconStep(r) ==
    \/ RClaim(r) \/ RGet(r) \/ RAttempt(r) \/ RReadback(r) \/ RJudge(r)
    \/ RBury(r) \/ RRecord(r) \/ RResolve(r) \/ RRelease(r)

Next ==
    \/ \E c \in Commands : Submit(c) \/ Cancel(c) \/ Reconcile(c) \/ Retry(c) \/ Provider(c)
    \/ \E w \in Workers : WorkerStep(w) \/ Heartbeat(w) \/ WorkerCrash(w)
    \/ \E r \in Reconcilers : ReconStep(r) \/ ReconCrash(r)
    \/ \E i \in RowIds : Expire(i)

Spec == Init /\ [][Next]_vars

(* Workers and reconcilers poll for ever and no step of theirs waits for   *)
(* another process; requests are answered and leases run out.              *)
FairSpec ==
    /\ Spec
    /\ \A w \in Workers : WF_vars(WorkerStep(w))
    /\ \A r \in Reconcilers : WF_vars(ReconStep(r))
    /\ \A c \in Commands : WF_vars(Provider(c))
    /\ WF_vars(\E i \in RowIds : Expire(i))

----------------------------------------------------------------------------
\* Nothing but the bus's own retries can have dispatched c again.
Unaided(c) == ~SafeReexecution /\ cmd[c].retries = 0

(* Never resent blindly (bus.py): as long as no operator retried the       *)
(* command and the adapter does not call re-execution safe, at most one    *)
(* request of it was ever transmitted without being refused, whatever      *)
(* crashes, lease losses and late answers happen.                          *)
NoBlindResend ==
    \A c \in Commands : Unaided(c) =>
        \A j, k \in DOMAIN requests[c] :
            requests[c][j] \in {"sent", "applied"} /\ requests[c][k] \in {"sent", "applied"} => j = k

(* completed is reachable only through a MATCHED read-back: the effect of  *)
(* a completed command exists at the provider, through the bus, a recovery *)
(* or the reconciler.                                                      *)
CompletedIsVerified ==
    \A c \in Commands : cmd[c].state = "completed" =>
        \E k \in DOMAIN requests[c] : requests[c][k] = "applied"

(* cancel answers "cancelled" only when nothing was, or ever will be, sent:*)
(* every attempt of a cancelled command is settled as refused.             *)
CancelledHasNoEffect ==
    \A c \in Commands : Unaided(c) /\ cmd[c].state = "cancelled" =>
        \A k \in DOMAIN requests[c] : requests[c][k] = "refused"

(* While an attempt may have, or may still get, an effect, no outbox row   *)
(* of the command can be claimed for another dispatch: the quarantine is   *)
(* lifted only on a certified outcome.                                     *)
InDoubtNotClaimable ==
    \A c \in Commands, i \in RowIds :
        /\ Unaided(c) /\ outbox[i].cmd = c
        /\ \E k \in DOMAIN requests[c] : requests[c][k] # "refused"
        => ~Claimable(outbox[i])

(* A row is completed for good: a completed row is never also cancelled or *)
(* dead-lettered, and nobody holds it.                                     *)
CompletedRowIsClosed ==
    \A i \in RowIds : "completed" \in outbox[i].closed =>
        outbox[i].closed = {"completed"} /\ outbox[i].owner = Nobody

(* completed, dead_lettered and cancelled are final, for the bus, the      *)
(* reconciler and the operator alike.                                      *)
FinalStatesStay ==
    [][\A c \in Commands :
          cmd[c].state \in {"completed", "dead_lettered", "cancelled"} =>
              cmd'[c].state = cmd[c].state]_vars

(* A command that was accepted for execution is eventually settled for     *)
(* good: the failed a transient answer passes through does not count, and  *)
(* neither retries nor read-backs go on for ever.                          *)
EventuallySettled ==
    \A c \in Commands : cmd[c].state = "persisted" ~> [](cmd[c].state \in Final)

(* A transient answer is followed by another attempt or, once the retries  *)
(* are spent, by the dead letter: _fail marks the attempt failed and       *)
(* requeues the command in two transactions, and the second one comes.     *)
TransientIsRetried ==
    \A c \in Commands :
        (\E w \in Workers : /\ At(w, "finalizing") /\ worker[w].answer = "TRANSIENT"
                            /\ CommandOf(w) = c)
            ~> cmd[c].state \in {"queued", "dead_lettered"}

(* With operators: unless the adapter calls re-execution safe, every       *)
(* request that took or may take effect beyond the first one is licensed   *)
(* by an operator's retry of its own.                                      *)
LicensedRequests ==
    ~SafeReexecution => \A c \in Commands :
        Cardinality({k \in DOMAIN requests[c] : requests[c][k] \in {"sent", "applied"}})
            <= 1 + cmd[c].retries

(* A worker that opened an older attempt does not move the command: "a     *)
(* worker holding an old attempt number cannot finalize a newer attempt".  *)
StaleWorkerNeverMoves ==
    [][\A w \in Workers :
          worker[w].own # 0 /\ worker'[w] # worker[w] =>
              \/ worker[w].own = cmd[CommandOf(w)].attempts
              \/ cmd'[CommandOf(w)].state = cmd[CommandOf(w)].state]_vars

(* A reconciler completes a command only with a read-back of its newest    *)
(* attempt: a verdict that another process overtook is discarded.          *)
VerdictIsFresh ==
    [][\A r \in Reconcilers :
          /\ RAt(r, "judging") /\ recon'[r] # recon[r]
          /\ cmd'[RCommandOf(r)].state = "completed"
          /\ cmd[RCommandOf(r)].state # "completed"
          => recon[r].attempt = cmd[RCommandOf(r)].attempts]_vars

(* Crash recovery: an attempt that a worker opened does not stay in        *)
(* flight for ever; some worker reads the provider state back.             *)
InFlightResolved ==
    \A c \in Commands : cmd[c].state \in InFlight ~> cmd[c].state \notin InFlight

(* The reconciler drains the quarantined rows: a parked command does not   *)
(* stay parked.                                                            *)
ParkedDrained ==
    \A c \in Commands :
        cmd[c].state = "reconciliation_required" ~> cmd[c].state # "reconciliation_required"

----------------------------------------------------------------------------
PromiseOutcome(s) ==
    CASE s = "absent" -> "none"
      [] s \in Final  -> s
      [] OTHER        -> "open"

Promise == INSTANCE CommandPromise WITH
    outcome  <- [c \in Commands |-> PromiseOutcome(cmd[c].state)],
    effects  <- [c \in Commands |->
                    Cardinality({k \in DOMAIN requests[c] : requests[c][k] = "applied"})],
    licences <- [c \in Commands |-> 1 + cmd[c].retries]

(* Unless the adapter calls re-execution safe, ledger, outbox, workers,    *)
(* reconciler and operators together keep the promise of CommandPromise.   *)
KeepsPromise == Promise!PromiseSpec

=============================================================================
