---------------------------- MODULE CampaignSaga ----------------------------
(***************************************************************************)
(* The Odoo campaign-control saga (app/odoo_campaign_saga.py) and its      *)
(* worker (app/entrypoints/odoo_campaign_saga_worker.py): every accepted   *)
(* outbox event gets one row; a worker reserves the row with a lease,      *)
(* compares the command with Odoo's desired state, lets the adapter apply  *)
(* it and reports the observed state under an idempotency key.             *)
(*                                                                         *)
(* A step is one database transaction or one exchange with Odoo.  Time is  *)
(* the step LeaseExpires; back-off delays are over by the time a row is    *)
(* claimed.  attempts rises with every claim, so it alone stands for the   *)
(* pair (attempts, reserved_at) that identifies a claim in the code.       *)
(***************************************************************************)
EXTENDS Naturals, FiniteSets

CONSTANTS
    Events,         \* accepted, allowlisted outbox events
    SagaWorkers,    \* processes that run cycle()
    RetryLimit,     \* settings.odoo_campaign_saga_retry_limit
    NoWorker, NoEvent

VARIABLES
    saga,     \* odoo_campaign_saga: one row per event
    runner,   \* the workers
    desired,  \* has Odoo moved past the event's configuration version?
    reported  \* the keys of the read-backs Odoo has accepted, per event

vars == <<saga, runner, desired, reported>>

Final == {"COMPLETED", "DEAD_LETTER"}
SagaStatus == {"none", "PENDING", "RESERVED", "RETRY"} \cup Final

(***************************************************************************)
(* last_error_class: a transport class (TRANSPORT_RETRY_ERROR_CLASSES), an *)
(* expired lease, or another one.                                          *)
(***************************************************************************)
ErrorClass == {"none", "transport", "lease", "other"}

(***************************************************************************)
(* key numbers the observations of a row in the order they were saved, 0   *)
(* before the first: a new observation gets a new key.  by is the process  *)
(* whose claim the row holds, resend whether it was claimed with an        *)
(* observation to send again: no columns, only the properties read them.   *)
(***************************************************************************)
SagaRow == [status: SagaStatus, attempts: 0..RetryLimit, live: BOOLEAN,
            error: ErrorClass, key: 0..RetryLimit,
            by: SagaWorkers \cup {NoWorker}, resend: BOOLEAN]

(***************************************************************************)
(* held: the transaction that loaded the row FOR UPDATE is still open.     *)
(***************************************************************************)
Pc == {"idle", "enroll", "insert", "claim", "load", "desired", "apply",
       "save", "report", "finish"}
Outcome == {"none", "COMPLETED", "retry", "dead"}
Runner == [pc: Pc, todo: SUBSET Events, e: Events \cup {NoEvent},
           att: 0..RetryLimit, key: 0..RetryLimit, out: Outcome,
           held: BOOLEAN]

Idle == [pc |-> "idle", todo |-> {}, e |-> NoEvent, att |-> 0, key |-> 0,
         out |-> "none", held |-> FALSE]

TypeOK ==
    /\ saga \in [Events -> SagaRow]
    /\ runner \in [SagaWorkers -> Runner]
    /\ desired \in [Events -> {"current", "moved"}]
    /\ reported \in [Events -> SUBSET (1..RetryLimit)]

Init ==
    /\ saga = [e \in Events |-> [status |-> "none", attempts |-> 0,
                 live |-> FALSE, error |-> "none", key |-> 0, by |-> NoWorker,
                 resend |-> FALSE]]
    /\ runner = [w \in SagaWorkers |-> Idle]
    /\ desired = [e \in Events |-> "current"]
    /\ reported = [e \in Events |-> {}]

Row(w) == saga[runner[w].e]
Become(w, r) == runner' = [runner EXCEPT ![w] = r]
GoTo(w, pc) == Become(w, [runner[w] EXCEPT !.pc = pc])
Write(e, row) == saga' = [saga EXCEPT ![e] = row]

(***************************************************************************)
(* Another process has the row locked: a statement that would write it     *)
(* waits.                                                                  *)
(***************************************************************************)
LockedAgainst(w, e) ==
    \E v \in SagaWorkers \ {w} : runner[v].held /\ runner[v].e = e

(***************************************************************************)
(* recover_expired_leases: a reservation whose lease is over goes back, or *)
(* to the dead letters at the retry limit.                                 *)
(***************************************************************************)
Expired(row) == row.status = "RESERVED" /\ ~row.live

RecoveredAtAnyCount(row) ==
    [row EXCEPT !.status = "RETRY", !.error = "lease", !.by = NoWorker]

RecoveredBelowLimit(row) ==
    IF row.attempts >= RetryLimit THEN row ELSE RecoveredAtAnyCount(row)

Recovered(row) ==
    IF row.attempts >= RetryLimit
    THEN [row EXCEPT !.status = "DEAD_LETTER", !.error = "lease",
                     !.by = NoWorker]
    ELSE [row EXCEPT !.status = "RETRY", !.error = "lease", !.by = NoWorker]

RecoverExpired(w) ==
    /\ runner[w].pc = "idle"
    /\ \A e \in Events : Expired(saga[e]) => ~LockedAgainst(w, e)
    /\ saga' = [e \in Events |->
                  IF Expired(saga[e]) THEN Recovered(saga[e]) ELSE saga[e]]
    /\ GoTo(w, "enroll")
    /\ UNCHANGED <<desired, reported>>

(***************************************************************************)
(* enroll_pending_sagas: read the events without a row, then insert one    *)
(* row per transaction; the unique constraint turns a second insert away.  *)
(* An invalid payload or scope is a dead letter from the start.            *)
(***************************************************************************)
PendingEvents(w) ==
    /\ runner[w].pc = "enroll"
    /\ Become(w, [runner[w] EXCEPT !.pc = "insert",
                    !.todo = {e \in Events : saga[e].status = "none"}])
    /\ UNCHANGED <<saga, desired, reported>>

InsertOver(e, status) ==
    Write(e, [saga[e] EXCEPT !.status = status,
                !.error = IF status = "PENDING" THEN "none" ELSE "other"])

Insert(e, status) ==
    IF saga[e].status = "none" THEN InsertOver(e, status) ELSE UNCHANGED saga

Enroll(w, e) ==
    /\ runner[w].pc = "insert" /\ e \in runner[w].todo
    /\ \E status \in {"PENDING", "DEAD_LETTER"} : Insert(e, status)
    /\ Become(w, [runner[w] EXCEPT !.todo = @ \ {e}])
    /\ UNCHANGED <<desired, reported>>

Enrolled(w) ==
    /\ runner[w].pc = "insert" /\ runner[w].todo = {}
    /\ GoTo(w, "claim")
    /\ UNCHANGED <<saga, desired, reported>>

(***************************************************************************)
(* claim_saga: the only place that counts an attempt.                      *)
(***************************************************************************)
Claimable(e) == saga[e].status \in {"PENDING", "RETRY"}

ClaimSaga(w, e) ==
    /\ runner[w].pc = "claim" /\ Claimable(e)
    /\ Write(e, [saga[e] EXCEPT !.status = "RESERVED", !.attempts = @ + 1,
                       !.live = TRUE, !.by = w,
                       !.resend = (saga[e].error = "transport" /\ saga[e].key # 0)])
    /\ Become(w, [runner[w] EXCEPT !.pc = "load", !.e = e])
    /\ UNCHANGED <<desired, reported>>

ClaimNothing(w) ==
    /\ runner[w].pc = "claim" /\ \A e \in Events : ~Claimable(e)
    /\ Become(w, Idle)
    /\ UNCHANGED <<saga, desired, reported>>

(***************************************************************************)
(* process_saga reads the row again FOR UPDATE; whatever claim it finds    *)
(* reserved there is the one its later writes are conditional on.          *)
(***************************************************************************)
Load(w) ==
    /\ runner[w].pc = "load" /\ ~LockedAgainst(w, runner[w].e)
    /\ IF Row(w).status = "RESERVED"
       THEN Become(w, [runner[w] EXCEPT !.pc = "desired", !.held = TRUE,
                                        !.att = Row(w).attempts])
       ELSE Become(w, Idle)
    /\ UNCHANGED <<saga, desired, reported>>

(***************************************************************************)
(* _guarded_update: the row changes only while it is reserved by the claim *)
(* the worker loaded; otherwise the dispatch ends there.  Either way the   *)
(* transaction ends and the row lock with it.                              *)
(***************************************************************************)
Owned(w) == Row(w).status = "RESERVED" /\ Row(w).attempts = runner[w].att

UpdateGoesOn(w, row, next) ==
    /\ ~LockedAgainst(w, runner[w].e)
    /\ IF Owned(w) THEN Write(runner[w].e, row) ELSE UNCHANGED saga
    /\ Become(w, [next EXCEPT !.held = FALSE])

GuardedUpdate(w, row, next) ==
    /\ ~LockedAgainst(w, runner[w].e)
    /\ IF Owned(w)
       THEN Write(runner[w].e, row) /\ Become(w, [next EXCEPT !.held = FALSE])
       ELSE UNCHANGED saga /\ Become(w, Idle)

NeverReused(row) == FALSE

HasReusableObservation(row) == row.key # 0 /\ row.error = "transport"

(***************************************************************************)
(* _dispatch up to the adapter: read the desired state, stop on a version  *)
(* that is behind, ahead or different, otherwise renew the lease.          *)
(***************************************************************************)
ReadDesired(w) ==
    /\ runner[w].pc = "desired"
    /\ \E out \in {"retry", "dead"} :
          Become(w, [runner[w] EXCEPT !.pc = "finish", !.out = out])
    /\ UNCHANGED <<saga, desired, reported>>

Renew(w) ==
    /\ runner[w].pc = "desired" /\ desired[runner[w].e] = "current"
    /\ GuardedUpdate(w, [Row(w) EXCEPT !.live = TRUE],
         IF HasReusableObservation(Row(w))
         THEN [runner[w] EXCEPT !.pc = "report", !.key = Row(w).key]
         ELSE [runner[w] EXCEPT !.pc = "apply"])
    /\ UNCHANGED <<desired, reported>>

(***************************************************************************)
(* adapter.apply, then the observation and its fresh key become durable    *)
(* before the request that carries it.                                     *)
(***************************************************************************)
Apply(w) ==
    /\ runner[w].pc = "apply"
    /\ GoTo(w, "save")
    /\ UNCHANGED <<saga, desired, reported>>

Save(w) ==
    /\ runner[w].pc = "save"
    /\ GuardedUpdate(w, [Row(w) EXCEPT !.key = @ + 1],
         [runner[w] EXCEPT !.pc = "report", !.key = Row(w).key + 1])
    /\ UNCHANGED <<desired, reported>>

(***************************************************************************)
(* report_actual_state: Odoo accepts the read-back of a current version,   *)
(* once per key; the answer may get lost, and a version Odoo has left is   *)
(* refused.                                                                *)
(***************************************************************************)
ReportAccepted(w) ==
    LET e == runner[w].e
    IN /\ runner[w].pc = "report" /\ desired[e] = "current"
       /\ reported' = [reported EXCEPT ![e] = @ \cup {runner[w].key}]
       /\ \E out \in {"COMPLETED", "retry"} :
             Become(w, [runner[w] EXCEPT !.pc = "finish", !.out = out])
       /\ UNCHANGED <<saga, desired>>

ReportRefused(w) ==
    /\ runner[w].pc = "report"
    /\ \E out \in {"retry", "dead"} :
          Become(w, [runner[w] EXCEPT !.pc = "finish", !.out = out])
    /\ UNCHANGED <<saga, desired, reported>>

(***************************************************************************)
(* _terminate, _fail and _retry_or_dead_letter.                            *)
(***************************************************************************)
Terminated(row, out) ==
    CASE out = "COMPLETED" ->
           [row EXCEPT !.status = "COMPLETED", !.error = "none",
                       !.by = NoWorker]
      [] out = "retry" /\ row.attempts < RetryLimit ->
           [row EXCEPT !.status = "RETRY", !.error = "transport",
                       !.by = NoWorker]
      [] OTHER ->
           [row EXCEPT !.status = "DEAD_LETTER", !.by = NoWorker,
                       !.error = IF out = "retry" THEN "transport"
                                 ELSE "other"]

Terminate(w) ==
    /\ runner[w].pc = "finish"
    /\ GuardedUpdate(w, Terminated(Row(w), runner[w].out), Idle)
    /\ UNCHANGED <<desired, reported>>

(***************************************************************************)
(* The process dies, or an exception ends the cycle, after a claim; before *)
(* one it leaves nothing behind.                                           *)
(***************************************************************************)
Crash(w) ==
    /\ runner[w].e # NoEvent
    /\ Become(w, Idle)
    /\ UNCHANGED <<saga, desired, reported>>

LeaseExpires(e) ==
    /\ saga[e].status = "RESERVED" /\ saga[e].live
    /\ Write(e, [saga[e] EXCEPT !.live = FALSE])
    /\ UNCHANGED <<runner, desired, reported>>

OdooMoves(e) ==
    /\ desired[e] = "current"
    /\ desired' = [desired EXCEPT ![e] = "moved"]
    /\ UNCHANGED <<saga, runner, reported>>

Cycle(w) ==
    \/ RecoverExpired(w) \/ PendingEvents(w) \/ Enrolled(w) \/ ClaimNothing(w)
    \/ \E e \in Events : Enroll(w, e) \/ ClaimSaga(w, e)
    \/ Load(w) \/ ReadDesired(w) \/ Renew(w) \/ Apply(w) \/ Save(w)
    \/ ReportAccepted(w) \/ ReportRefused(w) \/ Terminate(w)

Next ==
    \/ \E w \in SagaWorkers : Cycle(w) \/ Crash(w)
    \/ \E e \in Events : LeaseExpires(e) \/ OdooMoves(e)

(***************************************************************************)
(* run_worker calls cycle() for ever and swallows its exceptions; clocks   *)
(* move on.                                                                *)
(***************************************************************************)
Fairness ==
    /\ \A w \in SagaWorkers : WF_vars(Cycle(w))
    /\ \A e \in Events : WF_vars(LeaseExpires(e))

Spec == Init /\ [][Next]_vars /\ Fairness

-----------------------------------------------------------------------------

(***************************************************************************)
(* A completed saga has been told to Odoo: some read-back of the event was *)
(* accepted (_dispatch completes only after report_actual_state).          *)
(***************************************************************************)
CompletedIsReported ==
    \A e \in Events : saga[e].status = "COMPLETED" => reported[e] # {}

(***************************************************************************)
(* Odoo never holds a read-back under a key that was not committed first,  *)
(* whatever leases were lost in between ("The key must be durable (and     *)
(* ours) before the request that carries it").                             *)
(***************************************************************************)
KeyDurableFirst ==
    \A e \in Events : \A k \in reported[e] : k <= saga[e].key

(***************************************************************************)
(* COMPLETED and DEAD_LETTER are never left: no late worker, recovery or   *)
(* second enrolment takes a saga out of them.                              *)
(***************************************************************************)
FinalStays ==
    [][\A e \in Events : saga[e].status \in Final => saga'[e] = saga[e]]_vars

(***************************************************************************)
(* After a transport failure the read-back is sent again under the same    *)
(* key: nobody observes again under a claim of a row that came with an     *)
(* observation and a transport error (_has_reusable_observation).          *)
(***************************************************************************)
TransportRetryKeepsKey ==
    [][\A e \in Events :
          saga[e].status = "RESERVED" /\ saga[e].resend
             => saga'[e].key = saga[e].key]_vars

(***************************************************************************)
(* Every accepted event ends completed or as a dead letter, whatever       *)
(* crashes, lost leases and answers of Odoo come in between.               *)
(***************************************************************************)
EverySagaEnds == \A e \in Events : <>(saga[e].status \in Final)

(***************************************************************************)
(* "a worker whose lease expired cannot overwrite the claim another worker *)
(* now holds" (comment of _terminate): whoever writes a reserved row holds *)
(* its claim.  Does not hold: a worker that is slow between its claim and  *)
(* process_saga loads the next worker's claim as its own.                  *)
(***************************************************************************)
WritesOwnClaim ==
    [][\A w \in SagaWorkers :
          LET e == runner[w].e
          IN /\ e # NoEvent /\ runner'[w] # runner[w]
             /\ saga'[e] # saga[e]
             => saga[e].by = w]_vars

=============================================================================
