------------------------------ MODULE Callbacks ------------------------------
(***************************************************************************)
(* Scheduled callbacks: the control API (app/api/v1/callbacks.py with the  *)
(* state machine of app/core/callbacks.py), the scheduler                  *)
(* (app/callback_scheduler.py, one transaction after the other in          *)
(* app/entrypoints/scheduler.py), and the worker that posts popups to the  *)
(* WebSocket gateway (app/workers/callback_realtime.py).                   *)
(*                                                                         *)
(* Every change of a callback raises its version; a notification belongs   *)
(* to the version that queued it.  The popup worker posts inside one       *)
(* transaction that locks notifications and callbacks; reconcile reads     *)
(* without locks and writes what it read.                                  *)
(***************************************************************************)
EXTENDS Naturals, FiniteSets

CONSTANTS
    Calls,        \* callbacks of the tenant and campaign
    PopWorkers,   \* processes of the notification worker
    Channels,     \* reminder channels a callback may be created with
    ReportedStages, \* stages the notification service reports on
    MaxChanges    \* bound: Repeatable changes through the API, per callback

VARIABLES
    cb,        \* callback_record
    ntf,       \* callback_delivery: per callback, version and stage
    sched,     \* the scheduler
    pop        \* the popup workers

vars == <<cb, ntf, sched, pop>>

TERMINAL == {"COMPLETED", "CANCELLED"}
Waiting == {"SCHEDULED", "SNOOZED", "RESCHEDULED"}
CallState == {"none", "BLOCKED_COMPLIANCE", "DUE", "MISSED", "ESCALATED",
              "IN_PROGRESS"} \cup Waiting \cup TERMINAL

(***************************************************************************)
(* TRANSITIONS, between the states that are ever entered and for the       *)
(* targets that have a route.                                              *)
(***************************************************************************)
TRANSITIONS ==
    [s \in CallState |->
        CASE s = "SCHEDULED"   -> {"SNOOZED", "RESCHEDULED", "CANCELLED"}
          [] s = "SNOOZED"     -> {"RESCHEDULED", "CANCELLED"}
          [] s = "RESCHEDULED" -> {"SNOOZED", "CANCELLED"}
          [] s = "DUE"         -> {"IN_PROGRESS", "SNOOZED", "RESCHEDULED",
                                   "CANCELLED"}
          [] s \in {"MISSED", "ESCALATED"} ->
                                  {"IN_PROGRESS", "RESCHEDULED", "CANCELLED"}
          [] s = "IN_PROGRESS" -> {"COMPLETED", "RESCHEDULED"}
          [] s = "BLOCKED_COMPLIANCE" -> {"CANCELLED"}
          [] OTHER -> {}]

PopupStages == {"WARNING_15M", "DUE", "AGENT_REMINDER_10M", "MISSED", "ESCALATED"}
EmailStages == {"REMINDER"}   \* REMINDER_24H and REMINDER_1H live alike
Stages == PopupStages \cup EmailStages
STAGE_EVENTS == PopupStages \ {"AGENT_REMINDER_10M"}

MaxVersion == 5 * (MaxChanges + 1) + 1
Slots == (1..MaxVersion) \X Stages

(***************************************************************************)
(* QUEUED stands for RETRY_PENDING too, "PARKED" is QUEUED without a       *)
(* next_attempt_at, "SETTLED" is DELIVERED, ACCEPTED, BOUNCED or FAILED,   *)
(* which no query tells apart.  age says how much of the schedule has      *)
(* passed: 1 scheduled_at, 2 the grace period, 3 the escalation period.    *)
(***************************************************************************)
Pending == {"QUEUED", "PARKED"}
NtfStatus == {"none", "SETTLED", "STALE_CANCELLED"} \cup Pending
CallRow == [state: CallState, version: 0..MaxVersion, age: 0..3,
            popup: BOOLEAN, changes: 0..MaxChanges]
Scheduler == [pc: {"due", "missed", "escalate", "read", "write"},
              stale: SUBSET (Calls \X Slots)]
PopWorker == [busy: BOOLEAN, todo: SUBSET (Calls \X Slots),
              ok: SUBSET (Calls \X Slots), bad: SUBSET (Calls \X Slots),
              stale: SUBSET (Calls \X Slots)]
IdlePop == [busy |-> FALSE, todo |-> {}, ok |-> {}, bad |-> {}, stale |-> {}]

TypeOK ==
    /\ cb \in [Calls -> CallRow]
    /\ ntf \in [Calls -> [Slots -> NtfStatus]]
    /\ sched \in Scheduler
    /\ pop \in [PopWorkers -> PopWorker]

Init ==
    /\ cb = [c \in Calls |-> [state |-> "none", version |-> 0, age |-> 0,
               popup |-> TRUE, changes |-> 0]]
    /\ ntf = [c \in Calls |-> [s \in Slots |-> "none"]]
    /\ sched = [pc |-> "due", stale |-> {}]
    /\ pop = [w \in PopWorkers |-> IdlePop]

Held(w) == pop[w].todo \cup pop[w].ok \cup pop[w].bad \cup pop[w].stale
LockedBy(w, c) == \E x \in Held(w) : x[1] = c

NeverLocked(c) == FALSE
Locked(c) == \E w \in PopWorkers : LockedBy(w, c)

-----------------------------------------------------------------------------

(***************************************************************************)
(* create.                                                                 *)
(***************************************************************************)
Create(c) ==
    /\ cb[c].state = "none"
    /\ \E state \in {"SCHEDULED", "BLOCKED_COMPLIANCE"}, via \in SUBSET Channels :
          /\ cb' = [cb EXCEPT ![c] = [@ EXCEPT !.state = state, !.version = 1,
                                       !.popup = "POPUP" \in via]]
          /\ ntf' = [ntf EXCEPT ![c] = [s \in Slots |->
                IF s[1] = 1 /\ \/ "POPUP" \in via /\ s[2] = "WARNING_15M"
                               \/ "EMAIL" \in via /\ s[2] \in EmailStages
                THEN "QUEUED" ELSE @[s]]]
    /\ UNCHANGED <<sched, pop>>

(***************************************************************************)
(* mutate: one change under the lock of the callback.  A stale expected    *)
(* version and a repeated key change nothing.  Only the changes that could *)
(* be made again and again are bounded; a start, a completion and a        *)
(* cancellation bound themselves.                                          *)
(***************************************************************************)
Targets == {"SNOOZED", "RESCHEDULED", "CANCELLED", "COMPLETED", "IN_PROGRESS",
            "REASSIGNED", "UPDATED"}
Cancelling == Targets \ {"IN_PROGRESS", "UPDATED"}

Repeatable == {"SNOOZED", "RESCHEDULED", "REASSIGNED", "UPDATED"}

OlderOnly(c, s) == s[1] < cb[c].version
UpToVersion(c, s) == s[1] <= cb[c].version

Mutate(c, target) ==
    /\ cb[c].state # "none" /\ ~Locked(c)
    /\ target \in Repeatable => cb[c].changes < MaxChanges
    /\ target \in TRANSITIONS[cb[c].state] \cup {"REASSIGNED", "UPDATED"}
    /\ \E age \in CASE target = "SNOOZED" -> {0}
                    [] target = "RESCHEDULED" -> {0, 3}
                    [] OTHER -> {cb[c].age} :
          cb' = [cb EXCEPT ![c] = [@ EXCEPT
                   !.state = IF target \in {"REASSIGNED", "UPDATED"} THEN @
                             ELSE target,
                   !.version = @ + 1, !.age = age,
                   !.changes = IF target \in Repeatable THEN @ + 1 ELSE @]]
    /\ ntf' = [ntf EXCEPT ![c] = [s \in Slots |->
                 IF /\ target \in Cancelling /\ UpToVersion(c, s)
                    /\ @[s] \in Pending
                 THEN "STALE_CANCELLED" ELSE @[s]]]
    /\ UNCHANGED <<sched, pop>>

(***************************************************************************)
(* callback_result: the service reports on a notification of the current   *)
(* version.                                                                *)
(***************************************************************************)
CallbackResult(c, stage) ==
    LET s == <<cb[c].version, stage>>
    IN /\ cb[c].version > 0 /\ ~Locked(c) /\ ntf[c][s] # "none"
       /\ \E status \in {"PARKED", "SETTLED"} :
             ntf' = [ntf EXCEPT ![c][s] = status]
       /\ UNCHANGED <<cb, sched, pop>>

-----------------------------------------------------------------------------

(***************************************************************************)
(* The scheduler's cycle.  Locked callbacks are skipped.                   *)
(***************************************************************************)
Moved(row, state) == [row EXCEPT !.state = state, !.version = @ + 1]

Sweep(from, age, state, stages, to) ==
    LET rows == {c \in Calls : /\ cb[c].state \in from /\ cb[c].age >= age
                               /\ ~Locked(c)}
    IN /\ cb' = [c \in Calls |-> IF c \in rows THEN Moved(cb[c], state) ELSE cb[c]]
       /\ ntf' = [c \in Calls |-> [s \in Slots |->
                    IF /\ c \in rows /\ cb[c].popup
                       /\ s[1] = cb[c].version + 1 /\ s[2] \in stages
                    THEN "QUEUED" ELSE ntf[c][s]]]
       /\ sched' = [sched EXCEPT !.pc = to]
       /\ UNCHANGED <<pop>>

DueUnlessSnoozed == {"SCHEDULED", "RESCHEDULED"}
DueStates == Waiting

ClaimDue ==
    sched.pc = "due"
      /\ Sweep(DueStates, 1, "DUE", {"DUE", "AGENT_REMINDER_10M"}, "missed")
MarkMissed ==
    sched.pc = "missed" /\ Sweep({"DUE"}, 2, "MISSED", {"MISSED"}, "escalate")
EscalateMissed ==
    sched.pc = "escalate"
      /\ Sweep({"MISSED"}, 3, "ESCALATED", {"ESCALATED"}, "read")

(***************************************************************************)
(* reconcile: what is read is written later, as it was read, once the      *)
(* rows are free.                                                          *)
(***************************************************************************)
StaleOrCurrent(c, s) == s[1] <= cb[c].version
Stale(c, s) == s[1] < cb[c].version

ReconcileRead ==
    /\ sched.pc = "read"
    /\ sched' = [pc |-> "write",
                 stale |-> {x \in Calls \X Slots :
                              /\ ntf[x[1]][x[2]] \in Pending
                              /\ Stale(x[1], x[2]) \/ cb[x[1]].state \in TERMINAL}]
    /\ UNCHANGED <<cb, ntf, pop>>

ReconcileWrite ==
    /\ sched.pc = "write"
    /\ \A w \in PopWorkers : Held(w) \cap sched.stale = {}
    /\ ntf' = [c \in Calls |-> [s \in Slots |->
                 IF <<c, s>> \in sched.stale THEN "STALE_CANCELLED" ELSE ntf[c][s]]]
    /\ sched' = [pc |-> "due", stale |-> {}]
    /\ UNCHANGED <<cb, pop>>

-----------------------------------------------------------------------------

(***************************************************************************)
(* deliver_callback_popups: pick and lock what is due, post one after the  *)
(* other, commit all results.  Every post may fail; a document that cannot *)
(* be built always does.  A worker that dies has posted without recording  *)
(* it.                                                                     *)
(***************************************************************************)
Fresh(x) == x[2][1] = cb[x[1]].version

Pick(w) ==
    LET due == {x \in Calls \X Slots :
                  /\ ntf[x[1]][x[2]] = "QUEUED"
                  /\ x[2][2] \in PopupStages /\ ~Locked(x[1])}
    IN /\ ~pop[w].busy
       /\ \E batch \in SUBSET due \ {{}} :
             pop' = [pop EXCEPT ![w] = [IdlePop EXCEPT !.busy = TRUE,
                       !.todo = {x \in batch : Fresh(x)},
                       !.stale = {x \in batch : ~Fresh(x)}]]
       /\ UNCHANGED <<cb, ntf, sched>>

Post(w, x) ==
    /\ x \in pop[w].todo
    /\ \/ /\ x[2][2] \in STAGE_EVENTS
          /\ pop' = [pop EXCEPT ![w].todo = @ \ {x}, ![w].ok = @ \cup {x}]
       \/ pop' = [pop EXCEPT ![w].todo = @ \ {x}, ![w].bad = @ \cup {x}]
    /\ UNCHANGED <<cb, ntf, sched>>

Commit(w) ==
    /\ pop[w].busy /\ pop[w].todo = {}
    /\ ntf' = [c \in Calls |-> [s \in Slots |->
                 CASE <<c, s>> \in pop[w].ok -> "SETTLED"
                   [] <<c, s>> \in pop[w].stale -> "STALE_CANCELLED"
                   [] OTHER -> ntf[c][s]]]
    /\ pop' = [pop EXCEPT ![w] = IdlePop]
    /\ UNCHANGED <<cb, sched>>

Crash(w) ==
    /\ pop[w].busy
    /\ pop' = [pop EXCEPT ![w] = IdlePop]
    /\ UNCHANGED <<cb, ntf, sched>>

TimePasses(c) ==
    /\ cb[c].state # "none" /\ cb[c].age < 3
    /\ cb' = [cb EXCEPT ![c].age = @ + 1]
    /\ UNCHANGED <<ntf, sched, pop>>

Cycle == ClaimDue \/ MarkMissed \/ EscalateMissed \/ ReconcileRead \/ ReconcileWrite
PopStep(w) == Commit(w) \/ \E x \in pop[w].todo : Post(w, x)

Next ==
    \/ \E c \in Calls : \/ Create(c) \/ TimePasses(c)
                        \/ \E target \in Targets : Mutate(c, target)
                        \/ \E stage \in ReportedStages : CallbackResult(c, stage)
    \/ Cycle
    \/ \E w \in PopWorkers : Pick(w) \/ PopStep(w) \/ Crash(w)

(***************************************************************************)
(* run_worker repeats the cycles for ever, a post is bounded by its HTTP   *)
(* timeout, and clocks move on.                                            *)
(***************************************************************************)
Fairness ==
    /\ WF_vars(Cycle)
    /\ \A c \in Calls : WF_vars(TimePasses(c))
    /\ \A w \in PopWorkers : WF_vars(PopStep(w))

Spec == Init /\ [][Next]_vars /\ Fairness

-----------------------------------------------------------------------------

(***************************************************************************)
(* "version and delivery uniqueness prevent obsolete ... notifications"    *)
(* (docs/CALLBACK_RUNBOOK.md): until a popup is posted, its callback stays *)
(* at the version that queued it and is not completed or cancelled,        *)
(* although the worker compared the versions when it picked the batch.     *)
(***************************************************************************)
NoObsoletePopup ==
    \A w \in PopWorkers : \A x \in pop[w].todo :
        Fresh(x) /\ cb[x[1]].state \notin TERMINAL

(***************************************************************************)
(* A completed or cancelled callback has no delivery pending, whatever     *)
(* sweeps, popups and reports came before ("cancels all older pending      *)
(* deliveries", docs/CALLBACK_WORKFLOW.md).  About callback_delivery rows: *)
(* the command rows create writes for the e-mail service stay REQUESTED.   *)
(***************************************************************************)
TerminalIsQuiet ==
    \A c \in Calls : cb[c].state \in TERMINAL =>
        \A s \in Slots : ntf[c][s] \notin Pending

(***************************************************************************)
(* No one cancels a notification that was delivered or reported on,        *)
(* although reconcile writes over rows it did not lock when it chose them. *)
(***************************************************************************)
DeliveredStays ==
    [][\A c \in Calls : \A s \in Slots :
         ntf[c][s] = "SETTLED" => ntf'[c][s] # "STALE_CANCELLED"]_vars

(***************************************************************************)
(* A callback that waits for its time is attended to or escalated, not     *)
(* left scheduled, due or missed, although the sweeps skip locked rows and *)
(* a popup that keeps failing locks the row again and again: it is enough  *)
(* that each sweep comes by at a moment when the row is free now and then. *)
(***************************************************************************)
EveryCallbackAttended ==
    \A c \in Calls :
        /\ []<><<ClaimDue /\ ~Locked(c)>>_vars
        /\ []<><<MarkMissed /\ ~Locked(c)>>_vars
        /\ []<><<EscalateMissed /\ ~Locked(c)>>_vars
        => (cb[c].state \in Waiting
              ~> cb[c].state \in {"ESCALATED", "IN_PROGRESS"} \cup TERMINAL)

=============================================================================
