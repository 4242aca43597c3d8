--------------------------- MODULE ScraperDelivery ---------------------------
(***************************************************************************)
(* Delivery of scraped leads to Odoo (app/workers/scraper_odoo_delivery.py)*)
(* over the durable outbox (app/workers/outbox.py), woken by a Redis queue *)
(* (app/sales/queue.py), with the recovery of leases by an operator.  The  *)
(* maintenance scheduler (app/workers/scheduler.py) would recover them as  *)
(* well, but the settings refuse to enable it (app/core/config.py).        *)
(*                                                                         *)
(* A lead is an outbox row and an inbox row, written in transactions of    *)
(* their own.  A claim has a lease but no owner: any worker may finish a   *)
(* row that is 'processing'.                                               *)
(***************************************************************************)
EXTENDS Naturals, FiniteSets, FiniteSetsExt

CONSTANTS
    Leads,         \* numbered in the order they are queued
    LeadWorkers,   \* delivery workers
    LeadTries,     \* RetryPolicy.max_attempts
    LeadMishaps    \* bound: deaths of a worker, overrun leases, replays

VARIABLES
    lead,      \* outbox_event
    inbox,     \* sales_scraper_inbox
    courier,   \* the workers
    wake,      \* Redis: queued signals and their markers
    applied,   \* leads that Odoo has
    tries,     \* per lead: requests to Odoo
    mishaps    \* mishaps so far

vars == <<lead, inbox, courier, wake, applied, tries, mishaps>>

Done == {"delivered", "dead_letter"}
LeadRow == [status: {"none", "pending", "processing", "retry"} \cup Done,
            attempts: 0..LeadTries, live: BOOLEAN, due: BOOLEAN]
Courier == [pc: {"signal", "wait", "recover", "claim", "begin", "apply",
                 "record", "inbox"},
            todo: SUBSET Leads, att: [Leads -> 0..LeadTries],
            out: {"none", "ok", "fail", "permanent", "delivered",
                  "retry_wait", "dead_letter"}]
Ready == [pc |-> "signal", todo |-> {}, att |-> [i \in Leads |-> 0],
          out |-> "none"]

TypeOK ==
    /\ lead \in [Leads -> LeadRow]
    /\ inbox \in [Leads -> {"none", "queued", "processing", "retry_wait"} \cup Done]
    /\ courier \in [LeadWorkers -> Courier]
    /\ wake \in [queue: SUBSET Leads, marks: SUBSET Leads]
    /\ applied \subseteq Leads
    /\ tries \in [Leads -> Nat]
    /\ mishaps \in 0..LeadMishaps

Init ==
    /\ lead = [i \in Leads |-> [status |-> "none", attempts |-> 0,
                                live |-> FALSE, due |-> TRUE]]
    /\ inbox = [i \in Leads |-> "none"]
    /\ courier = [w \in LeadWorkers |-> Ready]
    /\ wake = [queue |-> {}, marks |-> {}]
    /\ applied = {}
    /\ tries = [i \in Leads |-> 0]
    /\ mishaps = 0

Goto(w, pc) == courier' = [courier EXCEPT ![w].pc = pc]
Cur(w) == Min(courier[w].todo)

-----------------------------------------------------------------------------

(***************************************************************************)
(* The repository stores an accepted lead: both rows in one transaction.   *)
(***************************************************************************)
Accept(i) ==
    /\ lead[i].status = "none"
    /\ \A k \in Leads : k < i => lead[k].status # "none"
    /\ lead' = [lead EXCEPT ![i].status = "pending"]
    /\ inbox' = [inbox EXCEPT ![i] = "queued"]
    /\ UNCHANGED <<courier, wake, applied, tries, mishaps>>

(***************************************************************************)
(* run_forever: recover_and_signal sets a marker and queues a signal for   *)
(* every lead that is due and not marked; then one signal is awaited and   *)
(* its marker deleted.  If Redis fails between those steps, a marker stays *)
(* without a signal, or all is lost, and the database is scanned anyway.   *)
(* A second signal for the same lead only wakes a worker once more.        *)
(***************************************************************************)
ClaimableFirst(row) == row.status = "pending" /\ row.due
Claimable(row) == row.status \in {"pending", "retry"} /\ row.due

Signalled == {i \in Leads : Claimable(lead[i])} \ wake.marks

RecoverAndSignal(w) ==
    /\ courier[w].pc = "signal"
    /\ wake' = [queue |-> wake.queue \cup Signalled,
                marks |-> wake.marks \cup Signalled]
    /\ Goto(w, "wait")
    /\ UNCHANGED <<lead, inbox, applied, tries, mishaps>>

AwaitSignal(w) ==
    /\ courier[w].pc = "wait"
    /\ \/ wake.queue = {} /\ UNCHANGED wake /\ Goto(w, "signal")
       \/ \E i \in wake.queue :
             /\ wake' = [queue |-> wake.queue \ {i}, marks |-> wake.marks \ {i}]
             /\ Goto(w, "recover")
    /\ UNCHANGED <<lead, inbox, applied, tries, mishaps>>

SignalLost ==
    \E i \in Leads : \/ wake' = [wake EXCEPT !.queue = @ \ {i}]
                     \/ wake' = [wake EXCEPT !.marks = @ \cup {i}]
                     \/ wake' = [queue |-> {}, marks |-> {}]

RedisFails(w) ==
    /\ courier[w].pc \in {"signal", "wait"}
    /\ Goto(w, "recover")
    /\ SignalLost
    /\ UNCHANGED <<lead, inbox, applied, tries, mishaps>>

(***************************************************************************)
(* deliver_once: recover_expired_leases, CLAIM, then row by row.           *)
(***************************************************************************)
Recovered(row) ==
    IF row.status = "processing" /\ ~row.live
    THEN [row EXCEPT !.status = "retry", !.due = TRUE] ELSE row

RecoverExpiredLeases == lead' = [i \in Leads |-> Recovered(lead[i])]

Recover(w) ==
    /\ courier[w].pc = "recover"
    /\ RecoverExpiredLeases
    /\ Goto(w, "claim")
    /\ UNCHANGED <<inbox, wake, applied, tries, mishaps>>

Claim(w) ==
    LET rows == {i \in Leads : Claimable(lead[i])}
    IN /\ courier[w].pc = "claim"
       /\ lead' = [i \in Leads |->
                     IF i \in rows
                     THEN [lead[i] EXCEPT !.status = "processing", !.live = TRUE]
                     ELSE lead[i]]
       /\ courier' = [courier EXCEPT ![w] =
                        [Ready EXCEPT !.pc = IF rows = {} THEN "signal" ELSE "begin",
                           !.todo = rows,
                           !.att = [i \in Leads |->
                                      IF i \in rows THEN lead[i].attempts ELSE 0]]]
       /\ UNCHANGED <<inbox, wake, applied, tries, mishaps>>

Begin(w) ==
    /\ courier[w].pc = "begin"
    /\ inbox' = [inbox EXCEPT ![Cur(w)] =
                   IF @ \in {"queued", "retry_wait"} THEN "processing" ELSE @]
    /\ Goto(w, "apply")
    /\ UNCHANGED <<lead, wake, applied, tries, mishaps>>

(***************************************************************************)
(* client.apply: a success means that Odoo has the lead; a failure may be  *)
(* reported although it has.                                               *)
(***************************************************************************)
Apply(w) ==
    LET i == Cur(w)
    IN /\ courier[w].pc = "apply"
       /\ \E out \in {"ok", "fail", "permanent"} :
             /\ courier' = [courier EXCEPT ![w].pc = "record", ![w].out = out]
             /\ IF out = "ok" THEN applied' = applied \cup {i}
                ELSE applied' \in {applied, applied \cup {i}}
       /\ tries' = [tries EXCEPT ![i] = @ + 1]
       /\ UNCHANGED <<lead, inbox, wake, mishaps>>

(***************************************************************************)
(* acknowledge, or record_failure: both update the row only while it is    *)
(* 'processing'.  acknowledge's answer is not looked at; record_failure    *)
(* raises, and the worker's process ends.                                  *)
(***************************************************************************)
Failed(row, att, out) ==
    LET dead == out = "permanent" \/ att + 1 >= LeadTries
    IN [row EXCEPT !.attempts = att + 1,
                   !.status = IF dead THEN "dead_letter" ELSE "retry",
                   !.live = FALSE, !.due = dead]

HeldByAnyone(row) == TRUE
Held(row) == row.status = "processing"

AckedOnFailure(out) == out # "permanent"
Acked(out) == out = "ok"

Record(w) ==
    LET i == Cur(w)
        att == courier[w].att[i]
        out == courier[w].out
        held == Held(lead[i])
        result == IF Acked(out)
                  THEN [lead[i] EXCEPT !.status = "delivered", !.live = FALSE]
                  ELSE Failed(lead[i], att, out)
    IN /\ courier[w].pc = "record"
       /\ lead' = IF held THEN [lead EXCEPT ![i] = result] ELSE lead
       /\ courier' = [courier EXCEPT ![w] =
            IF Acked(out)
            THEN [@ EXCEPT !.pc = "inbox", !.out = "delivered"]
            ELSE IF held
            THEN [@ EXCEPT !.pc = "inbox",
                    !.out = IF result.status = "retry" THEN "retry_wait"
                            ELSE "dead_letter"]
            ELSE Ready]
       /\ UNCHANGED <<inbox, wake, applied, tries, mishaps>>

Inbox(w) ==
    LET i == Cur(w)
        rest == courier[w].todo \ {i}
    IN /\ courier[w].pc = "inbox"
       /\ inbox' = [inbox EXCEPT ![i] = IF @ \in Done THEN @ ELSE courier[w].out]
       /\ courier' = [courier EXCEPT ![w] =
                        IF rest = {} THEN Ready
                        ELSE [@ EXCEPT !.pc = "begin", !.todo = rest,
                                       !.out = "none", !.att[i] = 0]]
       /\ UNCHANGED <<lead, wake, applied, tries, mishaps>>

-----------------------------------------------------------------------------

(***************************************************************************)
(* replay_dead_letter reopens the outbox row and leaves the inbox row.     *)
(***************************************************************************)
ReplayDeadLetter(i) ==
    /\ lead[i].status = "dead_letter"
    /\ mishaps < LeadMishaps /\ mishaps' = mishaps + 1
    /\ lead' = [lead EXCEPT ![i].status = "pending", ![i].attempts = 0]
    /\ UNCHANGED <<inbox, courier, wake, applied, tries>>

(***************************************************************************)
(* The operator's recover route.                                           *)
(***************************************************************************)
OperatorRecovers ==
    /\ RecoverExpiredLeases
    /\ UNCHANGED <<inbox, courier, wake, applied, tries, mishaps>>

Crash(w) ==
    /\ mishaps < LeadMishaps /\ mishaps' = mishaps + 1
    /\ courier' = [courier EXCEPT ![w] = Ready]
    /\ IF courier[w].pc \in {"signal", "wait"} THEN SignalLost
       ELSE UNCHANGED wake
    /\ UNCHANGED <<lead, inbox, applied, tries>>

Attended(i) == \E w \in LeadWorkers : i \in courier[w].todo

LeaseExpires(i) ==
    /\ lead[i].status = "processing" /\ lead[i].live /\ ~Attended(i)
    /\ lead' = [lead EXCEPT ![i].live = FALSE]
    /\ UNCHANGED <<inbox, courier, wake, applied, tries, mishaps>>

LeaseOverrun(i) ==
    /\ lead[i].status = "processing" /\ lead[i].live /\ Attended(i)
    /\ mishaps < LeadMishaps /\ mishaps' = mishaps + 1
    /\ lead' = [lead EXCEPT ![i].live = FALSE]
    /\ UNCHANGED <<inbox, courier, wake, applied, tries>>

Backoff(i) ==
    /\ ~lead[i].due
    /\ lead' = [lead EXCEPT ![i].due = TRUE]
    /\ UNCHANGED <<inbox, courier, wake, applied, tries, mishaps>>

MarkerExpires(i) ==
    /\ i \in wake.marks
    /\ wake' = [wake EXCEPT !.marks = @ \ {i}]
    /\ UNCHANGED <<lead, inbox, courier, applied, tries, mishaps>>

RunForever(w) ==
    \/ RecoverAndSignal(w) \/ AwaitSignal(w) \/ Recover(w) \/ Claim(w)
    \/ Begin(w) \/ Apply(w) \/ Record(w) \/ Inbox(w)

Next ==
    \/ \E w \in LeadWorkers : RunForever(w) \/ RedisFails(w) \/ Crash(w)
    \/ \E i \in Leads : \/ Accept(i) \/ LeaseExpires(i) \/ LeaseOverrun(i)
                        \/ Backoff(i) \/ MarkerExpires(i) \/ ReplayDeadLetter(i)
    \/ OperatorRecovers

(***************************************************************************)
(* Workers are restarted and loop for ever, markers, leases and backoffs   *)
(* end.  No operator has to do anything.                                   *)
(***************************************************************************)
Fairness ==
    /\ \A w \in LeadWorkers : WF_vars(RunForever(w))
    /\ \A i \in Leads : /\ WF_vars(LeaseExpires(i)) /\ WF_vars(Backoff(i))
                        /\ WF_vars(MarkerExpires(i))

Spec == Init /\ [][Next]_vars /\ Fairness

-----------------------------------------------------------------------------

(***************************************************************************)
(* What the outbox or the inbox calls delivered, Odoo has: also when the   *)
(* worker that says so had lost the row, or finished another's claim.      *)
(***************************************************************************)
DeliveredIsApplied ==
    \A i \in Leads :
        lead[i].status = "delivered" \/ inbox[i] = "delivered" => i \in applied

(***************************************************************************)
(* Deliveries are tried as often as the retry policy says, and at most as  *)
(* often again for every death, overrun lease and replay: record_failure   *)
(* writes the count its claim read plus one, so a late worker may take     *)
(* back what others have counted, but only once.                           *)
(***************************************************************************)
TriesAccounted == \A i \in Leads : tries[i] <= LeadTries * (1 + mishaps)

(***************************************************************************)
(* A lead that is done stays done, whatever late worker writes to it: only *)
(* a replay reopens a dead letter, as a new delivery.                      *)
(***************************************************************************)
DoneStays ==
    [][\A i \in Leads : lead[i].status \in Done =>
          \/ lead'[i].status = lead[i].status
          \/ lead[i].status = "dead_letter" /\ lead'[i].status = "pending"]_vars

(***************************************************************************)
(* A lead that waits, for its first delivery or for a retry, is taken up   *)
(* some day, whatever becomes of the signals in Redis: a lost signal, a    *)
(* marker left without one, a database scan in their place (run_forever).  *)
(***************************************************************************)
Waiting(row) == row.status \in {"pending", "retry"}

WaitingLeadTaken ==
    \A i \in Leads : Waiting(lead[i]) ~> ~Waiting(lead[i])

(***************************************************************************)
(* Every accepted lead is delivered or dead-lettered some day ("Exhausted  *)
(* work enters the dead-letter", docs/LEAD-INGESTION-TO-ODOO.md).  Does    *)
(* not hold of a lead whose worker dies: leases are recovered only by a    *)
(* worker that is woken, a lead in 'processing' wakes no one, and the      *)
(* maintenance scheduler that would recover it cannot be enabled.          *)
(***************************************************************************)
EveryLeadEnds ==
    \A i \in Leads : lead[i].status = "pending" ~> lead[i].status \in Done

=============================================================================
