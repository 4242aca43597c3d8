---------------------------- MODULE OdooResults ----------------------------
(***************************************************************************)
(* The durable delivery of results to Odoo: the queue of                   *)
(* app/adapters/odoo/results.py and its worker                             *)
(* (app/entrypoints/odoo_result_worker.py).                                *)
(*                                                                         *)
(* Deliveries are numbered in the order of created_at.  A step is one      *)
(* transaction or the exchange with Odoo.  A delivery in RETRY may or may  *)
(* not be due; one in PENDING always is.                                   *)
(***************************************************************************)
EXTENDS Naturals

CONSTANTS
    Deliveries,      \* 1..n, in the order they are created
    OdooWorkers,     \* processes that run cycle()
    DeliveryLimit,   \* settings.odoo_result_delivery_retry_limit
    BadBodies,       \* deliveries for which no request body can be built
    OdooPauses       \* bound: leases that run out under a living worker

VARIABLES
    dlv,        \* odoo_result_delivery
    sender,     \* the workers
    accepted,   \* the deliveries Odoo has persisted (once per public id)
    overrun     \* leases that ran out under a living worker

vars == <<dlv, sender, accepted, overrun>>

Final == {"DELIVERED", "DEAD_LETTER"}
Waiting == {"PENDING", "RETRY"}
MaxDispatches == DeliveryLimit + OdooPauses

DlvRow == [status: {"none", "RESERVED"} \cup Waiting \cup Final,
           attempts: 0..MaxDispatches, live: BOOLEAN]

(***************************************************************************)
(* att is the attempts value of the copy the worker's session holds: the   *)
(* row is selected again after the request, but not refreshed.             *)
(***************************************************************************)
Sender == [pc: {"idle", "claim", "reserve", "send", "record"},
           d: Deliveries \cup {0}, att: 0..MaxDispatches,
           out: {"none", "delivered", "retry", "dead"}]
Idle == [pc |-> "idle", d |-> 0, att |-> 0, out |-> "none"]

TypeOK ==
    /\ dlv \in [Deliveries -> DlvRow]
    /\ sender \in [OdooWorkers -> Sender]
    /\ accepted \subseteq Deliveries
    /\ overrun \in 0..OdooPauses

Init ==
    /\ dlv = [d \in Deliveries |->
                [status |-> "none", attempts |-> 0, live |-> FALSE]]
    /\ sender = [w \in OdooWorkers |-> Idle]
    /\ accepted = {}
    /\ overrun = 0

Become(w, s) == sender' = [sender EXCEPT ![w] = s]
Store(d, row) == dlv' = [dlv EXCEPT ![d] = row]

(***************************************************************************)
(* A route queues a delivery in the transaction that stores its result.    *)
(***************************************************************************)
Queue(d) ==
    /\ dlv[d].status = "none"
    /\ \A e \in Deliveries : e < d => dlv[e].status # "none"
    /\ Store(d, [dlv[d] EXCEPT !.status = "PENDING"])
    /\ UNCHANGED <<sender, accepted, overrun>>

(***************************************************************************)
(* recover_stale_result_deliveries: the two statements of                  *)
(* stale_recovery_statements.                                              *)
(***************************************************************************)
StaleBelowLimit(row) ==
    row.status = "RESERVED" /\ ~row.live /\ row.attempts < DeliveryLimit

Stale(row) == row.status = "RESERVED" /\ ~row.live

Recovered(row) ==
    [row EXCEPT !.status = IF row.attempts >= DeliveryLimit
                           THEN "DEAD_LETTER" ELSE "RETRY"]

RecoverStale(w) ==
    /\ sender[w].pc = "idle"
    /\ dlv' = [d \in Deliveries |->
                 IF Stale(dlv[d]) THEN Recovered(dlv[d]) ELSE dlv[d]]
    /\ Become(w, [Idle EXCEPT !.pc = "claim"])
    /\ UNCHANGED <<accepted, overrun>>

(***************************************************************************)
(* claim_result_delivery: the oldest delivery that is due and not locked,  *)
(* FOR UPDATE SKIP LOCKED.                                                 *)
(***************************************************************************)
Locked(d) == \E w \in OdooWorkers : sender[w].pc = "reserve" /\ sender[w].d = d

Due(d) ==
    /\ dlv[d].status \in Waiting /\ ~Locked(d)
    /\ \A e \in Deliveries :
          e < d /\ dlv[e].status = "PENDING" => Locked(e)

ClaimDelivery(w, d) ==
    /\ sender[w].pc = "claim" /\ Due(d)
    /\ Become(w, [sender[w] EXCEPT !.pc = "reserve", !.d = d])
    /\ UNCHANGED <<dlv, accepted, overrun>>

(***************************************************************************)
(* Nothing is due: no delivery waits, or all that do are locked or in      *)
(* their back-off.                                                         *)
(***************************************************************************)
ClaimNothing(w) ==
    /\ sender[w].pc = "claim"
    /\ \A d \in Deliveries : dlv[d].status = "PENDING" => Locked(d)
    /\ Become(w, Idle)
    /\ UNCHANGED <<dlv, accepted, overrun>>

(***************************************************************************)
(* deliver_result up to its first commit.  Without a request body it       *)
(* raises: the transaction is rolled back and the row stays as it was.     *)
(***************************************************************************)
Reserve(w) ==
    LET d == sender[w].d
    IN /\ sender[w].pc = "reserve"
       /\ IF d \in BadBodies THEN UNCHANGED dlv /\ Become(w, Idle)
          ELSE /\ Store(d, [status |-> "RESERVED", live |-> TRUE,
                            attempts |-> dlv[d].attempts + 1])
               /\ Become(w, [sender[w] EXCEPT !.pc = "send",
                               !.att = dlv[d].attempts + 1])
       /\ UNCHANGED <<accepted, overrun>>

(***************************************************************************)
(* The request: Odoo persists the result or not, and the answer is good,   *)
(* lost or retryable, or final.                                            *)
(***************************************************************************)
Outcome(w, out) == Become(w, [sender[w] EXCEPT !.pc = "record", !.out = out])

Send(w) ==
    /\ sender[w].pc = "send"
    /\ \/ /\ accepted' = accepted \cup {sender[w].d}
          /\ \E out \in {"delivered", "retry", "dead"} : Outcome(w, out)
       \/ /\ UNCHANGED accepted
          /\ \E out \in {"retry", "dead"} : Outcome(w, out)
    /\ UNCHANGED <<dlv, overrun>>

(***************************************************************************)
(* The rest of deliver_result, and _record_delivery_failure: neither looks *)
(* at the status the row has by now.                                       *)
(***************************************************************************)
UnlimitedStatus(out, att) ==
    CASE out = "delivered" -> "DELIVERED"
      [] out = "retry" -> "RETRY"
      [] OTHER -> "DEAD_LETTER"

LostAnswerDelivers(out, att) ==
    IF out = "dead" THEN "DEAD_LETTER" ELSE "DELIVERED"

RecordedStatus(out, att) ==
    CASE out = "delivered" -> "DELIVERED"
      [] out = "retry" /\ att < DeliveryLimit -> "RETRY"
      [] OTHER -> "DEAD_LETTER"

Record(w) ==
    LET d == sender[w].d
    IN /\ sender[w].pc = "record"
       /\ Store(d, [dlv[d] EXCEPT !.live = FALSE,
                      !.status = RecordedStatus(sender[w].out, sender[w].att)])
       /\ Become(w, Idle)
       /\ UNCHANGED <<accepted, overrun>>

(***************************************************************************)
(* The process dies, or an exception nobody records ends the cycle.        *)
(***************************************************************************)
Crash(w) ==
    /\ sender[w].pc \in {"send", "record"}
    /\ Become(w, Idle)
    /\ UNCHANGED <<dlv, accepted, overrun>>

(***************************************************************************)
(* A lease runs out: behind a worker that is gone, or under one that is    *)
(* slower than its request timeouts.                                       *)
(***************************************************************************)
InFlight(d) ==
    \E w \in OdooWorkers : /\ sender[w].pc \in {"send", "record"}
                           /\ sender[w].d = d
                           /\ sender[w].att = dlv[d].attempts

LeaseExpires(d) ==
    /\ dlv[d].status = "RESERVED" /\ dlv[d].live /\ ~InFlight(d)
    /\ Store(d, [dlv[d] EXCEPT !.live = FALSE])
    /\ UNCHANGED <<sender, accepted, overrun>>

LeaseOverrun(d) ==
    /\ dlv[d].status = "RESERVED" /\ dlv[d].live /\ InFlight(d)
    /\ overrun < OdooPauses
    /\ overrun' = overrun + 1
    /\ Store(d, [dlv[d] EXCEPT !.live = FALSE])
    /\ UNCHANGED <<sender, accepted>>

Cycle(w) ==
    \/ RecoverStale(w) \/ \E d \in Deliveries : ClaimDelivery(w, d)
    \/ ClaimNothing(w) \/ Reserve(w) \/ Send(w) \/ Record(w)

Step ==
    \/ \E w \in OdooWorkers : Cycle(w) \/ Crash(w)
    \/ \E d \in Deliveries : LeaseExpires(d) \/ LeaseOverrun(d)

Next == Step \/ \E d \in Deliveries : Queue(d)

(***************************************************************************)
(* run_worker calls cycle() for ever and swallows its exceptions; a        *)
(* back-off is over some day, so a delivery in RETRY that can be claimed   *)
(* again and again is.                                                     *)
(***************************************************************************)
Fairness ==
    /\ \A w \in OdooWorkers :
          /\ WF_vars(Cycle(w))
          /\ \A d \in Deliveries : SF_vars(ClaimDelivery(w, d))
    /\ \A d \in Deliveries : WF_vars(LeaseExpires(d))

Spec == Init /\ [][Next]_vars /\ Fairness

-----------------------------------------------------------------------------

(***************************************************************************)
(* A delivery marked DELIVERED is in Odoo: no lost answer and no late      *)
(* worker makes deliver_result say so of one Odoo never persisted.         *)
(***************************************************************************)
DeliveredIsAccepted ==
    \A d \in Deliveries : dlv[d].status = "DELIVERED" => d \in accepted

(***************************************************************************)
(* "attempts counts dispatches": the limit is exceeded only by as many     *)
(* dispatches as there were leases that ran out under a living worker,     *)
(* which may put a delivery back that recovery or another worker had       *)
(* already taken to the limit.                                             *)
(***************************************************************************)
DispatchesBounded ==
    \A d \in Deliveries : dlv[d].attempts <= DeliveryLimit + overrun

(***************************************************************************)
(* A queued delivery ends delivered or as a dead letter, through crashes,  *)
(* overrun leases and lost answers, unless it or one queued before it has  *)
(* no body.                                                                *)
(***************************************************************************)
DeliveryEnds ==
    \A d \in Deliveries : (\A e \in BadBodies : d < e) =>
        (dlv[d].status = "PENDING" ~> dlv[d].status \in Final)

(***************************************************************************)
(* "Fail closed without blind retry: schema/tenant/auth/scope/contract     *)
(* errors ... Attempts are bounded" (docs/odoo/ODOO-FAILURE-RECOVERY.md):  *)
(* every queued delivery ends.  Does not hold: deliver_result raises on a  *)
(* body it cannot build without recording it, and the row stays first.     *)
(***************************************************************************)
EveryDeliveryEnds ==
    \A d \in Deliveries : dlv[d].status = "PENDING" ~> dlv[d].status \in Final

=============================================================================
