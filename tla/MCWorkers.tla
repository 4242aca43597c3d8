------------------------------ MODULE MCWorkers ------------------------------
(***************************************************************************)
(* Model of the parts that share no table and no process: the circuit      *)
(* breaker, the campaign saga, the delivery of scraped leads, the speech   *)
(* streams and the delivery of results to Odoo.  Their interleavings add   *)
(* nothing, so a behaviour is one of any of them: `part` says of which,    *)
(* and the others rest.                                                    *)
(***************************************************************************)
EXTENDS CircuitBreaker

CONSTANTS Events, SagaWorkers, RetryLimit, NoWorker, NoEvent
CONSTANTS Leads, LeadWorkers, LeadTries, LeadMishaps
CONSTANTS Speeches, SpeechRetries, Restarts, NoSpeech
CONSTANTS Deliveries, OdooWorkers, DeliveryLimit, BadBodies, OdooPauses

VARIABLES part
VARIABLES saga, runner, desired, reported
VARIABLES lead, inbox, courier, wake, applied, tries, mishaps
VARIABLES tts, req, lock, restarts
VARIABLES dlv, sender, accepted, overrun

Saga == INSTANCE CampaignSaga
Lead == INSTANCE ScraperDelivery
Tts == INSTANCE TtsStream
Odoo == INSTANCE OdooResults

sagaVars == <<saga, runner, desired, reported>>
leadVars == <<lead, inbox, courier, wake, applied, tries, mishaps>>
ttsVars == <<tts, req, lock, restarts>>
odooVars == <<dlv, sender, accepted, overrun>>
allVars == <<part, vars, sagaVars, leadVars, ttsVars, odooVars>>

AllInit ==
    /\ part \in {"breaker", "saga", "leads", "speech", "odoo"}
    /\ Init /\ Saga!Init /\ Lead!Init /\ Tts!Init /\ Odoo!Init

AllNext ==
    \/ /\ part = "breaker" /\ Next
       /\ UNCHANGED <<part, sagaVars, leadVars, ttsVars, odooVars>>
    \/ /\ part = "saga" /\ Saga!Next
       /\ UNCHANGED <<part, vars, leadVars, ttsVars, odooVars>>
    \/ /\ part = "leads" /\ Lead!Next
       /\ UNCHANGED <<part, vars, sagaVars, ttsVars, odooVars>>
    \/ /\ part = "speech" /\ Tts!Next
       /\ UNCHANGED <<part, vars, sagaVars, leadVars, odooVars>>
    \/ /\ part = "odoo" /\ Odoo!Next
       /\ UNCHANGED <<part, vars, sagaVars, leadVars, ttsVars>>

(***************************************************************************)
(* The part that runs is fair as the Fairness of its own module says; the  *)
(* breaker is checked for safety only.                                     *)
(***************************************************************************)
AllFairness ==
    /\ \A w \in SagaWorkers : WF_sagaVars(part = "saga" /\ Saga!Cycle(w))
    /\ \A e \in Events : WF_sagaVars(part = "saga" /\ Saga!LeaseExpires(e))
    /\ \A w \in LeadWorkers : WF_leadVars(part = "leads" /\ Lead!RunForever(w))
    /\ \A i \in Leads : /\ WF_leadVars(part = "leads" /\ Lead!LeaseExpires(i))
                        /\ WF_leadVars(part = "leads" /\ Lead!Backoff(i))
                        /\ WF_leadVars(part = "leads" /\ Lead!MarkerExpires(i))
    /\ \A j \in Speeches :
          /\ WF_ttsVars(part = "speech" /\ Tts!StreamSpeech(j))
          /\ SF_ttsVars(part = "speech" /\ Tts!Stream(j) /\ ~Tts!Goto(j, "chunk"))
    /\ \A w \in OdooWorkers :
          /\ WF_odooVars(part = "odoo" /\ Odoo!Cycle(w))
          /\ \A d \in Deliveries :
                SF_odooVars(part = "odoo" /\ Odoo!ClaimDelivery(w, d))
    /\ \A d \in Deliveries : WF_odooVars(part = "odoo" /\ Odoo!LeaseExpires(d))

AllSpec == AllInit /\ [][AllNext]_allVars /\ AllFairness

-----------------------------------------------------------------------------

(***************************************************************************)
(* The states of the five parts are of their types; the counters the code  *)
(* bounds stay within their bounds.                                        *)
(***************************************************************************)
TypesOK == TypeOK /\ Saga!TypeOK /\ Lead!TypeOK /\ Tts!TypeOK /\ Odoo!TypeOK

(***************************************************************************)
(* _dispatch: Odoo never hears of an observation whose key is not saved in *)
(* the row yet.                                                            *)
(***************************************************************************)
KeyDurableFirst == Saga!KeyDurableFirst

(***************************************************************************)
(* _guarded_update and enrolment: a completed or dead saga is never        *)
(* reopened, however late a worker comes back.                             *)
(***************************************************************************)
FinalStays == Saga!FinalStays

(***************************************************************************)
(* _has_reusable_observation: the retry after a transport failure sends    *)
(* the saved observation under its old key.                                *)
(***************************************************************************)
TransportRetryKeepsKey == Saga!TransportRetryKeepsKey

(***************************************************************************)
(* Every campaign event becomes a saga that completes or is dead-lettered, *)
(* although workers die and leases run out.                                *)
(***************************************************************************)
EverySagaEnds == part = "saga" => Saga!EverySagaEnds

(***************************************************************************)
(* acknowledge: a lead is marked delivered only if Odoo has it, although   *)
(* acknowledge does not ask whose lease it ends.                           *)
(***************************************************************************)
DeliveredIsApplied == Lead!DeliveredIsApplied

(***************************************************************************)
(* acknowledge and record_failure: a lead that is delivered or given up is *)
(* not moved by a worker that comes late, although neither asks whose      *)
(* claim it ends; only a replay reopens a dead letter.                     *)
(***************************************************************************)
DoneStays == Lead!DoneStays

(***************************************************************************)
(* run_forever: every lead that waits is taken up, although signals,       *)
(* markers and workers get lost.                                           *)
(***************************************************************************)
WaitingLeadTaken == part = "leads" => Lead!WaitingLeadTaken

(***************************************************************************)
(* Admission.acquire: at most one provider stream is open at a time.       *)
(***************************************************************************)
OneStream == Tts!OneStream

(***************************************************************************)
(* recover_expired: a speech whose provider request was started is never   *)
(* put back in the queue and started again.                                *)
(***************************************************************************)
StartedOnce == Tts!StartedOnce

(***************************************************************************)
(* stream_speech: the slot is given back whichever way the stream ends,    *)
(* unless the row was lost before the first chunk was recorded.            *)
(***************************************************************************)
SlotReturned == part = "speech" => Tts!SlotReturned

(***************************************************************************)
(* deliver_result: a delivery marked DELIVERED is in Odoo, although the    *)
(* answer may be lost and another worker may have taken the row meanwhile. *)
(***************************************************************************)
DeliveredIsAccepted == Odoo!DeliveredIsAccepted

(***************************************************************************)
(* cycle: a queued delivery ends, although workers die or lose their rows, *)
(* unless it or one queued before it has no body.                          *)
(***************************************************************************)
DeliveryEnds == part = "odoo" => Odoo!DeliveryEnds

=============================================================================
