---------------------------- MODULE MCDispatchers ----------------------------
(***************************************************************************)
(* Model of the two workers that dispatch to another system and wait for   *)
(* its callbacks: the n8n runtime, with the deliveries to Odoo its results *)
(* queue, and the telephony commands.  They share no table and no process, *)
(* so a behaviour is one of either: `part` says of which.                  *)
(***************************************************************************)
EXTENDS N8nRuntime

CONSTANTS Commands, TelWorkers, TelAttempts, TelFaults, TelResults, TelAnnounced

VARIABLES part, cmd, op, tel, adapter, emitted, faults

Tel == INSTANCE TelephonyCommands

telVars == <<cmd, op, tel, adapter, emitted, faults>>
allVars == <<part, vars, telVars>>

AllInit == part \in {"n8n", "telephony"} /\ Init /\ Tel!Init

AllNext ==
    \/ part = "n8n" /\ Next /\ UNCHANGED <<part, telVars>>
    \/ part = "telephony" /\ Tel!Next /\ UNCHANGED <<part, vars>>

(***************************************************************************)
(* The part that runs is fair as the Fairness of its own module says; what *)
(* is checked here does not need the fairness of the deliveries to Odoo.   *)
(***************************************************************************)
AllFairness ==
    /\ \A w \in N8nWorkers : WF_vars(part = "n8n" /\ Loop(w))
    /\ \A x \in Execs : /\ WF_vars(part = "n8n" /\ LeaseExpires(x))
                         /\ WF_vars(part = "n8n" /\ Backoff(x))
                         /\ WF_vars(part = "n8n" /\ Deadline(x))
    /\ \A w \in TelWorkers : WF_telVars(part = "telephony" /\ Tel!DispatchOne(w))
    /\ \A c \in Commands : WF_telVars(part = "telephony" /\ Tel!LeaseExpires(c))

AllSpec == AllInit /\ [][AllNext]_allVars /\ AllFairness

-----------------------------------------------------------------------------

(***************************************************************************)
(* _persist_submission: once an operation is journalled for a command, no  *)
(* worker that still owns the command is about to dispatch it again.       *)
(***************************************************************************)
OwnerDispatchesOnce == Tel!OwnerDispatchesOnce

(***************************************************************************)
(* transition_operation: the journal holds what the adapter announced up   *)
(* to some number, without a gap, and until a terminal result is posted    *)
(* the state announced under that number, whatever order they arrive in.   *)
(***************************************************************************)
JournalFollowsAdapter == Tel!JournalFollowsAdapter

(***************************************************************************)
(* _record_failure, _persist_submission and finalization: a worker that    *)
(* lost the command does not move a settled one.                           *)
(***************************************************************************)
SettledStays == Tel!SettledStays

(***************************************************************************)
(* claim_authorized: every authorized command settles, although workers    *)
(* die in the middle of it.                                                *)
(***************************************************************************)
EveryCommandSettles == part = "telephony" => Tel!EveryCommandSettles

=============================================================================
