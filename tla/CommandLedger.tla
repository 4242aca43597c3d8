--------------------------- MODULE CommandLedger ---------------------------
(***************************************************************************)
(* The durable command ledger of app/commands.py (PostgresCommandStore):   *)
(* one row of middleware_commands per command, the number of rows it has   *)
(* in middleware_command_attempts, and the immutable                       *)
(* middleware_command_dead_letters.  Every operator below is one database  *)
(* transaction under SELECT ... FOR UPDATE of the command row, so each is  *)
(* one atomic step.  Who calls it, and when, is ExecutionBus's business.   *)
(***************************************************************************)
EXTENDS Naturals

CONSTANT Commands

VARIABLES
    cmd,            \* [Commands -> the middleware_commands row]
    deadLetters     \* commands with a middleware_command_dead_letters row

ledgerVars == <<cmd, deadLetters>>

CommandState ==
    {"absent", "persisted", "queued", "dispatching", "accepted",
     "readback_pending", "completed", "failed", "reconciliation_required",
     "dead_lettered", "cancelled"}

\* attempts : newest attempt_number (0 before the first dispatch)
\* version  : resource_version;   retries : 'retry' rows among the mutations
CommandRow == [state: CommandState, attempts: Nat, version: Nat, retries: Nat]

NoCommand == [state |-> "absent", attempts |-> 0, version |-> 0, retries |-> 0]

LedgerTypeOK ==
    /\ cmd \in [Commands -> CommandRow]
    /\ deadLetters \subseteq Commands

LedgerInit ==
    /\ cmd = [c \in Commands |-> NoCommand]
    /\ deadLetters = {}

Allowed(from) ==
    CASE from = "persisted"               -> {"queued", "cancelled"}
      [] from = "queued"                  -> {"dispatching", "dead_lettered", "cancelled"}
      [] from = "dispatching"             -> {"accepted", "failed", "reconciliation_required"}
      [] from = "accepted"                -> {"readback_pending", "reconciliation_required"}
      [] from = "readback_pending"        -> {"completed", "failed", "reconciliation_required"}
      [] from = "reconciliation_required" -> {"queued", "dead_lettered"}
      [] from = "failed"                  -> {"queued", "dead_lettered"}
      [] OTHER                            -> {}

----------------------------------------------------------------------------
(* submit_on_connection: the first submission of an identity creates the   *)
(* row; a repeat of it finds the row and changes nothing.                  *)
SubmitCommand(c) ==
    /\ cmd[c].state = "absent"
    /\ cmd' = [cmd EXCEPT ![c] = [NoCommand EXCEPT !.state = "persisted", !.version = 1]]
    /\ UNCHANGED deadLetters

\* expected_attempt = None; expected_attempt = n is {n}.
Unfenced == {}

(* transition: refused (CommandConflict) when the expected attempt is not  *)
(* the newest one or the edge is not allowed.  resource_version is left    *)
(* alone; dispatching opens the next attempt.                              *)
CanTransition(c, new, fence) ==
    /\ fence = Unfenced \/ new = "dispatching" \/ cmd[c].attempts \in fence
    /\ new \in Allowed(cmd[c].state)

Transition(c, new, fence) ==
    /\ CanTransition(c, new, fence)
    /\ cmd' = [cmd EXCEPT ![c].state = new,
                          ![c].attempts = IF new = "dispatching" THEN @ + 1 ELSE @]
    /\ UNCHANGED deadLetters

(* reconcile(expected_version = v): a read-back verdict on a parked        *)
(* command.                                                                *)
CanReconcile(c, v) ==
    /\ cmd[c].state = "reconciliation_required"
    /\ cmd[c].version = v

ReconcileVerdict(c, matched, v) ==
    /\ CanReconcile(c, v)
    /\ cmd' = [cmd EXCEPT ![c].state = IF matched THEN "completed" ELSE @,
                          ![c].version = @ + 1]
    /\ UNCHANGED deadLetters

\* record_dead_letter: ON CONFLICT DO NOTHING, the first record stays.
RecordDeadLetter(c) ==
    /\ deadLetters' = deadLetters \cup {c}
    /\ UNCHANGED cmd

----------------------------------------------------------------------------
(* mutate_operation, the three operator mutations.  The caller names the   *)
(* resource_version it read; a stale one is refused and changes nothing.   *)
Mutated(c, new) ==
    /\ cmd' = [cmd EXCEPT ![c].state = new,
                          ![c].version = @ + 1]
    /\ UNCHANGED deadLetters

\* Mutant: a command in flight is cancelled outright.
CancelInFlight(c, leased) ==
    IF cmd[c].state \in {"persisted", "queued", "dispatching", "accepted", "readback_pending"}
    THEN {"cancelled"} ELSE {}

\* Where cancel leads from the present state; {} when it is refused.
CancelTo(c, leased) ==
    CASE cmd[c].state \in {"persisted", "queued"} ->
            IF leased THEN {"reconciliation_required"} ELSE {"cancelled"}
      [] cmd[c].state \in {"dispatching", "accepted", "readback_pending"} ->
            {"reconciliation_required"}
      [] OTHER -> {}

\* Mutant: completed commands may be reopened.
ReconcilableAlsoDone(c) ==
    cmd[c].state \in {"dispatching", "accepted", "readback_pending",
                      "reconciliation_required", "completed"}

Reconcilable(c) ==
    cmd[c].state \in {"dispatching", "accepted", "readback_pending",
                      "reconciliation_required"}

MutateReconcile(c) ==
    /\ Reconcilable(c)
    /\ Mutated(c, "reconciliation_required")

\* Mutant: a dead-lettered command may be retried in place.
RetryDeadLettered(c) ==
    /\ cmd[c].state \in {"failed", "dead_lettered"}
    /\ cmd' = [cmd EXCEPT ![c].state = "queued",
                          ![c].version = @ + 1,
                          ![c].retries = @ + 1]
    /\ UNCHANGED deadLetters

MutateRetry(c) ==
    /\ cmd[c].state = "failed"
    /\ cmd' = [cmd EXCEPT ![c].state = "queued",
                          ![c].version = @ + 1,
                          ![c].retries = @ + 1]
    /\ UNCHANGED deadLetters

============================================================================
