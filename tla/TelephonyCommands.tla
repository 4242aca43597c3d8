------------------------- MODULE TelephonyCommands -------------------------
(***************************************************************************)
(* The telephony command journal: intake, cancellation, operation          *)
(* registration, transitions and results (app/api/v1/commands.py), and the *)
(* dispatch worker (app/workers/telephony_commands.py) that sends a        *)
(* command to the telephony adapter (app/adapters/telephony/client.py).    *)
(*                                                                         *)
(* A step is one database transaction or one exchange with the adapter.    *)
(* The commands are those of one aggregate, named by aggregate_version.    *)
(* The dispatch key of a command does not change, so the adapter carries   *)
(* it out once however often it is sent.  Back-off delays are over by the  *)
(* time a row is claimed.                                                  *)
(***************************************************************************)
EXTENDS Naturals, Sequences

CONSTANTS
    Commands,       \* aggregate versions that are submitted
    TelWorkers,     \* processes that run dispatch_one
    TelAttempts,    \* MAX_ATTEMPTS
    TelFaults,      \* bound: deaths of a worker inside dispatch_one, and
                    \* leases that run out under a living one
    TelResults,     \* bound: terminal results posted per command
    TelAnnounced    \* bound: transitions the adapter announces per command

VARIABLES
    cmd,       \* telephony_command_journal
    op,        \* telephony_operation_journal: at most one row per command
    tel,       \* the workers
    adapter,   \* what the adapter made of the command
    emitted,   \* the transitions the adapter has announced, in order
    faults     \* crashes and pauses so far

vars == <<cmd, op, tel, adapter, emitted, faults>>

Settled == {"POLICY_DENIED", "ODOO_RESULT_PENDING", "RECONCILIATION_REQUIRED",
            "FAILED_PERMANENT", "CANCELLED", "OPERATION_REGISTERED"}
CmdState == {"none", "AUTHORIZED", "SUBMITTING", "FAILED_TRANSIENT"}
              \cup Settled

(***************************************************************************)
(* owner is the attempt whose uuid the lease holds, 0 for none.  auth is   *)
(* the policy decision at intake: no column, only a property reads it.     *)
(***************************************************************************)
MaxClaims == TelAttempts + TelFaults
CmdRow == [state: CmdState, attempts: 0..MaxClaims, owner: 0..MaxClaims,
           live: BOOLEAN, auth: BOOLEAN]

(***************************************************************************)
(* The table of the states an adapter may announce.                        *)
(***************************************************************************)
Transitions ==
    [REGISTERED |-> {"APPLYING", "FAILED"},
     APPLYING |-> {"APPLIED", "FAILED", "COMPENSATION_REQUIRED"},
     APPLIED |-> {"READBACK_PENDING", "COMPENSATION_REQUIRED"},
     READBACK_PENDING |-> {"READBACK_VERIFIED", "READBACK_MISMATCH", "FAILED"},
     READBACK_VERIFIED |-> {"SUCCEEDED"},
     READBACK_MISMATCH |-> {"COMPENSATION_REQUIRED", "FAILED"},
     COMPENSATION_REQUIRED |-> {"COMPENSATED", "FAILED"}]

After(state) == IF state \in DOMAIN Transitions THEN Transitions[state] ELSE {}

(***************************************************************************)
(* id: the id the adapter acknowledged, the one derived from the dispatch  *)
(* key after a timeout, or the one the adapter registered by itself.  rows *)
(* are the numbers in the table of its transitions, seq is the row's own   *)
(* transition_sequence.                                                    *)
(***************************************************************************)
OpState == {"SUBMITTED", "AMBIGUOUS", "ODOO_RESULT_PENDING",
            "RECONCILIATION_REQUIRED"}
             \cup DOMAIN Transitions
             \cup UNION {After(s) : s \in DOMAIN Transitions}
OpRow == [id: {"none", "ack", "derived", "registered"},
          state: OpState \cup {"none"}, seq: Nat, rows: SUBSET (1..TelAnnounced),
          results: 0..TelResults]
NoOp == [id |-> "none", state |-> "none", seq |-> 0, rows |-> {}, results |-> 0]

Pc == {"idle", "load", "dispatch", "persist", "readback", "finalize", "fail"}
Worker == [pc: Pc, c: Commands \cup {0}, own: 0..MaxClaims,
           res: {"none", "ack", "derived", "match", "mismatch", "transient",
                 "permanent"}]
Idle == [pc |-> "idle", c |-> 0, own |-> 0, res |-> "none"]

TypeOK ==
    /\ cmd \in [Commands -> CmdRow]
    /\ op \in [Commands -> OpRow]
    /\ tel \in [TelWorkers -> Worker]
    /\ adapter \in [Commands -> {"no", "inflight", "applied"}]
    /\ emitted \in [Commands -> Seq(OpState)]
    /\ faults \in 0..TelFaults

Init ==
    /\ cmd = [c \in Commands |-> [state |-> "none", attempts |-> 0,
                owner |-> 0, live |-> FALSE, auth |-> FALSE]]
    /\ op = [c \in Commands |-> NoOp]
    /\ tel = [w \in TelWorkers |-> Idle]
    /\ adapter = [c \in Commands |-> "no"]
    /\ emitted = [c \in Commands |-> <<>>]
    /\ faults = 0

Store(c, row) == cmd' = [cmd EXCEPT ![c] = row]
Become(w, t) == tel' = [tel EXCEPT ![w] = t]
Outcome(w, pc, res) == Become(w, [tel[w] EXCEPT !.pc = pc, !.res = res])

-----------------------------------------------------------------------------

(***************************************************************************)
(* create_command: an aggregate version must be newer than every one       *)
(* already journaled; the policy decision says how the command starts.     *)
(***************************************************************************)
Decided(allowed) == IF allowed THEN "AUTHORIZED" ELSE "POLICY_DENIED"

Create(c) ==
    /\ \A d \in Commands : cmd[d].state # "none" => d < c
    /\ \E allowed \in BOOLEAN :
          Store(c, [cmd[c] EXCEPT !.auth = allowed, !.state = Decided(allowed)])
    /\ UNCHANGED <<op, tel, adapter, emitted, faults>>

(***************************************************************************)
(* cancel_command: any state but a terminal one; SUCCEEDED and RECONCILED  *)
(* are written by no running part of the system.                           *)
(***************************************************************************)
Cancel(c) ==
    /\ cmd[c].state \notin {"none", "FAILED_PERMANENT", "CANCELLED"}
    /\ Store(c, [cmd[c] EXCEPT !.state = "CANCELLED", !.owner = 0,
                               !.live = FALSE])
    /\ UNCHANGED <<op, tel, adapter, emitted, faults>>

(***************************************************************************)
(* register_operation: whatever the state of the command, if it has no     *)
(* operation yet.  The lease stays where it was.                           *)
(***************************************************************************)
RegisterOperation(c) ==
    /\ cmd[c].state # "none" /\ op[c] = NoOp
    /\ op' = [op EXCEPT ![c] = [NoOp EXCEPT !.id = "registered",
                                           !.state = "REGISTERED"]]
    /\ Store(c, [cmd[c] EXCEPT !.state = "OPERATION_REGISTERED"])
    /\ UNCHANGED <<tel, adapter, emitted, faults>>

(***************************************************************************)
(* The adapter (external) works through an operation in the journal and    *)
(* numbers what it announces; announcements arrive late, twice, in another *)
(* order or not at all.  transition_operation leaves a number it has       *)
(* already stored alone, takes the next number only, and only along the    *)
(* table; it stores the number and the state it was sent.  What arrives    *)
(* while the operation is in no state of the table is refused, so that it  *)
(* may as well be announced later.                                         *)
(***************************************************************************)
AdapterState(c) ==
    IF emitted[c] = <<>> THEN "REGISTERED" ELSE emitted[c][Len(emitted[c])]

Announce(c) ==
    /\ op[c].state \in DOMAIN Transitions /\ Len(emitted[c]) < TelAnnounced
    /\ \E s \in After(AdapterState(c)) :
          emitted' = [emitted EXCEPT ![c] = Append(@, s)]
    /\ UNCHANGED <<cmd, op, tel, adapter, faults>>

AnyOrder(c, n) == TRUE
InOrder(c, n) == n = op[c].seq + 1

Transition(c) ==
    /\ \E n \in 1..Len(emitted[c]) :
          /\ n \notin op[c].rows /\ InOrder(c, n)
          /\ emitted[c][n] \in After(op[c].state)
          /\ op' = [op EXCEPT ![c].state = emitted[c][n], ![c].seq = n,
                              ![c].rows = @ \cup {n}]
    /\ UNCHANGED <<cmd, tel, adapter, emitted, faults>>

(***************************************************************************)
(* create_terminal_result: a new result moves the operation, whatever      *)
(* state it is in.                                                         *)
(***************************************************************************)
TerminalResult(c) ==
    /\ op[c] # NoOp /\ op[c].results < TelResults
    /\ \E state \in {"ODOO_RESULT_PENDING", "READBACK_MISMATCH"} :
          op' = [op EXCEPT ![c].state = state, ![c].results = @ + 1]
    /\ UNCHANGED <<cmd, tel, adapter, emitted, faults>>

-----------------------------------------------------------------------------

(***************************************************************************)
(* claim_authorized: counts the attempt, but does not look at its limit.   *)
(***************************************************************************)
ClaimableUnlessLost(c) == cmd[c].state \in {"AUTHORIZED", "FAILED_TRANSIENT"}

Claimable(c) ==
    \/ cmd[c].state \in {"AUTHORIZED", "FAILED_TRANSIENT"}
    \/ cmd[c].state = "SUBMITTING" /\ ~cmd[c].live

Claim(w, c) ==
    /\ tel[w].pc = "idle" /\ Claimable(c)
    /\ LET n == cmd[c].attempts + 1
       IN /\ Store(c, [cmd[c] EXCEPT !.state = "SUBMITTING", !.attempts = n,
                                     !.owner = n, !.live = TRUE])
          /\ Become(w, [Idle EXCEPT !.pc = "load", !.c = c, !.own = n])
    /\ UNCHANGED <<op, adapter, emitted, faults>>

(***************************************************************************)
(* dispatch_one loads the command: with an operation in the journal it     *)
(* goes straight to the read-back, otherwise the policy decision has to    *)
(* hold still.                                                             *)
(***************************************************************************)
LoadCommandOnly(w) ==
    /\ tel[w].pc = "load"
    /\ \E t \in {<<"dispatch", "none">>, <<"fail", "permanent">>} :
          Outcome(w, t[1], t[2])
    /\ UNCHANGED <<cmd, op, adapter, emitted, faults>>

Load(w) ==
    /\ tel[w].pc = "load"
    /\ IF op[tel[w].c] # NoOp THEN Outcome(w, "readback", "none")
       ELSE \E t \in {<<"dispatch", "none">>, <<"fail", "permanent">>} :
               Outcome(w, t[1], t[2])
    /\ UNCHANGED <<cmd, op, adapter, emitted, faults>>

(***************************************************************************)
(* client.dispatch under the lease guard.  The request is carried out, is  *)
(* still under way when the client gives up, or never leaves; a timeout    *)
(* yields a derived operation id, an HTTP error or a lost lease a failure. *)
(***************************************************************************)
Dispatch(w) ==
    LET c == tel[w].c
    IN /\ tel[w].pc = "dispatch"
       /\ \/ /\ adapter' = [adapter EXCEPT ![c] = "applied"]
             /\ \/ \E res \in {"ack", "derived"} : Outcome(w, "persist", res)
                \/ \E res \in {"transient", "permanent"} : Outcome(w, "fail", res)
          \/ /\ \/ UNCHANGED adapter
                \/ /\ adapter[c] = "no"
                   /\ adapter' = [adapter EXCEPT ![c] = "inflight"]
             /\ \/ Outcome(w, "persist", "derived")
                \/ Outcome(w, "fail", "transient")
          \/ UNCHANGED adapter /\ Outcome(w, "fail", "permanent")
       /\ UNCHANGED <<cmd, op, emitted, faults>>

Arrive(c) ==
    /\ adapter[c] = "inflight"
    /\ adapter' = [adapter EXCEPT ![c] = "applied"]
    /\ UNCHANGED <<cmd, op, tel, emitted, faults>>

(***************************************************************************)
(* _persist_submission: the operation row, under the lease, which is       *)
(* renewed and kept for the read-back.                                     *)
(***************************************************************************)
Owned(w) ==
    LET row == cmd[tel[w].c]
    IN row.state = "SUBMITTING" /\ row.owner = tel[w].own

Persist(w) ==
    LET c == tel[w].c
    IN /\ tel[w].pc = "persist"
       /\ IF Owned(w) /\ op[c].id \in {"none", tel[w].res}
          THEN /\ op' = IF op[c] # NoOp THEN op
                        ELSE [op EXCEPT ![c] = [NoOp EXCEPT !.id = tel[w].res,
                                !.state = IF tel[w].res = "ack" THEN "SUBMITTED"
                                          ELSE "AMBIGUOUS"]]
               /\ Store(c, [cmd[c] EXCEPT !.live = TRUE])
               /\ Outcome(w, "readback", "none")
          ELSE UNCHANGED <<cmd, op>> /\ Outcome(w, "fail", "transient")
       /\ UNCHANGED <<adapter, emitted, faults>>

(***************************************************************************)
(* client.readback: the desired state can be seen only once the adapter    *)
(* carried the command out, and need not be; a 404 is a transient failure. *)
(* That it is not seen before is an assumption about the adapter (nobody   *)
(* else brings that state about).                                          *)
(***************************************************************************)
Readback(w) ==
    /\ tel[w].pc = "readback"
    /\ \/ adapter[tel[w].c] = "applied" /\ Outcome(w, "finalize", "match")
       \/ Outcome(w, "finalize", "mismatch")
       \/ \E res \in {"transient", "permanent"} : Outcome(w, "fail", res)
    /\ UNCHANGED <<cmd, op, adapter, emitted, faults>>

(***************************************************************************)
(* The last transaction of dispatch_one.                                   *)
(***************************************************************************)
FinalState(res) ==
    IF res = "match" THEN "ODOO_RESULT_PENDING" ELSE "RECONCILIATION_REQUIRED"

Finalize(w) ==
    LET c == tel[w].c  s == FinalState(tel[w].res)
    IN /\ tel[w].pc = "finalize"
       /\ IF Owned(w)
          THEN /\ op' = [op EXCEPT ![c].state = s]
               /\ Store(c, [cmd[c] EXCEPT !.state = s, !.owner = 0,
                                          !.live = FALSE])
          ELSE UNCHANGED <<cmd, op>>
       /\ Become(w, Idle)
       /\ UNCHANGED <<adapter, emitted, faults>>

(***************************************************************************)
(* _record_failure: nothing, unless the lease is still the worker's own.   *)
(***************************************************************************)
FailedAnyway(w) ==
    Store(tel[w].c, [cmd[tel[w].c] EXCEPT !.state = "FAILED_TRANSIENT",
                                          !.owner = 0, !.live = FALSE])

Failed(w) ==
    LET row == cmd[tel[w].c]
    IN IF ~Owned(w) THEN UNCHANGED cmd
       ELSE Store(tel[w].c, [row EXCEPT !.owner = 0, !.live = FALSE,
              !.state = IF \/ tel[w].res = "permanent"
                           \/ row.attempts >= TelAttempts
                        THEN "FAILED_PERMANENT" ELSE "FAILED_TRANSIENT"])

RecordFailure(w) ==
    /\ tel[w].pc = "fail"
    /\ Failed(w)
    /\ Become(w, Idle)
    /\ UNCHANGED <<op, adapter, emitted, faults>>

(***************************************************************************)
(* _renew_lease runs beside the dispatch and its failure, not beside the   *)
(* load and the last transaction.                                          *)
(***************************************************************************)
RenewLease(w) ==
    /\ tel[w].pc \in {"dispatch", "persist", "readback", "fail"}
    /\ Owned(w) /\ ~cmd[tel[w].c].live
    /\ Store(tel[w].c, [cmd[tel[w].c] EXCEPT !.live = TRUE])
    /\ UNCHANGED <<op, tel, adapter, emitted, faults>>

Crash(w) ==
    /\ tel[w].pc # "idle" /\ faults < TelFaults
    /\ faults' = faults + 1
    /\ Become(w, Idle)
    /\ UNCHANGED <<cmd, op, adapter, emitted>>

(***************************************************************************)
(* A lease nobody renews runs out; one whose worker lives runs out only    *)
(* while the worker stands still.                                          *)
(***************************************************************************)
Attended(c) == \E w \in TelWorkers : tel[w].c = c /\ Owned(w)

LeaseExpires(c) ==
    /\ cmd[c].state = "SUBMITTING" /\ cmd[c].live /\ ~Attended(c)
    /\ Store(c, [cmd[c] EXCEPT !.live = FALSE])
    /\ UNCHANGED <<op, tel, adapter, emitted, faults>>

Pause(c) ==
    /\ cmd[c].state = "SUBMITTING" /\ cmd[c].live /\ Attended(c)
    /\ faults < TelFaults
    /\ faults' = faults + 1
    /\ Store(c, [cmd[c] EXCEPT !.live = FALSE])
    /\ UNCHANGED <<op, tel, adapter, emitted>>

DispatchOne(w) ==
    \/ \E c \in Commands : Claim(w, c)
    \/ Load(w) \/ Dispatch(w) \/ Persist(w) \/ Readback(w) \/ Finalize(w)
    \/ RecordFailure(w)

Next ==
    \/ \E w \in TelWorkers : DispatchOne(w) \/ RenewLease(w) \/ Crash(w)
    \/ \E c \in Commands :
          \/ Create(c) \/ Cancel(c) \/ RegisterOperation(c) \/ Announce(c)
          \/ Transition(c) \/ TerminalResult(c) \/ Arrive(c)
          \/ LeaseExpires(c) \/ Pause(c)

(***************************************************************************)
(* Workers are called again and again and leases run out; nobody has to    *)
(* submit, cancel, register or answer.                                     *)
(***************************************************************************)
Fairness ==
    /\ \A w \in TelWorkers : WF_vars(DispatchOne(w))
    /\ \A c \in Commands : WF_vars(LeaseExpires(c))

Spec == Init /\ [][Next]_vars /\ Fairness

-----------------------------------------------------------------------------

(***************************************************************************)
(* A worker that holds the lease never dispatches a command the journal    *)
(* already has an operation for, whoever wrote it: after a crash between   *)
(* submission and read-back the next worker reads back (dispatch_one).     *)
(***************************************************************************)
OwnerDispatchesOnce ==
    \A w \in TelWorkers :
        tel[w].pc = "dispatch" /\ Owned(w) => op[tel[w].c] = NoOp

(***************************************************************************)
(* A command whose result waits for Odoo was carried out by the adapter,   *)
(* and its operation is in the journal (dispatch_one finalizes it from the *)
(* read-back alone, never from an acknowledgement), if what a read-back    *)
(* sees is the adapter's doing.                                            *)
(***************************************************************************)
ResultIsReadBack ==
    \A c \in Commands : cmd[c].state = "ODOO_RESULT_PENDING" =>
        adapter[c] = "applied" /\ op[c] # NoOp

(***************************************************************************)
(* A command the policy denied at intake never reaches the adapter through *)
(* this worker, whatever cancellations and registrations follow.           *)
(***************************************************************************)
DeniedNeverSent == \A c \in Commands : ~cmd[c].auth => adapter[c] = "no"

(***************************************************************************)
(* The journal of an operation has no gaps: its transitions are those from *)
(* the first to transition_sequence, all of them announced, however late,  *)
(* often or out of order the announcements arrive; and the operation the   *)
(* adapter registered is in the state announced under that number, as long *)
(* as no terminal result was posted (transition_operation).                *)
(***************************************************************************)
JournalFollowsAdapter ==
    \A c \in Commands :
        /\ op[c].rows = 1..op[c].seq /\ op[c].seq <= Len(emitted[c])
        /\ op[c].id = "registered" /\ op[c].seq > 0 /\ op[c].results = 0 =>
              op[c].state = emitted[c][op[c].seq]

(***************************************************************************)
(* A settled command is not taken up again: no worker, however late, moves *)
(* it, and only a cancellation or the adapter's registration may.          *)
(***************************************************************************)
SettledStays ==
    [][\A c \in Commands : cmd[c].state \in Settled =>
          /\ cmd'[c].attempts = cmd[c].attempts
          /\ cmd'[c].state \in {cmd[c].state, "CANCELLED",
                                "OPERATION_REGISTERED"}]_vars

(***************************************************************************)
(* An authorized command settles, whatever crashes, lost leases, timeouts  *)
(* and refusals come in between, if those are finitely many.               *)
(***************************************************************************)
EveryCommandSettles ==
    \A c \in Commands :
        cmd[c].state = "AUTHORIZED" ~> cmd[c].state \in Settled

=============================================================================
