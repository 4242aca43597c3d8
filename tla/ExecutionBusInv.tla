-------------------------- MODULE ExecutionBusInv --------------------------
(***************************************************************************)
(* The inductive invariant behind NoBlindResend, CancelledHasNoEffect and  *)
(* InDoubtNotClaimable.  The argument: while a command is Unaided it has   *)
(* one outbox row; that row is quarantined before provider code runs and   *)
(* the quarantine is lifted only by the worker inside the handler, so      *)
(* there is never a second one; and that worker lifts it, or puts the      *)
(* command back to queued, only when every attempt so far was refused.     *)
(***************************************************************************)
EXTENDS ExecutionBus

\* w runs (or is about to leave) the handler, past quarantine_unknown_outcome.
Handling(w) == worker[w].pc \notin {"idle", "claimed"}

\* A process that is not idle works on a row of the outbox.
RowsExist ==
    /\ \A w \in Workers : ~At(w, "idle") => worker[w].row \in 1..Len(outbox)
    /\ \A r \in Reconcilers : ~RAt(r, "idle") => recon[r].row \in 1..Len(outbox)

\* submit and the operator's retry are the only writers of intents.
OneRow ==
    /\ \A c \in Commands : cmd[c].state = "absent" =>
          cmd[c].retries = 0 /\ \A i \in 1..Len(outbox) : outbox[i].cmd # c
    /\ \A c \in Commands : cmd[c].retries = 0 =>
          \A i, j \in 1..Len(outbox) : outbox[i].cmd = c /\ outbox[j].cmd = c => i = j

\* A row that was completed or dead-lettered has no owner.
ClosedUnowned ==
    \A i \in 1..Len(outbox) :
        "completed" \in outbox[i].closed \/ "dead_lettered" \in outbox[i].closed =>
            outbox[i].owner = Nobody

\* The row can no longer be handed to a worker.
Withheld(row) ==
    row.since # 0 \/ "completed" \in row.closed \/ "dead_lettered" \in row.closed

OneHandler ==
    /\ \A w \in Workers : Handling(w) /\ Unaided(CommandOf(w)) =>
          Withheld(outbox[worker[w].row])
    /\ \A v, w \in Workers :
          /\ Handling(v) /\ Handling(w) /\ CommandOf(v) = CommandOf(w)
          /\ Unaided(CommandOf(w))
          => v = w

\* Only a reconciler of a safe_reexecution adapter puts a row back.
RetryIsSafe == \A r \in Reconcilers : RAt(r, "retry") => SafeReexecution

Attempts ==
    \A c \in Commands :
        /\ Len(requests[c]) = cmd[c].attempts
        /\ cmd[c].state \in {"absent", "persisted"} => cmd[c].attempts = 0

\* Every attempt so far was refused; nothing is left that could take effect.
Refused(q) == \A k \in 1..Len(q) : q[k] = "refused"

\* Only the newest attempt can be in doubt, and none is before the next one.
Doubt(row, q) ==
    /\ \A k \in 1..Len(q) : k < Len(q) => q[k] = "refused"
    /\ row.state \in {"queued", "cancelled"} => Refused(q)

OnlyNewestInDoubt ==
    \A c \in Commands : Unaided(c) =>
        /\ Doubt(cmd[c], requests[c])
        /\ \A i \in 1..Len(outbox) :
              outbox[i].cmd = c /\ ~Withheld(outbox[i]) => Refused(requests[c])

\* What the local variables of run_once and dispatch hold at each point.
Local(me) ==
    /\ me.pc = "idle" => me = IdleWorker
    /\ me.pc \in {"claimed", "handling"} => me.seen = "absent"
    /\ me.pc \in {"claimed", "handling", "opening", "recovering", "recovered",
                  "returning", "retrying"} => me.own = 0 /\ me.answer = NoAnswer
    /\ me.pc \in {"opened", "executing", "sent"} => me.own # 0
    /\ me.pc = "requeueing" => me.answer = "TRANSIENT"

\* What a handler may conclude about the command from its local variables.
Knows(me, row, q) ==
    /\ me.own = 0 /\ me.pc # "returning" => Refused(q)
    /\ me.own # 0 => me.own = row.attempts
    /\ me.seen = "persisted" => row.attempts = 0
    /\ me.answer = "TRANSIENT" => Refused(q)
    /\ me.pc \in {"opened", "executing"} => q[me.own] = "open"

HandlerKnows ==
    \A w \in Workers :
        /\ Local(worker[w])
        /\ Handling(w) /\ Unaided(CommandOf(w)) =>
              Knows(worker[w], cmd[CommandOf(w)], requests[CommandOf(w)])

(* The inductive invariant of the bus, worker and reconciler code.         *)
IInv ==
    /\ TypeOK /\ RowsExist /\ OneRow /\ ClosedUnowned /\ OneHandler /\ RetryIsSafe
    /\ Attempts /\ OnlyNewestInDoubt /\ HandlerKnows

============================================================================
