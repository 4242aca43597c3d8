------------------------ MODULE ExecutionBusSafety ------------------------
(***************************************************************************)
(* No blind resend, for every instance in which no gateway answers for the *)
(* provider: IInv of ExecutionBusInv is inductive, and implies             *)
(* NoBlindResend, CancelledHasNoEffect and InDoubtNotClaimable.            *)
(***************************************************************************)
EXTENDS ExecutionBusProofs

\* What a step on command c leaves alone.
OthersKept(c) ==
    \A d \in Commands : d # c => cmd'[d] = cmd[d] /\ requests'[d] = requests[d]

(* What a step has to show for the conjuncts of IInv about requests.       *)
LEMMA OneHandlerNext ==
    ASSUME \A w \in Workers : Handling(w)' /\ Unaided(CommandOf(w))' => Withheld(outbox'[worker'[w].row]),
           \A v, w \in Workers :
              /\ Handling(v)' /\ Handling(w)' /\ CommandOf(v)' = CommandOf(w)'
              /\ Unaided(CommandOf(w))'
              => v = w
    PROVE  OneHandler'
BY DEF OneHandler, Withheld

(* The same for OnlyNewestInDoubt: per command, on the next ledger row,    *)
(* attempts and outbox rows.                                               *)
LEMMA DoubtNext ==
    ASSUME \A d \in Commands : Unaided(d)' =>
              /\ Doubt(cmd'[d], requests'[d])
              /\ \A i \in 1..Len(outbox') :
                    outbox'[i].cmd = d /\ ~Withheld(outbox'[i]) => Refused(requests'[d])
    PROVE  OnlyNewestInDoubt'
BY DEF OnlyNewestInDoubt, Doubt, Refused, Withheld

(* The same for HandlerKnows: per worker, on its next local variables.     *)
LEMMA KnowsNext ==
    ASSUME \A v \in Workers :
              /\ Local(worker'[v])
              /\ Handling(v)' /\ Unaided(CommandOf(v))' =>
                    Knows(worker'[v], cmd'[CommandOf(v)'], requests'[CommandOf(v)'])
    PROVE  HandlerKnows'
BY DEF HandlerKnows, Local, Knows, Refused

(* The types IInv brings along, and what it says of a handler.             *)
LEMMA IInvTypes ==
    ASSUME IInv
    PROVE  /\ TInv
           /\ outbox \in Seq(Row) /\ Len(outbox) \in Nat
           /\ DOMAIN outbox = 1..Len(outbox) /\ RowIds = 1..Len(outbox)
           /\ \A j \in 1..Len(outbox) : outbox[j] \in Row /\ outbox[j].cmd \in Commands
           /\ worker \in [Workers -> WorkerState]
           /\ recon \in [Reconcilers -> ReconState]
           /\ cmd \in [Commands -> CommandRow]
           /\ requests \in [Commands -> Seq(RequestState)]
<1>1. TInv /\ TypeOK
  BY DEF IInv, TInv
<1> QED
  BY Zenon, <1>1, RowsTyped DEF TypeOK, LedgerTypeOK, Row, OutboxRow

(* What IInv says about the row, the command and the attempts of a busy    *)
(* worker.                                                                 *)
LEMMA HandlerFacts ==
    ASSUME IInv, NEW w \in Workers, ~At(w, "idle")
    PROVE  /\ worker[w].row \in 1..Len(outbox)
           /\ CommandOf(w) \in Commands
           /\ cmd[CommandOf(w)] \in CommandRow
           /\ cmd[CommandOf(w)].state # "absent"
           /\ requests[CommandOf(w)] \in Seq(RequestState)
           /\ Len(requests[CommandOf(w)]) = cmd[CommandOf(w)].attempts
<1>1. worker[w].row \in 1..Len(outbox) /\ CommandOf(w) \in Commands
      /\ cmd[CommandOf(w)] \in CommandRow
  BY IInvTypes, WorkerAt
<1>2. cmd[CommandOf(w)].state # "absent"
  BY <1>1 DEF IInv, OneRow, CommandOf
<1> QED
  BY <1>1, <1>2, IInvTypes DEF IInv, Attempts

(* A step of the handler w that leaves the outbox alone: only its own      *)
(* command and its own local state need a look.                            *)
LEMMA HandlerFrame ==
    ASSUME IInv, NEW w \in Workers, Handling(w), NEW c \in Commands, c = CommandOf(w),
           TInv', outbox' = outbox, recon' = recon,
           NEW me \in WorkerState, worker' = [worker EXCEPT ![w] = me],
           me.pc = "idle" \/ (me.pc # "claimed" /\ me.row = worker[w].row),
           Local(me),
           OthersKept(c),
           cmd'[c].retries = cmd[c].retries,
           cmd'[c].state # "absent",
           Len(requests'[c]) = cmd'[c].attempts,
           cmd'[c].state = "persisted" => cmd'[c].attempts = 0,
           Unaided(c) => /\ Doubt(cmd'[c], requests'[c])
                         /\ me.pc # "idle" => Knows(me, cmd'[c], requests'[c])
    PROVE  IInv'
<1>1. OneRow'
  <2>1. \A d \in Commands : /\ cmd'[d].retries = cmd[d].retries
                            /\ cmd'[d].state = "absent" => cmd[d].state = "absent"
    BY DEF OthersKept
  <2> QED
    BY <2>1 DEF IInv, OneRow
<1>2. ClosedUnowned' /\ RetryIsSafe'
  BY DEF IInv, ClosedUnowned, RetryIsSafe, RAt
<1>3. Attempts'
  BY DEF IInv, Attempts, OthersKept
<1>4. \A v \in Workers : /\ v # w => worker'[v] = worker[v]
                         /\ v = w => worker'[v] = me
  BY IInvTypes
<1>5. \A d \in Commands : Unaided(d)' <=> Unaided(d)
  BY DEF Unaided, OthersKept
<1>6. \A v \in Workers : Handling(v)' => /\ Handling(v)
                                         /\ worker'[v].row = worker[v].row
                                         /\ CommandOf(v)' = CommandOf(v)
                                         /\ CommandOf(v) \in Commands
  <2> SUFFICES ASSUME NEW v \in Workers, Handling(v)'
               PROVE  Handling(v) /\ worker'[v].row = worker[v].row
    BY Zenon, HandlerFacts DEF CommandOf, Handling, At
  <2>1. CASE v = w
    BY <1>4, <2>1 DEF Handling
  <2>2. CASE v # w
    BY <1>4, <2>2 DEF Handling
  <2> QED
    BY Zenon, <2>1, <2>2
<1>7. OneHandler'
  BY <1>5, <1>6 DEF IInv, OneHandler, Withheld
<1>8. \A i \in 1..Len(outbox) : outbox[i].cmd = c /\ Unaided(c) => Withheld(outbox[i])
  <2>1. CASE Unaided(c)
    <3>1. Withheld(outbox[worker[w].row]) /\ outbox[worker[w].row].cmd = c
      BY Zenon, <2>1 DEF IInv, OneHandler, CommandOf
    <3>2. worker[w].row \in 1..Len(outbox)
      BY HandlerFacts DEF Handling, At
    <3> QED
      BY Zenon, <2>1, <3>1, <3>2 DEF IInv, OneRow, Unaided
  <2> QED
    BY <2>1
<1>9. OnlyNewestInDoubt'
  <2> SUFFICES ASSUME NEW d \in Commands, Unaided(d)
               PROVE  /\ Doubt(cmd'[d], requests'[d])
                      /\ \A i \in 1..Len(outbox) :
                            outbox[i].cmd = d /\ ~Withheld(outbox[i]) => Refused(requests'[d])
    BY <1>5 DEF OnlyNewestInDoubt, Doubt, Refused, Withheld
  <2>1. CASE d = c
    BY <1>8, <2>1
  <2>2. CASE d # c
    BY <2>2 DEF IInv, OnlyNewestInDoubt, OthersKept
  <2> QED
    BY <2>1, <2>2
<1>10. HandlerKnows'
  <2> SUFFICES ASSUME NEW v \in Workers
               PROVE  /\ Local(worker'[v])
                      /\ Handling(v)' /\ Unaided(CommandOf(v)) =>
                           Knows(worker'[v], cmd'[CommandOf(v)], requests'[CommandOf(v)])
    BY <1>5, <1>6 DEF HandlerKnows, Local, Knows, Refused
  <2>1. CASE v = w
    BY <1>4, <1>6, <2>1 DEF Handling
  <2>2. CASE v # w
    <3>1. Local(worker'[v])
      BY <1>4, <2>2 DEF IInv, HandlerKnows
    <3>2. ASSUME Handling(v)', Unaided(CommandOf(v))
          PROVE  Knows(worker'[v], cmd'[CommandOf(v)], requests'[CommandOf(v)])
      <4>1. Handling(v) /\ CommandOf(v) \in Commands
        BY <1>6, <3>2
      <4>2. CommandOf(v) # c
        BY <2>2, <3>2, <4>1 DEF IInv, OneHandler
      <4> QED
        BY <1>4, <2>2, <3>2, <4>1, <4>2 DEF IInv, HandlerKnows, OthersKept
    <3> QED
      BY <3>1, <3>2
  <2> QED
    BY <2>1, <2>2
<1> QED
  BY <1>1, <1>2, <1>3, <1>7, <1>9, <1>10 DEF IInv, TInv

(* A handler step that reads, but writes nothing shared.                   *)
LEMMA HandlerLocal ==
    ASSUME IInv, NEW w \in Workers, Handling(w), TInv',
           UNCHANGED <<cmd, outbox, recon, requests>>,
           NEW me \in WorkerState, worker' = [worker EXCEPT ![w] = me],
           me.pc = "idle" \/ (me.pc # "claimed" /\ me.row = worker[w].row),
           Local(me),
           Unaided(CommandOf(w)) /\ me.pc # "idle" =>
               Knows(me, cmd[CommandOf(w)], requests[CommandOf(w)])
    PROVE  IInv'
<1> DEFINE c == CommandOf(w)
<1>1. /\ c \in Commands /\ cmd[c].state # "absent"
      /\ Len(requests[c]) = cmd[c].attempts
  BY HandlerFacts DEF Handling, At
<1>2. cmd[c].state = "persisted" => cmd[c].attempts = 0
  BY <1>1 DEF IInv, Attempts
<1>3. Unaided(c) => Doubt(cmd[c], requests[c])
  BY <1>1 DEF IInv, OnlyNewestInDoubt
<1>4. OthersKept(c)
  BY DEF OthersKept
<1> HIDE DEF c
<1>5. /\ cmd'[c].retries = cmd[c].retries
      /\ cmd'[c].state # "absent"
      /\ Len(requests'[c]) = cmd'[c].attempts
      /\ cmd'[c].state = "persisted" => cmd'[c].attempts = 0
      /\ Unaided(c) => /\ Doubt(cmd'[c], requests'[c])
                       /\ me.pc # "idle" => Knows(me, cmd'[c], requests'[c])
  BY <1>1, <1>2, <1>3 DEF c
<1>6. c = CommandOf(w)
  BY DEF c
<1> QED
  BY Zenon, <1>1, <1>4, <1>5, <1>6, HandlerFrame

(* A ledger transition of a handler, other than the one that opens an      *)
(* attempt.                                                                *)
LEMMA HandlerLedger ==
    ASSUME IInv, NEW w \in Workers, Handling(w), TInv',
           NEW new \in CommandState \ {"absent", "persisted", "dispatching"}, NEW fence,
           NEW next \in WorkerState, Ledger(w, new, fence, next),
           next.pc = "idle" \/ (next.pc # "claimed" /\ next.row = worker[w].row),
           Local(next),
           Unaided(CommandOf(w)) =>
               /\ new \in {"queued", "cancelled"} => Refused(requests[CommandOf(w)])
               /\ next.pc # "idle" => Knows(next, cmd[CommandOf(w)], requests[CommandOf(w)])
    PROVE  IInv'
<1> DEFINE c == CommandOf(w)
<1>1. /\ c \in Commands /\ cmd[c] \in CommandRow
      /\ Len(requests[c]) = cmd[c].attempts
  BY HandlerFacts DEF Handling, At
<1>2. CASE Transition(c, new, fence) /\ worker' = [worker EXCEPT ![w] = next]
  <2>1. cmd' = [cmd EXCEPT ![c] = [cmd[c] EXCEPT !.state = new]]
    BY Zenon, <1>1, <1>2, IInvTypes DEF Transition, CommandRow
  <2>2. /\ cmd'[c].retries = cmd[c].retries
        /\ cmd'[c].attempts = cmd[c].attempts
        /\ cmd'[c].state = new
        /\ \A d \in Commands : d # c => cmd'[d] = cmd[d]
    BY <1>1, <2>1, IInvTypes DEF CommandRow
  <2>3. requests' = requests /\ outbox' = outbox /\ recon' = recon
    BY DEF Ledger, outboxVars
  <2>4. OthersKept(c)
    BY <2>2, <2>3 DEF OthersKept
  <2>5. Unaided(c) => /\ Doubt(cmd'[c], requests'[c])
                      /\ next.pc # "idle" => Knows(next, cmd'[c], requests'[c])
    BY <1>1, <2>2, <2>3 DEF IInv, OnlyNewestInDoubt, Doubt, Knows
  <2>6. c = CommandOf(w) /\ new # "absent" /\ new # "persisted"
    OBVIOUS
  <2> HIDE DEF c
  <2> QED
    BY Zenon, <1>1, <1>2, <2>2, <2>3, <2>4, <2>5, <2>6, HandlerFrame
<1>3. CASE UNCHANGED ledgerVars /\ Leave(w)
  <2>1. /\ UNCHANGED <<cmd, outbox, recon, requests>>
        /\ worker' = [worker EXCEPT ![w] = IdleWorker]
    BY <1>3 DEF Ledger, outboxVars, ledgerVars, Leave
  <2>2. IdleWorker \in WorkerState /\ IdleWorker.pc = "idle"
    BY Zenon, IInvTypes, WorkerAt DEF IdleWorker
  <2>3. Local(IdleWorker)
    BY DEF Local, IdleWorker
  <2> QED
    BY Zenon, <2>1, <2>2, <2>3, HandlerLocal
<1> QED
  BY <1>2, <1>3 DEF Ledger

(* What IInv says of one handler, in the form the steps below use.         *)
LEMMA HandlerState ==
    ASSUME IInv, NEW w \in Workers, Handling(w)
    PROVE  /\ ~At(w, "idle")
           /\ worker[w] \in WorkerState
           /\ worker \in [Workers -> WorkerState]
           /\ IdleWorker \in WorkerState /\ IdleWorker.pc = "idle" /\ Local(IdleWorker)
           /\ Local(worker[w])
           /\ CommandOf(w) \in Commands
           /\ cmd[CommandOf(w)] \in CommandRow
           /\ requests[CommandOf(w)] \in Seq(RequestState)
           /\ Len(requests[CommandOf(w)]) = cmd[CommandOf(w)].attempts
           /\ cmd[CommandOf(w)].state = "persisted" => cmd[CommandOf(w)].attempts = 0
           /\ Unaided(CommandOf(w)) =>
                 /\ Knows(worker[w], cmd[CommandOf(w)], requests[CommandOf(w)])
                 /\ Doubt(cmd[CommandOf(w)], requests[CommandOf(w)])
<1>1. ~At(w, "idle")
  BY DEF Handling, At
<1>2. IdleWorker \in WorkerState /\ IdleWorker.pc = "idle" /\ Local(IdleWorker)
  BY Zenon, IInvTypes, WorkerAt DEF IdleWorker, Local
<1>3. /\ CommandOf(w) \in Commands
      /\ cmd[CommandOf(w)] \in CommandRow
      /\ requests[CommandOf(w)] \in Seq(RequestState)
      /\ Len(requests[CommandOf(w)]) = cmd[CommandOf(w)].attempts
  BY <1>1, HandlerFacts
<1>4. cmd[CommandOf(w)].state = "persisted" => cmd[CommandOf(w)].attempts = 0
  BY <1>3 DEF IInv, Attempts
<1>5. Local(worker[w]) /\ (Unaided(CommandOf(w)) =>
                 /\ Knows(worker[w], cmd[CommandOf(w)], requests[CommandOf(w)])
                 /\ Doubt(cmd[CommandOf(w)], requests[CommandOf(w)]))
  BY <1>3 DEF IInv, HandlerKnows, OnlyNewestInDoubt
<1> QED
  BY <1>1, <1>2, <1>3, <1>4, <1>5, IInvTypes

(* Going on to pc, or leaving dispatch with only the row left to settle.   *)
LEMMA ThenFinish ==
    ASSUME IInv, NEW w \in Workers, Handling(w), NEW pc \in WorkerPC \ {"idle", "claimed"}
    PROVE  /\ Then(w, pc) \in WorkerState /\ Then(w, pc).pc = pc
           /\ Then(w, pc).row = worker[w].row /\ Then(w, pc).own = worker[w].own
           /\ Then(w, pc).answer = worker[w].answer /\ Then(w, pc).seen = worker[w].seen
           /\ Finish(w, pc) \in WorkerState /\ Finish(w, pc).pc = pc
           /\ Finish(w, pc).row = worker[w].row /\ Finish(w, pc).own = 0
           /\ Finish(w, pc).answer = NoAnswer /\ Finish(w, pc).seen = "absent"
           /\ Goto(w, pc) => worker' = [worker EXCEPT ![w] = Then(w, pc)]
<1>1. worker[w] \in WorkerState /\ worker \in [Workers -> WorkerState]
  BY HandlerState
<1>2. /\ Then(w, pc) \in WorkerState /\ Then(w, pc).pc = pc
      /\ Then(w, pc).row = worker[w].row /\ Then(w, pc).own = worker[w].own
      /\ Then(w, pc).answer = worker[w].answer /\ Then(w, pc).seen = worker[w].seen
  BY <1>1 DEF Then, WorkerState
<1>3. Finish(w, pc) \in WorkerState
  BY HandlerState, IInvTypes, Moves
<1>4. /\ Finish(w, pc).pc = pc
      /\ Finish(w, pc).row = worker[w].row /\ Finish(w, pc).own = 0
      /\ Finish(w, pc).answer = NoAnswer /\ Finish(w, pc).seen = "absent"
  BY DEF Finish, IdleWorker
<1>5. Goto(w, pc) => worker' = [worker EXCEPT ![w] = Then(w, pc)]
  BY <1>1 DEF Goto, Then
<1> QED
  BY <1>2, <1>3, <1>4, <1>5

(* The points of dispatch at which no local variable is reset.             *)
Inside == {"failing", "failed", "accepted", "reading", "exhausting", "recording"}

(* Local and Knows speak of pc, own, seen and answer only.                 *)
LEMMA SameLocals ==
    ASSUME NEW me, NEW next, next.own = me.own, next.seen = me.seen, next.answer = me.answer,
           me.pc # "returning", next.pc \in Inside \cup {"requeueing"},
           next.pc = "requeueing" => me.answer = "TRANSIENT"
    PROVE  /\ Local(next)
           /\ \A row, q : Knows(me, row, q) => Knows(next, row, q)
<1>1. Local(next)
  BY DEF Inside, Local
<1>2. ASSUME NEW row, NEW q, Knows(me, row, q)
      PROVE  Knows(next, row, q)
  BY <1>2 DEF Inside, Knows
<1> QED
  BY <1>1, <1>2

(* A handler that goes on inside dispatch knows what it knew.              *)
LEMMA StaysInside ==
    ASSUME IInv, NEW w \in Workers, Handling(w), worker[w].pc # "returning",
           NEW pc \in Inside \cup {"requeueing"},
           pc = "requeueing" => worker[w].answer = "TRANSIENT"
    PROVE  /\ pc \in WorkerPC \ {"idle", "claimed"}
           /\ Local(Then(w, pc))
           /\ Unaided(CommandOf(w)) =>
                 Knows(Then(w, pc), cmd[CommandOf(w)], requests[CommandOf(w)])
<1> DEFINE next == Then(w, pc)
<1>1. pc \in WorkerPC \ {"idle", "claimed"}
  BY DEF WorkerPC, Inside
<1>2. /\ next.pc = pc /\ next.own = worker[w].own
      /\ next.answer = worker[w].answer /\ next.seen = worker[w].seen
  BY <1>1, ThenFinish
<1>3. Unaided(CommandOf(w)) => Knows(worker[w], cmd[CommandOf(w)], requests[CommandOf(w)])
  BY HandlerState
<1> HIDE DEF next
<1>4. Local(next) /\ \A row, q : Knows(worker[w], row, q) => Knows(next, row, q)
  BY <1>2, SameLocals
<1>5. Local(next) /\ (Unaided(CommandOf(w)) => Knows(next, cmd[CommandOf(w)], requests[CommandOf(w)]))
  BY <1>3, <1>4
<1> QED
  BY <1>1, <1>5 DEF next

(* A handler that leaves dispatch keeps nothing but its row.               *)
LEMMA Leaves ==
    ASSUME IInv, NEW w \in Workers, Handling(w), NEW pc \in {"returning", "retrying"}
    PROVE  /\ pc \in WorkerPC \ {"idle", "claimed"}
           /\ Local(Finish(w, pc))
           /\ \A row, q : pc = "returning" \/ Refused(q) => Knows(Finish(w, pc), row, q)
<1> DEFINE me == Finish(w, pc)
<1>1. pc \in WorkerPC \ {"idle", "claimed"}
  BY DEF WorkerPC
<1>2. me.pc = pc /\ me.own = 0 /\ me.answer = NoAnswer /\ me.seen = "absent"
  BY <1>1, ThenFinish
<1> HIDE DEF me
<1>3. Local(me)
  BY <1>2 DEF Local
<1>4. ASSUME NEW row, NEW q, pc = "returning" \/ Refused(q)
      PROVE  Knows(me, row, q)
  BY <1>2, <1>4 DEF Knows, NoAnswer
<1>5. Local(me) /\ \A row, q : pc = "returning" \/ Refused(q) => Knows(me, row, q)
  BY <1>3, <1>4
<1> QED
  BY <1>1, <1>5 DEF me

(* The steps of dispatch that only read.                                   *)
LEMMA ReadingSteps ==
    ASSUME IInv, "gateway" \notin Faults, NEW w \in Workers, Handling(w), TInv',
           \/ Dispatch(w) \/ LatestAttempt(w) \/ Answer(w) \/ Recover(w) \/ Readback(w)
           \/ ReadForFail(w)
    PROVE  IInv'
<1> DEFINE c == CommandOf(w)
<1>1. UNCHANGED <<cmd, outbox, recon, requests>>
  BY DEF Dispatch, LatestAttempt, Answer, Recover, Readback, ReadForFail, ledgerVars, outboxVars
<1>2. ASSUME NEW me \in WorkerState, worker' = [worker EXCEPT ![w] = me],
             me.pc \notin {"idle", "claimed"}, me.row = worker[w].row, Local(me),
             Unaided(c) => Knows(me, cmd[c], requests[c])
      PROVE  IInv'
  BY Zenon, <1>1, <1>2, HandlerLocal
<1>3. CASE Dispatch(w)
  <2>1. At(w, "handling") /\ worker[w].own = 0 /\ worker[w].answer = NoAnswer
        /\ worker[w].seen = "absent"
    BY <1>3, HandlerState DEF Dispatch, At, Local
  <2>2. ASSUME NEW pc \in {"returning", "failing", "retrying"}, Goto(w, pc)
        PROVE  IInv'
    <3>1. pc \in WorkerPC \ {"idle", "claimed"}
      BY DEF WorkerPC
    <3>2. Local(Then(w, pc))
      BY Zenon, <2>1, <3>1, ThenFinish DEF Local
    <3>3. Unaided(c) => Knows(Then(w, pc), cmd[c], requests[c])
      BY Zenon, <2>1, <3>1, ThenFinish, HandlerState DEF Knows, At, NoAnswer
    <3> QED
      BY <1>2, <2>2, <3>1, <3>2, <3>3, ThenFinish
  <2>3. ASSUME NEW pc \in {"recovering", "opening"},
               worker' = [worker EXCEPT ![w].seen = cmd[c].state, ![w].pc = pc]
        PROVE  IInv'
    <3> DEFINE s == cmd[c].state
               me == [worker[w] EXCEPT !.seen = s, !.pc = pc]
    <3>1. s \in CommandState /\ worker[w] \in WorkerState
      BY HandlerState DEF CommandRow
    <3>2. worker' = [worker EXCEPT ![w] = me]
      BY Zenon, <2>3, HandlerState
    <3>3. Unaided(c) => Knows(worker[w], cmd[c], requests[c]) /\ (s = "persisted" => cmd[c].attempts = 0)
      BY HandlerState
    <3> HIDE DEF s
    <3>4. /\ me \in WorkerState /\ me.pc = pc /\ me.row = worker[w].row /\ me.seen = s
          /\ me.own = 0 /\ me.answer = NoAnswer
      BY Zenon, <2>1, <3>1 DEF WorkerState, WorkerPC
    <3> HIDE DEF me
    <3>5. Local(me)
      BY <3>4 DEF Local
    <3>6. Unaided(c) => Knows(me, cmd[c], requests[c])
      BY <2>1, <3>3, <3>4 DEF Knows, At, NoAnswer
    <3> QED
      BY Zenon, <1>2, <3>2, <3>4, <3>5, <3>6
  <2>4. \/ Goto(w, "returning") \/ Goto(w, "failing") \/ Goto(w, "retrying")
        \/ worker' = [worker EXCEPT ![w].seen = cmd[c].state, ![w].pc = "recovering"]
        \/ worker' = [worker EXCEPT ![w].seen = cmd[c].state, ![w].pc = "opening"]
    BY <1>3 DEF Dispatch
  <2> QED
    BY <2>2, <2>3, <2>4
<1>4. CASE LatestAttempt(w)
  <2> DEFINE f == {cmd[c].attempts}
             me == [worker[w] EXCEPT !.pc = "executing", !.fence = f]
  <2>1. f \in SUBSET Nat /\ worker[w] \in WorkerState
    BY HandlerState DEF CommandRow
  <2>2. worker' = [worker EXCEPT ![w] = me] /\ worker[w].own # 0 /\ worker[w].pc = "opened"
    BY Zenon, <1>4, HandlerState DEF LatestAttempt, At, Local
  <2> HIDE DEF f
  <2>3. /\ me \in WorkerState /\ me.pc = "executing" /\ me.row = worker[w].row
        /\ me.seen = worker[w].seen /\ me.own = worker[w].own /\ me.answer = worker[w].answer
    BY Zenon, <2>1 DEF WorkerState, WorkerPC
  <2> HIDE DEF me
  <2>4. Local(me) /\ (Unaided(c) => Knows(me, cmd[c], requests[c]))
    BY ZenonT(40), <2>2, <2>3, HandlerState DEF Local, Knows
  <2> QED
    BY Zenon, <1>2, <2>2, <2>3, <2>4
<1>5. CASE Answer(w)
  <2>1. PICK o \in PossibleOutcome(requests[c][worker[w].own]) :
           worker' = [worker EXCEPT ![w].pc = "finalizing", ![w].answer = o]
    BY Zenon, <1>5 DEF Answer
  <2>2. o \in Outcome /\ (o = "TRANSIENT" => requests[c][worker[w].own] = "refused")
    BY DEF PossibleOutcome, Outcome
  <2> DEFINE me == [worker[w] EXCEPT !.pc = "finalizing", !.answer = o]
  <2>3. /\ me \in WorkerState /\ me.pc = "finalizing" /\ me.row = worker[w].row
        /\ me.seen = worker[w].seen /\ me.own = worker[w].own /\ me.answer = o
        /\ worker' = [worker EXCEPT ![w] = me]
    BY ZenonT(40), <2>1, <2>2, HandlerState DEF WorkerState, WorkerPC
  <2> HIDE DEF me
  <2>4. Local(me)
    BY <2>3 DEF Local
  <2>5. worker[w].own # 0 /\ worker[w].pc = "sent"
    BY <1>5, HandlerState DEF Answer, At, Local
  <2>6. ASSUME Unaided(c)
        PROVE  Knows(me, cmd[c], requests[c])
    <3>1. /\ Knows(worker[w], cmd[c], requests[c])
          /\ Doubt(cmd[c], requests[c])
          /\ Len(requests[c]) = cmd[c].attempts /\ Len(requests[c]) \in Nat
      BY <2>6, HandlerState
    <3>2. o = "TRANSIENT" => Refused(requests[c])
      BY <2>2, <2>5, <3>1 DEF Knows, Doubt, Refused
    <3> QED
      BY <2>3, <2>5, <3>1, <3>2 DEF Knows
  <2> QED
    BY Zenon, <1>2, <2>3, <2>4, <2>6
<1>6. CASE Readback(w)
  <2>1. PICK v \in PossibleReadback(c) :
           worker' = [worker EXCEPT ![w].pc = "judging", ![w].answer = v]
    BY Zenon, <1>6 DEF Readback
  <2>2. v \in ReadbackStatus /\ v # "TRANSIENT"
    BY DEF PossibleReadback, ReadbackStatus
  <2> DEFINE me == [worker[w] EXCEPT !.pc = "judging", !.answer = v]
  <2>3. /\ me \in WorkerState /\ me.pc = "judging" /\ me.row = worker[w].row
        /\ me.seen = worker[w].seen /\ me.own = worker[w].own /\ me.answer = v
        /\ worker' = [worker EXCEPT ![w] = me]
    BY ZenonT(40), <2>1, <2>2, HandlerState DEF WorkerState, WorkerPC
  <2> HIDE DEF me
  <2>4. worker[w].pc = "reading"
    BY <1>6 DEF Readback, At
  <2>5. Local(me) /\ (Unaided(c) => Knows(me, cmd[c], requests[c]))
    BY Zenon, <2>2, <2>3, <2>4, HandlerState DEF Local, Knows
  <2> QED
    BY Zenon, <1>2, <2>3, <2>5
<1>7. CASE Recover(w)
  <2> DEFINE f == {cmd[c].attempts}
             pc == IF worker[w].seen = "dispatching" THEN "recovered" ELSE "accepted"
             me == [worker[w] EXCEPT !.pc = pc, !.fence = f, !.seen = "absent"]
  <2>1. f \in SUBSET Nat /\ pc \in {"recovered", "accepted"} /\ worker[w] \in WorkerState
    BY HandlerState DEF CommandRow
  <2>2. worker' = [worker EXCEPT ![w] = me] /\ worker[w].pc = "recovering"
        /\ worker[w].own = 0 /\ worker[w].answer = NoAnswer
    BY Zenon, <1>7, HandlerState DEF Recover, At, Local
  <2> HIDE DEF f, pc
  <2>3. /\ me \in WorkerState /\ me.pc = pc /\ me.row = worker[w].row
        /\ me.seen = "absent" /\ me.own = worker[w].own /\ me.answer = worker[w].answer
    BY ZenonT(40), <2>1 DEF WorkerState, WorkerPC, CommandState
  <2> HIDE DEF me
  <2>4. Local(me) /\ (Unaided(c) => Knows(me, cmd[c], requests[c]))
    BY Zenon, <2>1, <2>2, <2>3, HandlerState DEF Local, Knows
  <2> QED
    BY ZenonT(40), <1>2, <2>1, <2>2, <2>3, <2>4
<1>8. CASE ReadForFail(w)
  <2>1. worker[w].pc = "failing"
    BY ZenonT(40), <1>8 DEF ReadForFail, At
  <2>2. ASSUME Goto(w, "failed")
        PROVE  IInv'
    <3>1. /\ "failed" \in WorkerPC \ {"idle", "claimed"}
          /\ Local(Then(w, "failed"))
          /\ Unaided(c) => Knows(Then(w, "failed"), cmd[c], requests[c])
      BY <2>1, StaysInside DEF Inside
    <3> QED
      BY <1>2, <2>2, <3>1, ThenFinish
  <2>3. ASSUME worker' = [worker EXCEPT ![w] = Finish(w, "retrying")], worker[w].answer = "TRANSIENT"
        PROVE  IInv'
    <3>1. Unaided(c) => Refused(requests[c])
      BY ZenonT(40), <2>3, HandlerState DEF Knows
    <3>2. /\ "retrying" \in WorkerPC \ {"idle", "claimed"}
          /\ Local(Finish(w, "retrying"))
          /\ Unaided(c) => Knows(Finish(w, "retrying"), cmd[c], requests[c])
      BY ZenonT(40), <3>1, Leaves
    <3> QED
      BY ZenonT(40), <1>2, <2>3, <3>2, ThenFinish
  <2>4. ASSUME worker' = [worker EXCEPT ![w] = [worker[w] EXCEPT !.pc = "refusing", !.seen = cmd[c].state]]
        PROVE  IInv'
    <3> DEFINE s == cmd[c].state
               me == [worker[w] EXCEPT !.pc = "refusing", !.seen = s]
    <3>1. s \in CommandState /\ worker[w] \in WorkerState
      BY HandlerState DEF CommandRow
    <3>2. worker' = [worker EXCEPT ![w] = me]
      BY <2>4
    <3>3. Unaided(c) => Knows(worker[w], cmd[c], requests[c]) /\ (s = "persisted" => cmd[c].attempts = 0)
      BY HandlerState
    <3> HIDE DEF s
    <3>4. /\ me \in WorkerState /\ me.pc = "refusing" /\ me.row = worker[w].row /\ me.seen = s
          /\ me.own = worker[w].own /\ me.answer = worker[w].answer
      BY ZenonT(40), <3>1 DEF WorkerState, WorkerPC
    <3> HIDE DEF me
    <3>5. Local(me)
      BY <3>4 DEF Local
    <3>6. Unaided(c) => Knows(me, cmd[c], requests[c])
      BY <2>1, <3>3, <3>4 DEF Knows
    <3> QED
      BY ZenonT(40), <1>2, <3>2, <3>4, <3>5, <3>6
  <2> QED
    BY <1>8, <2>2, <2>3, <2>4 DEF ReadForFail
<1> QED
  BY <1>3, <1>4, <1>5, <1>6, <1>7, <1>8

(* The steps of dispatch that move the command.                            *)
LEMMA MovingSteps ==
    ASSUME IInv, NEW w \in Workers, Handling(w), TInv',
           \/ Enqueue(w) \/ Finalize(w) \/ RecoverAccept(w) \/ ReadbackPending(w) \/ Judge(w)
           \/ Refuse(w) \/ FailAttempt(w) \/ Requeue(w) \/ ExhaustRetries(w)
    PROVE  IInv'
<1> DEFINE c == CommandOf(w)
<1>1. ASSUME NEW pc \in Inside, worker[w].pc # "returning"
      PROVE  /\ pc \in WorkerPC \ {"idle", "claimed"}
             /\ Local(Then(w, pc))
             /\ Unaided(c) => Knows(Then(w, pc), cmd[c], requests[c])
  BY <1>1, StaysInside DEF Inside
<1>2. ASSUME NEW new \in {"accepted", "failed", "reconciliation_required", "readback_pending",
                          "dead_lettered"}, NEW fence, NEW pc \in Inside,
             worker[w].pc # "returning", Ledger(w, new, fence, Then(w, pc))
      PROVE  IInv'
  <2>1. new \in CommandState \ {"absent", "persisted", "dispatching"} /\ new \notin {"queued", "cancelled"}
    BY DEF CommandState
  <2> QED
    BY ZenonT(40), <1>1, <1>2, <2>1, ThenFinish, HandlerLedger
<1>3. ASSUME NEW fence, Ledger(w, "reconciliation_required", fence, IdleWorker)
      PROVE  IInv'
  BY ZenonT(40), <1>3, HandlerState, HandlerLedger DEF CommandState
<1>4. ASSUME NEW new \in {"completed", "failed"}, NEW fence,
             Ledger(w, new, fence, Finish(w, "returning"))
      PROVE  IInv'
  <2>1. new \in CommandState \ {"absent", "persisted", "dispatching"} /\ new \notin {"queued", "cancelled"}
    BY DEF CommandState
  <2>2. /\ "returning" \in WorkerPC \ {"idle", "claimed"}
        /\ Local(Finish(w, "returning")) /\ Knows(Finish(w, "returning"), cmd[c], requests[c])
    BY Leaves
  <2> QED
    BY ZenonT(40), <1>4, <2>1, <2>2, ThenFinish, HandlerLedger
<1>5. ASSUME worker[w].pc \in {"opening", "refusing"}, worker[w].seen = "persisted",
             Ledger(w, "queued", Unfenced, [worker[w] EXCEPT !.seen = "queued"])
      PROVE  IInv'
  <2> DEFINE me == [worker[w] EXCEPT !.seen = "queued"]
  <2>1. /\ me \in WorkerState /\ me.pc = worker[w].pc /\ me.row = worker[w].row
        /\ me.seen = "queued" /\ me.own = worker[w].own /\ me.answer = worker[w].answer
    BY Zenon, HandlerState DEF WorkerState, CommandState
  <2>2. Ledger(w, "queued", Unfenced, me)
    BY <1>5
  <2> HIDE DEF me
  <2>3. Local(me)
    BY <1>5, <2>1, HandlerState DEF Local
  <2>4. Unaided(c) => Knows(me, cmd[c], requests[c])
    BY Zenon, <1>5, <2>1, HandlerState DEF Knows
  <2>5. Unaided(c) => Refused(requests[c])
    <3>1. Unaided(c) => cmd[c].attempts = 0
      BY <1>5, HandlerState DEF Knows
    <3> QED
      BY <3>1, HandlerState DEF Refused
  <2>6. "queued" \in CommandState \ {"absent", "persisted", "dispatching"}
    BY DEF CommandState
  <2>7. me.pc # "claimed"
    BY <1>5, <2>1
  <2> QED
    BY Zenon, <2>1, <2>2, <2>3, <2>4, <2>5, <2>6, <2>7, HandlerLedger
<1>6. CASE Enqueue(w)
  <2>1. /\ worker[w].pc = "opening" /\ worker[w].seen = "persisted"
        /\ Ledger(w, "queued", Unfenced, [worker[w] EXCEPT !.seen = "queued"])
    BY <1>6 DEF Enqueue, At
  <2> QED
    BY <1>5, <2>1
<1>7. CASE Finalize(w)
  <2>1. worker[w].pc # "returning"
    BY ONLY <1>7 DEF Finalize, At
  <2>2. ASSUME Goto(w, "failing"), UNCHANGED <<ledgerVars, outboxVars, recon, requests>>
        PROVE  IInv'
    <3>1. UNCHANGED <<cmd, outbox, recon, requests>>
      BY <2>2 DEF ledgerVars, outboxVars
    <3>2. /\ "failing" \in WorkerPC \ {"idle", "claimed"}
          /\ Local(Then(w, "failing"))
          /\ Unaided(c) => Knows(Then(w, "failing"), cmd[c], requests[c])
      BY <1>1, <2>1 DEF Inside
    <3>3. /\ Then(w, "failing") \in WorkerState /\ worker' = [worker EXCEPT ![w] = Then(w, "failing")]
          /\ Then(w, "failing").pc = "failing" /\ Then(w, "failing").row = worker[w].row
      BY <2>2, <3>2, ThenFinish
    <3> QED
      BY Zenon, <3>1, <3>2, <3>3, HandlerLocal
  <2>3. \/ Ledger(w, "accepted", worker[w].fence, Then(w, "accepted"))
        \/ Goto(w, "failing") /\ UNCHANGED <<ledgerVars, outboxVars, recon, requests>>
        \/ Ledger(w, "failed", worker[w].fence, Then(w, "exhausting"))
        \/ Ledger(w, "reconciliation_required", worker[w].fence, IdleWorker)
    BY <1>7 DEF Finalize
  <2> QED
    BY <1>2, <1>3, <2>1, <2>2, <2>3 DEF Inside
<1>8. CASE RecoverAccept(w)
  <2>1. worker[w].pc # "returning" /\ Ledger(w, "accepted", worker[w].fence, Then(w, "accepted"))
    BY <1>8 DEF RecoverAccept, At
  <2> QED
    BY <1>2, <2>1 DEF Inside
<1>9. CASE ReadbackPending(w)
  <2>1. worker[w].pc # "returning"
        /\ Ledger(w, "readback_pending", worker[w].fence, Then(w, "reading"))
    BY <1>9 DEF ReadbackPending, At
  <2> QED
    BY <1>2, <2>1 DEF Inside
<1>10. CASE Judge(w)
  BY <1>3, <1>4, <1>10 DEF Judge
<1>11. CASE Refuse(w)
  <2>1. /\ worker[w].pc = "refusing"
        /\ \/ /\ worker[w].seen = "persisted"
              /\ Ledger(w, "queued", Unfenced, [worker[w] EXCEPT !.seen = "queued"])
           \/ Ledger(w, "dead_lettered", Unfenced, Then(w, "recording"))
    BY <1>11 DEF Refuse, At
  <2> QED
    BY <1>2, <1>5, <2>1 DEF Inside
<1>12. CASE FailAttempt(w)
  <2>1. worker[w].pc = "failed"
    BY <1>12 DEF FailAttempt, At
  <2>2. CASE worker[w].answer # "TRANSIENT"
    <3>1. Ledger(w, "failed", worker[w].fence, Then(w, "recording"))
      BY Zenon, <1>12, <2>2 DEF FailAttempt
    <3> QED
      BY <1>2, <2>1, <3>1 DEF Inside
  <2>3. CASE worker[w].answer = "TRANSIENT"
    <3>1. Ledger(w, "failed", worker[w].fence, Then(w, "requeueing"))
      BY Zenon, <1>12, <2>3 DEF FailAttempt
    <3>2. "failed" \in CommandState \ {"absent", "persisted", "dispatching"}
      BY DEF CommandState
    <3>3. /\ "requeueing" \in WorkerPC \ {"idle", "claimed"}
          /\ Local(Then(w, "requeueing"))
          /\ Unaided(c) => Knows(Then(w, "requeueing"), cmd[c], requests[c])
      BY <2>1, <2>3, StaysInside
    <3> QED
      BY ZenonT(40), <3>1, <3>2, <3>3, ThenFinish, HandlerLedger
  <2> QED
    BY <2>2, <2>3
<1>13. CASE Requeue(w)
  <2>1. worker[w].answer = "TRANSIENT" /\ Ledger(w, "queued", Unfenced, Finish(w, "retrying"))
    BY Zenon, <1>13, HandlerState DEF Requeue, At, Local
  <2>2. "queued" \in CommandState \ {"absent", "persisted", "dispatching"}
    BY DEF CommandState
  <2>3. Unaided(c) => Refused(requests[c])
    BY ZenonT(40), <2>1, HandlerState DEF Knows
  <2>4. /\ "retrying" \in WorkerPC \ {"idle", "claimed"}
        /\ Local(Finish(w, "retrying"))
        /\ Unaided(c) => Knows(Finish(w, "retrying"), cmd[c], requests[c])
    BY <2>3, Leaves
  <2> QED
    BY ZenonT(40), <2>1, <2>2, <2>3, <2>4, ThenFinish, HandlerLedger
<1>14. CASE ExhaustRetries(w)
  <2>1. worker[w].pc # "returning" /\ Ledger(w, "dead_lettered", Unfenced, Then(w, "recording"))
    BY <1>14 DEF ExhaustRetries, At
  <2> QED
    BY <1>2, <2>1 DEF Inside
<1> QED
  BY <1>6, <1>7, <1>8, <1>9, <1>10, <1>11, <1>12, <1>13, <1>14

(* The dead-letter record changes neither the command nor the provider.    *)
LEMMA RecordStep ==
    ASSUME IInv, NEW w \in Workers, Handling(w), TInv', WorkerRecord(w)
    PROVE  IInv'
<1> DEFINE c == CommandOf(w)
<1>1. UNCHANGED <<cmd, outbox, recon, requests>>
  BY DEF WorkerRecord, RecordDeadLetter, outboxVars
<1>2. \/ worker[w].answer = "TRANSIENT" /\ worker' = [worker EXCEPT ![w] = Finish(w, "retrying")]
      \/ worker' = [worker EXCEPT ![w] = Finish(w, "returning")]
  BY ZenonT(40) DEF WorkerRecord
<1>3. \A pc \in {"retrying", "returning"} : pc \in WorkerPC \ {"idle", "claimed"} /\ Local(Finish(w, pc))
  BY ThenFinish DEF Local, WorkerPC
<1>4. Unaided(c) => Knows(Finish(w, "returning"), cmd[c], requests[c])
  BY <1>3, ThenFinish DEF Knows, NoAnswer
<1>5. Unaided(c) /\ worker[w].answer = "TRANSIENT" => Knows(Finish(w, "retrying"), cmd[c], requests[c])
  BY ZenonT(40), <1>3, ThenFinish, HandlerState DEF Knows, NoAnswer
<1>6. ASSUME NEW pc \in {"retrying", "returning"},
             worker' = [worker EXCEPT ![w] = Finish(w, pc)],
             Unaided(c) => Knows(Finish(w, pc), cmd[c], requests[c])
      PROVE  IInv'
  <2>1. /\ Finish(w, pc) \in WorkerState /\ Finish(w, pc).pc = pc
        /\ Finish(w, pc).row = worker[w].row /\ Local(Finish(w, pc))
    BY <1>3, ThenFinish
  <2> QED
    BY Zenon, <1>1, <1>6, <2>1, HandlerLocal
<1> QED
  BY <1>2, <1>4, <1>5, <1>6

(* Opening the attempt, and sending its request.                           *)
LEMMA OpenStep ==
    ASSUME IInv, NEW w \in Workers, Handling(w), TInv', OpenAttempt(w)
    PROVE  IInv'
<1> DEFINE c == CommandOf(w)
<1>0. outbox' = outbox /\ recon' = recon /\ worker[w].pc = "opening"
  BY Zenon DEF OpenAttempt, outboxVars, At
<1>1. CASE UNCHANGED <<ledgerVars, requests>> /\ Leave(w)
  <2>1. UNCHANGED <<cmd, outbox, recon, requests>> /\ worker' = [worker EXCEPT ![w] = IdleWorker]
    BY Zenon, <1>0, <1>1 DEF ledgerVars, Leave
  <2> QED
    BY Zenon, <2>1, HandlerState, HandlerLocal
<1>2. CASE /\ Transition(c, "dispatching", Unfenced)
           /\ requests' = [requests EXCEPT ![c] = Append(@, "open")]
           /\ worker' = [worker EXCEPT ![w].pc = "opened", ![w].own = cmd[c].attempts + 1,
                                       ![w].seen = "absent"]
  <2> DEFINE n == cmd[c].attempts + 1
             q == Append(requests[c], "open")
             me == [worker[w] EXCEPT !.pc = "opened", !.own = n, !.seen = "absent"]
  <2>1. /\ c \in Commands /\ cmd[c].attempts \in Nat /\ n \in Nat \ {0}
        /\ requests[c] \in Seq(RequestState) /\ Len(requests[c]) = cmd[c].attempts
        /\ cmd \in [Commands -> CommandRow] /\ requests \in [Commands -> Seq(RequestState)]
    BY HandlerState, IInvTypes DEF CommandRow
  <2>2. cmd[c].state = "queued"
    BY <1>2, <2>1, IInvTypes DEF Transition, CanTransition, Allowed, CommandRow, CommandState
  <2>3. /\ cmd'[c].state = "dispatching" /\ cmd'[c].attempts = n
        /\ cmd'[c].retries = cmd[c].retries
        /\ \A d \in Commands : d # c => cmd'[d] = cmd[d]
    BY <1>2, <2>1 DEF Transition, CommandRow
  <2>4. requests'[c] = q /\ \A d \in Commands : d # c => requests'[d] = requests[d]
    BY ZenonT(40), <1>2, <2>1
  <2>5. Len(q) = n /\ q[n] = "open" /\ \A k \in 1..Len(q) : k < Len(q) => q[k] = requests[c][k] /\ k \in 1..Len(requests[c])
    BY <2>1
  <2>6. worker' = [worker EXCEPT ![w] = me] /\ worker[w].answer = NoAnswer
    BY Zenon, <1>0, <1>2, HandlerState DEF Local
  <2> HIDE DEF n, q
  <2>7. /\ me \in WorkerState /\ me.pc = "opened" /\ me.row = worker[w].row
        /\ me.seen = "absent" /\ me.own = n /\ me.answer = NoAnswer
    <3>1. n \in Nat /\ worker[w] \in WorkerState
      BY <2>1, HandlerState
    <3> QED
      BY Zenon, <2>6, <3>1 DEF WorkerState, WorkerPC, CommandState
  <2> HIDE DEF me
  <2>8. Local(me)
    BY Zenon, <2>1, <2>7 DEF Local
  <2>9. Unaided(c) => Refused(requests[c])
    BY Zenon, <2>2, HandlerState DEF Doubt
  <2>10. Unaided(c) => Doubt(cmd'[c], q)
    BY <2>3, <2>5, <2>9 DEF Doubt, Refused
  <2>11. Knows(me, cmd'[c], q)
    BY <2>1, <2>3, <2>5, <2>7 DEF Knows, NoAnswer
  <2>12. OthersKept(c)
    BY <2>3, <2>4 DEF OthersKept
  <2>13. c = CommandOf(w)
    BY Zenon
  <2> HIDE DEF c
  <2>14. /\ Len(requests'[c]) = cmd'[c].attempts /\ cmd'[c].state # "absent"
         /\ cmd'[c].state # "persisted" /\ requests'[c] = q
    BY ONLY <2>3, <2>4, <2>5
  <2> QED
    BY Zenon, <1>0, <2>1, <2>3, <2>6, <2>7, <2>8, <2>10, <2>11, <2>12, <2>13, <2>14, HandlerFrame
<1> QED
  BY <1>1, <1>2 DEF OpenAttempt

(* Adapter.execute transmits the request of the attempt its worker opened: *)
(* no other attempt of the command is in doubt then.                       *)
LEMMA SendStep ==
    ASSUME IInv, NEW w \in Workers, Handling(w), TInv', Send(w)
    PROVE  IInv'
<1> DEFINE c == CommandOf(w)
<1>0. outbox' = outbox /\ recon' = recon /\ cmd' = cmd /\ worker[w].pc = "executing"
  BY DEF Send, outboxVars, ledgerVars, At
<1>1. PICK s \in {"sent", "refused"} : requests' = [requests EXCEPT ![c][worker[w].own] = s]
  BY ZenonT(40) DEF Send
<1> DEFINE q == [requests[c] EXCEPT ![worker[w].own] = s]
<1>2. /\ c \in Commands /\ cmd[c] \in CommandRow
      /\ requests[c] \in Seq(RequestState) /\ requests \in [Commands -> Seq(RequestState)]
      /\ Len(requests[c]) = cmd[c].attempts
      /\ cmd[c].state = "persisted" => cmd[c].attempts = 0
      /\ cmd[c].state # "absent"
  BY Zenon, HandlerState, IInvTypes, HandlerFacts
<1>3. Len(q) = Len(requests[c]) /\ \A j \in 1..Len(requests[c]) : q[j] = IF j = worker[w].own THEN s ELSE requests[c][j]
  <2>1. s \in RequestState
    BY DEF RequestState
  <2> QED
    BY <1>2, <2>1, SeqExcept
<1>4. requests'[c] = q /\ \A d \in Commands : d # c => requests'[d] = requests[d]
  BY <1>1, <1>2
<1> HIDE DEF q
<1>5. "sent" \in WorkerPC \ {"idle", "claimed"}
  BY DEF WorkerPC
<1> DEFINE me == Then(w, "sent")
<1>6. /\ me \in WorkerState /\ me.pc = "sent" /\ me.row = worker[w].row
      /\ me.own = worker[w].own /\ me.answer = worker[w].answer /\ me.seen = worker[w].seen
      /\ worker' = [worker EXCEPT ![w] = me]
  BY ZenonT(40), <1>5, ThenFinish DEF Send
<1> HIDE DEF me
<1>7. worker[w].own # 0 /\ worker[w].own \in Nat
  BY <1>0, HandlerState DEF Local, WorkerState
<1>8. Local(me)
  BY ONLY <1>6, <1>7 DEF Local
<1>9. ASSUME Unaided(c)
      PROVE  Doubt(cmd[c], q) /\ Knows(me, cmd[c], q)
  <2>1. Knows(worker[w], cmd[c], requests[c]) /\ Doubt(cmd[c], requests[c])
    BY <1>9, HandlerState
  <2>2. worker[w].own = Len(requests[c]) /\ Len(requests[c]) \in Nat
    BY ONLY <1>2, <1>7, <2>1 DEF Knows
  <2>3. ~Refused(requests[c])
    BY ONLY SMTT(30), <1>0, <1>7, <2>1, <2>2 DEF Refused, Knows
  <2>4. \A k \in 1..Len(q) : k < Len(q) => q[k] = "refused"
    BY ONLY SMTT(30), <1>3, <2>1, <2>2 DEF Doubt
  <2> QED
    BY ONLY <1>6, <1>7, <2>1, <2>3, <2>4 DEF Knows, Doubt
<1>10. OthersKept(c)
  BY <1>0, <1>4 DEF OthersKept
<1>11. c = CommandOf(w)
  BY Zenon
<1> HIDE DEF c
<1>12. /\ Len(requests'[c]) = cmd'[c].attempts
       /\ cmd'[c].retries = cmd[c].retries /\ cmd'[c].state # "absent"
       /\ cmd'[c].state = "persisted" => cmd'[c].attempts = 0
       /\ Unaided(c) => Doubt(cmd'[c], requests'[c]) /\ Knows(me, cmd'[c], requests'[c])
  BY Zenon, <1>0, <1>2, <1>3, <1>4, <1>9
<1> QED
  BY ZenonT(40), <1>0, <1>2, <1>6, <1>8, <1>10, <1>11, <1>12, HandlerFrame

----------------------------------------------------------------------------
(* A step that starts no handler and opens no attempt: what it does to the *)
(* rows, to the states of the commands and to the workers.                 *)
LEMMA SharedFrame ==
    ASSUME IInv, TInv', requests' = requests,
           Len(outbox') = Len(outbox),
           \A i \in 1..Len(outbox) : outbox'[i].cmd = outbox[i].cmd,
           ClosedUnowned', RetryIsSafe',
           \A d \in Commands :
              /\ cmd'[d].retries = cmd[d].retries /\ cmd'[d].attempts = cmd[d].attempts
              /\ cmd'[d].state \in {"absent", "persisted"} => cmd[d].state = cmd'[d].state
              /\ Unaided(d) /\ cmd'[d].state \in {"queued", "cancelled"} => Refused(requests[d]),
           \A v \in Workers :
              /\ Local(worker'[v])
              /\ Handling(v)' => Handling(v) /\ worker'[v] = worker[v],
           \A i \in 1..Len(outbox) :
              Unaided(outbox[i].cmd) /\ ~Withheld(outbox'[i]) => Refused(requests[outbox[i].cmd]),
           \A v \in Workers :
              Handling(v)' /\ Unaided(CommandOf(v)) => Withheld(outbox'[worker[v].row])
    PROVE  IInv'
<1>1. OneRow'
  BY DEF IInv, OneRow
<1>2. Attempts'
  BY DEF IInv, Attempts
<1>3. \A d \in Commands : Unaided(d)' <=> Unaided(d)
  BY Zenon DEF Unaided
<1>4. \A v \in Workers : Handling(v)' => /\ Handling(v) /\ worker'[v] = worker[v]
                                         /\ CommandOf(v)' = CommandOf(v)
                                         /\ CommandOf(v) \in Commands
  BY ZenonT(40), HandlerFacts DEF CommandOf, Handling, At
<1>5. OneHandler'
  <2>1. \A w \in Workers : Handling(w)' /\ Unaided(CommandOf(w))' => Withheld(outbox'[worker'[w].row])
    BY Zenon, <1>3, <1>4
  <2>2. \A v, w \in Workers :
          /\ Handling(v)' /\ Handling(w)' /\ CommandOf(v)' = CommandOf(w)'
          /\ Unaided(CommandOf(w))'
          => v = w
    BY ZenonT(40), <1>3, <1>4 DEF IInv, OneHandler
  <2> QED
    BY <2>1, <2>2, OneHandlerNext
<1>6. OnlyNewestInDoubt'
  <2> SUFFICES ASSUME NEW d \in Commands, Unaided(d)
               PROVE  /\ Doubt(cmd'[d], requests[d])
                      /\ \A i \in 1..Len(outbox) :
                            outbox'[i].cmd = d /\ ~Withheld(outbox'[i]) => Refused(requests[d])
    BY ZenonT(40), <1>3 DEF OnlyNewestInDoubt, Doubt, Refused, Withheld
  <2>1. Doubt(cmd[d], requests[d])
    BY ZenonT(40) DEF IInv, OnlyNewestInDoubt
  <2>2. cmd'[d].state \in {"queued", "cancelled"} => Refused(requests[d])
    BY ZenonT(40)
  <2>3. Doubt(cmd'[d], requests[d])
    BY ONLY <2>1, <2>2 DEF Doubt
  <2>4. \A i \in 1..Len(outbox) :
           outbox'[i].cmd = d /\ ~Withheld(outbox'[i]) => Refused(requests[d])
    OBVIOUS
  <2> QED
    BY <2>3, <2>4
<1>7. HandlerKnows'
  <2>1. ASSUME NEW v \in Workers, Handling(v)', Unaided(CommandOf(v))'
        PROVE  Knows(worker'[v], cmd'[CommandOf(v)'], requests'[CommandOf(v)'])
    <3>1. /\ Handling(v) /\ worker'[v] = worker[v] /\ CommandOf(v)' = CommandOf(v)
          /\ CommandOf(v) \in Commands
      BY Zenon, <1>4, <2>1
    <3>2. Unaided(CommandOf(v))
      BY Zenon, <1>3, <2>1, <3>1
    <3>3. Knows(worker[v], cmd[CommandOf(v)], requests[CommandOf(v)])
      BY Zenon, <3>1, <3>2 DEF IInv, HandlerKnows
    <3>4. cmd'[CommandOf(v)].attempts = cmd[CommandOf(v)].attempts
      BY Zenon, <3>1
    <3>5. Knows(worker[v], cmd'[CommandOf(v)], requests[CommandOf(v)])
      BY ONLY <3>3, <3>4 DEF Knows
    <3> QED
      BY Zenon, <3>1, <3>5
  <2> QED
    BY Zenon, <2>1, KnowsNext
<1> QED
  BY ZenonT(40), <1>1, <1>2, <1>5, <1>6, <1>7 DEF IInv, TInv

(* Withheld rows stay withheld: the common case.                           *)
LEMMA WithheldFrame ==
    ASSUME IInv, TInv', requests' = requests,
           Len(outbox') = Len(outbox),
           \A i \in 1..Len(outbox) : /\ outbox'[i].cmd = outbox[i].cmd
                                     /\ Withheld(outbox[i]) => Withheld(outbox'[i]),
           ClosedUnowned', RetryIsSafe',
           \A d \in Commands :
              /\ cmd'[d].retries = cmd[d].retries /\ cmd'[d].attempts = cmd[d].attempts
              /\ cmd'[d].state \in {"absent", "persisted"} => cmd[d].state = cmd'[d].state
              /\ Unaided(d) /\ cmd'[d].state \in {"queued", "cancelled"} => Refused(requests[d]),
           \A v \in Workers :
              /\ Local(worker'[v])
              /\ Handling(v)' => Handling(v) /\ worker'[v] = worker[v]
    PROVE  IInv'
<1>1. \A i \in 1..Len(outbox) :
         Unaided(outbox[i].cmd) /\ ~Withheld(outbox'[i]) => Refused(requests[outbox[i].cmd])
  BY ZenonT(40), IInvTypes DEF IInv, OnlyNewestInDoubt
<1>2. \A v \in Workers :
         Handling(v)' /\ Unaided(CommandOf(v)) => Withheld(outbox'[worker[v].row])
  BY HandlerFacts DEF IInv, OneHandler, Handling, At
<1> QED
  BY Zenon, <1>1, <1>2, SharedFrame

(* The worker side of a step that leaves the workers alone, or in which    *)
(* one of them stops or has only claimed.                                  *)
LEMMA WorkersFrame ==
    ASSUME IInv, NEW w \in Workers, NEW me \in WorkerState,
           UNCHANGED worker \/ (/\ worker' = [worker EXCEPT ![w] = me]
                                /\ me.pc \in {"idle", "claimed"} /\ Local(me))
    PROVE  \A v \in Workers :
              /\ Local(worker'[v])
              /\ Handling(v)' => Handling(v) /\ worker'[v] = worker[v]
<1>1. CASE UNCHANGED worker
  BY <1>1 DEF IInv, HandlerKnows, Handling
<1>2. CASE worker' = [worker EXCEPT ![w] = me] /\ me.pc \in {"idle", "claimed"} /\ Local(me)
  <2>1. worker'[w] = me /\ \A v \in Workers : v # w => worker'[v] = worker[v]
    BY <1>2, IInvTypes
  <2> QED
    BY <1>2, <2>1 DEF IInv, HandlerKnows, Handling
<1> QED
  BY <1>1, <1>2

(* The ledger side of a step that leaves the ledger alone.                 *)
LEMMA LedgerFrame ==
    ASSUME IInv, cmd' = cmd
    PROVE  \A d \in Commands :
              /\ cmd'[d].retries = cmd[d].retries /\ cmd'[d].attempts = cmd[d].attempts
              /\ cmd'[d].state \in {"absent", "persisted"} => cmd[d].state = cmd'[d].state
              /\ Unaided(d) /\ cmd'[d].state \in {"queued", "cancelled"} => Refused(requests[d])
BY DEF IInv, OnlyNewestInDoubt, Doubt

(* The claim's sweep and lease, row by row.                                *)
LEMMA SweepClaimRows ==
    ASSUME IInv, NEW j \in 1..Len(outbox)
    PROVE  /\ Sweep(outbox[j]).cmd = outbox[j].cmd
           /\ Withheld(outbox[j]) => Withheld(Sweep(outbox[j]))
           /\ "completed" \in Sweep(outbox[j]).closed \/ "dead_lettered" \in Sweep(outbox[j]).closed =>
                 Sweep(outbox[j]).owner = Nobody
           /\ \A w : /\ Claimed(outbox[j], w).cmd = outbox[j].cmd
                     /\ Claimed(outbox[j], w).since = outbox[j].since
                     /\ Claimed(outbox[j], w).closed = outbox[j].closed
<1>1. /\ outbox[j] \in Row
      /\ "completed" \in outbox[j].closed \/ "dead_lettered" \in outbox[j].closed => outbox[j].owner = Nobody
  BY IInvTypes DEF IInv, ClosedUnowned
<1>2. /\ Sweep(outbox[j]).cmd = outbox[j].cmd
      /\ Withheld(outbox[j]) => Withheld(Sweep(outbox[j]))
      /\ "completed" \in Sweep(outbox[j]).closed \/ "dead_lettered" \in Sweep(outbox[j]).closed =>
                 Sweep(outbox[j]).owner = Nobody
  BY <1>1 DEF Sweep, Exhausted, Withheld, Row, OutboxRow
<1>3. \A w : /\ Claimed(outbox[j], w).cmd = outbox[j].cmd
             /\ Claimed(outbox[j], w).since = outbox[j].since
             /\ Claimed(outbox[j], w).closed = outbox[j].closed
  BY <1>1 DEF Claimed, Row, OutboxRow
<1> QED
  BY <1>2, <1>3

(* claim with its sweep: the rows it hands out or closes are not withheld, *)
(* so no handler is on them.                                               *)
LEMMA ClaimSteps ==
    ASSUME IInv, NEW w \in Workers, TInv', WorkerClaim(w) \/ WorkerClaimNothing(w)
    PROVE  IInv'
<1>0. cmd' = cmd /\ recon' = recon /\ requests' = requests
  BY Zenon DEF WorkerClaim, WorkerClaimNothing, ledgerVars
<1>1. RetryIsSafe'
  BY Zenon, <1>0 DEF IInv, RetryIsSafe, RAt
<1>2. CASE WorkerClaim(w)
  <2>1. PICK i \in RowIds :
           /\ Claim(w, i)
           /\ worker' = [worker EXCEPT ![w].pc = "claimed", ![w].row = i,
                                       ![w].token = outbox'[i].token]
    BY ZenonT(40), <1>2 DEF WorkerClaim
  <2> DEFINE n == outbox'[i].token
             me == [worker[w] EXCEPT !.pc = "claimed", !.row = i, !.token = n]
  <2>2. worker[w].own = 0 /\ worker[w].seen = "absent" /\ worker[w].answer = NoAnswer
    <3>1. worker[w] = IdleWorker
      BY Zenon, <1>2 DEF WorkerClaim, At, IInv, HandlerKnows, Local
    <3> QED
      BY ONLY <3>1 DEF IdleWorker
  <2>3. worker[w] \in WorkerState /\ i \in Nat /\ n \in Nat
    <3>1. worker[w] \in WorkerState /\ i \in 1..Len(outbox) /\ i \in Nat
      BY IInvTypes
    <3>2. outbox' \in Seq(Row) /\ DOMAIN outbox' = 1..Len(outbox)
      BY <2>1, IInvTypes, ClaimRows DEF TInv, RowsStep
    <3>3. outbox'[i] \in Row
      BY <3>1, <3>2
    <3> QED
      BY <3>1, <3>3 DEF Row, OutboxRow
  <2>11. worker' = [worker EXCEPT ![w] = me]
    BY Zenon, <2>1, IInvTypes
  <2> HIDE DEF n
  <2>4. /\ me \in WorkerState /\ me.pc = "claimed" /\ me.own = 0 /\ me.seen = "absent"
        /\ me.answer = NoAnswer
    BY Zenon, <2>2, <2>3 DEF WorkerState, WorkerPC
  <2> HIDE DEF me
  <2>5. Local(me)
    BY <2>4 DEF Local
  <2>6. outbox' = [j \in 1..Len(outbox) |-> IF j = i THEN Claimed(outbox[j], w) ELSE Sweep(outbox[j])]
        /\ outbox[i].closed = {}
    BY <2>1, IInvTypes DEF Claim, Claimable
  <2>7. Len(outbox') = Len(outbox)
    BY Zenon, <2>1, IInvTypes, ClaimRows DEF TInv, RowsStep
  <2>8. \A j \in 1..Len(outbox) : /\ outbox'[j].cmd = outbox[j].cmd
                                  /\ Withheld(outbox[j]) => Withheld(outbox'[j])
    BY Zenon, <2>6, SweepClaimRows DEF Withheld
  <2>9. ClosedUnowned'
    BY <2>6, <2>7, SweepClaimRows DEF ClosedUnowned
  <2>10. \A v \in Workers :
              /\ Local(worker'[v])
              /\ Handling(v)' => Handling(v) /\ worker'[v] = worker[v]
    BY ZenonT(40), <2>4, <2>5, <2>11, WorkersFrame
  <2> QED
    BY Zenon, <1>0, <1>1, <2>7, <2>8, <2>9, <2>10, LedgerFrame, WithheldFrame
<1>3. CASE WorkerClaimNothing(w)
  <2>1. outbox' = [j \in 1..Len(outbox) |-> Sweep(outbox[j])] /\ worker' = worker
    BY <1>3, IInvTypes DEF WorkerClaimNothing, ClaimNothing
  <2>2. Len(outbox') = Len(outbox)
    BY <1>3, IInvTypes, ClaimNothingRows DEF WorkerClaimNothing, TInv, RowsStep
  <2>3. \A j \in 1..Len(outbox) : /\ outbox'[j].cmd = outbox[j].cmd
                                  /\ Withheld(outbox[j]) => Withheld(outbox'[j])
    BY <2>1, SweepClaimRows
  <2>4. ClosedUnowned'
    BY Zenon, <2>1, <2>2, SweepClaimRows DEF ClosedUnowned
  <2>5. \A v \in Workers :
              /\ Local(worker'[v])
              /\ Handling(v)' => Handling(v) /\ worker'[v] = worker[v]
    BY Zenon, <2>1 DEF IInv, HandlerKnows, Handling
  <2> QED
    BY Zenon, <1>0, <1>1, <2>2, <2>3, <2>4, <2>5, LedgerFrame, WithheldFrame
<1> QED
  BY Zenon, <1>2, <1>3

(* A step that changes one row at most, in place, and keeps it withheld.   *)
LEMMA OneRowStep ==
    ASSUME IInv, TInv', cmd' = cmd, requests' = requests, RetryIsSafe',
           UNCHANGED worker \/ \E w \in Workers : Leave(w),
           NEW i \in 1..Len(outbox), NEW row, outbox' = [outbox EXCEPT ![i] = row],
           row.cmd = outbox[i].cmd,
           Withheld(outbox[i]) => Withheld(row),
           "completed" \in row.closed \/ "dead_lettered" \in row.closed => row.owner = Nobody
    PROVE  IInv'
<1>1. /\ Len(outbox') = Len(outbox)
      /\ \A j \in 1..Len(outbox) : outbox'[j] = IF j = i THEN row ELSE outbox[j]
  BY IInvTypes
<1>2. \A j \in 1..Len(outbox) : /\ outbox'[j].cmd = outbox[j].cmd
                                /\ Withheld(outbox[j]) => Withheld(outbox'[j])
  BY <1>1
<1>3. ClosedUnowned'
  BY ZenonT(40), <1>1 DEF IInv, ClosedUnowned
<1>4. IdleWorker \in WorkerState /\ IdleWorker.pc = "idle" /\ Local(IdleWorker)
  BY DEF IdleWorker, WorkerState, WorkerPC, CommandState, NoAnswer, Local
<1>5. \A v \in Workers :
              /\ Local(worker'[v])
              /\ Handling(v)' => Handling(v) /\ worker'[v] = worker[v]
  <2>1. CASE UNCHANGED worker
    BY <2>1 DEF IInv, HandlerKnows, Handling
  <2>2. CASE \E w \in Workers : Leave(w)
    BY ZenonT(40), <1>4, <2>2, WorkersFrame DEF Leave
  <2> QED
    BY ZenonT(40), <2>1, <2>2
<1> QED
  BY ZenonT(40), <1>1, <1>2, <1>3, <1>5, LedgerFrame, WithheldFrame

(* A step that leaves ledger, outbox and provider alone.                   *)
LEMMA QuietStep ==
    ASSUME IInv, TInv', UNCHANGED <<cmd, outbox, requests>>, RetryIsSafe',
           UNCHANGED worker \/ \E w \in Workers : Leave(w)
    PROVE  IInv'
<1>1. ClosedUnowned'
  BY DEF IInv, ClosedUnowned
<1>2. IdleWorker \in WorkerState /\ IdleWorker.pc = "idle" /\ Local(IdleWorker)
  BY DEF IdleWorker, WorkerState, WorkerPC, CommandState, NoAnswer, Local
<1>3. \A v \in Workers :
              /\ Local(worker'[v])
              /\ Handling(v)' => Handling(v) /\ worker'[v] = worker[v]
  <2>1. CASE UNCHANGED worker
    BY <2>1 DEF IInv, HandlerKnows, Handling
  <2>2. CASE \E w \in Workers : Leave(w)
    BY Zenon, <1>2, <2>2, WorkersFrame DEF Leave
  <2> QED
    BY <2>1, <2>2
<1> QED
  BY <1>1, <1>3, LedgerFrame, WithheldFrame

(* run_once around the handler.                                            *)
LEMMA GateStep ==
    ASSUME IInv, NEW w \in Workers, TInv', GateDenies(w) \/ Heartbeat(w) \/ WorkerCrash(w)
    PROVE  IInv'
<1>0. cmd' = cmd /\ recon' = recon /\ requests' = requests
  BY DEF GateDenies, Heartbeat, WorkerCrash, ledgerVars
<1>1. RetryIsSafe'
  BY Zenon, <1>0 DEF IInv, RetryIsSafe, RAt
<1> DEFINE i == worker[w].row
<1>2. ~At(w, "idle") /\ i \in 1..Len(outbox) /\ outbox[i] \in Row
  <2>1. ~At(w, "idle")
    BY DEF GateDenies, Heartbeat, WorkerCrash, At
  <2> QED
    BY ZenonT(40), <2>1, HandlerFacts, IInvTypes
<1>3. CASE UNCHANGED outboxVars /\ Leave(w)
  BY Zenon, <1>0, <1>1, <1>3, QuietStep DEF outboxVars
<1>4. CASE Fail(w, i, worker[w].token) /\ Leave(w)
  <2> DEFINE cl == IF outbox[i].count >= MaxClaims THEN outbox[i].closed \cup {"dead_lettered"}
                   ELSE outbox[i].closed \ {"dead_lettered"}
             row == [outbox[i] EXCEPT !.owner = Nobody, !.live = FALSE, !.closed = cl]
  <2>1. outbox' = [outbox EXCEPT ![i] = row]
    BY ZenonT(40), <1>4, IInvTypes DEF Fail
  <2> HIDE DEF cl
  <2>2. row.cmd = outbox[i].cmd /\ row.owner = Nobody
    BY <1>2 DEF Row, OutboxRow
  <2>3. ~Withheld(outbox[i])
    <3>1. outbox[i].owner = w /\ outbox[i].since = 0
      BY <1>4 DEF Fail, CanFail, Quarantined
    <3>2. outbox[i].owner # Nobody
      BY ONLY <3>1, OutboxAssumption
    <3> QED
      BY <1>2, <3>1, <3>2 DEF Withheld, IInv, ClosedUnowned
  <2> HIDE DEF row
  <2> QED
    BY Zenon, <1>0, <1>1, <1>2, <1>4, <2>1, <2>2, <2>3, OneRowStep
<1>5. CASE Heartbeat(w)
  <2> DEFINE row == [outbox[i] EXCEPT !.live = TRUE]
  <2>1. outbox' = [outbox EXCEPT ![i] = row] /\ worker' = worker
    BY <1>5, IInvTypes DEF Heartbeat, RenewActiveDispatch
  <2>2. /\ row.cmd = outbox[i].cmd /\ row.owner = outbox[i].owner
        /\ row.closed = outbox[i].closed /\ row.since = outbox[i].since
    BY <1>2 DEF Row, OutboxRow
  <2> HIDE DEF row
  <2>3. /\ Withheld(outbox[i]) => Withheld(row)
        /\ "completed" \in row.closed \/ "dead_lettered" \in row.closed => row.owner = Nobody
    BY <1>2, <2>2 DEF Withheld, IInv, ClosedUnowned
  <2> QED
    BY ZenonT(40), <1>0, <1>1, <1>2, <2>1, <2>2, <2>3, OneRowStep
<1> QED
  BY <1>3, <1>4, <1>5 DEF GateDenies, WorkerCrash

(* A handler that returned or asked for a retry lifts the quarantine of    *)
(* its own row, knowing that nothing is in doubt.                          *)
LEMMA ResolveStep ==
    ASSUME IInv, NEW w \in Workers, TInv',
           Resolve(w, "returning", "complete") \/ Resolve(w, "retrying", "retry")
    PROVE  IInv'
<1>0. cmd' = cmd /\ recon' = recon /\ requests' = requests /\ Leave(w) /\ Handling(w)
  BY DEF Resolve, ledgerVars, Handling, At
<1>1. RetryIsSafe'
  BY Zenon, <1>0 DEF IInv, RetryIsSafe, RAt
<1> DEFINE i == worker[w].row
           c == CommandOf(w)
<1>2. ~At(w, "idle") /\ i \in 1..Len(outbox) /\ outbox[i] \in Row /\ outbox[i].cmd = c
  BY Zenon, <1>0, HandlerFacts, IInvTypes DEF Handling, At, CommandOf
<1>3. CASE UNCHANGED outboxVars
  BY Zenon, <1>0, <1>1, <1>3, QuietStep DEF outboxVars
<1>4. CASE At(w, "returning") /\ ResolveReconciliation(w, i, worker[w].token, "complete")
  <2> DEFINE row == Resolution(outbox[i], "complete")
  <2>1. outbox' = [outbox EXCEPT ![i] = row]
    BY <1>4, IInvTypes DEF ResolveReconciliation
  <2>2. row.cmd = outbox[i].cmd /\ row.owner = Nobody /\ "completed" \in row.closed
    BY <1>2 DEF Row, OutboxRow, Resolution
  <2> HIDE DEF row
  <2> QED
    BY ZenonT(40), <1>0, <1>1, <1>2, <2>1, <2>2, OneRowStep DEF Withheld
<1>5. CASE At(w, "retrying") /\ ResolveReconciliation(w, i, worker[w].token, "retry")
  <2> DEFINE row == Resolution(outbox[i], "retry")
  <2>1. outbox' = [outbox EXCEPT ![i] = row]
    BY <1>5, IInvTypes DEF ResolveReconciliation
  <2>2. row.cmd = outbox[i].cmd /\ row.owner = Nobody
    BY <1>2 DEF Row, OutboxRow, Resolution
  <2> HIDE DEF row
  <2>3. /\ Len(outbox') = Len(outbox)
        /\ \A j \in 1..Len(outbox) : outbox'[j] = IF j = i THEN row ELSE outbox[j]
    BY <1>2, <2>1, IInvTypes
  <2>4. ClosedUnowned' /\ \A j \in 1..Len(outbox) : outbox'[j].cmd = outbox[j].cmd
    BY Zenon, <2>2, <2>3 DEF IInv, ClosedUnowned
  <2>5. Unaided(c) => Refused(requests[c])
    <3>1. worker[w].own = 0 /\ worker[w].pc = "retrying"
      BY ZenonT(40), <1>0, <1>5, HandlerState DEF At, Local
    <3> QED
      BY ZenonT(40), <1>0, <3>1, HandlerState DEF Knows
  <2>6. \A j \in 1..Len(outbox) :
           Unaided(outbox[j].cmd) /\ ~Withheld(outbox'[j]) => Refused(requests[outbox[j].cmd])
    BY ZenonT(40), <1>2, <2>3, <2>5, IInvTypes DEF IInv, OnlyNewestInDoubt
  <2>7. IdleWorker \in WorkerState /\ IdleWorker.pc = "idle" /\ Local(IdleWorker)
    BY Zenon, <1>0, HandlerState
  <2>8. worker'[w] = IdleWorker /\ \A v \in Workers : v # w => worker'[v] = worker[v]
    BY ZenonT(40), <1>0, IInvTypes DEF Leave
  <2>9. \A v \in Workers : /\ Local(worker'[v])
                           /\ Handling(v)' => v # w /\ Handling(v) /\ worker'[v] = worker[v]
    BY <2>7, <2>8 DEF IInv, HandlerKnows, Handling
  <2>10. \A v \in Workers :
            Handling(v)' /\ Unaided(CommandOf(v)) => Withheld(outbox'[worker[v].row])
    <3> SUFFICES ASSUME NEW v \in Workers, Handling(v)', Unaided(CommandOf(v))
                 PROVE  Withheld(outbox'[worker[v].row])
      OBVIOUS
    <3>1. v # w /\ Handling(v)
      BY <2>9
    <3>2. Withheld(outbox[worker[v].row]) /\ CommandOf(v) # c
      BY Zenon, <1>0, <3>1 DEF IInv, OneHandler
    <3>3. worker[v].row \in 1..Len(outbox) /\ worker[v].row # i
      BY ZenonT(40), <3>1, <3>2, HandlerFacts DEF Handling, At, CommandOf
    <3> QED
      BY <2>3, <3>2, <3>3
  <2> QED
    BY Zenon, <1>0, <1>1, <2>3, <2>4, <2>6, <2>9, <2>10, LedgerFrame, SharedFrame
<1> QED
  BY ZenonT(40), <1>3, <1>4, <1>5 DEF Resolve

(* quarantine_unknown_outcome: the row was claimable until now, so nobody  *)
(* handles it and every attempt so far was refused.                        *)
LEMMA StartStep ==
    ASSUME IInv, NEW w \in Workers, TInv', StartHandler(w)
    PROVE  IInv'
<1>0. cmd' = cmd /\ recon' = recon /\ requests' = requests /\ worker[w].pc = "claimed"
  BY DEF StartHandler, ledgerVars, At
<1>1. RetryIsSafe'
  BY Zenon, <1>0 DEF IInv, RetryIsSafe, RAt
<1> DEFINE i == worker[w].row
           c == CommandOf(w)
<1>2. /\ i \in 1..Len(outbox) /\ outbox[i] \in Row /\ outbox[i].cmd = c /\ c \in Commands
      /\ worker[w] \in WorkerState /\ Local(worker[w]) /\ tick \in Nat
  <2>1. ~At(w, "idle")
    BY ZenonT(40), <1>0 DEF At
  <2> QED
    BY ZenonT(40), <2>1, HandlerFacts, IInvTypes DEF CommandOf, IInv, HandlerKnows, TypeOK
<1>3. CASE UNCHANGED outboxVars /\ Leave(w)
  BY Zenon, <1>0, <1>1, <1>3, QuietStep DEF outboxVars
<1>4. CASE Quarantine(w, i, worker[w].token) /\ Goto(w, "handling")
  <2> DEFINE n == tick + 1
             row == [outbox[i] EXCEPT !.since = n]
             me == Then(w, "handling")
  <2>1. n # 0 /\ outbox' = [outbox EXCEPT ![i] = row]
    BY <1>2, <1>4, IInvTypes DEF Quarantine
  <2>2. ~Withheld(outbox[i])
    BY <1>4 DEF Quarantine, CanQuarantine, Quarantined, Withheld
  <2> HIDE DEF n
  <2>3. /\ row.cmd = c /\ row.owner = outbox[i].owner /\ row.closed = outbox[i].closed
        /\ row.since = n
    BY ONLY <1>2 DEF Row, OutboxRow
  <2> HIDE DEF row
  <2>4. /\ Len(outbox') = Len(outbox)
        /\ \A j \in 1..Len(outbox) : outbox'[j] = IF j = i THEN row ELSE outbox[j]
    BY <1>2, <2>1, IInvTypes
  <2>5. /\ me.pc = "handling" /\ me.row = i /\ me.own = 0 /\ me.seen = "absent" /\ me.answer = NoAnswer
        /\ worker' = [worker EXCEPT ![w] = me]
    BY <1>0, <1>2, <1>4, IInvTypes DEF Then, WorkerState, Local, Goto
  <2> HIDE DEF me
  <2>6. worker'[w] = me /\ \A v \in Workers : v # w => worker'[v] = worker[v]
    BY Zenon, <2>5, IInvTypes
  <2>7. \A j \in 1..Len(outbox) : /\ outbox'[j].cmd = outbox[j].cmd
                                  /\ outbox'[j].closed = outbox[j].closed
                                  /\ outbox'[j].owner = outbox[j].owner
                                  /\ Withheld(outbox[j]) => Withheld(outbox'[j])
    BY ONLY <1>2, <2>1, <2>3, <2>4 DEF Withheld
  <2>8. OneRow' /\ ClosedUnowned' /\ Attempts'
    BY <1>0, <2>4, <2>7 DEF IInv, OneRow, ClosedUnowned, Attempts
  <2>9. \A d : Unaided(d)' <=> Unaided(d)
    BY ONLY <1>0 DEF Unaided
  <2>10. Withheld(outbox'[i])
    BY ONLY <1>2, <2>1, <2>3, <2>4 DEF Withheld
  <2>11. CommandOf(w)' = c /\ Handling(w)' /\ worker'[w].row = i
    <3>1. worker'[w].pc = "handling" /\ worker'[w].row = i
      BY ONLY <2>5, <2>6
    <3>2. outbox'[i].cmd = c
      BY ONLY <1>2, <2>3, <2>4
    <3> QED
      BY ZenonT(40), <3>1, <3>2 DEF CommandOf, Handling
  <2>12. \A v \in Workers : v # w /\ Handling(v)' =>
            /\ Handling(v) /\ CommandOf(v)' = CommandOf(v) /\ worker[v].row \in 1..Len(outbox)
            /\ CommandOf(v) \in Commands
    BY <2>6, <2>7, HandlerFacts DEF Handling, CommandOf, At
  <2>13. \A v \in Workers : v # w /\ Handling(v) /\ Unaided(CommandOf(v)) => CommandOf(v) # c
    <3> SUFFICES ASSUME NEW v \in Workers, Handling(v), Unaided(CommandOf(v)), CommandOf(v) = c
                 PROVE  FALSE
      BY Zenon
    <3>1. Withheld(outbox[worker[v].row]) /\ worker[v].row \in 1..Len(outbox)
          /\ outbox[worker[v].row].cmd = c
      BY ZenonT(40), HandlerFacts DEF IInv, OneHandler, Handling, At, CommandOf
    <3>2. worker[v].row = i
      BY ZenonT(40), <1>2, <3>1 DEF IInv, OneRow, Unaided
    <3> QED
      BY <2>2, <3>1, <3>2
  <2>14. OneHandler'
    <3>1. ASSUME NEW v \in Workers, Handling(v)', Unaided(CommandOf(v))'
          PROVE  Withheld(outbox'[worker'[v].row])
      <4>1. CASE v = w
        BY ZenonT(40), <2>10, <2>11, <4>1
      <4>2. CASE v # w
        BY <2>6, <2>7, <2>9, <2>12, <3>1, <4>2 DEF IInv, OneHandler
      <4> QED
        BY <4>1, <4>2
    <3>2. ASSUME NEW u \in Workers, NEW v \in Workers, Handling(u)', Handling(v)',
                 CommandOf(u)' = CommandOf(v)', Unaided(CommandOf(v))'
          PROVE  u = v
      <4>1. CASE u = w /\ v # w
        BY ZenonT(40), <2>9, <2>11, <2>12, <2>13, <3>2, <4>1
      <4>2. CASE v = w /\ u # w
        BY Zenon, <2>9, <2>11, <2>12, <2>13, <3>2, <4>2
      <4>3. CASE u # w /\ v # w
        <5>1. /\ Handling(u) /\ Handling(v) /\ CommandOf(u) = CommandOf(v)
              /\ Unaided(CommandOf(v))
          BY Zenon, <2>9, <2>12, <3>2, <4>3
        <5> QED
          BY Zenon, <5>1 DEF IInv, OneHandler
      <4> QED
        BY Zenon, <4>1, <4>2, <4>3
    <3>3. \A v \in Workers : Handling(v)' /\ Unaided(CommandOf(v))' => Withheld(outbox'[worker'[v].row])
      BY ZenonT(40), <3>1
    <3>4. \A u, v \in Workers :
             /\ Handling(u)' /\ Handling(v)' /\ CommandOf(u)' = CommandOf(v)'
             /\ Unaided(CommandOf(v))'
             => u = v
      BY <3>2
    <3> QED
      BY Zenon, <3>3, <3>4 DEF OneHandler, Withheld
  <2>15. OnlyNewestInDoubt'
    <3>1. \A d \in Commands : Unaided(d) =>
             /\ Doubt(cmd'[d], requests'[d])
             /\ \A j \in 1..Len(outbox') :
                   outbox'[j].cmd = d /\ ~Withheld(outbox'[j]) => Refused(requests'[d])
      BY Zenon, <1>0, <2>4, <2>7 DEF IInv, OnlyNewestInDoubt
    <3> QED
      BY Zenon, <2>9, <3>1 DEF OnlyNewestInDoubt, Doubt, Refused, Withheld
  <2>16. HandlerKnows'
    <3>1. Local(me)
      BY ONLY <2>5 DEF Local
    <3>2. Unaided(c) => Refused(requests[c])
      BY ZenonT(40), <1>2, <2>2 DEF IInv, OnlyNewestInDoubt
    <3>3. Unaided(c) => Knows(me, cmd[c], requests[c])
      BY ZenonT(40), <2>5, <3>2 DEF Knows, NoAnswer
    <3>4. \A v \in Workers :
             /\ Local(worker'[v])
             /\ Handling(v)' /\ Unaided(CommandOf(v)') =>
                   Knows(worker'[v], cmd'[CommandOf(v)'], requests'[CommandOf(v)'])
      <4> TAKE v \in Workers
      <4>1. CASE v = w
        BY ZenonT(40), <1>0, <2>6, <2>11, <3>1, <3>3, <4>1
      <4>2. CASE v # w
        BY <1>0, <2>6, <2>12, <4>2 DEF IInv, HandlerKnows
      <4> QED
        BY <4>1, <4>2
    <3> QED
      BY Zenon, <2>9, <3>4 DEF HandlerKnows, Local, Knows, Refused
  <2> QED
    BY <1>1, <2>8, <2>14, <2>15, <2>16 DEF IInv, TInv
<1> QED
  BY Zenon, <1>3, <1>4 DEF StartHandler

----------------------------------------------------------------------------
(* The reconciler.                                                         *)
LEMMA ReconcilerRetry ==
    ASSUME IInv, NEW r \in Reconcilers, ReconStep(r) \/ ReconCrash(r)
    PROVE  RetryIsSafe'
<1>1. recon \in [Reconcilers -> ReconState]
  BY IInvTypes
<1>2. ASSUME NEW pc, RFinish(r, pc), pc = "retry" => SafeReexecution
      PROVE  RetryIsSafe'
  <2>1. recon'[r].pc = pc /\ \A q \in Reconcilers : q # r => recon'[q] = recon[q]
    BY <1>1, <1>2 DEF RFinish, IdleRecon
  <2> QED
    BY <1>2, <2>1 DEF IInv, RetryIsSafe, RAt
<1>3. ASSUME RLeave(r)
      PROVE  RetryIsSafe'
  <2>1. recon'[r].pc = "idle" /\ \A q \in Reconcilers : q # r => recon'[q] = recon[q]
    BY <1>1, <1>3 DEF RLeave, IdleRecon
  <2> QED
    BY <2>1 DEF IInv, RetryIsSafe, RAt
<1>4. CASE RClaim(r) \/ RAttempt(r) \/ RReadback(r)
  <2>1. recon'[r].pc # "retry" /\ \A q \in Reconcilers : q # r => recon'[q] = recon[q]
    BY ZenonT(40), <1>1, <1>4 DEF RClaim, RAttempt, RReadback, ReconState
  <2> QED
    BY Zenon, <2>1 DEF IInv, RetryIsSafe, RAt
<1>5. CASE RGet(r)
  <2>1. ASSUME recon' = [recon EXCEPT ![r].pc = "owned", ![r].version = cmd[RCommandOf(r)].version]
        PROVE  RetryIsSafe'
    <3>1. recon'[r].pc # "retry" /\ \A q \in Reconcilers : q # r => recon'[q] = recon[q]
      BY <1>1, <2>1 DEF ReconState
    <3> QED
      BY <3>1 DEF IInv, RetryIsSafe, RAt
  <2> QED
    BY <1>2, <1>5, <2>1 DEF RGet
<1>6. CASE RJudge(r)
  BY Zenon, <1>2, <1>3, <1>6 DEF RJudge, FencedReconcile, RLedger
<1>7. CASE RBury(r)
  BY ONLY <1>2, <1>3, <1>7 DEF RBury, RLedger
<1>8. CASE RRecord(r) \/ RResolve(r) \/ RRelease(r) \/ ReconCrash(r)
  BY ZenonT(40), <1>2, <1>3, <1>8 DEF RRecord, RResolve, RRelease, ReconCrash
<1> QED
  BY <1>4, <1>5, <1>6, <1>7, <1>8 DEF ReconStep

(* A reconciler moves a parked command; it puts it back to queued only for *)
(* an adapter whose re-execution is safe.                                  *)
LEMMA ReconcilerLedger ==
    ASSUME IInv, TInv', NEW r \in Reconcilers, RJudge(r) \/ RBury(r)
    PROVE  IInv'
<1> DEFINE c == RCommandOf(r)
<1>0. /\ outbox' = outbox /\ worker' = worker /\ requests' = requests
      /\ c \in Commands /\ cmd \in [Commands -> CommandRow]
  <2>1. ~RAt(r, "idle")
    BY ZenonT(40) DEF RJudge, RBury, RAt
  <2> QED
    BY ZenonT(40), <2>1, IInvTypes, ReconAt DEF RJudge, RBury, outboxVars
<1>1. RetryIsSafe' /\ ClosedUnowned'
  BY Zenon, <1>0, ReconcilerRetry DEF ReconStep, IInv, ClosedUnowned
<1>2. \A v \in Workers : /\ Local(worker'[v])
                         /\ Handling(v)' => Handling(v) /\ worker'[v] = worker[v]
  BY ZenonT(40), <1>0 DEF IInv, HandlerKnows, Handling
<1>3. ASSUME cmd' = cmd PROVE IInv'
  BY Zenon, <1>0, <1>1, <1>2, <1>3, LedgerFrame, WithheldFrame
<1>4. ASSUME NEW s \in CommandState, s \notin {"absent", "persisted"},
             s \in {"queued", "cancelled"} => SafeReexecution \/ cmd[c].state = s,
             cmd'[c].state = s, cmd'[c].retries = cmd[c].retries, cmd'[c].attempts = cmd[c].attempts,
             \A d \in Commands : d # c => cmd'[d] = cmd[d]
      PROVE  IInv'
  <2>1. \A d \in Commands :
              /\ cmd'[d].retries = cmd[d].retries /\ cmd'[d].attempts = cmd[d].attempts
              /\ cmd'[d].state \in {"absent", "persisted"} => cmd[d].state = cmd'[d].state
              /\ Unaided(d) /\ cmd'[d].state \in {"queued", "cancelled"} => Refused(requests[d])
    BY ZenonT(40), <1>4 DEF IInv, OnlyNewestInDoubt, Doubt, Unaided
  <2> QED
    BY ZenonT(40), <1>0, <1>1, <1>2, <2>1, WithheldFrame
<1>5. ASSUME NEW new \in {"queued", "dead_lettered"}, new = "queued" => SafeReexecution, NEW fence,
             Transition(c, new, fence)
      PROVE  IInv'
  <2>1. cmd' = [cmd EXCEPT ![c].state = new]
    BY Zenon, <1>0, <1>5 DEF Transition, CommandRow
  <2>2. /\ cmd'[c].state = new /\ cmd'[c].retries = cmd[c].retries /\ cmd'[c].attempts = cmd[c].attempts
        /\ \A d \in Commands : d # c => cmd'[d] = cmd[d]
    BY <1>0, <2>1 DEF CommandRow
  <2>3. new \in CommandState
    BY DEF CommandState
  <2> QED
    BY ZenonT(40), <1>4, <1>5, <2>2, <2>3
<1>6. ASSUME NEW matched \in BOOLEAN, NEW v, ReconcileVerdict(c, matched, v)
      PROVE  IInv'
  <2> DEFINE s == IF matched THEN "completed" ELSE cmd[c].state
  <2>1. cmd[c].state = "reconciliation_required"
    BY <1>6 DEF ReconcileVerdict, CanReconcile
  <2>2. /\ cmd'[c].state = s /\ cmd'[c].retries = cmd[c].retries /\ cmd'[c].attempts = cmd[c].attempts
        /\ \A d \in Commands : d # c => cmd'[d] = cmd[d]
    BY <1>0, <1>6 DEF ReconcileVerdict, CommandRow
  <2>3. s \in CommandState /\ s \notin {"absent", "persisted", "queued", "cancelled"}
    BY <2>1 DEF CommandState
  <2> HIDE DEF s
  <2> QED
    BY <1>4, <2>2, <2>3
<1>7. CASE RJudge(r)
  <2>1. \/ \E matched \in BOOLEAN : ReconcileVerdict(c, matched, recon[r].version)
        \/ SafeReexecution /\ Transition(c, "queued", {recon[r].attempt})
        \/ cmd' = cmd
    BY Zenon, <1>7 DEF RJudge, FencedReconcile, RLedger, ledgerVars
  <2> QED
    BY Zenon, <1>3, <1>5, <1>6, <2>1
<1>8. CASE RBury(r)
  <2>1. Transition(c, "dead_lettered", Unfenced) \/ cmd' = cmd
    BY <1>8 DEF RBury, RLedger, ledgerVars
  <2> QED
    BY <1>3, <1>5, <2>1
<1> QED
  BY Zenon, <1>7, <1>8

(* Every step of Reconciler.run_once, and its death, keeps the invariant.  *)
LEMMA ReconcilerSteps ==
    ASSUME IInv, TInv', NEW r \in Reconcilers, ReconStep(r) \/ ReconCrash(r)
    PROVE  IInv'
<1>1. RetryIsSafe'
  BY ReconcilerRetry
<1>2. CASE RJudge(r) \/ RBury(r)
  BY <1>2, ReconcilerLedger
<1>3. CASE RGet(r) \/ RAttempt(r) \/ RReadback(r) \/ RRecord(r) \/ ReconCrash(r)
  <2>1. UNCHANGED <<cmd, outbox, requests, worker>>
    BY <1>3 DEF RGet, RAttempt, RReadback, RRecord, RecordDeadLetter, ReconCrash, ledgerVars, outboxVars
  <2> QED
    BY <1>1, <2>1, QuietStep
<1>4. CASE RClaim(r)
  <2>1. PICK i \in RowIds : ReconcilerClaim(r, i)
    BY <1>4 DEF RClaim
  <2> DEFINE n == IF outbox[i].claims < Budget THEN outbox[i].claims + 1 ELSE outbox[i].claims
             row == [outbox[i] EXCEPT !.owner = r, !.live = TRUE, !.claims = n]
  <2>2. i \in 1..Len(outbox) /\ outbox[i] \in Row /\ outbox[i].closed = {}
    BY <2>1, IInvTypes DEF ReconcilerClaim, Parked
  <2>3. outbox' = [outbox EXCEPT ![i] = row]
    BY ZenonT(40), <2>1, IInvTypes DEF ReconcilerClaim
  <2> HIDE DEF n
  <2>4. row.cmd = outbox[i].cmd /\ row.closed = {} /\ row.since = outbox[i].since
    BY <2>2 DEF Row, OutboxRow
  <2> HIDE DEF row
  <2>5. UNCHANGED <<cmd, requests, worker>>
    BY <1>4 DEF RClaim, ledgerVars
  <2>6. Withheld(outbox[i]) => Withheld(row)
    BY <2>2, <2>4 DEF Withheld
  <2> QED
    BY Zenon, <1>1, <2>2, <2>3, <2>4, <2>5, <2>6, OneRowStep
<1>5. CASE RRelease(r) \/ RResolve(r)
  <2> DEFINE i == recon[r].row
  <2>1. UNCHANGED <<cmd, requests, worker>> /\ i \in 1..Len(outbox) /\ outbox[i] \in Row
    <3>1. ~RAt(r, "idle")
      BY <1>5 DEF RRelease, RResolve, RAt
    <3> QED
      BY <1>5, <3>1, IInvTypes, ReconAt DEF RRelease, RResolve, ledgerVars
  <2>2. CASE UNCHANGED outboxVars
    BY Zenon, <1>1, <2>1, <2>2, QuietStep DEF outboxVars
  <2>3. CASE ReconcilerRelease(r, i)
    <3> DEFINE row == [outbox[i] EXCEPT !.owner = Nobody, !.live = FALSE]
    <3>1. outbox' = [outbox EXCEPT ![i] = row]
      BY ZenonT(40), <2>3, IInvTypes DEF ReconcilerRelease
    <3>2. /\ row.cmd = outbox[i].cmd /\ row.closed = outbox[i].closed /\ row.since = outbox[i].since
          /\ row.owner = Nobody
      BY <2>1 DEF Row, OutboxRow
    <3> HIDE DEF row
    <3>3. Withheld(outbox[i]) => Withheld(row)
      BY <3>2 DEF Withheld
    <3> QED
      BY Zenon, <1>1, <2>1, <3>1, <3>2, <3>3, OneRowStep
  <2>4. ASSUME NEW a \in {"complete", "dead_letter"}, ReconcilerResolve(r, i, a)
        PROVE  IInv'
    <3> DEFINE row == Resolution(outbox[i], a)
    <3>1. outbox' = [outbox EXCEPT ![i] = row]
      BY <2>4, IInvTypes DEF ReconcilerResolve
    <3>2. /\ row.cmd = outbox[i].cmd /\ row.owner = Nobody
          /\ "completed" \in row.closed \/ "dead_lettered" \in row.closed
      BY ONLY <2>1 DEF Row, OutboxRow, Resolution
    <3> HIDE DEF row
    <3> QED
      BY Zenon, <1>1, <2>1, <3>1, <3>2, OneRowStep DEF Withheld
  <2>5. ASSUME RAt(r, "retry"), ReconcilerResolve(r, i, "retry")
        PROVE  IInv'
    <3> DEFINE row == Resolution(outbox[i], "retry")
    <3>1. outbox' = [outbox EXCEPT ![i] = row]
      BY <2>5, IInvTypes DEF ReconcilerResolve
    <3>2. row.cmd = outbox[i].cmd /\ row.owner = Nobody
      BY <2>1 DEF Row, OutboxRow, Resolution
    <3> HIDE DEF row
    <3>3. SafeReexecution
      BY <2>5 DEF IInv, RetryIsSafe
    <3>4. \A d : ~Unaided(d)
      BY <3>3 DEF Unaided
    <3>5. /\ Len(outbox') = Len(outbox)
          /\ \A j \in 1..Len(outbox) : outbox'[j] = IF j = i THEN row ELSE outbox[j]
      BY ONLY <2>1, <3>1, IInvTypes
    <3>6. ClosedUnowned' /\ \A j \in 1..Len(outbox) : outbox'[j].cmd = outbox[j].cmd
      BY Zenon, <3>2, <3>5 DEF IInv, ClosedUnowned
    <3>7. \A v \in Workers : /\ Local(worker'[v])
                             /\ Handling(v)' => Handling(v) /\ worker'[v] = worker[v]
      BY Zenon, <2>1 DEF IInv, HandlerKnows, Handling
    <3> QED
      BY ZenonT(40), <1>1, <2>1, <3>4, <3>5, <3>6, <3>7, LedgerFrame, SharedFrame
  <2> QED
    BY <1>5, <2>2, <2>3, <2>4, <2>5 DEF RRelease, RResolve, RAt
<1> QED
  BY <1>2, <1>3, <1>4, <1>5 DEF ReconStep

----------------------------------------------------------------------------
(* A new intent: the first one of a command, or the one an operator asks   *)
(* for, after which the command is no longer Unaided.                      *)
LEMMA InsertFrame ==
    ASSUME IInv, TInv', NEW c \in Commands, InsertRow(c), UNCHANGED <<worker, recon, requests>>,
           \A d \in Commands : d # c => cmd'[d] = cmd[d],
           cmd'[c].attempts = cmd[c].attempts,
           cmd'[c].state # "absent",
           cmd'[c].state = "persisted" => cmd'[c].attempts = 0,
           \/ cmd'[c].retries # 0
           \/ /\ \A j \in 1..Len(outbox) : outbox[j].cmd # c
              /\ cmd[c].attempts = 0 /\ cmd'[c].state = "persisted"
    PROVE  IInv'
<1>1. /\ Len(outbox') = Len(outbox) + 1 /\ Len(outbox) \in Nat
      /\ \A j \in 1..Len(outbox) : outbox'[j] = outbox[j]
      /\ outbox'[Len(outbox) + 1] = NewRow(c)
  BY InsertRows, IInvTypes DEF TInv
<1>2. \A j \in 1..Len(outbox') : j \in 1..Len(outbox) \/ j = Len(outbox) + 1
  BY ONLY <1>1
<1>3. NewRow(c).cmd = c /\ NewRow(c).closed = {}
  BY ZenonT(40) DEF NewRow
<1>4. OneRow'
  <2>1. \A d \in Commands : cmd'[d].state = "absent" =>
           cmd'[d].retries = 0 /\ \A j \in 1..Len(outbox') : outbox'[j].cmd # d
    <3> SUFFICES ASSUME NEW d \in Commands, cmd'[d].state = "absent"
                 PROVE  cmd'[d].retries = 0 /\ \A j \in 1..Len(outbox') : outbox'[j].cmd # d
      BY Zenon
    <3>1. d # c /\ cmd'[d] = cmd[d]
      BY Zenon
    <3>2. cmd[d].retries = 0 /\ \A j \in 1..Len(outbox) : outbox[j].cmd # d
      BY Zenon, <3>1 DEF IInv, OneRow
    <3> QED
      BY ONLY <1>1, <1>2, <1>3, <3>1, <3>2
  <2>2. ASSUME NEW d \in Commands, cmd'[d].retries = 0
        PROVE  \A i, j \in 1..Len(outbox') : outbox'[i].cmd = d /\ outbox'[j].cmd = d => i = j
    <3>1. CASE d = c
      BY ZenonT(40), <1>1, <1>2, <2>2, <3>1
    <3>2. CASE d # c
      <4>1. cmd[d].retries = 0
        BY Zenon, <2>2, <3>2
      <4>2. \A i, j \in 1..Len(outbox) : outbox[i].cmd = d /\ outbox[j].cmd = d => i = j
        BY Zenon, <4>1 DEF IInv, OneRow
      <4> QED
        BY ONLY <1>1, <1>2, <1>3, <3>2, <4>2
    <3> QED
      BY ZenonT(40), <3>1, <3>2
  <2> QED
    BY ZenonT(40), <2>1, <2>2 DEF OneRow
<1>5. ClosedUnowned'
  BY ZenonT(40), <1>1, <1>2, <1>3 DEF IInv, ClosedUnowned
<1>6. Attempts' /\ RetryIsSafe'
  BY DEF IInv, Attempts, RetryIsSafe, RAt
<1>7. \A d \in Commands : Unaided(d)' => \/ d # c /\ Unaided(d)
                                         \/ /\ d = c /\ cmd[c].attempts = 0 /\ cmd'[c].state = "persisted"
                                            /\ \A j \in 1..Len(outbox) : outbox[j].cmd # c
  BY Zenon DEF Unaided
<1>8. \A v \in Workers : Handling(v) =>
         /\ worker[v].row \in 1..Len(outbox) /\ CommandOf(v)' = CommandOf(v)
         /\ outbox[worker[v].row].cmd = CommandOf(v) /\ CommandOf(v) \in Commands
  BY ZenonT(40), <1>1, HandlerFacts DEF Handling, At, CommandOf
<1>9. \A v \in Workers : Handling(v)' <=> Handling(v)
  BY Zenon DEF Handling
<1>10. \A v \in Workers : Handling(v) /\ Unaided(CommandOf(v))' => CommandOf(v) # c /\ Unaided(CommandOf(v))
  BY ZenonT(40), <1>7, <1>8
<1>11. OneHandler'
  <2>1. \A v \in Workers : Handling(v)' /\ Unaided(CommandOf(v))' => Withheld(outbox'[worker'[v].row])
    BY ZenonT(40), <1>1, <1>8, <1>9, <1>10 DEF IInv, OneHandler
  <2>2. \A v, w \in Workers :
          /\ Handling(v)' /\ Handling(w)' /\ CommandOf(v)' = CommandOf(w)'
          /\ Unaided(CommandOf(w))'
          => v = w
    BY ZenonT(40), <1>8, <1>9, <1>10 DEF IInv, OneHandler
  <2> QED
    BY ZenonT(40), <2>1, <2>2, OneHandlerNext
<1>12. Len(requests[c]) = cmd[c].attempts
  BY Zenon DEF IInv, Attempts
<1>13. OnlyNewestInDoubt'
  <2> SUFFICES ASSUME NEW d \in Commands, Unaided(d)'
               PROVE  /\ Doubt(cmd'[d], requests[d])
                      /\ \A i \in 1..Len(outbox') :
                            outbox'[i].cmd = d /\ ~Withheld(outbox'[i]) => Refused(requests[d])
    BY Zenon DEF OnlyNewestInDoubt, Doubt, Refused, Withheld
  <2>1. CASE d # c
    BY ZenonT(40), <1>1, <1>2, <1>3, <1>7, <2>1 DEF IInv, OnlyNewestInDoubt
  <2>2. CASE d = c
    <3>1. Refused(requests[c])
      <4>1. Len(requests[c]) = 0
        BY Zenon, <1>7, <1>12, <2>2
      <4> QED
        BY ONLY <4>1 DEF Refused
    <3> QED
      BY ZenonT(40), <2>2, <3>1 DEF Doubt, Refused
  <2> QED
    BY Zenon, <2>1, <2>2
<1>14. HandlerKnows'
  <2> SUFFICES ASSUME NEW v \in Workers
               PROVE  /\ Local(worker'[v])
                      /\ Handling(v)' /\ Unaided(CommandOf(v))' =>
                            Knows(worker'[v], cmd'[CommandOf(v)'], requests'[CommandOf(v)'])
    BY ZenonT(40), KnowsNext
  <2>1. Local(worker[v])
    BY ZenonT(40) DEF IInv, HandlerKnows
  <2>2. ASSUME Handling(v), Unaided(CommandOf(v))'
        PROVE  Knows(worker[v], cmd'[CommandOf(v)], requests[CommandOf(v)])
    <3>1. CommandOf(v) \in Commands /\ CommandOf(v) # c /\ Unaided(CommandOf(v))
      BY ZenonT(40), <1>8, <1>10, <2>2
    <3>2. Knows(worker[v], cmd[CommandOf(v)], requests[CommandOf(v)])
      BY <2>2, <3>1 DEF IInv, HandlerKnows
    <3> QED
      BY <3>1, <3>2
  <2> QED
    BY ZenonT(40), <1>8, <1>9, <2>1, <2>2
<1> QED
  BY ZenonT(40), <1>4, <1>5, <1>6, <1>11, <1>13, <1>14 DEF IInv, TInv

(* submit and the mutations cancel, reconcile and retry keep the           *)
(* invariant.                                                              *)
LEMMA ServiceSteps ==
    ASSUME IInv, TInv', NEW c \in Commands, Submit(c) \/ Cancel(c) \/ Reconcile(c) \/ Retry(c)
    PROVE  IInv'
<1>0. UNCHANGED <<worker, recon, requests>> /\ cmd \in [Commands -> CommandRow]
  BY IInvTypes DEF Submit, Cancel, Reconcile, Retry
<1>1. CASE Submit(c)
  <2>1. /\ cmd'[c].attempts = 0 /\ cmd'[c].state = "persisted" /\ InsertRow(c)
        /\ \A d \in Commands : d # c => cmd'[d] = cmd[d]
    BY <1>0, <1>1 DEF Submit, SubmitCommand, NoCommand
  <2>2. cmd[c].attempts = 0 /\ \A j \in 1..Len(outbox) : outbox[j].cmd # c
    BY ZenonT(40), <1>1 DEF Submit, SubmitCommand, IInv, OneRow, Attempts
  <2> QED
    BY Zenon, <1>0, <2>1, <2>2, InsertFrame
<1>2. CASE Retry(c)
  <2>1. /\ cmd'[c].attempts = cmd[c].attempts /\ cmd'[c].state = "queued" /\ InsertRow(c)
        /\ \A d \in Commands : d # c => cmd'[d] = cmd[d]
        /\ cmd'[c].retries = cmd[c].retries + 1 /\ cmd[c].retries \in Nat
    BY ONLY <1>0, <1>2 DEF Retry, MutateRetry, CommandRow
  <2>2. cmd'[c].retries # 0
    BY ONLY <2>1
  <2> QED
    BY <1>0, <2>1, <2>2, InsertFrame
<1>3. RetryIsSafe' /\ \A v \in Workers : /\ Local(worker'[v])
                                         /\ Handling(v)' => Handling(v) /\ worker'[v] = worker[v]
  BY ZenonT(40), <1>0 DEF IInv, HandlerKnows, Handling, RetryIsSafe, RAt
<1>4. ASSUME NEW new \in {"reconciliation_required", "cancelled"}, Mutated(c, new),
             new = "cancelled" => cmd[c].state \in {"persisted", "queued"}
      PROVE  \A d \in Commands :
              /\ cmd'[d].retries = cmd[d].retries /\ cmd'[d].attempts = cmd[d].attempts
              /\ cmd'[d].state \in {"absent", "persisted"} => cmd[d].state = cmd'[d].state
              /\ Unaided(d) /\ cmd'[d].state \in {"queued", "cancelled"} => Refused(requests[d])
  <2>1. /\ cmd'[c].attempts = cmd[c].attempts /\ cmd'[c].state = new
        /\ cmd'[c].retries = cmd[c].retries
        /\ \A d \in Commands : d # c => cmd'[d] = cmd[d]
    BY ONLY <1>0, <1>4 DEF Mutated, CommandRow
  <2>2. cmd[c].state = "persisted" => Refused(requests[c])
    BY DEF IInv, Attempts, Refused
  <2>3. cmd[c].state = "queued" /\ Unaided(c) => Refused(requests[c])
    BY DEF IInv, OnlyNewestInDoubt, Doubt
  <2> QED
    BY ZenonT(40), <1>4, <2>1, <2>2, <2>3 DEF IInv, OnlyNewestInDoubt, Doubt
<1>5. CASE Cancel(c)
  <2>1. PICK new \in CancelTo(c, ActiveLease(c)) :
           /\ Mutated(c, new)
           /\ IF new = "cancelled" THEN CancelRows(c) ELSE UNCHANGED outboxVars
    BY Zenon, <1>5 DEF Cancel
  <2>2. /\ new \in {"reconciliation_required", "cancelled"}
        /\ new = "cancelled" => cmd[c].state \in {"persisted", "queued"}
    BY Zenon DEF CancelTo
  <2>3. CASE UNCHANGED outboxVars
    <3>1. outbox' = outbox /\ ClosedUnowned'
      BY Zenon, <2>3 DEF outboxVars, IInv, ClosedUnowned
    <3> QED
      BY ZenonT(40), <1>0, <1>3, <1>4, <2>1, <2>2, <3>1, WithheldFrame
  <2>4. CASE CancelRows(c)
    <3>1. Len(outbox') = Len(outbox)
      BY ZenonT(40), <2>4, IInvTypes, OperatorRows DEF TInv, RowsStep
    <3>2. \A j \in 1..Len(outbox) : /\ outbox'[j].cmd = outbox[j].cmd
                                    /\ outbox'[j].since = outbox[j].since
                                    /\ outbox'[j].owner = outbox[j].owner
                                    /\ outbox[j].closed \subseteq outbox'[j].closed
                                    /\ outbox'[j].closed \subseteq outbox[j].closed \cup {"cancelled"}
      BY ZenonT(40), <2>4, IInvTypes DEF CancelRows, Row, OutboxRow
    <3>3. ClosedUnowned'
      BY ZenonT(40), <3>1, <3>2 DEF IInv, ClosedUnowned
    <3>4. \A j \in 1..Len(outbox) : Withheld(outbox[j]) => Withheld(outbox'[j])
      BY ZenonT(40), <3>2 DEF Withheld
    <3> QED
      BY ZenonT(40), <1>0, <1>3, <1>4, <2>1, <2>2, <3>1, <3>2, <3>3, <3>4, WithheldFrame
  <2> QED
    BY ONLY <2>1, <2>3, <2>4
<1>6. CASE Reconcile(c)
  <2>1. Mutated(c, "reconciliation_required") /\ ReconcileRows(c)
    BY ZenonT(40), <1>6 DEF Reconcile, MutateReconcile
  <2>2. Len(outbox') = Len(outbox)
    BY <2>1, IInvTypes, OperatorRows DEF TInv, RowsStep
  <2> DEFINE n == tick + 1
  <2>3. n # 0
    BY SMTT(30) DEF IInv, TypeOK
  <2>4. outbox' = [i \in 1..Len(outbox) |->
             IF outbox[i].cmd = c /\ outbox[i].closed = {}
             THEN [outbox[i] EXCEPT !.since = IF @ = 0 THEN n ELSE @,
                                    !.owner = IF outbox[i].live THEN @ ELSE Nobody]
             ELSE outbox[i]]
    BY ZenonT(40), <2>1, IInvTypes DEF ReconcileRows
  <2> HIDE DEF n
  <2>5. \A j \in 1..Len(outbox) : /\ outbox'[j].cmd = outbox[j].cmd
                                  /\ outbox[j].since # 0 => outbox'[j].since # 0
                                  /\ outbox'[j].owner \in {outbox[j].owner, Nobody}
                                  /\ outbox'[j].closed = outbox[j].closed
    BY ZenonT(40), <2>3, <2>4, IInvTypes DEF Row, OutboxRow
  <2>6. ClosedUnowned'
    BY ZenonT(40), <2>2, <2>5 DEF IInv, ClosedUnowned
  <2>7. \A j \in 1..Len(outbox) : Withheld(outbox[j]) => Withheld(outbox'[j])
    BY <2>5 DEF Withheld
  <2> QED
    BY ZenonT(40), <1>0, <1>3, <1>4, <2>1, <2>2, <2>5, <2>6, <2>7, WithheldFrame
<1> QED
  BY <1>1, <1>2, <1>5, <1>6

----------------------------------------------------------------------------
(* The provider settles a request that was sent; until then not every      *)
(* attempt was refused, so nothing the handlers concluded is touched.      *)
LEMMA ProviderStep ==
    ASSUME IInv, TInv', NEW c \in Commands, Provider(c)
    PROVE  IInv'
<1>0. cmd' = cmd /\ outbox' = outbox /\ worker' = worker /\ recon' = recon
  BY DEF Provider, ledgerVars, outboxVars
<1>1. PICK k \in DOMAIN requests[c], s \in {"applied", "refused"} :
         requests[c][k] = "sent" /\ requests' = [requests EXCEPT ![c][k] = s]
  BY Zenon DEF Provider
<1> DEFINE q == [requests[c] EXCEPT ![k] = s]
<1>2. /\ requests[c] \in Seq(RequestState) /\ requests \in [Commands -> Seq(RequestState)]
      /\ Len(requests[c]) \in Nat /\ k \in 1..Len(requests[c])
  BY IInvTypes
<1>3. Len(q) = Len(requests[c]) /\ \A j \in 1..Len(requests[c]) : q[j] = IF j = k THEN s ELSE requests[c][j]
  <2>1. s \in RequestState
    BY DEF RequestState
  <2> QED
    BY <1>2, <2>1, SeqExcept
<1>4. requests'[c] = q /\ \A d \in Commands : d # c => requests'[d] = requests[d]
  BY <1>1, <1>2
<1> HIDE DEF q
<1>5. ~Refused(requests[c])
  BY ONLY <1>1, <1>2 DEF Refused
<1>6. OneRow' /\ ClosedUnowned' /\ RetryIsSafe'
  BY Zenon, <1>0 DEF IInv, OneRow, ClosedUnowned, RetryIsSafe, RAt
<1>7. Attempts'
  BY ZenonT(40), <1>0, <1>3, <1>4 DEF IInv, Attempts
<1>8. /\ \A d : Unaided(d)' <=> Unaided(d)
      /\ \A v \in Workers : (Handling(v)' <=> Handling(v)) /\ CommandOf(v)' = CommandOf(v)
  BY ONLY <1>0 DEF Unaided, Handling, CommandOf
<1>9. OneHandler'
  <2>1. \A w \in Workers : Handling(w)' /\ Unaided(CommandOf(w))' => Withheld(outbox'[worker'[w].row])
    BY Zenon, <1>0, <1>8 DEF IInv, OneHandler
  <2>2. \A v, w \in Workers :
          /\ Handling(v)' /\ Handling(w)' /\ CommandOf(v)' = CommandOf(w)'
          /\ Unaided(CommandOf(w))'
          => v = w
    BY Zenon, <1>8 DEF IInv, OneHandler
  <2> QED
    BY ZenonT(40), <2>1, <2>2, OneHandlerNext
<1>10. OnlyNewestInDoubt'
  <2> SUFFICES ASSUME NEW d \in Commands, Unaided(d)
               PROVE  /\ Doubt(cmd[d], requests'[d])
                      /\ \A i \in 1..Len(outbox) :
                            outbox[i].cmd = d /\ ~Withheld(outbox[i]) => Refused(requests'[d])
    BY ZenonT(40), <1>0, <1>8 DEF OnlyNewestInDoubt, Doubt, Refused, Withheld
  <2>1. CASE d # c
    BY Zenon, <1>4, <2>1 DEF IInv, OnlyNewestInDoubt
  <2>2. CASE d = c
    <3>1. /\ \A j \in 1..Len(requests[c]) : j < Len(requests[c]) => requests[c][j] = "refused"
          /\ cmd[c].state \notin {"queued", "cancelled"}
          /\ \A i \in 1..Len(outbox) : outbox[i].cmd = c => Withheld(outbox[i])
      BY ZenonT(40), <1>5, <2>2 DEF IInv, OnlyNewestInDoubt, Doubt
    <3>2. \A j \in 1..Len(q) : j < Len(q) => q[j] = "refused"
      BY ONLY <1>1, <1>2, <1>3, <3>1
    <3> QED
      BY ZenonT(40), <1>4, <2>2, <3>1, <3>2 DEF Doubt
  <2> QED
    BY ONLY <2>1, <2>2
<1>11. HandlerKnows'
  <2>0. \A v \in Workers : Local(worker[v])
    BY DEF IInv, HandlerKnows
  <2> SUFFICES ASSUME NEW v \in Workers, Handling(v), Unaided(CommandOf(v))
               PROVE  Knows(worker[v], cmd[CommandOf(v)], requests'[CommandOf(v)])
    BY <1>0, <1>8, <2>0, KnowsNext
  <2>1. /\ Knows(worker[v], cmd[CommandOf(v)], requests[CommandOf(v)])
        /\ CommandOf(v) \in Commands /\ Local(worker[v]) /\ worker[v] \in WorkerState
        /\ Len(requests[CommandOf(v)]) = cmd[CommandOf(v)].attempts
    BY Zenon, HandlerState
  <2>2. CASE CommandOf(v) # c
    BY ZenonT(40), <1>4, <2>1, <2>2
  <2>3. CASE CommandOf(v) = c
    <3>1. worker[v].pc \in {"opened", "executing"} => q[worker[v].own] = "open"
      <4>1. worker[v].own \in Nat
        BY ZenonT(40), <2>1 DEF WorkerState
      <4> QED
        BY ONLY SMTT(30), <1>1, <1>2, <1>3, <2>1, <2>3, <4>1 DEF Knows, Local
    <3> QED
      BY ZenonT(40), <1>4, <1>5, <2>1, <2>3, <3>1 DEF Knows
  <2> QED
    BY ONLY <2>2, <2>3
<1> QED
  BY <1>6, <1>7, <1>9, <1>10, <1>11 DEF IInv, TInv

(* A lease that runs out changes nothing the invariant speaks of.          *)
LEMMA ExpireStep ==
    ASSUME IInv, TInv', NEW i \in RowIds, Expire(i)
    PROVE  IInv'
<1> DEFINE row == [outbox[i] EXCEPT !.live = FALSE]
<1>1. i \in 1..Len(outbox) /\ outbox[i] \in Row
  BY IInvTypes
<1>2. outbox' = [outbox EXCEPT ![i] = row]
  BY IInvTypes DEF Expire, LeaseExpires
<1>3. UNCHANGED <<cmd, requests, worker, recon>> /\ RetryIsSafe'
  BY DEF Expire, ledgerVars, IInv, RetryIsSafe, RAt
<1>4. /\ row.cmd = outbox[i].cmd /\ row.closed = outbox[i].closed
      /\ row.since = outbox[i].since /\ row.owner = outbox[i].owner
  BY <1>1 DEF Row, OutboxRow
<1> HIDE DEF row
<1>5. /\ Withheld(outbox[i]) => Withheld(row)
      /\ "completed" \in row.closed \/ "dead_lettered" \in row.closed => row.owner = Nobody
  BY <1>1, <1>4 DEF Withheld, IInv, ClosedUnowned
<1> QED
  BY ZenonT(40), <1>1, <1>2, <1>3, <1>4, <1>5, OneRowStep

----------------------------------------------------------------------------
(* IInv is inductive.                                                      *)
LEMMA IInvInit == Init => IInv
<1> SUFFICES ASSUME Init
             PROVE  IInv
  OBVIOUS
<1>1. TInv
  BY TInvInit
<1>2. outbox = <<>> /\ Len(outbox) = 0
  BY DEF Init, OutboxInit
<1>3. /\ \A c \in Commands : cmd[c] = NoCommand /\ requests[c] = <<>>
      /\ \A w \in Workers : worker[w] = IdleWorker
      /\ \A r \in Reconcilers : recon[r] = IdleRecon
  BY Zenon DEF Init, LedgerInit
<1>4. OneRow /\ ClosedUnowned
  BY <1>2, <1>3 DEF OneRow, ClosedUnowned, NoCommand
<1>5. /\ \A w \in Workers : Local(worker[w]) /\ ~Handling(w)
      /\ RetryIsSafe
  <2>1. Local(IdleWorker) /\ IdleWorker.pc = "idle" /\ IdleRecon.pc = "idle"
    BY ZenonT(40) DEF Local, IdleWorker, IdleRecon
  <2> QED
    BY Zenon, <1>3, <2>1 DEF Handling, RetryIsSafe, RAt
<1>6. OneHandler /\ HandlerKnows
  BY Zenon, <1>5 DEF OneHandler, HandlerKnows
<1>7. Attempts
  <2>1. Len(<<>>) = 0 /\ NoCommand.attempts = 0
    BY DEF NoCommand
  <2> QED
    BY Zenon, <1>3, <2>1 DEF Attempts
<1>8. OnlyNewestInDoubt
  BY <1>2, <1>3 DEF OnlyNewestInDoubt, Doubt, Refused
<1> QED
  BY <1>1, <1>4, <1>5, <1>6, <1>7, <1>8 DEF IInv, TInv

(* The invariant is inductive as long as no gateway status is taken for a  *)
(* failed connect (classify_status).                                       *)
LEMMA IInvNext ==
    ASSUME "gateway" \notin Faults
    PROVE  IInv /\ [Next]_vars => IInv'
<1> SUFFICES ASSUME IInv, [Next]_vars
             PROVE  IInv'
  OBVIOUS
<1>1. TInv'
  BY ZenonT(40), IInvTypes, TInvNext
<1>2. CASE UNCHANGED vars
  <2>1. UNCHANGED <<cmd, outbox, requests, worker, recon>>
    BY <1>2 DEF vars
  <2> QED
    BY <1>1, <2>1, QuietStep DEF IInv, RetryIsSafe, RAt
<1>3. ASSUME NEW w \in Workers, WorkerStep(w) \/ Heartbeat(w) \/ WorkerCrash(w)
      PROVE  IInv'
  <2>1. CASE \/ WorkerClaim(w) \/ WorkerClaimNothing(w) \/ GateDenies(w) \/ StartHandler(w)
             \/ Heartbeat(w) \/ WorkerCrash(w)
             \/ Resolve(w, "returning", "complete") \/ Resolve(w, "retrying", "retry")
    BY <1>1, <2>1, ClaimSteps, GateStep, StartStep, ResolveStep
  <2>2. CASE \/ Dispatch(w) \/ LatestAttempt(w) \/ Answer(w) \/ Recover(w) \/ Readback(w)
             \/ ReadForFail(w)
    <3>1. Handling(w)
      BY <2>2 DEF Handling, At, Dispatch, LatestAttempt, Answer, Recover, Readback, ReadForFail
    <3> QED
      BY <1>1, <2>2, <3>1, ReadingSteps
  <2>3. CASE \/ Enqueue(w) \/ Finalize(w) \/ RecoverAccept(w) \/ ReadbackPending(w) \/ Judge(w)
             \/ Refuse(w) \/ FailAttempt(w) \/ Requeue(w) \/ ExhaustRetries(w)
    <3>1. Handling(w)
      BY <2>3 DEF Handling, At, Enqueue, Finalize, RecoverAccept, ReadbackPending, Judge, Refuse,
         FailAttempt, Requeue, ExhaustRetries
    <3> QED
      BY <1>1, <2>3, <3>1, MovingSteps
  <2>4. CASE OpenAttempt(w) \/ Send(w) \/ WorkerRecord(w)
    <3>1. Handling(w)
      BY <2>4 DEF Handling, At, OpenAttempt, Send, WorkerRecord
    <3> QED
      BY <1>1, <2>4, <3>1, OpenStep, SendStep, RecordStep
  <2> QED
    BY <1>3, <2>1, <2>2, <2>3, <2>4 DEF WorkerStep
<1> QED
  BY <1>1, <1>2, <1>3, ServiceSteps, ProviderStep, ReconcilerSteps, ExpireStep DEF Next

(* What IInv says of the requests of a command.                            *)
LEMMA IInvImplies ==
    ASSUME IInv
    PROVE  NoBlindResend /\ CancelledHasNoEffect /\ InDoubtNotClaimable
<1>1. \A c \in Commands : DOMAIN requests[c] = 1..Len(requests[c]) /\ Len(requests[c]) \in Nat
  BY IInvTypes
<1>2. NoBlindResend
  <2> SUFFICES ASSUME NEW c \in Commands, Unaided(c),
                      NEW j \in 1..Len(requests[c]), NEW k \in 1..Len(requests[c]),
                      requests[c][j] \in {"sent", "applied"}, requests[c][k] \in {"sent", "applied"}
               PROVE  j = k
    BY ZenonT(40), <1>1 DEF NoBlindResend
  <2>1. ~(j < Len(requests[c])) /\ ~(k < Len(requests[c]))
    BY DEF IInv, OnlyNewestInDoubt, Doubt
  <2> QED
    BY <1>1, <2>1
<1>3. CancelledHasNoEffect
  BY <1>1 DEF CancelledHasNoEffect, IInv, OnlyNewestInDoubt, Doubt, Refused
<1>4. InDoubtNotClaimable
  <2> SUFFICES ASSUME NEW c \in Commands, NEW i \in 1..Len(outbox), Unaided(c), outbox[i].cmd = c,
                      NEW k \in 1..Len(requests[c]), requests[c][k] # "refused"
               PROVE  ~Claimable(outbox[i])
    BY Zenon, <1>1, IInvTypes DEF InDoubtNotClaimable
  <2>1. Withheld(outbox[i])
    BY DEF IInv, OnlyNewestInDoubt, Refused
  <2> QED
    BY <2>1 DEF Withheld, Claimable
<1> QED
  BY <1>2, <1>3, <1>4

(* Never resent blindly, for every number of commands, workers and         *)
(* reconcilers, every limit and every fault but a gateway that answers for *)
(* the provider: of a command that no operator retried and whose adapter   *)
(* does not call re-execution safe, at most one request was ever           *)
(* transmitted without being refused.                                      *)
THEOREM NeverResentBlindly == "gateway" \notin Faults => (Spec => []NoBlindResend)
<1> SUFFICES ASSUME "gateway" \notin Faults
             PROVE  Spec => []NoBlindResend
  OBVIOUS
<1>1. IInv => NoBlindResend
  BY IInvImplies
<1> QED
  BY <1>1, IInvInit, IInvNext, PTL DEF Spec

(* A cancelled command has, and will have, no effect at the provider.      *)
THEOREM CancelIsSafe == "gateway" \notin Faults => (Spec => []CancelledHasNoEffect)
<1> SUFFICES ASSUME "gateway" \notin Faults
             PROVE  Spec => []CancelledHasNoEffect
  OBVIOUS
<1>1. IInv => CancelledHasNoEffect
  BY IInvImplies
<1> QED
  BY <1>1, IInvInit, IInvNext, PTL DEF Spec

(* While an attempt is in doubt no row of the command can be claimed.      *)
THEOREM QuarantineHolds == "gateway" \notin Faults => (Spec => []InDoubtNotClaimable)
<1> SUFFICES ASSUME "gateway" \notin Faults
             PROVE  Spec => []InDoubtNotClaimable
  OBVIOUS
<1>1. IInv => InDoubtNotClaimable
  BY IInvImplies
<1> QED
  BY <1>1, IInvInit, IInvNext, PTL DEF Spec

============================================================================
