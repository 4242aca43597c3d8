------------------------ MODULE ExecutionBusProofs ------------------------
(***************************************************************************)
(* Proofs about ExecutionBus for every set of commands, workers and        *)
(* reconcilers, every limit and every subset of the faults (the theorems   *)
(* that need it say that "gateway" is not among them).                     *)
(***************************************************************************)
EXTENDS ExecutionBusInv, TLAPS

Row == OutboxRow(Commands)

\* What every transaction on existing rows leaves alone.
RowsStep ==
    /\ outbox' \in Seq(Row)
    /\ Len(outbox') = Len(outbox)
    /\ DOMAIN outbox' = 1..Len(outbox)
    /\ \A j \in 1..Len(outbox) : outbox'[j].cmd = outbox[j].cmd
    /\ tick' \in Nat

----------------------------------------------------------------------------
(* A function on the indices of a sequence whose values stay in S is again *)
(* a sequence over S, of the same length.                                  *)
LEMMA SeqLike ==
    ASSUME NEW S, NEW s \in Seq(S), NEW t,
           t = [j \in 1..Len(s) |-> t[j]],
           \A j \in 1..Len(s) : t[j] \in S
    PROVE  /\ t \in Seq(S)
           /\ Len(t) = Len(s)
           /\ DOMAIN t = 1..Len(s)
<1>1. t \in [1..Len(s) -> S]
  OBVIOUS
<1>2. Len(s) \in Nat
  OBVIOUS
<1> QED
  BY <1>1, <1>2

(* Replacing one element of a sequence.                                    *)
LEMMA SeqExcept ==
    ASSUME NEW S, NEW s \in Seq(S), NEW e \in S, NEW k
    PROVE  LET t == [s EXCEPT ![k] = e] IN
           /\ t \in Seq(S)
           /\ Len(t) = Len(s)
           /\ \A j \in 1..Len(s) : t[j] = IF j = k THEN e ELSE s[j]
<1> DEFINE t == [s EXCEPT ![k] = e]
<1>1. DOMAIN s = 1..Len(s) /\ Len(s) \in Nat /\ \A j \in 1..Len(s) : s[j] \in S
  OBVIOUS
<1>2. t = [j \in 1..Len(s) |-> IF j = k THEN e ELSE s[j]]
  BY <1>1
<1> HIDE DEF t
<1>3. \A j \in 1..Len(s) : t[j] = IF j = k THEN e ELSE s[j]
  BY <1>2
<1>4. t = [j \in 1..Len(s) |-> t[j]] /\ \A j \in 1..Len(s) : t[j] \in S
  BY <1>1, <1>2, <1>3
<1>5. t \in Seq(S) /\ Len(t) = Len(s)
  BY <1>4, SeqLike
<1> QED
  BY <1>3, <1>5 DEF t

(* The rows of the outbox, as the type invariant describes them.           *)
LEMMA RowsTyped ==
    ASSUME TypeOK
    PROVE  /\ outbox \in Seq(Row)
           /\ Len(outbox) \in Nat
           /\ DOMAIN outbox = 1..Len(outbox)
           /\ RowIds = 1..Len(outbox)
           /\ \A j \in 1..Len(outbox) : outbox[j] \in Row
           /\ tick \in Nat
BY DEF TypeOK, Row, RowIds

(* claim, with its sweep.                                                  *)
LEMMA ClaimRows ==
    ASSUME TypeOK, NEW w \in Workers, NEW i \in RowIds, Claim(w, i)
    PROVE  RowsStep
<1>1. \A j \in 1..Len(outbox) : Sweep(outbox[j]) \in Row /\ Sweep(outbox[j]).cmd = outbox[j].cmd
  BY RowsTyped DEF Sweep, Row, OutboxRow, Closing
<1>2. \A j \in 1..Len(outbox) : Claimed(outbox[j], w) \in Row /\ Claimed(outbox[j], w).cmd = outbox[j].cmd
  <2> SUFFICES ASSUME NEW j \in 1..Len(outbox)
               PROVE  Claimed(outbox[j], w) \in Row /\ Claimed(outbox[j], w).cmd = outbox[j].cmd
    OBVIOUS
  <2>1. outbox[j] \in Row
    BY RowsTyped
  <2> DEFINE n == outbox[j].count + 1
             m == outbox[j].token + 1
  <2>2. n \in Nat /\ m \in Nat
    BY <2>1 DEF Row, OutboxRow
  <2>3. Claimed(outbox[j], w) = [outbox[j] EXCEPT !.owner = w, !.live = TRUE, !.count = n, !.token = m]
    BY DEF Claimed
  <2> HIDE DEF n, m
  <2> QED
    BY <2>1, <2>2, <2>3 DEF Row, OutboxRow
<1>3. outbox' = [j \in 1..Len(outbox) |-> outbox'[j]]
  BY RowsTyped DEF Claim
<1>4. \A j \in 1..Len(outbox) : outbox'[j] \in Row /\ outbox'[j].cmd = outbox[j].cmd
  BY <1>1, <1>2, RowsTyped DEF Claim
<1>5. tick' \in Nat
  BY RowsTyped DEF Claim
<1> QED
  BY <1>3, <1>4, <1>5, RowsTyped, SeqLike DEF RowsStep

(* The sweep alone.                                                        *)
LEMMA ClaimNothingRows ==
    ASSUME TypeOK, ClaimNothing
    PROVE  RowsStep
<1>1. \A j \in 1..Len(outbox) : Sweep(outbox[j]) \in Row /\ Sweep(outbox[j]).cmd = outbox[j].cmd
  BY RowsTyped DEF Sweep, Row, OutboxRow, Closing
<1>3. outbox' = [j \in 1..Len(outbox) |-> outbox'[j]]
  BY RowsTyped DEF ClaimNothing
<1>4. \A j \in 1..Len(outbox) : outbox'[j] \in Row /\ outbox'[j].cmd = outbox[j].cmd
  BY <1>1, RowsTyped DEF ClaimNothing
<1>5. tick' \in Nat
  BY RowsTyped DEF ClaimNothing
<1> QED
  BY <1>3, <1>4, <1>5, RowsTyped, SeqLike DEF RowsStep

(* The transactions of a worker on the row it claimed.                     *)
LEMMA WorkerRows ==
    ASSUME TypeOK, NEW w \in Workers, NEW i \in 1..Len(outbox), NEW t, NEW a,
           \/ Quarantine(w, i, t) \/ RenewActiveDispatch(w, i, t)
           \/ ResolveReconciliation(w, i, t, a) \/ Fail(w, i, t)
    PROVE  RowsStep
<1>1. CASE Quarantine(w, i, t)
  <2> DEFINE n == tick + 1
  <2>3. n \in Nat
    BY RowsTyped
  <2>4. tick' = n /\ outbox' = [outbox EXCEPT ![i].since = n]
    BY <1>1 DEF Quarantine
  <2> HIDE DEF n
  <2>1. \A j \in 1..Len(outbox) : outbox'[j] \in Row /\ outbox'[j].cmd = outbox[j].cmd
    BY <2>3, <2>4, RowsTyped DEF Row, OutboxRow
  <2>2. outbox' = [j \in 1..Len(outbox) |-> outbox'[j]] /\ tick' \in Nat
    BY <2>3, <2>4, RowsTyped
  <2> QED
    BY <2>1, <2>2, RowsTyped, SeqLike DEF RowsStep
<1>2. CASE RenewActiveDispatch(w, i, t)
  <2>1. \A j \in 1..Len(outbox) : outbox'[j] \in Row /\ outbox'[j].cmd = outbox[j].cmd
    BY <1>2, RowsTyped DEF RenewActiveDispatch, Row, OutboxRow
  <2>2. outbox' = [j \in 1..Len(outbox) |-> outbox'[j]] /\ tick' \in Nat
    BY <1>2, RowsTyped DEF RenewActiveDispatch
  <2> QED
    BY <2>1, <2>2, RowsTyped, SeqLike DEF RowsStep
<1>3. CASE ResolveReconciliation(w, i, t, a)
  <2>1. \A j \in 1..Len(outbox) : outbox'[j] \in Row /\ outbox'[j].cmd = outbox[j].cmd
    BY <1>3, RowsTyped DEF ResolveReconciliation, Resolution, Row, OutboxRow, Closing
  <2>2. outbox' = [j \in 1..Len(outbox) |-> outbox'[j]] /\ tick' \in Nat
    BY <1>3, RowsTyped DEF ResolveReconciliation
  <2> QED
    BY <2>1, <2>2, RowsTyped, SeqLike DEF RowsStep
<1>4. CASE Fail(w, i, t)
  <2> DEFINE cl == IF outbox[i].count >= MaxClaims THEN outbox[i].closed \cup {"dead_lettered"}
                   ELSE outbox[i].closed \ {"dead_lettered"}
  <2>3. cl \in SUBSET Closing
    BY RowsTyped DEF Row, OutboxRow, Closing
  <2>4. outbox' = [outbox EXCEPT ![i].owner = Nobody, ![i].live = FALSE, ![i].closed = cl]
    BY <1>4 DEF Fail
  <2> HIDE DEF cl
  <2>1. \A j \in 1..Len(outbox) : outbox'[j] \in Row /\ outbox'[j].cmd = outbox[j].cmd
    BY <2>3, <2>4, RowsTyped DEF Row, OutboxRow
  <2>2. outbox' = [j \in 1..Len(outbox) |-> outbox'[j]] /\ tick' \in Nat
    BY <1>4, RowsTyped DEF Fail
  <2> QED
    BY <2>1, <2>2, RowsTyped, SeqLike DEF RowsStep
<1> QED
  BY <1>1, <1>2, <1>3, <1>4

(* The transactions of a reconciler.                                       *)
LEMMA ReconcilerRows ==
    ASSUME TypeOK, NEW r \in Reconcilers, NEW i \in 1..Len(outbox), NEW a,
           ReconcilerClaim(r, i) \/ ReconcilerResolve(r, i, a) \/ ReconcilerRelease(r, i)
    PROVE  RowsStep
<1>1. CASE ReconcilerClaim(r, i)
  <2>1. \A j \in 1..Len(outbox) : outbox'[j] \in Row /\ outbox'[j].cmd = outbox[j].cmd
    <3> SUFFICES ASSUME NEW j \in 1..Len(outbox)
                 PROVE  outbox'[j] \in Row /\ outbox'[j].cmd = outbox[j].cmd
      OBVIOUS
    <3>1. outbox[j] \in Row /\ outbox[i] \in Row
      BY RowsTyped
    <3>2. outbox[i].claims \in Nat
      BY <3>1 DEF Row, OutboxRow
    <3> DEFINE n == IF outbox[i].claims < Budget THEN outbox[i].claims + 1 ELSE outbox[i].claims
    <3>3. n \in Nat
      BY <3>2
    <3> HIDE DEF n
    <3>4. outbox' = [outbox EXCEPT ![i].owner = r, ![i].live = TRUE, ![i].claims = n]
      BY <1>1 DEF ReconcilerClaim, n
    <3> QED
      BY <3>1, <3>3, <3>4, RowsTyped DEF Row, OutboxRow
  <2>2. outbox' = [j \in 1..Len(outbox) |-> outbox'[j]] /\ tick' \in Nat
    BY <1>1, RowsTyped DEF ReconcilerClaim
  <2> QED
    BY <2>1, <2>2, RowsTyped, SeqLike DEF RowsStep
<1>2. CASE ReconcilerResolve(r, i, a)
  <2>1. \A j \in 1..Len(outbox) : outbox'[j] \in Row /\ outbox'[j].cmd = outbox[j].cmd
    BY <1>2, RowsTyped DEF ReconcilerResolve, Resolution, Row, OutboxRow, Closing
  <2>2. outbox' = [j \in 1..Len(outbox) |-> outbox'[j]] /\ tick' \in Nat
    BY <1>2, RowsTyped DEF ReconcilerResolve
  <2> QED
    BY <2>1, <2>2, RowsTyped, SeqLike DEF RowsStep
<1>3. CASE ReconcilerRelease(r, i)
  <2>1. \A j \in 1..Len(outbox) : outbox'[j] \in Row /\ outbox'[j].cmd = outbox[j].cmd
    BY <1>3, RowsTyped DEF ReconcilerRelease, Row, OutboxRow
  <2>2. outbox' = [j \in 1..Len(outbox) |-> outbox'[j]] /\ tick' \in Nat
    BY <1>3, RowsTyped DEF ReconcilerRelease
  <2> QED
    BY <2>1, <2>2, RowsTyped, SeqLike DEF RowsStep
<1> QED
  BY <1>1, <1>2, <1>3

(* The operator's mutations.                                               *)
LEMMA OperatorRows ==
    ASSUME TypeOK, NEW c \in Commands, CancelRows(c) \/ ReconcileRows(c)
    PROVE  RowsStep
<1>1. CASE CancelRows(c)
  <2>1. \A j \in 1..Len(outbox) : outbox'[j] \in Row /\ outbox'[j].cmd = outbox[j].cmd
    BY <1>1, RowsTyped DEF CancelRows, Row, OutboxRow, Closing
  <2>2. outbox' = [j \in 1..Len(outbox) |-> outbox'[j]] /\ tick' \in Nat
    BY <1>1, RowsTyped DEF CancelRows
  <2> QED
    BY <2>1, <2>2, RowsTyped, SeqLike DEF RowsStep
<1>2. CASE ReconcileRows(c)
  <2> DEFINE n == tick + 1
  <2>3. n \in Nat
    BY RowsTyped
  <2>4. /\ tick' = n
        /\ outbox' = [i \in RowIds |->
             IF outbox[i].cmd = c /\ outbox[i].closed = {}
             THEN [outbox[i] EXCEPT !.since = IF @ = 0 THEN n ELSE @,
                                    !.owner = IF outbox[i].live THEN @ ELSE Nobody]
             ELSE outbox[i]]
    BY <1>2 DEF ReconcileRows
  <2> HIDE DEF n
  <2>1. \A j \in 1..Len(outbox) : outbox'[j] \in Row /\ outbox'[j].cmd = outbox[j].cmd
    BY <2>3, <2>4, RowsTyped DEF Row, OutboxRow
  <2>2. outbox' = [j \in 1..Len(outbox) |-> outbox'[j]] /\ tick' \in Nat
    BY <2>3, <2>4, RowsTyped
  <2> QED
    BY <2>1, <2>2, RowsTyped, SeqLike DEF RowsStep
<1> QED
  BY <1>1, <1>2

(* The clock.                                                              *)
LEMMA ExpireRows ==
    ASSUME TypeOK, NEW i \in 1..Len(outbox), LeaseExpires(i)
    PROVE  RowsStep
<1>1. \A j \in 1..Len(outbox) : outbox'[j] \in Row /\ outbox'[j].cmd = outbox[j].cmd
  BY RowsTyped DEF LeaseExpires, Row, OutboxRow
<1>2. outbox' = [j \in 1..Len(outbox) |-> outbox'[j]] /\ tick' \in Nat
  BY RowsTyped DEF LeaseExpires
<1> QED
  BY <1>1, <1>2, RowsTyped, SeqLike DEF RowsStep

(* A new intent.                                                           *)
LEMMA InsertRows ==
    ASSUME TypeOK, NEW c \in Commands, InsertRow(c)
    PROVE  /\ outbox' \in Seq(Row)
           /\ Len(outbox') = Len(outbox) + 1
           /\ \A j \in 1..Len(outbox) : outbox'[j] = outbox[j]
           /\ outbox'[Len(outbox) + 1] = NewRow(c)
           /\ tick' = tick
<1>1. NewRow(c) \in Row
  BY DEF NewRow, Row, OutboxRow, Closing
<1> QED
  BY <1>1, RowsTyped DEF InsertRow

----------------------------------------------------------------------------
(* The ledger operators keep the type of the ledger.                       *)
LEMMA LedgerTyped ==
    ASSUME LedgerTypeOK, NEW c \in Commands, NEW new \in CommandState, NEW v \in Nat,
           NEW fence, NEW matched \in BOOLEAN,
           \/ SubmitCommand(c) \/ Transition(c, new, fence) \/ ReconcileVerdict(c, matched, v)
           \/ RecordDeadLetter(c) \/ Mutated(c, new) \/ MutateReconcile(c) \/ MutateRetry(c)
           \/ UNCHANGED ledgerVars
    PROVE  LedgerTypeOK'
<1>1. CASE SubmitCommand(c)
  BY <1>1 DEF SubmitCommand, LedgerTypeOK, CommandRow, NoCommand, CommandState
<1>2. CASE Transition(c, new, fence)
  <2> DEFINE n == IF new = "dispatching" THEN cmd[c].attempts + 1 ELSE cmd[c].attempts
  <2>1. n \in Nat
    BY DEF LedgerTypeOK, CommandRow
  <2> HIDE DEF n
  <2>2. cmd' = [cmd EXCEPT ![c].state = new, ![c].attempts = n] /\ UNCHANGED deadLetters
    BY <1>2 DEF Transition, n
  <2> QED
    BY <2>1, <2>2 DEF LedgerTypeOK, CommandRow
<1>3. CASE ReconcileVerdict(c, matched, v)
  BY <1>3 DEF ReconcileVerdict, LedgerTypeOK, CommandRow, CommandState
<1>4. CASE RecordDeadLetter(c)
  BY <1>4 DEF RecordDeadLetter, LedgerTypeOK
<1>5. CASE Mutated(c, new)
  BY <1>5 DEF Mutated, LedgerTypeOK, CommandRow
<1>6. CASE MutateReconcile(c)
  BY <1>6 DEF MutateReconcile, Mutated, LedgerTypeOK, CommandRow, CommandState
<1>7. CASE MutateRetry(c)
  BY <1>7 DEF MutateRetry, LedgerTypeOK, CommandRow, CommandState
<1>8. CASE UNCHANGED ledgerVars
  BY <1>8 DEF ledgerVars, LedgerTypeOK
<1> QED
  BY <1>1, <1>2, <1>3, <1>4, <1>5, <1>6, <1>7, <1>8

----------------------------------------------------------------------------
(* Type correctness needs RowsExist: the command a process works on is the *)
(* one its row names.                                                      *)
TInv == TypeOK /\ RowsExist

\* Rows are only added, and a row never changes its command.
RowsKept ==
    /\ outbox' \in Seq(Row)
    /\ Len(outbox') \in Nat
    /\ Len(outbox') >= Len(outbox)
    /\ \A j \in 1..Len(outbox) : outbox'[j].cmd = outbox[j].cmd
    /\ tick' \in Nat

(* A transaction on one outbox row keeps the number of rows and their      *)
(* commands.                                                               *)
LEMMA KeptByStep == ASSUME TypeOK, RowsStep PROVE RowsKept
BY RowsTyped DEF RowsStep, RowsKept

(* A step that leaves the outbox alone keeps its rows.                     *)
LEMMA KeptByStutter == ASSUME TypeOK, UNCHANGED outboxVars PROVE RowsKept
BY RowsTyped DEF outboxVars, RowsKept

(* submit and retry append a row and keep the ones there are.              *)
LEMMA KeptByInsert == ASSUME TypeOK, NEW c \in Commands, InsertRow(c) PROVE RowsKept
BY InsertRows, RowsTyped DEF RowsKept

\* Worker w moves to local state new, on a row of the outbox unless it goes idle.
WorkerMoves(w, new) ==
    /\ new \in WorkerState
    /\ worker' = [worker EXCEPT ![w] = new]
    /\ new.pc = "idle" \/ new.row \in 1..Len(outbox)

ReconMoves(r, new) ==
    /\ new \in ReconState
    /\ recon' = [recon EXCEPT ![r] = new]
    /\ new.pc = "idle" \/ new.row \in 1..Len(outbox)

(* The parts of TInv, put together.                                        *)
LEMMA TInvStep ==
    ASSUME TInv, LedgerTypeOK', RowsKept,
           requests' \in [Commands -> Seq(RequestState)],
           UNCHANGED worker \/ \E w \in Workers, new \in WorkerState : WorkerMoves(w, new),
           UNCHANGED recon \/ \E r \in Reconcilers, new \in ReconState : ReconMoves(r, new)
    PROVE  TInv'
<1>1. /\ worker \in [Workers -> WorkerState]
      /\ \A w \in Workers : worker[w].pc # "idle" => worker[w].row \in 1..Len(outbox)
  BY DEF TInv, TypeOK, RowsExist, At
<1>2. /\ recon \in [Reconcilers -> ReconState]
      /\ \A r \in Reconcilers : recon[r].pc # "idle" => recon[r].row \in 1..Len(outbox)
  BY DEF TInv, TypeOK, RowsExist, RAt
<1>3. 1..Len(outbox) \subseteq 1..Len(outbox')
  BY RowsTyped DEF TInv, RowsKept
<1>4. /\ worker' \in [Workers -> WorkerState]
      /\ \A w \in Workers : worker'[w].pc # "idle" => worker'[w].row \in 1..Len(outbox)
  <2>1. CASE UNCHANGED worker
    BY <1>1, <2>1
  <2>2. ASSUME NEW w \in Workers, NEW new \in WorkerState, WorkerMoves(w, new)
        PROVE  /\ worker' \in [Workers -> WorkerState]
               /\ \A v \in Workers : worker'[v].pc # "idle" => worker'[v].row \in 1..Len(outbox)
    BY <1>1, <2>2 DEF WorkerMoves
  <2> QED
    BY <2>1, <2>2
<1>5. /\ recon' \in [Reconcilers -> ReconState]
      /\ \A r \in Reconcilers : recon'[r].pc # "idle" => recon'[r].row \in 1..Len(outbox)
  <2>1. CASE UNCHANGED recon
    BY <1>2, <2>1
  <2>2. ASSUME NEW r \in Reconcilers, NEW new \in ReconState, ReconMoves(r, new)
        PROVE  /\ recon' \in [Reconcilers -> ReconState]
               /\ \A q \in Reconcilers : recon'[q].pc # "idle" => recon'[q].row \in 1..Len(outbox)
    BY <1>2, <2>2 DEF ReconMoves
  <2> QED
    BY <2>1, <2>2
<1>6. TypeOK'
  BY <1>4, <1>5 DEF TypeOK, RowsKept, Row
<1>7. RowsExist'
  BY <1>3, <1>4, <1>5 DEF RowsExist, At, RAt
<1> QED
  BY <1>6, <1>7 DEF TInv

----------------------------------------------------------------------------
(* A worker inside run_once, and a reconciler inside its own.              *)
LEMMA WorkerAt ==
    ASSUME TInv, NEW w \in Workers
    PROVE  /\ worker[w] \in WorkerState
           /\ worker \in [Workers -> WorkerState]
           /\ IdleWorker \in WorkerState
           /\ ~At(w, "idle") => /\ worker[w].row \in 1..Len(outbox)
                                /\ CommandOf(w) \in Commands
                                /\ cmd[CommandOf(w)] \in CommandRow
<1>1. worker \in [Workers -> WorkerState] /\ worker[w] \in WorkerState
  BY DEF TInv, TypeOK
<1>2. IdleWorker \in WorkerState
  BY DEF IdleWorker, WorkerState, WorkerPC, CommandState, NoAnswer
<1>3. ASSUME ~At(w, "idle")
      PROVE  /\ worker[w].row \in 1..Len(outbox)
             /\ CommandOf(w) \in Commands
             /\ cmd[CommandOf(w)] \in CommandRow
  <2>1. worker[w].row \in 1..Len(outbox)
    BY <1>3 DEF TInv, RowsExist
  <2>2. outbox[worker[w].row] \in Row
    BY <2>1, RowsTyped DEF TInv
  <2>3. CommandOf(w) \in Commands
    BY <2>2 DEF CommandOf, Row, OutboxRow
  <2> QED
    BY <2>1, <2>3 DEF TInv, TypeOK, LedgerTypeOK
<1> QED
  BY <1>1, <1>2, <1>3

(* The types of what a reconciler remembers between its transactions.      *)
LEMMA ReconAt ==
    ASSUME TInv, NEW r \in Reconcilers
    PROVE  /\ recon[r] \in ReconState
           /\ recon \in [Reconcilers -> ReconState]
           /\ IdleRecon \in ReconState
           /\ ~RAt(r, "idle") => /\ recon[r].row \in 1..Len(outbox)
                                 /\ RCommandOf(r) \in Commands
                                 /\ cmd[RCommandOf(r)] \in CommandRow
<1>1. recon \in [Reconcilers -> ReconState] /\ recon[r] \in ReconState
  BY DEF TInv, TypeOK
<1>2. IdleRecon \in ReconState
  BY DEF IdleRecon, ReconState, ReconPC, NoAnswer
<1>3. ASSUME ~RAt(r, "idle")
      PROVE  /\ recon[r].row \in 1..Len(outbox)
             /\ RCommandOf(r) \in Commands
             /\ cmd[RCommandOf(r)] \in CommandRow
  <2>1. recon[r].row \in 1..Len(outbox)
    BY <1>3 DEF TInv, RowsExist
  <2>2. outbox[recon[r].row] \in Row
    BY <2>1, RowsTyped DEF TInv
  <2>3. RCommandOf(r) \in Commands
    BY <2>2 DEF RCommandOf, Row, OutboxRow
  <2> QED
    BY <2>1, <2>3 DEF TInv, TypeOK, LedgerTypeOK
<1> QED
  BY <1>1, <1>2, <1>3

(* The shapes a worker's next local state takes.                           *)
LEMMA Moves ==
    ASSUME TInv, NEW w \in Workers
    PROVE  /\ Leave(w) => WorkerMoves(w, IdleWorker)
           /\ \A pc \in WorkerPC : ~At(w, "idle") =>
                 /\ Then(w, pc) \in WorkerState
                 /\ Then(w, pc).row = worker[w].row
                 /\ Finish(w, pc) \in WorkerState
                 /\ Finish(w, pc).row = worker[w].row
                 /\ Goto(w, pc) => WorkerMoves(w, Then(w, pc))
<1>1. Leave(w) => WorkerMoves(w, IdleWorker)
  BY WorkerAt DEF Leave, WorkerMoves, IdleWorker
<1>2. ASSUME NEW pc \in WorkerPC, ~At(w, "idle")
      PROVE  /\ Then(w, pc) \in WorkerState
             /\ Then(w, pc).row = worker[w].row
  BY <1>2, WorkerAt DEF Then, WorkerState
<1>3. ASSUME NEW pc \in WorkerPC, ~At(w, "idle")
      PROVE  /\ Finish(w, pc) \in WorkerState
             /\ Finish(w, pc).row = worker[w].row
  BY <1>3, WorkerAt DEF Finish, WorkerState, IdleWorker
<1>4. ASSUME NEW pc \in WorkerPC, ~At(w, "idle"), Goto(w, pc)
      PROVE  WorkerMoves(w, Then(w, pc))
  BY <1>2, <1>4, WorkerAt DEF Goto, Then, WorkerMoves
<1> QED
  BY <1>1, <1>2, <1>3, <1>4

(* A transition of the ledger by a worker, taken or refused.               *)
LEMMA LedgerStepTyped ==
    ASSUME TInv, NEW w \in Workers, ~At(w, "idle"), NEW new \in CommandState, NEW fence,
           NEW next \in WorkerState, next.pc = "idle" \/ next.row = worker[w].row,
           Ledger(w, new, fence, next)
    PROVE  TInv'
<1>1. LedgerTypeOK'
  BY WorkerAt, LedgerTyped DEF Ledger, TInv, TypeOK
<1>2. RowsKept
  BY KeptByStutter DEF Ledger, TInv
<1>3. requests' \in [Commands -> Seq(RequestState)] /\ UNCHANGED recon
  BY DEF Ledger, TInv, TypeOK
<1>4. \E n \in WorkerState : WorkerMoves(w, n)
  <2>1. Leave(w) => WorkerMoves(w, IdleWorker)
    BY Moves
  <2>2. worker' = [worker EXCEPT ![w] = next] => WorkerMoves(w, next)
    BY WorkerAt DEF WorkerMoves
  <2> QED
    BY <2>1, <2>2, WorkerAt DEF Ledger
<1> QED
  BY <1>1, <1>2, <1>3, <1>4, TInvStep

(* A worker step that touches nothing shared.                              *)
LEMMA LocalStepTyped ==
    ASSUME TInv, NEW w \in Workers, NEW new \in WorkerState, WorkerMoves(w, new),
           UNCHANGED <<ledgerVars, outboxVars, recon, requests>>
    PROVE  TInv'
<1>1. LedgerTypeOK' /\ requests' \in [Commands -> Seq(RequestState)]
  BY DEF TInv, TypeOK, LedgerTypeOK, ledgerVars
<1>2. RowsKept
  BY KeptByStutter DEF TInv
<1> QED
  BY <1>1, <1>2, TInvStep

(* A worker step that touches the outbox only.                             *)
LEMMA OutboxStepTyped ==
    ASSUME TInv, NEW w \in Workers, RowsKept, UNCHANGED <<ledgerVars, recon, requests>>,
           UNCHANGED worker \/ \E new \in WorkerState : WorkerMoves(w, new)
    PROVE  TInv'
<1>1. LedgerTypeOK' /\ requests' \in [Commands -> Seq(RequestState)]
  BY DEF TInv, TypeOK, LedgerTypeOK, ledgerVars
<1> QED
  BY <1>1, TInvStep

----------------------------------------------------------------------------
(* OutboxWorker.run_once around the handler.                               *)
LEMMA RunOnceTyped ==
    ASSUME TInv, NEW w \in Workers,
           \/ WorkerClaim(w) \/ WorkerClaimNothing(w) \/ GateDenies(w) \/ StartHandler(w)
           \/ Heartbeat(w) \/ WorkerCrash(w)
           \/ Resolve(w, "returning", "complete") \/ Resolve(w, "retrying", "retry")
    PROVE  TInv'
<1> USE DEF TInv
<1>1. CASE WorkerClaim(w)
  <2>1. PICK i \in RowIds :
           /\ Claim(w, i)
           /\ worker' = [worker EXCEPT ![w].pc = "claimed", ![w].row = i,
                                       ![w].token = outbox'[i].token]
    BY <1>1 DEF WorkerClaim
  <2> DEFINE t == outbox'[i].token
             new == [worker[w] EXCEPT !.pc = "claimed", !.row = i, !.token = t]
  <2>2. i \in 1..Len(outbox) /\ i \in Nat /\ t \in Nat
    <3>1. i \in 1..Len(outbox) /\ i \in Nat
      BY RowsTyped
    <3>2. outbox' \in Seq(Row) /\ DOMAIN outbox' = 1..Len(outbox)
      BY <2>1, ClaimRows DEF RowsStep
    <3>3. outbox'[i] \in Row
      BY <3>1, <3>2
    <3> QED
      BY <3>1, <3>3 DEF Row, OutboxRow
  <2>3. worker' = [worker EXCEPT ![w] = new]
    BY <2>1, WorkerAt
  <2> HIDE DEF t
  <2>4. new \in WorkerState /\ new.row = i
    BY <2>2, WorkerAt DEF WorkerState, WorkerPC
  <2>5. WorkerMoves(w, new)
    BY <2>2, <2>3, <2>4 DEF WorkerMoves
  <2>6. RowsKept
    BY <2>1, ClaimRows, KeptByStep
  <2> HIDE DEF new
  <2> QED
    BY <1>1, <2>4, <2>5, <2>6, OutboxStepTyped DEF WorkerClaim
<1>2. CASE WorkerClaimNothing(w)
  BY <1>2, ClaimNothingRows, KeptByStep, OutboxStepTyped DEF WorkerClaimNothing
<1>3. CASE GateDenies(w)
  <2>1. worker[w].row \in 1..Len(outbox)
    BY <1>3, WorkerAt DEF GateDenies, At
  <2>2. RowsKept
    BY <1>3, <2>1, WorkerRows, KeptByStep, KeptByStutter DEF GateDenies
  <2> QED
    BY <1>3, <2>2, Moves, WorkerAt, OutboxStepTyped DEF GateDenies
<1>4. CASE StartHandler(w)
  <2>1. worker[w].row \in 1..Len(outbox) /\ ~At(w, "idle")
    BY <1>4, WorkerAt DEF StartHandler, At
  <2>2. RowsKept
    BY <1>4, <2>1, WorkerRows, KeptByStep, KeptByStutter DEF StartHandler
  <2>3. "handling" \in WorkerPC
    BY DEF WorkerPC
  <2> QED
    BY <1>4, <2>1, <2>2, <2>3, Moves, WorkerAt, OutboxStepTyped DEF StartHandler
<1>5. CASE Heartbeat(w)
  <2>1. worker[w].row \in 1..Len(outbox)
    BY <1>5, WorkerAt DEF Heartbeat, At
  <2>2. RowsKept
    BY <1>5, <2>1, WorkerRows, KeptByStep DEF Heartbeat
  <2> QED
    BY <1>5, <2>2, OutboxStepTyped DEF Heartbeat
<1>6. CASE WorkerCrash(w)
  BY <1>6, Moves, WorkerAt, LocalStepTyped DEF WorkerCrash
<1>7. ASSUME NEW pc, NEW action, Resolve(w, pc, action), pc # "idle"
      PROVE  TInv'
  <2>1. worker[w].row \in 1..Len(outbox)
    BY <1>7, WorkerAt DEF Resolve, At
  <2>2. RowsKept
    BY <1>7, <2>1, WorkerRows, KeptByStep, KeptByStutter DEF Resolve
  <2> QED
    BY <1>7, <2>2, Moves, WorkerAt, OutboxStepTyped DEF Resolve
<1> QED
  BY <1>1, <1>2, <1>3, <1>4, <1>5, <1>6, <1>7

(* AdapterDispatch.                                                        *)
LEMMA DispatchTyped ==
    ASSUME TInv, NEW w \in Workers,
           \/ Dispatch(w) \/ Enqueue(w) \/ OpenAttempt(w) \/ LatestAttempt(w) \/ Send(w)
           \/ Answer(w) \/ Finalize(w) \/ Recover(w) \/ RecoverAccept(w)
           \/ ReadbackPending(w) \/ Readback(w) \/ Judge(w) \/ ReadForFail(w) \/ Refuse(w)
           \/ FailAttempt(w) \/ Requeue(w) \/ ExhaustRetries(w) \/ WorkerRecord(w)
    PROVE  TInv'
<1>0. /\ ~At(w, "idle")
      /\ worker[w] \in WorkerState
      /\ worker \in [Workers -> WorkerState]
      /\ IdleWorker \in WorkerState /\ IdleWorker.pc = "idle"
      /\ worker[w].row \in 1..Len(outbox)
      /\ CommandOf(w) \in Commands
      /\ cmd[CommandOf(w)] \in CommandRow
  <2>1. ~At(w, "idle")
    BY DEF At, Dispatch, Enqueue, OpenAttempt, LatestAttempt, Send, Answer, Finalize, Recover,
           RecoverAccept, ReadbackPending, Readback, Judge, ReadForFail, Refuse, FailAttempt,
           Requeue, ExhaustRetries, WorkerRecord
  <2> QED
    BY <2>1, WorkerAt DEF IdleWorker
<1> DEFINE c == CommandOf(w)
<1> USE DEF WorkerPC
<1>1. CASE Dispatch(w)
  <2>1. ASSUME NEW s \in CommandState, NEW pc \in WorkerPC,
               worker' = [worker EXCEPT ![w].seen = s, ![w].pc = pc]
        PROVE  \E new \in WorkerState : WorkerMoves(w, new)
    <3> DEFINE new == [worker[w] EXCEPT !.seen = s, !.pc = pc]
    <3>1. new \in WorkerState /\ new.row = worker[w].row
      BY <1>0 DEF WorkerState
    <3> QED
      BY <1>0, <2>1, <3>1 DEF WorkerMoves
  <2>2. cmd[c].state \in CommandState
    BY <1>0 DEF CommandRow
  <2>3. ASSUME NEW pc \in WorkerPC, Goto(w, pc)
        PROVE  \E new \in WorkerState : WorkerMoves(w, new)
    BY <1>0, <2>3, Moves
  <2>4. \/ Goto(w, "returning") \/ Goto(w, "failing") \/ Goto(w, "retrying")
        \/ worker' = [worker EXCEPT ![w].seen = cmd[c].state, ![w].pc = "recovering"]
        \/ worker' = [worker EXCEPT ![w].seen = cmd[c].state, ![w].pc = "opening"]
    BY <1>1 DEF Dispatch
  <2>5. \E new \in WorkerState : WorkerMoves(w, new)
    BY <2>1, <2>2, <2>3, <2>4
  <2> QED
    BY <1>1, <2>5, LocalStepTyped DEF Dispatch
<1>2. CASE Enqueue(w)
  <2> DEFINE next == [worker[w] EXCEPT !.seen = "queued"]
  <2>1. next \in WorkerState /\ next.row = worker[w].row /\ "queued" \in CommandState
    BY <1>0 DEF WorkerState, CommandState
  <2>2. Ledger(w, "queued", Unfenced, next)
    BY <1>2 DEF Enqueue
  <2> HIDE DEF next
  <2> QED
    BY <1>0, <2>1, <2>2, LedgerStepTyped
<1>3. CASE OpenAttempt(w)
  <2>1. LedgerTypeOK'
    BY <1>0, <1>3, LedgerTyped DEF OpenAttempt, TInv, TypeOK, CommandState
  <2>2. requests' \in [Commands -> Seq(RequestState)]
    <3>1. requests \in [Commands -> Seq(RequestState)]
      BY DEF TInv, TypeOK
    <3> DEFINE q == Append(requests[c], "open")
    <3>2. q \in Seq(RequestState)
      BY <1>0, <3>1 DEF RequestState
    <3>3. requests' = [requests EXCEPT ![c] = q] \/ requests' = requests
      BY <1>3 DEF OpenAttempt
    <3> HIDE DEF q
    <3> QED
      BY <3>1, <3>2, <3>3
  <2>3. RowsKept
    BY <1>3, KeptByStutter DEF OpenAttempt, TInv
  <2> DEFINE n == cmd[c].attempts + 1
             new == [worker[w] EXCEPT !.pc = "opened", !.own = n, !.seen = "absent"]
  <2>4. n \in Nat
    BY <1>0 DEF CommandRow
  <2>5. \/ worker' = [worker EXCEPT ![w] = new]
        \/ Leave(w)
    BY <1>0, <1>3 DEF OpenAttempt
  <2> HIDE DEF n
  <2>6. new \in WorkerState /\ new.row = worker[w].row
    BY <1>0, <2>4 DEF WorkerState, CommandState
  <2> HIDE DEF new
  <2>7. \E x \in WorkerState : WorkerMoves(w, x)
    BY <1>0, <2>5, <2>6, Moves DEF WorkerMoves
  <2>8. UNCHANGED recon
    BY <1>3 DEF OpenAttempt
  <2> QED
    BY <2>1, <2>2, <2>3, <2>7, <2>8, TInvStep
<1>4. CASE LatestAttempt(w)
  <2> DEFINE f == {cmd[c].attempts}
             new == [worker[w] EXCEPT !.pc = "executing", !.fence = f]
  <2>1. f \in SUBSET Nat
    BY <1>0 DEF CommandRow
  <2>2. worker' = [worker EXCEPT ![w] = new]
    BY <1>0, <1>4 DEF LatestAttempt
  <2> HIDE DEF f
  <2>3. new \in WorkerState /\ new.row = worker[w].row
    BY <1>0, <2>1 DEF WorkerState
  <2> HIDE DEF new
  <2> QED
    BY <1>0, <1>4, <2>2, <2>3, LocalStepTyped DEF LatestAttempt, WorkerMoves
<1>5. CASE Send(w)
  <2>1. requests' \in [Commands -> Seq(RequestState)]
    <3>1. PICK s \in {"sent", "refused"} :
             requests' = [requests EXCEPT ![c][worker[w].own] = s]
      BY <1>5 DEF Send
    <3>2. requests[c] \in Seq(RequestState) /\ requests \in [Commands -> Seq(RequestState)]
      BY <1>0 DEF TInv, TypeOK
    <3>3. s \in RequestState
      BY DEF RequestState
    <3> DEFINE q == [requests[c] EXCEPT ![worker[w].own] = s]
    <3>4. q \in Seq(RequestState)
      BY <3>2, <3>3, SeqExcept
    <3>5. requests' = [requests EXCEPT ![c] = q]
      BY <3>1, <3>2
    <3> HIDE DEF q
    <3> QED
      BY <3>2, <3>4, <3>5
  <2>2. LedgerTypeOK'
    BY <1>5 DEF Send, TInv, TypeOK, LedgerTypeOK, ledgerVars
  <2>3. RowsKept /\ UNCHANGED recon
    BY <1>5, KeptByStutter DEF Send, TInv
  <2>4. \E x \in WorkerState : WorkerMoves(w, x)
    BY <1>0, <1>5, Moves DEF Send
  <2> QED
    BY <2>1, <2>2, <2>3, <2>4, TInvStep
<1>6. ASSUME NEW pc \in WorkerPC, NEW a \in Outcome \cup ReadbackStatus,
             worker' = [worker EXCEPT ![w].pc = pc, ![w].answer = a]
      PROVE  \E new \in WorkerState : WorkerMoves(w, new)
  <2> DEFINE new == [worker[w] EXCEPT !.pc = pc, !.answer = a]
  <2>1. new \in WorkerState /\ new.row = worker[w].row
    BY <1>0 DEF WorkerState
  <2> QED
    BY <1>0, <1>6, <2>1 DEF WorkerMoves
<1>7. CASE Answer(w)
  <2>1. \A s : PossibleOutcome(s) \subseteq Outcome
    BY DEF PossibleOutcome, Outcome
  <2> QED
    BY <1>6, <1>7, <2>1, LocalStepTyped DEF Answer
<1>8. CASE Readback(w)
  <2>1. PossibleReadback(c) \subseteq ReadbackStatus
    BY DEF PossibleReadback, ReadbackStatus
  <2> QED
    BY <1>6, <1>8, <2>1, LocalStepTyped DEF Readback
<1>9. ASSUME NEW pc \in WorkerPC, NEW new \in CommandState, NEW fence,
             Ledger(w, new, fence, Then(w, pc)) \/ Ledger(w, new, fence, Finish(w, pc))
             \/ Ledger(w, new, fence, IdleWorker)
      PROVE  TInv'
  BY <1>0, <1>9, Moves, LedgerStepTyped
<1>10. CASE Finalize(w)
  BY <1>0, <1>9, <1>10, Moves, LocalStepTyped DEF Finalize, CommandState
<1>11. CASE Recover(w)
  <2> DEFINE f == {cmd[c].attempts}
             pc == IF worker[w].seen = "dispatching" THEN "recovered" ELSE "accepted"
             new == [worker[w] EXCEPT !.pc = pc, !.fence = f, !.seen = "absent"]
  <2>1. f \in SUBSET Nat /\ pc \in WorkerPC
    BY <1>0 DEF CommandRow
  <2>2. worker' = [worker EXCEPT ![w] = new]
    BY <1>0, <1>11 DEF Recover
  <2> HIDE DEF f, pc
  <2>3. new \in WorkerState /\ new.row = worker[w].row
    BY <1>0, <2>1 DEF WorkerState, CommandState
  <2> HIDE DEF new
  <2> QED
    BY <1>0, <1>11, <2>2, <2>3, LocalStepTyped DEF Recover, WorkerMoves
<1>12. CASE RecoverAccept(w)
  BY <1>9, <1>12 DEF RecoverAccept, CommandState
<1>13. CASE ReadbackPending(w)
  BY <1>9, <1>13 DEF ReadbackPending, CommandState
<1>14. CASE Judge(w)
  BY <1>9, <1>14 DEF Judge, CommandState
<1>15. CASE ReadForFail(w)
  <2> DEFINE s == cmd[c].state
             new == [worker[w] EXCEPT !.pc = "refusing", !.seen = s]
  <2>1. s \in CommandState
    BY <1>0 DEF CommandRow
  <2>2. \/ Goto(w, "failed")
        \/ worker' = [worker EXCEPT ![w] = Finish(w, "retrying")]
        \/ worker' = [worker EXCEPT ![w] = new]
    BY <1>15 DEF ReadForFail
  <2> HIDE DEF s
  <2>3. new \in WorkerState /\ new.row = worker[w].row
    BY <1>0, <2>1 DEF WorkerState
  <2> HIDE DEF new
  <2>4. \E x \in WorkerState : WorkerMoves(w, x)
    BY <1>0, <2>2, <2>3, Moves DEF WorkerMoves
  <2> QED
    BY <1>15, <2>4, LocalStepTyped DEF ReadForFail
<1>16. CASE Refuse(w)
  <2> DEFINE next == [worker[w] EXCEPT !.seen = "queued"]
  <2>1. next \in WorkerState /\ next.row = worker[w].row /\ "queued" \in CommandState
    BY <1>0 DEF WorkerState, CommandState
  <2>2. \/ Ledger(w, "queued", Unfenced, next)
        \/ Ledger(w, "dead_lettered", Unfenced, Then(w, "recording"))
    BY <1>16 DEF Refuse
  <2> HIDE DEF next
  <2> QED
    BY <1>0, <1>9, <2>1, <2>2, LedgerStepTyped DEF CommandState
<1>17. CASE FailAttempt(w)
  <2>1. \/ Ledger(w, "failed", worker[w].fence, Then(w, "requeueing"))
        \/ Ledger(w, "failed", worker[w].fence, Then(w, "recording"))
    BY <1>17 DEF FailAttempt
  <2> QED
    BY <1>9, <2>1 DEF CommandState
<1>18. CASE Requeue(w)
  BY <1>9, <1>18 DEF Requeue, CommandState
<1>19. CASE ExhaustRetries(w)
  BY <1>9, <1>19 DEF ExhaustRetries, CommandState
<1>20. CASE WorkerRecord(w)
  <2>1. LedgerTypeOK' /\ requests' \in [Commands -> Seq(RequestState)]
    BY <1>0, <1>20 DEF WorkerRecord, RecordDeadLetter, TInv, TypeOK, LedgerTypeOK
  <2>2. RowsKept /\ UNCHANGED recon
    BY <1>20, KeptByStutter DEF WorkerRecord, TInv
  <2>3. \/ worker' = [worker EXCEPT ![w] = Finish(w, "retrying")]
        \/ worker' = [worker EXCEPT ![w] = Finish(w, "returning")]
    BY <1>20 DEF WorkerRecord
  <2>4. \E x \in WorkerState : WorkerMoves(w, x)
    BY <1>0, <2>3, Moves DEF WorkerMoves
  <2> QED
    BY <2>1, <2>2, <2>4, TInvStep
<1> QED
  BY <1>1, <1>2, <1>3, <1>4, <1>5, <1>7, <1>8, <1>10, <1>11, <1>12, <1>13, <1>14, <1>15,
     <1>16, <1>17, <1>18, <1>19, <1>20

----------------------------------------------------------------------------
(* Reconciler.run_once.                                                    *)
LEMMA ReconMovesTo ==
    ASSUME TInv, NEW r \in Reconcilers
    PROVE  /\ RLeave(r) => ReconMoves(r, IdleRecon)
           /\ \A pc \in ReconPC : ~RAt(r, "idle") /\ RFinish(r, pc) =>
                 \E new \in ReconState : ReconMoves(r, new)
<1>1. RLeave(r) => ReconMoves(r, IdleRecon)
  BY ReconAt DEF RLeave, ReconMoves, IdleRecon
<1>2. ASSUME NEW pc \in ReconPC, ~RAt(r, "idle"), RFinish(r, pc)
      PROVE  \E new \in ReconState : ReconMoves(r, new)
  <2> DEFINE new == [IdleRecon EXCEPT !.pc = pc, !.row = recon[r].row]
  <2>1. new \in ReconState /\ new.row = recon[r].row
    BY <1>2, ReconAt DEF IdleRecon, ReconState
  <2>2. recon' = [recon EXCEPT ![r] = new]
    BY <1>2 DEF RFinish
  <2> HIDE DEF new
  <2> QED
    BY <1>2, <2>1, <2>2, ReconAt DEF ReconMoves
<1> QED
  BY <1>1, <1>2

(* Every step of run_once of the reconciler, and its death, keeps the      *)
(* types.                                                                  *)
LEMMA ReconcilerTyped ==
    ASSUME TInv, NEW r \in Reconcilers, ReconStep(r) \/ ReconCrash(r)
    PROVE  TInv'
<1>1. CASE RClaim(r)
  <2>1. PICK i \in RowIds :
           /\ ReconcilerClaim(r, i)
           /\ recon' = [recon EXCEPT ![r].pc = "claimed", ![r].row = i,
                                     ![r].spent = outbox[i].claims + 1 >= Budget]
    BY <1>1 DEF RClaim
  <2> DEFINE sp == outbox[i].claims + 1 >= Budget
             new == [recon[r] EXCEPT !.pc = "claimed", !.row = i, !.spent = sp]
  <2>2. i \in 1..Len(outbox) /\ i \in Nat
    BY RowsTyped DEF TInv
  <2>3. sp \in BOOLEAN
    OBVIOUS
  <2>4. recon' = [recon EXCEPT ![r] = new]
    BY <2>1, ReconAt
  <2> HIDE DEF sp
  <2>5. new \in ReconState /\ new.row = i
    BY <2>2, <2>3, ReconAt DEF ReconState, ReconPC
  <2> HIDE DEF new
  <2>6. \E x \in ReconState : ReconMoves(r, x)
    BY <2>2, <2>4, <2>5 DEF ReconMoves
  <2>7. RowsKept
    BY <2>1, <2>2, ReconcilerRows, KeptByStep DEF TInv
  <2>8. LedgerTypeOK' /\ requests' \in [Commands -> Seq(RequestState)] /\ UNCHANGED worker
    BY <1>1 DEF RClaim, TInv, TypeOK, LedgerTypeOK, ledgerVars
  <2> QED
    BY <2>6, <2>7, <2>8, TInvStep
<1> SUFFICES ASSUME ~RClaim(r)
             PROVE  TInv'
  BY <1>1
<1>0. /\ ~RAt(r, "idle")
      /\ UNCHANGED <<worker, requests>>
      /\ recon[r] \in ReconState
      /\ recon \in [Reconcilers -> ReconState]
      /\ IdleRecon \in ReconState
      /\ recon[r].row \in 1..Len(outbox)
      /\ RCommandOf(r) \in Commands
      /\ cmd[RCommandOf(r)] \in CommandRow
  <2>1. ~RAt(r, "idle") /\ UNCHANGED <<worker, requests>>
    BY DEF RAt, ReconStep, ReconCrash, RGet, RAttempt, RReadback, RJudge, RBury, RRecord,
           RResolve, RRelease
  <2> QED
    BY <2>1, ReconAt
<1> USE DEF ReconPC
<1> DEFINE Moved == \E x \in ReconState : ReconMoves(r, x)
<1>2. ASSUME LedgerTypeOK', RowsKept, Moved
      PROVE  TInv'
  BY <1>0, <1>2, TInvStep DEF TInv, TypeOK
<1>3. ASSUME UNCHANGED ledgerVars
      PROVE  LedgerTypeOK'
  BY <1>3 DEF TInv, TypeOK, LedgerTypeOK, ledgerVars
<1>4. ASSUME UNCHANGED outboxVars
      PROVE  RowsKept
  BY <1>4, KeptByStutter DEF TInv
<1>5. ASSUME NEW pc \in ReconPC, RFinish(r, pc) \/ RLeave(r)
      PROVE  Moved
  BY <1>0, <1>5, ReconMovesTo
<1> HIDE DEF Moved
<1>6. CASE RGet(r)
  <2>1. ASSUME recon' = [recon EXCEPT ![r].pc = "owned", ![r].version = cmd[RCommandOf(r)].version]
        PROVE  Moved
    <3> DEFINE v == cmd[RCommandOf(r)].version
               new == [recon[r] EXCEPT !.pc = "owned", !.version = v]
    <3>1. v \in Nat /\ recon' = [recon EXCEPT ![r] = new]
      BY <1>0, <2>1 DEF CommandRow
    <3> HIDE DEF v
    <3>2. new \in ReconState /\ new.row = recon[r].row
      BY <1>0, <3>1 DEF ReconState
    <3> HIDE DEF new
    <3> QED
      BY <1>0, <3>1, <3>2 DEF ReconMoves, Moved
  <2>2. Moved
    BY <1>5, <1>6, <2>1 DEF RGet
  <2> QED
    BY <1>2, <1>3, <1>4, <1>6, <2>2 DEF RGet
<1>7. CASE RAttempt(r)
  <2> DEFINE a == cmd[RCommandOf(r)].attempts
  <2>1. PICK next \in {"reading", "burying"} :
           recon' = [recon EXCEPT ![r].pc = next, ![r].attempt = a]
    BY <1>7 DEF RAttempt
  <2> DEFINE new == [recon[r] EXCEPT !.pc = next, !.attempt = a]
  <2>2. a \in Nat /\ recon' = [recon EXCEPT ![r] = new]
    BY <1>0, <2>1 DEF CommandRow
  <2> HIDE DEF a
  <2>3. new \in ReconState /\ new.row = recon[r].row
    BY <1>0, <2>2 DEF ReconState
  <2> HIDE DEF new
  <2>4. Moved
    BY <1>0, <2>2, <2>3 DEF ReconMoves, Moved
  <2> QED
    BY <1>2, <1>3, <1>4, <1>7, <2>4 DEF RAttempt
<1>8. CASE RReadback(r)
  <2>1. PICK v \in PossibleReadback(RCommandOf(r)) :
           recon' = [recon EXCEPT ![r].pc = "judging", ![r].answer = v]
    BY <1>8 DEF RReadback
  <2>2. v \in ReadbackStatus
    BY DEF PossibleReadback, ReadbackStatus
  <2> DEFINE new == [recon[r] EXCEPT !.pc = "judging", !.answer = v]
  <2>3. new \in ReconState /\ new.row = recon[r].row /\ recon' = [recon EXCEPT ![r] = new]
    BY <1>0, <2>1, <2>2 DEF ReconState
  <2> HIDE DEF new
  <2>4. Moved
    BY <1>0, <2>3 DEF ReconMoves, Moved
  <2> QED
    BY <1>2, <1>3, <1>4, <1>8, <2>4 DEF RReadback
<1>9. ASSUME NEW new \in CommandState, NEW fence, NEW next \in ReconPC, RLedger(r, new, fence, next)
      PROVE  LedgerTypeOK' /\ Moved
  BY <1>0, <1>3, <1>5, <1>9, LedgerTyped DEF RLedger, TInv, TypeOK
<1>10. ASSUME NEW matched \in BOOLEAN, NEW next \in ReconPC, FencedReconcile(r, matched, next)
       PROVE  LedgerTypeOK' /\ Moved
  <2>1. recon[r].version \in Nat
    BY <1>0 DEF ReconState
  <2>2. "absent" \in CommandState
    BY DEF CommandState
  <2> QED
    BY <1>0, <1>3, <1>5, <1>10, <2>1, <2>2, LedgerTyped DEF FencedReconcile, TInv, TypeOK
<1>11. CASE RJudge(r)
  <2> DEFINE undecided == IF recon[r].spent \/ recon[r].answer = "UNSUPPORTED"
                          THEN "exhausting" ELSE "release"
  <2>1. undecided \in ReconPC /\ "queued" \in CommandState
    BY DEF CommandState
  <2>2. \/ FencedReconcile(r, TRUE, "complete")
        \/ RLedger(r, "queued", {recon[r].attempt}, "retry")
        \/ FencedReconcile(r, FALSE, "burying")
        \/ FencedReconcile(r, FALSE, undecided)
        \/ RFinish(r, undecided) /\ UNCHANGED ledgerVars
    BY <1>11 DEF RJudge
  <2> HIDE DEF undecided
  <2>3. LedgerTypeOK' /\ Moved
    BY <1>3, <1>5, <1>9, <1>10, <2>1, <2>2
  <2> QED
    BY <1>2, <1>4, <1>11, <2>3 DEF RJudge
<1>12. CASE RBury(r)
  <2>1. "dead_lettered" \in CommandState
    BY DEF CommandState
  <2> QED
    BY <1>2, <1>4, <1>9, <1>12, <2>1 DEF RBury
<1>13. CASE RRecord(r)
  <2>1. LedgerTypeOK'
    BY <1>0, <1>13 DEF RRecord, RecordDeadLetter, TInv, TypeOK, LedgerTypeOK
  <2> QED
    BY <1>2, <1>4, <1>5, <1>13, <2>1 DEF RRecord
<1>14. CASE RResolve(r)
  <2>1. RowsKept
    BY <1>0, <1>4, <1>14, ReconcilerRows, KeptByStep DEF RResolve, TInv
  <2> QED
    BY <1>2, <1>3, <1>5, <1>14, <2>1 DEF RResolve
<1>15. CASE RRelease(r)
  <2>1. RowsKept
    BY <1>0, <1>4, <1>15, ReconcilerRows, KeptByStep DEF RRelease, TInv
  <2> QED
    BY <1>2, <1>3, <1>5, <1>15, <2>1 DEF RRelease
<1>16. CASE ReconCrash(r)
  BY <1>2, <1>3, <1>4, <1>5, <1>16 DEF ReconCrash
<1> QED
  BY <1>6, <1>7, <1>8, <1>11, <1>12, <1>13, <1>14, <1>15, <1>16 DEF ReconStep

----------------------------------------------------------------------------
(* The command service, the provider and the clock.                        *)
LEMMA ServiceTyped ==
    ASSUME TInv, NEW c \in Commands, Submit(c) \/ Cancel(c) \/ Reconcile(c) \/ Retry(c)
    PROVE  TInv'
<1>0. requests' \in [Commands -> Seq(RequestState)] /\ UNCHANGED <<worker, recon>>
  BY DEF Submit, Cancel, Reconcile, Retry, TInv, TypeOK
<1>1. CASE Submit(c)
  <2>1. LedgerTypeOK'
    BY <1>1 DEF Submit, SubmitCommand, TInv, TypeOK, LedgerTypeOK, CommandRow, NoCommand, CommandState
  <2> QED
    BY <1>0, <1>1, <2>1, KeptByInsert, TInvStep DEF Submit, TInv
<1>2. CASE Cancel(c)
  <2>1. PICK new \in CancelTo(c, ActiveLease(c)) :
           /\ Mutated(c, new)
           /\ IF new = "cancelled" THEN CancelRows(c) ELSE UNCHANGED outboxVars
    BY <1>2 DEF Cancel
  <2>2. new \in CommandState
    BY DEF CancelTo, CommandState
  <2>3. LedgerTypeOK'
    BY <2>1, <2>2, LedgerTyped DEF TInv, TypeOK
  <2>4. RowsKept
    BY <2>1, OperatorRows, KeptByStep, KeptByStutter DEF TInv
  <2> QED
    BY <1>0, <2>3, <2>4, TInvStep
<1>3. CASE Reconcile(c)
  <2>1. LedgerTypeOK'
    BY <1>3, LedgerTyped DEF Reconcile, TInv, TypeOK, CommandState
  <2>2. RowsKept
    BY <1>3, OperatorRows, KeptByStep DEF Reconcile, TInv
  <2> QED
    BY <1>0, <2>1, <2>2, TInvStep
<1>4. CASE Retry(c)
  <2>1. LedgerTypeOK'
    BY <1>4, LedgerTyped DEF Retry, TInv, TypeOK, CommandState
  <2> QED
    BY <1>0, <1>4, <2>1, KeptByInsert, TInvStep DEF Retry, TInv
<1> QED
  BY <1>1, <1>2, <1>3, <1>4

(* What the provider does with a request keeps the types.                  *)
LEMMA ProviderTyped ==
    ASSUME TInv, NEW c \in Commands, Provider(c)
    PROVE  TInv'
<1>1. PICK k \in DOMAIN requests[c], s \in {"applied", "refused"} :
         requests' = [requests EXCEPT ![c][k] = s]
  BY DEF Provider
<1>2. requests[c] \in Seq(RequestState) /\ requests \in [Commands -> Seq(RequestState)]
  BY DEF TInv, TypeOK
<1> DEFINE q == [requests[c] EXCEPT ![k] = s]
<1>3. q \in Seq(RequestState) /\ requests' = [requests EXCEPT ![c] = q]
  <2>1. s \in RequestState
    BY DEF RequestState
  <2> QED
    BY <1>1, <1>2, <2>1, SeqExcept
<1> HIDE DEF q
<1>4. requests' \in [Commands -> Seq(RequestState)]
  BY <1>2, <1>3
<1>5. LedgerTypeOK' /\ UNCHANGED <<worker, recon>>
  BY DEF Provider, TInv, TypeOK, LedgerTypeOK, ledgerVars
<1>6. RowsKept
  BY KeptByStutter DEF Provider, TInv
<1> QED
  BY <1>4, <1>5, <1>6, TInvStep

(* A lease that runs out keeps the types.                                  *)
LEMMA ExpireTyped ==
    ASSUME TInv, NEW i \in RowIds, Expire(i)
    PROVE  TInv'
<1>1. LedgerTypeOK' /\ requests' \in [Commands -> Seq(RequestState)] /\ UNCHANGED <<worker, recon>>
  BY DEF Expire, TInv, TypeOK, LedgerTypeOK, ledgerVars
<1>2. RowsKept
  BY RowsTyped, ExpireRows, KeptByStep DEF Expire, TInv
<1> QED
  BY <1>1, <1>2, TInvStep

(* Every step keeps TInv.                                                  *)
LEMMA TInvNext == TInv /\ [Next]_vars => TInv'
<1> SUFFICES ASSUME TInv, [Next]_vars
             PROVE  TInv'
  OBVIOUS
<1>1. CASE UNCHANGED vars
  BY <1>1 DEF vars, TInv, TypeOK, LedgerTypeOK, RowsExist, At, RAt
<1>2. ASSUME NEW w \in Workers, WorkerStep(w) \/ Heartbeat(w) \/ WorkerCrash(w)
      PROVE  TInv'
  BY <1>2, RunOnceTyped, DispatchTyped DEF WorkerStep
<1> QED
  BY <1>1, <1>2, ServiceTyped, ProviderTyped, ReconcilerTyped, ExpireTyped DEF Next

(* The empty stores with idle workers and reconcilers are typed.           *)
LEMMA TInvInit == Init => TInv
<1> SUFFICES ASSUME Init
             PROVE  TInv
  OBVIOUS
<1>1. LedgerTypeOK
  BY DEF Init, LedgerInit, LedgerTypeOK, CommandRow, NoCommand, CommandState
<1>2. outbox \in Seq(OutboxRow(Commands)) /\ tick \in Nat
  BY DEF Init, OutboxInit
<1>3. worker \in [Workers -> WorkerState] /\ \A w \in Workers : At(w, "idle")
  BY DEF Init, IdleWorker, WorkerState, WorkerPC, CommandState, NoAnswer, At
<1>4. recon \in [Reconcilers -> ReconState] /\ \A r \in Reconcilers : RAt(r, "idle")
  BY DEF Init, IdleRecon, ReconState, ReconPC, NoAnswer, RAt
<1>5. requests \in [Commands -> Seq(RequestState)]
  BY DEF Init
<1> QED
  BY <1>1, <1>2, <1>3, <1>4, <1>5 DEF TInv, TypeOK, RowsExist

(* Type correctness: for every number of commands, workers and             *)
(* reconcilers, every limit and every choice of faults, the ledger, the    *)
(* outbox, the local state of the processes and the provider's record stay *)
(* within their types.                                                     *)
THEOREM TypeCorrect == Spec => []TypeOK
<1>1. TInv => TypeOK
  BY DEF TInv
<1> QED
  BY <1>1, TInvInit, TInvNext, PTL DEF Spec

(* completed, dead_lettered and cancelled are final: no transition of the  *)
(* bus, verdict of the reconciler or mutation of an operator leaves them.  *)
THEOREM FinalStates == Spec => FinalStatesStay
<1> DEFINE Stay == \A c \in Commands :
              cmd[c].state \in {"completed", "dead_lettered", "cancelled"} =>
                  cmd'[c].state = cmd[c].state
<1>1. TInv /\ [Next]_vars => [Stay]_vars
  <2> SUFFICES ASSUME TInv, Next, NEW c \in Commands,
                      cmd[c].state \in {"completed", "dead_lettered", "cancelled"}
               PROVE  cmd'[c].state = cmd[c].state
    OBVIOUS
  <2>0. cmd \in [Commands -> CommandRow]
    BY DEF TInv, TypeOK, LedgerTypeOK
  <2>1. Allowed(cmd[c].state) = {} /\ \A x : CancelTo(c, x) = {} /\ ~Reconcilable(c)
    BY DEF Allowed, CancelTo, Reconcilable
  <2>2. ASSUME NEW d, NEW new, NEW fence, Transition(d, new, fence) \/ UNCHANGED ledgerVars
        PROVE  cmd'[c].state = cmd[c].state
    BY <2>0, <2>1, <2>2 DEF Transition, CanTransition, ledgerVars
  <2>3. ASSUME NEW d, NEW matched, NEW v, ReconcileVerdict(d, matched, v) \/ UNCHANGED ledgerVars
        PROVE  cmd'[c].state = cmd[c].state
    BY <2>0, <2>3 DEF ReconcileVerdict, CanReconcile, ledgerVars
  <2>4. ASSUME NEW d \in Commands, Submit(d) \/ Cancel(d) \/ Reconcile(d) \/ Retry(d) \/ Provider(d)
        PROVE  cmd'[c].state = cmd[c].state
    BY <2>0, <2>1, <2>4 DEF Submit, SubmitCommand, Cancel, Mutated, Reconcile, MutateReconcile,
       Retry, MutateRetry, Provider, ledgerVars
  <2>5. ASSUME NEW w \in Workers, WorkerStep(w) \/ Heartbeat(w) \/ WorkerCrash(w)
        PROVE  cmd'[c].state = cmd[c].state
    <3>1. ASSUME NEW new, NEW fence, NEW next, Ledger(w, new, fence, next)
          PROVE  cmd'[c].state = cmd[c].state
      BY <2>2, <3>1 DEF Ledger
    <3>2. CASE \/ Enqueue(w) \/ Finalize(w) \/ RecoverAccept(w) \/ ReadbackPending(w) \/ Judge(w)
               \/ Refuse(w) \/ FailAttempt(w) \/ Requeue(w) \/ ExhaustRetries(w)
      BY <3>1, <3>2, <2>2 DEF Enqueue, Finalize, RecoverAccept, ReadbackPending, Judge,
         Refuse, FailAttempt, Requeue, ExhaustRetries
    <3>3. CASE OpenAttempt(w)
      BY <2>2, <3>3 DEF OpenAttempt
    <3>4. CASE WorkerRecord(w)
      BY <3>4 DEF WorkerRecord, RecordDeadLetter
    <3> QED
      BY <2>5, <3>2, <3>3, <3>4 DEF WorkerStep, Heartbeat, WorkerCrash, WorkerClaim,
         WorkerClaimNothing, GateDenies, StartHandler, Dispatch, LatestAttempt, Send, Answer,
         Recover, Readback, ReadForFail, Resolve, ledgerVars
  <2>6. ASSUME NEW r \in Reconcilers, ReconStep(r) \/ ReconCrash(r)
        PROVE  cmd'[c].state = cmd[c].state
    <3>1. CASE RJudge(r) \/ RBury(r)
      BY <2>2, <2>3, <3>1 DEF RJudge, RBury, FencedReconcile, RLedger
    <3>2. CASE RRecord(r)
      BY <3>2 DEF RRecord, RecordDeadLetter
    <3> QED
      BY <2>6, <3>1, <3>2 DEF ReconStep, ReconCrash, RClaim, RGet, RAttempt, RReadback,
         RResolve, RRelease, ledgerVars
  <2>7. ASSUME NEW i \in RowIds, Expire(i)
        PROVE  cmd'[c].state = cmd[c].state
    BY <2>7 DEF Expire, ledgerVars
  <2> QED
    BY <2>4, <2>5, <2>6, <2>7 DEF Next
<1> QED
  BY <1>1, TInvInit, TInvNext, PTL DEF Spec, FinalStatesStay

============================================================================
