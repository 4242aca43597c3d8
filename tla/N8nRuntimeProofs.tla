-------------------------- MODULE N8nRuntimeProofs --------------------------
(***************************************************************************)
(* Safety of N8nRuntime for any executions, workers, faults and callbacks. *)
(* The argument for RunsAreAttempts counts: every attempt is a run, or is  *)
(* still in the hands of the worker that claimed it, or came to nothing.   *)
(***************************************************************************)
EXTENDS N8nRuntime, FiniteSetTheorems, TLAPS

N8nRow == [runs: Nat, calls: Nat]

(***************************************************************************)
(* The workers that have claimed x and have not posted it yet.             *)
(***************************************************************************)
Has(r, x) == x \in r.todo \/ r.x = x
Holders(d, x) == {w \in N8nWorkers : Has(d[w], x)}

DispOK(r) ==
    /\ r.pc \in {"recover", "expire", "claim"} => r.todo = {}
    /\ r.pc = "post" => r.x \in Execs /\ r.x \notin r.todo
    /\ r.pc # "post" => r.x = "none"

Accounted(row) ==
    /\ row.attempts <= N8nAttempts + row.reopened
    /\ row.status \in {"none", "PENDING"} => row.attempts = 0
    /\ row.status = "RETRY" => row.attempts < N8nAttempts + row.reopened

Rows(ex) == ex \in [Execs -> ExecRow] /\ \A x \in Execs : Accounted(ex[x])
Workers(d) ==
    d \in [N8nWorkers -> Dispatcher] /\ \A w \in N8nWorkers : DispOK(d[w])
Licensed(ex, d, n) ==
    \A x \in Execs : n[x].runs + Cardinality(Holders(d, x)) <= ex[x].attempts

RunsInv ==
    /\ Rows(exec) /\ Workers(disp)
    /\ n8n \in [Execs -> N8nRow]
    /\ Licensed(exec, disp, n8n)

(* The holders of an execution can be counted.                             *)
LEMMA HoldersFinite ==
    ASSUME NEW d, NEW x PROVE Cardinality(Holders(d, x)) \in Nat /\ IsFiniteSet(Holders(d, x))
<1>1. Holders(d, x) \in SUBSET N8nWorkers
  BY DEF Holders
<1>2. IsFiniteSet(Holders(d, x))
  BY <1>1, N8nConstants, FS_Subset
<1> QED
  BY <1>2, FS_CardinalityType

(* How the number of holders changes when one worker moves on.             *)
LEMMA HoldersMove ==
    ASSUME NEW d \in [N8nWorkers -> Dispatcher], NEW w \in N8nWorkers, NEW r, NEW x
    PROVE  LET h == Cardinality(Holders(d, x))
               k == Cardinality(Holders([d EXCEPT ![w] = r], x))
           IN /\ h \in Nat /\ k \in Nat /\ k <= h + 1
              /\ (Has(r, x) => Has(d[w], x)) => k <= h
              /\ Has(d[w], x) /\ ~Has(r, x) => k + 1 <= h
<1> DEFINE d2 == [d EXCEPT ![w] = r]
           H == Holders(d, x)
           K == Holders(d2, x)
<1>1. IsFiniteSet(H) /\ IsFiniteSet(K) /\ Cardinality(H) \in Nat /\ Cardinality(K) \in Nat
  BY HoldersFinite
<1>2. d2[w] = r /\ \A v \in N8nWorkers : v # w => d2[v] = d[v]
  OBVIOUS
<1> HIDE DEF d2
<1>3. \A v \in N8nWorkers : v # w => (v \in H <=> v \in K)
  BY <1>2 DEF Holders
<1>4. (w \in H <=> Has(d[w], x)) /\ (w \in K <=> Has(r, x))
  BY <1>2 DEF Holders
<1>5. H \subseteq N8nWorkers /\ K \subseteq N8nWorkers
  BY DEF Holders
<1> HIDE DEF H, K
<1>6. Cardinality(K) <= Cardinality(H) + 1
  <2>1. K \in SUBSET (H \cup {w})
    BY <1>3, <1>5
  <2>2. IsFiniteSet(H \cup {w}) /\ Cardinality(H \cup {w}) <= Cardinality(H) + 1
        /\ Cardinality(H \cup {w}) \in Nat
    <3>1. IsFiniteSet(H \cup {w})
          /\ Cardinality(H \cup {w}) = IF w \in H THEN Cardinality(H) ELSE Cardinality(H) + 1
      BY <1>1, FS_AddElement
    <3>2. Cardinality(H \cup {w}) \in Nat
      BY <3>1, FS_CardinalityType
    <3> QED
      BY <1>1, <3>1, <3>2
  <2>3. Cardinality(K) <= Cardinality(H \cup {w})
    BY <2>1, <2>2, FS_Subset
  <2> QED
    BY <1>1, <2>2, <2>3
<1>7. ASSUME Has(r, x) => Has(d[w], x) PROVE Cardinality(K) <= Cardinality(H)
  <2>1. K \in SUBSET H
    BY <1>3, <1>4, <1>5, <1>7
  <2> QED
    BY <1>1, <2>1, FS_Subset
<1>8. ASSUME Has(d[w], x), ~Has(r, x) PROVE Cardinality(K) + 1 <= Cardinality(H)
  <2>1. K = H \ {w} /\ w \in H
    BY <1>3, <1>4, <1>5, <1>8
  <2>2. Cardinality(K) = Cardinality(H) - 1
    BY <1>1, <2>1, FS_RemoveElement
  <2> QED
    BY <1>1, <2>2
<1> QED
  BY <1>1, <1>6, <1>7, <1>8 DEF H, K, d2

(* A step of a worker that starts nothing, counts nothing and takes        *)
(* nothing on keeps the account.                                           *)
LEMMA WorkerStep ==
    ASSUME RunsInv, Rows(exec'), \A x \in Execs : exec'[x].attempts = exec[x].attempts,
           UNCHANGED n8n, NEW w \in N8nWorkers, NEW r \in Dispatcher, DispOK(r),
           disp' = [disp EXCEPT ![w] = r],
           \A x \in Execs : Has(r, x) => Has(disp[w], x)
    PROVE  RunsInv'
<1>1. Workers(disp')
  BY DEF RunsInv, Workers
<1>2. Licensed(exec', disp', n8n')
  <2> SUFFICES ASSUME NEW x \in Execs
               PROVE  n8n'[x].runs + Cardinality(Holders(disp', x)) <= exec'[x].attempts
    BY DEF Licensed
  <2> DEFINE h == Cardinality(Holders(disp, x))
             k == Cardinality(Holders(disp', x))
  <2>1. h \in Nat /\ k \in Nat /\ k <= h
    BY HoldersMove DEF RunsInv, Workers
  <2>2. n8n[x].runs + h <= exec[x].attempts
    BY DEF RunsInv, Licensed
  <2>3. n8n[x].runs \in Nat /\ exec[x].attempts \in Nat
    BY DEF RunsInv, Rows, ExecRow, N8nRow
  <2> HIDE DEF h, k
  <2>4. n8n[x].runs + k <= exec[x].attempts
    BY <2>1, <2>2, <2>3
  <2> QED
    BY <2>4 DEF k
<1> QED
  BY <1>1, <1>2 DEF RunsInv

(* The same for a step no worker takes part in.                            *)
LEMMA QuietStep ==
    ASSUME RunsInv, Rows(exec'), \A x \in Execs : exec'[x].attempts = exec[x].attempts,
           UNCHANGED disp, n8n' \in [Execs -> N8nRow],
           \A x \in Execs : n8n'[x].runs = n8n[x].runs
    PROVE  RunsInv'
BY DEF RunsInv, Licensed

(* Rows that are touched keep their account.                               *)
LEMMA RowsChange ==
    ASSUME RunsInv,
           exec' \in [Execs -> ExecRow],
           \A x \in Execs : \/ exec'[x] = exec[x]
                            \/ Accounted(exec'[x])
    PROVE  Rows(exec')
BY DEF RunsInv, Rows

(* recover_stale_dispatches puts rows back and gives nobody anything.      *)
LEMMA RecoverStep ==
    ASSUME RunsInv, NEW w \in N8nWorkers, RecoverStaleDispatches(w) PROVE RunsInv'
<1> DEFINE r == [disp[w] EXCEPT !.pc = "expire"]
<1>0. exec \in [Execs -> ExecRow] /\ (\A x \in Execs : Accounted(exec[x]))
      /\ disp[w] \in Dispatcher /\ DispOK(disp[w])
  BY DEF RunsInv, Rows, Workers
<1>1. ASSUME NEW x \in Execs, Stale(x)
      PROVE  LET row == [exec[x] EXCEPT !.status = "RETRY", !.old = FALSE,
                           !.due = TRUE, !.reopened = @ + 1]
             IN row \in ExecRow /\ Accounted(row) /\ row.attempts = exec[x].attempts
  <2>1. exec[x].attempts \in Nat /\ exec[x].reopened \in Nat
        /\ exec[x].attempts <= N8nAttempts + exec[x].reopened
    BY <1>0 DEF ExecRow, Accounted
  <2>2. \A n \in Nat :
          LET row == [exec[x] EXCEPT !.status = "RETRY", !.old = FALSE,
                        !.due = TRUE, !.reopened = n]
          IN row \in ExecRow /\ row.attempts = exec[x].attempts
             /\ row.status = "RETRY" /\ row.reopened = n
    BY <1>0 DEF ExecRow, Status
  <2>3. exec[x].reopened + 1 \in Nat
        /\ exec[x].attempts < N8nAttempts + (exec[x].reopened + 1)
    BY <2>1, N8nConstants
  <2>4. exec[x].attempts <= N8nAttempts + (exec[x].reopened + 1)
    BY <2>1, <2>3, N8nConstants
  <2> QED
    BY <2>2, <2>3, <2>4 DEF Accounted
<1>2. \A x \in Execs :
        exec'[x] = IF Stale(x)
                   THEN [exec[x] EXCEPT !.status = "RETRY", !.old = FALSE,
                                        !.due = TRUE, !.reopened = @ + 1]
                   ELSE exec[x]
  BY DEF RecoverStaleDispatches
<1>3. \A x \in Execs : exec'[x] \in ExecRow /\ exec'[x].attempts = exec[x].attempts
                       /\ (exec'[x] = exec[x] \/ Accounted(exec'[x]))
  BY <1>0, <1>1, <1>2
<1>4. exec' \in [Execs -> ExecRow]
  BY <1>3 DEF RecoverStaleDispatches
<1>5. Rows(exec')
  BY <1>3, <1>4, RowsChange
<1>6. r \in Dispatcher /\ DispOK(r) /\ \A x \in Execs : Has(r, x) => Has(disp[w], x)
  BY <1>0 DEF RecoverStaleDispatches, Dispatcher, DispOK, Has
<1>7. disp' = [disp EXCEPT ![w] = r] /\ UNCHANGED n8n
  BY DEF RecoverStaleDispatches, Become
<1> HIDE DEF r
<1> QED
  BY <1>3, <1>5, <1>6, <1>7, WorkerStep

(* The running executions that are past their time fail.                   *)
LEMMA ExpireStep ==
    ASSUME RunsInv, NEW w \in N8nWorkers, ExpireRunning(w) PROVE RunsInv'
<1> DEFINE r == [disp[w] EXCEPT !.pc = "claim"]
<1>0. exec \in [Execs -> ExecRow] /\ (\A x \in Execs : Accounted(exec[x]))
      /\ disp[w] \in Dispatcher /\ DispOK(disp[w])
  BY DEF RunsInv, Rows, Workers
<1>1. ASSUME NEW x \in Execs
      PROVE  LET row == [exec[x] EXCEPT !.status = "TIMED_OUT"]
             IN row \in ExecRow /\ Accounted(row) /\ row.attempts = exec[x].attempts
  BY <1>0 DEF ExecRow, Status, Terminal, Accounted
<1>2. \A x \in Execs :
        exec'[x] = IF Expired(x) THEN [exec[x] EXCEPT !.status = "TIMED_OUT"] ELSE exec[x]
  BY DEF ExpireRunning
<1>3. \A x \in Execs : exec'[x] \in ExecRow /\ exec'[x].attempts = exec[x].attempts
                       /\ (exec'[x] = exec[x] \/ Accounted(exec'[x]))
  BY <1>0, <1>1, <1>2
<1>4. exec' \in [Execs -> ExecRow]
  BY <1>3 DEF ExpireRunning
<1>5. Rows(exec')
  BY <1>3, <1>4, RowsChange
<1>6. r \in Dispatcher /\ DispOK(r) /\ \A x \in Execs : Has(r, x) => Has(disp[w], x)
  BY <1>0 DEF ExpireRunning, Dispatcher, DispOK, Has
<1>7. disp' = [disp EXCEPT ![w] = r] /\ UNCHANGED n8n
  BY DEF ExpireRunning, Become
<1> HIDE DEF r
<1> QED
  BY <1>3, <1>5, <1>6, <1>7, WorkerStep

(* claim counts an attempt for exactly the executions it takes into the    *)
(* batch.                                                                  *)
LEMMA ClaimStep ==
    ASSUME RunsInv, NEW w \in N8nWorkers, Claim(w) PROVE RunsInv'
<1> DEFINE batch == {x \in Execs : Claimable(exec[x])}
           taken == {x \in batch : ~exec[x].late}
           r == [disp[w] EXCEPT !.pc = "dispatch", !.todo = taken]
<1>0. /\ exec \in [Execs -> ExecRow] /\ (\A x \in Execs : Accounted(exec[x]))
      /\ disp \in [N8nWorkers -> Dispatcher] /\ disp[w] \in Dispatcher
      /\ DispOK(disp[w])
  BY DEF RunsInv, Rows, Workers
<1>1. disp' = [disp EXCEPT ![w] = r] /\ UNCHANGED n8n /\ disp[w].pc = "claim"
  BY DEF Claim, Become
<1>2. r \in Dispatcher /\ r.pc = "dispatch" /\ r.x = "none" /\ r.todo = taken
      /\ disp[w].todo = {} /\ disp[w].x = "none"
  BY <1>0, <1>1 DEF Dispatcher, DispOK
<1>3. ASSUME NEW x \in Execs, x \in taken
      PROVE  /\ exec'[x] \in ExecRow /\ Accounted(exec'[x])
             /\ exec'[x].attempts = exec[x].attempts + 1
  <2> DEFINE row == [exec[x] EXCEPT !.status = "DISPATCHING", !.attempts = @ + 1, !.old = FALSE]
  <2>1. exec'[x] = row
    BY <1>3 DEF Claim, Claimed
  <2>2. exec[x] \in ExecRow /\ exec[x].attempts \in Nat /\ exec[x].reopened \in Nat
        /\ Accounted(exec[x]) /\ exec[x].status \in {"PENDING", "RETRY"}
    BY <1>0, <1>3 DEF ExecRow, Claimable
  <2>3. row \in ExecRow /\ row.status = "DISPATCHING" /\ row.reopened = exec[x].reopened
        /\ row.attempts = exec[x].attempts + 1
    <3>1. \A n \in Nat :
            LET q == [exec[x] EXCEPT !.status = "DISPATCHING", !.attempts = n, !.old = FALSE]
            IN q \in ExecRow /\ q.status = "DISPATCHING" /\ q.attempts = n
               /\ q.reopened = exec[x].reopened
      BY <2>2 DEF ExecRow, Status
    <3>2. exec[x].attempts + 1 \in Nat
      BY <2>2
    <3> QED
      BY <3>1, <3>2
  <2>4. exec[x].attempts + 1 <= N8nAttempts + exec[x].reopened
    BY <2>2, N8nConstants DEF Accounted
  <2> HIDE DEF row
  <2>5. Accounted(row)
    BY <2>3, <2>4 DEF Accounted
  <2> QED
    BY <2>1, <2>3, <2>5
<1>4. ASSUME NEW x \in Execs, x \notin taken
      PROVE  /\ exec'[x] \in ExecRow /\ Accounted(exec'[x])
             /\ exec'[x].attempts = exec[x].attempts
  <2>1. exec'[x] \in {exec[x], [exec[x] EXCEPT !.status = "TIMED_OUT"]}
    BY <1>4 DEF Claim, Claimed
  <2>2. LET row == [exec[x] EXCEPT !.status = "TIMED_OUT"]
        IN row \in ExecRow /\ Accounted(row) /\ row.attempts = exec[x].attempts
    BY <1>0 DEF ExecRow, Status, Terminal, Accounted
  <2> QED
    BY <1>0, <2>1, <2>2
<1>5. Rows(exec')
  <2>1. exec' \in [Execs -> ExecRow]
    <3>1. \A x \in Execs : exec'[x] \in ExecRow
      BY <1>3, <1>4
    <3> QED
      BY <3>1 DEF Claim
  <2> QED
    BY <1>3, <1>4, <2>1 DEF Rows
<1> HIDE DEF r, taken, batch
<1>6. Workers(disp')
  BY <1>0, <1>1, <1>2 DEF RunsInv, Workers, DispOK
<1>7. ASSUME NEW x \in Execs
      PROVE  n8n'[x].runs + Cardinality(Holders(disp', x)) <= exec'[x].attempts
  <2> DEFINE h == Cardinality(Holders(disp, x))
             k == Cardinality(Holders(disp', x))
  <2>1. h \in Nat /\ k \in Nat /\ k <= h + 1 /\ ((Has(r, x) => Has(disp[w], x)) => k <= h)
    BY <1>0, <1>1, HoldersMove
  <2>2. n8n'[x].runs = n8n[x].runs /\ n8n[x].runs + h <= exec[x].attempts
        /\ n8n[x].runs \in Nat /\ exec[x].attempts \in Nat
    BY <1>1 DEF RunsInv, Licensed, Rows, ExecRow, N8nRow
  <2>3. x \notin taken => ~Has(r, x)
    BY <1>2, N8nConstants DEF Has
  <2> HIDE DEF h, k
  <2>4. CASE x \in taken
    <3>1. exec'[x].attempts = exec[x].attempts + 1
      BY <1>3, <2>4
    <3>2. n8n[x].runs + k <= exec[x].attempts + 1
      BY <2>1, <2>2
    <3> QED
      BY <2>2, <3>1, <3>2 DEF k
  <2>5. CASE x \notin taken
    <3>1. exec'[x].attempts = exec[x].attempts /\ k <= h
      BY <1>4, <2>1, <2>3, <2>5
    <3>2. n8n[x].runs + k <= exec[x].attempts
      BY <2>1, <2>2, <3>1
    <3> QED
      BY <2>2, <3>1, <3>2 DEF k
  <2> QED
    BY <2>4, <2>5
<1> QED
  BY <1>1, <1>5, <1>6, <1>7 DEF RunsInv, Licensed

(* Taking an execution out of the batch, and the end of the batch.         *)
LEMMA BeginStep ==
    ASSUME RunsInv, NEW w \in N8nWorkers, NEW x \in Execs, Begin(w, x) PROVE RunsInv'
<1> DEFINE r1 == [disp[w] EXCEPT !.pc = "post", !.x = x, !.todo = @ \ {x}]
           r2 == [disp[w] EXCEPT !.todo = @ \ {x}]
<1>0. disp[w] \in Dispatcher /\ DispOK(disp[w])
  BY DEF RunsInv, Workers
<1>1. UNCHANGED <<exec, n8n>> /\ disp[w].pc = "dispatch" /\ x \in disp[w].todo
      /\ \E r \in {r1, r2} : disp' = [disp EXCEPT ![w] = r]
  BY DEF Begin, Become
<1>2. r1 \in Dispatcher /\ r1.pc = "post" /\ r1.x = x /\ r1.todo = disp[w].todo \ {x}
  BY <1>0 DEF Dispatcher
<1>3. r2 \in Dispatcher /\ r2.pc = "dispatch" /\ r2.x = disp[w].x /\ r2.todo = disp[w].todo \ {x}
  BY <1>0, <1>1 DEF Dispatcher
<1> HIDE DEF r1, r2
<1>4. \A r \in {r1, r2} : r \in Dispatcher /\ DispOK(r)
  BY <1>0, <1>1, <1>2, <1>3 DEF DispOK
<1>5. \A r \in {r1, r2} : \A y \in Execs : Has(r, y) => Has(disp[w], y)
  BY <1>1, <1>2, <1>3 DEF Has
<1>6. Rows(exec') /\ \A y \in Execs : exec'[y].attempts = exec[y].attempts
  BY <1>1 DEF RunsInv
<1> QED
  BY <1>1, <1>4, <1>5, <1>6, WorkerStep

(* A worker that is done holds nothing.                                    *)
LEMMA EndBatchStep ==
    ASSUME RunsInv, NEW w \in N8nWorkers, EndBatch(w) PROVE RunsInv'
<1>1. Fresh \in Dispatcher /\ DispOK(Fresh) /\ \A x \in Execs : ~Has(Fresh, x)
  BY N8nConstants DEF Fresh, Dispatcher, DispOK, Has
<1>2. UNCHANGED <<exec, n8n>> /\ disp' = [disp EXCEPT ![w] = Fresh]
  BY DEF EndBatch, Become
<1>3. Rows(exec') /\ \A x \in Execs : exec'[x].attempts = exec[x].attempts
  BY <1>2 DEF RunsInv
<1> QED
  BY <1>1, <1>2, <1>3, WorkerStep

(* A run more, and a holder less.                                          *)
LEMMA RunStep ==
    ASSUME RunsInv, Rows(exec'), \A x \in Execs : exec'[x].attempts = exec[x].attempts,
           NEW w \in N8nWorkers, NEW r \in Dispatcher, DispOK(r), NEW x \in Execs,
           disp[w].x = x, ~Has(r, x), \A y \in Execs : Has(r, y) => Has(disp[w], y),
           disp' = [disp EXCEPT ![w] = r],
           n8n' = [n8n EXCEPT ![x].runs = @ + 1]
    PROVE  RunsInv'
<1>0. n8n \in [Execs -> N8nRow] /\ exec \in [Execs -> ExecRow] /\ disp \in [N8nWorkers -> Dispatcher]
  BY DEF RunsInv, Rows, Workers
<1>1. Workers(disp')
  BY DEF RunsInv, Workers
<1>2. n8n[x] \in N8nRow /\ n8n[x].runs \in Nat
  BY <1>0 DEF N8nRow
<1>3. \A n \in Nat : LET q == [n8n[x] EXCEPT !.runs = n] IN q \in N8nRow /\ q.runs = n
  BY <1>2 DEF N8nRow
<1>4. n8n' = [n8n EXCEPT ![x] = [n8n[x] EXCEPT !.runs = n8n[x].runs + 1]]
  OBVIOUS
<1>5. n8n'[x] \in N8nRow /\ n8n'[x].runs = n8n[x].runs + 1
  <2>1. n8n[x].runs + 1 \in Nat
    BY <1>2
  <2>2. n8n'[x] = [n8n[x] EXCEPT !.runs = n8n[x].runs + 1]
    BY <1>0, <1>4
  <2> QED
    BY <1>3, <2>1, <2>2
<1>6. \A y \in Execs \ {x} : n8n'[y] = n8n[y]
  BY <1>0, <1>4
<1>7. n8n' \in [Execs -> N8nRow]
  BY <1>0, <1>4, <1>5
<1>8. ASSUME NEW y \in Execs
      PROVE  n8n'[y].runs + Cardinality(Holders(disp', y)) <= exec'[y].attempts
  <2> DEFINE h == Cardinality(Holders(disp, y))
             k == Cardinality(Holders(disp', y))
  <2>1. h \in Nat /\ k \in Nat /\ k <= h /\ (y = x => k + 1 <= h)
    BY <1>0, HoldersMove DEF Has
  <2>2. n8n[y].runs + h <= exec[y].attempts /\ n8n[y].runs \in Nat /\ exec[y].attempts \in Nat
    BY <1>0 DEF RunsInv, Licensed, ExecRow, N8nRow
  <2> HIDE DEF h, k
  <2>3. n8n'[y].runs + k <= exec[y].attempts
    <3>1. CASE y = x
      BY <1>5, <2>1, <2>2, <3>1
    <3>2. CASE y # x
      BY <1>6, <2>1, <2>2, <3>2
    <3> QED
      BY <3>1, <3>2
  <2> QED
    BY <2>3 DEF k
<1> QED
  BY <1>1, <1>7, <1>8 DEF RunsInv, Licensed

(* The row after a post: the attempt is over, with or without a retry.     *)
LEMMA FailedRow ==
    ASSUME NEW row \in ExecRow, Accounted(row), NEW b
    PROVE  LET q == Failed(row, b)
           IN q \in ExecRow /\ Accounted(q) /\ q.attempts = row.attempts
<1>1. row.attempts \in Nat /\ row.reopened \in Nat
  BY DEF ExecRow
<1>2. CASE b /\ row.attempts < N8nAttempts
  <2> DEFINE q == [row EXCEPT !.status = "RETRY", !.due = FALSE, !.old = FALSE]
  <2>1. q \in ExecRow /\ q.status = "RETRY" /\ q.attempts = row.attempts
        /\ q.reopened = row.reopened
    BY DEF ExecRow, Status
  <2>2. row.attempts < N8nAttempts + row.reopened
    BY <1>1, <1>2, N8nConstants
  <2> HIDE DEF q
  <2>3. Accounted(q)
    BY <2>1, <2>2 DEF Accounted
  <2> QED
    BY <1>2, <2>1, <2>3 DEF Failed, q
<1>3. CASE ~(b /\ row.attempts < N8nAttempts)
  BY <1>3 DEF Failed, ExecRow, Status, Terminal, Accounted
<1> QED
  BY <1>2, <1>3

(* The post makes at most one run, and the worker no longer holds it.      *)
LEMMA PostStep ==
    ASSUME RunsInv, NEW w \in N8nWorkers, Post(w) PROVE RunsInv'
<1> DEFINE x == disp[w].x
           r == [disp[w] EXCEPT !.pc = "dispatch", !.x = "none"]
           running == [exec[x] EXCEPT !.status = "RUNNING", !.old = FALSE, !.due = TRUE]
<1>0. /\ disp[w] \in Dispatcher /\ DispOK(disp[w]) /\ disp[w].pc = "post"
      /\ disp' = [disp EXCEPT ![w] = r]
  BY DEF RunsInv, Workers, Post, Become
<1>1. x \in Execs
  BY <1>0 DEF DispOK
<1>2. exec \in [Execs -> ExecRow] /\ exec[x] \in ExecRow /\ Accounted(exec[x])
  BY <1>1 DEF RunsInv, Rows
<1>3. running \in ExecRow /\ Accounted(running) /\ running.attempts = exec[x].attempts
  BY <1>2 DEF ExecRow, Status, Accounted
<1>4. r \in Dispatcher /\ r.pc = "dispatch" /\ r.x = "none" /\ r.todo = disp[w].todo
  BY <1>0 DEF Dispatcher
<1>5. PICK row : /\ exec' = [exec EXCEPT ![x] = row]
                 /\ row \in ExecRow /\ Accounted(row) /\ row.attempts = exec[x].attempts
  BY <1>2, <1>3, FailedRow DEF Post, Store
<1>6. n8n' = [n8n EXCEPT ![x].runs = @ + 1] \/ UNCHANGED n8n
  BY DEF Post
<1> HIDE DEF x, r, running
<1>7. Rows(exec') /\ \A y \in Execs : exec'[y].attempts = exec[y].attempts
  <2>1. exec' \in [Execs -> ExecRow] /\ exec'[x] = row /\ \A y \in Execs \ {x} : exec'[y] = exec[y]
    BY <1>1, <1>2, <1>5
  <2> QED
    BY <1>5, <2>1 DEF RunsInv, Rows
<1>8. DispOK(r) /\ \A y \in Execs : Has(r, y) => Has(disp[w], y)
  BY <1>4, N8nConstants DEF DispOK, Has
<1>9. disp[w].x = x /\ ~Has(r, x)
  BY <1>0, <1>1, <1>4, N8nConstants DEF DispOK, Has, x
<1>10. CASE UNCHANGED n8n
  BY <1>0, <1>4, <1>7, <1>8, <1>10, WorkerStep
<1>11. CASE n8n' = [n8n EXCEPT ![x].runs = @ + 1]
  BY <1>0, <1>1, <1>4, <1>7, <1>8, <1>9, <1>11, RunStep
<1> QED
  BY <1>6, <1>10, <1>11

(* A worker dies with what it had in hand; what it was posting may run.    *)
LEMMA CrashStep ==
    ASSUME RunsInv, NEW w \in N8nWorkers, Crash(w) PROVE RunsInv'
<1>1. Fresh \in Dispatcher /\ DispOK(Fresh) /\ \A x \in Execs : ~Has(Fresh, x)
  BY N8nConstants DEF Fresh, Dispatcher, DispOK, Has
<1>2. UNCHANGED exec /\ disp' = [disp EXCEPT ![w] = Fresh]
  BY DEF Crash, Become
<1>3. Rows(exec') /\ \A x \in Execs : exec'[x].attempts = exec[x].attempts
  BY <1>2 DEF RunsInv
<1>4. CASE UNCHANGED n8n
  BY <1>1, <1>2, <1>3, <1>4, WorkerStep
<1>5. CASE disp[w].x # "none" /\ n8n' = [n8n EXCEPT ![disp[w].x].runs = @ + 1]
  <2> DEFINE x == disp[w].x
  <2>1. x \in Execs
    BY <1>5 DEF RunsInv, Workers, Dispatcher
  <2>2. disp[w].x = x /\ n8n' = [n8n EXCEPT ![x].runs = @ + 1]
    BY <1>5
  <2> HIDE DEF x
  <2> QED
    BY <1>1, <1>2, <1>3, <2>1, <2>2, RunStep
<1> QED
  BY <1>4, <1>5 DEF Crash

(* One row written while nobody's hands change.                            *)
LEMMA StoreStep ==
    ASSUME RunsInv, NEW x \in Execs, NEW row \in ExecRow, Accounted(row),
           row.attempts = exec[x].attempts, Store(x, row), UNCHANGED disp,
           n8n' \in [Execs -> N8nRow], \A y \in Execs : n8n'[y].runs = n8n[y].runs
    PROVE  RunsInv'
<1>1. exec \in [Execs -> ExecRow]
  BY DEF RunsInv, Rows
<1>2. exec' \in [Execs -> ExecRow] /\ exec'[x] = row
      /\ \A y \in Execs \ {x} : exec'[y] = exec[y]
  BY <1>1 DEF Store
<1>3. Rows(exec') /\ \A y \in Execs : exec'[y].attempts = exec[y].attempts
  BY <1>2 DEF RunsInv, Rows
<1> QED
  BY <1>3, QuietStep

(* The request, and what time does to a row.                               *)
LEMMA TimeStep ==
    ASSUME RunsInv, NEW x \in Execs,
           Request(x) \/ LeaseExpires(x) \/ LeaseOverrun(x) \/ Backoff(x) \/ Deadline(x)
    PROVE  RunsInv'
<1>0. exec[x] \in ExecRow /\ Accounted(exec[x]) /\ n8n \in [Execs -> N8nRow]
  BY DEF RunsInv, Rows
<1>1. UNCHANGED <<disp, n8n>>
  BY DEF Request, LeaseExpires, LeaseOverrun, Backoff, Deadline
<1>2. n8n' \in [Execs -> N8nRow] /\ \A y \in Execs : n8n'[y].runs = n8n[y].runs
  BY <1>0, <1>1
<1>3. ASSUME NEW row \in ExecRow, Store(x, row), row.attempts = exec[x].attempts,
             row.reopened = exec[x].reopened,
             \/ row.status = exec[x].status
             \/ row.status = "PENDING" /\ exec[x].status = "none"
      PROVE  RunsInv'
  <2>1. Accounted(row)
    BY <1>0, <1>3 DEF Accounted
  <2> QED
    BY <1>1, <1>2, <1>3, <2>1, StoreStep
<1>4. CASE Request(x)
  <2>1. PICK syn \in BOOLEAN :
          Store(x, [exec[x] EXCEPT !.status = "PENDING", !.syn = syn])
    BY <1>4 DEF Request
  <2> DEFINE row == [exec[x] EXCEPT !.status = "PENDING", !.syn = syn]
  <2>2. row \in ExecRow /\ row.attempts = exec[x].attempts
        /\ row.reopened = exec[x].reopened /\ row.status = "PENDING"
    BY <1>0 DEF ExecRow, Status
  <2>3. exec[x].status = "none" /\ Store(x, row)
    BY <1>4, <2>1 DEF Request
  <2> HIDE DEF row
  <2> QED
    BY <1>3, <2>2, <2>3
<1>5. CASE LeaseExpires(x) \/ LeaseOverrun(x)
  <2> DEFINE row == [exec[x] EXCEPT !.old = TRUE]
  <2>1. row \in ExecRow /\ row.attempts = exec[x].attempts
        /\ row.reopened = exec[x].reopened /\ row.status = exec[x].status
    BY <1>0 DEF ExecRow
  <2>2. Store(x, row)
    BY <1>5 DEF LeaseExpires, LeaseOverrun
  <2> HIDE DEF row
  <2> QED
    BY <1>3, <2>1, <2>2
<1>6. CASE Backoff(x)
  <2> DEFINE row == [exec[x] EXCEPT !.due = TRUE]
  <2>1. row \in ExecRow /\ row.attempts = exec[x].attempts
        /\ row.reopened = exec[x].reopened /\ row.status = exec[x].status
    BY <1>0 DEF ExecRow
  <2>2. Store(x, row)
    BY <1>6 DEF Backoff
  <2> HIDE DEF row
  <2> QED
    BY <1>3, <2>1, <2>2
<1>7. CASE Deadline(x)
  <2> DEFINE row == [exec[x] EXCEPT !.late = TRUE]
  <2>1. row \in ExecRow /\ row.attempts = exec[x].attempts
        /\ row.reopened = exec[x].reopened /\ row.status = exec[x].status
    BY <1>0 DEF ExecRow
  <2>2. Store(x, row)
    BY <1>7 DEF Deadline
  <2> HIDE DEF row
  <2> QED
    BY <1>3, <2>1, <2>2
<1> QED
  BY <1>4, <1>5, <1>6, <1>7

(* A callback gives the row any reported status and counts a retry n8n     *)
(* asks for; it starts no run.                                             *)
LEMMA CallbackStep ==
    ASSUME RunsInv, NEW x \in Execs, NEW s \in Reported, Callback(x, s) PROVE RunsInv'
<1> DEFINE n == IF s = "retry" THEN exec[x].reopened + 1 ELSE exec[x].reopened
           row == [exec[x] EXCEPT !.status = Mapped(s), !.old = FALSE, !.reopened = n]
           q == [n8n[x] EXCEPT !.calls = @ + 1]
<1>0. /\ exec[x] \in ExecRow /\ Accounted(exec[x])
      /\ n8n \in [Execs -> N8nRow] /\ n8n[x] \in N8nRow
  BY DEF RunsInv, Rows
<1>1. exec[x].attempts \in Nat /\ exec[x].reopened \in Nat /\ n \in Nat
      /\ n8n[x].calls \in Nat
  BY <1>0 DEF ExecRow, N8nRow
<1>2. /\ Store(x, row) /\ UNCHANGED disp
      /\ n8n' = [n8n EXCEPT ![x] = q]
  BY <1>0 DEF Callback
<1>3. /\ Mapped(s) \in {"RUNNING", "COMPLETED", "FAILED", "RETRY", "DEAD_LETTER"}
      /\ Mapped(s) = "RETRY" <=> s = "retry"
  BY DEF Mapped, Reported
<1> DEFINE st == Mapped(s)
<1>4. row \in ExecRow /\ row.status = st /\ row.attempts = exec[x].attempts /\ row.reopened = n
  <2> HIDE DEF n, st
  <2>1. st \in Status
    BY <1>3 DEF st, Status, Terminal
  <2>2. LET r == [exec[x] EXCEPT !.status = st, !.old = FALSE, !.reopened = n]
        IN r \in ExecRow /\ r.status = st /\ r.attempts = exec[x].attempts /\ r.reopened = n
    BY <1>0, <1>1, <2>1 DEF ExecRow
  <2> QED
    BY <2>2 DEF st
<1>5. Accounted(row)
  <2>1. exec[x].attempts <= N8nAttempts + exec[x].reopened
    BY <1>0 DEF Accounted
  <2>2. exec[x].attempts <= N8nAttempts + n
        /\ (s = "retry" => exec[x].attempts < N8nAttempts + n)
    BY <1>1, <2>1, N8nConstants
  <2> HIDE DEF row, n
  <2> QED
    BY <1>3, <1>4, <2>2 DEF Accounted
<1>6. q \in N8nRow /\ q.runs = n8n[x].runs
  <2>1. n8n[x].calls + 1 \in Nat
    BY <1>1
  <2>2. \A i \in Nat : LET r == [n8n[x] EXCEPT !.calls = i]
                       IN r \in N8nRow /\ r.runs = n8n[x].runs
    BY <1>0 DEF N8nRow
  <2> QED
    BY <1>1, <2>1, <2>2
<1> HIDE DEF row, q
<1>7. n8n' \in [Execs -> N8nRow] /\ \A y \in Execs : n8n'[y].runs = n8n[y].runs
  BY <1>0, <1>2, <1>6
<1> QED
  BY <1>2, <1>4, <1>5, <1>7, StoreStep

(* Every step of the runtime preserves the account; Odoo's worker has      *)
(* nothing to do with it.                                                  *)
LEMMA RunsInvStep ==
    ASSUME RunsInv, [Next]_vars PROVE RunsInv'
<1>1. CASE UNCHANGED <<exec, disp, n8n>>
  BY <1>1 DEF RunsInv
<1>2. ASSUME NEW w \in N8nWorkers, Loop(w) PROVE RunsInv'
  BY <1>2, RecoverStep, ExpireStep, ClaimStep, BeginStep, EndBatchStep, PostStep DEF Loop
<1>3. ASSUME NEW x \in Execs, NEW s \in Reported, Callback(x, s) PROVE RunsInv'
  BY <1>3, CallbackStep
<1> QED
  BY <1>1, <1>2, <1>3, CrashStep, TimeStep DEF Next, vars

(* Nothing is queued, held or run at the start.                            *)
LEMMA RunsInvInit == Init => RunsInv
<1> SUFFICES ASSUME Init PROVE RunsInv
  OBVIOUS
<1>1. \A x \in Execs : /\ exec[x] \in ExecRow /\ exec[x].attempts = 0
                       /\ exec[x].reopened = 0 /\ exec[x].status = "none"
                       /\ n8n[x] \in N8nRow /\ n8n[x].runs = 0
  BY DEF Init, ExecRow, Status, N8nRow
<1>2. Rows(exec) /\ n8n \in [Execs -> N8nRow]
  BY <1>1, N8nConstants DEF Init, Rows, Accounted
<1>3. Fresh \in Dispatcher /\ DispOK(Fresh) /\ \A x \in Execs : ~Has(Fresh, x)
  BY N8nConstants DEF Fresh, Dispatcher, DispOK, Has
<1>4. Workers(disp)
  BY <1>3 DEF Init, Workers
<1>5. \A x \in Execs : Holders(disp, x) = {}
  BY <1>3 DEF Init, Holders
<1>6. Licensed(exec, disp, n8n)
  <2>1. Cardinality({}) = 0
    BY FS_EmptySet
  <2> QED
    BY <1>1, <1>5, <2>1 DEF Licensed
<1> QED
  BY <1>2, <1>4, <1>6 DEF RunsInv

(* The runs are licensed throughout, whichever workers die or lag.         *)
THEOREM RunsInvariant == Spec => []RunsInv
<1>1. RunsInv /\ [Next]_vars => RunsInv'
  BY RunsInvStep
<1> QED
  BY <1>1, RunsInvInit, PTL DEF Spec

(* RunsAreAttempts for any number of workers, faults and callbacks: n8n    *)
(* never starts more runs of an execution than claim counted attempts.     *)
THEOREM RunsAreCounted == Spec => []RunsAreAttempts
<1>1. RunsInv => RunsAreAttempts
  <2> SUFFICES ASSUME RunsInv, NEW x \in Execs PROVE n8n[x].runs <= exec[x].attempts
    BY DEF RunsAreAttempts
  <2>1. Cardinality(Holders(disp, x)) \in Nat
    BY HoldersFinite
  <2>2. n8n[x].runs \in Nat /\ exec[x].attempts \in Nat
        /\ n8n[x].runs + Cardinality(Holders(disp, x)) <= exec[x].attempts
    BY DEF RunsInv, Rows, Licensed, ExecRow, N8nRow
  <2> QED
    BY <2>1, <2>2
<1> QED
  BY <1>1, RunsInvariant, PTL

(* RetriesAccounted: beyond the limit of _fail an execution is attempted   *)
(* only as often as it was recovered or n8n asked for a retry.             *)
THEOREM RetriesAreAccounted == Spec => []RetriesAccounted
<1>1. RunsInv => RetriesAccounted
  BY DEF RunsInv, Rows, Accounted, RetriesAccounted
<1> QED
  BY <1>1, RunsInvariant, PTL

-----------------------------------------------------------------------------

(***************************************************************************)
(* The deliveries: a worker about to record "delivered" has seen Odoo      *)
(* accept, and Odoo forgets nothing.                                       *)
(***************************************************************************)
DlvRow0 == [status: {"none", "RESERVED", "PENDING", "RETRY", "DELIVERED", "DEAD_LETTER"},
            attempts: Nat, live: BOOLEAN]
Sender0 == [pc: {"idle", "claim", "reserve", "send", "record"},
            d: Deliveries \cup {0}, att: Nat,
            out: {"none", "delivered", "retry", "dead"}]

SenderOK(r, a) ==
    /\ r.pc \in {"reserve", "send", "record"} => r.d \in Deliveries
    /\ r.pc = "record" /\ r.out = "delivered" => r.d \in a

DeliveryInv ==
    /\ dlv \in [Deliveries -> DlvRow0] /\ sender \in [OdooWorkers -> Sender0]
    /\ \A w \in OdooWorkers : SenderOK(sender[w], accepted)
    /\ \A d \in Deliveries : dlv[d].status = "DELIVERED" => d \in accepted

(* A step of a sender, and of nobody else.                                 *)
LEMMA SenderStep ==
    ASSUME DeliveryInv, dlv' \in [Deliveries -> DlvRow0], accepted \subseteq accepted',
           \A d \in Deliveries :
              dlv'[d].status = "DELIVERED" /\ dlv[d].status # "DELIVERED" => d \in accepted',
           NEW w \in OdooWorkers, NEW r \in Sender0, SenderOK(r, accepted'),
           sender' = [sender EXCEPT ![w] = r]
    PROVE  DeliveryInv'
<1>1. sender' \in [OdooWorkers -> Sender0] /\ sender'[w] = r
      /\ \A v \in OdooWorkers \ {w} : sender'[v] = sender[v]
  BY DEF DeliveryInv
<1>2. \A v \in OdooWorkers : SenderOK(sender'[v], accepted')
  BY <1>1 DEF DeliveryInv, SenderOK
<1> QED
  BY <1>1, <1>2 DEF DeliveryInv

(* One row written by a sender.                                            *)
LEMMA DlvStoreStep ==
    ASSUME DeliveryInv, NEW d \in Deliveries, NEW row \in DlvRow0,
           dlv' = [dlv EXCEPT ![d] = row], row.status = "DELIVERED" => d \in accepted,
           UNCHANGED accepted, NEW w \in OdooWorkers, NEW r \in Sender0,
           SenderOK(r, accepted), sender' = [sender EXCEPT ![w] = r]
    PROVE  DeliveryInv'
<1>1. dlv' \in [Deliveries -> DlvRow0] /\ dlv'[d] = row
      /\ \A e \in Deliveries \ {d} : dlv'[e] = dlv[e]
  BY DEF DeliveryInv
<1>2. \A e \in Deliveries :
        dlv'[e].status = "DELIVERED" /\ dlv[e].status # "DELIVERED" => e \in accepted'
  BY <1>1
<1> QED
  BY <1>1, <1>2, SenderStep

(* Recovery takes stale reservations back: none of them is delivered.      *)
LEMMA OdooRecoverStep ==
    ASSUME DeliveryInv, NEW w \in OdooWorkers, Odoo!RecoverStale(w) PROVE DeliveryInv'
<1> DEFINE r == [Odoo!Idle EXCEPT !.pc = "claim"]
<1>1. r \in Sender0 /\ SenderOK(r, accepted)
  BY DEF Odoo!Idle, Sender0, SenderOK
<1>2. sender' = [sender EXCEPT ![w] = r] /\ UNCHANGED accepted
  BY DEF Odoo!RecoverStale, Odoo!Become
<1>3. \A d \in Deliveries :
        dlv'[d] = IF Odoo!Stale(dlv[d]) THEN Odoo!Recovered(dlv[d]) ELSE dlv[d]
  BY DEF Odoo!RecoverStale
<1>4. \A d \in Deliveries : LET row == Odoo!Recovered(dlv[d])
                            IN row \in DlvRow0 /\ row.status \in {"DEAD_LETTER", "RETRY"}
  BY DEF DeliveryInv, DlvRow0, Odoo!Recovered
<1>5. \A d \in Deliveries : dlv'[d] \in DlvRow0
        /\ (dlv'[d] = dlv[d] \/ dlv'[d].status \in {"DEAD_LETTER", "RETRY"})
  BY <1>3, <1>4 DEF DeliveryInv
<1>6. dlv' \in [Deliveries -> DlvRow0]
  BY <1>5 DEF Odoo!RecoverStale
<1>7. \A d \in Deliveries :
        dlv'[d].status = "DELIVERED" /\ dlv[d].status # "DELIVERED" => d \in accepted'
  BY <1>5
<1> HIDE DEF r
<1> QED
  BY <1>1, <1>2, <1>6, <1>7, SenderStep

(* The claim, an idle cycle and a death leave the deliveries alone.        *)
LEMMA OdooMoves ==
    ASSUME DeliveryInv, NEW w \in OdooWorkers,
           Odoo!ClaimNothing(w) \/ Odoo!Crash(w)
             \/ \E d \in Deliveries : Odoo!ClaimDelivery(w, d)
    PROVE  DeliveryInv'
<1>1. /\ UNCHANGED <<dlv, accepted>> /\ dlv' \in [Deliveries -> DlvRow0]
      /\ sender[w] \in Sender0
  BY DEF DeliveryInv, Odoo!ClaimNothing, Odoo!Crash, Odoo!ClaimDelivery
<1>2. Odoo!Idle \in Sender0 /\ SenderOK(Odoo!Idle, accepted)
  BY DEF Odoo!Idle, Sender0, SenderOK
<1>3. CASE Odoo!ClaimNothing(w) \/ Odoo!Crash(w)
  <2>1. sender' = [sender EXCEPT ![w] = Odoo!Idle]
    BY <1>3 DEF Odoo!ClaimNothing, Odoo!Crash, Odoo!Become
  <2> QED
    BY <1>1, <1>2, <2>1, SenderStep
<1>4. ASSUME NEW d \in Deliveries, Odoo!ClaimDelivery(w, d) PROVE DeliveryInv'
  <2> DEFINE r == [sender[w] EXCEPT !.pc = "reserve", !.d = d]
  <2>1. r \in Sender0 /\ r.pc = "reserve" /\ r.d = d
    BY <1>1 DEF Sender0
  <2>2. sender' = [sender EXCEPT ![w] = r]
    BY <1>4 DEF Odoo!ClaimDelivery, Odoo!Become
  <2> HIDE DEF r
  <2>3. SenderOK(r, accepted)
    BY <2>1 DEF SenderOK
  <2> QED
    BY <1>1, <2>1, <2>2, <2>3, SenderStep
<1> QED
  BY <1>3, <1>4

(* deliver_result up to its first commit.                                  *)
LEMMA OdooReserveStep ==
    ASSUME DeliveryInv, NEW w \in OdooWorkers, Odoo!Reserve(w) PROVE DeliveryInv'
<1> DEFINE d == sender[w].d
           n == dlv[d].attempts + 1
           row == [status |-> "RESERVED", live |-> TRUE, attempts |-> n]
           r == [sender[w] EXCEPT !.pc = "send", !.att = n]
<1>1. sender[w] \in Sender0 /\ sender[w].pc = "reserve" /\ d \in Deliveries
      /\ UNCHANGED accepted
  BY DEF DeliveryInv, SenderOK, Odoo!Reserve
<1>2. n \in Nat
  BY <1>1 DEF DeliveryInv, DlvRow0
<1>3. CASE d \in BadBodies
  <2>1. UNCHANGED dlv /\ sender' = [sender EXCEPT ![w] = Odoo!Idle]
    BY <1>3 DEF Odoo!Reserve, Odoo!Become
  <2>2. Odoo!Idle \in Sender0 /\ SenderOK(Odoo!Idle, accepted)
    BY DEF Odoo!Idle, Sender0, SenderOK
  <2>3. dlv' \in [Deliveries -> DlvRow0]
    BY <2>1 DEF DeliveryInv
  <2> QED
    BY <1>1, <2>1, <2>2, <2>3, SenderStep
<1>4. CASE d \notin BadBodies
  <2>1. dlv' = [dlv EXCEPT ![d] = row] /\ sender' = [sender EXCEPT ![w] = r]
    BY <1>4 DEF Odoo!Reserve, Odoo!Become, Odoo!Store
  <2> HIDE DEF n
  <2>2. row \in DlvRow0 /\ row.status = "RESERVED"
    BY <1>2 DEF DlvRow0
  <2>3. r \in Sender0 /\ r.pc = "send" /\ r.d = d
    BY <1>1, <1>2 DEF Sender0
  <2> HIDE DEF d, row, r
  <2>4. SenderOK(r, accepted)
    BY <1>1, <2>3 DEF SenderOK
  <2> QED
    BY <1>1, <2>1, <2>2, <2>3, <2>4, DlvStoreStep
<1> QED
  BY <1>3, <1>4

(* Only an answer of Odoo that persisted it says delivered.                *)
LEMMA OdooSendStep ==
    ASSUME DeliveryInv, NEW w \in OdooWorkers, Odoo!Send(w) PROVE DeliveryInv'
<1>1. /\ sender[w] \in Sender0 /\ sender[w].pc = "send" /\ sender[w].d \in Deliveries
      /\ UNCHANGED dlv /\ dlv' \in [Deliveries -> DlvRow0] /\ accepted \subseteq accepted'
  BY DEF DeliveryInv, SenderOK, Odoo!Send
<1>2. PICK out \in {"delivered", "retry", "dead"} :
        /\ sender' = [sender EXCEPT ![w] = [sender[w] EXCEPT !.pc = "record", !.out = out]]
        /\ out = "delivered" => sender[w].d \in accepted'
  BY DEF Odoo!Send, Odoo!Outcome, Odoo!Become
<1> DEFINE r == [sender[w] EXCEPT !.pc = "record", !.out = out]
<1>3. r \in Sender0 /\ r.pc = "record" /\ r.d = sender[w].d /\ r.out = out
  BY <1>1 DEF Sender0
<1>4. sender' = [sender EXCEPT ![w] = r]
  BY <1>2
<1> HIDE DEF r
<1>5. SenderOK(r, accepted')
  BY <1>1, <1>2, <1>3 DEF SenderOK
<1> QED
  BY <1>1, <1>3, <1>4, <1>5, SenderStep

(* The answer is recorded as it came.                                      *)
LEMMA OdooRecordStep ==
    ASSUME DeliveryInv, NEW w \in OdooWorkers, Odoo!Record(w) PROVE DeliveryInv'
<1> DEFINE d == sender[w].d
           st == Odoo!RecordedStatus(sender[w].out, sender[w].att)
           row == [dlv[d] EXCEPT !.live = FALSE, !.status = st]
<1>1. /\ d \in Deliveries /\ dlv[d] \in DlvRow0 /\ UNCHANGED accepted
      /\ sender[w].out = "delivered" => d \in accepted
  BY DEF DeliveryInv, SenderOK, Odoo!Record
<1>2. st \in {"DELIVERED", "RETRY", "DEAD_LETTER"}
      /\ (st = "DELIVERED" => sender[w].out = "delivered")
  BY DEF Odoo!RecordedStatus
<1>3. dlv' = [dlv EXCEPT ![d] = row] /\ sender' = [sender EXCEPT ![w] = Odoo!Idle]
  BY DEF Odoo!Record, Odoo!Become, Odoo!Store
<1>4. Odoo!Idle \in Sender0 /\ SenderOK(Odoo!Idle, accepted)
  BY DEF Odoo!Idle, Sender0, SenderOK
<1> HIDE DEF st
<1>5. row \in DlvRow0 /\ row.status = st
  BY <1>1, <1>2 DEF DlvRow0
<1> HIDE DEF d, row
<1> QED
  BY <1>1, <1>2, <1>3, <1>4, <1>5, DlvStoreStep

(* A lease that runs out, and a delivery that is queued.                   *)
LEMMA OdooQuietStep ==
    ASSUME DeliveryInv, NEW d \in Deliveries,
           Odoo!LeaseExpires(d) \/ Odoo!LeaseOverrun(d) \/ Odoo!Queue(d)
    PROVE  DeliveryInv'
<1>1. dlv \in [Deliveries -> DlvRow0] /\ dlv[d] \in DlvRow0 /\ UNCHANGED <<sender, accepted>>
  BY DEF DeliveryInv, Odoo!LeaseExpires, Odoo!LeaseOverrun, Odoo!Queue
<1>2. PICK row \in DlvRow0 : /\ dlv' = [dlv EXCEPT ![d] = row]
                             /\ row.status = "DELIVERED" => dlv[d].status = "DELIVERED"
  <2>1. LET row == [dlv[d] EXCEPT !.live = FALSE]
        IN row \in DlvRow0 /\ row.status = dlv[d].status
    BY <1>1 DEF DlvRow0
  <2>2. LET row == [dlv[d] EXCEPT !.status = "PENDING"]
        IN row \in DlvRow0 /\ row.status = "PENDING"
    BY <1>1 DEF DlvRow0
  <2> QED
    BY <2>1, <2>2 DEF Odoo!LeaseExpires, Odoo!LeaseOverrun, Odoo!Queue, Odoo!Store
<1>3. dlv' \in [Deliveries -> DlvRow0] /\ dlv'[d] = row
      /\ \A e \in Deliveries \ {d} : dlv'[e] = dlv[e]
  BY <1>1, <1>2
<1> QED
  BY <1>1, <1>2, <1>3 DEF DeliveryInv

(* Every step keeps what the delivery workers rely on.                     *)
LEMMA DeliveryInvStep ==
    ASSUME DeliveryInv, [Next]_vars PROVE DeliveryInv'
<1>1. CASE UNCHANGED odooVars
  BY <1>1 DEF DeliveryInv, odooVars
<1>2. CASE Odoo!Step
  BY <1>2, OdooRecoverStep, OdooMoves, OdooReserveStep, OdooSendStep,
     OdooRecordStep, OdooQuietStep DEF Odoo!Step, Odoo!Cycle
<1>3. ASSUME NEW w \in N8nWorkers, Loop(w) \/ Crash(w) PROVE UNCHANGED odooVars
  BY <1>3 DEF Loop, Crash, RecoverStaleDispatches, ExpireRunning, Claim, Begin, EndBatch, Post
<1>4. ASSUME NEW x \in Execs,
             Request(x) \/ LeaseExpires(x) \/ LeaseOverrun(x) \/ Backoff(x) \/ Deadline(x)
      PROVE  UNCHANGED odooVars
  BY <1>4 DEF Request, LeaseExpires, LeaseOverrun, Backoff, Deadline
<1>5. ASSUME NEW x \in Execs, NEW s \in Reported, Callback(x, s) PROVE DeliveryInv'
  BY <1>1, <1>5, OdooQuietStep DEF Callback
<1> QED
  BY <1>1, <1>2, <1>3, <1>4, <1>5 DEF Next, vars

(* Nothing is delivered at the start.                                      *)
LEMMA DeliveryInvInit == Init => DeliveryInv
<1> SUFFICES ASSUME Init PROVE DeliveryInv
  OBVIOUS
<1>1. Odoo!Idle \in Sender0 /\ SenderOK(Odoo!Idle, accepted)
  BY DEF Odoo!Idle, Sender0, SenderOK
<1> QED
  BY <1>1 DEF Init, Odoo!Init, DeliveryInv, DlvRow0

(* DeliveredIsAccepted for any callbacks, workers and lost leases: what    *)
(* the runtime calls DELIVERED Odoo has persisted.                         *)
THEOREM DeliveriesAreAccepted == Spec => []Odoo!DeliveredIsAccepted
<1>1. DeliveryInv /\ [Next]_vars => DeliveryInv'
  BY DeliveryInvStep
<1>2. DeliveryInv => Odoo!DeliveredIsAccepted
  BY DEF DeliveryInv, Odoo!DeliveredIsAccepted
<1> QED
  BY <1>1, <1>2, DeliveryInvInit, PTL DEF Spec

=============================================================================
