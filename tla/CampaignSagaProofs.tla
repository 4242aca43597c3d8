------------------------- MODULE CampaignSagaProofs -------------------------
(***************************************************************************)
(* Safety of CampaignSaga for any sets of events and workers.  The row     *)
(* locks are not used: the claim a worker loaded (Owned) is enough.        *)
(***************************************************************************)
EXTENDS CampaignSaga, TLAPS

(***************************************************************************)
(* Rows and workers with unbounded counters.                               *)
(***************************************************************************)
Row0 == [status: SagaStatus, attempts: Nat, live: BOOLEAN, error: ErrorClass,
         key: Nat, by: SagaWorkers \cup {NoWorker}, resend: BOOLEAN]
Runner0 == [pc: Pc, todo: SUBSET Events, e: Events \cup {NoEvent}, att: Nat,
            key: Nat, out: Outcome, held: BOOLEAN]

(***************************************************************************)
(* What is always true of a row and the keys p of its accepted read-backs. *)
(***************************************************************************)
RowOK(row, p) ==
    /\ row \in Row0
    /\ p \subseteq Nat
    /\ \A k \in p : k <= row.key
    /\ row.status = "COMPLETED" => p # {}
    /\ row.status = "RESERVED" /\ row.resend
         => row.error = "transport" /\ row.key # 0

(***************************************************************************)
(* What a worker r that has claimed a row knows of it: a key it reports is *)
(* saved, a completion it will record was accepted, and a claim under      *)
(* which it observes again did not come with an observation to resend.     *)
(***************************************************************************)
Loaded == {"desired", "apply", "save", "report", "finish"}

Knows(r, row, p) ==
    /\ r.pc \in Loaded => r.att <= row.attempts
    /\ r.pc = "report" => r.key <= row.key
    /\ r.pc = "finish" /\ r.out = "COMPLETED" => p # {}
    /\ r.pc \in {"apply", "save"} /\ row.status = "RESERVED"
          /\ row.attempts = r.att => ~row.resend

WorkerOK(r, s, p) ==
    /\ r \in Runner0
    /\ r.pc \in Loaded \cup {"load"} => r.e \in Events /\ Knows(r, s[r.e], p[r.e])

(***************************************************************************)
(* What a step may do to a row: counters never fall, a final row stays,    *)
(* a reservation is new only with a new count, an observation is saved     *)
(* only under a claim that did not come with one to resend, only a claim   *)
(* counts, and a row goes back only below the limit.                       *)
(***************************************************************************)
Sound(row, row2) ==
    /\ row.attempts <= row2.attempts
    /\ row.key <= row2.key
    /\ row.status \in Final => row2 = row
    /\ row2.status = "RESERVED" /\ row2.attempts = row.attempts
         => row.status = "RESERVED" /\ row2.resend = row.resend
    /\ row.status = "RESERVED" /\ row.resend => row2.key = row.key
    /\ row2.attempts # row.attempts
         => /\ row.status \in {"PENDING", "RETRY"} /\ row2.status = "RESERVED"
            /\ row2.attempts = row.attempts + 1
    /\ RetryLimit \in Nat /\ row2.status = "RETRY" /\ row.status # "RETRY"
         => row2.attempts < RetryLimit
    /\ row2.status \in {"none", "PENDING"} => row.status \in {"none", "PENDING"}

SagaInv ==
    /\ saga \in [Events -> Row0]
    /\ runner \in [SagaWorkers -> Runner0]
    /\ reported \in [Events -> SUBSET Nat]
    /\ \A e \in Events : RowOK(saga[e], reported[e])
    /\ \A w \in SagaWorkers : WorkerOK(runner[w], saga, reported)

GoodStep == SagaInv' /\ \A e \in Events : Sound(saga[e], saga'[e])

(* What a worker knows of a row survives every sound change of the row.    *)
LEMMA KnowledgeStays ==
    ASSUME NEW r \in Runner0, NEW row \in Row0, NEW row2 \in Row0,
           NEW p, NEW p2, p \subseteq p2,
           Sound(row, row2), Knows(r, row, p)
    PROVE  Knows(r, row2, p2)
<1>1. r.att \in Nat /\ r.key \in Nat /\ row.attempts \in Nat
      /\ row2.attempts \in Nat /\ row.key \in Nat /\ row2.key \in Nat
  BY DEF Runner0, Row0
<1>2. r.pc \in Loaded => r.att <= row2.attempts
  BY <1>1 DEF Knows, Sound
<1>3. r.pc = "report" => r.key <= row2.key
  BY <1>1 DEF Knows, Sound
<1>4. r.pc = "finish" /\ r.out = "COMPLETED" => p2 # {}
  BY DEF Knows
<1>5. ASSUME r.pc \in {"apply", "save"}, row2.status = "RESERVED", row2.attempts = r.att
      PROVE  ~row2.resend
  <2>1. r.att <= row.attempts
    BY <1>5 DEF Knows, Loaded
  <2>2. row.attempts <= row2.attempts
    BY DEF Sound
  <2>3. row2.attempts = row.attempts
    BY <1>1, <1>5, <2>1, <2>2
  <2> QED
    BY <1>5, <2>3 DEF Knows, Sound
<1> QED
  BY <1>2, <1>3, <1>4, <1>5 DEF Knows

(* A row that does not change changes soundly.                             *)
LEMMA SoundRefl == ASSUME NEW row \in Row0 PROVE Sound(row, row)
BY DEF Sound, Row0

(* A row that is not reserved afterwards, with the counters it had.        *)
LEMMA ReleasedRow ==
    ASSUME NEW row \in Row0, NEW row2 \in Row0, NEW p, RowOK(row, p),
           row.status \notin Final, row2.status # "RESERVED",
           row2.status = "COMPLETED" => p # {},
           RetryLimit \in Nat /\ row2.status = "RETRY" => row.attempts < RetryLimit,
           row2.status \in {"none", "PENDING"} => row.status = "none",
           row2.attempts = row.attempts, row2.key = row.key
    PROVE  RowOK(row2, p) /\ Sound(row, row2)
<1>1. row.attempts \in Nat /\ row.key \in Nat
  BY DEF Row0
<1>2. RowOK(row2, p)
  BY DEF RowOK
<1>3. Sound(row, row2)
  BY <1>1 DEF Sound
<1> QED
  BY <1>2, <1>3

(* A step that changes at most one worker, leaves rows sound and gives the *)
(* worker only what it may know preserves the invariant.                   *)
LEMMA InvStep ==
    ASSUME SagaInv,
           saga' \in [Events -> Row0], reported' \in [Events -> SUBSET Nat],
           \A e \in Events : /\ RowOK(saga[e], reported[e])'
                             /\ Sound(saga[e], saga'[e])
                             /\ reported[e] \subseteq reported'[e],
           NEW w \in SagaWorkers, NEW r,
           runner' = [runner EXCEPT ![w] = r],
           WorkerOK(r, saga', reported')
    PROVE  GoodStep
<1>1. runner' \in [SagaWorkers -> Runner0]
  BY DEF SagaInv, WorkerOK
<1>2. ASSUME NEW v \in SagaWorkers, v # w PROVE WorkerOK(runner'[v], saga', reported')
  <2>1. runner'[v] = runner[v] /\ runner[v] \in Runner0
    BY <1>2 DEF SagaInv
  <2>2. WorkerOK(runner[v], saga, reported)
    BY DEF SagaInv
  <2>3. ASSUME runner[v].pc \in Loaded \cup {"load"}
        PROVE  runner[v].e \in Events /\ Knows(runner[v], saga'[runner[v].e], reported'[runner[v].e])
    <3> DEFINE e == runner[v].e
    <3>1. e \in Events /\ Knows(runner[v], saga[e], reported[e])
      BY <2>2, <2>3 DEF WorkerOK
    <3>2. saga[e] \in Row0 /\ saga'[e] \in Row0
      BY <3>1 DEF SagaInv
    <3>3. Sound(saga[e], saga'[e]) /\ reported[e] \subseteq reported'[e]
      BY <3>1
    <3> HIDE DEF e
    <3>4. Knows(runner[v], saga'[e], reported'[e])
      BY <2>1, <3>1, <3>2, <3>3, KnowledgeStays
    <3> QED
      BY <3>1, <3>4 DEF e
  <2> QED
    BY <2>1, <2>3 DEF WorkerOK
<1>3. runner'[w] = r
  BY DEF SagaInv
<1>4. \A v \in SagaWorkers : WorkerOK(runner'[v], saga', reported')
  BY <1>2, <1>3
<1>5. SagaInv'
  BY <1>1, <1>4 DEF SagaInv
<1> QED
  BY <1>5 DEF GoodStep

(* The same for a step that only moves a worker.                           *)
LEMMA MoveStep ==
    ASSUME SagaInv, UNCHANGED <<saga, reported>>,
           NEW w \in SagaWorkers, NEW r,
           runner' = [runner EXCEPT ![w] = r],
           WorkerOK(r, saga, reported)
    PROVE  GoodStep
<1>1. \A e \in Events : /\ RowOK(saga[e], reported[e])'
                        /\ Sound(saga[e], saga'[e])
                        /\ reported[e] \subseteq reported'[e]
  BY SoundRefl DEF SagaInv
<1>2. WorkerOK(r, saga', reported')
  OBVIOUS
<1>3. saga' \in [Events -> Row0] /\ reported' \in [Events -> SUBSET Nat]
  BY DEF SagaInv
<1> QED
  BY <1>1, <1>2, <1>3, InvStep

(* The same for a step that writes one row.                                *)
LEMMA WriteStep ==
    ASSUME SagaInv, UNCHANGED reported,
           NEW e \in Events, NEW row, Write(e, row),
           RowOK(row, reported[e]), Sound(saga[e], row),
           NEW w \in SagaWorkers, NEW r,
           runner' = [runner EXCEPT ![w] = r],
           WorkerOK(r, saga', reported)
    PROVE  GoodStep
<1>1. row \in Row0
  BY DEF RowOK
<1>2. saga' \in [Events -> Row0] /\ reported' \in [Events -> SUBSET Nat]
  BY <1>1 DEF SagaInv, Write
<1>3. saga'[e] = row /\ \A f \in Events \ {e} : saga'[f] = saga[f]
  BY DEF SagaInv, Write
<1>4. ASSUME NEW f \in Events
      PROVE  RowOK(saga'[f], reported'[f]) /\ Sound(saga[f], saga'[f])
             /\ reported[f] \subseteq reported'[f]
  BY <1>3, SoundRefl DEF SagaInv
<1>5. WorkerOK(r, saga', reported')
  OBVIOUS
<1> QED
  BY <1>2, <1>4, <1>5, InvStep

(* Recovery puts expired reservations back and touches nothing else.       *)
LEMMA RecoverStep ==
    ASSUME SagaInv, NEW w \in SagaWorkers, RecoverExpired(w) PROVE GoodStep
<1>1. \A e \in Events : saga[e] \in Row0 /\ RowOK(saga[e], reported[e])
  BY DEF SagaInv
<1>2. ASSUME NEW e \in Events, Expired(saga[e])
      PROVE  RowOK(Recovered(saga[e]), reported[e]) /\ Sound(saga[e], Recovered(saga[e]))
  <2> DEFINE row2 == Recovered(saga[e])
  <2>1. saga[e] \in Row0 /\ saga[e].status = "RESERVED"
    BY <1>1, <1>2 DEF Expired
  <2>2. /\ row2 \in Row0 /\ row2.status \in {"DEAD_LETTER", "RETRY"}
        /\ row2.status = "RETRY" => ~(saga[e].attempts >= RetryLimit)
        /\ row2.attempts = saga[e].attempts /\ row2.key = saga[e].key
    BY <2>1 DEF Recovered, Row0, SagaStatus, Final, ErrorClass
  <2> HIDE DEF row2
  <2>3. RetryLimit \in Nat /\ row2.status = "RETRY" => saga[e].attempts < RetryLimit
    BY <2>1, <2>2 DEF Row0
  <2>4. RowOK(row2, reported[e]) /\ Sound(saga[e], row2)
    BY <1>1, <2>1, <2>2, <2>3, ReleasedRow DEF Final
  <2> QED
    BY <2>4 DEF row2
<1>3. \A e \in Events :
        saga'[e] = IF Expired(saga[e]) THEN Recovered(saga[e]) ELSE saga[e]
  BY DEF RecoverExpired
<1>4. \A e \in Events : /\ RowOK(saga'[e], reported'[e])
                        /\ Sound(saga[e], saga'[e])
                        /\ reported[e] \subseteq reported'[e]
  BY <1>1, <1>2, <1>3, SoundRefl DEF RecoverExpired
<1>5. saga' \in [Events -> Row0] /\ reported' \in [Events -> SUBSET Nat]
  <2>1. \A e \in Events : saga'[e] \in Row0
    BY <1>4 DEF RowOK
  <2> QED
    BY <2>1 DEF RecoverExpired, SagaInv
<1> DEFINE r == [runner[w] EXCEPT !.pc = "enroll"]
<1>6. WorkerOK(r, saga', reported')
  BY DEF WorkerOK, SagaInv, Runner0, Pc, Loaded
<1>7. runner' = [runner EXCEPT ![w] = r]
  BY DEF RecoverExpired, GoTo, Become
<1> HIDE DEF r
<1> QED
  BY <1>4, <1>5, <1>6, <1>7, InvStep

(* Reading the events without a row, and the steps that give nothing up.   *)
LEMMA CycleMoves ==
    ASSUME SagaInv, NEW w \in SagaWorkers,
           PendingEvents(w) \/ Enrolled(w) \/ ClaimNothing(w) \/ Crash(w)
    PROVE  GoodStep
<1>0. runner[w] \in Runner0
  BY DEF SagaInv
<1>1. CASE PendingEvents(w)
  <2> DEFINE r == [runner[w] EXCEPT !.pc = "insert",
                     !.todo = {e \in Events : saga[e].status = "none"}]
  <2>1. WorkerOK(r, saga, reported)
    BY <1>0 DEF WorkerOK, Runner0, Pc, Loaded
  <2>2. runner' = [runner EXCEPT ![w] = r] /\ UNCHANGED <<saga, reported>>
    BY <1>1 DEF PendingEvents, Become
  <2> HIDE DEF r
  <2> QED
    BY <2>1, <2>2, MoveStep
<1>2. CASE Enrolled(w)
  <2> DEFINE r == [runner[w] EXCEPT !.pc = "claim"]
  <2>1. WorkerOK(r, saga, reported)
    BY <1>0 DEF WorkerOK, Runner0, Pc, Loaded
  <2>2. runner' = [runner EXCEPT ![w] = r] /\ UNCHANGED <<saga, reported>>
    BY <1>2 DEF Enrolled, GoTo, Become
  <2> HIDE DEF r
  <2> QED
    BY <2>1, <2>2, MoveStep
<1>3. CASE ClaimNothing(w) \/ Crash(w)
  <2>1. WorkerOK(Idle, saga, reported)
    BY DEF WorkerOK, Runner0, Pc, Loaded, Idle, Outcome
  <2>2. runner' = [runner EXCEPT ![w] = Idle] /\ UNCHANGED <<saga, reported>>
    BY <1>3 DEF ClaimNothing, Crash, Become
  <2> QED
    BY <2>1, <2>2, MoveStep
<1> QED
  BY <1>1, <1>2, <1>3

(* A new row starts without attempts, or as a dead letter; an existing one *)
(* is left alone.                                                          *)
LEMMA EnrollStep ==
    ASSUME SagaInv, NEW w \in SagaWorkers, NEW e \in Events, Enroll(w, e)
    PROVE  GoodStep
<1> DEFINE r == [runner[w] EXCEPT !.todo = @ \ {e}]
<1>0. runner[w] \in Runner0 /\ saga[e] \in Row0 /\ RowOK(saga[e], reported[e])
  BY DEF SagaInv
<1>1. \A s : WorkerOK(r, s, reported)
  BY <1>0 DEF WorkerOK, Runner0, Pc, Loaded, Enroll
<1>2. runner' = [runner EXCEPT ![w] = r] /\ UNCHANGED reported
  BY DEF Enroll, Become
<1> HIDE DEF r
<1>3. CASE UNCHANGED saga
  BY <1>1, <1>2, <1>3, MoveStep
<1>4. ASSUME saga[e].status = "none", NEW status \in {"PENDING", "DEAD_LETTER"},
             InsertOver(e, status)
      PROVE  GoodStep
  <2> DEFINE row == [saga[e] EXCEPT !.status = status,
                       !.error = IF status = "PENDING" THEN "none" ELSE "other"]
  <2>1. /\ row \in Row0 /\ row.status \in {"PENDING", "DEAD_LETTER"}
        /\ row.attempts = saga[e].attempts /\ row.key = saga[e].key
    BY <1>0 DEF Row0, SagaStatus, Final, ErrorClass
  <2>2. Write(e, row)
    BY <1>4 DEF InsertOver
  <2> HIDE DEF row
  <2>3. RowOK(row, reported[e]) /\ Sound(saga[e], row)
    BY <1>0, <1>4, <2>1, ReleasedRow DEF Final
  <2> QED
    BY <1>1, <1>2, <2>2, <2>3, WriteStep
<1> QED
  BY <1>3, <1>4 DEF Enroll, Insert

(* The row claim_event writes is a row.                                    *)
LEMMA ClaimedRow ==
    ASSUME NEW row \in Row0, NEW w \in SagaWorkers, NEW b \in BOOLEAN
    PROVE  [row EXCEPT !.status = "RESERVED", !.attempts = @ + 1, !.live = TRUE,
                       !.by = w, !.resend = b] \in Row0
<1>1. row.attempts + 1 \in Nat
  BY DEF Row0
<1> DEFINE n == row.attempts + 1
<1> HIDE DEF n
<1>2. [row EXCEPT !.status = "RESERVED", !.attempts = n, !.live = TRUE,
                  !.by = w, !.resend = b] \in Row0
  BY <1>1 DEF n, Row0, SagaStatus
<1> QED
  BY <1>2 DEF n

(* claim_saga counts the attempt, and knows whether there is something to  *)
(* send again.                                                             *)
LEMMA ClaimStep ==
    ASSUME SagaInv, NEW w \in SagaWorkers, NEW e \in Events, ClaimSaga(w, e)
    PROVE  GoodStep
<1> DEFINE r == [runner[w] EXCEPT !.pc = "load", !.e = e]
           again == saga[e].error = "transport" /\ saga[e].key # 0
           row == [saga[e] EXCEPT !.status = "RESERVED", !.attempts = @ + 1,
                     !.live = TRUE, !.by = w, !.resend = again]
<1>0. runner[w] \in Runner0 /\ saga[e] \in Row0 /\ RowOK(saga[e], reported[e])
  BY DEF SagaInv
<1>1. \A s : WorkerOK(r, s, reported)
  BY <1>0 DEF WorkerOK, Knows, Runner0, Pc, Loaded
<1>2. runner' = [runner EXCEPT ![w] = r] /\ UNCHANGED reported /\ Write(e, row)
  BY DEF ClaimSaga, Become
<1>3. again \in BOOLEAN
  OBVIOUS
<1>4. /\ row.status = "RESERVED" /\ row.attempts = saga[e].attempts + 1
      /\ row.key = saga[e].key /\ row.error = saga[e].error
      /\ row.resend = again
  BY <1>0 DEF Row0
<1>5. row \in Row0
  <2> HIDE DEF again
  <2> QED
    BY <1>0, <1>3, ClaimedRow
<1>6. row.resend => row.error = "transport" /\ row.key # 0
  BY <1>4
<1> HIDE DEF row, r
<1>7. RowOK(row, reported[e])
  BY <1>0, <1>4, <1>5, <1>6 DEF RowOK
<1>8. saga[e].attempts \in Nat /\ saga[e].key \in Nat
      /\ saga[e].status \in {"PENDING", "RETRY"}
  BY <1>0 DEF Row0, ClaimSaga, Claimable
<1>9. Sound(saga[e], row)
  BY <1>4, <1>8 DEF Sound, Final
<1> QED
  BY <1>1, <1>2, <1>7, <1>9, WriteStep

(* The steps of a dispatch that leave the row alone.                       *)
LEMMA DispatchMoves ==
    ASSUME SagaInv, NEW w \in SagaWorkers,
           Load(w) \/ ReadDesired(w) \/ Apply(w) \/ ReportRefused(w)
    PROVE  GoodStep
<1> DEFINE e == runner[w].e
<1>0. runner[w] \in Runner0 /\ WorkerOK(runner[w], saga, reported)
  BY DEF SagaInv
<1>1. e \in Events /\ Knows(runner[w], saga[e], reported[e])
      /\ saga[e] \in Row0
  <2>1. runner[w].pc \in Loaded \cup {"load"}
    BY DEF Load, ReadDesired, Apply, ReportRefused, Loaded
  <2> QED
    BY <1>0, <2>1 DEF WorkerOK, SagaInv
<1>2. UNCHANGED <<saga, reported>>
  BY DEF Load, ReadDesired, Apply, ReportRefused
<1>3. CASE Load(w) /\ Row(w).status = "RESERVED"
  <2> DEFINE r == [runner[w] EXCEPT !.pc = "desired", !.held = TRUE,
                                    !.att = Row(w).attempts]
  <2>1. r \in Runner0 /\ r.pc = "desired" /\ r.e = e /\ r.att = saga[e].attempts
    BY <1>0, <1>1 DEF Runner0, Row0, Pc, Row
  <2>2. runner' = [runner EXCEPT ![w] = r]
    BY <1>3 DEF Load, Become
  <2> HIDE DEF r, e
  <2>3. WorkerOK(r, saga, reported)
    BY <1>1, <2>1 DEF WorkerOK, Knows, Loaded, Row0
  <2> QED
    BY <1>2, <2>2, <2>3, MoveStep
<1>4. CASE Load(w) /\ Row(w).status # "RESERVED"
  <2>1. WorkerOK(Idle, saga, reported)
    BY DEF WorkerOK, Runner0, Pc, Loaded, Idle, Outcome
  <2>2. runner' = [runner EXCEPT ![w] = Idle]
    BY <1>4 DEF Load, Become
  <2> QED
    BY <1>2, <2>1, <2>2, MoveStep
<1>5. ASSUME NEW out \in {"retry", "dead"},
             runner[w].pc \in {"desired", "report"},
             Become(w, [runner[w] EXCEPT !.pc = "finish", !.out = out])
      PROVE  GoodStep
  <2> DEFINE r == [runner[w] EXCEPT !.pc = "finish", !.out = out]
  <2>1. r \in Runner0 /\ r.pc = "finish" /\ r.e = e /\ r.att = runner[w].att
        /\ r.out # "COMPLETED"
    BY <1>0 DEF Runner0, Pc, Outcome
  <2>2. runner' = [runner EXCEPT ![w] = r]
    BY <1>5 DEF Become
  <2> HIDE DEF r, e
  <2>3. WorkerOK(r, saga, reported)
    BY <1>1, <1>5, <2>1 DEF WorkerOK, Knows, Loaded
  <2> QED
    BY <1>2, <2>2, <2>3, MoveStep
<1>6. CASE Apply(w)
  <2> DEFINE r == [runner[w] EXCEPT !.pc = "save"]
  <2>1. r \in Runner0 /\ r.pc = "save" /\ r.e = e /\ r.att = runner[w].att
    BY <1>0 DEF Runner0, Pc
  <2>2. runner' = [runner EXCEPT ![w] = r] /\ runner[w].pc = "apply"
    BY <1>6 DEF Apply, GoTo, Become
  <2> HIDE DEF r, e
  <2>3. WorkerOK(r, saga, reported)
    BY <1>1, <2>1, <2>2 DEF WorkerOK, Knows, Loaded
  <2> QED
    BY <1>2, <2>2, <2>3, MoveStep
<1> QED
  BY <1>3, <1>4, <1>5, <1>6 DEF ReadDesired, ReportRefused

(* _guarded_update changes the row only under the claim the worker loaded; *)
(* otherwise the worker is through with it.                                *)
LEMMA GuardedStep ==
    ASSUME SagaInv, NEW w \in SagaWorkers, NEW row, NEW next,
           GuardedUpdate(w, row, next), UNCHANGED reported,
           runner[w].e \in Events,
           Owned(w) => /\ RowOK(row, reported[runner[w].e])
                       /\ Sound(saga[runner[w].e], row)
                       /\ next \in Runner0
                       /\ next.pc \in Loaded \cup {"load"}
                            => /\ next.e = runner[w].e
                               /\ Knows(next, row, reported[runner[w].e])
    PROVE  GoodStep
<1> DEFINE e == runner[w].e
           r == [next EXCEPT !.held = FALSE]
<1>1. CASE ~Owned(w)
  <2>1. WorkerOK(Idle, saga, reported)
    BY DEF WorkerOK, Runner0, Pc, Loaded, Idle, Outcome
  <2>2. runner' = [runner EXCEPT ![w] = Idle] /\ UNCHANGED <<saga, reported>>
    BY <1>1 DEF GuardedUpdate, Become
  <2> QED
    BY <2>1, <2>2, MoveStep
<1>2. CASE Owned(w)
  <2>1. runner' = [runner EXCEPT ![w] = r] /\ Write(e, row)
    BY <1>2 DEF GuardedUpdate, Become
  <2>2. /\ r \in Runner0 /\ r.pc = next.pc /\ r.e = next.e /\ r.att = next.att
        /\ r.key = next.key /\ r.out = next.out
    BY <1>2 DEF Runner0
  <2>3. e \in Events /\ saga'[e] = row
    BY <2>1 DEF Write, SagaInv
  <2>4. RowOK(row, reported[e]) /\ Sound(saga[e], row)
    BY <1>2
  <2>5. r.pc \in Loaded \cup {"load"} => r.e = e /\ Knows(next, row, reported[e])
    BY <1>2, <2>2
  <2> HIDE DEF e, r
  <2>6. r.pc \in Loaded \cup {"load"} => r.e = e /\ Knows(r, row, reported[e])
    BY <2>2, <2>5 DEF Knows
  <2>7. WorkerOK(r, saga', reported)
    BY <2>2, <2>3, <2>6 DEF WorkerOK
  <2> QED
    BY <2>1, <2>3, <2>4, <2>7, WriteStep
<1> QED
  BY <1>1, <1>2

(* What the worker that writes a row has in hand.                          *)
LEMMA InHand ==
    ASSUME SagaInv, NEW w \in SagaWorkers, runner[w].pc \in Loaded
    PROVE  /\ runner[w] \in Runner0 /\ runner[w].e \in Events
           /\ Row(w) = saga[runner[w].e] /\ Row(w) \in Row0
           /\ RowOK(Row(w), reported[runner[w].e])
           /\ Knows(runner[w], Row(w), reported[runner[w].e])
BY DEF SagaInv, WorkerOK, Row

(* Renewing the lease: with an observation to resend the worker takes its  *)
(* key, otherwise the claim did not come with one.                         *)
LEMMA RenewStep ==
    ASSUME SagaInv, NEW w \in SagaWorkers, Renew(w) PROVE GoodStep
<1> DEFINE row == [Row(w) EXCEPT !.live = TRUE]
           again == [runner[w] EXCEPT !.pc = "report", !.key = Row(w).key]
           fresh == [runner[w] EXCEPT !.pc = "apply"]
           next == IF HasReusableObservation(Row(w)) THEN again ELSE fresh
           p == reported[runner[w].e]
<1>1. /\ runner[w] \in Runner0 /\ runner[w].e \in Events
      /\ Row(w) = saga[runner[w].e] /\ Row(w) \in Row0
      /\ RowOK(Row(w), p) /\ Knows(runner[w], Row(w), p)
  BY InHand DEF Renew, Loaded
<1>2. /\ row \in Row0 /\ row.status = Row(w).status /\ row.key = Row(w).key
      /\ row.attempts = Row(w).attempts /\ row.error = Row(w).error
      /\ row.resend = Row(w).resend
  BY <1>1 DEF Row0
<1>3. again \in Runner0 /\ again.pc = "report" /\ again.e = runner[w].e
      /\ again.key = Row(w).key /\ again.att = runner[w].att
  BY <1>1 DEF Runner0, Row0, Pc
<1>4. fresh \in Runner0 /\ fresh.pc = "apply" /\ fresh.e = runner[w].e
      /\ fresh.att = runner[w].att
  BY <1>1 DEF Runner0, Pc
<1>5. GuardedUpdate(w, row, next) /\ UNCHANGED reported /\ runner[w].pc = "desired"
  BY DEF Renew
<1>6. runner[w].att \in Nat /\ Row(w).attempts \in Nat /\ Row(w).key \in Nat
  BY <1>1 DEF Runner0, Row0
<1>7. ASSUME Owned(w) PROVE RowOK(row, p) /\ Sound(saga[runner[w].e], row)
  <2>1. Row(w).status = "RESERVED"
    BY <1>7 DEF Owned
  <2> HIDE DEF row, p
  <2>2. RowOK(row, p)
    BY <1>1, <1>2 DEF RowOK
  <2>3. Sound(Row(w), row)
    BY <1>2, <1>6, <2>1 DEF Sound, Final
  <2> QED
    BY <1>1, <2>2, <2>3
<1>8. CASE HasReusableObservation(Row(w))
  <2> HIDE DEF row, again, fresh, p
  <2>1. Knows(again, row, p)
    BY <1>1, <1>2, <1>3, <1>5, <1>6 DEF Knows, Loaded
  <2>2. next = again
    BY <1>8
  <2> HIDE DEF next
  <2> QED
    BY <1>1, <1>3, <1>5, <1>7, <2>1, <2>2, GuardedStep DEF p
<1>9. CASE ~HasReusableObservation(Row(w))
  <2> HIDE DEF row, again, fresh, p
  <2>1. ~(row.status = "RESERVED" /\ row.resend)
    BY <1>1, <1>2, <1>9 DEF RowOK, HasReusableObservation
  <2>2. Knows(fresh, row, p)
    BY <1>1, <1>2, <1>4, <1>5, <2>1 DEF Knows, Loaded
  <2>3. next = fresh
    BY <1>9
  <2> HIDE DEF next
  <2> QED
    BY <1>1, <1>4, <1>5, <1>7, <2>2, <2>3, GuardedStep DEF p
<1> QED
  BY <1>8, <1>9

(* Saving an observation: the key rises, under a claim that came without   *)
(* one, and is in the row when the worker goes on to report it.            *)
LEMMA SaveStep ==
    ASSUME SagaInv, NEW w \in SagaWorkers, Save(w) PROVE GoodStep
<1> DEFINE row == [Row(w) EXCEPT !.key = @ + 1]
           next == [runner[w] EXCEPT !.pc = "report", !.key = Row(w).key + 1]
           p == reported[runner[w].e]
<1>1. /\ runner[w] \in Runner0 /\ runner[w].e \in Events
      /\ Row(w) = saga[runner[w].e] /\ Row(w) \in Row0
      /\ RowOK(Row(w), p) /\ Knows(runner[w], Row(w), p)
  BY InHand DEF Save, Loaded
<1>2. runner[w].att \in Nat /\ Row(w).attempts \in Nat /\ Row(w).key \in Nat
  BY <1>1 DEF Runner0, Row0
<1>3. /\ row \in Row0 /\ row.status = Row(w).status /\ row.key = Row(w).key + 1
      /\ row.attempts = Row(w).attempts /\ row.resend = Row(w).resend
  BY <1>1, <1>2 DEF Row0
<1>4. next \in Runner0 /\ next.pc = "report" /\ next.e = runner[w].e
      /\ next.key = Row(w).key + 1 /\ next.att = runner[w].att
  <2>1. Row(w).key + 1 \in Nat
    BY <1>2
  <2>2. \A n \in Nat :
          LET r == [runner[w] EXCEPT !.pc = "report", !.key = n]
          IN  r \in Runner0 /\ r.pc = "report" /\ r.e = runner[w].e
              /\ r.key = n /\ r.att = runner[w].att
    BY <1>1 DEF Runner0, Pc
  <2> QED
    BY <2>1, <2>2
<1>5. GuardedUpdate(w, row, next) /\ UNCHANGED reported /\ runner[w].pc = "save"
  BY DEF Save
<1> HIDE DEF row, next, p
<1>6. ASSUME Owned(w) PROVE RowOK(row, p) /\ Sound(Row(w), row)
  <2>1. Row(w).status = "RESERVED" /\ ~Row(w).resend
    BY <1>1, <1>5, <1>6 DEF Owned, Knows
  <2>2. p \subseteq Nat /\ \A k \in p : k <= Row(w).key
    BY <1>1 DEF RowOK
  <2>3. ASSUME NEW k \in p PROVE k <= row.key
    <3>1. k \in Nat /\ k <= Row(w).key
      BY <2>2
    <3>2. row.key = Row(w).key + 1
      BY <1>3
    <3> QED
      BY <1>2, <3>1, <3>2
  <2>4. RowOK(row, p)
    BY <1>3, <2>1, <2>2, <2>3 DEF RowOK
  <2>5. Sound(Row(w), row)
    BY <1>2, <1>3, <2>1 DEF Sound, Final
  <2> QED
    BY <2>4, <2>5
<1>7. Knows(next, row, p)
  BY <1>1, <1>2, <1>3, <1>4, <1>5 DEF Knows, Loaded
<1> QED
  BY <1>1, <1>4, <1>5, <1>6, <1>7, GuardedStep DEF p

(* Odoo accepts a read-back: its key is in the row.                        *)
LEMMA ReportStep ==
    ASSUME SagaInv, NEW w \in SagaWorkers, ReportAccepted(w) PROVE GoodStep
<1> DEFINE e == runner[w].e
<1>1. /\ runner[w] \in Runner0 /\ e \in Events
      /\ saga[e] \in Row0 /\ RowOK(saga[e], reported[e])
      /\ Knows(runner[w], saga[e], reported[e])
  BY InHand DEF ReportAccepted, Loaded
<1>2. /\ runner[w].pc = "report" /\ UNCHANGED saga
      /\ reported' = [reported EXCEPT ![e] = @ \cup {runner[w].key}]
  BY DEF ReportAccepted
<1>3. PICK out \in {"COMPLETED", "retry"} :
        runner' = [runner EXCEPT ![w] = [runner[w] EXCEPT !.pc = "finish", !.out = out]]
  BY DEF ReportAccepted, Become
<1> DEFINE r == [runner[w] EXCEPT !.pc = "finish", !.out = out]
<1>4. r \in Runner0 /\ r.pc = "finish" /\ r.e = e /\ r.att = runner[w].att
  BY <1>1 DEF Runner0, Pc, Outcome
<1>5. runner[w].key \in Nat /\ runner[w].key <= saga[e].key /\ runner[w].att <= saga[e].attempts
  BY <1>1, <1>2 DEF Runner0, Knows, Loaded
<1> HIDE DEF e, r
<1>6. reported \in [Events -> SUBSET Nat] /\ saga \in [Events -> Row0]
  BY DEF SagaInv
<1>7. /\ reported'[e] = reported[e] \cup {runner[w].key}
      /\ \A f \in Events \ {e} : reported'[f] = reported[f]
      /\ reported' \in [Events -> SUBSET Nat]
  BY <1>1, <1>2, <1>5, <1>6
<1>8. RowOK(saga[e], reported'[e])
  BY <1>1, <1>5, <1>7 DEF RowOK
<1>9. \A f \in Events : /\ RowOK(saga'[f], reported'[f])
                        /\ Sound(saga[f], saga'[f])
                        /\ reported[f] \subseteq reported'[f]
  BY <1>2, <1>7, <1>8, SoundRefl DEF SagaInv
<1>10. Knows(r, saga[e], reported'[e])
  BY <1>4, <1>5, <1>7 DEF Knows, Loaded
<1>11. WorkerOK(r, saga', reported')
  BY <1>1, <1>2, <1>4, <1>10 DEF WorkerOK
<1>12. saga' \in [Events -> Row0] /\ runner' = [runner EXCEPT ![w] = r]
  BY <1>2, <1>3, <1>6 DEF r
<1> QED
  BY <1>7, <1>9, <1>11, <1>12, InvStep

(* The end of a dispatch: completed only after an accepted read-back.      *)
LEMMA TerminateStep ==
    ASSUME SagaInv, NEW w \in SagaWorkers, Terminate(w) PROVE GoodStep
<1> DEFINE row == Terminated(Row(w), runner[w].out)
           p == reported[runner[w].e]
<1>1. /\ runner[w] \in Runner0 /\ runner[w].e \in Events
      /\ Row(w) = saga[runner[w].e] /\ Row(w) \in Row0
      /\ RowOK(Row(w), p) /\ Knows(runner[w], Row(w), p)
  BY InHand DEF Terminate, Loaded
<1>2. GuardedUpdate(w, row, Idle) /\ UNCHANGED reported /\ runner[w].pc = "finish"
  BY DEF Terminate
<1>3. /\ row \in Row0 /\ row.status \in {"COMPLETED", "RETRY", "DEAD_LETTER"}
      /\ row.status = "COMPLETED" => runner[w].out = "COMPLETED"
      /\ row.status = "RETRY" => Row(w).attempts < RetryLimit
      /\ row.attempts = Row(w).attempts /\ row.key = Row(w).key
  <2>1. CASE runner[w].out = "COMPLETED"
    BY <1>1, <2>1 DEF Terminated, Row0, SagaStatus, Final, ErrorClass
  <2>2. CASE runner[w].out = "retry" /\ Row(w).attempts < RetryLimit
    BY <1>1, <2>2 DEF Terminated, Row0, SagaStatus, Final, ErrorClass
  <2>3. CASE runner[w].out # "COMPLETED"
             /\ ~(runner[w].out = "retry" /\ Row(w).attempts < RetryLimit)
    BY <1>1, <2>3 DEF Terminated, Row0, SagaStatus, Final, ErrorClass
  <2> QED
    BY <2>1, <2>2, <2>3
<1> HIDE DEF row, p
<1>4. row.status = "COMPLETED" => p # {}
  BY <1>1, <1>2, <1>3 DEF Knows
<1>5. ASSUME Owned(w) PROVE RowOK(row, p) /\ Sound(Row(w), row)
  BY <1>1, <1>3, <1>4, <1>5, ReleasedRow DEF Owned, Final
<1>6. Idle \in Runner0 /\ Idle.pc \notin Loaded \cup {"load"}
  BY DEF Idle, Runner0, Pc, Loaded, Outcome
<1> QED
  BY <1>1, <1>2, <1>5, <1>6, GuardedStep DEF p

(* A lease runs out under or behind a worker: nothing but the lease.       *)
LEMMA ExpiryStep ==
    ASSUME SagaInv, NEW e \in Events, LeaseExpires(e)
    PROVE  GoodStep
<1> DEFINE row == [saga[e] EXCEPT !.live = FALSE]
<1>1. saga[e] \in Row0 /\ RowOK(saga[e], reported[e]) /\ saga[e].status = "RESERVED"
  BY DEF SagaInv, LeaseExpires
<1>2. /\ row \in Row0 /\ row.status = saga[e].status /\ row.key = saga[e].key
      /\ row.attempts = saga[e].attempts /\ row.error = saga[e].error
      /\ row.resend = saga[e].resend
  BY <1>1 DEF Row0
<1>3. saga' = [saga EXCEPT ![e] = row] /\ UNCHANGED <<runner, reported>>
  BY DEF LeaseExpires, Write
<1> HIDE DEF row
<1>4. RowOK(row, reported[e])
  BY <1>1, <1>2 DEF RowOK
<1>5. Sound(saga[e], row)
  <2>1. saga[e].attempts \in Nat /\ saga[e].key \in Nat
    BY <1>1 DEF Row0
  <2> QED
    BY <1>1, <1>2, <2>1 DEF Sound, Final
<1>6. saga' \in [Events -> Row0] /\ saga'[e] = row
      /\ \A f \in Events \ {e} : saga'[f] = saga[f]
  BY <1>2, <1>3 DEF SagaInv
<1>7. \A f \in Events : RowOK(saga'[f], reported[f]) /\ Sound(saga[f], saga'[f])
  BY <1>4, <1>5, <1>6, SoundRefl DEF SagaInv
<1>8. ASSUME NEW w \in SagaWorkers PROVE WorkerOK(runner[w], saga', reported)
  <2>1. WorkerOK(runner[w], saga, reported) /\ runner[w] \in Runner0
    BY DEF SagaInv
  <2>2. ASSUME runner[w].e \in Events,
               Knows(runner[w], saga[runner[w].e], reported[runner[w].e])
        PROVE  Knows(runner[w], saga'[runner[w].e], reported[runner[w].e])
    <3>1. saga[runner[w].e] \in Row0 /\ saga'[runner[w].e] \in Row0
      BY <1>6, <2>2 DEF SagaInv
    <3>2. Sound(saga[runner[w].e], saga'[runner[w].e])
      BY <1>7, <2>2
    <3> QED
      BY <2>1, <2>2, <3>1, <3>2, KnowledgeStays
  <2> QED
    BY <2>1, <2>2 DEF WorkerOK
<1>9. SagaInv'
  BY <1>3, <1>6, <1>7, <1>8 DEF SagaInv
<1> QED
  BY <1>7, <1>9 DEF GoodStep

(* Every step of the saga preserves the invariant and is sound.            *)
LEMMA SagaStep ==
    ASSUME SagaInv, [Next]_vars PROVE GoodStep
<1>1. CASE UNCHANGED vars
  BY <1>1, SoundRefl DEF SagaInv, vars, GoodStep
<1>2. ASSUME NEW w \in SagaWorkers, Cycle(w) PROVE GoodStep
  BY <1>2, RecoverStep, CycleMoves, EnrollStep, ClaimStep, DispatchMoves,
     RenewStep, SaveStep, ReportStep, TerminateStep DEF Cycle
<1>3. ASSUME NEW w \in SagaWorkers, Crash(w) PROVE GoodStep
  BY <1>3, CycleMoves
<1>4. ASSUME NEW e \in Events, LeaseExpires(e) PROVE GoodStep
  BY <1>4, ExpiryStep
<1>5. ASSUME NEW e \in Events, OdooMoves(e) PROVE GoodStep
  BY <1>5, SoundRefl DEF OdooMoves, SagaInv, GoodStep
<1> QED
  BY <1>1, <1>2, <1>3, <1>4, <1>5 DEF Next

(* The empty queue satisfies the invariant.                                *)
LEMMA SagaInvInit == Init => SagaInv
<1> SUFFICES ASSUME Init PROVE SagaInv
  OBVIOUS
<1>1. Idle \in Runner0 /\ Idle.pc = "idle"
  BY DEF Idle, Runner0, Pc, Outcome
<1>2. \A w \in SagaWorkers : WorkerOK(runner[w], saga, reported)
  BY <1>1 DEF Init, WorkerOK, Loaded
<1>3. \A e \in Events : /\ saga[e] \in Row0 /\ saga[e].status = "none"
                        /\ reported[e] = {}
  BY DEF Init, Row0, SagaStatus, ErrorClass
<1>4. \A e \in Events : RowOK(saga[e], reported[e])
  BY <1>3 DEF RowOK
<1> QED
  BY <1>1, <1>2, <1>3, <1>4 DEF Init, SagaInv

(* The inductive invariant holds throughout, for all constants.            *)
THEOREM SagaInvariant == Spec => []SagaInv
<1>1. SagaInv /\ [Next]_vars => SagaInv'
  BY SagaStep DEF GoodStep
<1> QED
  BY <1>1, SagaInvInit, PTL DEF Spec

(* KeyDurableFirst, for any number of events, workers and retries: Odoo    *)
(* never holds a read-back under a key that is not in the row.             *)
THEOREM KeysAreDurable == Spec => []KeyDurableFirst
<1>1. SagaInv => KeyDurableFirst
  BY DEF SagaInv, RowOK, KeyDurableFirst
<1> QED
  BY <1>1, SagaInvariant, PTL

(* CompletedIsReported: a saga is completed only when Odoo has accepted a  *)
(* read-back of its event.                                                 *)
THEOREM CompletionIsReported == Spec => []CompletedIsReported
<1>1. SagaInv => CompletedIsReported
  BY DEF SagaInv, RowOK, CompletedIsReported
<1> QED
  BY <1>1, SagaInvariant, PTL

(* FinalStays: no late worker, recovery or second enrolment takes a saga   *)
(* out of COMPLETED or DEAD_LETTER.                                        *)
THEOREM FinalRowsStay == Spec => FinalStays
<1>1. SagaInv /\ [Next]_vars =>
        [\A e \in Events : saga[e].status \in Final => saga'[e] = saga[e]]_vars
  BY SagaStep DEF GoodStep, Sound
<1> QED
  BY <1>1, SagaInvariant, PTL DEF Spec, FinalStays

(* TransportRetryKeepsKey: under a claim that came with an observation and *)
(* a transport error nobody observes again, not even a worker that took    *)
(* another's claim for its own.                                            *)
THEOREM ResendKeepsKey == Spec => TransportRetryKeepsKey
<1>1. SagaInv /\ [Next]_vars =>
        [\A e \in Events : saga[e].status = "RESERVED" /\ saga[e].resend
             => saga'[e].key = saga[e].key]_vars
  BY SagaStep DEF GoodStep, Sound
<1> QED
  BY <1>1, SagaInvariant, PTL DEF Spec, TransportRetryKeepsKey

(***************************************************************************)
(* The retry limit: a row is claimed at most RetryLimit times, by however  *)
(* many workers and after however many lost leases.                        *)
(***************************************************************************)
WithinLimit == \A e \in Events : saga[e].attempts <= RetryLimit

Counted(row) ==
    /\ row.attempts <= RetryLimit
    /\ row.status \in {"none", "PENDING"} => row.attempts = 0
    /\ row.status = "RETRY" => row.attempts < RetryLimit

(* Sound changes of a row keep its count within the limit.                 *)
LEMMA CountedStays ==
    ASSUME RetryLimit \in Nat \ {0}, NEW row \in Row0, NEW row2 \in Row0,
           Counted(row), Sound(row, row2)
    PROVE  Counted(row2)
<1>1. row.attempts \in Nat /\ row2.attempts \in Nat
  BY DEF Row0
<1>2. CASE row2.attempts = row.attempts
  BY <1>1, <1>2 DEF Counted, Sound
<1>3. CASE row2.attempts # row.attempts
  BY <1>1, <1>3 DEF Counted, Sound
<1> QED
  BY <1>2, <1>3

(* With a positive limit no row is ever claimed more often than that.      *)
THEOREM RetryLimitHolds ==
    ASSUME RetryLimit \in Nat \ {0} PROVE Spec => []WithinLimit
<1> DEFINE Inv == SagaInv /\ \A e \in Events : Counted(saga[e])
<1>1. Init => Inv
  BY SagaInvInit DEF Init, Counted
<1>2. Inv /\ [Next]_vars => Inv'
  <2> SUFFICES ASSUME Inv, [Next]_vars PROVE Inv'
    OBVIOUS
  <2>1. SagaInv' /\ \A e \in Events : Sound(saga[e], saga'[e])
    BY SagaStep DEF GoodStep
  <2>2. \A e \in Events : saga[e] \in Row0 /\ saga'[e] \in Row0
    BY <2>1 DEF SagaInv
  <2> QED
    BY <2>1, <2>2, CountedStays
<1>3. Inv => WithinLimit
  BY DEF Counted, WithinLimit
<1> QED
  BY <1>1, <1>2, <1>3, PTL DEF Spec

=============================================================================
