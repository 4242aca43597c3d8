-------------------------- MODULE TtsStreamProofs --------------------------
(***************************************************************************)
(* Safety of TtsStream for any set of speeches, retries and restarts.  The *)
(* argument: the handler whose stream is open holds the lock, and whoever  *)
(* holds it is at the one step that may release it.                        *)
(***************************************************************************)
EXTENDS TtsStream, FiniteSetTheorems, TLAPS

Before == {"none", "admit", "claim", "audit", "mark"}
Holding == {"claim", "audit", "mark", "prefetch", "record", "stream", "chunk",
            "complete", "disconnected", "close"}
Pcs == Before \cup Holding \cup {"ambiguous", "end"}
Handler0 == [pc: Pcs, calls: Nat, heard: BOOLEAN]

(***************************************************************************)
(* An ended row has no lease.                                              *)
(***************************************************************************)
RowOK(row) == row \in TtsRow /\ (row.state \in Ended => ~row.live)

(***************************************************************************)
(* What a handler r relies on: it holds the lock of its speech j while its *)
(* stream may be open, nothing is heard before the first chunk, and the    *)
(* provider is called only once the row says that it was started.          *)
(***************************************************************************)
HandlerOK(r, row, l, j) ==
    /\ r \in Handler0
    /\ r.pc \in Holding \/ (r.pc = "ambiguous" /\ r.heard) => l = j
    /\ r.pc \in Before \cup {"prefetch"} => ~r.heard
    /\ r.pc \in {"record", "stream", "chunk", "complete", "disconnected", "close"} => r.heard
    /\ r.pc \in Before => r.calls = 0
    /\ r.calls > 0 \/ r.pc = "prefetch" => row.state \in Streaming \cup Ended

TtsInv ==
    /\ tts \in [Speeches -> TtsRow] /\ req \in [Speeches -> Handler0]
    /\ \A j \in Speeches : RowOK(tts[j]) /\ HandlerOK(req[j], tts[j], lock, j)

(***************************************************************************)
(* What a step may do to a row: an ended one stays, a started one stays    *)
(* started.                                                                *)
(***************************************************************************)
Sound(row, row2) ==
    /\ RowOK(row2)
    /\ row.state \in Ended => row2 = row
    /\ row.state \in Streaming => row2.state \in Streaming \cup Ended

GoodStep == TtsInv' /\ \A j \in Speeches : Sound(tts[j], tts'[j])

(* A row that does not change changes soundly.                             *)
LEMMA SoundRefl == ASSUME NEW row, RowOK(row) PROVE Sound(row, row)
BY DEF Sound

(* A handler that stays where it is keeps what it relies on when its row   *)
(* changes soundly and its lock is not taken away.                         *)
LEMMA HandlerStays ==
    ASSUME NEW r, NEW row, NEW row2, NEW l, NEW l2, NEW j,
           HandlerOK(r, row, l, j), Sound(row, row2), l = j => l2 = j
    PROVE  HandlerOK(r, row2, l2, j)
BY DEF HandlerOK, Sound

(* A step of one handler: its own row changes soundly, and it gives the    *)
(* lock only away when it had it, or takes it when it is free.             *)
LEMMA HandlerStep ==
    ASSUME TtsInv, NEW j \in Speeches, NEW r, NEW row,
           req' = [req EXCEPT ![j] = r], tts' = [tts EXCEPT ![j] = row],
           Sound(tts[j], row), HandlerOK(r, row, lock', j),
           \A k \in Speeches : k # j /\ lock = k => lock' = k
    PROVE  GoodStep
<1>1. row \in TtsRow /\ r \in Handler0 /\ RowOK(row)
  BY DEF Sound, RowOK, HandlerOK
<1>2. tts' \in [Speeches -> TtsRow] /\ req' \in [Speeches -> Handler0]
      /\ tts'[j] = row /\ req'[j] = r
      /\ \A k \in Speeches \ {j} : tts'[k] = tts[k] /\ req'[k] = req[k]
  BY <1>1 DEF TtsInv
<1>3. ASSUME NEW k \in Speeches, k # j
      PROVE  Sound(tts[k], tts'[k]) /\ RowOK(tts'[k]) /\ HandlerOK(req'[k], tts'[k], lock', k)
  <2>1. RowOK(tts[k]) /\ HandlerOK(req[k], tts[k], lock, k)
    BY DEF TtsInv
  <2>2. Sound(tts[k], tts[k])
    BY <2>1, SoundRefl
  <2>3. HandlerOK(req[k], tts[k], lock', k)
    BY <1>3, <2>1, <2>2, HandlerStays
  <2> QED
    BY <1>2, <1>3, <2>1, <2>2, <2>3
<1>4. TtsInv'
  BY <1>1, <1>2, <1>3 DEF TtsInv
<1> QED
  BY <1>2, <1>3, <1>4 DEF GoodStep

(* A handler that only moves on.                                           *)
LEMMA MoveStep ==
    ASSUME TtsInv, NEW j \in Speeches, NEW r,
           req' = [req EXCEPT ![j] = r], UNCHANGED tts,
           HandlerOK(r, tts[j], lock', j),
           \A k \in Speeches : k # j /\ lock = k => lock' = k
    PROVE  GoodStep
<1>1. tts' = [tts EXCEPT ![j] = tts[j]] /\ Sound(tts[j], tts[j])
  BY SoundRefl DEF TtsInv
<1> QED
  BY <1>1, HandlerStep

(* The row changes under the handlers.                                     *)
LEMMA RowsStep ==
    ASSUME TtsInv, UNCHANGED <<req, lock>>, tts' \in [Speeches -> TtsRow],
           \A j \in Speeches : Sound(tts[j], tts'[j])
    PROVE  GoodStep
<1>1. ASSUME NEW j \in Speeches
      PROVE  RowOK(tts'[j]) /\ HandlerOK(req'[j], tts'[j], lock', j)
  <2>1. HandlerOK(req[j], tts[j], lock, j) /\ Sound(tts[j], tts'[j])
    BY DEF TtsInv
  <2> QED
    BY <2>1, HandlerStays DEF Sound
<1>2. TtsInv'
  BY <1>1 DEF TtsInv
<1> QED
  BY <1>2 DEF GoodStep

Moved(r, pc) == [r EXCEPT !.pc = pc]

(* A handler that only moves on keeps its counters.                        *)
LEMMA MovedHandler ==
    ASSUME NEW r \in Handler0, NEW pc \in Pcs
    PROVE  /\ Moved(r, pc) \in Handler0 /\ Moved(r, pc).pc = pc
           /\ Moved(r, pc).calls = r.calls /\ Moved(r, pc).heard = r.heard
BY DEF Moved, Handler0

(* Goto is a move of one handler.                                          *)
LEMMA GotoMoves ==
    ASSUME TtsInv, NEW j \in Speeches, NEW pc, Goto(j, pc)
    PROVE  req' = [req EXCEPT ![j] = Moved(req[j], pc)]
BY DEF TtsInv, Goto, Moved

(* What is known of speech j before a step.                                *)
LEMMA Known ==
    ASSUME TtsInv, NEW j \in Speeches
    PROVE  /\ tts[j] \in TtsRow /\ RowOK(tts[j]) /\ req[j] \in Handler0
           /\ HandlerOK(req[j], tts[j], lock, j) /\ req[j].calls \in Nat
BY DEF TtsInv, Handler0

(* The rows a step may write.                                              *)
LEMMA EndedRow ==
    ASSUME NEW row \in TtsRow, row.state \notin Ended, NEW state \in Ended
    PROVE  Sound(row, [state |-> state, live |-> FALSE])
BY DEF Sound, RowOK, TtsRow

(* A cancellation leaves an ended row alone.                               *)
LEMMA CancelledIsSound ==
    ASSUME NEW row, RowOK(row) PROVE Sound(row, CancelledRow(row))
<1>1. CASE row.state \in Ended
  BY <1>1, SoundRefl DEF CancelledRow
<1>2. CASE row.state \notin Ended
  BY <1>2, EndedRow DEF CancelledRow, RowOK, Ended
<1> QED
  BY <1>1, <1>2

(* A request arrives with its row queued.                                  *)
LEMMA SubmitStep ==
    ASSUME TtsInv, NEW j \in Speeches, Submit(j) PROVE GoodStep
<1> DEFINE row == [tts[j] EXCEPT !.state = "queued"]
           r == Moved(req[j], "admit")
<1>1. /\ tts[j] \in TtsRow /\ RowOK(tts[j]) /\ req[j] \in Handler0
      /\ HandlerOK(req[j], tts[j], lock, j)
  BY Known
<1>2. row \in TtsRow /\ row.state = "queued"
  BY <1>1 DEF TtsRow
<1>3. req[j].pc = "none" /\ tts[j].state = "none" /\ UNCHANGED lock
      /\ tts' = [tts EXCEPT ![j] = row] /\ req' = [req EXCEPT ![j] = r]
  BY GotoMoves DEF Submit, At, Put, TtsInv
<1>4. r \in Handler0 /\ r.pc = "admit" /\ r.calls = req[j].calls /\ r.heard = req[j].heard
  BY <1>1, MovedHandler DEF Pcs, Before
<1> HIDE DEF row, r
<1>5. Sound(tts[j], row)
  BY <1>2, <1>3 DEF Sound, RowOK, Ended, Streaming
<1>6. HandlerOK(r, row, lock', j)
  BY <1>1, <1>3, <1>4 DEF HandlerOK, Before, Holding
<1> QED
  BY <1>3, <1>5, <1>6, HandlerStep

(* Admission takes the free lock, or cancels the row.                      *)
LEMMA AcquireStep ==
    ASSUME NoSpeech \notin Speeches, TtsInv, NEW j \in Speeches, Acquire(j)
    PROVE  GoodStep
<1>1. /\ tts[j] \in TtsRow /\ RowOK(tts[j]) /\ req[j] \in Handler0
      /\ HandlerOK(req[j], tts[j], lock, j) /\ req[j].pc = "admit"
  BY Known DEF Acquire, At
<1>2. CASE lock = NoSpeech /\ lock' = j /\ Goto(j, "claim") /\ UNCHANGED tts
  <2> DEFINE r == Moved(req[j], "claim")
  <2>1. r \in Handler0 /\ r.pc = "claim" /\ r.calls = req[j].calls /\ r.heard = req[j].heard
    BY <1>1, MovedHandler DEF Pcs, Before
  <2>2. req' = [req EXCEPT ![j] = r]
    BY <1>2, GotoMoves
  <2> HIDE DEF r
  <2>3. HandlerOK(r, tts[j], lock', j)
    BY <1>1, <1>2, <2>1 DEF HandlerOK, Before, Holding
  <2> QED
    BY <1>2, <2>2, <2>3, MoveStep
<1>3. CASE tts' = [tts EXCEPT ![j] = CancelledRow(@)] /\ Goto(j, "end") /\ UNCHANGED lock
  <2> DEFINE r == Moved(req[j], "end")
             row == CancelledRow(tts[j])
  <2>1. r \in Handler0 /\ r.pc = "end" /\ r.calls = req[j].calls
    BY <1>1, MovedHandler DEF Pcs
  <2>2. req' = [req EXCEPT ![j] = r] /\ tts' = [tts EXCEPT ![j] = row]
    BY <1>3, GotoMoves
  <2>3. Sound(tts[j], row)
    BY <1>1, CancelledIsSound
  <2> HIDE DEF r, row
  <2>4. req[j].calls = 0
    BY <1>1 DEF HandlerOK, Before
  <2>5. HandlerOK(r, row, lock', j)
    BY <1>1, <2>1, <2>4 DEF HandlerOK, Before, Holding
  <2> QED
    BY <1>3, <2>2, <2>3, <2>5, HandlerStep
<1> QED
  BY <1>2, <1>3 DEF Acquire

(* A handler ends, with a sound change of its row; the lock changes only   *)
(* if it was its own.                                                      *)
LEMMA EndStep ==
    ASSUME TtsInv, NEW j \in Speeches, Goto(j, "end"), NEW row,
           tts' = [tts EXCEPT ![j] = row], Sound(tts[j], row),
           UNCHANGED lock \/ lock = j
    PROVE  GoodStep
<1> DEFINE r == Moved(req[j], "end")
<1>1. req[j] \in Handler0 /\ HandlerOK(req[j], tts[j], lock, j)
  BY Known
<1>2. r \in Handler0 /\ r.pc = "end" /\ r.calls = req[j].calls
  BY <1>1, MovedHandler DEF Pcs
<1>3. req' = [req EXCEPT ![j] = r]
  BY GotoMoves
<1> HIDE DEF r
<1>4. HandlerOK(r, row, lock', j)
  BY <1>1, <1>2 DEF HandlerOK, Before, Holding, Sound
<1> QED
  BY <1>3, <1>4, HandlerStep

(* A handler that has heard the provider goes from one step of its stream  *)
(* to another.                                                             *)
Open0 == {"record", "stream", "chunk", "complete", "disconnected", "close", "ambiguous"}

(* A step within the open stream, after its first chunk.                   *)
LEMMA HeardStep ==
    ASSUME TtsInv, NEW j \in Speeches, req[j].pc \in Open0, req[j].heard,
           NEW pc \in Open0, Goto(j, pc), NEW row,
           tts' = [tts EXCEPT ![j] = row], Sound(tts[j], row), UNCHANGED lock
    PROVE  GoodStep
<1> DEFINE r == Moved(req[j], pc)
<1>1. req[j] \in Handler0 /\ HandlerOK(req[j], tts[j], lock, j)
  BY Known
<1>2. r \in Handler0 /\ r.pc = pc /\ r.calls = req[j].calls /\ r.heard = req[j].heard
  BY <1>1, MovedHandler DEF Pcs, Open0, Holding
<1>3. req' = [req EXCEPT ![j] = r]
  BY GotoMoves
<1> HIDE DEF r
<1>4. HandlerOK(r, row, lock', j)
  BY <1>1, <1>2 DEF HandlerOK, Before, Holding, Sound, Open0
<1> QED
  BY <1>3, <1>4, HandlerStep

(* A step that leaves the rows alone leaves this one alone.                *)
LEMMA SameRow ==
    ASSUME TtsInv, NEW j \in Speeches, UNCHANGED tts
    PROVE  tts' = [tts EXCEPT ![j] = tts[j]] /\ Sound(tts[j], tts[j])
BY SoundRefl DEF TtsInv

(* claim_exact under the lock.                                             *)
LEMMA ClaimStep ==
    ASSUME TtsInv, NEW j \in Speeches, ClaimExact(j) PROVE GoodStep
<1>1. /\ tts[j] \in TtsRow /\ req[j] \in Handler0 /\ lock = j
      /\ HandlerOK(req[j], tts[j], lock, j) /\ req[j].pc = "claim"
  BY Known DEF ClaimExact, At, HandlerOK, Holding
<1>2. CASE tts[j].state = "queued"
  <2> DEFINE r == Moved(req[j], "audit")
             row == [state |-> "claimed", live |-> TRUE]
  <2>1. r \in Handler0 /\ r.pc = "audit" /\ r.calls = req[j].calls /\ r.heard = req[j].heard
    BY <1>1, MovedHandler DEF Pcs, Before
  <2>2. req' = [req EXCEPT ![j] = r] /\ tts' = [tts EXCEPT ![j] = row] /\ UNCHANGED lock
    BY <1>2, GotoMoves DEF ClaimExact
  <2>3. Sound(tts[j], row)
    BY <1>2 DEF Sound, RowOK, TtsRow, Ended, Streaming
  <2> HIDE DEF r, row
  <2>4. HandlerOK(r, row, lock', j)
    BY <1>1, <2>1, <2>2 DEF HandlerOK, Before, Holding
  <2> QED
    BY <2>2, <2>3, <2>4, HandlerStep
<1>3. CASE tts[j].state # "queued"
  <2>1. Goto(j, "end") /\ UNCHANGED tts
    BY <1>3 DEF ClaimExact
  <2> QED
    BY <1>1, <2>1, SameRow, EndStep
<1> QED
  BY <1>2, <1>3

(* The audit entry before the stream opens.                                *)
LEMMA AuditStep ==
    ASSUME TtsInv, NEW j \in Speeches, Audit(j) PROVE GoodStep
<1>1. /\ req[j] \in Handler0 /\ lock = j /\ UNCHANGED tts
      /\ HandlerOK(req[j], tts[j], lock, j) /\ req[j].pc = "audit"
  BY Known DEF Audit, At, HandlerOK, Holding
<1>2. CASE Goto(j, "mark") /\ UNCHANGED lock
  <2> DEFINE r == Moved(req[j], "mark")
  <2>1. r \in Handler0 /\ r.pc = "mark" /\ r.calls = req[j].calls /\ r.heard = req[j].heard
    BY <1>1, MovedHandler DEF Pcs, Before
  <2>2. req' = [req EXCEPT ![j] = r]
    BY <1>2, GotoMoves
  <2> HIDE DEF r
  <2>3. HandlerOK(r, tts[j], lock', j)
    BY <1>1, <1>2, <2>1 DEF HandlerOK, Before, Holding
  <2> QED
    BY <1>1, <1>2, <2>2, <2>3, MoveStep
<1>3. CASE Goto(j, "end")
  BY <1>1, <1>3, SameRow, EndStep
<1> QED
  BY <1>2, <1>3 DEF Audit

(* mark_provider_started: the row says so before the provider is called.   *)
LEMMA MarkStep ==
    ASSUME TtsInv, NEW j \in Speeches, MarkProviderStarted(j) PROVE GoodStep
<1>1. /\ tts[j] \in TtsRow /\ req[j] \in Handler0 /\ lock = j /\ UNCHANGED lock
      /\ HandlerOK(req[j], tts[j], lock, j) /\ req[j].pc = "mark"
  BY Known DEF MarkProviderStarted, At, HandlerOK, Holding
<1>2. CASE tts[j].state = "claimed" /\ tts[j].live
  <2> DEFINE r == Moved(req[j], "prefetch")
             row == [tts[j] EXCEPT !.state = "provider_starting"]
  <2>1. r \in Handler0 /\ r.pc = "prefetch" /\ r.calls = req[j].calls /\ r.heard = req[j].heard
    BY <1>1, MovedHandler DEF Pcs, Holding
  <2>2. req' = [req EXCEPT ![j] = r] /\ tts' = [tts EXCEPT ![j] = row]
    BY <1>2, GotoMoves DEF MarkProviderStarted, Claimed, Put, TtsInv
  <2>3. row \in TtsRow /\ row.state = "provider_starting"
    BY <1>1 DEF TtsRow, Streaming
  <2> HIDE DEF r, row
  <2>4. Sound(tts[j], row)
    BY <1>2, <2>3 DEF Sound, RowOK, Ended, Streaming
  <2>5. HandlerOK(r, row, lock', j)
    BY <1>1, <2>1, <2>3 DEF HandlerOK, Before, Holding, Streaming
  <2> QED
    BY <1>1, <2>2, <2>4, <2>5, HandlerStep
<1>3. CASE ~(tts[j].state = "claimed" /\ tts[j].live)
  <2>1. Goto(j, "end") /\ UNCHANGED tts
    BY <1>3 DEF MarkProviderStarted, Claimed
  <2> QED
    BY <1>1, <2>1, SameRow, EndStep
<1> QED
  BY <1>2, <1>3

(* Calls of the provider: the row stays started; a failure for good gives  *)
(* the lock back.                                                          *)
LEMMA PrefetchStep ==
    ASSUME TtsInv, NEW j \in Speeches, Prefetch(j) PROVE GoodStep
<1> DEFINE n == req[j].calls + 1
           r1 == [req[j] EXCEPT !.pc = "record", !.calls = n, !.heard = TRUE]
           r2 == [req[j] EXCEPT !.calls = n]
           r3 == [req[j] EXCEPT !.pc = "ambiguous", !.calls = n]
<1>1. /\ tts[j] \in TtsRow /\ req[j] \in Handler0 /\ lock = j /\ UNCHANGED tts
      /\ HandlerOK(req[j], tts[j], lock, j) /\ req[j].pc = "prefetch" /\ n \in Nat
  BY Known DEF Prefetch, At, HandlerOK, Holding
<1>2. tts[j].state \in Streaming \cup Ended /\ ~req[j].heard
  BY <1>1 DEF HandlerOK
<1>3. \/ req' = [req EXCEPT ![j] = r1] /\ UNCHANGED lock
      \/ req' = [req EXCEPT ![j] = r2] /\ UNCHANGED lock
      \/ req' = [req EXCEPT ![j] = r3]
  BY DEF Prefetch, TtsInv
<1> HIDE DEF n
<1>4. r1 \in Handler0 /\ r1.pc = "record" /\ r1.heard
  BY <1>1 DEF Handler0, Pcs, Holding
<1>5. r2 \in Handler0 /\ r2.pc = "prefetch" /\ ~r2.heard
  BY <1>1, <1>2 DEF Handler0, Pcs, Holding
<1>6. r3 \in Handler0 /\ r3.pc = "ambiguous" /\ ~r3.heard
  BY <1>1, <1>2 DEF Handler0, Pcs
<1> HIDE DEF r1, r2, r3
<1>7. HandlerOK(r1, tts[j], lock, j) /\ HandlerOK(r2, tts[j], lock, j)
  BY <1>1, <1>2, <1>4, <1>5 DEF HandlerOK, Before, Holding
<1>8. \A l : HandlerOK(r3, tts[j], l, j)
  BY <1>2, <1>6 DEF HandlerOK, Before, Holding
<1>9. \A k \in Speeches : k # j /\ lock = k => lock' = k
  BY <1>1
<1> QED
  BY <1>1, <1>3, <1>7, <1>8, <1>9, MoveStep

(* record_chunk changes only a row that is streaming.                      *)
LEMMA FencedRow ==
    ASSUME TtsInv, NEW j \in Speeches, Fenced(j)
    PROVE  Sound(tts[j], [state |-> "streaming", live |-> TRUE])
BY DEF Fenced, Sound, RowOK, TtsRow, Ended, Streaming

(* mark_ambiguous and mark_cancelled_streaming: so does the end of it.     *)
LEMMA MarkedRow ==
    ASSUME TtsInv, NEW j \in Speeches, NEW state \in Ended
    PROVE  Sound(tts[j], IF tts[j].state \in Streaming
                         THEN [state |-> state, live |-> FALSE] ELSE tts[j])
<1>1. tts[j] \in TtsRow /\ RowOK(tts[j])
  BY Known
<1>2. CASE tts[j].state \in Streaming
  BY <1>1, <1>2, EndedRow DEF Streaming, Ended
<1>3. CASE tts[j].state \notin Streaming
  BY <1>1, <1>3, SoundRefl
<1> QED
  BY <1>2, <1>3

(* The steps of the handler from the first chunk to the end.               *)
LEMMA StreamSteps ==
    ASSUME TtsInv, NEW j \in Speeches,
           RecordFirst(j) \/ Stream(j) \/ RecordChunk(j) \/ Complete(j)
             \/ MarkAmbiguous(j) \/ MarkCancelledStreaming(j) \/ Close(j)
    PROVE  GoodStep
<1>1. /\ tts[j] \in TtsRow /\ RowOK(tts[j]) /\ req[j] \in Handler0
      /\ HandlerOK(req[j], tts[j], lock, j)
  BY Known
<1>2. CASE RecordFirst(j)
  <2>1. req[j].pc = "record" /\ req[j].heard /\ UNCHANGED lock
    BY <1>1, <1>2 DEF RecordFirst, At, HandlerOK
  <2>2. CASE Fenced(j)
    <3>1. Goto(j, "stream") /\ tts' = [tts EXCEPT ![j] = [state |-> "streaming", live |-> TRUE]]
      BY <1>2, <2>2 DEF RecordFirst, Recorded
    <3> QED
      BY <2>1, <2>2, <3>1, FencedRow, HeardStep DEF Open0
  <2>3. CASE ~Fenced(j)
    BY <1>2, <2>1, <2>3, SameRow, EndStep DEF RecordFirst
  <2> QED
    BY <2>2, <2>3
<1>3. CASE Stream(j)
  <2>1. req[j].pc = "stream" /\ req[j].heard /\ UNCHANGED <<tts, lock>>
    BY <1>1, <1>3 DEF Stream, At, HandlerOK
  <2>2. PICK pc \in {"chunk", "complete", "ambiguous", "disconnected", "close"} :
            Goto(j, pc)
    BY <1>3 DEF Stream
  <2>3. pc \in Open0 /\ req[j].pc \in Open0
    BY <2>1 DEF Open0
  <2> QED
    BY <2>1, <2>2, <2>3, SameRow, HeardStep
<1>4. CASE RecordChunk(j)
  <2>1. req[j].pc = "chunk" /\ req[j].heard /\ UNCHANGED lock
    BY <1>1, <1>4 DEF RecordChunk, At, HandlerOK
  <2>2. CASE Fenced(j)
    <3>1. Goto(j, "stream") /\ tts' = [tts EXCEPT ![j] = [state |-> "streaming", live |-> TRUE]]
      BY <1>4, <2>2 DEF RecordChunk, Recorded
    <3> QED
      BY <2>1, <2>2, <3>1, FencedRow, HeardStep DEF Open0
  <2>3. CASE ~Fenced(j)
    <3>1. Goto(j, "close") /\ UNCHANGED tts
      BY <1>4, <2>3 DEF RecordChunk
    <3> QED
      BY <2>1, <3>1, SameRow, HeardStep DEF Open0
  <2> QED
    BY <2>2, <2>3
<1>5. CASE Complete(j)
  <2>1. req[j].pc = "complete" /\ req[j].heard /\ UNCHANGED lock
    BY <1>1, <1>5 DEF Complete, At, HandlerOK
  <2>2. CASE tts[j].state \in CompletedFrom
    <3>1. Goto(j, "close") /\ tts' = [tts EXCEPT ![j] = [state |-> "completed", live |-> FALSE]]
      BY <1>5, <2>2 DEF Complete
    <3>2. Sound(tts[j], [state |-> "completed", live |-> FALSE])
      BY <1>1, <2>2, EndedRow DEF CompletedFrom, Ended
    <3> QED
      BY <2>1, <3>1, <3>2, HeardStep DEF Open0
  <2>3. CASE tts[j].state \notin CompletedFrom
    <3>1. Goto(j, "ambiguous") /\ UNCHANGED tts
      BY <1>5, <2>3 DEF Complete
    <3> QED
      BY <2>1, <3>1, SameRow, HeardStep DEF Open0
  <2> QED
    BY <2>2, <2>3
<1>6. CASE MarkAmbiguous(j)
  <2> DEFINE row == IF tts[j].state \in Streaming
                    THEN [state |-> "ambiguous_provider_outcome", live |-> FALSE] ELSE tts[j]
  <2>1. req[j].pc = "ambiguous" /\ UNCHANGED lock /\ tts' = [tts EXCEPT ![j] = row]
    BY <1>6 DEF MarkAmbiguous, At, Marked
  <2>2. Sound(tts[j], row)
    BY MarkedRow DEF Ended
  <2> HIDE DEF row
  <2>3. CASE req[j].heard
    <3>1. Goto(j, "close")
      BY <1>6, <2>3 DEF MarkAmbiguous
    <3> QED
      BY <2>1, <2>2, <2>3, <3>1, HeardStep DEF Open0
  <2>4. CASE ~req[j].heard
    <3>1. Goto(j, "end")
      BY <1>6, <2>4 DEF MarkAmbiguous
    <3> QED
      BY <2>1, <2>2, <3>1, EndStep
  <2> QED
    BY <2>3, <2>4
<1>7. CASE MarkCancelledStreaming(j)
  <2> DEFINE row == IF tts[j].state \in Streaming
                    THEN [state |-> "cancelled", live |-> FALSE] ELSE tts[j]
  <2>1. /\ req[j].pc = "disconnected" /\ req[j].heard /\ UNCHANGED lock
        /\ tts' = [tts EXCEPT ![j] = row] /\ Goto(j, "close")
    BY <1>1, <1>7 DEF MarkCancelledStreaming, At, Marked, HandlerOK
  <2>2. Sound(tts[j], row)
    BY MarkedRow DEF Ended
  <2> HIDE DEF row
  <2> QED
    BY <2>1, <2>2, HeardStep DEF Open0
<1>8. CASE Close(j)
  <2>1. lock = j /\ Goto(j, "end") /\ UNCHANGED tts
    BY <1>1, <1>8 DEF Close, At, HandlerOK, Holding
  <2> QED
    BY <2>1, SameRow, EndStep
<1> QED
  BY <1>2, <1>3, <1>4, <1>5, <1>6, <1>7, <1>8

(* The user, the clock, and recover_expired.                               *)
LEMMA RowSteps ==
    ASSUME TtsInv, RecoverExpired \/ \E j \in Speeches : Cancel(j) \/ LeaseExpires(j)
    PROVE  GoodStep
<1>1. UNCHANGED <<req, lock>> /\ tts \in [Speeches -> TtsRow]
      /\ \A k \in Speeches : tts[k] \in TtsRow /\ RowOK(tts[k]) /\ Sound(tts[k], tts[k])
  BY Known, SoundRefl DEF RecoverExpired, Cancel, LeaseExpires, TtsInv
<1>2. ASSUME NEW j \in Speeches, NEW row, Sound(tts[j], row), tts' = [tts EXCEPT ![j] = row]
      PROVE  GoodStep
  <2>1. row \in TtsRow
    BY <1>2 DEF Sound, RowOK
  <2>2. tts' \in [Speeches -> TtsRow] /\ tts'[j] = row
        /\ \A k \in Speeches \ {j} : tts'[k] = tts[k]
    BY <1>1, <1>2, <2>1
  <2>3. \A k \in Speeches : Sound(tts[k], tts'[k])
    BY <1>1, <1>2, <2>2
  <2> QED
    BY <1>1, <2>2, <2>3, RowsStep
<1>3. ASSUME NEW j \in Speeches, Cancel(j) PROVE GoodStep
  <2>1. tts' = [tts EXCEPT ![j] = CancelledRow(tts[j])]
    BY <1>3 DEF Cancel
  <2> QED
    BY <1>1, <1>2, <2>1, CancelledIsSound
<1>4. ASSUME NEW j \in Speeches, LeaseExpires(j) PROVE GoodStep
  <2> DEFINE row == [tts[j] EXCEPT !.live = FALSE]
  <2>1. tts' = [tts EXCEPT ![j] = row] /\ tts[j].live
    BY <1>1, <1>4 DEF LeaseExpires
  <2>2. row \in TtsRow /\ row.state = tts[j].state /\ ~row.live /\ tts[j].state \notin Ended
    BY <1>1, <2>1 DEF TtsRow, RowOK
  <2> HIDE DEF row
  <2>3. Sound(tts[j], row)
    BY <2>2 DEF Sound, RowOK
  <2> QED
    BY <1>2, <2>1, <2>3
<1>5. CASE RecoverExpired
  <2> DEFINE queued(k) == [tts[k] EXCEPT !.state = "queued"]
             lost(k) == [tts[k] EXCEPT !.state = "ambiguous_provider_outcome"]
  <2>1. ASSUME NEW k \in Speeches, tts[k].state \in RequeuedStates
        PROVE  Sound(tts[k], queued(k))
    <3>1. queued(k) \in TtsRow /\ queued(k).state = "queued" /\ tts[k].state = "claimed"
      BY <1>1, <2>1 DEF TtsRow, RequeuedStates
    <3> HIDE DEF queued
    <3> QED
      BY <3>1 DEF Sound, RowOK, Ended, Streaming
  <2>2. ASSUME NEW k \in Speeches, ~tts[k].live, tts[k].state \in Streaming
        PROVE  Sound(tts[k], lost(k))
    <3>1. lost(k) \in TtsRow /\ lost(k).state = "ambiguous_provider_outcome" /\ ~lost(k).live
      BY <1>1, <2>2 DEF TtsRow, Ended
    <3> HIDE DEF lost
    <3> QED
      BY <2>2, <3>1 DEF Sound, RowOK, Ended, Streaming
  <2>3. \A k \in Speeches :
          tts'[k] = IF ~tts[k].live /\ tts[k].state \in RequeuedStates THEN queued(k)
                    ELSE IF ~tts[k].live /\ tts[k].state \in Streaming THEN lost(k)
                    ELSE tts[k]
    BY <1>5 DEF RecoverExpired
  <2> HIDE DEF queued, lost
  <2>4. \A k \in Speeches : Sound(tts[k], tts'[k])
    BY <1>1, <2>1, <2>2, <2>3
  <2>5. tts' \in [Speeches -> TtsRow]
    <3>1. \A k \in Speeches : tts'[k] \in TtsRow
      BY <2>4 DEF Sound, RowOK
    <3> QED
      BY <1>5, <3>1 DEF RecoverExpired
  <2> QED
    BY <1>1, <2>4, <2>5, RowsStep
<1> QED
  BY <1>3, <1>4, <1>5

(* A restart ends every handler and frees the lock.                        *)
LEMMA RestartStep ==
    ASSUME TtsInv, Restart PROVE GoodStep
<1>1. UNCHANGED tts
  BY DEF Restart
<1>2. ASSUME NEW j \in Speeches
      PROVE  HandlerOK(req'[j], tts[j], lock', j) /\ RowOK(tts[j])
  <2>1. req[j] \in Handler0 /\ HandlerOK(req[j], tts[j], lock, j) /\ RowOK(tts[j])
    BY Known
  <2> DEFINE r == Moved(req[j], "end")
  <2>2. r \in Handler0 /\ r.pc = "end" /\ r.calls = req[j].calls
    BY <2>1, MovedHandler DEF Pcs
  <2>3. req'[j] = IF req[j].pc = "none" THEN req[j] ELSE r
    BY DEF Restart, At, Moved
  <2> HIDE DEF r
  <2>4. HandlerOK(r, tts[j], lock', j)
    BY <2>1, <2>2 DEF HandlerOK, Before, Holding
  <2>5. req[j].pc = "none" => HandlerOK(req[j], tts[j], lock', j)
    BY <2>1 DEF HandlerOK, Holding
  <2> QED
    BY <2>1, <2>3, <2>4, <2>5
<1>3. req' \in [Speeches -> Handler0]
  <2>1. \A j \in Speeches : req'[j] \in Handler0
    BY <1>2 DEF HandlerOK
  <2> QED
    BY <2>1 DEF Restart
<1> QED
  BY <1>1, <1>2, <1>3, SoundRefl DEF TtsInv, GoodStep

(* Every step keeps the invariant and changes rows soundly.                *)
LEMMA TtsStep ==
    ASSUME NoSpeech \notin Speeches, TtsInv, [Next]_vars PROVE GoodStep
<1>1. CASE UNCHANGED vars
  BY <1>1, SoundRefl DEF vars, TtsInv, GoodStep
<1>2. ASSUME NEW j \in Speeches, StreamSpeech(j) PROVE GoodStep
  BY <1>2, AcquireStep, ClaimStep, AuditStep, MarkStep, PrefetchStep, StreamSteps
     DEF StreamSpeech
<1> QED
  BY <1>1, <1>2, SubmitStep, RowSteps, RestartStep DEF Next

(* No request, no lock and no row at the start.                            *)
LEMMA TtsInit == Init => TtsInv
BY DEF Init, TtsInv, TtsRow, Handler0, Pcs, Before, Holding, RowOK, HandlerOK, Ended, Streaming

(* The inductive invariant holds throughout.                               *)
THEOREM TtsInvariant ==
    ASSUME NoSpeech \notin Speeches PROVE Spec => []TtsInv
<1>1. TtsInv /\ [Next]_vars => TtsInv'
  BY TtsStep DEF GoodStep
<1> QED
  BY <1>1, TtsInit, PTL DEF Spec

(* OneStream, for any number of speeches: the provider is asked for one    *)
(* stream at a time, whichever exits the handlers take and however often   *)
(* the process restarts.                                                   *)
THEOREM OneStreamAtATime ==
    ASSUME NoSpeech \notin Speeches PROVE Spec => []OneStream
<1>1. TtsInv => OneStream
  <2> SUFFICES ASSUME TtsInv PROVE OneStream
    OBVIOUS
  <2>1. {j \in Speeches : Open(j)} \in SUBSET {lock}
    BY DEF TtsInv, HandlerOK, Open, At, Holding
  <2>2. IsFiniteSet({lock}) /\ Cardinality({lock}) = 1
    BY FS_Singleton
  <2>3. Cardinality({j \in Speeches : Open(j)}) <= Cardinality({lock})
    BY <2>1, <2>2, FS_Subset
  <2> QED
    BY <2>2, <2>3 DEF OneStream
<1> QED
  BY <1>1, TtsInvariant, PTL

(* StartedOnce: a speech whose provider was called is never put back for   *)
(* another start.                                                          *)
THEOREM SpeechStartsOnce ==
    ASSUME NoSpeech \notin Speeches PROVE Spec => []StartedOnce
<1>1. TtsInv => StartedOnce
  BY DEF TtsInv, HandlerOK, StartedOnce, Streaming, Ended
<1> QED
  BY <1>1, TtsInvariant, PTL

(* EndedStays: an ended row is never written again, whatever the handler   *)
(* that streams it is doing.                                               *)
THEOREM EndedRowsStay ==
    ASSUME NoSpeech \notin Speeches PROVE Spec => EndedStays
<1>1. TtsInv /\ [Next]_vars =>
        [\A j \in Speeches : tts[j].state \in Ended => tts'[j] = tts[j]]_vars
  BY TtsStep DEF GoodStep, Sound
<1> QED
  BY <1>1, TtsInvariant, PTL DEF Spec, EndedStays

=============================================================================
