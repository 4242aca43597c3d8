----------------------------- MODULE TtsStream -----------------------------
(***************************************************************************)
(* Streaming text-to-speech: the route that submits, admits and streams a  *)
(* speech (app/api/v1/tts.py), the durable rows it keeps                   *)
(* (app/core/tts_jobs.py), and the retries of the provider                 *)
(* (app/providers/elevenlabs_tts.py).  Every speech has an idempotency key *)
(* of its own: a repeated request returns the row and does nothing else.   *)
(*                                                                         *)
(* Every await of stream_speech is a step; in between, the user may cancel *)
(* and the lease of 60 seconds may run out.                                *)
(***************************************************************************)
EXTENDS Naturals, FiniteSets

CONSTANTS
    Speeches,     \* requests for speech, each with its row
    SpeechRetries,\* settings.elevenlabs_max_retries
    Restarts,     \* bound: restarts of the API process
    NoSpeech      \* the admission lock is free

VARIABLES
    tts,       \* tts_generation_jobs
    req,       \* the handlers of stream_speech
    lock,      \* Admission.global_lock, and who holds it
    restarts   \* restarts so far

vars == <<tts, req, lock, restarts>>

Ended == {"completed", "failed", "cancelled", "ambiguous_provider_outcome"}
Streaming == {"provider_starting", "streaming"}
TtsRow == [state: {"none", "queued", "claimed"} \cup Streaming \cup Ended,
           live: BOOLEAN]
Handler == [pc: {"none", "admit", "claim", "audit", "mark", "prefetch",
                 "record", "stream", "chunk", "complete", "ambiguous",
                 "disconnected", "close", "end"},
            calls: 0..(SpeechRetries + 1), heard: BOOLEAN]

TypeOK ==
    /\ tts \in [Speeches -> TtsRow]
    /\ req \in [Speeches -> Handler]
    /\ lock \in Speeches \cup {NoSpeech}
    /\ restarts \in 0..Restarts

Init ==
    /\ tts = [j \in Speeches |-> [state |-> "none", live |-> FALSE]]
    /\ req = [j \in Speeches |-> [pc |-> "none", calls |-> 0, heard |-> FALSE]]
    /\ lock = NoSpeech
    /\ restarts = 0

At(j, pc) == req[j].pc = pc
Goto(j, pc) == req' = [req EXCEPT ![j].pc = pc]
Put(j, state) == tts' = [tts EXCEPT ![j].state = state]
Release == lock' = NoSpeech

-----------------------------------------------------------------------------

Submit(j) ==
    /\ At(j, "none") /\ tts[j].state = "none"
    /\ Put(j, "queued")
    /\ Goto(j, "admit")
    /\ UNCHANGED <<lock, restarts>>

(***************************************************************************)
(* Admission.acquire.  A refusal (a full window, or the lock is taken)     *)
(* cancels the row.                                                        *)
(***************************************************************************)
CancelledRow(row) ==
    IF row.state \in Ended THEN row
    ELSE [state |-> "cancelled", live |-> FALSE]

Acquire(j) ==
    /\ At(j, "admit")
    /\ \/ lock = NoSpeech /\ lock' = j
          /\ Goto(j, "claim")
          /\ UNCHANGED tts
       \/ tts' = [tts EXCEPT ![j] = CancelledRow(@)]
          /\ Goto(j, "end")
          /\ UNCHANGED lock
    /\ UNCHANGED restarts

ClaimExact(j) ==
    /\ At(j, "claim")
    /\ IF tts[j].state = "queued"
       THEN /\ tts' = [tts EXCEPT ![j] = [state |-> "claimed", live |-> TRUE]]
            /\ Goto(j, "audit")
            /\ UNCHANGED lock
       ELSE Release /\ Goto(j, "end") /\ UNCHANGED tts
    /\ UNCHANGED restarts

Audit(j) ==
    /\ At(j, "audit")
    /\ \/ Goto(j, "mark") /\ UNCHANGED lock
       \/ Goto(j, "end") /\ Release
    /\ UNCHANGED <<tts, restarts>>

(***************************************************************************)
(* mark_provider_started, and below record_chunk: the row must still be    *)
(* ours and its lease live.  The PermissionError of a refusal leaves       *)
(* stream_speech with the lock held.                                       *)
(***************************************************************************)
Claimed(j) == tts[j].state = "claimed" /\ tts[j].live

MarkProviderStarted(j) ==
    /\ At(j, "mark")
    /\ IF Claimed(j)
       THEN Put(j, "provider_starting") /\ Goto(j, "prefetch")
       ELSE Goto(j, "end") /\ UNCHANGED tts
    /\ UNCHANGED <<lock, restarts>>

(***************************************************************************)
(* The first chunk: a call of the provider answers, fails for good, or     *)
(* fails in a way that is tried again while nothing has been heard.        *)
(***************************************************************************)
Prefetch(j) ==
    /\ At(j, "prefetch") /\ req[j].calls <= SpeechRetries
    /\ \/ /\ req' = [req EXCEPT ![j].pc = "record", ![j].calls = @ + 1,
                                ![j].heard = TRUE]
          /\ UNCHANGED lock
       \/ /\ req[j].calls < SpeechRetries
          /\ req' = [req EXCEPT ![j].calls = @ + 1]
          /\ UNCHANGED lock
       \/ /\ req' = [req EXCEPT ![j].pc = "ambiguous", ![j].calls = @ + 1]
          /\ Release
    /\ UNCHANGED <<tts, restarts>>

Fenced(j) == tts[j].state \in Streaming /\ tts[j].live

Recorded(j) ==
    tts' = [tts EXCEPT ![j] = [state |-> "streaming", live |-> TRUE]]

RecordFirst(j) ==
    /\ At(j, "record")
    /\ IF Fenced(j) THEN Recorded(j) /\ Goto(j, "stream")
       ELSE Goto(j, "end") /\ UNCHANGED tts
    /\ UNCHANGED <<lock, restarts>>

(***************************************************************************)
(* audio(): the next chunk, the end of the stream, its failure, the client *)
(* hanging up (CancelledError), or the response closing the generator: the *)
(* GeneratorExit passes both except clauses, so that only the finally      *)
(* clause runs and the row stays 'streaming'.                              *)
(***************************************************************************)
Stream(j) ==
    /\ At(j, "stream")
    /\ \E pc \in {"chunk", "complete", "ambiguous", "disconnected", "close"} :
          Goto(j, pc)
    /\ UNCHANGED <<tts, lock, restarts>>

RecordChunk(j) ==
    /\ At(j, "chunk")
    /\ IF Fenced(j) THEN Recorded(j) /\ Goto(j, "stream")
       ELSE Goto(j, "close") /\ UNCHANGED tts
    /\ UNCHANGED <<lock, restarts>>

CompletedFrom == {"streaming"}

Complete(j) ==
    /\ At(j, "complete")
    /\ IF tts[j].state \in CompletedFrom
       THEN /\ tts' = [tts EXCEPT ![j] = [state |-> "completed", live |-> FALSE]]
            /\ Goto(j, "close")
       ELSE Goto(j, "ambiguous") /\ UNCHANGED tts
    /\ UNCHANGED <<lock, restarts>>

Marked(j, state) ==
    tts' = [tts EXCEPT ![j] = IF @.state \in Streaming
                              THEN [state |-> state, live |-> FALSE] ELSE @]

(***************************************************************************)
(* mark_ambiguous: after a failed prefetch the lock is already released,   *)
(* and perhaps another's.                                                  *)
(***************************************************************************)
MarkAmbiguousAndClose(j) ==
    /\ At(j, "ambiguous")
    /\ Marked(j, "ambiguous_provider_outcome")
    /\ Goto(j, "close")
    /\ UNCHANGED <<lock, restarts>>

MarkAmbiguous(j) ==
    /\ At(j, "ambiguous")
    /\ Marked(j, "ambiguous_provider_outcome")
    /\ Goto(j, IF req[j].heard THEN "close" ELSE "end")
    /\ UNCHANGED <<lock, restarts>>

HangUpKeepsSlot(j) ==
    /\ At(j, "disconnected")
    /\ Marked(j, "cancelled")
    /\ Goto(j, "end")
    /\ UNCHANGED <<lock, restarts>>

MarkCancelledStreaming(j) ==
    /\ At(j, "disconnected")
    /\ Marked(j, "cancelled")
    /\ Goto(j, "close")
    /\ UNCHANGED <<lock, restarts>>

Close(j) ==
    /\ At(j, "close")
    /\ Release /\ Goto(j, "end")
    /\ UNCHANGED <<tts, restarts>>

-----------------------------------------------------------------------------

(***************************************************************************)
(* cancel, from the user; recover_expired, which nothing in the system     *)
(* schedules.                                                              *)
(***************************************************************************)
Cancel(j) ==
    /\ tts[j].state \notin Ended \cup {"none"}
    /\ tts' = [tts EXCEPT ![j] = CancelledRow(@)]
    /\ UNCHANGED <<req, lock, restarts>>

RequeuedOnceStarting == {"claimed", "provider_starting"}

RequeuedStates == {"claimed"}

RecoverExpired ==
    /\ tts' = [j \in Speeches |->
                 IF ~tts[j].live /\ tts[j].state \in RequeuedStates
                 THEN [tts[j] EXCEPT !.state = "queued"]
                 ELSE IF ~tts[j].live /\ tts[j].state \in Streaming
                 THEN [tts[j] EXCEPT !.state = "ambiguous_provider_outcome"]
                 ELSE tts[j]]
    /\ UNCHANGED <<req, lock, restarts>>

LeaseExpires(j) ==
    /\ tts[j].live
    /\ tts' = [tts EXCEPT ![j].live = FALSE]
    /\ UNCHANGED <<req, lock, restarts>>

Restart ==
    /\ restarts < Restarts /\ restarts' = restarts + 1
    /\ \E j \in Speeches : req[j].pc \notin {"none", "end"}
    /\ req' = [j \in Speeches |->
                 IF At(j, "none") THEN req[j] ELSE [req[j] EXCEPT !.pc = "end"]]
    /\ Release
    /\ UNCHANGED tts

StreamSpeech(j) ==
    \/ Acquire(j) \/ ClaimExact(j) \/ Audit(j) \/ MarkProviderStarted(j)
    \/ Prefetch(j) \/ RecordFirst(j) \/ Stream(j) \/ RecordChunk(j)
    \/ Complete(j) \/ MarkAmbiguous(j) \/ MarkCancelledStreaming(j) \/ Close(j)

Next ==
    \/ \E j \in Speeches : \/ Submit(j) \/ StreamSpeech(j)
                           \/ Cancel(j) \/ LeaseExpires(j)
    \/ RecoverExpired
    \/ Restart

(***************************************************************************)
(* A handler is never left waiting: the database answers and the provider  *)
(* has a total timeout of its own.  Text is bounded, and so is its speech: *)
(* the stream ends.                                                        *)
(***************************************************************************)
Fairness ==
    \A j \in Speeches :
        /\ WF_vars(StreamSpeech(j))
        /\ SF_vars(Stream(j) /\ ~Goto(j, "chunk"))

Spec == Init /\ [][Next]_vars /\ Fairness

-----------------------------------------------------------------------------

(***************************************************************************)
(* The provider holds one stream at a time ("one globally active stream"): *)
(* the lock is never handed on while an iterator is open, whichever of its *)
(* exits stream_speech takes.                                              *)
(***************************************************************************)
Open(j) ==
    \/ req[j].pc \in {"prefetch", "record", "stream", "chunk", "complete",
                      "disconnected", "close"}
    \/ At(j, "ambiguous") /\ req[j].heard

OneStream == Cardinality({j \in Speeches : Open(j)}) <= 1

(***************************************************************************)
(* A speech whose provider was called is never put back for another start: *)
(* mark_provider_started is durable before the call, and recover_expired   *)
(* and cancel respect it.                                                  *)
(***************************************************************************)
StartedOnce ==
    \A j \in Speeches :
        req[j].calls > 0 => tts[j].state \notin {"none", "queued", "claimed"}

(***************************************************************************)
(* An ended row stays as it is, whatever the handler that streams it is    *)
(* doing: a cancellation is never overwritten by a completion.             *)
(***************************************************************************)
EndedStays ==
    [][\A j \in Speeches : tts[j].state \in Ended => tts'[j] = tts[j]]_vars

(***************************************************************************)
(* Capacity comes back: the lock taken for a speech is released whichever  *)
(* way the stream ends - its end, a failure, a refused chunk, the client   *)
(* hanging up, a cancellation or an expired lease while it streams.  The   *)
(* one exception is a row that is no longer the handler's when             *)
(* mark_provider_started or the first record_chunk asks: their             *)
(* PermissionError leaves stream_speech before audio() can release.        *)
(***************************************************************************)
LostEarly(j) ==
    \/ At(j, "mark") /\ ~Claimed(j)
    \/ At(j, "record") /\ ~Fenced(j)

SlotReturned ==
    \A j \in Speeches : []~LostEarly(j) => (lock = j ~> lock # j)

(***************************************************************************)
(* "test_cancellation_closes_upstream_and_releases_capacity"               *)
(* (tests/test_elevenlabs_tts_api.py).  Does not hold of a cancellation    *)
(* between claim_exact and the first record_chunk.                         *)
(***************************************************************************)
CapacityReleased == \A j \in Speeches : lock = j ~> lock # j

=============================================================================
