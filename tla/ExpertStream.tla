------------------------------ MODULE ExpertStream ------------------------------
(***************************************************************************)
(* One request to the expert of a step-by-step tool: _call_expert_analysis *)
(* and _generate_stream of tools/workflow/workflow_mixin.py, the relay of  *)
(* chunks as progress notifications (utils/streaming.py), and the record   *)
(* of the provider call (utils/observability.py).                          *)
(*                                                                         *)
(* The provider works in a thread, which hands what it gets to the event   *)
(* loop in a queue.  The tools that do not stream wait for the thread's    *)
(* result instead.  A chunk stands for its text: its place in the answer,  *)
(* and whether it is empty, short or long.                                 *)
(***************************************************************************)
EXTENDS Naturals, SequencesExt

CONSTANTS
    MaxChunks,      \* chunks of a stream are followed up to here
    MinSize,        \* _MIN_CHUNK_SIZE, where a short chunk has 1 and a long one 2
    Interval        \* _MIN_NOTIFY_INTERVAL_SECONDS, in ticks

ASSUME StreamConstants ==
    /\ MaxChunks \in Nat \ {0}
    /\ MinSize \in Nat \ {0}
    /\ Interval \in Nat \ {0}

VARIABLES
    setting,    \* whether the tool streams, and whether the host asked for progress
    worker,     \* the thread and its provider call
    queue,      \* what the thread has handed over and the loop has not taken
    call,       \* the call of the tool
    relay       \* the StreamProgressNotifier

streamVars == <<setting, worker, queue, call, relay>>

Chunks == [n : 1 .. MaxChunks, size : 0 .. 2, final : BOOLEAN]
Done == [n |-> 0, size |-> 0, final |-> TRUE]
Broken == [n |-> 0, size |-> 0, final |-> FALSE]

Outcomes == {"text", "empty", "error", "cancelled"}

\* Every variable has its type, and a provider call is recorded at most once.
StreamTypeOK ==
    /\ setting \in [streams : BOOLEAN, token : BOOLEAN]
    /\ worker \in [at : {"running", "finishing", "ended"}, made : Seq(Chunks), broke : BOOLEAN,
                   recorded : 0 .. 1]
    /\ queue \in Seq(Chunks \union {Done, Broken})
    /\ call \in [pc : {"waiting", "complete", "raising", "leaving"} \union Outcomes,
                 text : Seq(1 .. MaxChunks), cancels : 0 .. 2]
    /\ relay \in [buffer : Seq(1 .. MaxChunks), size : 0 .. 2 * MaxChunks, since : 0 .. Interval,
                  sent : Seq(Seq(1 .. MaxChunks)), count : Nat]

\* The notifier starts as if its last notification were an interval ago.
StreamInit ==
    /\ setting \in [streams : BOOLEAN, token : BOOLEAN]
    /\ worker = [at |-> "running", made |-> <<>>, broke |-> FALSE, recorded |-> 0]
    /\ queue = <<>>
    /\ call = [pc |-> "waiting", text |-> <<>>, cancels |-> 0]
    /\ relay = [buffer |-> <<>>, size |-> 0, since |-> Interval, sent |-> <<>>, count |-> 0]

Running == worker.at = "running"
Closed == worker.made # <<>> /\ Last(worker.made).final

-----------------------------------------------------------------------------
(* The thread.                                                             *)

\* The provider yields a chunk.  The final one is the last, and may be empty.
Yields(size, final) ==
    /\ Running /\ ~Closed
    /\ Len(worker.made) < MaxChunks
    /\ size = 0 => final
    /\ LET chunk == [n |-> Len(worker.made) + 1, size |-> size, final |-> final]
       IN  /\ worker' = [worker EXCEPT !.made = Append(@, chunk)]
           /\ queue' = IF setting.streams THEN Append(queue, chunk) ELSE queue
    /\ UNCHANGED <<setting, call, relay>>

\* The provider call is over, and recorded.  A thread that streams says so in the queue.
StreamEnds ==
    /\ Running /\ Closed
    /\ worker' = [worker EXCEPT !.at = "finishing", !.recorded = @ + 1]
    /\ queue' = IF setting.streams THEN Append(queue, Done) ELSE queue
    /\ UNCHANGED <<setting, call, relay>>

\* Faulty variant: the error is not handed over.
StreamBreaksSilently ==
    /\ Running
    /\ worker' = [worker EXCEPT !.at = "finishing", !.broke = TRUE, !.recorded = @ + 1]
    /\ UNCHANGED <<setting, queue, call, relay>>

\* The provider raises, before the first chunk or after any.
StreamBreaks ==
    /\ Running
    /\ worker' = [worker EXCEPT !.at = "finishing", !.broke = TRUE, !.recorded = @ + 1]
    /\ queue' = IF setting.streams THEN queue \o <<Broken, Done>> ELSE queue
    /\ UNCHANGED <<setting, call, relay>>

\* The future of the thread is resolved.
ThreadEnds ==
    /\ worker.at = "finishing"
    /\ worker' = [worker EXCEPT !.at = "ended"]
    /\ UNCHANGED <<setting, queue, call, relay>>

-----------------------------------------------------------------------------
(* The relay.  A send may fail, which nobody notices.                      *)

\* _send_notification: without a token nothing is sent.
Sends(r, chunks) ==
    IF ~setting.token THEN {r}
    ELSE {[r EXCEPT !.count = @ + 1],
          [r EXCEPT !.count = @ + 1, !.sent = Append(@, chunks), !.since = 0]}

\* Faulty variant: the buffer is sent but not cleared.
FlushedKept(r) == Sends(r, r.buffer)

\* _flush: the buffer is cleared before it is sent.
Flushed(r) == Sends([r EXCEPT !.buffer = <<>>, !.size = 0], r.buffer)

\* notify_chunk: what the notifier may be after a chunk.
Notified(chunk) ==
    LET r == [relay EXCEPT !.buffer = Append(@, chunk.n), !.size = @ + chunk.size]
    IN  IF chunk.final \/ (r.since >= Interval /\ r.size >= MinSize) THEN Flushed(r) ELSE {r}

-----------------------------------------------------------------------------
(* The call.                                                               *)

\* Faulty variant: the final chunk is only taken as the end.
TakesChunkButLast ==
    /\ call.pc = "waiting" /\ queue # <<>>
    /\ Head(queue) \in Chunks
    /\ queue' = Tail(queue)
    /\ call' = [call EXCEPT !.text = IF Head(queue).final THEN @ ELSE Append(@, Head(queue).n)]
    /\ relay' \in Notified(Head(queue))
    /\ UNCHANGED <<setting, worker>>

TakesChunk ==
    /\ call.pc = "waiting" /\ queue # <<>>
    /\ Head(queue) \in Chunks
    /\ queue' = Tail(queue)
    /\ call' = [call EXCEPT !.text = Append(@, Head(queue).n)]
    /\ relay' \in Notified(Head(queue))
    /\ UNCHANGED <<setting, worker>>

\* _STREAM_DONE ends the loop, and an exception is raised in it; both then await the thread.
TakesEnd ==
    /\ call.pc = "waiting" /\ queue # <<>>
    /\ Head(queue) \in {Done, Broken}
    /\ queue' = Tail(queue)
    /\ call' = [call EXCEPT !.pc = IF Head(queue) = Done THEN "complete" ELSE "raising"]
    /\ UNCHANGED <<setting, worker, relay>>

\* A tool that does not stream gets the thread's result or its exception.
TakesResult ==
    /\ ~setting.streams
    /\ call.pc = "waiting" /\ worker.at = "ended"
    /\ call' = IF worker.broke THEN [call EXCEPT !.pc = "raising"]
               ELSE [call EXCEPT !.pc = "complete", !.text = [i \in DOMAIN worker.made |-> i]]
    /\ UNCHANGED <<setting, worker, queue, relay>>

\* The answer, after notify_complete; an empty one is a status of its own.
Answers ==
    /\ call.pc = "complete" /\ worker.at = "ended"
    /\ call' = [call EXCEPT !.pc = IF \E i \in Range(call.text) : worker.made[i].size > 0
                                   THEN "text" ELSE "empty"]
    /\ relay' \in IF setting.streams THEN Sends(relay, <<>>) ELSE {relay}
    /\ UNCHANGED <<setting, worker, queue>>

\* analysis_error, which the session takes for an answer.
Fails ==
    /\ call.pc = "raising" /\ worker.at = "ended"
    /\ call' = [call EXCEPT !.pc = "error"]
    /\ UNCHANGED <<setting, worker, queue, relay>>

\* Faulty variant: the thread is not awaited.
GivesUpAtOnce ==
    /\ call.pc \notin Outcomes
    /\ call' = [call EXCEPT !.cancels = @ + 1, !.pc = "cancelled"]
    /\ UNCHANGED <<setting, worker, queue, relay>>

\* The host gives up.  The first cancel of a stream awaits the thread; any other cuts the await short,
\* and the thread goes on by itself.
GivesUp ==
    /\ call.pc \notin Outcomes
    /\ call' = [call EXCEPT !.cancels = @ + 1,
                            !.pc = IF call.pc = "waiting" /\ setting.streams THEN "leaving" ELSE "cancelled"]
    /\ UNCHANGED <<setting, worker, queue, relay>>

Leaves ==
    /\ call.pc = "leaving" /\ worker.at = "ended"
    /\ call' = [call EXCEPT !.pc = "cancelled"]
    /\ UNCHANGED <<setting, worker, queue, relay>>

StreamTick ==
    /\ relay.since < Interval
    /\ relay' = [relay EXCEPT !.since = @ + 1]
    /\ UNCHANGED <<setting, worker, queue, call>>

-----------------------------------------------------------------------------

Thread ==
    \/ \E size \in 0 .. 2, final \in BOOLEAN : Yields(size, final)
    \/ StreamEnds
    \/ StreamBreaks
    \/ ThreadEnds

Loop == TakesChunk \/ TakesEnd \/ TakesResult \/ Answers \/ Fails \/ Leaves

StreamNext == Thread \/ Loop \/ GivesUp \/ StreamTick

\* The provider call ends, as its client has a timeout; the thread and the loop are scheduled.
StreamSpec == StreamInit /\ [][StreamNext]_streamVars /\ WF_streamVars(Thread) /\ WF_streamVars(Loop)

-----------------------------------------------------------------------------
(* Properties.                                                             *)

\* An answer is the text of every chunk that the provider made, in order, and of a provider call
\* that did not fail: what came before an error is never taken for the answer.  That call is in
\* the record of the tool call, once, before the tool call is answered.
AnswerIsWhole ==
    /\ call.pc \in {"text", "empty"} => ~worker.broke /\ call.text = [i \in DOMAIN worker.made |-> i]
    /\ call.pc \in {"text", "empty", "error"} => worker.recorded = 1

\* The host is shown the text in order and no part of it twice; all of it, when it is answered
\* and no send failed.
Shown(i) == \E k \in DOMAIN relay.sent : i \in Range(relay.sent[k])
ProgressInOrder ==
    /\ \A k, l \in DOMAIN relay.sent : \A i \in DOMAIN relay.sent[k], j \in DOMAIN relay.sent[l] :
            k < l \/ (k = l /\ i < j) => relay.sent[k][i] < relay.sent[l][j]
    /\ (call.pc \in {"text", "empty"} /\ setting.streams /\ setting.token /\ relay.count = Len(relay.sent)) =>
            \A i \in DOMAIN worker.made : Shown(i)

\* A stream that was cancelled once is not left before the provider call is over, which would
\* free the tool for another session in the meantime.
OneCancelWaits == call.pc = "cancelled" /\ setting.streams /\ call.cancels = 1 => ~Running

\* Whatever the provider and the host do, the call ends.
EveryCallEnds == <>(call.pc \in Outcomes)
=============================================================================
