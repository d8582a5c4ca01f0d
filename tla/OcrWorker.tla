------------------------------ MODULE OcrWorker ------------------------------
(***************************************************************************)
(* The local OCR worker: one subprocess behind one lock, that the threads  *)
(* transcribing pages share.  They write a page to its standard input and  *)
(* read one line of its standard output; a startup or a request that takes *)
(* too long, and a worker that dies, stop it and open a breaker.  What     *)
(* process a line was read from is the whole question: an answer says      *)
(* nothing the reader checks.                                              *)
(*                                                                         *)
(*   holder    the thread that owns _local_ocr_worker_lock                 *)
(*   proc      the subprocess, None when there is none                     *)
(*   breaker   now < _local_ocr_disabled_until                             *)
(*   thread    the page threads, and what they were answered               *)
(***************************************************************************)
EXTENDS Integers, Sequences, FiniteSets

CONSTANTS
    Threads, Pages,
    MaxFaults,       \* processes that die, pages that fail, answers that are late
    MaxCalls,        \* pages transcribed, prewarms included
    None

(* None is no thread: it stands for a lock nobody holds.                           *)
WorkerAssumption == None \notin Threads

VARIABLES holder, proc, breaker, thread, faults, calls
vars == <<holder, proc, breaker, thread, faults, calls>>

(* in, out: the lines in the two pipes, each with the page it is about.            *)
Started == [alive |-> TRUE, loading |-> TRUE, in |-> <<>>, out |-> <<>>]
(* at: idle, queued (at the lock), locked, loading, sent, answered                 *)
Idle == [at |-> "idle", page |-> None, answer |-> None]

Init ==
    /\ holder = None
    /\ proc = None
    /\ breaker = FALSE
    /\ thread = [t \in Threads |-> Idle]
    /\ faults = 0
    /\ calls = 0

-----------------------------------------------------------------------------
At(t, a) == thread[t].at = a
Goes(t, a) == thread' = [thread EXCEPT ![t].at = a]
Running == proc # None /\ proc.alive
Fault == faults < MaxFaults /\ faults' = faults + 1

(* local_ocr_with_layout: a backend of none and a worker that is switched off      *)
(* never get here.                                                                 *)
Enter(t, p) ==
    /\ At(t, "idle") /\ calls < MaxCalls
    /\ calls' = calls + 1
    /\ thread' = [thread EXCEPT ![t] = [at |-> "queued", page |-> p, answer |-> None]]
    /\ UNCHANGED <<holder, proc, breaker, faults>>
Call(t, p) == Enter(t, p)

(* A PDF that will need the worker has it started before its parse; no page is     *)
(* sent.                                                                           *)
Prewarm(t) == Enter(t, None)

Lock(t) ==
    /\ At(t, "queued") /\ holder = None
    /\ holder' = t
    /\ Goes(t, "locked")
    /\ UNCHANGED <<proc, breaker, faults, calls>>

(* The lock is left with the answer; a prewarm leaves it with none.                *)
Leave(t, answer) ==
    /\ LET page == thread[t].page IN
       thread' = [thread EXCEPT ![t] =
           [at |-> "answered", page |-> page, answer |-> IF page = None THEN None ELSE answer]]
    /\ holder' = None

(* _stop_local_ocr_worker closes the pipes and waits for the process, and          *)
(* _mark_local_ocr_worker_unhealthy opens the breaker.                             *)
Stop == proc' = None
Unhealthy == breaker' = TRUE

(* An open breaker refuses at once: the exception stops what runs and opens it     *)
(* anew.  A prewarm only logs it.                                                  *)
Refuse(t) ==
    /\ At(t, "locked") /\ breaker
    /\ Leave(t, "failed")
    /\ IF thread[t].page = None THEN UNCHANGED proc ELSE Stop
    /\ UNCHANGED <<breaker, faults, calls>>

(* _get_local_ocr_worker: the worker that runs, or a new one in the place of a     *)
(* dead one.                                                                       *)
Start(t) ==
    /\ At(t, "locked") /\ ~breaker
    /\ ~Running
    /\ proc' = Started
    /\ Goes(t, "loading")
    /\ UNCHANGED <<holder, breaker, faults, calls>>

Send(t) ==
    /\ thread[t].page # None
    /\ proc' = [proc EXCEPT !.in = Append(@, thread[t].page)]
    /\ Goes(t, "sent")
    /\ UNCHANGED holder

Reuse(t) ==
    /\ At(t, "locked") /\ ~breaker /\ Running
    /\ Send(t) \/ (thread[t].page = None /\ Leave(t, None) /\ UNCHANGED proc)
    /\ UNCHANGED <<breaker, faults, calls>>

(* The first line is the ready message.                                            *)
Ready(t) ==
    /\ At(t, "loading") /\ Running /\ ~proc.loading
    /\ Send(t) \/ (thread[t].page = None /\ Leave(t, None) /\ UNCHANGED proc)
    /\ UNCHANGED <<breaker, faults, calls>>

(* The startup message says error, the process is gone, or nothing came in time.   *)
StartFails(t) ==
    /\ At(t, "loading")
    /\ IF Running THEN Fault ELSE UNCHANGED faults
    /\ Stop /\ Unhealthy
    /\ Leave(t, "failed")
    /\ UNCHANGED calls

(* _read_local_ocr_worker_message: the next line, while the process lives.         *)
Read(t) ==
    /\ At(t, "sent") /\ Running /\ proc.out # <<>>
    /\ Leave(t, Head(proc.out))
    /\ proc' = [proc EXCEPT !.out = Tail(@)]
    /\ UNCHANGED <<breaker, faults, calls>>

(* The process was found dead, or the request timed out with the answer still to   *)
(* come.                                                                           *)
AbandonOnly(t) ==          \* the worker runs on
    /\ At(t, "sent")
    /\ IF Running THEN Fault ELSE UNCHANGED faults
    /\ Unhealthy
    /\ Leave(t, "failed")
    /\ UNCHANGED <<proc, calls>>
Abandon(t) ==
    /\ At(t, "sent")
    /\ IF Running THEN Fault ELSE UNCHANGED faults
    /\ Stop /\ Unhealthy
    /\ Leave(t, "failed")
    /\ UNCHANGED calls

Take(t) ==
    /\ At(t, "answered")
    /\ thread' = [thread EXCEPT ![t] = Idle]
    /\ UNCHANGED <<holder, proc, breaker, faults, calls>>

(* The breaker closes when its time is up.                                         *)
BreakerCloses ==
    /\ breaker
    /\ breaker' = FALSE
    /\ UNCHANGED <<holder, proc, thread, faults, calls>>

-----------------------------------------------------------------------------
(* The worker's main: it builds the engine and says ready, then answers the lines  *)
(* it is sent, in order, with the text of the page or with the error it met.       *)
Load ==
    /\ Running /\ proc.loading
    /\ proc' = [proc EXCEPT !.loading = FALSE]
    /\ UNCHANGED <<holder, breaker, thread, faults, calls>>

Transcribes(p) == p
Respond ==
    /\ Running /\ ~proc.loading /\ proc.in # <<>>
    /\ \E line \in {Transcribes(Head(proc.in)), "failed"} :
          /\ proc' = [proc EXCEPT !.in = Tail(@), !.out = Append(@, line)]
          /\ IF line = "failed" THEN Fault ELSE UNCHANGED faults
    /\ UNCHANGED <<holder, breaker, thread, calls>>

Die ==
    /\ Running
    /\ Fault
    /\ proc' = [proc EXCEPT !.alive = FALSE]
    /\ UNCHANGED <<holder, breaker, thread, calls>>

Next ==
    \/ \E t \in Threads :
          \/ \E p \in Pages : Call(t, p)
          \/ Prewarm(t)
          \/ Lock(t) \/ Refuse(t) \/ Start(t) \/ Reuse(t) \/ Ready(t) \/ StartFails(t)
          \/ Read(t) \/ Abandon(t) \/ Take(t)
    \/ BreakerCloses
    \/ Load \/ Respond \/ Die

Spec == Init /\ [][Next]_vars

-----------------------------------------------------------------------------
(* A page is never given the text of another one: what a thread reads answers the  *)
(* request it sent, though a request may time out with its answer still to come,   *)
(* another thread may be next, and no answer is checked against its page.          *)
AnswerOfItsPage ==
    \A t \in Threads : At(t, "answered") => thread[t].answer \in {thread[t].page, "failed", None}
=============================================================================
