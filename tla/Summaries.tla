----------------------------- MODULE Summaries -----------------------------
(***************************************************************************)
(* The deferred summaries of the library: the threads that ask for a slot, *)
(* the bounded queue in front of the slots, the LLM call each of them      *)
(* makes on a thread of its own, and the status the document shows.  Every *)
(* write to the document is one step here: DocRewrite shows that it is.    *)
(*                                                                         *)
(*   doc      what the library says of each document  (survives a crash)   *)
(*   job      the deferred-summary threads                                 *)
(*   llm      the thread of each job that is inside generate_summaries     *)
(*   free     the slots nobody holds                                       *)
(*   waiting  _deferred_summary_waiting                                    *)
(*   proc     the process, and the sweep of a start                        *)
(***************************************************************************)
EXTENDS Integers, FiniteSets

CONSTANTS
    Docs,            \* documents
    Captures,        \* those a web capture stored: retried by /web/capture only
    Jobs,            \* the numbers of the deferred-summary threads
    MaxConcurrent,   \* DEFERRED_SUMMARY_MAX_CONCURRENT
    MaxQueued,       \* DEFERRED_SUMMARY_MAX_QUEUED
    MaxAttempts,     \* DEFERRED_SUMMARY_MAX_ATTEMPTS
    MaxGen,          \* how often a document is uploaded
    MaxRetries,      \* how many retries the clients send
    Forces,          \* the values of force they send
    MaxFaults,       \* how many writes, and starts of a thread, fail
    MaxCrashes       \* how often the process dies

SummariesAssumption ==
    /\ Captures \subseteq Docs /\ Docs # {} /\ Jobs \subseteq Nat /\ IsFiniteSet(Jobs)
    /\ MaxConcurrent \in Nat \ {0} /\ MaxQueued \in Nat \ {0} /\ MaxAttempts \in Nat \ {0}
    /\ MaxGen \in Nat /\ MaxRetries \in Nat /\ MaxFaults \in Nat /\ MaxCrashes \in Nat
    /\ Forces \subseteq BOOLEAN

VARIABLES doc, job, llm, free, waiting, proc
vars == <<doc, job, llm, free, waiting, proc>>

NoJob == [at |-> "idle", doc |-> CHOOSE d \in Docs : TRUE, gen |-> 0, tries |-> 0, slot |-> FALSE]

Stored(status, gen) == [gen |-> gen, status |-> status, row |-> status, tries |-> 0,
                        lock |-> "free", dropped |-> FALSE]

Init ==
    /\ doc = [d \in Docs |-> IF d \in Captures THEN Stored("pending", 1) ELSE Stored("none", 0)]
    /\ job = [j \in Jobs |-> NoJob]
    /\ llm = [j \in Jobs |-> "none"]
    /\ free = MaxConcurrent
    /\ waiting = 0
    /\ proc = [at |-> "serve", todo |-> {}, doc |-> NoJob.doc,
               crashes |-> 0, faults |-> 0, retries |-> 0]

-----------------------------------------------------------------------------
Serving     == proc.at = "serve"
At(j, a)    == Serving /\ job[j].at = a
Goto(j, a)  == job' = [job EXCEPT ![j] = [@ EXCEPT !.at = a]]
DocOf(j)    == doc[job[j].doc]
Ends(j)     == job' = [job EXCEPT ![j] = NoJob]
(* A job that is not used, and whose worker has returned. *)
Unused(j)   == job[j].at = "idle" /\ llm[j] \notin {"calling", "value", "error"}
(* Threads are alike: a new one gets the least number that is free.           *)
Starts(j, new) == /\ Unused(j) /\ \A i \in Jobs : i < j => ~Unused(i)
                  /\ job' = [job EXCEPT ![j] = new] /\ llm' = [llm EXCEPT ![j] = "none"]

(* A thread writes the document it parsed, or nothing if a later upload       *)
(* replaced that (guard_stale_generation).                                    *)
Current(j) == DocOf(j).gen = job[j].gen
Writes(j, status, tries) ==
    doc' = IF Current(j)
           THEN [doc EXCEPT ![job[j].doc] =
                    [@ EXCEPT !.status = status, !.row = status, !.tries = tries,
                              !.dropped = FALSE]]
           ELSE doc
(* A write that is given up: a replacement in flight is preferred to it, or   *)
(* it failed and nothing of its thread is left that would try again.          *)
Drops(j) == doc' = IF Current(j) THEN [doc EXCEPT ![job[j].doc].dropped = TRUE] ELSE doc
Replacing(j) == DocOf(j).lock = "replacing"

(* A write to the document, or the start of a thread, that raises. *)
Faults == /\ proc.faults < MaxFaults
          /\ proc' = [proc EXCEPT !.faults = @ + 1]

(* BoundedSemaphore.release: one release too many is an error that is passed. *)
Release == free' = IF free < MaxConcurrent THEN free + 1 ELSE free

-----------------------------------------------------------------------------
(* The endpoints that start a thread.  Both hold the lock of the doc_id.      *)

FirstUpload(d, j) ==
    /\ Serving /\ d \notin Captures /\ doc[d].gen = 0 /\ MaxGen > 0
    /\ doc' = [doc EXCEPT ![d] = Stored("pending", 1)]
    /\ Starts(j, [NoJob EXCEPT !.at = "start", !.doc = d, !.gen = 1])
    /\ UNCHANGED <<free, waiting, proc>>

BeginReplace(d) ==
    /\ Serving /\ d \notin Captures /\ doc[d].lock = "free" /\ doc[d].gen \in 1..(MaxGen - 1)
    /\ doc' = [doc EXCEPT ![d].lock = "replacing"]
    /\ UNCHANGED <<job, llm, free, waiting, proc>>

(* The replacement commits and starts its own thread, or cannot start it, or  *)
(* puts back what it had set aside.                                           *)
EndReplace(d, j) ==
    /\ Serving /\ doc[d].lock = "replacing"
    /\ \/ /\ doc' = [doc EXCEPT ![d] = Stored("pending", doc[d].gen + 1)]
          /\ Starts(j, [NoJob EXCEPT !.at = "start", !.doc = d, !.gen = doc[d].gen + 1])
          /\ UNCHANGED proc
       \/ /\ doc' = [doc EXCEPT ![d] = Stored("pending", doc[d].gen + 1)]
          /\ Faults /\ UNCHANGED <<job, llm>>
       \/ doc' = [doc EXCEPT ![d].lock = "free"] /\ UNCHANGED <<job, llm, proc>>
    /\ UNCHANGED <<free, waiting>>

(* POST /library/{doc_id}/summary: what it refuses with 409. *)
MayRetry(d, force) ==
    /\ d \notin Captures
    /\ doc[d].status # "running" \/ force
    /\ doc[d].tries < MaxAttempts \/ force

RetryLoad(d, j, force) ==
    /\ Serving /\ doc[d].lock = "free" /\ doc[d].gen > 0 /\ proc.retries < MaxRetries
    /\ MayRetry(d, force)
    /\ Starts(j, [NoJob EXCEPT !.at = "claim", !.doc = d, !.gen = doc[d].gen,
                               !.tries = doc[d].tries])
    /\ doc' = [doc EXCEPT ![d].lock = "retrying"]
    /\ proc' = [proc EXCEPT !.retries = @ + 1]
    /\ UNCHANGED <<free, waiting>>

(* Under the lock the document says running, and then the thread is started;  *)
(* either may fail and answer 500.  A write that fails has put everything     *)
(* back; a thread that could not be started leaves its document running.      *)
RetryClaim(j) ==
    /\ At(j, "claim") /\ Goto(j, "spawn")
    /\ doc' = [doc EXCEPT ![job[j].doc] =
                  [@ EXCEPT !.status = "running", !.row = "running", !.tries = job[j].tries,
                            !.dropped = FALSE]]
    /\ UNCHANGED <<llm, free, waiting, proc>>

RetryClaimFails(j) ==
    /\ At(j, "claim") /\ Faults /\ Ends(j)
    /\ doc' = [doc EXCEPT ![job[j].doc].lock = "free"]
    /\ UNCHANGED <<llm, free, waiting>>

RetryStart(j) ==
    /\ At(j, "spawn") /\ Goto(j, "start")
    /\ doc' = [doc EXCEPT ![job[j].doc].lock = "free"]
    /\ UNCHANGED <<llm, free, waiting, proc>>

RetryStartFails(j) ==
    /\ At(j, "spawn") /\ Faults /\ Ends(j)
    /\ doc' = [doc EXCEPT ![job[j].doc] = [@ EXCEPT !.lock = "free", !.dropped = TRUE]]
    /\ UNCHANGED <<llm, free, waiting>>

-----------------------------------------------------------------------------
(* _generate_deferred_summary, up to the slot. *)

Start(j) ==
    /\ At(j, "start")
    /\ LET attempts == job[j].tries + 1 IN
       job' = [job EXCEPT ![j] = [@ EXCEPT !.tries = attempts,
                                           !.at = IF attempts > MaxAttempts THEN "fail" ELSE "try"]]
    /\ UNCHANGED <<doc, llm, free, waiting, proc>>

(* _deferred_summary_slot: acquire(blocking=False), then the count under its  *)
(* lock, then the semaphore again.                                            *)
TryAcquire(j) ==
    /\ At(j, "try")
    /\ IF free > 0
       THEN /\ free' = free - 1
            /\ job' = [job EXCEPT ![j] = [@ EXCEPT !.at = "mark", !.slot = TRUE]]
       ELSE Goto(j, "admit") /\ UNCHANGED free
    /\ UNCHANGED <<doc, llm, waiting, proc>>

Admit(j) ==
    /\ At(j, "admit")
    /\ IF waiting < MaxQueued
       THEN waiting' = waiting + 1 /\ Goto(j, "queued")
       ELSE Goto(j, "refused") /\ UNCHANGED waiting
    /\ UNCHANGED <<doc, llm, free, proc>>

Acquire(j) ==
    /\ At(j, "queued") /\ free > 0
    /\ free' = free - 1
    /\ job' = [job EXCEPT ![j] = [@ EXCEPT !.at = "leave", !.slot = TRUE]]
    /\ UNCHANGED <<doc, llm, waiting, proc>>

Leave(j) ==
    /\ At(j, "leave") /\ Goto(j, "mark")
    /\ waiting' = waiting - 1
    /\ UNCHANGED <<doc, llm, free, proc>>

(* No slot and no place in the queue: the document says so.  The write waits  *)
(* for a replacement in flight, or gives up after                             *)
(* _DEFERRED_WRITE_REPLACEMENT_WAIT_SEC.                                      *)
Refused(j) ==
    /\ At(j, "refused") /\ Ends(j)
    /\ IF Replacing(j) THEN Drops(j) ELSE Writes(j, "not_queued", job[j].tries - 1)
    /\ UNCHANGED <<llm, free, waiting, proc>>

RefusedFails(j) ==
    /\ At(j, "refused") /\ ~Replacing(j) /\ Current(j) /\ Faults /\ Goto(j, "fail")
    /\ UNCHANGED <<doc, llm, free, waiting>>

-----------------------------------------------------------------------------
(* The slot is held: the placeholder, the call, and what comes of it. *)

MarkWaits(j) ==                          \* variant: the placeholder waits for a replacement
    /\ At(j, "mark") /\ ~Replacing(j)
    /\ job' = [job EXCEPT ![j] = [@ EXCEPT !.at = "wait", !.slot = FALSE]]
    /\ llm' = [llm EXCEPT ![j] = "calling"]
    /\ Writes(j, "running", job[j].tries)
    /\ UNCHANGED <<free, waiting, proc>>
(* _skip_rather_than_wait: the placeholder is not worth waiting for.  Then    *)
(* the worker thread owns the slot.                                           *)
Mark(j) ==
    /\ At(j, "mark")
    /\ job' = [job EXCEPT ![j] = [@ EXCEPT !.at = "wait", !.slot = FALSE]]
    /\ llm' = [llm EXCEPT ![j] = "calling"]
    /\ IF Replacing(j) THEN UNCHANGED doc ELSE Writes(j, "running", job[j].tries)
    /\ UNCHANGED <<free, waiting, proc>>

(* The placeholder cannot be written, or the worker cannot be started. *)
MarkFails(j) ==
    /\ At(j, "mark") /\ Faults /\ Goto(j, "fail")
    /\ UNCHANGED doc \/ (~Replacing(j) /\ Writes(j, "running", job[j].tries))
    /\ UNCHANGED <<llm, free, waiting>>

(* _run_summary: the event is set, then the slot is released. *)
Answers(j, outcome) ==
    /\ Serving /\ llm[j] = "calling"
    /\ llm' = [llm EXCEPT ![j] = outcome]
    /\ UNCHANGED <<doc, job, free, waiting, proc>>

GivesSlotBack(j) ==
    /\ Serving /\ llm[j] \in {"value", "error"}
    /\ llm' = [llm EXCEPT ![j] = IF job[j].at # "wait" THEN "none"
                                      ELSE IF @ = "value" THEN "gave_value" ELSE "gave_error"]
    /\ Release
    /\ UNCHANGED <<doc, job, waiting, proc>>

Returned(j) == llm' = IF llm[j] \in {"gave_value", "gave_error"}
                      THEN [llm EXCEPT ![j] = "none"] ELSE llm
Collect(j) ==
    /\ At(j, "wait")
    /\ \/ llm[j] \in {"value", "gave_value"} /\ Goto(j, "complete") /\ Returned(j)
       \/ llm[j] \in {"error", "gave_error"} /\ Goto(j, "fail") /\ Returned(j)
    /\ UNCHANGED <<doc, free, waiting, proc>>

TimeoutReleases(j) ==                    \* variant: the waiter releases, and so does its worker
    /\ At(j, "wait") /\ llm[j] = "calling" /\ Goto(j, "fail")
    /\ Release
    /\ UNCHANGED <<doc, llm, waiting, proc>>
(* summary_done.wait(timeout): the call goes on, and keeps the slot. *)
Timeout(j) ==
    /\ At(j, "wait") /\ llm[j] = "calling" /\ Goto(j, "fail")
    /\ UNCHANGED <<doc, llm, free, waiting, proc>>

(* The result waits for a replacement in flight, or gives up. *)
Complete(j) ==
    /\ At(j, "complete") /\ Ends(j)
    /\ IF Replacing(j) THEN Drops(j) ELSE Writes(j, "completed", job[j].tries)
    /\ UNCHANGED <<llm, free, waiting, proc>>

CompleteFails(j) ==
    /\ At(j, "complete") /\ ~Replacing(j) /\ Current(j) /\ Faults /\ Goto(j, "fail")
    /\ UNCHANGED <<doc, llm, free, waiting>>

FailSilently(j) ==                       \* variant: a failure that leaves the status alone
    /\ At(j, "fail") /\ Ends(j)
    /\ IF job[j].slot THEN Release ELSE UNCHANGED free
    /\ UNCHANGED <<doc, llm, waiting, proc>>
(* The except clause skips when it still holds the slot, and waits or gives   *)
(* up when it does not; finally a slot that no worker owns goes back.         *)
Fail(j) ==
    /\ At(j, "fail") /\ Ends(j)
    /\ IF Replacing(j) THEN Drops(j) ELSE Writes(j, "failed", job[j].tries)
    /\ IF job[j].slot THEN Release ELSE UNCHANGED free
    /\ UNCHANGED <<llm, waiting, proc>>

(* The write of the except clause raises: the thread is over, its slot is     *)
(* back, and the document says what it said before.                           *)
FailFails(j) ==
    /\ At(j, "fail") /\ ~Replacing(j) /\ Current(j) /\ Faults /\ Ends(j)
    /\ Drops(j)
    /\ IF job[j].slot THEN Release ELSE UNCHANGED free
    /\ UNCHANGED <<llm, waiting>>

-----------------------------------------------------------------------------
(* The process dies, and the next start settles what it left. *)

(* What a thread of the browser, which WebCapture models, has made by then of *)
(* a capture that was pending: its row goes to completed before its manifest  *)
(* does.  Running in both is to the start what pending in both is.            *)
LeftByBrowser == {[status |-> "pending", row |-> "pending"],
                  [status |-> "running", row |-> "completed"]}
LeftOf(d, left) == IF d \in Captures /\ doc[d].status = "pending"
                   THEN [doc[d] EXCEPT !.status = left.status, !.row = left.row]
                   ELSE [doc[d] EXCEPT !.lock = "free", !.dropped = FALSE]

Crash ==
    /\ proc.crashes < MaxCrashes
    /\ job' = [j \in Jobs |-> NoJob] /\ llm' = [j \in Jobs |-> "none"]
    /\ free' = MaxConcurrent /\ waiting' = 0
    /\ \E left \in LeftByBrowser : doc' = [d \in Docs |-> LeftOf(d, left)]
    /\ proc' = [proc EXCEPT !.at = "start", !.todo = {}, !.crashes = @ + 1]

(* _reset_interrupted_summaries: the rows that say a summary is in flight... *)
InFlight(d) == IF d \in Captures THEN {"running", "pending"} ELSE {"running"}
Sweep ==
    /\ proc.at = "start"
    /\ proc' = [proc EXCEPT !.at = "sweep", !.todo = {d \in Docs : doc[d].row \in InFlight(d)}]
    /\ UNCHANGED <<doc, job, llm, free, waiting>>

ResetTo(d) == IF d \in Captures THEN "failed" ELSE "pending"
(* ...each of them with its manifest, if that agrees, and then its row.       *)
ResetManifest(d) ==
    /\ proc.at = "sweep" /\ d \in proc.todo
    /\ IF doc[d].status \in InFlight(d)
       THEN /\ doc' = [doc EXCEPT ![d].status = ResetTo(d)]
            /\ proc' = [proc EXCEPT !.at = "row", !.doc = d]
       ELSE proc' = [proc EXCEPT !.todo = @ \ {d}] /\ UNCHANGED doc
    /\ UNCHANGED <<job, llm, free, waiting>>

ResetRow ==
    /\ proc.at = "row"
    /\ \/ /\ proc.faults < MaxFaults /\ UNCHANGED doc                          \* logged
          /\ proc' = [proc EXCEPT !.at = "sweep", !.todo = @ \ {proc.doc}, !.faults = @ + 1]
       \/ doc' = [doc EXCEPT ![proc.doc].row = doc[proc.doc].status]
          /\ proc' = [proc EXCEPT !.at = "sweep", !.todo = @ \ {proc.doc}]
    /\ UNCHANGED <<job, llm, free, waiting>>

Serve ==
    /\ proc.at = "sweep" /\ proc.todo = {}
    /\ proc' = [proc EXCEPT !.at = "serve", !.doc = NoJob.doc]
    /\ UNCHANGED <<doc, job, llm, free, waiting>>

-----------------------------------------------------------------------------
Thread(j) ==
    \/ Start(j) \/ TryAcquire(j) \/ Admit(j) \/ Acquire(j) \/ Leave(j)
    \/ Refused(j) \/ RefusedFails(j) \/ Mark(j) \/ MarkFails(j) \/ Collect(j) \/ Timeout(j)
    \/ Complete(j) \/ CompleteFails(j) \/ Fail(j) \/ FailFails(j)
Retry(j) == RetryClaim(j) \/ RetryClaimFails(j) \/ RetryStart(j) \/ RetryStartFails(j)

Next ==
    \/ \E d \in Docs : \/ BeginReplace(d) \/ ResetManifest(d)
                       \/ \E j \in Jobs : \/ FirstUpload(d, j) \/ EndReplace(d, j)
                                          \/ \E force \in Forces : RetryLoad(d, j, force)
    \/ \E j \in Jobs : Retry(j) \/ Thread(j) \/ GivesSlotBack(j)
    \/ \E j \in Jobs, outcome \in {"value", "error"} : Answers(j, outcome)
    \/ Crash \/ Sweep \/ ResetRow \/ Serve

(* A thread that can run does; that the call answers, or that its worker ever *)
(* gives the slot back, is never assumed.                                     *)
Fairness == \A j \in Jobs : WF_vars(Thread(j))
Spec == Init /\ [][Next]_vars /\ Fairness

-----------------------------------------------------------------------------
(* Every slot is free, held by one thread, or owned by the one worker that    *)
(* thread handed it to; and the count is that of the threads in the queue,    *)
(* within its bound: no path loses a slot or gives one back twice.            *)
SlotsAndQueue ==
    /\ free + Cardinality({j \in Jobs : job[j].slot})
            + Cardinality({j \in Jobs : llm[j] \in {"calling", "value", "error"}}) = MaxConcurrent
    /\ waiting = Cardinality({j \in Jobs : job[j].at \in {"queued", "leave"}})
    /\ waiting <= MaxQueued

(* A document whose summary is said to be running has a thread that will      *)
(* still write its status, or a retry that is about to start one; unless the  *)
(* last write, or the start, of its thread was given up: to a replacement in  *)
(* flight, or because it failed.  The next start settles those as well: what  *)
(* it leaves of a capture in flight is one whose row was already completed.   *)
RunningIsLive ==
    Serving => \A d \in Docs :
        /\ d \notin Captures /\ doc[d].status = "running" /\ ~doc[d].dropped
             /\ doc[d].lock # "replacing" =>
             \E j \in Jobs : job[j].doc = d /\ job[j].gen = doc[d].gen
                             /\ job[j].at \notin {"idle", "claim"}
        /\ d \in Captures /\ proc.crashes > 0 /\ doc[d].status \in InFlight(d) =>
             doc[d].row = "completed"

(* A thread that got its slot comes to its end, even when the LLM call never  *)
(* returns: with RunningIsLive, its document does not stay running for it.    *)
HolderSettles == \A j \in Jobs : job[j].at \in {"mark", "wait"} ~> job[j].at = "idle"
=============================================================================
