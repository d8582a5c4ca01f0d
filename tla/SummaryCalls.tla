---------------------------- MODULE SummaryCalls ----------------------------
(***************************************************************************)
(* generate_summaries: one document's section summaries in batches, then   *)
(* its brief and its digest, several documents at once, through the        *)
(* semaphore and the start slot every call of the summary model takes.     *)
(*                                                                         *)
(*   allowed  how far off _summary_llm_next_allowed_at is                  *)
(*   nap      how long each thread that sleeps has left to sleep           *)
(*   held     the threads inside _summary_llm_sem                          *)
(*   gen      the generations: paper, stage, sections to send, whether a   *)
(*            batch raised, the summary of each section                    *)
(*   thread   where each thread stands: <<d, 1>> runs the generation of d, *)
(*            all of <<d, _>> its pool                                     *)
(*   begun    how long ago a call last claimed its start slot, up to an    *)
(*            interval (history)                                           *)
(***************************************************************************)
EXTENDS Integers, Sequences, FiniteSets

CONSTANTS
    Docs,            \* the numbers of the generations, in the order they start
    Slots,           \* SUMMARY_BATCH_CONCURRENCY
    Interval,        \* SUMMARY_REQUEST_MIN_INTERVAL_SEC
    DetailLimit,     \* SUMMARY_SECTION_DETAIL_LIMIT
    BatchLimit,      \* BATCH_TOKEN_LIMIT, in sections
    Papers,          \* [thin, sections]: below the document floor; "tiny" or "long" each
    None

(* At least one call runs at a time, and None is no time and no summary.           *)
SummaryCallsAssumption ==
    /\ Slots \in Nat \ {0} /\ Interval \in Nat
    /\ None \notin Nat /\ None \notin {"own", "model", "missing", "preview"}

VARIABLES allowed, nap, held, gen, thread, begun
vars == <<allowed, nap, held, gen, thread, begun>>

SummaryThreads == Docs \X (1..Slots)
Free == [at |-> "free", kind |-> None, of |-> {}]
NoGen == [stage |-> "idle", paper |-> None, singly |-> FALSE, todo |-> {}, raised |-> FALSE,
          summary |-> <<>>]

Init ==
    /\ allowed = 0 /\ held = {} /\ begun = None /\ nap = [t \in SummaryThreads |-> 0]
    /\ gen = [d \in Docs |-> NoGen]
    /\ thread = [t \in SummaryThreads |-> Free]

-----------------------------------------------------------------------------
(* The sections that are sent: a title-sized one echoes its own text, and a long   *)
(* document skips them all.  Batches fill up to the token limit, in order: what is *)
(* next is the first of what no batch has yet.                                     *)
Skipped(paper) == Len(paper.sections) > DetailLimit
Sent(paper) == {i \in DOMAIN paper.sections : paper.sections[i] # "tiny"}
NextBatch(todo) == {i \in todo : Cardinality({j \in todo : j < i}) < BatchLimit}
Echoed(paper) == [i \in DOMAIN paper.sections |->
                     IF paper.thin \/ paper.sections[i] = "tiny" THEN "own" ELSE None]

(* Below the document floor the content itself is the digest, and no call is made. *)
(* singly: a batch that will not parse is asked for again section by section (in   *)
(* the request, where a deferred summary makes do with previews).                  *)
Start(d, paper, singly) ==
    /\ gen[d].stage = "idle" /\ \A e \in Docs : e < d => gen[e].stage # "idle"
    /\ gen' = [gen EXCEPT ![d] =
           [stage |-> IF paper.thin THEN "done" ELSE "sections", paper |-> paper, singly |-> singly,
            raised |-> FALSE,
            todo |-> IF paper.thin \/ Skipped(paper) THEN {} ELSE Sent(paper),
            summary |-> IF Skipped(paper) /\ ~paper.thin THEN [i \in DOMAIN paper.sections |-> None]
                        ELSE Echoed(paper)]]
    /\ UNCHANGED <<allowed, nap, held, thread, begun>>

(* The pool holds as many workers as there are batches and slots; one worker, or   *)
(* one batch, works in the thread of the generation and stops at the first error.  *)
(* Workers are alike: the least that is free takes the batch.                      *)
Pooled(g) == Slots > 1 /\ Cardinality(Sent(g.paper)) > BatchLimit
Asks(t, kind, of) ==
    thread' = [thread EXCEPT ![t] = [at |-> "queued", kind |-> kind, of |-> of]]
TakeBatch(d, w) ==
    LET g == gen[d] IN
    /\ g.stage = "sections" /\ g.todo # {}
    /\ thread[<<d, w>>].at = "free" /\ \A v \in 1..(w - 1) : thread[<<d, v>>].at # "free"
    /\ w = 1 \/ Pooled(g)
    /\ Asks(<<d, w>>, "batch", NextBatch(g.todo))
    /\ gen' = [gen EXCEPT ![d].todo = @ \ NextBatch(@)]
    /\ UNCHANGED <<allowed, nap, held, begun>>

(* The pool is left when every worker has ended, even when one has raised.         *)
Idle(d) == \A w \in 1..Slots : thread[<<d, w>>].at = "free"
SectionsDone(d) ==
    LET g == gen[d] IN
    /\ g.stage = "sections" /\ Idle(d) /\ g.todo = {}
    /\ IF g.raised THEN gen' = [gen EXCEPT ![d].stage = "failed"] /\ UNCHANGED thread
       ELSE gen' = [gen EXCEPT ![d].stage = "brief"] /\ Asks(<<d, 1>>, "brief", {})
    /\ UNCHANGED <<allowed, nap, held, begun>>

-----------------------------------------------------------------------------
(* gemini_summarize: a place in the semaphore, then a start slot claimed against   *)
(* the current time; who comes too early sleeps and looks again.  The request goes *)
(* out after the claim, the lock given back; and a provider's retries and the next *)
(* provider of a failover put it again, as often as it takes, with no new slot.    *)
Acquire(t) ==
    /\ thread[t].at = "queued" /\ Cardinality(held) < Slots
    /\ held' = held \cup {t}
    /\ thread' = [thread EXCEPT ![t].at = "turn"]
    /\ UNCHANGED <<allowed, nap, gen, begun>>
Begins(t) ==
    /\ allowed' = Interval /\ begun' = 0
    /\ thread' = [thread EXCEPT ![t].at = "ready"]
Claim(t) ==
    /\ thread[t].at = "turn"
    /\ IF allowed = 0 THEN Begins(t) /\ UNCHANGED nap
       ELSE /\ nap' = [nap EXCEPT ![t] = allowed]
            /\ thread' = [thread EXCEPT ![t].at = "asleep"]
            /\ UNCHANGED <<allowed, begun>>
    /\ UNCHANGED <<held, gen>>
WakeAndClaim(t) ==                                   \* the reservation is not looked at again
    /\ thread[t].at = "asleep" /\ nap[t] = 0
    /\ Begins(t)
    /\ UNCHANGED <<nap, held, gen>>
Wake(t) ==
    /\ thread[t].at = "asleep" /\ nap[t] = 0
    /\ thread' = [thread EXCEPT ![t].at = "turn"]
    /\ UNCHANGED <<allowed, nap, held, gen, begun>>
Send(t) ==
    /\ thread[t].at = "ready"
    /\ thread' = [thread EXCEPT ![t].at = "calling"]
    /\ UNCHANGED <<allowed, nap, held, gen, begun>>
GoesWrong(t) ==
    /\ thread[t].at = "calling"
    /\ thread' = [thread EXCEPT ![t].at = "ready"]
    /\ UNCHANGED <<allowed, nap, held, gen, begun>>

-----------------------------------------------------------------------------
(* What a call comes to: text, one section of a batch without an item, JSON that   *)
(* will not do, nothing or the failure sentinel, or an exception.                  *)
Outcomes == {"text", "partial", "garbled", "sentinel", "error"}
Fails(out) == out \in {"sentinel", "error"}
First(of) == CHOOSE i \in of : \A j \in of : i <= j
Stored(d, of, what) == [gen EXCEPT ![d].summary = [i \in DOMAIN @ |-> IF i \in of THEN what ELSE @[i]]]
Done(t) == thread' = [thread EXCEPT ![t] = Free]

(* An exception leaves the pool's other workers and batches to run on; without a   *)
(* pool the batches behind it are never sent.                                      *)
Raises(d, t) ==
    /\ gen' = [gen EXCEPT ![d].raised = TRUE, ![d].todo = IF Pooled(gen[d]) THEN @ ELSE {}]
    /\ Done(t)

(* _summarize_batch for one section, and for more.                                 *)
OneAsIs(d, t, of, out) == Done(t) /\ gen' = Stored(d, of, IF Fails(out) THEN "sentinel" ELSE "model")
One(d, t, of, out) ==
    IF Fails(out) THEN Raises(d, t) ELSE Done(t) /\ gen' = Stored(d, of, "model")
Several(d, t, of, out) ==
    CASE Fails(out) -> Raises(d, t)
      [] out = "text" -> Done(t) /\ gen' = Stored(d, of, "model")
      [] out = "partial" ->
            Done(t) /\ gen' = [Stored(d, of, "model") EXCEPT ![d].summary[First(of)] = "missing"]
      [] OTHER -> IF gen[d].singly THEN Asks(t, "single", of) /\ UNCHANGED gen
                  ELSE Done(t) /\ gen' = Stored(d, of, "preview")
(* The fallback, one section after the other: a failed one keeps its preview.      *)
Single(d, t, of, out) ==
    IF out = "error" THEN Raises(d, t)
    ELSE /\ gen' = Stored(d, {First(of)}, IF Fails(out) THEN "preview" ELSE "model")
         /\ IF of = {First(of)} THEN Done(t) ELSE Asks(t, "single", of \ {First(of)})
Overview(d, t, kind, out) ==
    IF Fails(out) THEN Done(t) /\ gen' = [gen EXCEPT ![d].stage = "failed"]
    ELSE IF kind = "brief" THEN Asks(t, "digest", {}) /\ gen' = [gen EXCEPT ![d].stage = "digest"]
    ELSE Done(t) /\ gen' = [gen EXCEPT ![d].stage = "done"]

Reply(t, out) ==
    LET d == t[1]
        job == thread[t]
    IN  /\ job.at = "calling"
        /\ out \in {"partial", "garbled"} => job.kind = "batch" /\ Cardinality(job.of) > 1
        /\ held' = held \ {t}
        /\ CASE job.kind = "batch" -> IF Cardinality(job.of) = 1 THEN One(d, t, job.of, out)
                                      ELSE Several(d, t, job.of, out)
             [] job.kind = "single" -> Single(d, t, job.of, out)
             [] OTHER -> Overview(d, t, job.kind, out)
        /\ UNCHANGED <<allowed, nap, begun>>

(* A unit of time.  A thread may be held up past its timer, so nothing stops it.   *)
Less(n) == IF n = 0 THEN 0 ELSE n - 1
Tick ==
    /\ allowed' = Less(allowed) /\ nap' = [t \in SummaryThreads |-> Less(nap[t])]
    /\ begun' = IF begun = None \/ begun = Interval THEN begun ELSE begun + 1
    /\ UNCHANGED <<held, gen, thread>>

Next ==
    \/ Tick
    \/ \E d \in Docs, paper \in Papers, singly \in BOOLEAN : Start(d, paper, singly)
    \/ \E d \in Docs, w \in 1..Slots : TakeBatch(d, w)
    \/ \E d \in Docs : SectionsDone(d)
    \/ \E t \in SummaryThreads : Acquire(t) \/ Claim(t) \/ Wake(t) \/ Send(t) \/ GoesWrong(t)
    \/ \E t \in SummaryThreads, out \in Outcomes : Reply(t, out)

Spec == Init /\ [][Next]_vars

-----------------------------------------------------------------------------
(* Start slots are claimed at least Interval apart however many documents are      *)
(* summarised and however late a sleeping thread wakes (gemini_summarize claims    *)
(* its slot against the current time), and no request goes out, a first one or a   *)
(* provider's further try, while Slots others are with the model.  The requests    *)
(* themselves have no such distance.                                               *)
Calling == {t \in SummaryThreads : thread[t].at = "calling"}
CallsSpaced ==
    [][\A t \in SummaryThreads :
           /\ thread'[t].at = "ready" /\ thread[t].at \notin {"ready", "calling"} =>
                  begun = None \/ begun >= Interval
           /\ thread'[t].at = "calling" /\ thread[t].at # "calling" =>
                  Cardinality(Calling) < Slots]_vars

(* A document is given its summaries only when no thread writes to its sections    *)
(* any more and every section it sent has a usable one, never the failure text     *)
(* (generate_summaries, _summarize_batch).                                         *)
SummariesAreReal ==
    \A d \in Docs : gen[d].stage \in {"done", "failed"} =>
        /\ Idle(d)
        /\ gen[d].stage = "done" /\ (gen[d].paper.thin \/ ~Skipped(gen[d].paper)) =>
               \A i \in DOMAIN gen[d].summary : gen[d].summary[i] \notin {None, "sentinel"}
=============================================================================
