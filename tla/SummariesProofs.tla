--------------------------- MODULE SummariesProofs ---------------------------
(***************************************************************************)
(* What is proved of the deferred summaries, for every number of documents, *)
(* threads, slots, places in the queue, retries, failures and crashes.     *)
(***************************************************************************)
EXTENDS Summaries, FiniteSetTheorems, TLAPS

Statuses == {"none", "pending", "running", "not_queued", "completed", "failed"}
JobAts == {"idle", "claim", "spawn", "start", "try", "admit", "queued", "leave", "mark", "refused",
           "wait", "complete", "fail"}
Calls == {"none", "calling", "value", "error", "gave_value", "gave_error"}
DocType == [gen : Nat, status : Statuses, row : Statuses, tries : Int,
            lock : {"free", "replacing", "retrying"}, dropped : BOOLEAN]
JobType == [at : JobAts, doc : Docs, gen : Nat, tries : Int, slot : BOOLEAN]
ProcType == [at : {"serve", "start", "sweep", "row"}, todo : SUBSET Docs, doc : Docs,
             crashes : Nat, faults : Nat, retries : Nat]

(* The types of the variables.                                                *)
TypeOK ==
    /\ doc \in [Docs -> DocType]
    /\ job \in [Jobs -> JobType]
    /\ llm \in [Jobs -> Calls]
    /\ free \in Nat /\ waiting \in Int
    /\ proc \in ProcType

Holding == {j \in Jobs : job[j].slot}
Owning  == {j \in Jobs : llm[j] \in {"calling", "value", "error"}}
InQueue == {j \in Jobs : job[j].at \in {"queued", "leave"}}

(* A thread holds a slot from the semaphore to its worker, or to its failure  *)
(* where no worker was started; a worker exists from then on.                 *)
SlotOfThread(j) ==
    /\ job[j].slot => job[j].at \in {"leave", "mark", "fail"}
    /\ job[j].at \in {"leave", "mark"} => job[j].slot
    /\ job[j].at \in {"leave", "mark"} => llm[j] = "none"
    /\ job[j].slot => llm[j] = "none"
    /\ job[j].at \in {"claim", "spawn", "start", "try", "admit", "queued", "refused"} => llm[j] = "none"
SlotsOfThreads == \A j \in Jobs : SlotOfThread(j)

(* What the two counters count.                                               *)
Counted ==
    /\ free + Cardinality(Holding) + Cardinality(Owning) = MaxConcurrent
    /\ waiting = Cardinality(InQueue)
    /\ waiting <= MaxQueued

SlotInv == TypeOK /\ SlotsOfThreads /\ Counted

-----------------------------------------------------------------------------
(* The sets that are counted are finite, and change by one thread at a time.  *)
LEMMA CountsType ==
  ASSUME SummariesAssumption
  PROVE  /\ IsFiniteSet(Holding) /\ IsFiniteSet(Owning) /\ IsFiniteSet(InQueue)
         /\ Cardinality(Holding) \in Nat /\ Cardinality(Owning) \in Nat
         /\ Cardinality(InQueue) \in Nat
  <1>1. Holding \in SUBSET Jobs /\ Owning \in SUBSET Jobs /\ InQueue \in SUBSET Jobs
    BY DEF Holding, Owning, InQueue
  <1> QED
    BY <1>1, FS_Subset, FS_CardinalityType DEF SummariesAssumption

LEMMA OneMore ==
  ASSUME NEW S, IsFiniteSet(S), NEW x, x \notin S
  PROVE  Cardinality(S \cup {x}) = Cardinality(S) + 1
  BY FS_AddElement

LEMMA OneLess ==
  ASSUME NEW S, IsFiniteSet(S), NEW x, x \in S
  PROVE  /\ Cardinality(S \ {x}) = Cardinality(S) - 1
         /\ Cardinality(S) # 0
  BY FS_RemoveElement, FS_EmptySet

LEMMA InitSlots == ASSUME SummariesAssumption, Init PROVE SlotInv
  <1>1. TypeOK
    BY DEF SummariesAssumption, Init, TypeOK, NoJob, Stored, DocType, JobType, ProcType, Calls,
       JobAts, Statuses
  <1>2. SlotsOfThreads
    BY DEF Init, SlotsOfThreads, SlotOfThread, NoJob
  <1>3. Holding = {} /\ Owning = {} /\ InQueue = {}
    BY DEF Init, Holding, Owning, InQueue, NoJob
  <1>4. Counted
    BY <1>3, FS_EmptySet DEF Init, Counted, SummariesAssumption
  <1> QED
    BY <1>1, <1>2, <1>4 DEF SlotInv

(* One document, or one thread, changes.                                      *)
LEMMA DocWith ==
  ASSUME NEW D \in [Docs -> DocType], NEW d \in Docs, NEW r \in DocType
  PROVE  [D EXCEPT ![d] = r] \in [Docs -> DocType]
  OBVIOUS

LEMMA JobWith ==
  ASSUME TypeOK, NEW j \in Jobs, NEW at \in JobAts, NEW slot \in BOOLEAN, NEW tries \in Int
  PROVE  /\ [job EXCEPT ![j] = [@ EXCEPT !.at = at]] \in [Jobs -> JobType]
         /\ [job EXCEPT ![j] = [@ EXCEPT !.at = at, !.slot = slot]] \in [Jobs -> JobType]
         /\ [job EXCEPT ![j] = [@ EXCEPT !.tries = tries, !.at = at]] \in [Jobs -> JobType]
  <1>1. job[j] \in JobType /\ job \in [Jobs -> JobType]
    BY DEF TypeOK
  <1>2. [job[j] EXCEPT !.at = at] \in JobType
    BY <1>1 DEF JobType
  <1>3. [job[j] EXCEPT !.at = at, !.slot = slot] \in JobType
    BY <1>1 DEF JobType
  <1>4. [job[j] EXCEPT !.tries = tries, !.at = at] \in JobType
    BY <1>1 DEF JobType
  <1> QED
    BY <1>1, <1>2, <1>3, <1>4

LEMMA ProcWith ==
  ASSUME NEW p \in ProcType, NEW at \in {"serve", "start", "sweep", "row"},
         NEW todo \in SUBSET Docs, NEW n \in Nat
  PROVE  /\ [p EXCEPT !.at = at, !.todo = todo, !.crashes = n] \in ProcType
         /\ [p EXCEPT !.at = at, !.todo = todo, !.faults = n] \in ProcType
         /\ [p EXCEPT !.at = at, !.todo = todo] \in ProcType
  <1>1. [p EXCEPT !.at = at, !.todo = todo] \in ProcType
    BY DEF ProcType
  <1>2. [p EXCEPT !.at = at, !.todo = todo, !.crashes = n] \in ProcType
    BY DEF ProcType
  <1>3. [p EXCEPT !.at = at, !.todo = todo, !.faults = n] \in ProcType
    BY DEF ProcType
  <1> QED
    BY <1>1, <1>2, <1>3

(* A write of a thread, or its giving way to a replacement.                   *)
LEMMA WritesType ==
  ASSUME TypeOK, NEW j \in Jobs, NEW status \in Statuses, NEW tries \in Int,
         Writes(j, status, tries) \/ Drops(j)
  PROVE  doc' \in [Docs -> DocType]
  <1> DEFINE d == job[j].doc
  <1>1. d \in Docs /\ doc \in [Docs -> DocType] /\ doc[d] \in DocType
    BY DEF TypeOK, JobType
  <1>2. [doc[d] EXCEPT !.status = status, !.row = status, !.tries = tries, !.dropped = FALSE]
          \in DocType
    BY <1>1 DEF DocType
  <1>3. [doc[d] EXCEPT !.dropped = TRUE] \in DocType
    BY <1>1 DEF DocType
  <1>4. \/ doc' = doc
        \/ doc' = [doc EXCEPT ![d] = [doc[d] EXCEPT !.status = status, !.row = status,
                                                   !.tries = tries, !.dropped = FALSE]]
        \/ doc' = [doc EXCEPT ![d] = [doc[d] EXCEPT !.dropped = TRUE]]
    BY <1>1 DEF Writes, Drops
  <1> QED
    BY <1>1, <1>2, <1>3, <1>4, DocWith

LEMMA StartsType ==
  ASSUME TypeOK, NEW j \in Jobs, NEW new \in JobType, Starts(j, new)
  PROVE  job' \in [Jobs -> JobType] /\ llm' \in [Jobs -> Calls]
  BY DEF TypeOK, Starts, Calls

LEMMA NoJobType ==
  ASSUME SummariesAssumption PROVE NoJob \in JobType
  BY DEF SummariesAssumption, NoJob, JobType, JobAts

LEMMA FaultsType ==
  ASSUME TypeOK, Faults \/ UNCHANGED proc PROVE proc' \in ProcType /\ proc'.at = proc.at
                                              /\ proc'.crashes = proc.crashes
  BY DEF TypeOK, Faults, ProcType

LEMMA TypeStep ==
  ASSUME SummariesAssumption, TypeOK, [Next]_vars
  PROVE  TypeOK'
  <1> USE DEF TypeOK, Calls
  <1>1. ASSUME NEW d \in Docs, BeginReplace(d) PROVE TypeOK'
    BY <1>1 DEF BeginReplace, DocType
  <1>2. ASSUME NEW d \in Docs, ResetManifest(d) PROVE TypeOK'
    <2>1. doc[d] \in DocType /\ ResetTo(d) \in Statuses /\ proc \in ProcType
      BY DEF ResetTo, Statuses
    <2>2. [doc[d] EXCEPT !.status = ResetTo(d)] \in DocType
      BY <2>1 DEF DocType
    <2>3. doc' = doc \/ doc' = [doc EXCEPT ![d] = [doc[d] EXCEPT !.status = ResetTo(d)]]
      BY <1>2 DEF ResetManifest
    <2>4. doc' \in [Docs -> DocType]
      BY <2>1, <2>2, <2>3, DocWith
    <2>5. proc.todo \ {d} \in SUBSET Docs
      BY <2>1 DEF ProcType
    <2>6. proc' \in ProcType
      BY <1>2, <2>1, <2>5 DEF ResetManifest, ProcType
    <2> QED
      BY <1>2, <2>4, <2>6 DEF ResetManifest
  <1>3. ASSUME NEW d \in Docs, NEW j \in Jobs, FirstUpload(d, j) PROVE TypeOK'
    <2>1. [NoJob EXCEPT !.at = "start", !.doc = d, !.gen = 1] \in JobType
      BY NoJobType DEF JobType, JobAts
    <2>2. job' \in [Jobs -> JobType] /\ llm' \in [Jobs -> Calls]
      BY <1>3, <2>1, StartsType DEF FirstUpload
    <2> QED
      BY <1>3, <2>2 DEF FirstUpload, Stored, DocType, Statuses
  <1>4. ASSUME NEW d \in Docs, NEW j \in Jobs, EndReplace(d, j) PROVE TypeOK'
    <2>0. proc' \in ProcType
      BY <1>4, FaultsType DEF EndReplace
    <2>1. doc[d].gen + 1 \in Nat
      BY DEF DocType
    <2>2. [NoJob EXCEPT !.at = "start", !.doc = d, !.gen = doc[d].gen + 1] \in JobType
      BY <2>1, NoJobType DEF JobType, JobAts
    <2>3. job' \in [Jobs -> JobType] /\ llm' \in [Jobs -> Calls]
      BY <1>4, <2>2, StartsType DEF EndReplace
    <2>4. doc' \in [Docs -> DocType]
      <3>1. Stored("pending", doc[d].gen + 1) \in DocType
        BY <2>1 DEF Stored, DocType, Statuses
      <3>2. doc[d] \in DocType /\ [doc[d] EXCEPT !.lock = "free"] \in DocType
        BY DEF DocType
      <3> QED
        BY <1>4, <3>1, <3>2, DocWith DEF EndReplace
    <2> QED
      BY <1>4, <2>0, <2>3, <2>4 DEF EndReplace
  <1>5. ASSUME NEW d \in Docs, NEW j \in Jobs, NEW force \in Forces, RetryLoad(d, j, force)
        PROVE  TypeOK'
    <2>1. [NoJob EXCEPT !.at = "claim", !.doc = d, !.gen = doc[d].gen, !.tries = doc[d].tries]
             \in JobType
      BY NoJobType DEF JobType, JobAts, DocType
    <2>2. job' \in [Jobs -> JobType] /\ llm' \in [Jobs -> Calls]
      BY <1>5, <2>1, StartsType DEF RetryLoad
    <2>3. doc[d] \in DocType /\ [doc[d] EXCEPT !.lock = "retrying"] \in DocType
      BY DEF DocType
    <2>4. doc' \in [Docs -> DocType]
      BY <1>5, <2>3, DocWith DEF RetryLoad
    <2>5. proc' \in ProcType
      BY <1>5 DEF RetryLoad, ProcType
    <2> QED
      BY <1>5, <2>2, <2>4, <2>5 DEF RetryLoad
  <1>6. ASSUME NEW j \in Jobs, RetryClaim(j) PROVE TypeOK'
    <2> DEFINE r == [doc[job[j].doc] EXCEPT !.status = "running", !.row = "running",
                       !.tries = job[j].tries, !.dropped = FALSE]
    <2>1. job[j].doc \in Docs /\ job[j].tries \in Int /\ doc[job[j].doc] \in DocType
      BY DEF JobType
    <2>2. r \in DocType
      BY <2>1 DEF DocType, Statuses
    <2>3. doc' = [doc EXCEPT ![job[j].doc] = r]
      BY <1>6, <2>1 DEF RetryClaim
    <2>4. doc' \in [Docs -> DocType]
      BY <2>1, <2>2, <2>3, DocWith
    <2>5. job' \in [Jobs -> JobType]
      BY <1>6, JobWith DEF RetryClaim, Goto, JobAts
    <2> QED
      BY <1>6, <2>4, <2>5 DEF RetryClaim
  <1>7. ASSUME NEW j \in Jobs, Start(j) PROVE TypeOK'
    <2> DEFINE attempts == job[j].tries + 1
               at == IF attempts > MaxAttempts THEN "fail" ELSE "try"
    <2>0. attempts \in Int /\ at \in JobAts
      BY DEF JobType, JobAts
    <2>1. job' \in [Jobs -> JobType]
      <3>1. job' = [job EXCEPT ![j] = [@ EXCEPT !.tries = attempts, !.at = at]]
        BY <1>7 DEF Start
      <3> QED
        BY <2>0, <3>1, JobWith
    <2> QED
      BY <1>7, <2>1 DEF Start, Goto
  <1>8. ASSUME NEW j \in Jobs, TryAcquire(j) PROVE TypeOK'
    <2>1. job' \in [Jobs -> JobType]
      <3>1. \/ job' = [job EXCEPT ![j] = [@ EXCEPT !.at = "mark", !.slot = TRUE]]
            \/ job' = [job EXCEPT ![j] = [@ EXCEPT !.at = "admit"]]
        BY <1>8 DEF TryAcquire, Goto
      <3>2. "mark" \in JobAts /\ "admit" \in JobAts /\ TRUE \in BOOLEAN /\ 0 \in Int
        BY DEF JobAts
      <3>3. /\ [job EXCEPT ![j] = [@ EXCEPT !.at = "mark", !.slot = TRUE]] \in [Jobs -> JobType]
            /\ [job EXCEPT ![j] = [@ EXCEPT !.at = "admit"]] \in [Jobs -> JobType]
        BY <3>2, JobWith
      <3> QED
        BY <3>1, <3>3
    <2> QED
      BY <1>8, <2>1 DEF TryAcquire, Goto
  <1>9. ASSUME NEW j \in Jobs, Admit(j) PROVE TypeOK'
    BY <1>9 DEF Admit, Goto, JobType, JobAts
  <1>10. ASSUME NEW j \in Jobs, Acquire(j) PROVE TypeOK'
    <2>1. job' \in [Jobs -> JobType]
      BY <1>10, JobWith DEF Acquire, JobAts, JobType
    <2> QED
      BY <1>10, <2>1 DEF Acquire, Goto
  <1>11. ASSUME NEW j \in Jobs, Leave(j) PROVE TypeOK'
    BY <1>11 DEF Leave, Goto, JobType, JobAts
  <1>12. ASSUME NEW j \in Jobs, Refused(j) PROVE TypeOK'
    <2>1. job[j].tries - 1 \in Int
      BY DEF JobType
    <2>2. doc' \in [Docs -> DocType]
      BY <1>12, <2>1, WritesType DEF Refused, Statuses
    <2> QED
      BY <1>12, <2>2, NoJobType DEF Refused, Ends
  <1>13. ASSUME NEW j \in Jobs, Mark(j) PROVE TypeOK'
    <2>1. doc' \in [Docs -> DocType]
      BY <1>13, WritesType DEF Mark, Statuses, JobType
    <2> QED
      BY <1>13, <2>1 DEF Mark, JobType, JobAts
  <1>14. ASSUME NEW j \in Jobs, MarkFails(j) PROVE TypeOK'
    <2>1. doc' \in [Docs -> DocType]
      BY <1>14, WritesType DEF MarkFails, Statuses, JobType
    <2>2. job' \in [Jobs -> JobType] /\ proc' \in ProcType
      BY <1>14, FaultsType DEF MarkFails, Goto, JobType, JobAts
    <2> QED
      BY <1>14, <2>1, <2>2 DEF MarkFails
  <1>27. ASSUME NEW j \in Jobs, RefusedFails(j) PROVE TypeOK'
    BY <1>27, FaultsType DEF RefusedFails, Goto, JobType, JobAts
  <1>28. ASSUME NEW j \in Jobs, FailFails(j) PROVE TypeOK'
    <2>1. doc' \in [Docs -> DocType]
      <3>1. 0 \in Int /\ "failed" \in Statuses
        BY DEF Statuses
      <3> QED
        BY <1>28, <3>1, WritesType DEF FailFails
    <2> QED
      BY <1>28, <2>1, NoJobType, FaultsType DEF FailFails, Ends, Release
  <1>29. ASSUME NEW j \in Jobs, RetryClaimFails(j) \/ RetryStart(j) \/ RetryStartFails(j)
         PROVE  TypeOK'
    <2> DEFINE d == job[j].doc
    <2>1. d \in Docs /\ doc[d] \in DocType
      BY DEF JobType
    <2>2. /\ [doc[d] EXCEPT !.lock = "free"] \in DocType
          /\ [doc[d] EXCEPT !.lock = "free", !.dropped = TRUE] \in DocType
      BY <2>1 DEF DocType
    <2>3. \/ doc' = [doc EXCEPT ![d] = [doc[d] EXCEPT !.lock = "free"]]
          \/ doc' = [doc EXCEPT ![d] = [doc[d] EXCEPT !.lock = "free", !.dropped = TRUE]]
      BY <1>29 DEF RetryClaimFails, RetryStart, RetryStartFails
    <2>4. doc' \in [Docs -> DocType]
      BY <2>1, <2>2, <2>3, DocWith
    <2>5. job' \in [Jobs -> JobType]
      BY <1>29, NoJobType DEF RetryClaimFails, RetryStart, RetryStartFails, Ends, Goto, JobType, JobAts
    <2>6. proc' \in ProcType
      BY <1>29, FaultsType DEF RetryClaimFails, RetryStart, RetryStartFails
    <2> QED
      BY <1>29, <2>4, <2>5, <2>6 DEF RetryClaimFails, RetryStart, RetryStartFails
  <1>15. ASSUME NEW j \in Jobs, Collect(j) PROVE TypeOK'
    <2>1. job' \in [Jobs -> JobType]
      <3>1. \/ job' = [job EXCEPT ![j] = [@ EXCEPT !.at = "complete"]]
            \/ job' = [job EXCEPT ![j] = [@ EXCEPT !.at = "fail"]]
        BY <1>15 DEF Collect, Goto
      <3>2. "complete" \in JobAts /\ "fail" \in JobAts
        BY DEF JobAts
      <3>3. /\ [job EXCEPT ![j] = [@ EXCEPT !.at = "complete"]] \in [Jobs -> JobType]
            /\ [job EXCEPT ![j] = [@ EXCEPT !.at = "fail"]] \in [Jobs -> JobType]
        <4>1. TRUE \in BOOLEAN /\ 0 \in Int
          OBVIOUS
        <4> QED
          BY <3>2, <4>1, JobWith
      <3> QED
        BY <3>1, <3>3
    <2>2. llm' \in [Jobs -> Calls]
      BY <1>15 DEF Collect, Returned
    <2> QED
      BY <1>15, <2>1, <2>2 DEF Collect
  <1>16. ASSUME NEW j \in Jobs, Timeout(j) PROVE TypeOK'
    BY <1>16 DEF Timeout, Goto, JobType, JobAts
  <1>17. ASSUME NEW j \in Jobs, Complete(j) PROVE TypeOK'
    <2>1. doc' \in [Docs -> DocType]
      BY <1>17, WritesType DEF Complete, Statuses, JobType
    <2> QED
      BY <1>17, <2>1, NoJobType DEF Complete, Ends
  <1>18. ASSUME NEW j \in Jobs, CompleteFails(j) PROVE TypeOK'
    BY <1>18 DEF CompleteFails, Faults, Goto, JobType, JobAts, ProcType
  <1>19. ASSUME NEW j \in Jobs, Fail(j) PROVE TypeOK'
    <2>1. doc' \in [Docs -> DocType]
      BY <1>19, WritesType DEF Fail, Statuses, JobType
    <2> QED
      BY <1>19, <2>1, NoJobType DEF Fail, Ends, Release
  <1>20. ASSUME NEW j \in Jobs, GivesSlotBack(j) PROVE TypeOK'
    BY <1>20 DEF GivesSlotBack, Release
  <1>21. ASSUME NEW j \in Jobs, NEW outcome \in {"value", "error"}, Answers(j, outcome)
         PROVE  TypeOK'
    BY <1>21 DEF Answers
  <1>22. CASE Crash
    <2>1. \A d \in Docs, left \in LeftByBrowser : LeftOf(d, left) \in DocType
      <3> SUFFICES ASSUME NEW d \in Docs, NEW left \in LeftByBrowser PROVE LeftOf(d, left) \in DocType
        OBVIOUS
      <3>1. doc[d] \in DocType /\ left.status \in Statuses /\ left.row \in Statuses
        BY DEF LeftByBrowser, Statuses
      <3>2. /\ [doc[d] EXCEPT !.status = left.status, !.row = left.row] \in DocType
            /\ [doc[d] EXCEPT !.lock = "free", !.dropped = FALSE] \in DocType
        BY <3>1 DEF DocType
      <3> QED
        BY <3>2 DEF LeftOf
    <2>2. {} \in SUBSET Docs
      OBVIOUS
    <2>3. proc' \in ProcType
      <3>1. proc.crashes + 1 \in Nat
        BY DEF ProcType
      <3>2. proc' = [proc EXCEPT !.at = "start", !.todo = {}, !.crashes = proc.crashes + 1]
        BY <1>22 DEF Crash
      <3> QED
        BY <2>2, <3>1, <3>2, ProcWith
    <2>4. doc' \in [Docs -> DocType] /\ job' \in [Jobs -> JobType] /\ llm' \in [Jobs -> Calls]
      BY <1>22, <2>1, NoJobType DEF Crash
    <2>5. free' \in Nat /\ waiting' \in Int
      <3>1. free' = MaxConcurrent /\ waiting' = 0
        BY <1>22 DEF Crash
      <3>2. MaxConcurrent \in Nat
        BY DEF SummariesAssumption
      <3> QED
        BY <3>1, <3>2
    <2> QED
      BY <2>3, <2>4, <2>5
  <1>23. CASE Sweep
    BY <1>23 DEF Sweep, ProcType
  <1>24. CASE ResetRow
    <2>1. proc.doc \in Docs /\ doc[proc.doc] \in DocType
      BY DEF ProcType
    <2>2. [doc[proc.doc] EXCEPT !.row = doc[proc.doc].status] \in DocType
      BY <2>1 DEF DocType
    <2>3. doc' = doc \/ doc' = [doc EXCEPT ![proc.doc] = [doc[proc.doc] EXCEPT !.row = doc[proc.doc].status]]
      BY <1>24 DEF ResetRow
    <2>4. doc' \in [Docs -> DocType]
      BY <2>1, <2>2, <2>3, DocWith
    <2>5. proc.todo \ {proc.doc} \in SUBSET Docs
      BY DEF ProcType
    <2>6. proc' \in ProcType
      <3>1. proc.faults + 1 \in Nat /\ proc \in ProcType
        BY DEF ProcType
      <3>2. \/ proc' = [proc EXCEPT !.at = "sweep", !.todo = proc.todo \ {proc.doc},
                                   !.faults = proc.faults + 1]
            \/ proc' = [proc EXCEPT !.at = "sweep", !.todo = proc.todo \ {proc.doc}]
        BY <1>24 DEF ResetRow
      <3>3. /\ [proc EXCEPT !.at = "sweep", !.todo = proc.todo \ {proc.doc},
                            !.faults = proc.faults + 1] \in ProcType
            /\ [proc EXCEPT !.at = "sweep", !.todo = proc.todo \ {proc.doc}] \in ProcType
        BY <2>5, <3>1, ProcWith
      <3> QED
        BY <3>2, <3>3
    <2> QED
      BY <1>24, <2>4, <2>6 DEF ResetRow
  <1>25. CASE Serve
    BY <1>25, NoJobType DEF Serve, ProcType, JobType
  <1>26. CASE UNCHANGED vars
    BY <1>26 DEF vars
  <1> QED
    BY <1>1, <1>2, <1>3, <1>4, <1>5, <1>6, <1>7, <1>8, <1>9, <1>10, <1>11, <1>12, <1>13, <1>14,
       <1>15, <1>16, <1>17, <1>18, <1>19, <1>20, <1>21, <1>22, <1>23, <1>24, <1>25, <1>26,
       <1>27, <1>28, <1>29
    DEF Next, Thread, Retry

-----------------------------------------------------------------------------
(* The threads and the two counters.  Each lemma is about the actions that    *)
(* move a thread in one way, and what they do to the three sets.              *)

LEMMA SetsStep ==
  ASSUME TypeOK, NEW j \in Jobs,
         \A i \in Jobs : i # j => job'[i] = job[i] /\ llm'[i] = llm[i]
  PROVE  /\ Holding' = IF job'[j].slot THEN Holding \cup {j} ELSE Holding \ {j}
         /\ Owning' = IF llm'[j] \in {"calling", "value", "error"}
                      THEN Owning \cup {j} ELSE Owning \ {j}
         /\ InQueue' = IF job'[j].at \in {"queued", "leave"}
                       THEN InQueue \cup {j} ELSE InQueue \ {j}
  BY DEF Holding, Owning, InQueue

(* A set that gains or loses one thread, or keeps it as it is.                 *)
LEMMA OneThread ==
  ASSUME NEW S, IsFiniteSet(S), NEW j, NEW b \in BOOLEAN, NEW T,
         T = IF b THEN S \cup {j} ELSE S \ {j}
  PROVE  /\ Cardinality(S) \in Nat /\ Cardinality(T) \in Nat
         /\ j \in S => Cardinality(S) > 0
         /\ Cardinality(T) - Cardinality(S)
              = IF j \in S THEN IF b THEN 0 ELSE -1 ELSE IF b THEN 1 ELSE 0
  <1>1. Cardinality(S) \in Nat
    BY FS_CardinalityType
  <1>2. j \in S => Cardinality(S) # 0
    BY FS_EmptySet
  <1>3. CASE b
    <2>1. Cardinality(T) = IF j \in S THEN Cardinality(S) ELSE Cardinality(S) + 1
      BY <1>3, FS_AddElement
    <2> QED
      BY <1>1, <1>2, <1>3, <2>1
  <1>4. CASE ~b
    <2>1. Cardinality(T) = IF j \in S THEN Cardinality(S) - 1 ELSE Cardinality(S)
      BY <1>4, FS_RemoveElement
    <2> QED
      BY <1>1, <1>2, <1>4, <2>1
  <1> QED
    BY <1>3, <1>4

Owns(j)   == llm[j] \in {"calling", "value", "error"}
Queues(j) == job[j].at \in {"queued", "leave"}
(* From before to after, by how much a count changes.                         *)
Change(before, after) == IF before THEN IF after THEN 0 ELSE -1 ELSE IF after THEN 1 ELSE 0

(* What one thread changes of the three counts.                               *)
LEMMA CountsStep ==
  ASSUME SummariesAssumption, TypeOK, TypeOK', NEW j \in Jobs,
         \A i \in Jobs : i # j => job'[i] = job[i] /\ llm'[i] = llm[i]
  PROVE  /\ Cardinality(Holding') - Cardinality(Holding) = Change(job[j].slot, job'[j].slot)
         /\ Cardinality(Owning') - Cardinality(Owning) = Change(Owns(j), Owns(j)')
         /\ Cardinality(InQueue') - Cardinality(InQueue) = Change(Queues(j), Queues(j)')
         /\ Cardinality(Holding) \in Nat /\ Cardinality(Owning) \in Nat
         /\ Cardinality(InQueue) \in Nat
         /\ Cardinality(Holding') \in Nat /\ Cardinality(Owning') \in Nat
         /\ Cardinality(InQueue') \in Nat
         /\ job[j].slot => Cardinality(Holding) > 0
         /\ Owns(j) => Cardinality(Owning) > 0
         /\ Queues(j) => Cardinality(InQueue) > 0
  <1>1. /\ j \in Holding <=> job[j].slot
        /\ j \in Owning <=> Owns(j)
        /\ j \in InQueue <=> Queues(j)
    BY DEF Holding, Owning, InQueue, Owns, Queues
  <1>2. job'[j].slot \in BOOLEAN /\ Owns(j)' \in BOOLEAN /\ Queues(j)' \in BOOLEAN
    BY DEF TypeOK, JobType, Owns, Queues
  <1>3. IsFiniteSet(Holding) /\ IsFiniteSet(Owning) /\ IsFiniteSet(InQueue)
    BY CountsType
  <1>4. /\ Holding' = IF job'[j].slot THEN Holding \cup {j} ELSE Holding \ {j}
        /\ Owning' = IF Owns(j)' THEN Owning \cup {j} ELSE Owning \ {j}
        /\ InQueue' = IF Queues(j)' THEN InQueue \cup {j} ELSE InQueue \ {j}
    BY SetsStep DEF Owns, Queues
  <1>5. /\ Cardinality(Holding) \in Nat /\ Cardinality(Holding') \in Nat
        /\ j \in Holding => Cardinality(Holding) > 0
        /\ Cardinality(Holding') - Cardinality(Holding) = Change(j \in Holding, job'[j].slot)
    BY <1>2, <1>3, <1>4, OneThread DEF Change
  <1>6. /\ Cardinality(Owning) \in Nat /\ Cardinality(Owning') \in Nat
        /\ j \in Owning => Cardinality(Owning) > 0
        /\ Cardinality(Owning') - Cardinality(Owning) = Change(j \in Owning, Owns(j)')
    BY <1>2, <1>3, <1>4, OneThread DEF Change
  <1>7. /\ Cardinality(InQueue) \in Nat /\ Cardinality(InQueue') \in Nat
        /\ j \in InQueue => Cardinality(InQueue) > 0
        /\ Cardinality(InQueue') - Cardinality(InQueue) = Change(j \in InQueue, Queues(j)')
    BY <1>2, <1>3, <1>4, OneThread DEF Change
  <1> QED
    BY <1>1, <1>5, <1>6, <1>7 DEF Change

(* A step of one thread keeps the invariant if it keeps the books: the free   *)
(* slots and the length of the queue change as the thread does.               *)
LEMMA BooksStep ==
  ASSUME SummariesAssumption, SlotInv, TypeOK', NEW j \in Jobs,
         \A i \in Jobs : i # j => job'[i] = job[i] /\ llm'[i] = llm[i],
         SlotOfThread(j)',
         free' = free - Change(job[j].slot, job'[j].slot) - Change(Owns(j), Owns(j)'),
         waiting' = waiting + Change(Queues(j), Queues(j)'),
         waiting' <= MaxQueued
  PROVE  SlotInv'
  <1>1. TypeOK /\ SlotsOfThreads /\ Counted
    BY DEF SlotInv
  <1>2. SlotsOfThreads'
    <2>1. ASSUME NEW i \in Jobs, i # j PROVE SlotOfThread(i)'
      BY <1>1, <2>1 DEF SlotsOfThreads, SlotOfThread
    <2> QED
      BY <2>1 DEF SlotsOfThreads
  <1>3. Counted'
    <2> DEFINE h == Change(job[j].slot, job'[j].slot)
               o == Change(Owns(j), Owns(j)')
               q == Change(Queues(j), Queues(j)')
    <2>1. h \in Int /\ o \in Int /\ q \in Int
      BY DEF Change
    <2>2. /\ Cardinality(Holding') - Cardinality(Holding) = h
          /\ Cardinality(Owning') - Cardinality(Owning) = o
          /\ Cardinality(InQueue') - Cardinality(InQueue) = q
          /\ Cardinality(Holding) \in Nat /\ Cardinality(Owning) \in Nat
          /\ Cardinality(InQueue) \in Nat
          /\ Cardinality(Holding') \in Nat /\ Cardinality(Owning') \in Nat
          /\ Cardinality(InQueue') \in Nat
      BY <1>1, CountsStep
    <2>3. free' = free - h - o /\ waiting' = waiting + q
      OBVIOUS
    <2>4. free \in Int /\ waiting \in Int /\ MaxConcurrent \in Int /\ MaxQueued \in Int
      BY <1>1 DEF TypeOK, SummariesAssumption
    <2> HIDE DEF h, o, q
    <2>5. /\ free + Cardinality(Holding) + Cardinality(Owning) = MaxConcurrent
          /\ waiting = Cardinality(InQueue)
      BY <1>1 DEF Counted
    <2>6. free' + Cardinality(Holding') + Cardinality(Owning') = MaxConcurrent
      BY <2>1, <2>2, <2>3, <2>4, <2>5
    <2>7. waiting' = Cardinality(InQueue')
      BY <2>1, <2>2, <2>3, <2>4, <2>5
    <2> QED
      BY <2>6, <2>7 DEF Counted
  <1> QED
    BY <1>2, <1>3 DEF SlotInv

(* A semaphore that is given back by one who holds a slot is never full.      *)
LEMMA ReleaseOfOwn ==
  ASSUME SummariesAssumption, SlotInv, NEW j \in Jobs, job[j].slot \/ Owns(j), Release
  PROVE  free' = free + 1
  <1>1. TypeOK /\ Counted
    BY DEF SlotInv
  <1>2. IsFiniteSet(Holding) /\ IsFiniteSet(Owning)
    BY CountsType
  <1>3. /\ Cardinality(Holding) \in Nat /\ Cardinality(Owning) \in Nat
    BY CountsType
  <1>4. j \in Holding \/ j \in Owning
    BY DEF Holding, Owning, Owns
  <1>5. Cardinality(Holding) > 0 \/ Cardinality(Owning) > 0
    BY <1>2, <1>3, <1>4, FS_EmptySet
  <1> QED
    BY <1>1, <1>3, <1>5 DEF Release, Counted, TypeOK, SummariesAssumption

(* A thread keeps its number, its document and its parse.                     *)
Same(j) == /\ \A i \in Jobs : i # j => job'[i] = job[i]
           /\ job'[j].doc = job[j].doc /\ job'[j].gen = job[j].gen

(* The branches of three steps, as alternatives.                              *)
LEMMA TryAcquireBranches ==
  ASSUME TypeOK, NEW j \in Jobs, TryAcquire(j)
  PROVE  /\ Serving /\ job[j].at = "try" /\ UNCHANGED <<doc, llm, waiting, proc>> /\ Same(j)
         /\ \/ free' = free - 1 /\ job'[j].at = "mark" /\ job'[j].slot
            \/ free' = free /\ job'[j].at = "admit" /\ (job'[j].slot => job[j].slot)
  <1>1. /\ Serving /\ job[j].at = "try" /\ UNCHANGED <<doc, llm, waiting, proc>>
        /\ \/ /\ free' = free - 1
              /\ job' = [job EXCEPT ![j] = [@ EXCEPT !.at = "mark", !.slot = TRUE]]
           \/ free' = free /\ job' = [job EXCEPT ![j] = [@ EXCEPT !.at = "admit"]]
    BY Zenon DEF TryAcquire, At, Goto
  <1>2. CASE free' = free - 1 /\ job' = [job EXCEPT ![j] = [@ EXCEPT !.at = "mark", !.slot = TRUE]]
    BY <1>1, <1>2 DEF Same, TypeOK, JobType
  <1>3. CASE free' = free /\ job' = [job EXCEPT ![j] = [@ EXCEPT !.at = "admit"]]
    BY <1>1, <1>3 DEF Same, TypeOK, JobType
  <1> QED
    BY <1>1, <1>2, <1>3

LEMMA AdmitBranches ==
  ASSUME TypeOK, NEW j \in Jobs, Admit(j)
  PROVE  /\ Serving /\ job[j].at = "admit" /\ UNCHANGED <<doc, llm, free, proc>> /\ Same(j)
         /\ job'[j].slot = job[j].slot
         /\ \/ waiting < MaxQueued /\ waiting' = waiting + 1 /\ job'[j].at = "queued"
            \/ waiting' = waiting /\ job'[j].at = "refused"
  <1>1. /\ Serving /\ job[j].at = "admit" /\ UNCHANGED <<doc, llm, free, proc>>
        /\ \/ /\ waiting < MaxQueued /\ waiting' = waiting + 1
              /\ job' = [job EXCEPT ![j] = [@ EXCEPT !.at = "queued"]]
           \/ waiting' = waiting /\ job' = [job EXCEPT ![j] = [@ EXCEPT !.at = "refused"]]
    BY Zenon DEF Admit, At, Goto
  <1>2. CASE /\ waiting < MaxQueued /\ waiting' = waiting + 1
             /\ job' = [job EXCEPT ![j] = [@ EXCEPT !.at = "queued"]]
    BY <1>1, <1>2 DEF Same, TypeOK, JobType
  <1>3. CASE waiting' = waiting /\ job' = [job EXCEPT ![j] = [@ EXCEPT !.at = "refused"]]
    BY <1>1, <1>3 DEF Same, TypeOK, JobType
  <1> QED
    BY <1>1, <1>2, <1>3

LEMMA CollectBranches ==
  ASSUME TypeOK, NEW j \in Jobs, Collect(j)
  PROVE  /\ Serving /\ job[j].at = "wait" /\ UNCHANGED <<doc, free, waiting, proc>> /\ Same(j)
         /\ job'[j].slot = job[j].slot /\ job'[j].at \in {"complete", "fail"}
         /\ \A i \in Jobs : i # j => llm'[i] = llm[i]
         /\ Owns(j)' = Owns(j)
  <1>1. /\ Serving /\ job[j].at = "wait" /\ UNCHANGED <<doc, free, waiting, proc>>
        /\ \/ job' = [job EXCEPT ![j] = [@ EXCEPT !.at = "complete"]]
           \/ job' = [job EXCEPT ![j] = [@ EXCEPT !.at = "fail"]]
        /\ Returned(j)
    BY Zenon DEF Collect, At, Goto
  <1>2. \/ llm' = llm
        \/ llm' = [llm EXCEPT ![j] = "none"] /\ llm[j] \in {"gave_value", "gave_error"}
    BY <1>1, Zenon DEF Returned
  <1>3. /\ \A i \in Jobs : i # j => llm'[i] = llm[i]
        /\ Owns(j)' = Owns(j)
    BY <1>2 DEF TypeOK, Owns
  <1>4. CASE job' = [job EXCEPT ![j] = [@ EXCEPT !.at = "complete"]]
    BY <1>1, <1>3, <1>4 DEF Same, TypeOK, JobType
  <1>5. CASE job' = [job EXCEPT ![j] = [@ EXCEPT !.at = "fail"]]
    BY <1>1, <1>3, <1>5 DEF Same, TypeOK, JobType
  <1> QED
    BY <1>1, <1>4, <1>5

(* Every action keeps the books.                                              *)
LEMMA SlotInvStep ==
  ASSUME SummariesAssumption, SlotInv, [Next]_vars
  PROVE  SlotInv'
  <1> TypeOK'
    BY TypeStep DEF SlotInv
  <1>0. /\ TypeOK
        /\ doc \in [Docs -> DocType] /\ job \in [Jobs -> JobType] /\ llm \in [Jobs -> Calls]
        /\ free \in Nat /\ waiting \in Int /\ waiting <= MaxQueued
        /\ MaxConcurrent \in Nat /\ MaxQueued \in Nat
        /\ \A j \in Jobs : job[j].slot \in BOOLEAN /\ SlotOfThread(j)
    BY DEF SlotInv, TypeOK, Counted, SlotsOfThreads, SummariesAssumption, JobType
  <1>1. ASSUME NEW d \in Docs, NEW j \in Jobs, FirstUpload(d, j) PROVE SlotInv'
    <2>1. \A i \in Jobs : i # j => job'[i] = job[i] /\ llm'[i] = llm[i]
      BY <1>1 DEF FirstUpload, Starts, Unused, NoJob
    <2>2. SlotOfThread(j)'
      BY <1>1, <1>0 DEF FirstUpload, Starts, Unused, NoJob, SlotOfThread, Calls
    <2>3. free' = free - Change(job[j].slot, job'[j].slot) - Change(Owns(j), Owns(j)')
      BY <1>1, <1>0 DEF FirstUpload, Starts, Unused, NoJob, SlotOfThread, Change, Owns
    <2>4. waiting' = waiting + Change(Queues(j), Queues(j)') /\ waiting' <= MaxQueued
      BY <1>1, <1>0 DEF FirstUpload, Starts, Unused, NoJob, SlotOfThread, Change, Queues
    <2> QED
      BY <2>1, <2>2, <2>3, <2>4, BooksStep
  <1>2. ASSUME NEW d \in Docs, NEW j \in Jobs, NEW force \in Forces, RetryLoad(d, j, force) PROVE SlotInv'
    <2>1. \A i \in Jobs : i # j => job'[i] = job[i] /\ llm'[i] = llm[i]
      BY <1>2 DEF RetryLoad, Starts, Unused, NoJob
    <2>2. SlotOfThread(j)'
      BY <1>2, <1>0 DEF RetryLoad, Starts, Unused, NoJob, SlotOfThread, Calls
    <2>3. free' = free - Change(job[j].slot, job'[j].slot) - Change(Owns(j), Owns(j)')
      BY <1>2, <1>0 DEF RetryLoad, Starts, Unused, NoJob, SlotOfThread, Change, Owns
    <2>4. waiting' = waiting + Change(Queues(j), Queues(j)') /\ waiting' <= MaxQueued
      BY <1>2, <1>0 DEF RetryLoad, Starts, Unused, NoJob, SlotOfThread, Change, Queues
    <2> QED
      BY <2>1, <2>2, <2>3, <2>4, BooksStep
  <1>3. ASSUME NEW j \in Jobs, RetryClaim(j) PROVE SlotInv'
    <2>1. \A i \in Jobs : i # j => job'[i] = job[i] /\ llm'[i] = llm[i]
      BY <1>3 DEF RetryClaim, At, Goto
    <2>2. SlotOfThread(j)'
      BY <1>3, <1>0 DEF RetryClaim, At, Goto, SlotOfThread, Calls
    <2>3. free' = free - Change(job[j].slot, job'[j].slot) - Change(Owns(j), Owns(j)')
      BY <1>3, <1>0 DEF RetryClaim, At, Goto, SlotOfThread, Change, Owns
    <2>4. waiting' = waiting + Change(Queues(j), Queues(j)') /\ waiting' <= MaxQueued
      BY <1>3, <1>0 DEF RetryClaim, At, Goto, SlotOfThread, Change, Queues
    <2> QED
      BY <2>1, <2>2, <2>3, <2>4, BooksStep
  <1>4. ASSUME NEW j \in Jobs, Start(j) PROVE SlotInv'
    <2>1. \A i \in Jobs : i # j => job'[i] = job[i] /\ llm'[i] = llm[i]
      BY <1>4 DEF Start, At
    <2>2. SlotOfThread(j)'
      BY <1>4, <1>0 DEF Start, At, SlotOfThread, Calls
    <2>3. free' = free - Change(job[j].slot, job'[j].slot) - Change(Owns(j), Owns(j)')
      BY <1>4, <1>0 DEF Start, At, SlotOfThread, Change, Owns
    <2>4. waiting' = waiting + Change(Queues(j), Queues(j)') /\ waiting' <= MaxQueued
      BY <1>4, <1>0 DEF Start, At, SlotOfThread, Change, Queues
    <2> QED
      BY <2>1, <2>2, <2>3, <2>4, BooksStep
  <1>5. ASSUME NEW j \in Jobs, TryAcquire(j) PROVE SlotInv'
    <2>1. \A i \in Jobs : i # j => job'[i] = job[i] /\ llm'[i] = llm[i]
      BY <1>5, <1>0, TryAcquireBranches DEF Same
    <2>2. SlotOfThread(j)'
      BY <1>5, <1>0, TryAcquireBranches DEF Same, SlotOfThread, Calls
    <2>3. free' = free - Change(job[j].slot, job'[j].slot) - Change(Owns(j), Owns(j)')
      <3>1. job[j].at = "try" /\ llm' = llm /\ llm[j] = "none" /\ ~job[j].slot
        BY <1>5, <1>0, TryAcquireBranches DEF SlotOfThread
      <3>2. \/ free' = free - 1 /\ job'[j].slot
            \/ free' = free /\ ~job'[j].slot
        BY <1>5, <1>0, <3>1, TryAcquireBranches
      <3> QED
        BY <1>0, <3>1, <3>2 DEF Change, Owns
    <2>4. waiting' = waiting + Change(Queues(j), Queues(j)') /\ waiting' <= MaxQueued
      BY <1>5, <1>0, TryAcquireBranches DEF Change, Queues
    <2> QED
      BY <2>1, <2>2, <2>3, <2>4, BooksStep
  <1>6. ASSUME NEW j \in Jobs, Admit(j) PROVE SlotInv'
    <2>1. \A i \in Jobs : i # j => job'[i] = job[i] /\ llm'[i] = llm[i]
      BY <1>6, <1>0, AdmitBranches DEF Same
    <2>2. SlotOfThread(j)'
      BY <1>6, <1>0, AdmitBranches DEF Same, SlotOfThread, Calls
    <2>3. free' = free - Change(job[j].slot, job'[j].slot) - Change(Owns(j), Owns(j)')
      BY <1>6, <1>0, AdmitBranches DEF Same, SlotOfThread, Change, Owns
    <2>4. waiting' = waiting + Change(Queues(j), Queues(j)') /\ waiting' <= MaxQueued
      BY <1>6, <1>0, AdmitBranches DEF Same, SlotOfThread, Change, Queues
    <2> QED
      BY <2>1, <2>2, <2>3, <2>4, BooksStep
  <1>7. ASSUME NEW j \in Jobs, Acquire(j) PROVE SlotInv'
    <2>1. \A i \in Jobs : i # j => job'[i] = job[i] /\ llm'[i] = llm[i]
      BY <1>7 DEF Acquire, At, Goto
    <2>2. SlotOfThread(j)'
      BY <1>7, <1>0 DEF Acquire, At, Goto, SlotOfThread, Calls
    <2>3. free' = free - Change(job[j].slot, job'[j].slot) - Change(Owns(j), Owns(j)')
      BY <1>7, <1>0 DEF Acquire, At, Goto, SlotOfThread, Change, Owns
    <2>4. waiting' = waiting + Change(Queues(j), Queues(j)') /\ waiting' <= MaxQueued
      BY <1>7, <1>0 DEF Acquire, At, Goto, SlotOfThread, Change, Queues
    <2> QED
      BY <2>1, <2>2, <2>3, <2>4, BooksStep
  <1>8. ASSUME NEW j \in Jobs, Leave(j) PROVE SlotInv'
    <2>1. \A i \in Jobs : i # j => job'[i] = job[i] /\ llm'[i] = llm[i]
      BY <1>8 DEF Leave, At, Goto
    <2>2. SlotOfThread(j)'
      BY <1>8, <1>0 DEF Leave, At, Goto, SlotOfThread, Calls
    <2>3. free' = free - Change(job[j].slot, job'[j].slot) - Change(Owns(j), Owns(j)')
      BY <1>8, <1>0 DEF Leave, At, Goto, SlotOfThread, Change, Owns
    <2>4. waiting' = waiting + Change(Queues(j), Queues(j)') /\ waiting' <= MaxQueued
      BY <1>8, <1>0 DEF Leave, At, Goto, SlotOfThread, Change, Queues
    <2> QED
      BY <2>1, <2>2, <2>3, <2>4, BooksStep
  <1>9. ASSUME NEW j \in Jobs, Refused(j) PROVE SlotInv'
    <2>1. \A i \in Jobs : i # j => job'[i] = job[i] /\ llm'[i] = llm[i]
      BY <1>9 DEF Refused, At, Ends, NoJob
    <2>2. SlotOfThread(j)'
      BY <1>9, <1>0 DEF Refused, At, Ends, NoJob, SlotOfThread, Calls
    <2>3. free' = free - Change(job[j].slot, job'[j].slot) - Change(Owns(j), Owns(j)')
      BY <1>9, <1>0 DEF Refused, At, Ends, NoJob, SlotOfThread, Change, Owns
    <2>4. waiting' = waiting + Change(Queues(j), Queues(j)') /\ waiting' <= MaxQueued
      BY <1>9, <1>0 DEF Refused, At, Ends, NoJob, SlotOfThread, Change, Queues
    <2> QED
      BY <2>1, <2>2, <2>3, <2>4, BooksStep
  <1>10. ASSUME NEW j \in Jobs, Mark(j) PROVE SlotInv'
    <2>1. \A i \in Jobs : i # j => job'[i] = job[i] /\ llm'[i] = llm[i]
      BY <1>10 DEF Mark, At
    <2>2. SlotOfThread(j)'
      BY <1>10, <1>0 DEF Mark, At, SlotOfThread, Calls
    <2>3. free' = free - Change(job[j].slot, job'[j].slot) - Change(Owns(j), Owns(j)')
      BY <1>10, <1>0 DEF Mark, At, SlotOfThread, Change, Owns
    <2>4. waiting' = waiting + Change(Queues(j), Queues(j)') /\ waiting' <= MaxQueued
      BY <1>10, <1>0 DEF Mark, At, SlotOfThread, Change, Queues
    <2> QED
      BY <2>1, <2>2, <2>3, <2>4, BooksStep
  <1>11. ASSUME NEW j \in Jobs, MarkFails(j) PROVE SlotInv'
    <2>1. \A i \in Jobs : i # j => job'[i] = job[i] /\ llm'[i] = llm[i]
      BY <1>11 DEF MarkFails, At, Goto
    <2>2. SlotOfThread(j)'
      BY <1>11, <1>0 DEF MarkFails, At, Goto, SlotOfThread, Calls
    <2>3. free' = free - Change(job[j].slot, job'[j].slot) - Change(Owns(j), Owns(j)')
      BY <1>11, <1>0 DEF MarkFails, At, Goto, SlotOfThread, Change, Owns
    <2>4. waiting' = waiting + Change(Queues(j), Queues(j)') /\ waiting' <= MaxQueued
      BY <1>11, <1>0 DEF MarkFails, At, Goto, SlotOfThread, Change, Queues
    <2> QED
      BY <2>1, <2>2, <2>3, <2>4, BooksStep
  <1>12. ASSUME NEW j \in Jobs, Collect(j) PROVE SlotInv'
    <2>1. \A i \in Jobs : i # j => job'[i] = job[i] /\ llm'[i] = llm[i]
      BY <1>12, <1>0, CollectBranches DEF Same
    <2>2. SlotOfThread(j)'
      BY <1>12, <1>0, CollectBranches DEF Same, SlotOfThread, Calls
    <2>3. free' = free - Change(job[j].slot, job'[j].slot) - Change(Owns(j), Owns(j)')
      BY <1>12, <1>0, CollectBranches DEF Same, SlotOfThread, Change, Owns
    <2>4. waiting' = waiting + Change(Queues(j), Queues(j)') /\ waiting' <= MaxQueued
      BY <1>12, <1>0, CollectBranches DEF Same, SlotOfThread, Change, Queues
    <2> QED
      BY <2>1, <2>2, <2>3, <2>4, BooksStep
  <1>13. ASSUME NEW j \in Jobs, Timeout(j) PROVE SlotInv'
    <2>1. \A i \in Jobs : i # j => job'[i] = job[i] /\ llm'[i] = llm[i]
      BY <1>13 DEF Timeout, At, Goto
    <2>2. SlotOfThread(j)'
      BY <1>13, <1>0 DEF Timeout, At, Goto, SlotOfThread, Calls
    <2>3. free' = free - Change(job[j].slot, job'[j].slot) - Change(Owns(j), Owns(j)')
      BY <1>13, <1>0 DEF Timeout, At, Goto, SlotOfThread, Change, Owns
    <2>4. waiting' = waiting + Change(Queues(j), Queues(j)') /\ waiting' <= MaxQueued
      BY <1>13, <1>0 DEF Timeout, At, Goto, SlotOfThread, Change, Queues
    <2> QED
      BY <2>1, <2>2, <2>3, <2>4, BooksStep
  <1>14. ASSUME NEW j \in Jobs, Complete(j) PROVE SlotInv'
    <2>1. \A i \in Jobs : i # j => job'[i] = job[i] /\ llm'[i] = llm[i]
      BY <1>14 DEF Complete, At, Ends, NoJob
    <2>2. SlotOfThread(j)'
      BY <1>14, <1>0 DEF Complete, At, Ends, NoJob, SlotOfThread, Calls
    <2>3. free' = free - Change(job[j].slot, job'[j].slot) - Change(Owns(j), Owns(j)')
      BY <1>14, <1>0 DEF Complete, At, Ends, NoJob, SlotOfThread, Change, Owns
    <2>4. waiting' = waiting + Change(Queues(j), Queues(j)') /\ waiting' <= MaxQueued
      BY <1>14, <1>0 DEF Complete, At, Ends, NoJob, SlotOfThread, Change, Queues
    <2> QED
      BY <2>1, <2>2, <2>3, <2>4, BooksStep
  <1>15. ASSUME NEW j \in Jobs, CompleteFails(j) PROVE SlotInv'
    <2>1. \A i \in Jobs : i # j => job'[i] = job[i] /\ llm'[i] = llm[i]
      BY <1>15 DEF CompleteFails, At, Goto
    <2>2. SlotOfThread(j)'
      BY <1>15, <1>0 DEF CompleteFails, At, Goto, SlotOfThread, Calls
    <2>3. free' = free - Change(job[j].slot, job'[j].slot) - Change(Owns(j), Owns(j)')
      BY <1>15, <1>0 DEF CompleteFails, At, Goto, SlotOfThread, Change, Owns
    <2>4. waiting' = waiting + Change(Queues(j), Queues(j)') /\ waiting' <= MaxQueued
      BY <1>15, <1>0 DEF CompleteFails, At, Goto, SlotOfThread, Change, Queues
    <2> QED
      BY <2>1, <2>2, <2>3, <2>4, BooksStep
  <1>16. ASSUME NEW j \in Jobs, Fail(j) PROVE SlotInv'
    <2>1. \A i \in Jobs : i # j => job'[i] = job[i] /\ llm'[i] = llm[i]
      BY <1>16 DEF Fail, At, Ends, NoJob
    <2>2. SlotOfThread(j)'
      BY <1>16, <1>0 DEF Fail, At, Ends, NoJob, SlotOfThread, Calls
    <2>3. free' = free - Change(job[j].slot, job'[j].slot) - Change(Owns(j), Owns(j)')
      BY <1>16, <1>0, ReleaseOfOwn DEF Fail, At, Ends, NoJob, SlotOfThread, Change, Owns
    <2>4. waiting' = waiting + Change(Queues(j), Queues(j)') /\ waiting' <= MaxQueued
      BY <1>16, <1>0 DEF Fail, At, Ends, NoJob, SlotOfThread, Change, Queues
    <2> QED
      BY <2>1, <2>2, <2>3, <2>4, BooksStep
  <1>17. ASSUME NEW j \in Jobs, GivesSlotBack(j) PROVE SlotInv'
    <2>1. \A i \in Jobs : i # j => job'[i] = job[i] /\ llm'[i] = llm[i]
      BY <1>17 DEF GivesSlotBack
    <2>2. SlotOfThread(j)'
      BY <1>17, <1>0 DEF GivesSlotBack, SlotOfThread, Calls
    <2>3. free' = free - Change(job[j].slot, job'[j].slot) - Change(Owns(j), Owns(j)')
      BY <1>17, <1>0, ReleaseOfOwn DEF GivesSlotBack, SlotOfThread, Change, Owns
    <2>4. waiting' = waiting + Change(Queues(j), Queues(j)') /\ waiting' <= MaxQueued
      BY <1>17, <1>0 DEF GivesSlotBack, SlotOfThread, Change, Queues
    <2> QED
      BY <2>1, <2>2, <2>3, <2>4, BooksStep
  <1>18. ASSUME NEW j \in Jobs, NEW outcome \in {"value", "error"}, Answers(j, outcome) PROVE SlotInv'
    <2>1. \A i \in Jobs : i # j => job'[i] = job[i] /\ llm'[i] = llm[i]
      BY <1>18 DEF Answers
    <2>2. SlotOfThread(j)'
      BY <1>18, <1>0 DEF Answers, SlotOfThread, Calls
    <2>3. free' = free - Change(job[j].slot, job'[j].slot) - Change(Owns(j), Owns(j)')
      BY <1>18, <1>0 DEF Answers, SlotOfThread, Change, Owns
    <2>4. waiting' = waiting + Change(Queues(j), Queues(j)') /\ waiting' <= MaxQueued
      BY <1>18, <1>0 DEF Answers, SlotOfThread, Change, Queues
    <2> QED
      BY <2>1, <2>2, <2>3, <2>4, BooksStep
  <1>24. ASSUME NEW j \in Jobs, RetryStart(j) PROVE SlotInv'
    <2>1. \A i \in Jobs : i # j => job'[i] = job[i] /\ llm'[i] = llm[i]
      BY <1>24 DEF RetryStart, At, Goto
    <2>2. SlotOfThread(j)'
      BY <1>24, <1>0 DEF RetryStart, At, Goto, SlotOfThread, Calls
    <2>3. free' = free - Change(job[j].slot, job'[j].slot) - Change(Owns(j), Owns(j)')
      BY <1>24, <1>0 DEF RetryStart, At, Goto, SlotOfThread, Change, Owns
    <2>4. waiting' = waiting + Change(Queues(j), Queues(j)') /\ waiting' <= MaxQueued
      BY <1>24, <1>0 DEF RetryStart, At, Goto, SlotOfThread, Change, Queues
    <2> QED
      BY <2>1, <2>2, <2>3, <2>4, BooksStep
  <1>25. ASSUME NEW j \in Jobs, RetryClaimFails(j) PROVE SlotInv'
    <2>1. \A i \in Jobs : i # j => job'[i] = job[i] /\ llm'[i] = llm[i]
      BY <1>25 DEF RetryClaimFails, At, Ends, NoJob
    <2>2. SlotOfThread(j)'
      BY <1>25, <1>0 DEF RetryClaimFails, At, Ends, NoJob, SlotOfThread, Calls
    <2>3. free' = free - Change(job[j].slot, job'[j].slot) - Change(Owns(j), Owns(j)')
      BY <1>25, <1>0 DEF RetryClaimFails, At, Ends, NoJob, SlotOfThread, Change, Owns
    <2>4. waiting' = waiting + Change(Queues(j), Queues(j)') /\ waiting' <= MaxQueued
      BY <1>25, <1>0 DEF RetryClaimFails, At, Ends, NoJob, SlotOfThread, Change, Queues
    <2> QED
      BY <2>1, <2>2, <2>3, <2>4, BooksStep
  <1>26. ASSUME NEW j \in Jobs, RetryStartFails(j) PROVE SlotInv'
    <2>1. \A i \in Jobs : i # j => job'[i] = job[i] /\ llm'[i] = llm[i]
      BY <1>26 DEF RetryStartFails, At, Ends, NoJob
    <2>2. SlotOfThread(j)'
      BY <1>26, <1>0 DEF RetryStartFails, At, Ends, NoJob, SlotOfThread, Calls
    <2>3. free' = free - Change(job[j].slot, job'[j].slot) - Change(Owns(j), Owns(j)')
      BY <1>26, <1>0 DEF RetryStartFails, At, Ends, NoJob, SlotOfThread, Change, Owns
    <2>4. waiting' = waiting + Change(Queues(j), Queues(j)') /\ waiting' <= MaxQueued
      BY <1>26, <1>0 DEF RetryStartFails, At, Ends, NoJob, SlotOfThread, Change, Queues
    <2> QED
      BY <2>1, <2>2, <2>3, <2>4, BooksStep
  <1>27. ASSUME NEW j \in Jobs, RefusedFails(j) PROVE SlotInv'
    <2>1. \A i \in Jobs : i # j => job'[i] = job[i] /\ llm'[i] = llm[i]
      BY <1>27 DEF RefusedFails, At, Goto
    <2>2. SlotOfThread(j)'
      BY <1>27, <1>0 DEF RefusedFails, At, Goto, SlotOfThread, Calls
    <2>3. free' = free - Change(job[j].slot, job'[j].slot) - Change(Owns(j), Owns(j)')
      BY <1>27, <1>0 DEF RefusedFails, At, Goto, SlotOfThread, Change, Owns
    <2>4. waiting' = waiting + Change(Queues(j), Queues(j)') /\ waiting' <= MaxQueued
      BY <1>27, <1>0 DEF RefusedFails, At, Goto, SlotOfThread, Change, Queues
    <2> QED
      BY <2>1, <2>2, <2>3, <2>4, BooksStep
  <1>28. ASSUME NEW j \in Jobs, FailFails(j) PROVE SlotInv'
    <2>1. \A i \in Jobs : i # j => job'[i] = job[i] /\ llm'[i] = llm[i]
      BY <1>28 DEF FailFails, At, Ends, NoJob
    <2>2. SlotOfThread(j)'
      BY <1>28, <1>0 DEF FailFails, At, Ends, NoJob, SlotOfThread, Calls
    <2>3. free' = free - Change(job[j].slot, job'[j].slot) - Change(Owns(j), Owns(j)')
      BY <1>28, <1>0, ReleaseOfOwn DEF FailFails, At, Ends, NoJob, SlotOfThread, Change, Owns
    <2>4. waiting' = waiting + Change(Queues(j), Queues(j)') /\ waiting' <= MaxQueued
      BY <1>28, <1>0 DEF FailFails, At, Ends, NoJob, SlotOfThread, Change, Queues
    <2> QED
      BY <2>1, <2>2, <2>3, <2>4, BooksStep
  <1>19. ASSUME UNCHANGED <<job, llm, free, waiting>> PROVE SlotInv'
    <2>1. Holding' = Holding /\ Owning' = Owning /\ InQueue' = InQueue
      BY <1>19 DEF Holding, Owning, InQueue
    <2> QED
      BY <1>19, <2>1 DEF SlotInv, SlotsOfThreads, SlotOfThread, Counted
  <1>20. ASSUME NEW d \in Docs, NEW j \in Jobs, EndReplace(d, j) PROVE SlotInv'
    <2>1. CASE UNCHANGED <<job, llm>>
      BY <1>19, <1>20, <2>1 DEF EndReplace
    <2>2. CASE Starts(j, [NoJob EXCEPT !.at = "start", !.doc = d, !.gen = doc[d].gen + 1])
      <3>1. free' = free /\ waiting' = waiting
        BY <1>20 DEF EndReplace
      <3>2. \A i \in Jobs : i # j => job'[i] = job[i] /\ llm'[i] = llm[i]
        BY <2>2 DEF Starts
      <3>3. SlotOfThread(j)'
        BY <1>0, <2>2 DEF Starts, SlotOfThread, NoJob
      <3>4. /\ free' = free - Change(job[j].slot, job'[j].slot) - Change(Owns(j), Owns(j)')
            /\ waiting' = waiting + Change(Queues(j), Queues(j)')
        BY <1>0, <2>2, <3>1 DEF Starts, Unused, SlotOfThread, NoJob, Change, Owns, Queues
      <3> QED
        BY <1>0, <3>1, <3>2, <3>3, <3>4, BooksStep
    <2> QED
      BY <1>20, <2>1, <2>2 DEF EndReplace
  <1>21. CASE Crash
    <2>1. Holding' = {} /\ Owning' = {} /\ InQueue' = {}
      BY <1>21 DEF Crash, NoJob, Holding, Owning, InQueue
    <2>2. SlotsOfThreads'
      BY <1>21 DEF Crash, NoJob, SlotsOfThreads, SlotOfThread
    <2>3. Counted'
      <3>1. Cardinality({}) = 0
        BY FS_EmptySet
      <3>2. free' = MaxConcurrent /\ waiting' = 0
        BY <1>21 DEF Crash
      <3> QED
        BY <1>0, <2>1, <3>1, <3>2 DEF Counted
    <2> QED
      BY <2>2, <2>3 DEF SlotInv
  <1>22. ASSUME NEW d \in Docs, BeginReplace(d) \/ ResetManifest(d) PROVE SlotInv'
    BY <1>19, <1>22 DEF BeginReplace, ResetManifest
  <1>23. CASE Sweep \/ ResetRow \/ Serve \/ UNCHANGED vars
    BY <1>19, <1>23 DEF Sweep, ResetRow, Serve, vars
  <1> QED
    BY <1>1, <1>2, <1>3, <1>4, <1>5, <1>6, <1>7, <1>8, <1>9, <1>10, <1>11, <1>12, <1>13, <1>14,
       <1>15, <1>16, <1>17, <1>18, <1>20, <1>21, <1>22, <1>23, <1>24, <1>25, <1>26, <1>27, <1>28
    DEF Next, Thread, Retry

(* A semaphore slot is never lost and never given back twice, and the queue   *)
(* is what its counter says and no longer than its bound: whatever the number *)
(* of threads, and however timeouts, failures, late answers and crashes fall. *)
THEOREM SlotsAndQueueHolds == SummariesAssumption => (Spec => []SlotsAndQueue)
  <1> SUFFICES ASSUME SummariesAssumption PROVE Spec => []SlotsAndQueue
    OBVIOUS
  <1>1. Init => SlotInv
    BY InitSlots
  <1>2. SlotInv /\ [Next]_vars => SlotInv'
    BY SlotInvStep
  <1>3. SlotInv => SlotsAndQueue
    BY DEF SlotInv, Counted, SlotsAndQueue, Holding, Owning, InQueue
  <1> QED
    BY <1>1, <1>2, <1>3, PTL DEF Spec

-----------------------------------------------------------------------------
(* Why a running summary has a thread that will still write its status.       *)

(* A thread between its claim and its last write, of the parse d is.          *)
WorksFor(j, d) == job[j].doc = d /\ job[j].gen = doc[d].gen /\ job[j].at \notin {"idle", "claim"}

(* While the process serves, also during a replacement.                       *)
Live == Serving => \A d \in Docs \ Captures :
    doc[d].status = "running" /\ ~doc[d].dropped => \E j \in Jobs : WorksFor(j, d)

(* A retry that has loaded its document holds its lock until it has written   *)
(* the claim and started its thread: nobody replaces it, and nobody else      *)
(* claims it.                                                                 *)
Retrying(j) == job[j].at \in {"claim", "spawn"}
Claims == \A j \in Jobs : Retrying(j) =>
    /\ doc[job[j].doc].lock = "retrying" /\ doc[job[j].doc].gen > 0
    /\ job[j].gen = doc[job[j].doc].gen
    /\ \A i \in Jobs : Retrying(i) /\ job[i].doc = job[j].doc => i = j

(* The rows say of every summary in flight that it is: the start finds it. Of *)
(* a capture they may say that it is done.                                    *)
Rows == \A d \in Docs : doc[d].status \in InFlight(d) =>
    doc[d].row = doc[d].status \/ (d \in Captures /\ doc[d].row = "completed")

(* What the start has yet to reset is in its list.                            *)
Swept == \A d \in Docs :
    /\ proc.at \in {"sweep", "row"} /\ {doc[d].status, doc[d].row} \subseteq InFlight(d) =>
         d \in proc.todo
    /\ proc.at = "row" /\ d = proc.doc => doc[d].status \notin InFlight(d)

(* No thread works for a capture, and a start settles it.                     *)
CapturesApart ==
    /\ \A j \in Jobs : job[j].at # "idle" => job[j].doc \notin Captures
    /\ \A d \in Captures : doc[d].status \in {"pending", "running", "failed"} /\ doc[d].lock = "free"
    /\ Serving /\ proc.crashes > 0 =>
         \A d \in Captures : doc[d].status \in InFlight(d) => doc[d].row = "completed"

LiveInv == TypeOK /\ Live /\ Claims /\ Rows /\ Swept /\ CapturesApart

LEMMA InitLive == ASSUME SummariesAssumption, Init PROVE LiveInv
  <1>1. TypeOK
    BY InitSlots DEF SlotInv
  <1>2. Live /\ Claims
    BY DEF Init, Live, Claims, Retrying, NoJob, Stored
  <1>3. Rows /\ Swept /\ CapturesApart
    BY DEF Init, Rows, Swept, CapturesApart, NoJob, Stored, SummariesAssumption, InFlight
  <1> QED
    BY <1>1, <1>2, <1>3 DEF LiveInv

(* A thread that works moves on, for the same parse, and writes nothing.      *)
Moves(j) ==
    /\ Serving /\ job[j].at \notin {"idle", "claim"} /\ ~Retrying(j)'
    /\ job'[j].at \notin {"idle", "claim"} /\ job'[j].doc = job[j].doc /\ job'[j].gen = job[j].gen
    /\ \A i \in Jobs : i # j => job'[i] = job[i]
    /\ doc' = doc /\ proc'.at = proc.at /\ proc'.crashes = proc.crashes

LEMMA MovesLive ==
  ASSUME LiveInv, TypeOK', NEW j \in Jobs, Moves(j)
  PROVE  LiveInv'
  <1> USE DEF LiveInv, Moves
  <1>1. Live'
    BY DEF Live, WorksFor, Serving
  <1>2. Claims'
    BY DEF Claims, Retrying
  <1>3. Rows' /\ Swept'
    BY DEF Rows, Swept, InFlight, Serving
  <1>4. CapturesApart'
    BY DEF CapturesApart, Serving
  <1> QED
    BY <1>1, <1>2, <1>3, <1>4

(* The end of a thread, or of a retry without one: the status is one that is  *)
(* not running, or the document is given up, or there was nothing to say.     *)
Settles(j) == LET c == job[j].doc IN
    /\ Serving /\ job[j].at # "idle" /\ Ends(j)
    /\ proc'.at = proc.at /\ proc'.crashes = proc.crashes
    /\ \A d \in Docs : d # c => doc'[d] = doc[d]
    /\ doc'[c].gen = doc[c].gen /\ (doc'[c].lock = doc[c].lock \/ Retrying(j))
    /\ \/ /\ doc'[c].status = doc[c].status /\ doc'[c].row = doc[c].row
          /\ \/ doc'[c].dropped
             \/ /\ doc'[c].dropped = doc[c].dropped
                /\ job[j].at = "claim" \/ doc[c].gen # job[j].gen
       \/ doc'[c].status # "running" /\ doc'[c].row = doc'[c].status

LEMMA SettlesLive ==
  ASSUME SummariesAssumption, LiveInv, TypeOK', NEW j \in Jobs, Settles(j)
  PROVE  LiveInv'
  <1> DEFINE c == job[j].doc
  <1>0. /\ TypeOK /\ Live /\ Claims /\ Rows /\ Swept /\ CapturesApart
        /\ Serving /\ proc'.at = proc.at /\ proc'.crashes = proc.crashes
        /\ c \in Docs \ Captures
        /\ job' = [job EXCEPT ![j] = NoJob] /\ NoJob.at = "idle"
        /\ job \in [Jobs -> JobType] /\ doc \in [Docs -> DocType] /\ doc' \in [Docs -> DocType]
        /\ \A i \in Jobs : job[i].doc \in Docs
        /\ Captures \subseteq Docs
    BY DEF SummariesAssumption, LiveInv, Settles, CapturesApart, TypeOK, JobType, Ends, NoJob
  <1>1. \A i \in Jobs : i # j => job'[i] = job[i]
    BY <1>0
  <1>2. Live'
    <2> SUFFICES ASSUME NEW d \in Docs \ Captures, doc'[d].status = "running", ~doc'[d].dropped
                 PROVE  \E i \in Jobs : WorksFor(i, d)'
      BY DEF Live
    <2>1. /\ doc[d].status = "running" /\ ~doc[d].dropped /\ doc'[d].gen = doc[d].gen
          /\ ~WorksFor(j, d)
      <3>1. CASE d = c
        BY <3>1 DEF Settles, WorksFor
      <3>2. CASE d # c
        BY <3>2 DEF Settles, WorksFor
      <3> QED
        BY <3>1, <3>2
    <2>2. PICK i \in Jobs : WorksFor(i, d)
      BY <1>0, <2>1 DEF Live
    <2> QED
      BY <1>1, <2>1, <2>2 DEF WorksFor
  <1>3. Claims'
    <2> SUFFICES ASSUME NEW i \in Jobs, Retrying(i)'
                 PROVE  /\ i # j /\ job'[i] = job[i] /\ Retrying(i)
                        /\ doc'[job[i].doc].lock = doc[job[i].doc].lock
                        /\ doc'[job[i].doc].gen = doc[job[i].doc].gen
      BY <1>0, <1>1 DEF Claims, Retrying
    <2>1. i # j /\ job'[i] = job[i] /\ Retrying(i)
      BY <1>0, <1>1 DEF Retrying
    <2>2. Retrying(j) => job[i].doc # c
      BY <1>0, <2>1 DEF Claims
    <2> QED
      BY <1>0, <2>1, <2>2 DEF Settles
  <1>4. Rows'
    BY <1>0 DEF Settles, Rows, InFlight
  <1>5. Swept'
    BY <1>0 DEF Swept, Serving
  <1>6. CapturesApart'
    <2>1. \A d \in Captures : doc'[d] = doc[d]
      BY <1>0 DEF Settles
    <2> QED
      BY <1>0, <1>1, <2>1 DEF CapturesApart, Serving, InFlight
  <1> QED
    BY <1>2, <1>3, <1>4, <1>5, <1>6 DEF LiveInv

(* What a thread writes at its end settles its document.                      *)
LEMMA WritesSettle ==
  ASSUME SummariesAssumption, LiveInv, NEW j \in Jobs, Serving, job[j].at \notin {"idle", "claim"},
         Ends(j), Faults \/ UNCHANGED proc,
         NEW status \in Statuses \ {"running"}, NEW tries \in Int,
         Drops(j) \/ Writes(j, status, tries)
  PROVE  Settles(j)
  <1> DEFINE c == job[j].doc
  <1>1. c \in Docs /\ doc[c] \in DocType /\ doc \in [Docs -> DocType] /\ TypeOK
    BY DEF LiveInv, TypeOK, JobType
  <1>2. proc'.at = proc.at /\ proc'.crashes = proc.crashes
    BY <1>1, FaultsType
  <1>3. CASE doc' = doc /\ doc[c].gen # job[j].gen
    BY <1>2, <1>3 DEF Settles
  <1>4. CASE doc' = [doc EXCEPT ![c].dropped = TRUE]
    BY <1>1, <1>2, <1>4 DEF Settles, DocType
  <1>5. CASE doc' = [doc EXCEPT ![c] = [@ EXCEPT !.status = status, !.row = status,
                                                !.tries = tries, !.dropped = FALSE]]
    <2>1. /\ \A d \in Docs : d # c => doc'[d] = doc[d]
          /\ doc'[c] = [doc[c] EXCEPT !.status = status, !.row = status, !.tries = tries,
                                     !.dropped = FALSE]
      BY <1>1, <1>5
    <2>2. /\ doc'[c].gen = doc[c].gen /\ doc'[c].lock = doc[c].lock
          /\ doc'[c].status = status /\ doc'[c].row = status
      BY <1>1, <2>1 DEF DocType
    <2> QED
      BY <1>2, <2>1, <2>2 DEF Settles
  <1> QED
    BY <1>3, <1>4, <1>5 DEF Drops, Writes, Current, DocOf

(* The thread says that its summary is running.                               *)
Runs(j) ==
    /\ Serving /\ proc'.at = proc.at /\ proc'.crashes = proc.crashes
    /\ Retrying(j)' => Retrying(j)
    /\ job'[j].at \notin {"idle", "claim"} /\ job'[j].doc = job[j].doc /\ job'[j].gen = job[j].gen
    /\ \A i \in Jobs : i # j => job'[i] = job[i]
    /\ job[j].doc \notin Captures
    /\ \A d \in Docs : d # job[j].doc => doc'[d] = doc[d]
    /\ \/ doc' = doc /\ job[j].at \notin {"claim", "idle"}
       \/ LET d == job[j].doc IN
          /\ doc[d].gen = job[j].gen /\ doc'[d].gen = doc[d].gen
          /\ doc'[d].status = "running" /\ doc'[d].row = "running"
          /\ doc'[d].lock = doc[d].lock

LEMMA RunsLive ==
  ASSUME SummariesAssumption, LiveInv, TypeOK', NEW j \in Jobs, Runs(j)
  PROVE  LiveInv'
  <1> DEFINE c == job[j].doc
  <1>0. /\ TypeOK /\ Live /\ Claims /\ Rows /\ Swept /\ CapturesApart /\ c \in Docs
        /\ Captures \subseteq Docs
    BY DEF SummariesAssumption, LiveInv, TypeOK, JobType
  <1>1. Live'
    <2> SUFFICES ASSUME NEW d \in Docs \ Captures, doc'[d].status = "running", ~doc'[d].dropped
                 PROVE  \E i \in Jobs : WorksFor(i, d)'
      BY DEF Live
    <2>1. CASE doc'[d] = doc[d]
      <3>1. PICK i \in Jobs : WorksFor(i, d)
        BY <1>0, <2>1 DEF Live, Runs
      <3> QED
        BY <2>1, <3>1 DEF WorksFor, Runs
    <2>2. CASE doc'[d] # doc[d]
      BY <2>2 DEF WorksFor, Runs
    <2> QED
      BY <2>1, <2>2
  <1>2. Claims'
    <2> SUFFICES ASSUME NEW i \in Jobs, Retrying(i)'
                 PROVE  /\ Retrying(i) /\ job'[i].doc = job[i].doc /\ job'[i].gen = job[i].gen
                        /\ doc'[job[i].doc].lock = doc[job[i].doc].lock
                        /\ doc'[job[i].doc].gen = doc[job[i].doc].gen
      BY <1>0 DEF Claims, Runs
    <2>1. Retrying(i) /\ job'[i].doc = job[i].doc /\ job'[i].gen = job[i].gen
      BY DEF Runs, Retrying
    <2>2. job[i].doc \in Docs
      BY <1>0 DEF TypeOK, JobType
    <2> QED
      BY <1>0, <2>1, <2>2 DEF Runs
  <1>3. Rows'
    BY <1>0 DEF Rows, Runs, InFlight
  <1>4. Swept'
    BY <1>0 DEF Swept, Runs, Serving
  <1>5. CapturesApart'
    BY <1>0 DEF CapturesApart, Runs, Serving
  <1> QED
    BY <1>1, <1>2, <1>3, <1>4, <1>5 DEF LiveInv

LEMMA LiveInvStep ==
  ASSUME SummariesAssumption, LiveInv, [Next]_vars
  PROVE  LiveInv'
  <1> TypeOK'
    BY TypeStep DEF LiveInv
  <1>0. /\ TypeOK /\ Live /\ Claims /\ Rows /\ Swept /\ CapturesApart
        /\ doc \in [Docs -> DocType] /\ job \in [Jobs -> JobType] /\ proc \in ProcType
        /\ \A j \in Jobs : job[j].doc \in Docs /\ job[j].tries \in Int
        /\ NoJob.at = "idle"
        /\ Captures \subseteq Docs
    BY DEF SummariesAssumption, LiveInv, TypeOK, JobType, NoJob
  <1>1. ASSUME NEW j \in Jobs, Start(j) PROVE LiveInv'
    <2>1. Moves(j)
      BY <1>1, <1>0 DEF Start, Moves, Retrying, At, Serving
    <2> QED
      BY <2>1, MovesLive
  <1>2. ASSUME NEW j \in Jobs, TryAcquire(j) PROVE LiveInv'
    <2>1. Moves(j)
      BY <1>2, <1>0, TryAcquireBranches DEF Same, Moves, Retrying, Serving
    <2> QED
      BY <2>1, MovesLive
  <1>3. ASSUME NEW j \in Jobs, Admit(j) PROVE LiveInv'
    <2>1. Moves(j)
      BY <1>3, <1>0, AdmitBranches DEF Same, Moves, Retrying, Serving
    <2> QED
      BY <2>1, MovesLive
  <1>4. ASSUME NEW j \in Jobs, Acquire(j) PROVE LiveInv'
    <2>1. Moves(j)
      BY <1>4, <1>0 DEF Acquire, Moves, Retrying, At, Goto, Serving
    <2> QED
      BY <2>1, MovesLive
  <1>5. ASSUME NEW j \in Jobs, Leave(j) PROVE LiveInv'
    <2>1. Moves(j)
      BY <1>5, <1>0 DEF Leave, Moves, Retrying, At, Goto, Serving
    <2> QED
      BY <2>1, MovesLive
  <1>6. ASSUME NEW j \in Jobs, MarkFails(j) PROVE LiveInv'
    <2>1. /\ Serving /\ proc'.at = proc.at /\ proc'.crashes = proc.crashes
          /\ job[j].at = "mark" /\ job[j].doc \in Docs \ Captures
          /\ job'[j].at = "fail" /\ job'[j].doc = job[j].doc /\ job'[j].gen = job[j].gen
          /\ \A i \in Jobs : i # j => job'[i] = job[i]
      BY <1>0, <1>6, FaultsType DEF MarkFails, At, Goto, CapturesApart
    <2>2. CASE doc' = doc
      <3>1. Moves(j)
        BY <2>1, <2>2 DEF Moves, Retrying
      <3> QED
        BY <3>1, MovesLive
    <2>3. CASE doc' # doc
      <3>1. /\ Current(j)
            /\ doc' = [doc EXCEPT ![job[j].doc] =
                 [@ EXCEPT !.status = "running", !.row = "running", !.tries = job[j].tries,
                           !.dropped = FALSE]]
        BY <1>6, <2>3 DEF MarkFails, Writes
      <3>2. /\ \A d \in Docs : d # job[j].doc => doc'[d] = doc[d]
            /\ doc[job[j].doc] \in DocType /\ doc[job[j].doc].gen = job[j].gen
            /\ doc'[job[j].doc] = [doc[job[j].doc] EXCEPT !.status = "running", !.row = "running",
                                        !.tries = job[j].tries, !.dropped = FALSE]
        BY <1>0, <2>1, <3>1 DEF Current, DocOf
      <3>3. Runs(j)
        BY <2>1, <3>2 DEF Runs, DocType, Retrying
      <3> QED
        BY <3>3, RunsLive
    <2> QED
      BY <2>2, <2>3
  <1>7. ASSUME NEW j \in Jobs, Collect(j) PROVE LiveInv'
    <2>1. Moves(j)
      BY <1>7, <1>0, CollectBranches DEF Same, Moves, Retrying, Serving
    <2> QED
      BY <2>1, MovesLive
  <1>8. ASSUME NEW j \in Jobs, Timeout(j) PROVE LiveInv'
    <2>1. Moves(j)
      BY <1>8, <1>0 DEF Timeout, Moves, Retrying, At, Goto, Serving
    <2> QED
      BY <2>1, MovesLive
  <1>9. ASSUME NEW j \in Jobs, CompleteFails(j) PROVE LiveInv'
    <2>1. Moves(j)
      BY <1>9, <1>0 DEF CompleteFails, Moves, Retrying, At, Goto, Serving, Faults
    <2> QED
      BY <2>1, MovesLive
  <1>10. ASSUME NEW j \in Jobs, Refused(j) PROVE LiveInv'
    <2>1. Settles(j)
      <3>1. job[j].tries \in Int /\ job[j].tries - 1 \in Int
        BY <1>0
      <3>2. "not_queued" \in Statuses \ {"running"}
        BY DEF Statuses
      <3> QED
        BY <1>0, <1>10, <3>1, <3>2, WritesSettle DEF Refused, At
    <2> QED
      BY <2>1, SettlesLive
  <1>11. ASSUME NEW j \in Jobs, Complete(j) PROVE LiveInv'
    <2>1. Settles(j)
      <3>1. job[j].tries \in Int /\ job[j].tries - 1 \in Int
        BY <1>0
      <3>2. "completed" \in Statuses \ {"running"}
        BY DEF Statuses
      <3> QED
        BY <1>0, <1>11, <3>1, <3>2, WritesSettle DEF Complete, At
    <2> QED
      BY <2>1, SettlesLive
  <1>12. ASSUME NEW j \in Jobs, Fail(j) PROVE LiveInv'
    <2>1. Settles(j)
      <3>1. job[j].tries \in Int /\ job[j].tries - 1 \in Int
        BY <1>0
      <3>2. "failed" \in Statuses \ {"running"}
        BY DEF Statuses
      <3> QED
        BY <1>0, <1>12, <3>1, <3>2, WritesSettle DEF Fail, At
    <2> QED
      BY <2>1, SettlesLive
  <1>13. ASSUME NEW j \in Jobs, Mark(j) PROVE LiveInv'
    <2>1. Runs(j)
      <3>1. /\ Serving /\ proc' = proc /\ job[j].at = "mark" /\ job[j].doc \in Docs \ Captures
            /\ job'[j].at = "wait" /\ job'[j].doc = job[j].doc /\ job'[j].gen = job[j].gen
            /\ \A i \in Jobs : i # j => job'[i] = job[i]
        BY <1>0, <1>13 DEF Mark, At, CapturesApart
      <3>2. \/ doc' = doc
            \/ /\ Current(j)
               /\ doc' = [doc EXCEPT ![job[j].doc] =
                   [@ EXCEPT !.status = "running", !.row = "running", !.tries = job[j].tries,
                             !.dropped = FALSE]]
        BY <1>13 DEF Mark, Writes
      <3>3. CASE doc' = doc
        BY <3>1, <3>3 DEF Runs, Retrying
      <3>4. CASE doc' # doc
        <4>1. /\ \A d \in Docs : d # job[j].doc => doc'[d] = doc[d]
              /\ doc[job[j].doc] \in DocType /\ doc[job[j].doc].gen = job[j].gen
              /\ doc'[job[j].doc] = [doc[job[j].doc] EXCEPT !.status = "running", !.row = "running",
                                          !.tries = job[j].tries, !.dropped = FALSE]
          BY <1>0, <3>1, <3>2, <3>4 DEF Current, DocOf
        <4> QED
          BY <3>1, <4>1 DEF Runs, DocType, Retrying
      <3> QED
        BY <3>3, <3>4
    <2> QED
      BY <2>1, RunsLive
  <1>14. ASSUME NEW j \in Jobs, RetryClaim(j) PROVE LiveInv'
    <2>1. Runs(j)
      <3>1. /\ Serving /\ proc' = proc /\ job[j].at = "claim" /\ job[j].doc \in Docs \ Captures
            /\ doc[job[j].doc].gen = job[j].gen
            /\ job'[j].at = "spawn" /\ job'[j].doc = job[j].doc /\ job'[j].gen = job[j].gen
            /\ \A i \in Jobs : i # j => job'[i] = job[i]
        BY <1>0, <1>14 DEF RetryClaim, At, Goto, Claims, Retrying, CapturesApart
      <3>2. doc' = [doc EXCEPT ![job[j].doc] =
                      [@ EXCEPT !.status = "running", !.row = "running", !.tries = job[j].tries,
                                !.dropped = FALSE]]
        BY <1>14 DEF RetryClaim
      <3> QED
        BY <1>0, <3>1, <3>2 DEF Runs, Retrying, DocType
    <2> QED
      BY <2>1, RunsLive
  <1>29. ASSUME NEW j \in Jobs, RetryStart(j) PROVE LiveInv'
    <2>1. /\ Serving /\ proc' = proc /\ job[j].at = "spawn" /\ job[j].doc \in Docs \ Captures
          /\ job'[j].at = "start" /\ job'[j].doc = job[j].doc /\ job'[j].gen = job[j].gen
          /\ \A i \in Jobs : i # j => job'[i] = job[i]
      BY <1>0, <1>29 DEF RetryStart, At, Goto, CapturesApart
    <2>2. \A d \in Docs : /\ doc'[d].status = doc[d].status /\ doc'[d].row = doc[d].row
                          /\ doc'[d].gen = doc[d].gen /\ doc'[d].dropped = doc[d].dropped
                          /\ d # job[j].doc => doc'[d] = doc[d]
      BY <1>0, <1>29 DEF RetryStart, DocType
    <2>3. Live'
      <3> SUFFICES ASSUME NEW d \in Docs \ Captures, doc'[d].status = "running", ~doc'[d].dropped
                   PROVE  \E i \in Jobs : WorksFor(i, d)'
        BY DEF Live
      <3>1. doc[d].status = "running" /\ ~doc[d].dropped /\ doc'[d].gen = doc[d].gen
        BY <2>2
      <3>2. PICK i \in Jobs : WorksFor(i, d)
        BY <1>0, <2>1, <3>1 DEF Live
      <3>3. WorksFor(i, d)'
        BY <2>1, <3>1, <3>2 DEF WorksFor
      <3> QED
        BY <3>3
    <2>4. Claims'
      <3>1. ASSUME NEW i \in Jobs, Retrying(i)'
            PROVE  i # j /\ Retrying(i) /\ job'[i] = job[i] /\ doc'[job[i].doc] = doc[job[i].doc]
        <4>1. i # j /\ job'[i] = job[i] /\ Retrying(i) /\ Retrying(j)
          BY <2>1, <3>1 DEF Retrying
        <4>2. job[i].doc # job[j].doc /\ job[i].doc \in Docs
          BY <1>0, <4>1 DEF Claims
        <4>3. doc'[job[i].doc] = doc[job[i].doc]
          BY <2>2, <4>2
        <4> QED
          BY <4>1, <4>3
      <3> QED
        BY <1>0, <3>1 DEF Claims
    <2>5. Rows'
      BY <1>0, <2>1, <2>2 DEF Rows, InFlight
    <2>6. Swept'
      BY <1>0, <2>1, <2>2 DEF Swept, Serving
    <2>7. CapturesApart'
      <3>1. \A d \in Captures : doc'[d] = doc[d]
        BY <1>0, <2>1, <2>2
      <3>2. \A i \in Jobs : job'[i].at # "idle" => job'[i].doc \notin Captures
        BY <1>0, <2>1 DEF CapturesApart
      <3> QED
        BY <1>0, <2>1, <3>1, <3>2 DEF CapturesApart, InFlight, Serving
    <2> QED
      BY <2>3, <2>4, <2>5, <2>6, <2>7 DEF LiveInv
  <1>30. ASSUME NEW j \in Jobs, RetryClaimFails(j) \/ RetryStartFails(j) PROVE LiveInv'
    <2> DEFINE c == job[j].doc
    <2>1. /\ Serving /\ Ends(j) /\ proc'.at = proc.at /\ proc'.crashes = proc.crashes
          /\ Retrying(j) /\ job[j].at # "idle"
      BY <1>30, FaultsType, <1>0 DEF RetryClaimFails, RetryStartFails, At, Retrying
    <2>2. c \in Docs /\ doc[c] \in DocType
      BY <1>0
    <2>4. \/ doc' = [doc EXCEPT ![c].lock = "free"] /\ job[j].at = "claim"
          \/ doc' = [doc EXCEPT ![c] = [@ EXCEPT !.lock = "free", !.dropped = TRUE]]
      BY <1>30 DEF RetryClaimFails, RetryStartFails, At
    <2>3. Settles(j)
      <3>1. CASE doc' = [doc EXCEPT ![c].lock = "free"] /\ job[j].at = "claim"
        BY <1>0, <2>1, <2>2, <3>1 DEF Settles, DocType
      <3>2. CASE doc' = [doc EXCEPT ![c] = [@ EXCEPT !.lock = "free", !.dropped = TRUE]]
        BY <1>0, <2>1, <2>2, <3>2 DEF Settles, DocType
      <3> QED
        BY <2>4, <3>1, <3>2
    <2> QED
      BY <2>3, SettlesLive
  <1>31. ASSUME NEW j \in Jobs, RefusedFails(j) PROVE LiveInv'
    <2>1. Moves(j)
      BY <1>31, <1>0 DEF RefusedFails, Moves, Retrying, At, Goto, Serving, Faults
    <2> QED
      BY <2>1, MovesLive
  <1>32. ASSUME NEW j \in Jobs, FailFails(j) PROVE LiveInv'
    <2>1. Settles(j)
      <3>1. "failed" \in Statuses \ {"running"} /\ 0 \in Int
        BY DEF Statuses
      <3> QED
        BY <1>0, <1>32, <3>1, WritesSettle DEF FailFails, At
    <2> QED
      BY <2>1, SettlesLive
  <1>15. ASSUME UNCHANGED <<doc, job, proc>> PROVE LiveInv'
    BY <1>0, <1>15 DEF LiveInv, Live, WorksFor, Claims, Retrying, Rows, Swept, InFlight, CapturesApart,
       Serving
  <1>16. ASSUME NEW j \in Jobs, GivesSlotBack(j) PROVE LiveInv'
    BY <1>15, <1>16 DEF GivesSlotBack
  <1>17. ASSUME NEW j \in Jobs, NEW outcome \in {"value", "error"}, Answers(j, outcome)
         PROVE  LiveInv'
    BY <1>15, <1>17 DEF Answers
  <1>18. ASSUME NEW d \in Docs, BeginReplace(d) PROVE LiveInv'
    <2>1. /\ \A e \in Docs : /\ doc'[e].status = doc[e].status /\ doc'[e].row = doc[e].row
                             /\ doc'[e].gen = doc[e].gen /\ doc'[e].dropped = doc[e].dropped
                             /\ e # d => doc'[e] = doc[e]
          /\ doc[d].lock = "free" /\ d \notin Captures /\ job' = job /\ proc' = proc
      BY <1>0, <1>18 DEF BeginReplace, DocType
    <2>2. Live' /\ Rows' /\ Swept' /\ CapturesApart'
      BY <1>0, <2>1 DEF Live, WorksFor, Serving, Rows, Swept, InFlight, CapturesApart
    <2>3. Claims'
      BY <1>0, <2>1 DEF Claims, Retrying
    <2> QED
      BY <2>2, <2>3 DEF LiveInv
  <1>19. ASSUME NEW d \in Docs, NEW j \in Jobs, NEW new \in JobType, Starts(j, new),
                new.at \in {"start", "claim"}, new.doc = d, d \notin Captures,
                proc'.at = proc.at, proc'.crashes = proc.crashes, proc.at = "serve",
                \A e \in Docs : e # d => doc'[e] = doc[e],
                \/ /\ doc'[d].status = "pending" /\ doc'[d].row = "pending" /\ new.at = "start"
                   /\ doc[d].gen = 0 \/ doc[d].lock # "retrying"
                \/ /\ doc'[d].status = doc[d].status /\ doc'[d].row = doc[d].row
                   /\ doc'[d].gen = doc[d].gen /\ doc'[d].dropped = doc[d].dropped
                   /\ doc[d].lock = "free" /\ doc'[d].lock = "retrying" /\ doc[d].gen > 0
                   /\ new.at = "claim" /\ new.gen = doc[d].gen
         PROVE  LiveInv'
    <2>1. /\ job[j].at = "idle" /\ job'[j] = new
          /\ \A i \in Jobs : i # j => job'[i] = job[i]
      BY <1>0, <1>19 DEF Starts, Unused
    <2>2. Live'
      <3> SUFFICES ASSUME NEW e \in Docs \ Captures, doc'[e].status = "running", ~doc'[e].dropped
                   PROVE  \E k \in Jobs : WorksFor(k, e)'
        BY DEF Live
      <3>1. doc[e].status = "running" /\ ~doc[e].dropped /\ doc'[e].gen = doc[e].gen
        BY <1>19
      <3>2. PICK k \in Jobs : WorksFor(k, e)
        BY <1>0, <1>19, <3>1 DEF Live, Serving
      <3> QED
        BY <2>1, <3>1, <3>2 DEF WorksFor
    <2>3. Claims'
      <3>1. \A i \in Jobs : i # j /\ Retrying(i)' => job[i].doc # d /\ Retrying(i)
        BY <1>0, <1>19, <2>1 DEF Claims, Retrying
      <3> QED
        BY <1>0, <1>19, <2>1, <3>1 DEF Claims, Retrying
    <2>4. Rows'
      BY <1>0, <1>19 DEF Rows, InFlight
    <2>5. Swept'
      BY <1>19 DEF Swept
    <2>6. CapturesApart'
      BY <1>0, <1>19, <2>1 DEF CapturesApart, InFlight, Serving
    <2> QED
      BY <2>2, <2>3, <2>4, <2>5, <2>6 DEF LiveInv
  <1>20. ASSUME NEW d \in Docs, NEW j \in Jobs, FirstUpload(d, j) PROVE LiveInv'
    <2>1. [NoJob EXCEPT !.at = "start", !.doc = d, !.gen = 1] \in JobType
      BY NoJobType DEF JobType, JobAts
    <2> QED
      BY <1>0, <1>19, <1>20, <2>1, NoJobType DEF FirstUpload, Stored, Serving, JobType
  <1>21. ASSUME NEW d \in Docs, NEW j \in Jobs, EndReplace(d, j) PROVE LiveInv'
    <2>1. doc[d].gen + 1 \in Nat /\ d \in Docs /\ doc[d].lock = "replacing"
      BY <1>0, <1>21 DEF EndReplace, DocType
    <2>2. CASE /\ doc' = [doc EXCEPT ![d] = Stored("pending", doc[d].gen + 1)]
               /\ Starts(j, [NoJob EXCEPT !.at = "start", !.doc = d, !.gen = doc[d].gen + 1])
               /\ UNCHANGED proc
      <3>1. [NoJob EXCEPT !.at = "start", !.doc = d, !.gen = doc[d].gen + 1] \in JobType
        BY <2>1, NoJobType DEF JobType, JobAts
      <3> QED
        <4>1. /\ \A e \in Docs : e # d => doc'[e] = doc[e]
              /\ doc'[d].status = "pending" /\ doc'[d].row = "pending"
          BY <1>0, <2>2 DEF Stored
        <4>2. /\ proc' = proc /\ proc.at = "serve" /\ d \notin Captures
          BY <1>0, <1>21, <2>1, <2>2 DEF EndReplace, Serving, CapturesApart
        <4> QED
          BY <1>19, <2>1, <2>2, <3>1, <4>1, <4>2, NoJobType DEF JobType
    <2>3. CASE doc' = [doc EXCEPT ![d].lock = "free"] /\ UNCHANGED <<job, llm, proc>>
      <3>1. /\ \A e \in Docs : /\ doc'[e].status = doc[e].status /\ doc'[e].row = doc[e].row
                               /\ doc'[e].gen = doc[e].gen /\ doc'[e].dropped = doc[e].dropped
                               /\ e # d => doc'[e] = doc[e]
            /\ job' = job /\ proc' = proc /\ d \notin Captures
        BY <1>0, <1>21, <2>1, <2>3 DEF EndReplace, DocType, CapturesApart
      <3>2. Live' /\ Rows' /\ Swept' /\ CapturesApart'
        BY <1>0, <3>1 DEF Live, WorksFor, Serving, Rows, Swept, InFlight, CapturesApart
      <3>3. Claims'
        BY <1>0, <2>1, <3>1 DEF Claims, Retrying
      <3> QED
        BY <3>2, <3>3 DEF LiveInv
    <2>4. CASE /\ doc' = [doc EXCEPT ![d] = Stored("pending", doc[d].gen + 1)]
               /\ Faults /\ UNCHANGED <<job, llm>>
      <3>1. /\ \A e \in Docs : e # d => doc'[e] = doc[e]
            /\ doc'[d].status = "pending" /\ doc'[d].row = "pending"
            /\ job' = job /\ proc'.at = proc.at /\ proc'.crashes = proc.crashes
            /\ d \notin Captures /\ proc.at = "serve"
        BY <1>0, <1>21, <2>1, <2>4, FaultsType DEF EndReplace, Stored, Serving, CapturesApart
      <3>2. Live' /\ Rows' /\ Swept' /\ CapturesApart'
        BY <1>0, <3>1 DEF Live, WorksFor, Serving, Rows, Swept, InFlight, CapturesApart
      <3>3. Claims'
        BY <1>0, <2>1, <3>1 DEF Claims, Retrying
      <3> QED
        BY <3>2, <3>3 DEF LiveInv
    <2> QED
      BY <1>21, <2>2, <2>3, <2>4 DEF EndReplace
  <1>22. ASSUME NEW d \in Docs, NEW j \in Jobs, NEW force \in Forces, RetryLoad(d, j, force)
         PROVE  LiveInv'
    <2>1. [NoJob EXCEPT !.at = "claim", !.doc = d, !.gen = doc[d].gen, !.tries = doc[d].tries]
             \in JobType
      BY <1>0, NoJobType DEF JobType, JobAts, DocType
    <2>2. /\ doc'[d].status = doc[d].status /\ doc'[d].row = doc[d].row
          /\ doc'[d].gen = doc[d].gen /\ doc'[d].dropped = doc[d].dropped
          /\ doc[d].lock = "free" /\ doc'[d].lock = "retrying" /\ doc[d].gen > 0
          /\ \A e \in Docs : e # d => doc'[e] = doc[e]
      BY <1>0, <1>22 DEF RetryLoad, DocType
    <2>3. proc'.at = proc.at /\ proc'.crashes = proc.crashes /\ proc.at = "serve"
      BY <1>0, <1>22 DEF RetryLoad, ProcType, Serving
    <2> QED
      BY <1>19, <1>22, <2>1, <2>2, <2>3, NoJobType DEF RetryLoad, MayRetry, JobType
  <1>23. CASE Crash
    <2>1. PICK left \in LeftByBrowser : doc' = [d \in Docs |-> LeftOf(d, left)]
      BY <1>23 DEF Crash
    <2>2. /\ proc'.at = "start" /\ \A j \in Jobs : job'[j].at = "idle"
          /\ \A d \in Docs : d \notin Captures =>
                doc'[d].status = doc[d].status /\ doc'[d].row = doc[d].row
          /\ \A d \in Captures : doc'[d].lock = "free" /\
                \/ doc'[d].status = doc[d].status /\ doc'[d].row = doc[d].row
                \/ doc'[d].status = "pending" /\ doc'[d].row = "pending"
                \/ doc'[d].status = "running" /\ doc'[d].row = "completed"
      <3>1. proc'.at = "start" /\ \A j \in Jobs : job'[j].at = "idle"
        BY <1>0, <1>23 DEF Crash, ProcType
      <3>2. \A d \in Docs : doc'[d] = LeftOf(d, left) /\ doc[d] \in DocType
        BY <1>0, <2>1
      <3>3. \A d \in Docs : d \notin Captures =>
               doc'[d].status = doc[d].status /\ doc'[d].row = doc[d].row
        BY <3>2 DEF LeftOf, DocType
      <3>4. ASSUME NEW d \in Captures
            PROVE  /\ doc'[d].lock = "free"
                   /\ \/ doc'[d].status = doc[d].status /\ doc'[d].row = doc[d].row
                      \/ doc'[d].status = "pending" /\ doc'[d].row = "pending"
                      \/ doc'[d].status = "running" /\ doc'[d].row = "completed"
        <4>1. doc'[d] = LeftOf(d, left) /\ doc[d] \in DocType /\ doc[d].lock = "free"
          BY <1>0, <3>2 DEF CapturesApart
        <4>2. CASE doc[d].status = "pending"
          <5>1. doc'[d] = [doc[d] EXCEPT !.status = left.status, !.row = left.row]
            BY <4>1, <4>2 DEF LeftOf
          <5> QED
            BY <4>1, <5>1 DEF LeftByBrowser, DocType
        <4>3. CASE doc[d].status # "pending"
          BY <4>1, <4>3 DEF LeftOf, DocType
        <4> QED
          BY <4>2, <4>3
      <3> QED
        BY <3>1, <3>3, <3>4
    <2>3. Rows'
      BY <1>0, <2>2 DEF Rows, InFlight
    <2> QED
      BY <1>0, <2>2, <2>3 DEF LiveInv, Live, Claims, Retrying, Swept, CapturesApart, Serving
  <1>24. CASE Sweep
    <2>1. /\ doc' = doc /\ job' = job /\ proc'.at = "sweep"
          /\ proc'.todo = {d \in Docs : doc[d].row \in InFlight(d)}
      BY <1>0, <1>24 DEF Sweep, ProcType
    <2>2. Live' /\ Claims' /\ Rows' /\ CapturesApart'
      BY <1>0, <2>1 DEF Live, Claims, Retrying, Rows, InFlight, CapturesApart, Serving
    <2>3. Swept'
      BY <1>0, <2>1 DEF Swept, Rows, InFlight
    <2> QED
      BY <2>2, <2>3 DEF LiveInv
  <1>25. ASSUME NEW d \in Docs, ResetManifest(d) PROVE LiveInv'
    <2>1. CASE doc[d].status \in InFlight(d)
      <3>1. /\ \A e \in Docs : /\ doc'[e].lock = doc[e].lock /\ doc'[e].gen = doc[e].gen
                               /\ doc'[e].row = doc[e].row /\ doc'[e].dropped = doc[e].dropped
                               /\ e # d => doc'[e] = doc[e]
            /\ doc'[d].status = ResetTo(d)
            /\ job' = job /\ proc.at = "sweep" /\ proc'.at = "row" /\ proc'.doc = d
            /\ proc'.todo = proc.todo
        <4>1. /\ doc' = [doc EXCEPT ![d] = [doc[d] EXCEPT !.status = ResetTo(d)]]
              /\ proc' = [proc EXCEPT !.at = "row", !.doc = d]
              /\ job' = job /\ proc.at = "sweep"
          BY <1>25, <2>1 DEF ResetManifest
        <4>2. doc[d] \in DocType
          BY <1>0
        <4>3. /\ \A e \in Docs : e # d => doc'[e] = doc[e]
              /\ doc'[d] = [doc[d] EXCEPT !.status = ResetTo(d)]
          BY <1>0, <4>1
        <4> QED
          BY <1>0, <4>1, <4>2, <4>3 DEF DocType, ProcType
      <3>2. ResetTo(d) \notin InFlight(d) /\ (d \in Captures => ResetTo(d) = "failed")
        BY DEF ResetTo, InFlight
      <3>3. Live' /\ Claims'
        BY <1>0, <3>1 DEF Live, Claims, Retrying, Serving
      <3>4. Rows' /\ Swept'
        BY <1>0, <3>1, <3>2 DEF Rows, Swept, InFlight
      <3>5. CapturesApart'
        BY <1>0, <3>1, <3>2 DEF CapturesApart, Serving
      <3> QED
        BY <3>3, <3>4, <3>5 DEF LiveInv
    <2>2. CASE doc[d].status \notin InFlight(d)
      <3>1. /\ doc' = doc /\ job' = job /\ proc.at = "sweep" /\ proc'.at = "sweep"
            /\ proc'.todo = proc.todo \ {d}
        BY <1>0, <1>25, <2>2 DEF ResetManifest, ProcType
      <3>2. Live' /\ Claims'
        BY <1>0, <3>1 DEF Live, Claims, Retrying, Serving
      <3>3. Rows' /\ CapturesApart'
        BY <1>0, <3>1 DEF Rows, CapturesApart, InFlight, Serving
      <3>4. Swept'
        BY <1>0, <2>2, <3>1 DEF Swept
      <3> QED
        BY <3>2, <3>3, <3>4 DEF LiveInv
    <2> QED
      BY <2>1, <2>2
  <1>26. CASE ResetRow
    <2>1. /\ proc.at = "row" /\ proc'.at = "sweep" /\ proc'.todo = proc.todo \ {proc.doc}
          /\ job' = job
          /\ \A e \in Docs : /\ doc'[e].lock = doc[e].lock /\ doc'[e].gen = doc[e].gen
                             /\ doc'[e].status = doc[e].status
                             /\ doc'[e].row = doc[e].row \/ doc'[e].row = doc[e].status
                             /\ e # proc.doc => doc'[e] = doc[e]
      <3>1. /\ job' = job /\ proc.at = "row" /\ proc.doc \in Docs
            /\ \/ doc' = doc
               \/ doc' = [doc EXCEPT ![proc.doc] = [@ EXCEPT !.row = doc[proc.doc].status]]
            /\ proc'.at = "sweep" /\ proc'.todo = proc.todo \ {proc.doc}
        BY <1>0, <1>26 DEF ResetRow, ProcType
      <3>2. CASE doc' = doc
        BY <3>1, <3>2
      <3>3. CASE doc' = [doc EXCEPT ![proc.doc] = [@ EXCEPT !.row = doc[proc.doc].status]]
        BY <1>0, <3>1, <3>3 DEF DocType
      <3> QED
        BY <3>1, <3>2, <3>3
    <2>2. Live' /\ Claims'
      BY <1>0, <2>1 DEF Live, Claims, Retrying, Serving
    <2>3. Rows'
      BY <1>0, <2>1 DEF Rows
    <2>4. Swept'
      BY <1>0, <2>1 DEF Swept
    <2>5. CapturesApart'
      BY <1>0, <2>1 DEF CapturesApart, Serving
    <2> QED
      BY <2>2, <2>3, <2>4, <2>5 DEF LiveInv
  <1>27. CASE Serve
    <2>1. /\ doc' = doc /\ job' = job /\ proc.at = "sweep" /\ proc.todo = {}
          /\ proc'.at = "serve" /\ proc'.todo = proc.todo
      BY <1>0, <1>27 DEF Serve, ProcType
    <2>2. \A d \in Docs : doc[d].status \in InFlight(d) => d \in Captures /\ doc[d].row = "completed"
      BY <1>0, <2>1 DEF Swept, Rows, InFlight
    <2>3. Live' /\ Swept'
      BY <2>1, <2>2 DEF Live, Swept, InFlight
    <2>4. CapturesApart'
      BY <1>0, <2>1, <2>2 DEF CapturesApart, InFlight
    <2> QED
      BY <1>0, <2>1, <2>3, <2>4 DEF LiveInv, Claims, Retrying, Rows, InFlight
  <1>28. CASE UNCHANGED vars
    BY <1>15, <1>28 DEF vars
  <1> QED
    BY <1>1, <1>2, <1>3, <1>4, <1>5, <1>6, <1>7, <1>8, <1>9, <1>10, <1>11, <1>12, <1>13, <1>14,
       <1>16, <1>17, <1>18, <1>20, <1>21, <1>22, <1>23, <1>24, <1>25, <1>26, <1>27, <1>28,
       <1>29, <1>30, <1>31, <1>32
    DEF Next, Thread, Retry

(* A document that says its summary is running has a thread that will still   *)
(* write its status, unless that write or the start of the thread was given   *)
(* up; and of the captures a start leaves only those in flight whose row is   *)
(* done: for every number of documents, threads, uploads, failures, crashes.  *)
THEOREM RunningIsLiveHolds == SummariesAssumption => (Spec => []RunningIsLive)
  <1> SUFFICES ASSUME SummariesAssumption PROVE Spec => []RunningIsLive
    OBVIOUS
  <1>1. Init => LiveInv
    BY InitLive
  <1>2. LiveInv /\ [Next]_vars => LiveInv'
    BY LiveInvStep
  <1>3. LiveInv => RunningIsLive
    BY DEF LiveInv, Live, WorksFor, CapturesApart, RunningIsLive, InFlight
  <1> QED
    BY <1>1, <1>2, <1>3, PTL DEF Spec
=============================================================================
