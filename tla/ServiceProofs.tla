---------------------------- MODULE ServiceProofs ----------------------------
(***************************************************************************)
(* What is proved of the summaries and of the admission of uploads, said   *)
(* of the service that is made of both.  SP and AP are the components with *)
(* their proofs: they are the components of MCService, word for word.      *)
(***************************************************************************)
EXTENDS MCService, TLAPS

SP == INSTANCE SummariesProofs WITH MaxFaults <- SummaryFaults
AP == INSTANCE AdmissionProofs

(* The components and their proofs speak of the same states and steps.        *)
LEMMA SameSummaries ==
  /\ S!SummariesAssumption <=> SP!SummariesAssumption
  /\ S!Init <=> SP!Init
  /\ S!Next <=> SP!Next
  /\ SP!vars = summaryVars
  <1>1. S!SummariesAssumption <=> SP!SummariesAssumption
    BY DEF S!SummariesAssumption, SP!SummariesAssumption, S!IsFiniteSet, SP!IsFiniteSet
  <1>2. S!Init <=> SP!Init
    BY DEF S!Init, SP!Init, S!NoJob, SP!NoJob, S!Stored, SP!Stored
  <1>3. S!Next <=> SP!Next
    BY DEF S!NoJob, SP!NoJob, S!Stored, SP!Stored, S!Serving, SP!Serving, S!At,
           SP!At, S!Goto, SP!Goto, S!DocOf, SP!DocOf, S!Ends, SP!Ends, S!Unused,
           SP!Unused, S!Starts, SP!Starts, S!Current, SP!Current, S!Writes,
           SP!Writes, S!Drops, SP!Drops, S!Replacing, SP!Replacing, S!Release,
           SP!Release, S!FirstUpload, SP!FirstUpload, S!BeginReplace,
           SP!BeginReplace, S!EndReplace, SP!EndReplace, S!MayRetry, SP!MayRetry,
           S!RetryLoad, SP!RetryLoad, S!RetryClaim, SP!RetryClaim, S!Start,
           SP!Start, S!TryAcquire, SP!TryAcquire, S!Admit, SP!Admit, S!Acquire,
           SP!Acquire, S!Leave, SP!Leave, S!Refused, SP!Refused, S!Faults,
           SP!Faults, S!Mark, SP!Mark, S!MarkFails, SP!MarkFails, S!Answers,
           SP!Answers, S!GivesSlotBack, SP!GivesSlotBack, S!Returned, SP!Returned,
           S!Collect, SP!Collect, S!Timeout, SP!Timeout, S!Complete, SP!Complete,
           S!CompleteFails, SP!CompleteFails, S!Fail, SP!Fail, S!Crash, SP!Crash,
           S!InFlight, SP!InFlight, S!Sweep, SP!Sweep, S!ResetTo, SP!ResetTo,
           S!ResetManifest, SP!ResetManifest, S!ResetRow, SP!ResetRow, S!Serve,
           SP!Serve, S!Thread, SP!Thread, S!Retry, SP!Retry, S!RetryClaimFails,
           SP!RetryClaimFails, S!RetryStart, SP!RetryStart, S!RetryStartFails,
           SP!RetryStartFails, S!RefusedFails, SP!RefusedFails, S!FailFails,
           SP!FailFails, S!LeftByBrowser, SP!LeftByBrowser, S!LeftOf, SP!LeftOf,
           S!Next, SP!Next
  <1>4. SP!vars = summaryVars
    BY DEF SP!vars, summaryVars
  <1> QED
    BY <1>1, <1>2, <1>3, <1>4

LEMMA SameAdmission ==
  /\ A!AdmissionAssumption <=> AP!AdmissionAssumption
  /\ A!IdsAssumption <=> AP!IdsAssumption
  /\ A!Init <=> AP!Init
  /\ A!Next <=> AP!Next
  /\ AP!vars = admissionVars
  <1>1. A!AdmissionAssumption <=> AP!AdmissionAssumption
    BY DEF A!AdmissionAssumption, AP!AdmissionAssumption, A!IsFiniteSet, AP!IsFiniteSet
  <1>2. A!IdsAssumption <=> AP!IdsAssumption
    BY DEF A!IdsAssumption, AP!IdsAssumption, A!Ids, AP!Ids
  <1>3. A!Init <=> AP!Init
    BY DEF A!Init, AP!Init, A!NoRequest, AP!NoRequest, A!Ids, AP!Ids
  <1>4. A!Next <=> AP!Next
    BY DEF A!Ids, AP!Ids, A!At, AP!At, A!Goto, AP!Goto, A!Exists, AP!Exists,
           A!Explicit, AP!Explicit, A!Answer, AP!Answer, A!Reserved, AP!Reserved,
           A!Admit, AP!Admit, A!Enter, AP!Enter, A!Copying, AP!Copying, A!Copy,
           AP!Copy, A!CopyFails, AP!CopyFails, A!Copied, AP!Copied, A!Count,
           AP!Count, A!Precheck, AP!Precheck, A!InUse, AP!InUse, A!FreeNames,
           AP!FreeNames, A!FreeNumbers, AP!FreeNumbers, A!Mint, AP!Mint,
           A!Reserve, AP!Reserve, A!Holds, AP!Holds, A!Before, AP!Before,
           A!Parsing, AP!Parsing, A!TakeLock, AP!TakeLock, A!LockTimeout,
           AP!LockTimeout, A!TakeSlot, AP!TakeSlot, A!SlotTimeout, AP!SlotTimeout,
           A!Recheck, AP!Recheck, A!Commit, AP!Commit, A!ParseFails,
           AP!ParseFails, A!Disconnect, AP!Disconnect, A!Handler, AP!Handler,
           A!Next, AP!Next, A!NoRequest, AP!NoRequest, A!Max, AP!Max, A!Min,
           AP!Min, A!Cardinality, AP!Cardinality
  <1>5. AP!vars = admissionVars
    BY DEF AP!vars, admissionVars
  <1> QED
    BY <1>1, <1>2, <1>3, <1>4, <1>5

(* A step of the service is one of the component it is about, or leaves it.   *)
LEMMA StepOfParts ==
  ASSUME [Next]_vars
  PROVE  [SP!Next]_SP!vars /\ [AP!Next]_AP!vars
  <1>1. UNCHANGED summaryVars => UNCHANGED SP!vars
    BY DEF SP!vars, summaryVars
  <1>2. UNCHANGED admissionVars => UNCHANGED AP!vars
    BY DEF AP!vars, admissionVars
  <1>3. CASE UNCHANGED vars
    BY <1>1, <1>2, <1>3 DEF vars
  <1>4. CASE focus = "summaries" /\ S!Next /\ UNCHANGED <<focus, admissionVars>>
    BY <1>2, <1>4, SameSummaries
  <1>5. CASE focus = "admission" /\ A!Next /\ UNCHANGED <<focus, summaryVars>>
    BY <1>1, <1>5, SameAdmission
  <1> QED
    BY <1>3, <1>4, <1>5 DEF Next

LEMMA Assumptions == SP!SummariesAssumption /\ AP!AdmissionAssumption /\ AP!IdsAssumption
  BY MCServiceAssumption, SameSummaries, SameAdmission

-----------------------------------------------------------------------------
(* Summaries: no path loses a slot, gives one back twice or miscounts the     *)
(* queue, in the service as the run checks it and at every other size.        *)
THEOREM ServiceSlots == Spec => []SlotsAndQueue
  <1>1. Init => SP!SlotInv
    BY Assumptions, SameSummaries, SP!InitSlots DEF Init
  <1>2. SP!SlotInv /\ [Next]_vars => SP!SlotInv'
    BY Assumptions, StepOfParts, SP!SlotInvStep
  <1>3. SP!SlotInv => SlotsAndQueue
    BY DEF SP!SlotInv, SP!Counted, SP!Holding, SP!Owning, SP!InQueue, SlotsAndQueue,
           S!SlotsAndQueue, S!Cardinality, SP!Cardinality
  <1> QED
    BY <1>1, <1>2, <1>3, PTL DEF Spec

(* Summaries: a summary that is said to be running has a thread that will     *)
(* write its status, unless the last write or start of its thread failed or   *)
(* was given up to a replacement, which the next start settles.               *)
THEOREM ServiceRunning == Spec => []RunningIsLive
  <1>1. Init => SP!LiveInv
    BY Assumptions, SameSummaries, SP!InitLive DEF Init
  <1>2. SP!LiveInv /\ [Next]_vars => SP!LiveInv'
    BY Assumptions, StepOfParts, SP!LiveInvStep
  <1>3. SP!LiveInv => RunningIsLive
    BY DEF SP!LiveInv, SP!Live, SP!WorksFor, SP!Serving, SP!CapturesApart, SP!InFlight,
           RunningIsLive, S!RunningIsLive, S!Serving, S!InFlight
  <1> QED
    BY <1>1, <1>2, <1>3, PTL DEF Spec

(* Admission: the spools with the counted scratch files, and all scratch      *)
(* files, are within the budget at every instant, and what a request held is  *)
(* given back once.                                                           *)
THEOREM ServiceBytes == Spec => []BytesBounded
  <1>1. Init => AP!BytesInv
    BY Assumptions, SameAdmission, AP!InitBytes DEF Init
  <1>2. AP!BytesInv /\ [Next]_vars => AP!BytesInv'
    BY Assumptions, StepOfParts, AP!BytesInvStep
  <1>3. AP!BytesInv => BytesBounded
    <2>1. AP!BytesInv => AP!BytesBounded
      BY Assumptions, AP!BytesImply
    <2>2. AP!BytesBounded <=> A!BytesBounded
      BY DEF AP!BytesBounded, A!BytesBounded, AP!Bytes, A!Bytes, AP!Reserving, A!Reserving,
             AP!Counting, A!Counting, AP!Spooled, A!Spooled, AP!Scratched, A!Scratched,
             AP!Cardinality, A!Cardinality
    <2> QED
      BY <2>1, <2>2 DEF BytesBounded
  <1> QED
    BY <1>1, <1>2, <1>3, PTL DEF Spec

(* Admission: a stored document is written over, or taken away, only by a     *)
(* request that asked to replace it, as long as clients do not ask for the    *)
(* numbers the counter is still to mint.                                      *)
THEOREM ServiceOverwrites == AP!NumbersAreMinted => (Spec => NeverOverwritten)
  <1> SUFFICES ASSUME AP!NumbersAreMinted PROVE Spec => NeverOverwritten
    OBVIOUS
  <1>1. Init => AP!BytesInv /\ AP!IdInv
    BY Assumptions, SameAdmission, AP!InitBytes, AP!InitIds DEF Init
  <1>2. AP!BytesInv /\ AP!IdInv /\ [Next]_vars => (AP!BytesInv /\ AP!IdInv)'
    BY Assumptions, StepOfParts, AP!BytesInvStep, AP!IdInvStep
  <1>3. AP!BytesInv /\ AP!IdInv /\ [Next]_vars => ~AP!Overwrites
    BY Assumptions, StepOfParts, AP!NoOverwrite
  <1>4. ~AP!Overwrites =>
          [\A i \in A!Ids : lib[i] # Free /\ lib'[i] # lib[i] =>
             \E r \in Requests : req[r].id = i /\ req[r].replace /\ req'[r].answer = "stored"]_(A!vars)
    BY DEF AP!Overwrites, AP!Ids, A!Ids, A!vars
  <1> QED
    BY <1>1, <1>2, <1>3, <1>4, PTL DEF Spec, NeverOverwritten, A!NeverOverwritten
=============================================================================
