------------------------------ MODULE MCService ------------------------------
(***************************************************************************)
(* The document service around its rewrites: the deferred summaries and    *)
(* the admission of uploads.  Their variables are disjoint, so a behaviour *)
(* is one of either component (focus) and the other stays where it starts. *)
(***************************************************************************)
EXTENDS Naturals

CONSTANTS
    Docs, Captures, Jobs, MaxConcurrent, MaxQueued, MaxAttempts, MaxGen, MaxRetries, Forces,
    SummaryFaults,
    Requests, Sizes, Unsized, Ceiling, Budget, MaxUpload, MaxParse, Numbered, Named, Asks, Free,
    MaxCrashes

VARIABLES
    focus,
    doc, job, llm, free, waiting, proc,
    req, receiving, scratch, lib, counter

S == INSTANCE Summaries WITH MaxFaults <- SummaryFaults
A == INSTANCE Admission

ASSUME MCServiceAssumption ==
    S!SummariesAssumption /\ A!AdmissionAssumption /\ A!IdsAssumption

summaryVars == <<doc, job, llm, free, waiting, proc>>
admissionVars == <<req, receiving, scratch, lib, counter>>
vars == <<focus, summaryVars, admissionVars>>
Init == S!Init /\ A!Init /\ focus \in {"summaries", "admission"}
Next ==
    \/ focus = "summaries" /\ S!Next /\ UNCHANGED <<focus, admissionVars>>
    \/ focus = "admission" /\ A!Next /\ UNCHANGED <<focus, summaryVars>>
(* The fairness of the component the behaviour is of. *)
Fairness ==
    /\ \A j \in Jobs : WF_summaryVars(focus = "summaries" /\ S!Thread(j))
    /\ \A r \in Requests : WF_admissionVars(focus = "admission" /\ A!Handler(r))
Spec == Init /\ [][Next]_vars /\ Fairness

-----------------------------------------------------------------------------
(* The ids the counter mints and those of one file name, in their order.     *)
MCNumbered == <<"DOC-001", "DOC-002">>
MCNamed == <<"report", "report-2">>

(* Summaries: no path loses a slot, gives one back twice or miscounts the    *)
(* queue (_deferred_summary_slot, _run_summary).                             *)
SlotsAndQueue == S!SlotsAndQueue
(* Summaries: a summary that is said to be running has a thread that will    *)
(* write its status, unless the last write or start of its thread failed or  *)
(* was given up to a replacement, which the next start settles.              *)
RunningIsLive == S!RunningIsLive
(* Summaries: a thread that got its slot comes to its end, even when the     *)
(* call of the model never returns.                                          *)
HolderSettles == S!HolderSettles
(* Admission: the spools with the counted scratch files, and all scratch     *)
(* files, are within the budget at every instant, and what a request held is *)
(* given back once.                                                          *)
BytesBounded == A!BytesBounded
(* Admission: a stored document is written over, or taken away, only by a    *)
(* request that asked to replace it.                                         *)
NeverOverwritten == A!NeverOverwritten
(* Admission: every admitted upload is answered, whatever gate, lock or slot *)
(* it waits for.                                                             *)
EveryUploadAnswered == A!EveryUploadAnswered
=============================================================================
