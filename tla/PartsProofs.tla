----------------------------- MODULE PartsProofs -----------------------------
(***************************************************************************)
(* What is proved of the parts around the document service.  The variables *)
(* of a part are its own, so a step of MCParts is a step of one part and   *)
(* leaves the others (StepOfParts); each section below has the invariant   *)
(* of one part and its theorem.                                            *)
(***************************************************************************)
EXTENDS MCParts, FiniteSetTheorems, NaturalsInduction, WellFoundedInduction, TLAPS

(* A step is one of the part it is about, or leaves that part as it is.       *)
LEMMA StepOfParts ==
  ASSUME [Next]_vars
  PROVE  /\ Worker!Next \/ UNCHANGED workerVars
         /\ Provider!Next \/ UNCHANGED providerVars
         /\ Search!Next \/ UNCHANGED searchVars
         /\ Ocr!Next \/ UNCHANGED ocrVars
         /\ Summary!Next \/ UNCHANGED summaryVars
         /\ Index!Next \/ UNCHANGED indexVars
         /\ Result!Next \/ UNCHANGED resultVars
  <1>1. CASE Next
    BY <1>1 DEF Next, Rest
  <1>2. CASE UNCHANGED vars
    BY <1>2 DEF vars
  <1> QED
    BY <1>1, <1>2

-----------------------------------------------------------------------------
(* The OCR worker: the pipes of a process that runs hold a line only while the   *)
(* thread that sent the page it is about holds the lock.                         *)
Waiting(t) == Worker!At(t, "locked") \/ Worker!At(t, "loading") \/ Worker!At(t, "sent")
Lines == [alive : BOOLEAN, loading : BOOLEAN, in : Seq(OcrPages), out : Seq(OcrPages \cup {"failed"})]
Answers(p) ==
    \/ proc.in = <<p>> /\ proc.out = <<>>
    \/ proc.in = <<>> /\ \E l \in {p, "failed"} : proc.out = <<l>>
Silent == proc.in = <<>> /\ proc.out = <<>>

ThreadType ==
    thread \in [Threads -> [at : {"idle", "queued", "locked", "loading", "sent", "answered"},
                            page : OcrPages \cup {None}, answer : OcrPages \cup {"failed", None}]]
WorkerInv ==
    /\ ThreadType
    /\ proc # None => proc \in Lines
    /\ holder \in Threads \cup {None}
    /\ \A t \in Threads : Waiting(t) <=> holder = t
    /\ \A t \in Threads : Worker!At(t, "sent") => thread[t].page \in OcrPages
    /\ Worker!Running /\ holder = None => Silent
    /\ \A t \in Threads : Worker!Running /\ holder = t =>
           IF Worker!At(t, "sent") THEN Answers(thread[t].page) ELSE Silent
    /\ AnswerOfItsPage

LEMMA WorkerStarts == ASSUME Worker!Init PROVE WorkerInv
  BY MCPartsAssumption DEF Worker!Init, WorkerInv, ThreadType, Worker!Idle, Waiting, Worker!At,
     Worker!Running, AnswerOfItsPage, Worker!AnswerOfItsPage, Worker!WorkerAssumption

(* One thread moves, the others stay where they are.                             *)
Moved(t, a, p, w) == thread' = [thread EXCEPT ![t] = [at |-> a, page |-> p, answer |-> w]]

LEMMA ThreadMoves ==
  ASSUME NEW t \in Threads, ThreadType
  PROVE  /\ \A p : Worker!Enter(t, p) => Moved(t, "queued", p, None)
         /\ \A a : Worker!Goes(t, a) => Moved(t, a, thread[t].page, thread[t].answer)
         /\ \A w : Worker!Leave(t, w) =>
               Moved(t, "answered", thread[t].page, IF thread[t].page = None THEN None ELSE w)
         /\ Worker!Take(t) => Moved(t, "idle", None, None)
  <1>1. ASSUME NEW a, Worker!Goes(t, a) PROVE Moved(t, a, thread[t].page, thread[t].answer)
    <2>1. [thread[t] EXCEPT !.at = a] = [at |-> a, page |-> thread[t].page, answer |-> thread[t].answer]
      BY DEF ThreadType
    <2> QED
      BY <1>1, <2>1 DEF Worker!Goes, Moved, ThreadType
  <1> QED
    BY <1>1 DEF Worker!Enter, Worker!Leave, Worker!Take, Worker!Idle, Moved

(* What a pipe is left with.                                                     *)
LEMMA Piped ==
  ASSUME NEW q \in Lines
  PROVE  /\ \A i \in {<<>>} \cup {<<p>> : p \in OcrPages} :
              LET r == [q EXCEPT !.in = i] IN
              r \in Lines /\ r.in = i /\ r.out = q.out /\ r.alive = q.alive
         /\ \A o \in {<<>>} \cup {<<l>> : l \in OcrPages \cup {"failed"}} :
              LET r == [q EXCEPT !.out = o] IN
              r \in Lines /\ r.in = q.in /\ r.out = o /\ r.alive = q.alive
  <1>0. ASSUME NEW S PROVE {<<>>} \cup {<<x>> : x \in S} \subseteq Seq(S)
    <2>1. ASSUME NEW x \in S PROVE <<x>> \in Seq(S)
      OBVIOUS
    <2>2. <<>> \in Seq(S)
      OBVIOUS
    <2> QED
      BY <2>1, <2>2, Zenon
  <1>1. ASSUME NEW i \in {<<>>} \cup {<<p>> : p \in OcrPages} PROVE i \in Seq(OcrPages)
    BY <1>0
  <1>2. ASSUME NEW o \in {<<>>} \cup {<<l>> : l \in OcrPages \cup {"failed"}}
        PROVE  o \in Seq(OcrPages \cup {"failed"})
    BY <1>0
  <1> QED
    BY <1>1, <1>2 DEF Lines

(* A thread gives the lock back, and the process it leaves has no line to read.  *)
LEMMA ThreadLeaves ==
  ASSUME WorkerInv, NEW t \in Threads, holder = t, NEW w \in {thread[t].page, "failed", None},
         Worker!Leave(t, w),
         proc' = None \/ (proc' \in Lines /\ (proc'.alive => Silent'))
  PROVE  WorkerInv'
  <1>1. Moved(t, "answered", thread[t].page, IF thread[t].page = None THEN None ELSE w)
    BY ThreadMoves DEF WorkerInv
  <1>2. thread[t].page \in OcrPages \cup {None}
    BY DEF WorkerInv, ThreadType
  <1> HIDE DEF Lines
  <1> QED
    BY <1>1, <1>2, MCPartsAssumption DEF Worker!WorkerAssumption, Worker!Leave, Worker!At,
       WorkerInv, ThreadType, Waiting, Worker!Running, AnswerOfItsPage, Worker!AnswerOfItsPage, Moved

LEMMA WorkerStep == ASSUME WorkerInv, Worker!Next PROVE WorkerInv'
  <1> USE DEF Worker!At, WorkerInv, ThreadType, Waiting, Worker!Running, AnswerOfItsPage,
              Worker!AnswerOfItsPage, Silent, Answers, Moved
  <1>0. None \notin Threads
    BY MCPartsAssumption DEF Worker!WorkerAssumption
  <1>1. ASSUME NEW t \in Threads, NEW p \in OcrPages \cup {None}, Worker!Enter(t, p)
        PROVE  WorkerInv'
    BY <1>0, <1>1, ThreadMoves DEF Worker!Enter
  <1>2. ASSUME NEW t \in Threads, Worker!Lock(t) PROVE WorkerInv'
    BY <1>0, <1>2, ThreadMoves DEF Worker!Lock
  <1>3. ASSUME NEW t \in Threads, Worker!Refuse(t) PROVE WorkerInv'
    <2>1. holder = t /\ ~Worker!At(t, "sent") /\ Worker!Leave(t, "failed")
      BY <1>3 DEF Worker!Refuse
    <2>2. proc' = None \/ (proc' \in Lines /\ (proc'.alive => Silent'))
      BY <1>3, <2>1 DEF Worker!Refuse, Worker!Stop
    <2> QED
      BY <2>1, <2>2, ThreadLeaves
  <1>4. ASSUME NEW t \in Threads, Worker!Start(t) PROVE WorkerInv'
    BY <1>0, <1>4, ThreadMoves DEF Worker!Start, Worker!Started, Lines
  <1>5. ASSUME NEW t \in Threads, Worker!Send(t), Worker!Running, holder = t, ~Worker!At(t, "sent")
        PROVE  WorkerInv'
    <2>1. Moved(t, "sent", thread[t].page, thread[t].answer) /\ thread[t].page \in OcrPages
      BY <1>5, ThreadMoves DEF Worker!Send
    <2>2. proc.in = <<>> /\ proc.out = <<>> /\ proc \in Lines
      BY <1>5
    <2>3. proc' = [proc EXCEPT !.in = <<thread[t].page>>] /\ holder' = holder
      BY <1>5, <2>2 DEF Worker!Send
    <2>4. proc' \in Lines /\ proc'.in = <<thread[t].page>> /\ proc'.out = <<>>
      BY <2>1, <2>2, <2>3, Piped
    <2> QED
      BY <1>0, <1>5, <2>1, <2>3, <2>4
  <1>6. ASSUME NEW t \in Threads, Worker!Reuse(t) PROVE WorkerInv'
    <2>1. Worker!Running /\ holder = t /\ ~Worker!At(t, "sent")
      BY <1>6 DEF Worker!Reuse
    <2>2. CASE Worker!Send(t)
      BY <2>1, <2>2, <1>5
    <2>3. CASE Worker!Leave(t, None) /\ UNCHANGED proc
      BY <2>1, <2>3, ThreadLeaves
    <2> QED
      BY <1>6, <2>2, <2>3 DEF Worker!Reuse
  <1>7. ASSUME NEW t \in Threads, Worker!Ready(t) PROVE WorkerInv'
    <2>1. Worker!Running /\ holder = t /\ ~Worker!At(t, "sent")
      BY <1>7 DEF Worker!Ready
    <2>2. CASE Worker!Send(t)
      BY <2>1, <2>2, <1>5
    <2>3. CASE Worker!Leave(t, None) /\ UNCHANGED proc
      BY <2>1, <2>3, ThreadLeaves
    <2> QED
      BY <1>7, <2>2, <2>3 DEF Worker!Ready
  <1>8. ASSUME NEW t \in Threads, Worker!StartFails(t) \/ Worker!Abandon(t) PROVE WorkerInv'
    <2>1. holder = t /\ Worker!Leave(t, "failed") /\ proc' = None
      BY <1>8 DEF Worker!StartFails, Worker!Abandon, Worker!Stop
    <2> QED
      BY <2>1, ThreadLeaves
  <1>9. ASSUME NEW t \in Threads, Worker!Read(t) PROVE WorkerInv'
    <2>1. holder = t /\ proc.out # <<>> /\ proc \in Lines /\ thread[t].page \in OcrPages
          /\ Worker!Running /\ Worker!At(t, "sent")
      BY <1>9 DEF Worker!Read
    <2>2. proc.in = <<>> /\ (proc.out = <<thread[t].page>> \/ proc.out = <<"failed">>)
      BY <2>1
    <2>3. Head(proc.out) \in {thread[t].page, "failed"} /\ Tail(proc.out) = <<>>
      <3>1. \A x : Head(<<x>>) = x /\ Tail(<<x>>) = <<>>
        OBVIOUS
      <3> QED
        BY <2>2, <3>1
    <2>4. proc' = [proc EXCEPT !.out = <<>>]
      BY <1>9, <2>3 DEF Worker!Read
    <2>5. proc' \in Lines /\ Silent'
      BY <2>1, <2>2, <2>4, Piped
    <2> QED
      BY <1>9, <2>1, <2>3, <2>5, ThreadLeaves DEF Worker!Read
  <1>10. ASSUME NEW t \in Threads, Worker!Take(t) PROVE WorkerInv'
    <2>1. Moved(t, "idle", None, None)
      BY <1>10, ThreadMoves
    <2>2. ~Waiting(t) /\ UNCHANGED <<holder, proc>>
      BY <1>10 DEF Worker!Take
    <2> QED
      BY <1>0, <2>1, <2>2
  <1>11. ASSUME Worker!BreakerCloses PROVE WorkerInv'
    BY <1>11 DEF Worker!BreakerCloses
  <1>12. ASSUME NEW new \in Lines, proc' = new, new.in = proc.in, new.out = proc.out,
                new.alive => proc.alive, proc # None, UNCHANGED <<holder, thread>>
         PROVE  WorkerInv'
    BY <1>12
  <1>13. ASSUME Worker!Load \/ Worker!Die PROVE WorkerInv'
    <2>1. proc # None /\ proc \in Lines /\ UNCHANGED <<holder, thread>>
      BY <1>13 DEF Worker!Load, Worker!Die
    <2>2. [proc EXCEPT !.loading = FALSE] \in Lines /\ [proc EXCEPT !.alive = FALSE] \in Lines
      BY <2>1 DEF Lines
    <2>3. CASE proc' = [proc EXCEPT !.loading = FALSE]
      BY <1>12, <2>1, <2>2, <2>3 DEF Lines
    <2>4. CASE proc' = [proc EXCEPT !.alive = FALSE]
      BY <1>12, <2>1, <2>2, <2>4 DEF Lines
    <2> QED
      BY <1>13, <2>3, <2>4 DEF Worker!Load, Worker!Die
  <1>14. ASSUME Worker!Respond PROVE WorkerInv'
    <2>1. /\ Worker!Running /\ proc \in Lines /\ proc.in # <<>>
          /\ UNCHANGED <<holder, thread>>
      BY <1>14 DEF Worker!Respond
    <2>2. PICK line \in {Head(proc.in), "failed"} :
            proc' = [proc EXCEPT !.in = Tail(@), !.out = Append(@, line)]
      BY <1>14 DEF Worker!Respond, Worker!Transcribes
    <2>3. holder \in Threads /\ Worker!At(holder, "sent") /\ thread[holder].page \in OcrPages
          /\ proc.in = <<thread[holder].page>> /\ proc.out = <<>>
      BY <2>1
    <2>4. Tail(proc.in) = <<>> /\ Append(proc.out, line) = <<line>>
          /\ line \in {thread[holder].page, "failed"}
      BY <2>2, <2>3
    <2>5. proc' = [[proc EXCEPT !.in = <<>>] EXCEPT !.out = <<line>>]
      BY <2>2, <2>4
    <2>6. proc' \in Lines /\ proc'.in = <<>> /\ proc'.out = <<line>> /\ proc'.alive = proc.alive
      <3> DEFINE r == [proc EXCEPT !.in = <<>>]
      <3>1. r \in Lines /\ r.in = <<>> /\ r.alive = proc.alive
        BY <2>1, Piped
      <3>2. <<line>> \in {<<l>> : l \in OcrPages \cup {"failed"}}
        BY <2>3, <2>4
      <3> HIDE DEF r
      <3>3. [r EXCEPT !.out = <<line>>] \in Lines
            /\ [r EXCEPT !.out = <<line>>].in = r.in
            /\ [r EXCEPT !.out = <<line>>].out = <<line>>
            /\ [r EXCEPT !.out = <<line>>].alive = r.alive
        BY <3>1, <3>2, Piped
      <3> QED
        BY <2>5, <3>1, <3>3 DEF r
    <2> QED
      BY <1>0, <2>1, <2>3, <2>4, <2>6
  <1> QED
    BY <1>1, <1>2, <1>3, <1>4, <1>6, <1>7, <1>8, <1>9, <1>10, <1>11, <1>13, <1>14
    DEF Worker!Next, Worker!Call, Worker!Prewarm

(* OCR worker: a page is never given the text of another one, by any number of   *)
(* threads and through any number of timeouts, deaths and restarts.              *)
THEOREM PageOfItsAnswer == Spec => []AnswerOfItsPage
  <1>1. Init => WorkerInv
    BY WorkerStarts DEF Init
  <1>2. WorkerInv /\ [Next]_vars => WorkerInv'
    <2> SUFFICES ASSUME WorkerInv, [Next]_vars PROVE WorkerInv'
      OBVIOUS
    <2>1. CASE UNCHANGED workerVars
      BY <2>1 DEF WorkerInv, workerVars, ThreadType, Waiting, Worker!At, Worker!Running,
         AnswerOfItsPage, Worker!AnswerOfItsPage, Silent, Answers
    <2> QED
      BY <2>1, StepOfParts, WorkerStep
  <1>3. WorkerInv => AnswerOfItsPage
    BY DEF WorkerInv
  <1> QED
    BY <1>1, <1>2, <1>3, PTL DEF Spec

-----------------------------------------------------------------------------
(* Providers: the vendors before the one that works got the content and did not  *)
(* refuse it, and a draft is what the answer is at the worst.                     *)
Chained == ask.chain \in Seq(Provider!Backends) /\ (ask.chain # <<>> => turn.vendor \in 1..Len(ask.chain))
ProviderInv ==
    /\ answering \in {"idle", "ask", "review", "done"}
    /\ turn \in [vendor : Nat, attempt : Nat]
    /\ reached \subseteq 1..turn.vendor
    /\ rejected \subseteq {turn.vendor}
    /\ rejected # {} => answering = "done"
    /\ draft \in {None, "whole", "stopped"}
    /\ answering \in {"idle", "ask"} => draft = None
    /\ answering = "idle" => turn.vendor = 1
    /\ answering \in {"ask", "review"} => ask.chain # <<>>
    /\ answering # "idle" => ask \in Provider!Calls /\ Chained
    /\ answering = "review" => ask.role = "ocr" /\ draft # None
    /\ answering = "done" /\ answer \in {"marker", "raised"} /\ rejected = {} =>
           ask.chain = <<>> \/ turn.vendor = Len(ask.chain)
    /\ answering = "done" => PageIsWhole

LEMMA ProviderStarts == ASSUME Provider!Init PROVE ProviderInv
  BY DEF Provider!Init, ProviderInv

LEMMA ProviderKnows == ASSUME ProviderInv PROVE PageIsWhole /\ FailoverWhereItHelps
  BY DEF ProviderInv, PageIsWhole, Provider!PageIsWhole, FailoverWhereItHelps,
     Provider!FailoverWhereItHelps

LEMMA ChainsType == \A c \in Provider!Calls : c.chain \in Seq(Provider!Backends)
  <1> DEFINE One == {<<p>> : p \in Provider!Backends}
             Two == {<<p, f>> : p, f \in Provider!Backends}
  <1>1. Provider!Chains = {<<>>} \cup One \cup Two
    BY DEF Provider!Chains
  <1>2. ASSUME NEW c \in One PROVE c \in Seq(Provider!Backends)
    <2>1. PICK p \in Provider!Backends : c = <<p>>
      BY <1>2
    <2> QED
      BY <2>1
  <1>3. ASSUME NEW c \in Two PROVE c \in Seq(Provider!Backends)
    <2>1. PICK p \in Provider!Backends, f \in Provider!Backends : c = <<p, f>>
      BY <1>3
    <2> QED
      BY <2>1
  <1>4. <<>> \in Seq(Provider!Backends)
    OBVIOUS
  <1> HIDE DEF One, Two
  <1>5. ASSUME NEW c \in Provider!Chains PROVE c \in Seq(Provider!Backends)
    BY <1>1, <1>2, <1>3, <1>4, <1>5
  <1> QED
    BY <1>5 DEF Provider!Calls

(* An exchange that is not tried again ends the call, or puts it to the next      *)
(* vendor.                                                                        *)
Ended(text) == answering' = "done" /\ answer' = text /\ turn' = turn
Passed == /\ answering' = "ask" /\ turn' = [vendor |-> turn.vendor + 1, attempt |-> 0]
          /\ turn.vendor < Len(ask.chain)
Exchanged == \/ reached' = reached
                  \/ reached' = reached \cup {turn.vendor}

LEMMA ProviderPasses ==
  ASSUME ProviderInv, answering = "ask", Passed, Exchanged, rejected' = rejected,
         UNCHANGED <<ask, draft>>
  PROVE  ProviderInv'
  <1>1. turn' \in [vendor : Nat, attempt : Nat] /\ turn'.vendor = turn.vendor + 1
    BY DEF ProviderInv, Passed
  <1>2. reached' \subseteq 1..turn'.vendor /\ rejected' = {}
    <2>1. turn.vendor \in 1..turn'.vendor /\ 1..turn.vendor \subseteq 1..turn'.vendor
      BY <1>1 DEF ProviderInv, Chained
    <2> QED
      BY <2>1 DEF ProviderInv, Exchanged
  <1>3. turn'.vendor \in 1..Len(ask'.chain) /\ ask' \in Provider!Calls
        /\ ask'.chain \in Seq(Provider!Backends)
    BY <1>1 DEF ProviderInv, Chained, Passed
  <1> QED
    BY <1>1, <1>2, <1>3 DEF ProviderInv, Chained, Passed

LEMMA ProviderEnds ==
  ASSUME ProviderInv, answering \in {"ask", "review"}, NEW text, Ended(text), Exchanged,
         rejected' \in {rejected, {turn.vendor}}, UNCHANGED <<ask, draft>>,
         rejected' = {} /\ text \in {"marker", "raised"} => turn.vendor = Len(ask.chain),
         ask.role = "ocr" => text \in {"stopped"} \cup (IF draft = None THEN {"whole", "blank", "marker"}
                                                        ELSE {"whole", "reviewed"})
  PROVE  ProviderInv'
  <1>1. reached' \subseteq 1..turn'.vendor /\ rejected' \subseteq {turn'.vendor}
    <2>1. turn' = turn /\ turn.vendor \in 1..turn.vendor
      BY DEF ProviderInv, Chained, Ended
    <2> QED
      BY <2>1 DEF ProviderInv, Exchanged
  <1>2. PageIsWhole'
    BY DEF Ended, PageIsWhole, Provider!PageIsWhole
  <1> QED
    BY <1>1, <1>2 DEF ProviderInv, Chained, Ended

LEMMA ProviderStep == ASSUME ProviderInv, Provider!Next PROVE ProviderInv'
  <1> USE DEF ProviderInv, Chained, Provider!PageIsWhole, PageIsWhole
  <1>0. None \notin Provider!Errors \cup {"whole", "stopped"}
    BY MCPartsAssumption DEF Provider!ProvidersAssumption
  <1>1. ASSUME NEW c \in Provider!Calls, Provider!Begin(c) PROVE ProviderInv'
    <2>1. c.chain \in Seq(Provider!Backends) /\ (c.chain # <<>> => 1 \in 1..Len(c.chain))
      BY ChainsType
    <2> QED
      BY <1>0, <1>1, <2>1 DEF Provider!Begin
  <1>2. ASSUME NEW out, Provider!Retry(out) PROVE ProviderInv'
    BY <1>0, <1>2 DEF Provider!Retry, Provider!Reaches, Provider!Retryable, Provider!ErrorOf
  <1>3. ASSUME NEW out, Provider!Reaches(out) PROVE Exchanged
    BY <1>3 DEF Provider!Reaches, Exchanged
  <1>4. ASSUME NEW out, Provider!Fail(out) PROVE ProviderInv'
    <2> DEFINE error == Provider!ErrorOf(out)
    <2>1. /\ answering = "ask" /\ draft = None /\ rejected = {} /\ error # None
          /\ Provider!Raise(error) /\ Provider!Reaches(out) /\ UNCHANGED <<ask, draft>>
          /\ turn.vendor \in 1..Len(ask.chain)
      BY <1>4 DEF Provider!Fail
    <2>2. rejected' = IF error = "Rejected" THEN {turn.vendor} ELSE {}
      BY <2>1 DEF Provider!Reaches
    <2> HIDE DEF error
    <2>3. CASE Provider!HasPeer /\ Provider!PeerMayServe(error)
      <3>1. Passed
        BY <2>1, <2>3 DEF Provider!Raise, Provider!AskPeer, Provider!HasPeer, Passed
      <3> QED
        BY <1>3, <2>1, <2>2, <2>3, <3>1, ProviderPasses DEF Provider!PeerMayServe
    <2>4. CASE ~(Provider!HasPeer /\ Provider!PeerMayServe(error))
      <3> DEFINE text == IF error = "Untyped" /\ ask.role = "summary" THEN "raised" ELSE "marker"
      <3>1. Ended(text) /\ (ask.role = "ocr" => text = "marker")
        BY <2>1, <2>4 DEF Provider!Raise, Provider!Done, Ended
      <3>2. rejected' = {} => turn.vendor = Len(ask.chain)
        BY <2>1, <2>2, <2>4 DEF Provider!HasPeer, Provider!PeerMayServe
      <3> HIDE DEF text
      <3> QED
        BY <1>3, <2>1, <2>2, <3>1, <3>2, ProviderEnds
    <2> QED
      BY <2>3, <2>4
  <1>5. ASSUME NEW out \in Provider!Outcomes, Provider!Answer(out) PROVE ProviderInv'
    <2> DEFINE text == Provider!TextOf(out)
    <2>1. /\ answering = "ask" /\ draft = None /\ rejected = {} /\ Provider!ErrorOf(out) = None
          /\ Provider!Reaches(out) /\ UNCHANGED ask /\ turn.vendor \in 1..Len(ask.chain)
      BY <1>5 DEF Provider!Answer
    <2>2. rejected' = rejected
      BY <1>0, <2>1 DEF Provider!Reaches, Provider!Errors
    <2>3. text \in {"whole", "half", "stopped", "blank", "marker"} /\ (ask.role = "ocr" => text # "half")
      BY <1>0, <2>1 DEF Provider!TextOf, Provider!ErrorOf, Provider!Errors, Provider!Outcomes
    <2> HIDE DEF text
    <2>4. CASE ask.role = "ocr" /\ ask.proofread /\ text \in {"whole", "stopped"}
      <3>1. answering' = "review" /\ draft' = text /\ turn' = [turn EXCEPT !.attempt = 0]
            /\ UNCHANGED answer
        BY <1>5, <2>4 DEF Provider!Answer, text
      <3>2. turn' \in [vendor : Nat, attempt : Nat] /\ turn'.vendor = turn.vendor
        BY <3>1
      <3> QED
        <4>1. text # None /\ text \in {None, "whole", "stopped"}
          BY <1>0, <2>4
        <4> QED
          BY <1>3, <2>1, <2>2, <2>4, <3>1, <3>2, <4>1 DEF Exchanged
    <2>5. CASE ~(ask.role = "ocr" /\ ask.proofread /\ text \in {"whole", "stopped"})
      <3>1. Provider!Return(text) /\ UNCHANGED draft
        BY <1>5, <2>5 DEF Provider!Answer, text
      <3>2. CASE Provider!HasPeer /\ Provider!LooksFailed(text)
        <4>1. Passed
          BY <3>1, <3>2 DEF Provider!Return, Provider!AskPeer, Provider!HasPeer, Passed
        <4> QED
          BY <1>3, <2>1, <2>2, <3>1, <4>1, ProviderPasses
      <3>3. CASE ~(Provider!HasPeer /\ Provider!LooksFailed(text))
        <4>1. Ended(text)
          BY <3>1, <3>3 DEF Provider!Return, Provider!Done, Ended
        <4>2. text \in {"marker", "raised"} => turn.vendor = Len(ask.chain)
          BY <2>1, <2>3, <3>3 DEF Provider!HasPeer, Provider!LooksFailed
        <4> QED
          BY <1>3, <2>1, <2>2, <2>3, <3>1, <4>1, <4>2, ProviderEnds
      <3> QED
        BY <3>2, <3>3
    <2> QED
      BY <2>4, <2>5
  <1>6. ASSUME NEW out, Provider!Review(out) PROVE ProviderInv'
    <2> DEFINE text == Provider!Reviewed(out)
    <2>1. /\ answering = "review" /\ draft \in {"whole", "stopped"} /\ rejected = {} /\ ask.role = "ocr"
          /\ Provider!Reaches(out) /\ UNCHANGED <<ask, draft>> /\ Provider!Return(text)
      BY <1>0, <1>6 DEF Provider!Review
    <2>2. text \in {"whole", "reviewed", "stopped"}
      BY <2>1 DEF Provider!Reviewed
    <2> HIDE DEF text
    <2>3. Ended(text)
      BY <2>1, <2>2 DEF Provider!Return, Provider!LooksFailed, Provider!Done, Ended
    <2>4. rejected' \in {rejected, {turn.vendor}}
      BY <2>1 DEF Provider!Reaches
    <2> QED
      BY <1>0, <1>3, <2>1, <2>2, <2>3, <2>4, ProviderEnds
  <1>7. ASSUME NEW out, Provider!ReviewAgain(out) PROVE ProviderInv'
    <2>1. rejected' = rejected /\ Exchanged
      BY <1>3, <1>7 DEF Provider!ReviewAgain, Provider!Reaches, Provider!Retryable, Provider!ErrorOf
    <2>2. turn' = [turn EXCEPT !.attempt = 1] /\ UNCHANGED <<ask, answering, draft, answer>>
      BY <1>7 DEF Provider!ReviewAgain
    <2>3. turn' \in [vendor : Nat, attempt : Nat] /\ turn'.vendor = turn.vendor
      BY <2>2
    <2> QED
      BY <1>7, <2>1, <2>2, <2>3 DEF Exchanged, Provider!ReviewAgain
  <1> QED
    BY <1>1, <1>2, <1>4, <1>5, <1>6, <1>7 DEF Provider!Next

LEMMA ProviderAlways == ASSUME ProviderInv, [Next]_vars PROVE ProviderInv'
  <1>1. CASE UNCHANGED providerVars
    BY <1>1 DEF ProviderInv, Chained, providerVars, PageIsWhole, Provider!PageIsWhole
  <1> QED
    BY <1>1, StepOfParts, ProviderStep

(* Providers: content goes to the second vendor where that can help, and there    *)
(* only, for every chain of vendors and every number of retries.                  *)
THEOREM FailoverHelps == Spec => []FailoverWhereItHelps
  <1>1. Init => ProviderInv
    BY ProviderStarts DEF Init
  <1>2. ProviderInv /\ [Next]_vars => ProviderInv'
    BY ProviderAlways
  <1> QED
    BY <1>1, <1>2, ProviderKnows, PTL DEF Spec

(* Providers: a transcription the pipeline takes for a page is a whole page or    *)
(* what a content filter let through of it, never what the output limit cut, and   *)
(* no failure or blank once a vendor transcribed it, for every chain of vendors    *)
(* and every number of retries.                                                    *)
THEOREM PagesAreWhole == Spec => []PageIsWhole
  <1>1. Init => ProviderInv
    BY ProviderStarts DEF Init
  <1>2. ProviderInv /\ [Next]_vars => ProviderInv'
    BY ProviderAlways
  <1> QED
    BY <1>1, <1>2, ProviderKnows, PTL DEF Spec

-----------------------------------------------------------------------------
(* The calls of the summary model: what is left until the next slot makes up for *)
(* the interval since the last claim, and who is past the semaphore holds one of  *)
(* its places.                                                                    *)
Shaped == summariser = [t \in Summary!SummaryThreads |->
              [at |-> summariser[t].at, kind |-> summariser[t].kind, of |-> summariser[t].of]]
Inside == {"turn", "asleep", "ready", "calling"}
Seats ==
    /\ IsFiniteSet(held) /\ Cardinality(held) <= SummarySlots
    /\ \A t \in Summary!SummaryThreads : summariser[t].at \in Inside => t \in held
SpacingInv ==
    /\ Shaped /\ Seats
    /\ nextCall \in Nat
    /\ begun # None => begun \in Nat /\ begun <= SummaryInterval /\ SummaryInterval <= nextCall + begun

LEMMA SpacingStarts == ASSUME Summary!Init PROVE SpacingInv
  <1>1. Shaped
    BY DEF Summary!Init, Shaped, Summary!Free
  <1>2. Seats
    BY FS_EmptySet, MCPartsAssumption
       DEF Summary!Init, Seats, Inside, Summary!Free, Summary!SummaryCallsAssumption
  <1> QED
    BY <1>1, <1>2, MCPartsAssumption DEF Summary!Init, SpacingInv, Summary!SummaryCallsAssumption

(* Threads take a new place, or move on in the one they have.                     *)
LEMMA SummariserMoves ==
  ASSUME Shaped, NEW t \in Summary!SummaryThreads
  PROVE  /\ \A kind, of : Summary!Asks(t, kind, of) => Shaped' /\ summariser'[t].at = "queued"
         /\ Summary!Done(t) => Shaped' /\ summariser'[t].at = "free"
         /\ \A a : summariser' = [summariser EXCEPT ![t].at = a] => Shaped' /\ summariser'[t].at = a
  <1>1. ASSUME NEW kind, NEW of, Summary!Asks(t, kind, of)
        PROVE  Shaped' /\ summariser'[t].at = "queued"
    BY <1>1 DEF Summary!Asks, Shaped
  <1>2. ASSUME Summary!Done(t) PROVE Shaped' /\ summariser'[t].at = "free"
    BY <1>2 DEF Summary!Done, Summary!Free, Shaped
  <1>3. ASSUME NEW a, summariser' = [summariser EXCEPT ![t].at = a]
        PROVE  Shaped' /\ summariser'[t].at = a
    BY <1>3 DEF Shaped
  <1> QED
    BY <1>1, <1>2, <1>3

(* The module of the summary model counts as this one does.                       *)
LEMMA SameCount == \A S : Summary!Cardinality(S) = Cardinality(S)
  BY DEF Summary!Cardinality, Cardinality

(* Who enters the semaphore finds a place there, and who leaves it is done.       *)
LEMMA SeatsKept ==
  ASSUME Shaped, Seats, NEW t \in Summary!SummaryThreads, NEW new,
         summariser' = [summariser EXCEPT ![t] = new],
         \/ held' = held /\ (summariser'[t].at \in Inside => t \in held)
         \/ held' = held \cup {t} /\ Cardinality(held) < SummarySlots
         \/ held' = held \ {t} /\ summariser'[t].at \notin Inside
  PROVE  Seats'
  <1>0. IsFiniteSet(held) /\ Cardinality(held) \in Nat /\ SummarySlots \in Nat
    BY FS_CardinalityType, MCPartsAssumption DEF Seats, Summary!SummaryCallsAssumption
  <1>1. \A u \in Summary!SummaryThreads : u # t => summariser'[u] = summariser[u]
    BY DEF Shaped
  <1>2. \A u \in Summary!SummaryThreads : summariser'[u].at \in Inside => u \in held'
    BY <1>1 DEF Seats
  <1>3. IsFiniteSet(held') /\ Cardinality(held') <= SummarySlots
    <2>1. CASE held' = held
      BY <2>1 DEF Seats
    <2>2. CASE held' = held \cup {t} /\ Cardinality(held) < SummarySlots
      BY <1>0, <2>2, FS_AddElement
    <2>3. CASE held' = held \ {t}
      <3>1. /\ IsFiniteSet(held \ {t})
            /\ Cardinality(held \ {t}) = IF t \in held THEN Cardinality(held) - 1 ELSE Cardinality(held)
        BY <1>0, FS_RemoveElement
      <3> QED
        BY <1>0, <2>3, <3>1 DEF Seats
    <2> QED
      BY <2>1, <2>2, <2>3
  <1> QED
    BY <1>2, <1>3 DEF Seats

(* A request that goes out has a place in the semaphore, and those with the model *)
(* hold the others.                                                               *)
LEMMA RoomToSend ==
  ASSUME Seats, NEW t \in Summary!SummaryThreads, summariser[t].at = "ready"
  PROVE  Cardinality(Summary!Calling) < SummarySlots
  <1>1. Summary!Calling \in SUBSET held /\ t \in held /\ t \notin Summary!Calling
    BY DEF Summary!Calling, Seats, Inside
  <1>2. /\ Cardinality(Summary!Calling) <= Cardinality(held)
        /\ Cardinality(held) # Cardinality(Summary!Calling)
        /\ IsFiniteSet(Summary!Calling)
    BY <1>1, FS_Subset DEF Seats
  <1>3. Cardinality(Summary!Calling) \in Nat /\ Cardinality(held) \in Nat /\ SummarySlots \in Nat
    BY <1>2, FS_CardinalityType, MCPartsAssumption DEF Seats, Summary!SummaryCallsAssumption
  <1> QED
    BY <1>2, <1>3 DEF Seats

(* A slot is claimed when it has come, which moves the next one, and nothing else *)
(* touches the slot; a request goes out while there is room for it.               *)
Begun == \A t \in Summary!SummaryThreads :
    /\ summariser'[t].at = "ready" /\ summariser[t].at \notin {"ready", "calling"} =>
           begun = None \/ begun >= SummaryInterval
    /\ summariser'[t].at = "calling" /\ summariser[t].at # "calling" =>
           Cardinality(Summary!Calling) < SummarySlots

LEMMA SpacingStep == ASSUME SpacingInv, Summary!Next PROVE SpacingInv' /\ Begun
  <1> USE DEF SpacingInv
  <1>0. SummaryInterval \in Nat /\ None \notin Nat
    BY MCPartsAssumption DEF Summary!SummaryCallsAssumption
  <1>1. ASSUME NEW t \in Summary!SummaryThreads, NEW new,
               summariser' = [summariser EXCEPT ![t] = new],
               summariser'[t].at \notin {"ready", "calling"}
        PROVE  Begun
    BY <1>1 DEF Begun, Shaped
  <1>2. ASSUME UNCHANGED <<nextCall, begun>>, NEW t \in Summary!SummaryThreads,
               \/ Summary!Done(t) \/ \E kind, of : Summary!Asks(t, kind, of)
               \/ \E a \in {"turn", "queued"} : summariser' = [summariser EXCEPT ![t].at = a],
               \/ held' = held /\ (summariser'[t].at = "turn" => t \in held)
               \/ held' = held \cup {t} /\ Cardinality(held) < SummarySlots
               \/ held' = held \ {t} /\ summariser'[t].at # "turn"
        PROVE  SpacingInv' /\ Begun
    <2>1. Shaped' /\ summariser'[t].at \in {"free", "turn", "queued"}
      BY <1>2, SummariserMoves
    <2>2. PICK new : summariser' = [summariser EXCEPT ![t] = new]
      BY <1>2 DEF Summary!Done, Summary!Asks
    <2>3. summariser'[t].at \in Inside <=> summariser'[t].at = "turn"
      BY <2>1 DEF Inside
    <2>4. Seats'
      BY <1>2, <2>2, <2>3, SeatsKept
    <2> QED
      BY <1>1, <1>2, <2>1, <2>2, <2>4
  <1>3. ASSUME UNCHANGED <<nextCall, begun, summariser, held>> PROVE SpacingInv' /\ Begun
    BY <1>3 DEF Begun, Shaped, Seats
  <1>4. ASSUME Summary!Tick PROVE SpacingInv' /\ Begun
    <2>1. UNCHANGED <<held, summariser>> /\ nextCall' = IF nextCall = 0 THEN 0 ELSE nextCall - 1
      BY <1>4 DEF Summary!Tick, Summary!Less
    <2>2. begun' = IF begun = None \/ begun = SummaryInterval THEN begun ELSE begun + 1
      BY <1>4 DEF Summary!Tick
    <2>3. /\ nextCall' \in Nat
          /\ begun' # None =>
                begun' \in Nat /\ begun' <= SummaryInterval /\ SummaryInterval <= nextCall' + begun'
      BY <1>0, <2>1, <2>2
    <2>4. Shaped' /\ Seats' /\ Begun
      BY <2>1 DEF Begun, Shaped, Seats
    <2> QED
      BY <2>3, <2>4
  <1>5. ASSUME NEW d, NEW paper, NEW singly, Summary!Start(d, paper, singly) PROVE SpacingInv' /\ Begun
    BY <1>3, <1>5 DEF Summary!Start
  <1>6. ASSUME NEW d \in SummaryDocs, NEW w \in 1..SummarySlots, Summary!TakeBatch(d, w)
        PROVE  SpacingInv' /\ Begun
    <2>1. <<d, w>> \in Summary!SummaryThreads
      BY DEF Summary!SummaryThreads
    <2>2. /\ UNCHANGED <<nextCall, begun, held>>
          /\ \E kind, of : Summary!Asks(<<d, w>>, kind, of)
      BY <1>6 DEF Summary!TakeBatch
    <2>3. summariser'[<<d, w>>].at = "queued"
      BY <2>1, <2>2, SummariserMoves
    <2> QED
      BY <1>2, <2>1, <2>2, <2>3
  <1>7. ASSUME NEW d \in SummaryDocs, Summary!SectionsDone(d), 1 \in 1..SummarySlots
        PROVE  SpacingInv' /\ Begun
    <2>1. <<d, 1>> \in Summary!SummaryThreads
      BY <1>7 DEF Summary!SummaryThreads
    <2>2. CASE UNCHANGED summariser
      BY <1>3, <1>7, <2>2 DEF Summary!SectionsDone
    <2>3. CASE Summary!Asks(<<d, 1>>, "brief", {})
      <3>1. UNCHANGED <<nextCall, begun, held>>
        BY <1>7 DEF Summary!SectionsDone
      <3>2. summariser'[<<d, 1>>].at = "queued"
        BY <2>1, <2>3, SummariserMoves
      <3> QED
        BY <1>2, <2>1, <2>3, <3>1, <3>2
    <2> QED
      BY <1>7, <2>2, <2>3 DEF Summary!SectionsDone
  <1>8. ASSUME NEW t \in Summary!SummaryThreads,
               Summary!Acquire(t) \/ Summary!Wake(t)
        PROVE  SpacingInv' /\ Begun
    <2>1. /\ \E a \in {"turn", "queued"} : summariser' = [summariser EXCEPT ![t].at = a]
          /\ UNCHANGED <<nextCall, begun>>
      BY <1>8 DEF Summary!Acquire, Summary!Wake
    <2>2. CASE Summary!Acquire(t)
      BY <1>2, <2>1, <2>2, SameCount DEF Summary!Acquire
    <2>3. CASE Summary!Wake(t)
      <3>1. held' = held /\ t \in held
        BY <2>3 DEF Summary!Wake, Seats, Inside
      <3> QED
        BY <1>2, <2>1, <3>1
    <2> QED
      BY <1>8, <2>2, <2>3
  <1>9. ASSUME NEW t \in Summary!SummaryThreads, Summary!Claim(t) PROVE SpacingInv' /\ Begun
    <2>0. held' = held /\ t \in held
      BY <1>9 DEF Summary!Claim, Seats, Inside
    <2>1. CASE nextCall = 0
      <3>1. /\ nextCall' = SummaryInterval /\ begun' = 0
            /\ summariser' = [summariser EXCEPT ![t].at = "ready"]
        BY <1>9, <2>1 DEF Summary!Claim, Summary!Begins
      <3>2. Shaped' /\ summariser'[t].at = "ready"
        BY <3>1, SummariserMoves
      <3>3. begun = None \/ begun >= SummaryInterval
        BY <1>0, <2>1
      <3>4. Seats'
        <4>1. \E new : summariser' = [summariser EXCEPT ![t] = new]
          BY <3>1
        <4> QED
          BY <2>0, <4>1, SeatsKept
      <3>5. \A u \in Summary!SummaryThreads : u # t => summariser'[u] = summariser[u]
        BY <3>1 DEF Shaped
      <3>6. Begun
        BY <3>2, <3>3, <3>5 DEF Begun
      <3> QED
        BY <1>0, <3>1, <3>2, <3>4, <3>6
    <2>2. CASE nextCall # 0
      <3>1. summariser' = [summariser EXCEPT ![t].at = "asleep"] /\ UNCHANGED <<nextCall, begun>>
        BY <1>9, <2>2 DEF Summary!Claim
      <3>2. Shaped' /\ summariser'[t].at = "asleep"
        BY <3>1, SummariserMoves
      <3>3. PICK new : summariser' = [summariser EXCEPT ![t] = new]
        BY <3>1
      <3>4. Seats'
        BY <2>0, <3>3, SeatsKept
      <3> QED
        BY <1>1, <3>1, <3>2, <3>3, <3>4
    <2> QED
      BY <2>1, <2>2
  <1>10. ASSUME NEW t \in Summary!SummaryThreads, NEW out, Summary!Reply(t, out)
         PROVE  SpacingInv' /\ Begun
    <2>1. UNCHANGED <<nextCall, begun>> /\ held' = held \ {t}
      BY <1>10 DEF Summary!Reply
    <2>2. Summary!Done(t) \/ (\E kind, of : Summary!Asks(t, kind, of))
      BY <1>10 DEF Summary!Reply, Summary!One, Summary!Several, Summary!Single, Summary!Overview,
         Summary!Raises
    <2>3. summariser'[t].at \in {"free", "queued"}
      BY <2>2, SummariserMoves
    <2> QED
      BY <1>2, <2>1, <2>2, <2>3
  <1>11. 1 \in 1..SummarySlots
    BY MCPartsAssumption DEF Summary!SummaryCallsAssumption
  <1>12. ASSUME NEW t \in Summary!SummaryThreads, Summary!Send(t) PROVE SpacingInv' /\ Begun
    <2>1. /\ summariser' = [summariser EXCEPT ![t].at = "calling"]
          /\ UNCHANGED <<nextCall, begun, held>>
          /\ summariser[t].at = "ready"
      BY <1>12 DEF Summary!Send
    <2>2. Shaped' /\ summariser'[t].at = "calling"
      BY <2>1, SummariserMoves
    <2>3. Seats'
      <3>1. t \in held /\ \E new : summariser' = [summariser EXCEPT ![t] = new]
        BY <2>1 DEF Seats, Inside
      <3> QED
        BY <2>1, <3>1, SeatsKept
    <2>4. \A u \in Summary!SummaryThreads : u # t => summariser'[u] = summariser[u]
      BY <2>1 DEF Shaped
    <2>5. Begun
      BY <2>1, <2>2, <2>4, RoomToSend DEF Begun
    <2> QED
      BY <2>1, <2>2, <2>3, <2>5
  <1>13. ASSUME NEW t \in Summary!SummaryThreads, Summary!GoesWrong(t) PROVE SpacingInv' /\ Begun
    <2>1. /\ summariser' = [summariser EXCEPT ![t].at = "ready"]
          /\ UNCHANGED <<nextCall, begun, held>>
          /\ summariser[t].at = "calling"
      BY <1>13 DEF Summary!GoesWrong
    <2>2. Shaped' /\ summariser'[t].at = "ready"
      BY <2>1, SummariserMoves
    <2>3. Seats'
      <3>1. t \in held /\ \E new : summariser' = [summariser EXCEPT ![t] = new]
        BY <2>1 DEF Seats, Inside
      <3> QED
        BY <2>1, <3>1, SeatsKept
    <2>4. \A u \in Summary!SummaryThreads : u # t => summariser'[u] = summariser[u]
      BY <2>1 DEF Shaped
    <2>5. Begun
      BY <2>1, <2>2, <2>4 DEF Begun
    <2> QED
      BY <2>1, <2>2, <2>3, <2>5
  <1> QED
    BY <1>4, <1>5, <1>6, <1>7, <1>8, <1>9, <1>10, <1>11, <1>12, <1>13 DEF Summary!Next

-----------------------------------------------------------------------------
(* Search: who waits for a turn has a slot of its own, an interval from every    *)
(* other slot of that backend, and nobody is past a deadline or a timer.          *)
Times == Nat \cup {None}
CallerType ==
    [at : {"idle", "turn", "asking", "hits", "capturing", "done"}, names : Seq(Search!Backends),
     capture : BOOLEAN, deadline : Times, wake : Times, hits : Nat, ended : Times]
InTime(k, t) ==
    k.deadline # None =>
        /\ IF k.at = "done" THEN k.ended # None /\ k.ended <= k.deadline ELSE t <= k.deadline
        /\ k.at = "capturing" => k.wake # None /\ k.wake <= k.deadline
Sound(k, t) ==
    /\ k \in CallerType
    /\ k.at = "idle" => k.deadline = None
    /\ k.at \in {"turn", "asking"} => k.names # <<>>
    /\ k.at = "turn" => k.wake \in Nat /\ t <= k.wake
    /\ k.at = "capturing" => k.hits # 0
    /\ InTime(k, t)
Heads(k, b) == k.at = "turn" /\ Head(k.names) = b
Apart(s, t) == s + SearchInterval <= t \/ t + SearchInterval <= s

SearchInv ==
    /\ now \in Nat
    /\ allowed \in [Search!Backends -> Nat]
    /\ queried \in [Search!Backends -> [times : Nat, last : Times]]
    /\ caller \in [Clients -> CallerType]
    /\ \A c \in Clients : Sound(caller[c], now)
    /\ \A b \in Search!Backends, c \in Clients :
          Heads(caller[c], b) =>
             /\ caller[c].wake + SearchInterval <= allowed[b]
             /\ queried[b].last # None => queried[b].last + SearchInterval <= caller[c].wake
    /\ \A b \in Search!Backends, c, d \in Clients :
          c # d /\ Heads(caller[c], b) /\ Heads(caller[d], b) => Apart(caller[c].wake, caller[d].wake)
    /\ \A b \in Search!Backends :
          queried[b].last # None => queried[b].last <= now /\ queried[b].last + SearchInterval <= allowed[b]

LEMMA SearchFacts ==
  /\ SearchInterval \in Nat /\ MaxWait \in Nat /\ SearchTimeout \in Nat /\ MinShare \in Nat
  /\ MaxHits \in Nat /\ Budgets \subseteq Nat /\ None \notin Nat
  /\ \A k \in {SearchChain} \cup {<<b>> : b \in Search!Backends} :
        k \in Seq(Search!Backends) /\ k # <<>>
  <1>1. ASSUME NEW k \in {SearchChain} \cup {<<b>> : b \in Search!Backends}
        PROVE  k \in Seq(Search!Backends) /\ k # <<>>
    <2>1. CASE k = SearchChain
      BY <2>1, MCPartsAssumption DEF Search!SearchAssumption
    <2>2. CASE k \in {<<b>> : b \in Search!Backends}
      <3>1. PICK b \in Search!Backends : k = <<b>>
        BY <2>2
      <3> QED
        BY <3>1
    <2> QED
      BY <1>1, <2>1, <2>2
  <1> QED
    BY <1>1, MCPartsAssumption DEF Search!SearchAssumption

LEMMA SearchStarts == ASSUME Search!Init PROVE SearchInv
  <1>1. Search!NoCaller \in CallerType
    BY DEF Search!NoCaller, CallerType, Times
  <1> QED
    BY <1>1, SearchFacts DEF Search!Init, Search!NoCaller, SearchInv, Sound, InTime, Heads, Times

(* A caller that does not come to wait for a turn moves; nothing else does.       *)
LEMMA CallerMoves ==
  ASSUME SearchInv, NEW c \in Clients, NEW new, Sound(new, now), new.at # "turn",
         caller' = [caller EXCEPT ![c] = new], UNCHANGED <<now, allowed, queried>>
  PROVE  SearchInv'
  <1>1. \A d \in Clients : caller'[d] = IF d = c THEN new ELSE caller[d]
    BY DEF SearchInv
  <1>2. \A b : ~Heads(new, b)
    BY DEF Heads
  <1>3. caller' \in [Clients -> CallerType]
    BY DEF SearchInv, Sound
  <1> HIDE DEF CallerType, Heads, Apart
  <1> QED
    BY <1>1, <1>2, <1>3 DEF SearchInv

(* A caller takes the next free slot of the first backend of its list.            *)
LEMMA CallerTakesSlot ==
  ASSUME SearchInv, NEW c \in Clients, NEW k, NEW slot \in Nat, NEW new, NEW b \in Search!Backends,
         b = Head(k.names), now <= slot, allowed[b] <= slot, Sound(new, now),
         new.at = "turn", new.names = k.names, new.wake = slot,
         allowed' = [allowed EXCEPT ![b] = slot + SearchInterval],
         caller' = [caller EXCEPT ![c] = new], UNCHANGED <<now, queried>>
  PROVE  SearchInv'
  <1>1. \A d \in Clients : caller'[d] = IF d = c THEN new ELSE caller[d]
    BY DEF SearchInv
  <1>2. caller' \in [Clients -> CallerType] /\ SearchInterval \in Nat
    BY SearchFacts DEF SearchInv, Sound
  <1>3. \A e : Heads(new, e) <=> e = b
    BY DEF Heads
  <1>4. \A e \in Search!Backends :
           allowed'[e] = IF e = b THEN slot + SearchInterval ELSE allowed[e]
    BY DEF SearchInv
  <1>5. allowed' \in [Search!Backends -> Nat]
    BY <1>2 DEF SearchInv
  <1>6. \A d \in Clients : caller[d].at = "turn" => caller[d].wake \in Nat
    BY DEF SearchInv, Sound
  <1>7. ASSUME NEW e \in Search!Backends, NEW d \in Clients, Heads(caller'[d], e)
        PROVE  /\ caller'[d].wake + SearchInterval <= allowed'[e]
               /\ queried[e].last # None => queried[e].last + SearchInterval <= caller'[d].wake
    <2>1. CASE d = c
      BY <1>1, <1>2, <1>3, <1>4, <1>7, <2>1 DEF SearchInv, Times
    <2>2. CASE d # c
      <3>1. /\ caller[d].wake + SearchInterval <= allowed[e]
            /\ queried[e].last # None => queried[e].last + SearchInterval <= caller[d].wake
        BY <1>1, <1>7, <2>2 DEF SearchInv
      <3> QED
        BY <1>1, <1>2, <1>4, <1>6, <1>7, <2>2, <3>1 DEF Heads, SearchInv
    <2> QED
      BY <2>1, <2>2
  <1>8. ASSUME NEW e \in Search!Backends, NEW d \in Clients, NEW f \in Clients, d # f,
               Heads(caller'[d], e), Heads(caller'[f], e)
        PROVE  Apart(caller'[d].wake, caller'[f].wake)
    <2>1. CASE d # c /\ f # c
      BY <1>1, <1>8, <2>1 DEF SearchInv
    <2>2. CASE d = c
      BY <1>1, <1>2, <1>3, <1>6, <1>8, <2>2 DEF SearchInv, Apart, Heads
    <2>3. CASE f = c
      BY <1>1, <1>2, <1>3, <1>6, <1>8, <2>3 DEF SearchInv, Apart, Heads
    <2> QED
      BY <2>1, <2>2, <2>3
  <1>9. \A e \in Search!Backends :
          queried[e].last # None => queried[e].last <= now /\ queried[e].last + SearchInterval <= allowed'[e]
    BY <1>2, <1>4 DEF SearchInv, Times
  <1>10. \A d \in Clients : Sound(caller'[d], now)
    BY <1>1 DEF SearchInv
  <1> HIDE DEF CallerType, Heads, Apart, Sound, Times
  <1> QED
    BY <1>2, <1>5, <1>7, <1>8, <1>9, <1>10 DEF SearchInv

(* What the steps of a caller leave in its record.                                *)
Ats == {"idle", "turn", "asking", "hits", "capturing", "done"}
Same(r, k) == r.names = k.names /\ r.capture = k.capture /\ r.deadline = k.deadline
LEMMA AnswerIsSound ==
  ASSUME NEW k \in CallerType, now \in Nat, k.deadline # None => now <= k.deadline
  PROVE  Sound(Search!Answered(k), now) /\ Search!Answered(k).at = "done"
  <1>1. now \in Times /\ None \in Times /\ "done" \in Ats /\ now # None
    BY SearchFacts DEF Times, Ats
  <1> DEFINE r == [k EXCEPT !.at = "done", !.wake = None, !.ended = now]
  <1>2. r \in CallerType /\ Same(r, k) /\ r.at = "done" /\ r.ended = now
    BY <1>1 DEF CallerType, Same, Ats
  <1>3. r = Search!Answered(k)
    BY DEF Search!Answered
  <1> HIDE DEF r
  <1> QED
    BY <1>1, <1>2, <1>3 DEF Sound, InTime, Same

LEMMA CallerAnswered ==
  ASSUME SearchInv, NEW c \in Clients, NEW k \in CallerType, k.deadline # None => now <= k.deadline,
         caller' = [caller EXCEPT ![c] = Search!Answered(k)], UNCHANGED <<now, allowed, queried>>
  PROVE  SearchInv'
  <1>1. Sound(Search!Answered(k), now) /\ Search!Answered(k).at # "turn"
    BY AnswerIsSound DEF SearchInv
  <1> QED
    BY <1>1, CallerMoves

LEMMA CallerTakesTurn ==
  ASSUME SearchInv, NEW c \in Clients, NEW k \in CallerType, k.names # <<>>,
         k.deadline # None => now <= k.deadline,
         Search!TakesTurn(c, k), UNCHANGED <<now, queried>>
  PROVE  SearchInv'
  <1>1. CASE Search!Refused(k)
    BY <1>1, CallerAnswered DEF Search!TakesTurn
  <1>2. CASE ~Search!Refused(k)
    <2> DEFINE b == Head(k.names)
               slot == Search!Slot(b)
               new == [k EXCEPT !.at = "turn", !.wake = slot]
    <2>1. b \in Search!Backends
      BY DEF CallerType
    <2>2. slot \in Nat /\ now <= slot /\ allowed[b] <= slot
      <3>1. now \in Nat /\ allowed[b] \in Nat
        BY <2>1 DEF SearchInv
      <3>2. slot = IF now >= allowed[b] THEN now ELSE allowed[b]
        BY <3>1 DEF Search!Slot, Search!Max
      <3> QED
        BY <3>1, <3>2
    <2>3. /\ allowed' = [allowed EXCEPT ![b] = slot + SearchInterval]
          /\ caller' = [caller EXCEPT ![c] = new]
      BY <1>2 DEF Search!TakesTurn
    <2> HIDE DEF slot
    <2>4. new \in CallerType /\ Same(new, k) /\ new.at = "turn" /\ new.wake = slot
      <3>1. slot \in Times /\ "turn" \in Ats
        BY <2>2 DEF Times, Ats
      <3> QED
        BY <3>1 DEF CallerType, Same, Ats
    <2> HIDE DEF new, b
    <2>5. Sound(new, now)
      BY <2>2, <2>4 DEF Sound, InTime, Same
    <2> QED
      BY <2>1, <2>2, <2>3, <2>4, <2>5, CallerTakesSlot DEF b, Same
  <1> QED
    BY <1>1, <1>2

Spaced == \A b \in Search!Backends :
    queried'[b].times # queried[b].times /\ queried[b].last # None
        => queried'[b].last >= queried[b].last + SearchInterval

(* The turn of a caller has come, and is now, since no timer is overslept.        *)
LEMMA SearchQuery == ASSUME SearchInv, NEW c \in Clients, Search!Query(c) PROVE SearchInv' /\ Spaced
  <1> DEFINE k == caller[c]
             b == Head(k.names)
             new == [k EXCEPT !.at = "asking", !.wake = now + SearchTimeout]
             spent == [times |-> queried[b].times + 1, last |-> now]
  <1>1. /\ k \in CallerType /\ k.at = "turn" /\ k.names # <<>> /\ k.wake \in Nat /\ k.wake = now
        /\ InTime(k, now) /\ now \in Nat /\ SearchInterval \in Nat /\ None \notin Nat
    BY SearchFacts DEF Search!Query, Search!At, SearchInv, Sound
  <1>2. b \in Search!Backends /\ Heads(k, b)
    BY <1>1 DEF CallerType, Heads
  <1>3. /\ queried' = [queried EXCEPT ![b] = spent] /\ caller' = [caller EXCEPT ![c] = new]
        /\ UNCHANGED <<now, allowed>>
    BY DEF Search!Query
  <1>4. now + SearchTimeout \in Times
    BY <1>1, SearchFacts DEF Times
  <1>5. new \in CallerType /\ Same(new, k) /\ new.at = "asking"
    BY <1>1, <1>4 DEF CallerType, Same
  <1>6. spent \in [times : Nat, last : Times] /\ spent.last = now
    BY <1>1, <1>2 DEF SearchInv, Times
  <1> HIDE DEF new, spent, b
  <1>7. Sound(new, now)
    BY <1>1, <1>5 DEF Sound, InTime, Same
  <1>8. \A d \in Clients : caller'[d] = IF d = c THEN new ELSE caller[d]
    BY <1>3 DEF SearchInv
  <1>9. \A e \in Search!Backends : queried'[e] = IF e = b THEN spent ELSE queried[e]
    BY <1>3 DEF SearchInv
  <1>10. caller' \in [Clients -> CallerType] /\ queried' \in [Search!Backends -> [times : Nat, last : Times]]
    BY <1>3, <1>5, <1>6 DEF SearchInv
  <1>11. ASSUME NEW e \in Search!Backends, NEW d \in Clients, Heads(caller'[d], e)
         PROVE  /\ Heads(caller[d], e) /\ caller'[d] = caller[d] /\ d # c
                /\ caller[d].wake + SearchInterval <= allowed[e]
                /\ queried'[e].last # None => queried'[e].last + SearchInterval <= caller[d].wake
    <2>1. Heads(caller[d], e) /\ caller'[d] = caller[d] /\ d # c
      BY <1>5, <1>8, <1>11 DEF Heads
    <2>2. /\ caller[d].wake + SearchInterval <= allowed[e]
          /\ queried[e].last # None => queried[e].last + SearchInterval <= caller[d].wake
      BY <2>1 DEF SearchInv
    <2>3. CASE e = b
      <3>1. Apart(k.wake, caller[d].wake) /\ caller[d].wake \in Nat /\ now <= caller[d].wake
        BY <1>2, <2>1, <2>3 DEF SearchInv, Heads, Sound
      <3> QED
        BY <1>1, <1>6, <1>9, <2>1, <2>2, <2>3, <3>1 DEF Apart
    <2>4. CASE e # b
      BY <1>9, <2>1, <2>2, <2>4
    <2> QED
      BY <2>3, <2>4
  <1>12. ASSUME NEW e \in Search!Backends, queried'[e].last # None
         PROVE  queried'[e].last <= now /\ queried'[e].last + SearchInterval <= allowed[e]
    <2>1. CASE e = b
      BY <1>1, <1>2, <1>6, <1>9, <2>1 DEF SearchInv
    <2>2. CASE e # b
      BY <1>9, <1>12, <2>2 DEF SearchInv
    <2> QED
      BY <2>1, <2>2
  <1>13. Spaced
    <2>1. queried[b].last # None => now >= queried[b].last + SearchInterval
      BY <1>1, <1>2 DEF SearchInv, Times
    <2> QED
      BY <1>6, <1>9, <2>1 DEF Spaced
  <1>14. SearchInv'
    <2>1. \A d \in Clients : Sound(caller'[d], now)
      BY <1>7, <1>8 DEF SearchInv
    <2>2. \A e \in Search!Backends, d, f \in Clients :
             d # f /\ Heads(caller'[d], e) /\ Heads(caller'[f], e) => Apart(caller'[d].wake, caller'[f].wake)
      BY <1>11 DEF SearchInv
    <2> HIDE DEF k
    <2> QED
      BY <1>1, <1>3, <1>10, <1>11, <1>12, <2>1, <2>2 DEF SearchInv
  <1> QED
    BY <1>13, <1>14

(* Time passes only while no timer and no deadline is due.                        *)
LEMMA SearchTick == ASSUME SearchInv, Search!Tick PROVE SearchInv'
  <1>1. now \in Nat /\ now' = now + 1 /\ UNCHANGED <<allowed, queried, caller>>
    BY DEF Search!Tick, SearchInv
  <1>2. ASSUME NEW c \in Clients PROVE Sound(caller[c], now')
    <2> DEFINE k == caller[c]
    <2>1. Sound(k, now) /\ k \in CallerType
      BY DEF SearchInv, Sound
    <2>2. /\ ~(k.wake # None /\ k.wake <= now) /\ k.at # "hits"
          /\ ~(k.at \in {"turn", "asking"} /\ k.deadline # None /\ k.deadline <= now)
      BY DEF Search!Tick, Search!Due, Search!Bounded
    <2>3. k.wake \in Times /\ k.deadline \in Times /\ k.ended \in Times
      BY <2>1 DEF CallerType
    <2>4. k.at = "turn" => k.wake \in Nat /\ now' <= k.wake
      BY <1>1, <2>1, <2>2, SearchFacts DEF Sound
    <2>5. k.deadline # None /\ k.at = "capturing" =>
             k.wake \in Nat /\ k.deadline \in Nat /\ now' <= k.wake /\ k.wake <= k.deadline
      BY <1>1, <2>1, <2>2, <2>3, SearchFacts DEF Sound, InTime, Times
    <2>6. k.deadline # None /\ k.at \in {"turn", "asking"} => k.deadline \in Nat /\ now' <= k.deadline
      BY <1>1, <2>2, <2>3 DEF Times
    <2>7. k.at \in {"idle", "turn", "asking", "hits", "capturing", "done"}
      BY <2>1 DEF CallerType
    <2>8. InTime(k, now')
      <3>1. CASE k.at = "done"
        BY <2>1, <3>1 DEF Sound, InTime
      <3>2. CASE k.at = "capturing"
        BY <1>1, <2>1, <2>5, <3>2 DEF Sound, InTime
      <3>3. CASE k.at \in {"turn", "asking"}
        BY <2>6, <3>3 DEF InTime
      <3>4. CASE k.at = "idle"
        BY <2>1, <3>4 DEF Sound, InTime
      <3> QED
        BY <2>2, <2>7, <3>1, <3>2, <3>3, <3>4
    <2> QED
      BY <2>1, <2>4, <2>8 DEF Sound
  <1>3. \A b \in Search!Backends :
          queried[b].last # None => queried[b].last <= now' /\ queried[b].last + SearchInterval <= allowed[b]
    BY <1>1, SearchFacts DEF SearchInv, Times
  <1> HIDE DEF CallerType, Heads, Apart, Sound, Times
  <1> QED
    BY <1>1, <1>2, <1>3 DEF SearchInv

(* The share of a hit is within what is left.                                     *)
LEMMA ShareFits ==
  ASSUME NEW left \in Nat, NEW hits \in Nat \ {0}, MinShare <= left
  PROVE  Search!Max({MinShare, left \div hits}) \in Nat /\ Search!Max({MinShare, left \div hits}) <= left
  <1>1. left \div hits \in Nat /\ left \div hits <= left
    OBVIOUS
  <1> DEFINE q == left \div hits
  <1> HIDE DEF q
  <1>2. Search!Max({MinShare, q}) = IF MinShare >= q THEN MinShare ELSE q
    BY <1>1, SearchFacts DEF Search!Max, q
  <1> QED
    BY <1>1, <1>2, SearchFacts DEF q

LEMMA SearchCallerSteps ==
  ASSUME SearchInv, NEW c \in Clients,
         \/ \E names \in {SearchChain} \cup {<<b>> : b \in Search!Backends}, capture \in BOOLEAN,
               budget \in Budgets \cup {None} : Search!Ask(c, names, capture, budget)
         \/ \E n \in 0..MaxHits : Search!Results(c, n)
         \/ Search!FallsThrough(c) \/ Search!Misconfigured(c) \/ Search!OutOfTime(c)
         \/ Search!NextHit(c) \/ Search!HitEnds(c)
  PROVE  SearchInv' /\ UNCHANGED queried
  <1> DEFINE k == caller[c]
  <1>1. k \in CallerType /\ Sound(k, now) /\ now \in Nat /\ None \in Times
    BY DEF SearchInv, Times
  <1>2. k.at # "done" => (k.deadline # None => now <= k.deadline)
    BY <1>1 DEF Sound, InTime
  <1>3. ASSUME NEW names \in {SearchChain} \cup {<<b>> : b \in Search!Backends}, NEW capture \in BOOLEAN,
               NEW budget \in Budgets \cup {None}, Search!Ask(c, names, capture, budget)
        PROVE  SearchInv' /\ UNCHANGED queried
    <2> DEFINE limit == IF budget = None THEN None ELSE now + budget
               new == [Search!NoCaller EXCEPT !.names = names, !.capture = capture, !.deadline = limit]
    <2>1. limit \in Times /\ (limit # None => now <= limit) /\ names \in Seq(Search!Backends) /\ names # <<>>
      BY <1>1, SearchFacts DEF Times
    <2>2. Search!TakesTurn(c, new) /\ UNCHANGED <<now, queried>>
      BY <1>3 DEF Search!Ask
    <2> HIDE DEF limit
    <2>3. new \in CallerType /\ new.names = names /\ new.deadline = limit
      BY <1>1, <2>1 DEF Search!NoCaller, CallerType
    <2> HIDE DEF new
    <2> QED
      BY <2>1, <2>2, <2>3, CallerTakesTurn
  <1>4. ASSUME k.at # "done", caller' = [caller EXCEPT ![c] = Search!Answered(k)],
               UNCHANGED <<now, allowed, queried>>
        PROVE  SearchInv' /\ UNCHANGED queried
    BY <1>1, <1>2, <1>4, CallerAnswered
  <1>5. ASSUME NEW n \in 0..MaxHits, Search!Results(c, n) PROVE SearchInv' /\ UNCHANGED queried
    <2> DEFINE new == [k EXCEPT !.at = "hits", !.hits = n, !.wake = None]
    <2>0. n \in Nat
      BY <1>5, SearchFacts
    <2>1. k.at = "asking" /\ UNCHANGED <<now, allowed, queried>> /\ n \in Nat
      BY <1>5, <2>0 DEF Search!Results, Search!At
    <2>2. CASE k.capture /\ n > 0
      <3>1. caller' = [caller EXCEPT ![c] = new]
        BY <1>5, <2>2 DEF Search!Results
      <3>2. new \in CallerType /\ Same(new, k) /\ new.at = "hits"
        BY <1>1, <2>1 DEF CallerType, Same
      <3> HIDE DEF new
      <3>3. Sound(new, now)
        BY <1>2, <2>1, <3>2 DEF Sound, InTime, Same
      <3> QED
        BY <2>1, <3>1, <3>2, <3>3, CallerMoves
    <2>3. CASE ~(k.capture /\ n > 0)
      BY <1>4, <1>5, <2>1, <2>3 DEF Search!Results
    <2> QED
      BY <2>2, <2>3
  <1>6. ASSUME Search!FallsThrough(c) PROVE SearchInv' /\ UNCHANGED queried
    <2> DEFINE new == [k EXCEPT !.names = Tail(@)]
    <2>1. k.at = "asking" /\ UNCHANGED <<now, queried>> /\ k.names # <<>>
      BY <1>1, <1>6 DEF Search!FallsThrough, Search!At, Sound
    <2>2. new \in CallerType /\ new.names = Tail(k.names) /\ new.deadline = k.deadline
      <3>1. Tail(k.names) \in Seq(Search!Backends)
        BY <1>1, <2>1 DEF CallerType
      <3>2. new = [k EXCEPT !.names = Tail(k.names)]
        OBVIOUS
      <3> HIDE DEF new
      <3> QED
        BY <1>1, <3>1, <3>2 DEF CallerType
    <2>3. CASE new.names = <<>>
      <3>1. caller' = [caller EXCEPT ![c] = Search!Answered(k)] /\ UNCHANGED allowed
        BY <1>6, <2>3 DEF Search!FallsThrough
      <3> QED
        BY <1>4, <2>1, <3>1
    <2>4. CASE new.names # <<>>
      <3>1. Search!TakesTurn(c, new)
        BY <1>6, <2>4 DEF Search!FallsThrough
      <3> HIDE DEF new
      <3> QED
        BY <1>2, <2>1, <2>2, <2>4, <3>1, CallerTakesTurn
    <2> QED
      BY <2>3, <2>4
  <1>7. ASSUME Search!Misconfigured(c) \/ Search!OutOfTime(c) PROVE SearchInv' /\ UNCHANGED queried
    BY <1>4, <1>7 DEF Search!Misconfigured, Search!OutOfTime, Search!At
  <1>8. ASSUME Search!NextHit(c) PROVE SearchInv' /\ UNCHANGED queried
    <2>1. k.at = "hits" /\ UNCHANGED <<now, allowed, queried>>
      BY <1>8 DEF Search!NextHit, Search!At
    <2>2. CASE k.hits = 0 \/ Search!CutShort(k)
      BY <1>4, <1>8, <2>1, <2>2 DEF Search!NextHit
    <2>3. CASE ~(k.hits = 0 \/ Search!CutShort(k))
      <3> DEFINE w == IF k.deadline = None THEN None ELSE now + Search!ShareOfBudget(k)
                 new == [k EXCEPT !.at = "capturing", !.wake = w]
      <3>1. caller' = [caller EXCEPT ![c] = new]
        BY <1>8, <2>3 DEF Search!NextHit
      <3>2. w \in Times /\ (k.deadline # None => w # None /\ w <= k.deadline)
        <4>1. CASE k.deadline = None
          BY <1>1, <4>1
        <4>2. CASE k.deadline # None
          <5>1. k.deadline \in Nat /\ k.hits \in Nat \ {0} /\ now <= k.deadline
            BY <1>1, <1>2, <2>1, <2>3, <4>2 DEF CallerType, Times
          <5> DEFINE left == k.deadline - now
          <5>2. left \in Nat /\ MinShare <= left
            BY <1>1, <2>3, <4>2, <5>1, SearchFacts DEF Search!CutShort
          <5> DEFINE share == Search!Max({MinShare, left \div k.hits})
          <5>3. share \in Nat /\ share <= left
            BY <5>1, <5>2, ShareFits
          <5>4. w = now + share
            BY <4>2 DEF Search!ShareOfBudget
          <5> HIDE DEF share, w
          <5> QED
            BY <1>1, <5>1, <5>3, <5>4, SearchFacts DEF Times
        <4> QED
          BY <4>1, <4>2
      <3> HIDE DEF w
      <3>3. new \in CallerType /\ Same(new, k) /\ new.at = "capturing" /\ new.wake = w /\ new.hits = k.hits
        BY <1>1, <3>2 DEF CallerType, Same
      <3> HIDE DEF new
      <3>4. Sound(new, now)
        BY <1>2, <2>1, <2>3, <3>2, <3>3 DEF Sound, InTime, Same
      <3> QED
        BY <2>1, <3>1, <3>3, <3>4, CallerMoves
    <2> QED
      BY <2>2, <2>3
  <1>9. ASSUME Search!HitEnds(c) PROVE SearchInv' /\ UNCHANGED queried
    <2> DEFINE n == k.hits - 1
               new == [k EXCEPT !.at = "hits", !.hits = n, !.wake = None]
    <2>1. k.at = "capturing" /\ UNCHANGED <<now, allowed, queried>>
      BY <1>9 DEF Search!HitEnds, Search!At
    <2>2. n \in Nat
      BY <1>1, <2>1 DEF Sound, CallerType
    <2>3. caller' = [caller EXCEPT ![c] = new]
      BY <1>9 DEF Search!HitEnds
    <2> HIDE DEF n
    <2>4. new \in CallerType /\ Same(new, k) /\ new.at = "hits"
      BY <1>1, <2>2 DEF CallerType, Same
    <2> HIDE DEF new
    <2>5. Sound(new, now)
      BY <1>2, <2>1, <2>4 DEF Sound, InTime, Same
    <2> QED
      BY <2>1, <2>3, <2>4, <2>5, CallerMoves
  <1> QED
    BY <1>3, <1>5, <1>6, <1>7, <1>8, <1>9

LEMMA SearchStep == ASSUME SearchInv, Search!Next PROVE SearchInv' /\ Spaced
  <1>1. UNCHANGED queried => Spaced
    BY DEF Spaced
  <1>2. CASE Search!Tick
    BY <1>1, <1>2, SearchTick DEF Search!Tick
  <1>3. CASE \E c \in Clients : Search!Query(c)
    BY <1>3, SearchQuery
  <1> QED
    BY <1>1, <1>2, <1>3, SearchCallerSteps DEF Search!Next

LEMMA SearchAlways == ASSUME SearchInv, [Next]_vars PROVE SearchInv' /\ Spaced
  <1>1. CASE UNCHANGED searchVars
    BY <1>1 DEF SearchInv, searchVars, Spaced, Sound, InTime, Heads
  <1> QED
    BY <1>1, StepOfParts, SearchStep

LEMMA SpacingAlways == ASSUME SpacingInv, [Next]_vars PROVE SpacingInv' /\ Begun
  <1>1. CASE UNCHANGED summaryVars
    BY <1>1 DEF SpacingInv, summaryVars, Shaped, Seats, Begun
  <1> QED
    BY <1>1, StepOfParts, SpacingStep

(* Search: a call that declares a budget is answered inside it, for every chain,  *)
(* interval, share and budget.                                                    *)
THEOREM InBudget == Spec => []AnsweredInBudget
  <1>1. Init => SearchInv
    BY SearchStarts DEF Init
  <1>2. SearchInv /\ [Next]_vars => SearchInv'
    BY SearchAlways
  <1>3. SearchInv => AnsweredInBudget
    BY DEF SearchInv, Sound, InTime, AnsweredInBudget, Search!AnsweredInBudget, Search!Bounded, Search!At
  <1> QED
    BY <1>1, <1>2, <1>3, PTL DEF Spec

(* Rates: two queries of one search backend, and the start slots two calls of the *)
(* summary model claim, are at least their interval apart, whoever makes them; and *)
(* no request goes to the summary model while all its places are taken.           *)
THEOREM RatesKept == Spec => CallsSpaced
  <1>1. Init => SearchInv /\ SpacingInv
    BY SearchStarts, SpacingStarts DEF Init
  <1>2. SearchInv /\ SpacingInv /\ [Next]_vars => (SearchInv /\ SpacingInv)'
    BY SearchAlways, SpacingAlways
  <1>3. SearchInv /\ SpacingInv /\ [Next]_vars =>
           [\A b \in Search!Backends :
               queried'[b].times # queried[b].times /\ queried[b].last # None
                  => queried'[b].last >= queried[b].last + SearchInterval]_(Search!vars)
    BY SearchAlways DEF Spaced
  <1>4. SearchInv /\ SpacingInv /\ [Next]_vars =>
           [\A t \in Summary!SummaryThreads :
               /\ summariser'[t].at = "ready" /\ summariser[t].at \notin {"ready", "calling"} =>
                      begun = None \/ begun >= SummaryInterval
               /\ summariser'[t].at = "calling" /\ summariser[t].at # "calling" =>
                      Summary!Cardinality(Summary!Calling) < SummarySlots]_(Summary!vars)
    BY SpacingAlways, SameCount DEF Begun
  <1> QED
    BY <1>1, <1>2, <1>3, <1>4, PTL DEF Spec, CallsSpaced, Search!QueriesSpaced, Summary!CallsSpaced

-----------------------------------------------------------------------------
(* Summary generation: a section that is sent has a usable summary, or is still  *)
(* in no batch, or in the batch of a thread.                                     *)
Marks       == {None, "own", "model", "missing", "preview", "sentinel"}
PaperParts  == UNION {DOMAIN paper.sections : paper \in Papers}
Generations == [stage : {"idle", "sections", "brief", "digest", "done", "failed"},
                paper : Papers \cup {None}, singly : BOOLEAN, todo : SUBSET PaperParts,
                raised : BOOLEAN, summary : UNION {[S -> Marks] : S \in SUBSET PaperParts}]

Busy(d, w)  == summariser[<<d, w>>].at # "free"
Works(d, w) == IF Busy(d, w) THEN summariser[<<d, w>>].of ELSE {}
Usable(d, i) == gen[d].summary[i] \notin {None, "sentinel"}
Detailed(d) == gen[d].paper.thin \/ ~Summary!Skipped(gen[d].paper)

GenerationOf(d) ==
    /\ \A w \in 1..SummarySlots : Busy(d, w) =>
          \/ gen[d].stage = "sections" /\ summariser[<<d, w>>].kind \in {"batch", "single"}
          \/ gen[d].stage \in {"brief", "digest"} /\ w = 1 /\ summariser[<<d, w>>].kind = gen[d].stage
    /\ gen[d].stage = "sections" /\ Detailed(d) /\ ~gen[d].raised =>
          \A i \in DOMAIN gen[d].summary :
             Usable(d, i) \/ i \in gen[d].todo \/ \E w \in 1..SummarySlots : i \in Works(d, w)
    /\ gen[d].stage \in {"brief", "digest", "done"} /\ Detailed(d) =>
          \A i \in DOMAIN gen[d].summary : Usable(d, i)
GenInv ==
    /\ gen \in [SummaryDocs -> Generations]
    /\ \A d \in SummaryDocs : GenerationOf(d)

LEMMA GenStarts == ASSUME Summary!Init PROVE GenInv
  <1>1. Summary!NoGen \in Generations /\ Summary!NoGen.stage = "idle"
    <2>1. Summary!NoGen.summary \in [{} -> Marks]
      BY DEF Summary!NoGen
    <2>2. Summary!NoGen.summary \in UNION {[S -> Marks] : S \in SUBSET PaperParts}
      BY <2>1
    <2> QED
      BY <2>2 DEF Summary!NoGen, Generations
  <1>2. gen = [d \in SummaryDocs |-> Summary!NoGen]
    BY DEF Summary!Init
  <1>3. \A d \in SummaryDocs, w \in 1..SummarySlots : ~Busy(d, w)
    BY DEF Summary!Init, Summary!SummaryThreads, Summary!Free, Busy
  <1> QED
    BY <1>1, <1>2, <1>3 DEF GenInv, GenerationOf

(* A generation whose threads have the batches they had is where it was.         *)
LEMMA GenerationStays ==
  ASSUME NEW d \in SummaryDocs, GenerationOf(d), gen'[d] = gen[d],
         \A w \in 1..SummarySlots :
            /\ summariser'[<<d, w>>].at = "free" <=> summariser[<<d, w>>].at = "free"
            /\ summariser'[<<d, w>>].kind = summariser[<<d, w>>].kind
            /\ summariser'[<<d, w>>].of = summariser[<<d, w>>].of
  PROVE  GenerationOf(d)'
  <1>1. \A w \in 1..SummarySlots : (Busy(d, w)' <=> Busy(d, w)) /\ Works(d, w)' = Works(d, w)
    BY DEF Busy, Works
  <1>2. \A i : Usable(d, i)' <=> Usable(d, i)
    BY DEF Usable
  <1>3. Detailed(d)' <=> Detailed(d)
    BY DEF Detailed, Summary!Skipped
  <1> QED
    BY <1>1, <1>2, <1>3 DEF GenerationOf

(* A step of one thread leaves the others where they are.                       *)
Others(d, w) == \A e \in SummaryDocs, v \in 1..SummarySlots : <<e, v>> # <<d, w>> =>
                   summariser'[<<e, v>>] = summariser[<<e, v>>]

(* What one thread takes on and puts away: nothing is lost of what it had.       *)
LEMMA ThreadStep ==
  ASSUME GenInv, NEW d \in SummaryDocs, NEW w \in 1..SummarySlots,
         Others(d, w), gen' \in [SummaryDocs -> Generations], \A e \in SummaryDocs \ {d} : gen'[e] = gen[e],
         gen[d].stage = "sections", gen'[d].stage = "sections", gen'[d].paper = gen[d].paper,
         DOMAIN gen'[d].summary = DOMAIN gen[d].summary,
         Busy(d, w)' => summariser'[<<d, w>>].kind \in {"batch", "single"},
         ~gen'[d].raised => ~gen[d].raised,
         ~gen'[d].raised => \A i \in DOMAIN gen[d].summary :
            \/ Usable(d, i)'
            \/ /\ gen'[d].summary[i] = gen[d].summary[i]
               /\ i \in gen[d].todo \cup Works(d, w) => i \in gen'[d].todo \cup Works(d, w)'
  PROVE  GenInv'
  <1>1. ASSUME NEW e \in SummaryDocs \ {d} PROVE GenerationOf(e)'
    <2>1. \A v \in 1..SummarySlots : summariser'[<<e, v>>] = summariser[<<e, v>>]
      BY DEF Others
    <2>2. GenerationOf(e)
      BY DEF GenInv
    <2> QED
      BY <2>1, <2>2, GenerationStays
  <1>2. GenerationOf(d) /\ (Detailed(d)' <=> Detailed(d))
    BY DEF GenInv, Detailed, Summary!Skipped
  <1>3. \A v \in (1..SummarySlots) \ {w} : summariser'[<<d, v>>] = summariser[<<d, v>>]
    BY DEF Others
  <1>4. \A v \in (1..SummarySlots) \ {w} : (Busy(d, v)' <=> Busy(d, v)) /\ Works(d, v)' = Works(d, v)
    BY <1>3 DEF Busy, Works
  <1>5. ASSUME NEW v \in 1..SummarySlots, Busy(d, v)'
        PROVE  summariser'[<<d, v>>].kind \in {"batch", "single"}
    <2>1. CASE v = w
      BY <1>5, <2>1
    <2>2. CASE v # w
      BY <1>2, <1>3, <1>4, <1>5, <2>2 DEF GenerationOf
    <2> QED
      BY <2>1, <2>2
  <1>6. ASSUME Detailed(d), ~gen'[d].raised, NEW i \in DOMAIN gen[d].summary
        PROVE  Usable(d, i)' \/ i \in gen'[d].todo \/ \E v \in 1..SummarySlots : i \in Works(d, v)'
    <2>1. Usable(d, i) \/ i \in gen[d].todo \/ \E v \in 1..SummarySlots : i \in Works(d, v)
      BY <1>2, <1>6 DEF GenerationOf
    <2>2. CASE Usable(d, i)
      BY <1>6, <2>2 DEF Usable
    <2>3. CASE \E v \in (1..SummarySlots) \ {w} : i \in Works(d, v)
      BY <1>4, <2>3
    <2>4. CASE i \in gen[d].todo \cup Works(d, w)
      BY <1>6, <2>4
    <2> QED
      BY <2>1, <2>2, <2>3, <2>4
  <1>7. GenerationOf(d)'
    BY <1>2, <1>5, <1>6 DEF GenerationOf
  <1> QED
    BY <1>1, <1>7 DEF GenInv

(* What the threads show of a step of one of them.                               *)
LEMMA OneSummariser ==
  ASSUME Shaped, NEW d \in SummaryDocs, NEW w \in 1..SummarySlots, NEW t, t = <<d, w>>, NEW new,
         summariser' = [summariser EXCEPT ![t] = new]
  PROVE  summariser'[t] = new /\ Others(d, w)
  <1>1. t \in Summary!SummaryThreads
    BY DEF Summary!SummaryThreads
  <1>2. \A e \in SummaryDocs, v \in 1..SummarySlots : <<e, v>> \in Summary!SummaryThreads
    BY DEF Summary!SummaryThreads
  <1>3. summariser'[t] = new
    BY <1>1 DEF Shaped
  <1>4. Others(d, w)
    BY <1>1, <1>2 DEF Shaped, Others
  <1> QED
    BY <1>3, <1>4
LEMMA ThreadAsks ==
  ASSUME Shaped, NEW d \in SummaryDocs, NEW w \in 1..SummarySlots, NEW t, t = <<d, w>>,
         NEW kind, NEW of, Summary!Asks(t, kind, of)
  PROVE  Busy(d, w)' /\ Works(d, w)' = of /\ summariser'[t].kind = kind /\ Others(d, w)
  <1>1. PICK new : new = [at |-> "queued", kind |-> kind, of |-> of]
    OBVIOUS
  <1>2. summariser' = [summariser EXCEPT ![t] = new]
    BY <1>1 DEF Summary!Asks
  <1>3. summariser'[t] = new /\ Others(d, w)
    BY <1>2, OneSummariser
  <1> QED
    BY <1>1, <1>3 DEF Busy, Works
LEMMA ThreadDone ==
  ASSUME Shaped, NEW d \in SummaryDocs, NEW w \in 1..SummarySlots, NEW t, t = <<d, w>>, Summary!Done(t)
  PROVE  ~Busy(d, w)' /\ Others(d, w)
  <1>1. summariser'[t] = Summary!Free /\ Others(d, w)
    BY OneSummariser DEF Summary!Done
  <1> QED
    BY <1>1 DEF Summary!Free, Busy

(* What is stored of a batch.                                                    *)
LEMMA StoresBatch ==
  ASSUME gen \in [SummaryDocs -> Generations], NEW d \in SummaryDocs, NEW of, NEW what \in Marks,
         NEW new, new = Summary!Stored(d, of, what)
  PROVE  /\ new \in [SummaryDocs -> Generations] /\ \A e \in SummaryDocs \ {d} : new[e] = gen[e]
         /\ new[d].stage = gen[d].stage /\ new[d].paper = gen[d].paper
         /\ new[d].todo = gen[d].todo /\ new[d].raised = gen[d].raised
         /\ DOMAIN new[d].summary = DOMAIN gen[d].summary
         /\ \A i \in DOMAIN gen[d].summary :
               new[d].summary[i] = IF i \in of THEN what ELSE gen[d].summary[i]
  <1>1. PICK g : g = gen[d]
    OBVIOUS
  <1>2. g \in Generations
    BY <1>1
  <1>3. PICK S \in SUBSET PaperParts : g.summary \in [S -> Marks]
    BY <1>2 DEF Generations
  <1>4. PICK s : s = [i \in DOMAIN g.summary |-> IF i \in of THEN what ELSE g.summary[i]]
    OBVIOUS
  <1>5. s \in [S -> Marks] /\ DOMAIN s = S /\ DOMAIN g.summary = S
    BY <1>3, <1>4
  <1>6. s \in UNION {[U -> Marks] : U \in SUBSET PaperParts}
    BY <1>3, <1>5
  <1>7. PICK h : h = [g EXCEPT !.summary = s]
    OBVIOUS
  <1>8. /\ h \in Generations /\ h.stage = g.stage /\ h.paper = g.paper /\ h.todo = g.todo
        /\ h.raised = g.raised /\ h.summary = s
    BY <1>2, <1>6, <1>7 DEF Generations
  <1>9. new = [gen EXCEPT ![d] = h]
    BY <1>1, <1>4, <1>7 DEF Summary!Stored
  <1>10. new \in [SummaryDocs -> Generations] /\ new[d] = h /\ \A e \in SummaryDocs \ {d} : new[e] = gen[e]
    BY <1>8, <1>9
  <1> QED
    BY <1>1, <1>4, <1>5, <1>8, <1>10

LEMMA StartStep ==
  ASSUME GenInv, NEW d \in SummaryDocs, NEW paper \in Papers, NEW singly \in BOOLEAN,
         Summary!Start(d, paper, singly)
  PROVE  GenInv'
  <1>1. GenerationOf(d) /\ gen[d].stage = "idle" /\ UNCHANGED summariser
    BY DEF GenInv, Summary!Start
  <1>2. PICK s : s = IF Summary!Skipped(paper) /\ ~paper.thin THEN [i \in DOMAIN paper.sections |-> None]
                     ELSE Summary!Echoed(paper)
    OBVIOUS
  <1>3. PICK stage, todo :
           /\ stage = IF paper.thin THEN "done" ELSE "sections"
           /\ todo = IF paper.thin \/ Summary!Skipped(paper) THEN {} ELSE Summary!Sent(paper)
    OBVIOUS
  <1>4. s \in [DOMAIN paper.sections -> Marks] /\ DOMAIN paper.sections \in SUBSET PaperParts
        /\ todo \in SUBSET PaperParts
    BY <1>2, <1>3 DEF Marks, PaperParts, Summary!Echoed, Summary!Sent
  <1>5. PICK g : g = [stage |-> stage, paper |-> paper, singly |-> singly, raised |-> FALSE,
                      todo |-> todo, summary |-> s]
    OBVIOUS
  <1>6. g \in Generations
    <2>1. s \in UNION {[U -> Marks] : U \in SUBSET PaperParts}
      BY <1>4
    <2> QED
      BY <1>3, <1>4, <1>5, <2>1 DEF Generations
  <1>7. gen' = [gen EXCEPT ![d] = g]
    BY <1>2, <1>3, <1>5 DEF Summary!Start
  <1>8. gen' \in [SummaryDocs -> Generations] /\ gen'[d] = g /\ \A e \in SummaryDocs \ {d} : gen'[e] = gen[e]
    BY <1>6, <1>7 DEF GenInv
  <1>9. ASSUME NEW e \in SummaryDocs \ {d} PROVE GenerationOf(e)'
    <2>1. GenerationOf(e)
      BY DEF GenInv
    <2> QED
      BY <1>1, <1>8, <2>1, GenerationStays
  <1>10. \A w \in 1..SummarySlots : ~Busy(d, w)'
    BY <1>1 DEF GenerationOf, Busy
  <1>11. ASSUME paper.thin \/ ~Summary!Skipped(paper), NEW i \in DOMAIN s
         PROVE  s[i] \notin {None, "sentinel"} \/ (i \in todo /\ stage = "sections")
    <2>1. None # "own"
      BY MCPartsAssumption DEF Summary!SummaryCallsAssumption
    <2> QED
      BY <1>2, <1>3, <1>11, <2>1 DEF Summary!Echoed, Summary!Sent
  <1>12. GenerationOf(d)'
    <2>1. Detailed(d)' <=> paper.thin \/ ~Summary!Skipped(paper)
      BY <1>5, <1>8 DEF Detailed, Summary!Skipped
    <2> QED
      BY <1>3, <1>5, <1>8, <1>10, <1>11, <2>1 DEF GenerationOf, Usable
  <1> QED
    BY <1>8, <1>9, <1>12 DEF GenInv

LEMMA TakeBatchStep ==
  ASSUME GenInv, Shaped, NEW d \in SummaryDocs, NEW w \in 1..SummarySlots, Summary!TakeBatch(d, w)
  PROVE  GenInv'
  <1>1. PICK of, t : of = Summary!NextBatch(gen[d].todo) /\ t = <<d, w>>
    OBVIOUS
  <1>2. /\ gen[d].stage = "sections" /\ ~Busy(d, w) /\ Summary!Asks(t, "batch", of)
        /\ gen' = [gen EXCEPT ![d].todo = @ \ of]
    BY <1>1 DEF Summary!TakeBatch, Busy
  <1>3. PICK g : g = [gen[d] EXCEPT !.todo = @ \ of]
    OBVIOUS
  <1>4. /\ g \in Generations /\ g.stage = "sections" /\ g.paper = gen[d].paper /\ g.raised = gen[d].raised
        /\ g.summary = gen[d].summary /\ g.todo = gen[d].todo \ of
    BY <1>2, <1>3 DEF GenInv, Generations
  <1>5. gen' \in [SummaryDocs -> Generations] /\ gen'[d] = g /\ \A e \in SummaryDocs \ {d} : gen'[e] = gen[e]
    BY <1>2, <1>3, <1>4 DEF GenInv
  <1>6. Busy(d, w)' /\ Works(d, w)' = of /\ summariser'[<<d, w>>].kind = "batch" /\ Others(d, w)
    BY <1>1, <1>2, ThreadAsks
  <1>7. Works(d, w) = {}
    BY <1>2 DEF Works
  <1> QED
    BY <1>2, <1>4, <1>5, <1>6, <1>7, ThreadStep

(* When nothing is left to send and no thread works, every section is written.   *)
LEMMA SectionsDoneStep ==
  ASSUME GenInv, Shaped, NEW d \in SummaryDocs, Summary!SectionsDone(d)
  PROVE  GenInv'
  <1>1. /\ GenerationOf(d) /\ gen[d].stage = "sections" /\ gen[d].todo = {} /\ gen[d] \in Generations
        /\ \A w \in 1..SummarySlots : ~Busy(d, w)
    BY DEF GenInv, Summary!SectionsDone, Summary!Idle, Busy
  <1>2. 1 \in 1..SummarySlots
    BY MCPartsAssumption DEF Summary!SummaryCallsAssumption
  <1>3. ASSUME NEW stage \in {"brief", "failed"}, gen' = [gen EXCEPT ![d].stage = stage]
        PROVE  /\ gen' \in [SummaryDocs -> Generations] /\ \A e \in SummaryDocs \ {d} : gen'[e] = gen[e]
               /\ gen'[d].stage = stage /\ gen'[d].summary = gen[d].summary /\ (Detailed(d)' <=> Detailed(d))
    <2>1. PICK g : g = [gen[d] EXCEPT !.stage = stage]
      OBVIOUS
    <2>2. g \in Generations /\ g.stage = stage /\ g.summary = gen[d].summary /\ g.paper = gen[d].paper
      BY <1>1, <2>1 DEF Generations
    <2>3. /\ gen' \in [SummaryDocs -> Generations] /\ gen'[d] = g
          /\ \A e \in SummaryDocs \ {d} : gen'[e] = gen[e]
      BY <1>3, <2>1, <2>2 DEF GenInv
    <2> QED
      BY <2>2, <2>3 DEF Detailed, Summary!Skipped
  <1>4. CASE gen[d].raised
    <2>1. gen' = [gen EXCEPT ![d].stage = "failed"] /\ UNCHANGED summariser
      BY <1>4 DEF Summary!SectionsDone
    <2>2. /\ gen' \in [SummaryDocs -> Generations] /\ \A e \in SummaryDocs \ {d} : gen'[e] = gen[e]
          /\ gen'[d].stage = "failed"
      BY <1>3, <2>1
    <2>3. ASSUME NEW e \in SummaryDocs \ {d} PROVE GenerationOf(e)'
      <3>1. GenerationOf(e)
        BY DEF GenInv
      <3> QED
        BY <2>1, <2>2, <3>1, GenerationStays
    <2>4. GenerationOf(d)'
      BY <1>1, <2>1, <2>2 DEF GenerationOf, Busy
    <2> QED
      BY <2>2, <2>3, <2>4 DEF GenInv
  <1>5. CASE ~gen[d].raised
    <2>1. gen' = [gen EXCEPT ![d].stage = "brief"] /\ Summary!Asks(<<d, 1>>, "brief", {})
      BY <1>5 DEF Summary!SectionsDone
    <2>2. /\ gen' \in [SummaryDocs -> Generations] /\ \A e \in SummaryDocs \ {d} : gen'[e] = gen[e]
          /\ gen'[d].stage = "brief" /\ gen'[d].summary = gen[d].summary /\ (Detailed(d)' <=> Detailed(d))
      BY <1>3, <2>1
    <2>3. Busy(d, 1)' /\ summariser'[<<d, 1>>].kind = "brief" /\ Others(d, 1)
      <3>1. PICK t : t = <<d, 1>>
        OBVIOUS
      <3> QED
        BY <1>2, <2>1, <3>1, ThreadAsks
    <2>4. ASSUME NEW e \in SummaryDocs \ {d} PROVE GenerationOf(e)'
      <3>1. GenerationOf(e) /\ \A w \in 1..SummarySlots : summariser'[<<e, w>>] = summariser[<<e, w>>]
        BY <2>3 DEF GenInv, Others
      <3> QED
        BY <2>2, <3>1, GenerationStays
    <2>5. ASSUME NEW w \in 1..SummarySlots, Busy(d, w)' PROVE w = 1
      <3>1. ~Busy(d, w)
        BY <1>1
      <3> QED
        BY <1>2, <2>3, <2>5, <3>1 DEF Others, Busy
    <2>6. Detailed(d) => \A i \in DOMAIN gen[d].summary : Usable(d, i)
      BY <1>1, <1>5 DEF GenerationOf, Works
    <2>7. Detailed(d) => \A i \in DOMAIN gen[d].summary : Usable(d, i)'
      BY <2>2, <2>6 DEF Usable
    <2>8. GenerationOf(d)'
      BY <2>2, <2>3, <2>5, <2>7 DEF GenerationOf
    <2> QED
      BY <2>2, <2>4, <2>8 DEF GenInv
  <1> QED
    BY <1>4, <1>5

(* The way through the semaphore and the start slot keeps the batch.             *)
LEMMA WayStep ==
  ASSUME GenInv, Shaped, NEW t \in Summary!SummaryThreads,
         \/ Summary!Acquire(t) \/ Summary!Claim(t) \/ Summary!Wake(t)
         \/ Summary!Send(t) \/ Summary!GoesWrong(t)
  PROVE  GenInv'
  <1>1. PICK d \in SummaryDocs, w \in 1..SummarySlots : t = <<d, w>>
    BY DEF Summary!SummaryThreads
  <1>2. gen' = gen /\ summariser[t].at # "free"
    BY DEF Summary!Acquire, Summary!Claim, Summary!Wake, Summary!Send, Summary!GoesWrong
  <1>3. PICK r : r = summariser[t]
    OBVIOUS
  <1>4. r = [at |-> r.at, kind |-> r.kind, of |-> r.of]
    BY <1>3 DEF Shaped
  <1>5. PICK a \in {"turn", "asleep", "ready", "calling"} : summariser' = [summariser EXCEPT ![t].at = a]
    BY DEF Summary!Acquire, Summary!Claim, Summary!Wake, Summary!Begins, Summary!Send, Summary!GoesWrong
  <1>6. PICK new : /\ summariser' = [summariser EXCEPT ![t] = new]
                   /\ new.at # "free" /\ new.kind = r.kind /\ new.of = r.of
    <2>1. PICK new : new = [r EXCEPT !.at = a]
      OBVIOUS
    <2>2. summariser' = [summariser EXCEPT ![t] = new]
      BY <1>3, <1>5, <2>1
    <2>3. new.at # "free" /\ new.kind = r.kind /\ new.of = r.of
      BY <1>4, <2>1
    <2> QED
      BY <2>2, <2>3
  <1>7. summariser'[t] = new /\ Others(d, w)
    <2>1. summariser' = [summariser EXCEPT ![t] = new]
      BY <1>6
    <2> QED
      BY <1>1, <2>1, OneSummariser
  <1>8. ASSUME NEW e \in SummaryDocs PROVE GenerationOf(e)'
    <2>1. GenerationOf(e)
      BY DEF GenInv
    <2>2. ASSUME NEW v \in 1..SummarySlots
          PROVE  /\ summariser'[<<e, v>>].at = "free" <=> summariser[<<e, v>>].at = "free"
                 /\ summariser'[<<e, v>>].kind = summariser[<<e, v>>].kind
                 /\ summariser'[<<e, v>>].of = summariser[<<e, v>>].of
      <3>1. CASE <<e, v>> = <<d, w>>
        BY <1>1, <1>2, <1>3, <1>6, <1>7, <3>1
      <3>2. CASE <<e, v>> # <<d, w>>
        BY <1>7, <3>2 DEF Others
      <3> QED
        BY <3>1, <3>2
    <2> QED
      BY <1>2, <2>1, <2>2, GenerationStays
  <1> QED
    BY <1>2, <1>8 DEF GenInv

(* A thread that has written a part of its batch is done, or goes on with the    *)
(* rest of it.                                                                   *)
LEMMA WrittenStep ==
  ASSUME GenInv, Shaped, NEW d \in SummaryDocs, NEW w \in 1..SummarySlots, NEW t, t = <<d, w>>,
         gen[d].stage = "sections", NEW what \in {"model", "preview"}, NEW part, NEW rest,
         Works(d, w) \subseteq part \cup rest, gen' = Summary!Stored(d, part, what),
         (Summary!Done(t) /\ rest = {}) \/ Summary!Asks(t, "single", rest)
  PROVE  GenInv'
  <1>1. PICK new : new = gen'
    OBVIOUS
  <1>2. /\ new \in [SummaryDocs -> Generations] /\ \A e \in SummaryDocs \ {d} : new[e] = gen[e]
        /\ new[d].stage = gen[d].stage /\ new[d].paper = gen[d].paper
        /\ new[d].todo = gen[d].todo /\ new[d].raised = gen[d].raised
        /\ DOMAIN new[d].summary = DOMAIN gen[d].summary
        /\ \A i \in DOMAIN gen[d].summary :
              new[d].summary[i] = IF i \in part THEN what ELSE gen[d].summary[i]
    <2>1. gen \in [SummaryDocs -> Generations] /\ what \in Marks /\ new = Summary!Stored(d, part, what)
      BY <1>1 DEF GenInv, Marks
    <2> QED
      BY <2>1, StoresBatch
  <1>3. /\ Works(d, w)' = rest /\ Others(d, w)
        /\ Busy(d, w)' => summariser'[<<d, w>>].kind \in {"batch", "single"}
    <2>1. CASE Summary!Done(t) /\ rest = {}
      BY <2>1, ThreadDone DEF Works
    <2>2. CASE Summary!Asks(t, "single", rest)
      BY <2>2, ThreadAsks
    <2> QED
      BY <2>1, <2>2
  <1>4. what # None /\ what # "sentinel"
    BY MCPartsAssumption DEF Summary!SummaryCallsAssumption
  <1>5. ASSUME NEW i \in DOMAIN gen[d].summary
        PROVE  \/ Usable(d, i)'
               \/ /\ gen'[d].summary[i] = gen[d].summary[i]
                  /\ i \in gen[d].todo \cup Works(d, w) => i \in gen'[d].todo \cup Works(d, w)'
    BY <1>1, <1>2, <1>3, <1>4 DEF Usable
  <1> QED
    BY <1>1, <1>2, <1>3, <1>5, ThreadStep

(* A batch without an item for one of its sections.                              *)
LEMMA PartialStep ==
  ASSUME GenInv, Shaped, NEW d \in SummaryDocs, NEW w \in 1..SummarySlots, NEW t, t = <<d, w>>,
         gen[d].stage = "sections", NEW f, Summary!Done(t),
         gen' = [Summary!Stored(d, Works(d, w), "model") EXCEPT ![d].summary[f] = "missing"]
  PROVE  GenInv'
  <1>1. PICK new, of : of = Works(d, w) /\ new = Summary!Stored(d, of, "model")
    OBVIOUS
  <1>2. /\ new \in [SummaryDocs -> Generations] /\ \A e \in SummaryDocs \ {d} : new[e] = gen[e]
        /\ new[d].stage = gen[d].stage /\ new[d].paper = gen[d].paper
        /\ new[d].todo = gen[d].todo /\ new[d].raised = gen[d].raised
        /\ DOMAIN new[d].summary = DOMAIN gen[d].summary
        /\ \A i \in DOMAIN gen[d].summary :
              new[d].summary[i] = IF i \in of THEN "model" ELSE gen[d].summary[i]
    <2>1. gen \in [SummaryDocs -> Generations] /\ "model" \in Marks
      BY DEF GenInv, Marks
    <2> QED
      BY <1>1, <2>1, StoresBatch
  <1>3. PICK g, s : g = new[d] /\ s = [g.summary EXCEPT ![f] = "missing"]
    OBVIOUS
  <1>4. PICK S \in SUBSET PaperParts : g.summary \in [S -> Marks]
    BY <1>2, <1>3 DEF Generations
  <1>5. /\ s \in [S -> Marks] /\ DOMAIN s = DOMAIN g.summary
        /\ \A i \in DOMAIN g.summary : s[i] = IF i = f THEN "missing" ELSE g.summary[i]
    BY <1>3, <1>4 DEF Marks
  <1>6. PICK h : h = [g EXCEPT !.summary = s]
    OBVIOUS
  <1>7. /\ h \in Generations /\ h.stage = g.stage /\ h.paper = g.paper /\ h.todo = g.todo
        /\ h.raised = g.raised /\ h.summary = s
    <2>1. s \in UNION {[U -> Marks] : U \in SUBSET PaperParts}
      BY <1>4, <1>5
    <2> QED
      BY <1>2, <1>3, <1>6, <2>1 DEF Generations
  <1>8. gen' = [new EXCEPT ![d] = h]
    BY <1>1, <1>3, <1>6
  <1>9. gen' \in [SummaryDocs -> Generations] /\ gen'[d] = h /\ \A e \in SummaryDocs \ {d} : gen'[e] = gen[e]
    BY <1>2, <1>7, <1>8
  <1>10. ~Busy(d, w)' /\ Works(d, w)' = {} /\ Others(d, w)
    BY ThreadDone DEF Works
  <1>11. None \notin {"model", "missing"}
    BY MCPartsAssumption DEF Summary!SummaryCallsAssumption
  <1>12. ASSUME NEW i \in DOMAIN gen[d].summary
         PROVE  \/ Usable(d, i)'
                \/ /\ gen'[d].summary[i] = gen[d].summary[i]
                   /\ i \in gen[d].todo \cup Works(d, w) => i \in gen'[d].todo \cup Works(d, w)'
    BY <1>1, <1>2, <1>3, <1>5, <1>7, <1>9, <1>11 DEF Usable
  <1>13. /\ gen'[d].stage = "sections" /\ gen'[d].paper = gen[d].paper /\ gen'[d].todo = gen[d].todo
         /\ gen'[d].raised = gen[d].raised /\ DOMAIN gen'[d].summary = DOMAIN gen[d].summary
    BY <1>2, <1>3, <1>5, <1>7, <1>9
  <1> QED
    BY <1>9, <1>10, <1>12, <1>13, ThreadStep

LEMMA RaisesStep ==
  ASSUME GenInv, Shaped, NEW d \in SummaryDocs, NEW w \in 1..SummarySlots, NEW t, t = <<d, w>>,
         gen[d].stage = "sections", Summary!Raises(d, t)
  PROVE  GenInv'
  <1>1. PICK todo : todo = IF Summary!Pooled(gen[d]) THEN gen[d].todo ELSE {}
    OBVIOUS
  <1>2. PICK g : g = [gen[d] EXCEPT !.raised = TRUE, !.todo = todo]
    OBVIOUS
  <1>3. gen' = [gen EXCEPT ![d] = g]
    BY <1>1, <1>2 DEF Summary!Raises
  <1>4. /\ g \in Generations /\ g.stage = "sections" /\ g.paper = gen[d].paper /\ g.raised = TRUE
        /\ g.summary = gen[d].summary
    <2>1. gen[d] \in Generations /\ todo \in SUBSET PaperParts
      BY <1>1 DEF GenInv, Generations
    <2> QED
      BY <1>2, <2>1 DEF Generations
  <1>5. gen' \in [SummaryDocs -> Generations] /\ gen'[d] = g /\ \A e \in SummaryDocs \ {d} : gen'[e] = gen[e]
    BY <1>3, <1>4 DEF GenInv
  <1>6. ~Busy(d, w)' /\ Others(d, w)
    BY ThreadDone DEF Summary!Raises
  <1> QED
    BY <1>4, <1>5, <1>6, ThreadStep

(* The brief and the digest: one thread, when every section is written.          *)
LEMMA OverviewStep ==
  ASSUME GenInv, Shaped, NEW d \in SummaryDocs, NEW w \in 1..SummarySlots, NEW t, t = <<d, w>>,
         Busy(d, w), NEW kind, kind = summariser[t].kind, kind \notin {"batch", "single"},
         NEW out, Summary!Overview(d, t, kind, out)
  PROVE  GenInv'
  <1>1. /\ GenerationOf(d) /\ w = 1 /\ kind = gen[d].stage /\ kind \in {"brief", "digest"}
        /\ gen[d] \in Generations
    BY DEF GenInv, GenerationOf
  <1>2. \A v \in (1..SummarySlots) \ {w} : ~Busy(d, v)
    BY <1>1 DEF GenerationOf
  <1>3. PICK stage \in {"failed", "digest", "done"} : gen' = [gen EXCEPT ![d].stage = stage]
    BY DEF Summary!Overview
  <1>4. /\ stage = "digest" => Summary!Asks(t, "digest", {})
        /\ stage # "digest" => Summary!Done(t)
    <2>1. gen'[d].stage = stage
      BY <1>1, <1>3 DEF GenInv, Generations
    <2>2. \A s : gen' = [gen EXCEPT ![d].stage = s] => gen'[d].stage = s
      BY <1>1 DEF GenInv, Generations
    <2> QED
      BY <2>1, <2>2 DEF Summary!Overview
  <1>5. PICK g : g = [gen[d] EXCEPT !.stage = stage]
    OBVIOUS
  <1>6. g \in Generations /\ g.stage = stage /\ g.summary = gen[d].summary /\ g.paper = gen[d].paper
    BY <1>1, <1>5 DEF Generations
  <1>7. gen' \in [SummaryDocs -> Generations] /\ gen'[d] = g /\ \A e \in SummaryDocs \ {d} : gen'[e] = gen[e]
    BY <1>3, <1>5, <1>6 DEF GenInv
  <1>8. /\ Others(d, w)
        /\ Busy(d, w)' => stage = "digest" /\ summariser'[<<d, w>>].kind = "digest"
    <2>1. CASE stage = "digest"
      BY <1>4, <2>1, ThreadAsks
    <2>2. CASE stage # "digest"
      BY <1>4, <2>2, ThreadDone
    <2> QED
      BY <2>1, <2>2
  <1>9. ASSUME NEW e \in SummaryDocs \ {d} PROVE GenerationOf(e)'
    <2>1. GenerationOf(e)
      BY DEF GenInv
    <2>2. \A v \in 1..SummarySlots : summariser'[<<e, v>>] = summariser[<<e, v>>]
      BY <1>8, <1>9 DEF Others
    <2> QED
      BY <1>7, <2>1, <2>2, GenerationStays
  <1>10. \A v \in (1..SummarySlots) \ {w} : ~Busy(d, v)'
    <2>1. \A v \in (1..SummarySlots) \ {w} : summariser'[<<d, v>>] = summariser[<<d, v>>]
      BY <1>8 DEF Others
    <2> QED
      BY <1>2, <2>1 DEF Busy
  <1>11. Detailed(d)' <=> Detailed(d)
    BY <1>6, <1>7 DEF Detailed, Summary!Skipped
  <1>12. Detailed(d) => \A i \in DOMAIN gen[d].summary : Usable(d, i)'
    BY <1>1, <1>6, <1>7 DEF GenerationOf, Usable
  <1>13. \A v \in 1..SummarySlots : Busy(d, v)' => v = 1 /\ gen'[d].stage = "digest"
                                                  /\ summariser'[<<d, v>>].kind = "digest"
    BY <1>1, <1>6, <1>7, <1>8, <1>10
  <1>14. gen'[d].stage # "sections" /\ DOMAIN gen'[d].summary = DOMAIN gen[d].summary
    BY <1>6, <1>7
  <1>15. GenerationOf(d)'
    BY <1>11, <1>12, <1>13, <1>14 DEF GenerationOf
  <1> QED
    BY <1>7, <1>9, <1>15 DEF GenInv

LEMMA ReplyStep ==
  ASSUME GenInv, Shaped, NEW t \in Summary!SummaryThreads, NEW out \in Summary!Outcomes,
         Summary!Reply(t, out)
  PROVE  GenInv'
  <1>1. PICK d \in SummaryDocs, w \in 1..SummarySlots : t = <<d, w>>
    BY DEF Summary!SummaryThreads
  <1>2. PICK kind, of : kind = summariser[t].kind /\ of = summariser[t].of
    OBVIOUS
  <1>3. Busy(d, w) /\ Works(d, w) = of /\ t[1] = d
    BY <1>1, <1>2 DEF Summary!Reply, Busy, Works
  <1>4. CASE kind \notin {"batch", "single"}
    <2>1. Summary!Overview(d, t, kind, out)
      BY <1>2, <1>3, <1>4 DEF Summary!Reply
    <2> QED
      BY <1>1, <1>2, <1>3, <1>4, <2>1, OverviewStep
  <1>5. CASE kind \in {"batch", "single"}
    <2>1. gen[d].stage = "sections"
      BY <1>1, <1>2, <1>3, <1>5 DEF GenInv, GenerationOf
    <2>2. CASE Summary!Raises(d, t)
      BY <1>1, <2>1, <2>2, RaisesStep
    <2>3. ASSUME NEW what \in {"model", "preview"}, Summary!Done(t), gen' = Summary!Stored(d, of, what)
          PROVE  GenInv'
      BY <1>1, <1>3, <2>1, <2>3, WrittenStep
    <2>4. ASSUME Summary!Asks(t, "single", of), UNCHANGED gen PROVE GenInv'
      <3>1. Works(d, w)' = of /\ Others(d, w) /\ summariser'[<<d, w>>].kind \in {"batch", "single"}
        BY <1>1, <2>4, ThreadAsks
      <3>2. gen' \in [SummaryDocs -> Generations]
        BY <2>4 DEF GenInv
      <3> QED
        BY <1>3, <2>1, <2>4, <3>1, <3>2, ThreadStep
    <2>5. CASE kind = "single" /\ Summary!Single(d, t, of, out)
      <3>1. CASE ~Summary!Raises(d, t)
        <4>1. PICK f, what : f = Summary!First(of) /\ what = IF Summary!Fails(out) THEN "preview" ELSE "model"
          OBVIOUS
        <4>2. /\ gen' = Summary!Stored(d, {f}, what) /\ what \in {"model", "preview"}
              /\ IF of = {f} THEN Summary!Done(t) ELSE Summary!Asks(t, "single", of \ {f})
          BY <2>5, <3>1, <4>1 DEF Summary!Single
        <4>3. (Summary!Done(t) /\ of \ {f} = {}) \/ Summary!Asks(t, "single", of \ {f})
          BY <4>2
        <4>4. Works(d, w) \subseteq {f} \cup (of \ {f})
          BY <1>3
        <4> QED
          BY <1>1, <2>1, <4>2, <4>3, <4>4, WrittenStep
      <3> QED
        BY <2>2, <3>1
    <2>6. CASE kind = "batch" /\ Summary!One(d, t, of, out)
      BY <2>2, <2>3, <2>6 DEF Summary!One
    <2>7. CASE kind = "batch" /\ Summary!Several(d, t, of, out)
      <3>1. PICK f : f = Summary!First(of)
        OBVIOUS
      <3>2. CASE Summary!Done(t) /\ gen' = [Summary!Stored(d, of, "model") EXCEPT ![d].summary[f] = "missing"]
        <4>1. gen' = [Summary!Stored(d, Works(d, w), "model") EXCEPT ![d].summary[f] = "missing"]
          BY <1>3, <3>2
        <4> QED
          BY <1>1, <2>1, <3>2, <4>1, PartialStep
      <3>3. \/ Summary!Raises(d, t)
            \/ \E what \in {"model", "preview"} : Summary!Done(t) /\ gen' = Summary!Stored(d, of, what)
            \/ Summary!Done(t) /\ gen' = [Summary!Stored(d, of, "model") EXCEPT ![d].summary[f] = "missing"]
            \/ Summary!Asks(t, "single", of) /\ UNCHANGED gen
        BY <2>7, <3>1 DEF Summary!Several, Summary!Outcomes
      <3> QED
        BY <2>2, <2>3, <2>4, <3>2, <3>3
    <2> QED
      BY <1>2, <1>3, <1>5, <2>5, <2>6, <2>7 DEF Summary!Reply
  <1> QED
    BY <1>4, <1>5

LEMMA GenStep == ASSUME GenInv, Shaped, [Summary!Next]_(Summary!vars) PROVE GenInv'
  <1>1. ASSUME UNCHANGED <<gen, summariser>> PROVE GenInv'
    <2>1. ASSUME NEW d \in SummaryDocs PROVE GenerationOf(d)'
      <3>1. GenerationOf(d)
        BY DEF GenInv
      <3> QED
        BY <1>1, <3>1, GenerationStays
    <2> QED
      BY <1>1, <2>1 DEF GenInv
  <1>2. CASE Summary!Tick
    BY <1>1, <1>2 DEF Summary!Tick
  <1>3. CASE UNCHANGED Summary!vars
    BY <1>1, <1>3 DEF Summary!vars
  <1>4. CASE Summary!Next
    BY <1>2, <1>4, StartStep, TakeBatchStep, SectionsDoneStep, WayStep, ReplyStep DEF Summary!Next
  <1> QED
    BY <1>3, <1>4

(* Summary model: a finished document has a usable summary of every section sent, *)
(* and no thread that still writes to it, for every number of documents, slots    *)
(* and sections, and whatever the calls come to.                                  *)
THEOREM SummariesReal == Spec => []SummariesAreReal
  <1>1. Init => GenInv /\ SpacingInv
    BY GenStarts, SpacingStarts DEF Init
  <1>2. GenInv /\ SpacingInv /\ [Next]_vars => (GenInv /\ SpacingInv)'
    <2> SUFFICES ASSUME GenInv, SpacingInv, [Next]_vars PROVE GenInv' /\ SpacingInv'
      OBVIOUS
    <2>1. SpacingInv'
      BY SpacingAlways
    <2>2. Shaped
      BY DEF SpacingInv
    <2>3. [Summary!Next]_(Summary!vars)
      BY StepOfParts DEF summaryVars, Summary!vars
    <2> QED
      BY <2>1, <2>2, <2>3, GenStep
  <1>3. GenInv => SummariesAreReal
    <2> SUFFICES ASSUME GenInv, NEW d \in SummaryDocs, gen[d].stage \in {"done", "failed"}
                 PROVE  /\ \A w \in 1..SummarySlots : ~Busy(d, w)
                        /\ gen[d].stage = "done" /\ Detailed(d) =>
                              \A i \in DOMAIN gen[d].summary : Usable(d, i)
      BY DEF SummariesAreReal, Summary!SummariesAreReal, Summary!Idle, Busy, Detailed, Usable
    <2> QED
      BY DEF GenInv, GenerationOf
  <1> QED
    BY <1>1, <1>2, <1>3, PTL DEF Spec
-----------------------------------------------------------------------------
(* Pages: what a page was transcribed as is of these settings, and what is kept  *)
(* in a cache is of the settings it is kept under.                                *)
OfModel(t, model) ==
    \/ t = Ocr!Marker
    \/ t = Ocr!Blank(model)
    \/ t.by = "llm" /\ t.key = model /\ t.tables \in Nat
OfWorker(t) == t = Ocr!Marker \/ t = Ocr!Blank(None) \/ (t.by = "local" /\ t.tables \in Nat)
Stages == {"idle", "local", "llm", "fallback", "assemble", "regions", "parsed"}

(* A page the model failed on was put to the worker, where that may help.         *)
Tried(p) ==
    got.llm[p] # None /\ ~Ocr!Usable(got.llm[p]) /\ parse.enabled
    /\ p \in Ocr!Looking("scan") \cup Ocr!Looking("sparse") /\ "local" \in pdf[p].fits
        => got.local[p] # None

CacheInv ==
    \A e \in cache :
        /\ e.kind = "llm" => e.text # None /\ OfModel(e.text, e.key)
        /\ e.kind = "local" => e.text # None /\ OfWorker(e.text) /\ <<e.page, e.text>> \in made
OcrInv ==
    /\ pdf \in [PdfPages -> Looks]
    /\ at \in Stages
    /\ at # "idle" => parse \in Requests
    /\ plan.local \subseteq PdfPages /\ plan.llm \subseteq PdfPages
    /\ got = [local |-> [p \in PdfPages |-> got.local[p]], llm |-> [p \in PdfPages |-> got.llm[p]],
              region |-> got.region]
    /\ \A p \in PdfPages : got.llm[p] # None => p \in plan.llm /\ OfModel(got.llm[p], Ocr!ModelOf(parse))
    /\ \A p \in PdfPages : got.local[p] # None => OfWorker(got.local[p]) /\ <<p, got.local[p]>> \in made
    /\ CacheInv
    /\ at \in {"assemble", "regions", "parsed"} => \A p \in PdfPages : Tried(p)
    /\ at \in {"regions", "parsed"} =>
          \A p \in PdfPages : pages[p] = Ocr!Content(p) \/ pages[p].from = "region"

LEMMA OcrStarts == ASSUME Ocr!Init PROVE OcrInv
  <1>1. got.local = [p \in PdfPages |-> None] /\ got.llm = [p \in PdfPages |-> None]
    BY DEF Ocr!Init, Ocr!NoResults
  <1>2. got = [local |-> [p \in PdfPages |-> got.local[p]], llm |-> [p \in PdfPages |-> got.llm[p]],
               region |-> got.region]
    BY <1>1 DEF Ocr!Init
  <1> QED
    BY <1>1, <1>2 DEF Ocr!Init, OcrInv, CacheInv, Stages

(* What a transcription can be.                                                   *)
LEMMA KindsOfText ==
  ASSUME NEW t, t # None, (\E model : OfModel(t, model)) \/ OfWorker(t)
  PROVE  /\ t.by \in {"marker", "blank", "llm", "local"}
         /\ t.by = "marker" <=> t = Ocr!Marker
         /\ Ocr!Usable(t) <=> t.by \in {"llm", "local"}
         /\ Ocr!Usable(t) => t.tables \in Nat
         /\ Ocr!Says(t) <=> t.by # "blank"
  BY DEF OfModel, OfWorker, Ocr!Marker, Ocr!Blank, Ocr!Text, Ocr!Usable, Ocr!Says

LEMMA EnhancedText ==
  ASSUME OcrInv, NEW p \in PdfPages
  PROVE  /\ Ocr!Succeeded(p) <=> (Ocr!Enhanced(p) # None /\ Ocr!Usable(Ocr!Enhanced(p)))
         /\ Ocr!Enhanced(p) # None => Ocr!Usable(Ocr!Enhanced(p)) \/ Ocr!Enhanced(p) = Ocr!Marker
         /\ Ocr!Usable(Ocr!Enhanced(p)) =>
               Ocr!Enhanced(p).by \in {"llm", "local"} /\ Ocr!Enhanced(p).tables \in Nat
         /\ Ocr!Enhanced(p) = Ocr!Marker /\ Ocr!Enhanced(p) # None =>
               (got.llm[p] # None /\ ~Ocr!Usable(got.llm[p])) \/ got.local[p] # None
  <1> DEFINE llm == got.llm[p]
             local == got.local[p]
  <1>1. llm # None => (\E model : OfModel(llm, model))
    BY DEF OcrInv
  <1>2. local # None => OfWorker(local)
    BY DEF OcrInv
  <1>3. Ocr!Enhanced(p) = IF Ocr!Says(llm) /\ ~(llm = Ocr!Marker /\ Ocr!Usable(local)) THEN llm
                          ELSE IF Ocr!Says(local) THEN local ELSE None
    BY DEF Ocr!Enhanced
  <1>4. Ocr!Succeeded(p) <=> Ocr!Usable(llm) \/ Ocr!Usable(local)
    BY DEF Ocr!Succeeded
  <1>5. ~Ocr!Usable(None) /\ ~Ocr!Says(None)
    BY DEF Ocr!Usable, Ocr!Says
  <1> HIDE DEF llm, local
  <1>6. /\ llm # None => /\ llm.by \in {"marker", "blank", "llm", "local"}
                         /\ llm.by = "marker" <=> llm = Ocr!Marker
                         /\ Ocr!Usable(llm) <=> llm.by \in {"llm", "local"}
                         /\ Ocr!Usable(llm) => llm.tables \in Nat
                         /\ Ocr!Says(llm) <=> llm.by # "blank"
        /\ local # None => /\ local.by \in {"marker", "blank", "llm", "local"}
                           /\ local.by = "marker" <=> local = Ocr!Marker
                           /\ Ocr!Usable(local) <=> local.by \in {"llm", "local"}
                           /\ Ocr!Usable(local) => local.tables \in Nat
                           /\ Ocr!Says(local) <=> local.by # "blank"
    BY <1>1, <1>2, KindsOfText
  <1>7. CASE llm = None \/ ~Ocr!Says(llm)
    BY <1>3, <1>4, <1>5, <1>6, <1>7 DEF llm, local
  <1>8. CASE llm # None /\ Ocr!Says(llm) /\ llm = Ocr!Marker
    BY <1>3, <1>4, <1>5, <1>6, <1>8 DEF llm, local
  <1>9. CASE llm # None /\ Ocr!Says(llm) /\ llm # Ocr!Marker
    BY <1>3, <1>4, <1>5, <1>6, <1>9 DEF llm, local
  <1> QED
    BY <1>7, <1>8, <1>9

(* What is said of a page follows from what it was transcribed as.                *)
Honest(p, page) ==
    /\ Ocr!Succeeded(p) <=> page.from \in {"local", "llm"}
    /\ page.from = "marker" =>
          /\ ~Ocr!NativeText(p) /\ ~Ocr!Succeeded(p)
          /\ parse.enabled /\ (pdf[p].scan \/ pdf[p].sparse) /\ "local" \in pdf[p].fits =>
                got.local[p] # None
    /\ page.from \in {"native", "marker"} => page.listed + page.inline >= pdf[p].tables

LEMMA ContentIsHonest ==
  ASSUME OcrInv, at \in {"regions", "parsed"}, NEW p \in PdfPages
  PROVE  Honest(p, Ocr!Content(p))
  <1> DEFINE text == Ocr!Enhanced(p)
             page == Ocr!Content(p)
             own == Ocr!Page("native", Ocr!Listed(p), Ocr!Inline(p))
             failed == Ocr!Page("marker", Ocr!Listed(p), Ocr!Inline(p))
  <1>1. /\ Ocr!Succeeded(p) <=> (text # None /\ Ocr!Usable(text))
        /\ text # None => Ocr!Usable(text) \/ text = Ocr!Marker
        /\ Ocr!Usable(text) => text.by \in {"llm", "local"} /\ text.tables \in Nat
    BY EnhancedText
  <1>2. Ocr!Listed(p) + Ocr!Inline(p) >= pdf[p].tables
    <2>1. pdf[p].tables \in Nat /\ MaxTables \in Nat
      BY MCPartsAssumption DEF Ocr!PageOcrAssumption, OcrInv
    <2> QED
      BY <2>1 DEF Ocr!Listed, Ocr!Inline, Ocr!Least
  <1>3. CASE text # None /\ Ocr!Usable(text)
    <2>1. page.from = text.by
      <3>1. CASE text.tables > 0
        BY <1>3, <3>1 DEF Ocr!Content, Ocr!Transcribed, Ocr!Page
      <3>2. CASE text.tables = 0
        BY <1>3, <3>2 DEF Ocr!Content, Ocr!Page
      <3> QED
        BY <1>1, <1>3, <3>1, <3>2
    <2> QED
      BY <1>1, <1>3, <2>1 DEF Honest
  <1>4. CASE text = None
    <2>1. page = own
      BY <1>4 DEF Ocr!Content
    <2> QED
      BY <1>1, <1>2, <1>4, <2>1 DEF Honest, Ocr!Page
  <1>5. CASE text # None /\ ~Ocr!Usable(text)
    <2>1. page = IF Ocr!NativeText(p) THEN own ELSE failed
      BY <1>5 DEF Ocr!Content
    <2>2. ~Ocr!Succeeded(p)
      BY <1>1, <1>5
    <2>3. parse.enabled /\ (pdf[p].scan \/ pdf[p].sparse) /\ "local" \in pdf[p].fits => got.local[p] # None
      <3>1. (got.llm[p] # None /\ ~Ocr!Usable(got.llm[p])) \/ got.local[p] # None
        BY <1>1, <1>5, EnhancedText
      <3>2. pdf[p].scan \/ pdf[p].sparse => p \in Ocr!Looking("scan") \cup Ocr!Looking("sparse")
        BY DEF Ocr!Looking
      <3>3. Tried(p)
        BY DEF OcrInv
      <3> QED
        BY <3>1, <3>2, <3>3 DEF Tried
    <2>4. page.from \in {"native", "marker"} /\ page.listed = Ocr!Listed(p) /\ page.inline = Ocr!Inline(p)
          /\ (page.from = "marker" => ~Ocr!NativeText(p))
      BY <2>1 DEF Ocr!Page
    <2> QED
      BY <1>2, <2>2, <2>3, <2>4 DEF Honest
  <1> QED
    BY <1>3, <1>4, <1>5

LEMMA TextIsText ==
  ASSUME NEW by \in {"marker", "blank", "local", "llm", "region"}, NEW keys, NEW key \in keys,
         NEW n \in {0} \cup {look.tables : look \in Looks}, NEW blocks \in BOOLEAN
  PROVE  Ocr!Text(by, key, n, blocks) \in Ocr!Texts(keys)
  BY DEF Ocr!Text, Ocr!Texts

LEMMA TextsAreTexts ==
  ASSUME OcrInv, at # "idle", NEW p \in PdfPages
  PROVE  /\ \A t \in Ocr!LlmTexts(p) : t # None /\ OfModel(t, Ocr!ModelOf(parse))
         /\ \A t \in Ocr!LocalTexts(p) : t # None /\ OfWorker(t)
  <1> DEFINE model == Ocr!ModelOf(parse)
             models == {Ocr!ModelOf(r) : r \in Requests}
             backends == {r.backend : r \in Requests}
             counts == {0} \cup {look.tables : look \in Looks}
  <1>1. parse \in Requests /\ pdf[p] \in Looks /\ pdf[p].tables \in Nat
    BY MCPartsAssumption DEF OcrInv, Ocr!PageOcrAssumption
  <1>2. /\ None \notin Ocr!Texts({None}) /\ None \notin Ocr!Texts(backends)
        /\ None \notin Ocr!Texts(models)
    BY MCPartsAssumption DEF Ocr!PageOcrAssumption
  <1>3. model \in models /\ parse.backend \in backends /\ 0 \in counts /\ pdf[p].tables \in counts
    BY <1>1
  <1>4. \A by \in {"marker", "blank"} : Ocr!Text(by, None, 0, FALSE) \in Ocr!Texts({None})
    BY <1>3, TextIsText
  <1> HIDE DEF model, models, backends
  <1>5. Ocr!Marker # None /\ Ocr!Blank(None) # None
    BY <1>2, <1>4 DEF Ocr!Marker, Ocr!Blank
  <1>6. Ocr!Blank(model) # None
    BY <1>2, <1>3, TextIsText DEF Ocr!Blank
  <1>7. ASSUME NEW n \in {0, pdf[p].tables}
        PROVE  Ocr!Text("llm", model, n, FALSE) # None /\ OfModel(Ocr!Text("llm", model, n, FALSE), model)
    <2>1. Ocr!Text("llm", model, n, FALSE) \in Ocr!Texts(models)
      BY <1>3, TextIsText
    <2>2. Ocr!Text("llm", model, n, FALSE).by = "llm" /\ Ocr!Text("llm", model, n, FALSE).key = model
          /\ Ocr!Text("llm", model, n, FALSE).tables = n /\ n \in Nat
      BY <1>1 DEF Ocr!Text
    <2> QED
      BY <1>2, <2>1, <2>2 DEF OfModel
  <1>8. ASSUME NEW blocks \in BOOLEAN
        PROVE  /\ Ocr!Text("local", parse.backend, pdf[p].tables, blocks) # None
               /\ OfWorker(Ocr!Text("local", parse.backend, pdf[p].tables, blocks))
    <2> DEFINE t == Ocr!Text("local", parse.backend, pdf[p].tables, blocks)
    <2>1. t \in Ocr!Texts(backends)
      BY <1>3, TextIsText
    <2>2. t.by = "local" /\ t.tables = pdf[p].tables
      BY DEF Ocr!Text
    <2> HIDE DEF t
    <2>3. t # None /\ OfWorker(t)
      BY <1>1, <1>2, <2>1, <2>2 DEF OfWorker
    <2> QED
      BY <2>3 DEF t
  <1>9. \A t \in Ocr!LlmTexts(p) : t # None /\ OfModel(t, model)
    BY <1>5, <1>6, <1>7 DEF Ocr!LlmTexts, OfModel, model
  <1>10. \A t \in Ocr!LocalTexts(p) : t # None /\ OfWorker(t)
    BY <1>5, <1>8 DEF Ocr!LocalTexts, OfWorker
  <1> QED
    BY <1>9, <1>10 DEF model

(* Pages are transcribed locally: each has its own result and its own entry.      *)
LEMMA LocallyDone ==
  ASSUME OcrInv, NEW S \in SUBSET PdfPages, NEW texts,
         \A p \in S : texts[p] # None /\ OfWorker(texts[p]),
         Ocr!Locally(S, texts)
  PROVE  /\ got' = [local |-> [p \in PdfPages |-> got'.local[p]], llm |-> [p \in PdfPages |-> got'.llm[p]],
                    region |-> got'.region]
         /\ \A p \in PdfPages : /\ got'.llm[p] = got.llm[p]
                                /\ got'.local[p] = IF p \in S THEN texts[p] ELSE got.local[p]
                                /\ got'.local[p] # None => OfWorker(got'.local[p]) /\ <<p, got'.local[p]>> \in made'
         /\ CacheInv'
  <1>1. /\ got' = [got EXCEPT !.local = [p \in PdfPages |-> IF p \in S THEN texts[p] ELSE got.local[p]]]
        /\ made' = made \cup {<<p, texts[p]>> : p \in S}
    BY DEF Ocr!Locally
  <1>2. /\ got'.local = [p \in PdfPages |-> IF p \in S THEN texts[p] ELSE got.local[p]]
        /\ got'.llm = got.llm /\ got'.region = got.region
        /\ got' = [local |-> got'.local, llm |-> got'.llm, region |-> got'.region]
        /\ got.llm = [p \in PdfPages |-> got.llm[p]]
    BY <1>1 DEF OcrInv
  <1>3. \A p \in PdfPages : /\ got'.llm[p] = got.llm[p]
                            /\ got'.local[p] = IF p \in S THEN texts[p] ELSE got.local[p]
    BY <1>2
  <1>4. \A p \in PdfPages :
           got'.local[p] # None => OfWorker(got'.local[p]) /\ <<p, got'.local[p]>> \in made'
    BY <1>1, <1>3 DEF OcrInv
  <1>5. ASSUME NEW e \in cache'
        PROVE  /\ e.kind = "llm" => e.text # None /\ OfModel(e.text, e.key)
               /\ e.kind = "local" => e.text # None /\ OfWorker(e.text) /\ <<e.page, e.text>> \in made'
    <2>1. CASE e \in cache
      BY <1>1, <2>1 DEF OcrInv, CacheInv
    <2>2. CASE e \notin cache
      <3>1. PICK p \in S : e = Ocr!Entry("local", parse.backend, p, texts[p])
        BY <1>5, <2>2 DEF Ocr!Locally, Ocr!Store
      <3> QED
        BY <1>1, <3>1 DEF Ocr!Entry
    <2> QED
      BY <2>1, <2>2
  <1>6. got'.local = [p \in PdfPages |-> got'.local[p]]
    BY <1>2
  <1>7. got'.llm = [p \in PdfPages |-> got'.llm[p]]
    BY <1>2
  <1>8. got' = [local |-> [p \in PdfPages |-> got'.local[p]], llm |-> [p \in PdfPages |-> got'.llm[p]],
               region |-> got'.region]
    BY <1>2, <1>6, <1>7
  <1>9. CacheInv'
    BY <1>5 DEF CacheInv
  <1>10. ASSUME NEW p \in PdfPages
         PROVE  /\ got'.llm[p] = got.llm[p]
                /\ got'.local[p] = IF p \in S THEN texts[p] ELSE got.local[p]
                /\ got'.local[p] # None => OfWorker(got'.local[p]) /\ <<p, got'.local[p]>> \in made'
    <2>1. got'.llm[p] = got.llm[p] /\ got'.local[p] = IF p \in S THEN texts[p] ELSE got.local[p]
      BY <1>3
    <2>2. got'.local[p] # None => OfWorker(got'.local[p]) /\ <<p, got'.local[p]>> \in made'
      BY <1>4
    <2> QED
      BY <2>1, <2>2
  <1>11. \A p \in PdfPages :
            /\ got'.llm[p] = got.llm[p]
            /\ got'.local[p] = IF p \in S THEN texts[p] ELSE got.local[p]
            /\ got'.local[p] # None => OfWorker(got'.local[p]) /\ <<p, got'.local[p]>> \in made'
    BY <1>10
  <1> QED
    BY <1>8, <1>9, <1>11

(* What a cache answers with was kept under the key it is asked for.              *)
LEMMA CachedText ==
  ASSUME OcrInv, NEW p, NEW key
  PROVE  /\ Ocr!Hit("llm", key, p) =>
               Ocr!Cached("llm", key, p) # None /\ OfModel(Ocr!Cached("llm", key, p), key)
         /\ Ocr!Hit("local", key, p) =>
               /\ Ocr!Cached("local", key, p) # None /\ OfWorker(Ocr!Cached("local", key, p))
               /\ <<p, Ocr!Cached("local", key, p)>> \in made
  <1>1. ASSUME NEW kind, Ocr!Hit(kind, key, p)
        PROVE  \E e \in cache : e.kind = kind /\ e.key = key /\ e.page = p /\ Ocr!Cached(kind, key, p) = e.text
    <2> DEFINE e == CHOOSE x \in Ocr!Entries(kind, key, p) : TRUE
    <2>1. e \in Ocr!Entries(kind, key, p)
      BY <1>1 DEF Ocr!Hit
    <2>2. e \in cache /\ e.kind = kind /\ e.key = key /\ e.page = p
      BY <2>1 DEF Ocr!Entries
    <2>3. Ocr!Cached(kind, key, p) = e.text
      BY DEF Ocr!Cached
    <2> HIDE DEF e
    <2> QED
      BY <2>2, <2>3
  <1>2. ASSUME Ocr!Hit("llm", key, p)
        PROVE  Ocr!Cached("llm", key, p) # None /\ OfModel(Ocr!Cached("llm", key, p), key)
    <2>1. PICK e \in cache :
             e.kind = "llm" /\ e.key = key /\ e.page = p /\ Ocr!Cached("llm", key, p) = e.text
      BY <1>1, <1>2
    <2>2. e.text # None /\ OfModel(e.text, e.key)
      BY <2>1 DEF OcrInv, CacheInv
    <2> QED
      BY <2>1, <2>2
  <1>3. ASSUME Ocr!Hit("local", key, p)
        PROVE  /\ Ocr!Cached("local", key, p) # None /\ OfWorker(Ocr!Cached("local", key, p))
               /\ <<p, Ocr!Cached("local", key, p)>> \in made
    <2>1. PICK e \in cache :
             e.kind = "local" /\ e.key = key /\ e.page = p /\ Ocr!Cached("local", key, p) = e.text
      BY <1>1, <1>3
    <2>2. e.text # None /\ OfWorker(e.text) /\ <<e.page, e.text>> \in made
      BY <2>1 DEF OcrInv, CacheInv
    <2> QED
      BY <2>1, <2>2
  <1> QED
    BY <1>2, <1>3

(* The plan names pages of the document.                                          *)
LEMMA PlannedPages ==
  ASSUME NEW r \in Requests
  PROVE  Ocr!Rendered(Ocr!Plan(r)).local \subseteq PdfPages /\ Ocr!Rendered(Ocr!Plan(r)).llm \subseteq PdfPages
  <1>1. r.pages \subseteq PdfPages
    BY MCPartsAssumption DEF Ocr!PageOcrAssumption
  <1>2. \A f : Ocr!Looking(f) \subseteq PdfPages
    BY DEF Ocr!Looking
  <1>3. Ocr!Plan(r).local \subseteq PdfPages /\ Ocr!Plan(r).llm \subseteq PdfPages
    BY <1>1, <1>2 DEF Ocr!Plan
  <1>4. /\ Ocr!Rendered(Ocr!Plan(r)).local = {p \in Ocr!Plan(r).local : "local" \in pdf[p].fits}
        /\ Ocr!Rendered(Ocr!Plan(r)).llm = {p \in Ocr!Plan(r).llm : "llm" \in pdf[p].fits}
    BY DEF Ocr!Rendered, Ocr!Plan
  <1> QED
    BY <1>3, <1>4

LEMMA OcrParse == ASSUME OcrInv, NEW r \in Requests, Ocr!Parse(r) PROVE OcrInv'
  <1> DEFINE pl == Ocr!Rendered(Ocr!Plan(r))
             local(p) == IF p \in pl.local /\ Ocr!Hit("local", r.backend, p)
                         THEN Ocr!Cached("local", r.backend, p) ELSE None
             llm(p) == IF p \in pl.llm /\ Ocr!Hit("llm", Ocr!LlmKey(r), p)
                       THEN Ocr!Cached("llm", Ocr!LlmKey(r), p) ELSE None
  <1>1. /\ plan' = pl /\ parse' = r /\ at' = "local" /\ UNCHANGED <<pdf, cache, made>>
        /\ got' = [local |-> [p \in PdfPages |-> local(p)], llm |-> [p \in PdfPages |-> llm(p)],
                   region |-> Ocr!NoResults]
    BY DEF Ocr!Parse
  <1>2. Ocr!LlmKey(r) = Ocr!ModelOf(r)
    BY DEF Ocr!LlmKey, Ocr!ModelOf
  <1>3. pl.local \subseteq PdfPages /\ pl.llm \subseteq PdfPages
    BY PlannedPages
  <1> HIDE DEF pl
  <1>4. ASSUME NEW p \in PdfPages
        PROVE  /\ llm(p) # None => p \in pl.llm /\ OfModel(llm(p), Ocr!ModelOf(r))
               /\ local(p) # None => OfWorker(local(p)) /\ <<p, local(p)>> \in made
    BY <1>2, CachedText
  <1> HIDE DEF local, llm
  <1>5. \A p \in PdfPages : got'.local[p] = local(p) /\ got'.llm[p] = llm(p)
    BY <1>1
  <1>6. got' = [local |-> [p \in PdfPages |-> got'.local[p]], llm |-> [p \in PdfPages |-> got'.llm[p]],
               region |-> got'.region]
    BY <1>1
  <1>7. CacheInv'
    BY <1>1 DEF OcrInv, CacheInv
  <1>8. \A p \in PdfPages : got'.llm[p] # None => p \in plan'.llm /\ OfModel(got'.llm[p], Ocr!ModelOf(parse)')
    <2>1. Ocr!ModelOf(parse)' = Ocr!ModelOf(r)
      BY <1>1 DEF Ocr!ModelOf
    <2> QED
      BY <1>1, <1>4, <1>5, <2>1
  <1>9. \A p \in PdfPages :
           got'.local[p] # None => OfWorker(got'.local[p]) /\ <<p, got'.local[p]>> \in made'
    BY <1>1, <1>4, <1>5
  <1> QED
    BY <1>1, <1>3, <1>6, <1>7, <1>8, <1>9 DEF OcrInv, Stages

LEMMA OcrLocalPages == ASSUME OcrInv, Ocr!LocalPages PROVE OcrInv'
  <1> DEFINE S == {p \in plan.local : got.local[p] = None}
             may == [p \in S |-> Ocr!LocalTexts(p)]
  <1>1. at = "local" /\ at' = "llm" /\ UNCHANGED <<pdf, parse, plan>>
    BY DEF Ocr!LocalPages
  <1>2. PICK texts \in Ocr!Results(S, may) : Ocr!Locally(S, texts)
    BY DEF Ocr!LocalPages
  <1>3. S \subseteq PdfPages
    BY DEF OcrInv
  <1>4. \A p \in S : texts[p] # None /\ OfWorker(texts[p])
    <2>1. \A p \in S : texts[p] \in Ocr!LocalTexts(p)
      BY <1>2 DEF Ocr!Results
    <2> QED
      BY <1>1, <1>3, <2>1, TextsAreTexts
  <1> HIDE DEF S
  <1>5. /\ got' = [local |-> [p \in PdfPages |-> got'.local[p]], llm |-> [p \in PdfPages |-> got'.llm[p]],
                   region |-> got'.region]
        /\ \A p \in PdfPages : /\ got'.llm[p] = got.llm[p]
                               /\ got'.local[p] = IF p \in S THEN texts[p] ELSE got.local[p]
                               /\ got'.local[p] # None => OfWorker(got'.local[p]) /\ <<p, got'.local[p]>> \in made'
        /\ CacheInv'
    BY <1>2, <1>3, <1>4, LocallyDone
  <1>6. \A p \in PdfPages :
           got'.llm[p] # None => p \in plan'.llm /\ OfModel(got'.llm[p], Ocr!ModelOf(parse)')
    BY <1>1, <1>5 DEF OcrInv, Ocr!ModelOf
  <1> QED
    BY <1>1, <1>5, <1>6 DEF OcrInv, Stages

LEMMA OcrLlmPages == ASSUME OcrInv, Ocr!LlmPages PROVE OcrInv'
  <1> DEFINE S == Ocr!LlmTasks
             may == [p \in S |-> Ocr!LlmTexts(p)]
             new(texts) == {Ocr!Entry("llm", Ocr!LlmKey(parse), p, texts[p]) :
                               p \in {q \in S : texts[q] # Ocr!Marker}}
  <1>1. at = "llm" /\ at' = "fallback" /\ UNCHANGED <<pdf, parse, plan, made>>
    BY DEF Ocr!LlmPages
  <1>2. PICK texts \in Ocr!Results(S, may) :
           /\ got' = [got EXCEPT !.llm = [p \in PdfPages |-> IF p \in S THEN texts[p] ELSE @[p]]]
           /\ Ocr!Store(new(texts))
    BY DEF Ocr!LlmPages
  <1>3. S \subseteq PdfPages /\ S \subseteq plan.llm
    BY DEF OcrInv, Ocr!LlmTasks
  <1>4. \A p \in S : texts[p] # None /\ OfModel(texts[p], Ocr!ModelOf(parse))
    <2>1. \A p \in S : texts[p] \in Ocr!LlmTexts(p)
      BY <1>2 DEF Ocr!Results
    <2> QED
      BY <1>1, <1>3, <2>1, TextsAreTexts
  <1>5. Ocr!LlmKey(parse) = Ocr!ModelOf(parse)
    BY DEF Ocr!LlmKey, Ocr!ModelOf
  <1> HIDE DEF S
  <1>6. ASSUME NEW e \in cache'
        PROVE  /\ e.kind = "llm" => e.text # None /\ OfModel(e.text, e.key)
               /\ e.kind = "local" => e.text # None /\ OfWorker(e.text) /\ <<e.page, e.text>> \in made'
    <2>1. CASE e \in cache
      BY <1>1, <2>1 DEF OcrInv, CacheInv
    <2>2. CASE e \notin cache
      <3>1. PICK p \in S : e = Ocr!Entry("llm", Ocr!LlmKey(parse), p, texts[p])
        BY <1>2, <1>6, <2>2 DEF Ocr!Store
      <3>2. e.kind = "llm" /\ e.key = Ocr!LlmKey(parse) /\ e.text = texts[p]
        BY <3>1 DEF Ocr!Entry
      <3> QED
        BY <1>4, <1>5, <3>2
    <2> QED
      BY <2>1, <2>2
  <1>7. CacheInv'
    BY <1>6 DEF CacheInv
  <1>8. /\ got'.llm = [p \in PdfPages |-> IF p \in S THEN texts[p] ELSE got.llm[p]]
        /\ got'.local = got.local /\ got'.region = got.region
        /\ got' = [local |-> got'.local, llm |-> got'.llm, region |-> got'.region]
        /\ got.local = [p \in PdfPages |-> got.local[p]]
    BY <1>2 DEF OcrInv
  <1>9. got' = [local |-> [p \in PdfPages |-> got'.local[p]], llm |-> [p \in PdfPages |-> got'.llm[p]],
               region |-> got'.region]
    <2>1. got'.local = [p \in PdfPages |-> got'.local[p]]
      BY <1>8
    <2>2. got'.llm = [p \in PdfPages |-> got'.llm[p]]
      BY <1>8
    <2> QED
      BY <1>8, <2>1, <2>2
  <1>10. \A p \in PdfPages :
            got'.llm[p] # None => p \in plan'.llm /\ OfModel(got'.llm[p], Ocr!ModelOf(parse)')
    BY <1>1, <1>3, <1>4, <1>8 DEF OcrInv, Ocr!ModelOf
  <1>11. \A p \in PdfPages :
            got'.local[p] # None => OfWorker(got'.local[p]) /\ <<p, got'.local[p]>> \in made'
    BY <1>1, <1>8 DEF OcrInv
  <1> QED
    BY <1>1, <1>7, <1>9, <1>10, <1>11 DEF OcrInv, Stages

(* The pages the model gave no text for are put to the worker, those it may help. *)
LEMMA OcrFallback == ASSUME OcrInv, Ocr!Fallback PROVE OcrInv'
  <1> DEFINE S == Ocr!ToLocal
             hits == {p \in S : Ocr!Hit("local", parse.backend, p)}
             may == [p \in S |-> IF p \in hits THEN {Ocr!Cached("local", parse.backend, p)}
                                  ELSE Ocr!LocalTexts(p)]
  <1>1. at = "fallback" /\ at' = "assemble" /\ UNCHANGED <<pdf, parse, plan>>
    BY DEF Ocr!Fallback
  <1>2. PICK texts \in Ocr!Results(S, may) : Ocr!Locally(S, texts)
    BY DEF Ocr!Fallback
  <1>3. S \subseteq PdfPages
    BY DEF OcrInv, Ocr!ToLocal, Ocr!Unread
  <1>4. \A p \in S : texts[p] # None /\ OfWorker(texts[p])
    <2>1. \A p \in S : texts[p] \in may[p]
      BY <1>2 DEF Ocr!Results
    <2>2. ASSUME NEW p \in S PROVE texts[p] # None /\ OfWorker(texts[p])
      <3>1. CASE p \in hits
        <4>1. texts[p] = Ocr!Cached("local", parse.backend, p)
          BY <2>1, <3>1
        <4> QED
          BY <3>1, <4>1, CachedText
      <3>2. CASE p \notin hits
        <4>1. texts[p] \in Ocr!LocalTexts(p)
          BY <2>1, <3>2
        <4> QED
          BY <1>1, <1>3, <4>1, TextsAreTexts
      <3> QED
        BY <3>1, <3>2
    <2> QED
      BY <2>2
  <1>5. \A p \in PdfPages :
           p \in S \/ got.local[p] # None
           \/ ~(got.llm[p] # None /\ ~Ocr!Usable(got.llm[p]) /\ parse.enabled
                /\ p \in Ocr!Looking("scan") \cup Ocr!Looking("sparse") /\ "local" \in pdf[p].fits)
    BY DEF OcrInv, Ocr!ToLocal, Ocr!Unread, Ocr!Usable
  <1> HIDE DEF S
  <1>6. /\ got' = [local |-> [p \in PdfPages |-> got'.local[p]], llm |-> [p \in PdfPages |-> got'.llm[p]],
                   region |-> got'.region]
        /\ \A p \in PdfPages : /\ got'.llm[p] = got.llm[p]
                               /\ got'.local[p] = IF p \in S THEN texts[p] ELSE got.local[p]
                               /\ got'.local[p] # None => OfWorker(got'.local[p]) /\ <<p, got'.local[p]>> \in made'
        /\ CacheInv'
    BY <1>2, <1>3, <1>4, LocallyDone
  <1>7. \A p \in PdfPages :
           got'.llm[p] # None => p \in plan'.llm /\ OfModel(got'.llm[p], Ocr!ModelOf(parse)')
    BY <1>1, <1>6 DEF OcrInv, Ocr!ModelOf
  <1>8. ASSUME NEW p \in PdfPages PROVE Tried(p)'
    <2>1. got'.llm[p] = got.llm[p] /\ got'.local[p] = IF p \in S THEN texts[p] ELSE got.local[p]
      BY <1>6
    <2>2. Ocr!Looking("scan")' = Ocr!Looking("scan") /\ Ocr!Looking("sparse")' = Ocr!Looking("sparse")
          /\ Ocr!Usable(got.llm[p])' = Ocr!Usable(got'.llm[p])
      BY <1>1 DEF Ocr!Looking, Ocr!Usable
    <2> QED
      BY <1>1, <1>4, <1>5, <2>1, <2>2 DEF Tried, Ocr!Usable
  <1> QED
    BY <1>1, <1>6, <1>7, <1>8 DEF OcrInv, Stages

(* Assembling changes nothing a page is made from.                                *)
LEMMA OcrAssemble == ASSUME OcrInv, Ocr!Assemble PROVE OcrInv'
  <1>1. /\ at = "assemble" /\ at' \in {"regions", "parsed"} /\ UNCHANGED <<pdf, parse, plan, got, cache, made>>
        /\ pages' = [p \in PdfPages |-> Ocr!Content(p)]
    BY DEF Ocr!Assemble
  <1>2. \A p \in PdfPages : Ocr!Content(p)' = Ocr!Content(p)
    BY <1>1 DEF Ocr!Content, Ocr!Enhanced, Ocr!Says, Ocr!Usable, Ocr!Transcribed, Ocr!Listed, Ocr!Inline,
         Ocr!NativeText
  <1>3. \A p \in PdfPages : Tried(p)'
    BY <1>1 DEF OcrInv, Tried, Ocr!Usable, Ocr!Looking
  <1>4. (\A p \in PdfPages : got.llm[p] # None => p \in plan.llm /\ OfModel(got.llm[p], Ocr!ModelOf(parse)))'
    BY <1>1 DEF OcrInv, Ocr!ModelOf
  <1>5. CacheInv'
    BY <1>1 DEF OcrInv, CacheInv
  <1> QED
    BY <1>1, <1>2, <1>3, <1>4, <1>5 DEF OcrInv, Stages

(* A region takes the place of its page, and is kept apart from the pages.        *)
LEMMA OcrRegions == ASSUME OcrInv, Ocr!Regions PROVE OcrInv'
  <1> DEFINE S == Ocr!RegionPages
             may == [p \in S |-> Ocr!RegionTexts(p)]
             new(texts) == IF parse.keepRegions
                           THEN {Ocr!Entry("region", None, p, texts[p]) : p \in {q \in S : Ocr!Says(texts[q])}}
                           ELSE {}
  <1>1. at = "regions" /\ at' = "parsed" /\ UNCHANGED <<pdf, parse, plan, made>>
    BY DEF Ocr!Regions
  <1>2. PICK texts \in Ocr!Results(S, may) :
           /\ got' = [got EXCEPT !.region = [p \in PdfPages |-> IF p \in S THEN texts[p] ELSE None]]
           /\ pages' = [p \in PdfPages |->
                           IF p \in S /\ texts[p].by = "region" THEN Ocr!Page("region", 0, 0) ELSE pages[p]]
           /\ Ocr!Store(new(texts))
    BY DEF Ocr!Regions
  <1> HIDE DEF S, may
  <1>3. got'.local = got.local /\ got'.llm = got.llm
        /\ got' = [local |-> got'.local, llm |-> got'.llm, region |-> got'.region]
    BY <1>2 DEF OcrInv
  <1>4. got' = [local |-> [p \in PdfPages |-> got'.local[p]], llm |-> [p \in PdfPages |-> got'.llm[p]],
               region |-> got'.region]
    BY <1>3 DEF OcrInv
  <1>5. \A p \in PdfPages : Ocr!Content(p)' = Ocr!Content(p)
    BY <1>1, <1>3 DEF Ocr!Content, Ocr!Enhanced, Ocr!Says, Ocr!Usable, Ocr!Transcribed, Ocr!Listed,
         Ocr!Inline, Ocr!NativeText
  <1>6. \A p \in PdfPages : Tried(p)'
    BY <1>1, <1>3 DEF OcrInv, Tried, Ocr!Usable, Ocr!Looking
  <1>7. (\A p \in PdfPages : got.llm[p] # None => p \in plan.llm /\ OfModel(got.llm[p], Ocr!ModelOf(parse)))'
    BY <1>1, <1>3 DEF OcrInv, Ocr!ModelOf
  <1>8. ASSUME NEW e \in cache'
        PROVE  /\ e.kind = "llm" => e.text # None /\ OfModel(e.text, e.key)
               /\ e.kind = "local" => e.text # None /\ OfWorker(e.text) /\ <<e.page, e.text>> \in made'
    <2>1. CASE e \in cache
      BY <1>1, <2>1 DEF OcrInv, CacheInv
    <2>2. CASE e \notin cache
      <3>1. PICK p \in S : e = Ocr!Entry("region", None, p, texts[p])
        BY <1>2, <1>8, <2>2 DEF Ocr!Store
      <3> QED
        BY <3>1 DEF Ocr!Entry
    <2> QED
      BY <2>1, <2>2
  <1>9. CacheInv'
    BY <1>8 DEF CacheInv
  <1>10. ASSUME NEW p \in PdfPages
         PROVE  pages'[p] = Ocr!Content(p)' \/ pages'[p].from = "region"
    <2>1. pages[p] = Ocr!Content(p) \/ pages[p].from = "region"
      BY <1>1 DEF OcrInv
    <2>2. pages'[p] = pages[p] \/ pages'[p] = Ocr!Page("region", 0, 0)
      BY <1>2
    <2> QED
      BY <1>5, <2>1, <2>2 DEF Ocr!Page
  <1>11. \A p \in PdfPages :
            got'.local[p] # None => OfWorker(got'.local[p]) /\ <<p, got'.local[p]>> \in made'
    BY <1>1, <1>3 DEF OcrInv
  <1> QED
    BY <1>1, <1>4, <1>6, <1>7, <1>9, <1>10, <1>11 DEF OcrInv, Stages

LEMMA OcrStep == ASSUME OcrInv, [Ocr!Next]_(Ocr!vars) PROVE OcrInv'
  <1>1. CASE UNCHANGED Ocr!vars
    <2>1. UNCHANGED <<pdf, parse, at, plan, got, pages, cache, made>>
      BY <1>1 DEF Ocr!vars
    <2>2. \A p \in PdfPages : Ocr!Content(p)' = Ocr!Content(p)
      BY <2>1 DEF Ocr!Content, Ocr!Enhanced, Ocr!Says, Ocr!Usable, Ocr!Transcribed, Ocr!Listed,
           Ocr!Inline, Ocr!NativeText
    <2>3. at' \in {"assemble", "regions", "parsed"} => \A p \in PdfPages : Tried(p)'
      BY <2>1 DEF OcrInv, Tried, Ocr!Usable, Ocr!Looking
    <2>4. (\A p \in PdfPages : got.llm[p] # None => p \in plan.llm /\ OfModel(got.llm[p], Ocr!ModelOf(parse)))'
      BY <2>1 DEF OcrInv, Ocr!ModelOf
    <2>5. CacheInv'
      BY <2>1 DEF OcrInv, CacheInv
    <2> QED
      BY <2>1, <2>2, <2>3, <2>4, <2>5 DEF OcrInv
  <1>2. CASE Ocr!Next
    BY <1>2, OcrParse, OcrLocalPages, OcrLlmPages, OcrFallback, OcrAssemble, OcrRegions DEF Ocr!Next
  <1> QED
    BY <1>1, <1>2

LEMMA OcrAlways == ASSUME OcrInv, [Next]_vars PROVE OcrInv'
  <1>1. [Ocr!Next]_(Ocr!vars)
    BY DEF Next, Rest, vars, ocrVars, Ocr!vars, indexVars, captureVars, sessionVars, searchVars, providerVars,
         workerVars, resultVars, summaryVars
  <1> QED
    BY <1>1, OcrStep

(* A page that counts as transcribed carries a transcription, and one that does   *)
(* not has its own text, or the failure marker where it has none and nobody was   *)
(* left to ask; and a page that keeps its text keeps its tables.                  *)
THEOREM PagesHonest == Spec => []PagesAreHonest
  <1>1. Init => OcrInv
    BY OcrStarts DEF Init
  <1>2. OcrInv /\ [Next]_vars => OcrInv'
    BY OcrAlways
  <1>3. ASSUME OcrInv PROVE PagesAreHonest
    <2>1. ASSUME NEW p \in Ocr!Assembled
          PROVE  Honest(p, pages[p])
      <3>1. p \in PdfPages /\ at \in {"regions", "parsed"} /\ pages[p] = Ocr!Content(p)
        BY <1>3, <2>1 DEF Ocr!Assembled, OcrInv
      <3> QED
        BY <1>3, <3>1, ContentIsHonest
    <2> QED
      BY <2>1 DEF PagesAreHonest, Ocr!PagesAreHonest, Ocr!TablesKept, Honest
  <1> QED
    BY <1>1, <1>2, <1>3, PTL DEF Spec

(* What a cache answers with is what this parse would have been given: a text of  *)
(* the model it runs under, and a local text as the worker made it of that page.  *)
THEOREM CachesOfTheirSettings == Spec => []CacheOfItsSettings
  <1>1. Init => OcrInv
    BY OcrStarts DEF Init
  <1>2. OcrInv /\ [Next]_vars => OcrInv'
    BY OcrAlways
  <1>3. ASSUME OcrInv PROVE CacheOfItsSettings
    <2>1. ASSUME NEW p \in PdfPages, got.llm[p] # None
          PROVE  got.llm[p].key \in {Ocr!ModelOf(parse), None}
      <3>1. OfModel(got.llm[p], Ocr!ModelOf(parse))
        BY <1>3, <2>1 DEF OcrInv
      <3> QED
        BY <3>1 DEF OfModel, Ocr!Marker, Ocr!Blank, Ocr!Text
    <2>2. ASSUME NEW p \in PdfPages, got.local[p] # None
          PROVE  <<p, got.local[p]>> \in made
      BY <1>3, <2>2 DEF OcrInv
    <2> QED
      BY <2>1, <2>2 DEF CacheOfItsSettings, Ocr!CacheOfItsSettings
  <1> QED
    BY <1>1, <1>2, <1>3, PTL DEF Spec

-----------------------------------------------------------------------------
(* The index: who holds the lock of a document has its row and its manifest as   *)
(* far as its operation has come, and every other document has them agree.       *)
IndexThread == [at : {"idle", "manifest", "lock", "execute", "commit", "rollback", "export",
                      "unlock", "restore", "end"},
                op : {"none", "rewrite", "share", "text"}, doc : IndexDocs \cup {Index!Idle.doc},
                shared : BOOLEAN, before : Index!Entries, failed : BOOLEAN]
IndexType ==
    /\ db \in Index!Database
    /\ json \in [IndexDocs -> Index!Entries] /\ manifest \in [IndexDocs -> Index!Entries]
    /\ conn \in [Threads -> Index!Database \cup {None}]
    /\ thr \in [Threads -> IndexThread]
    /\ indexLocks \in [writer : [IndexDocs -> Threads \cup {None}], index : Threads \cup {None}]
    /\ indexEnv \in [at : {"start", "serve"}, ops : Nat, faults : Nat, crashes : Nat, stale : BOOLEAN,
                     torn : SUBSET IndexDocs]

Indexing(p) == p.op \in {"rewrite", "share"}
(* What the change of a thread makes of the manifest, and of the row.            *)
Changed(p) == IF p.op = "share" THEN Index!Entry(p.before.write, p.shared)
              ELSE Index!Entry(p.before.write + 1, p.before.shared)
Committing(p) == IF p.op = "rewrite" THEN manifest[p.doc]
                 ELSE Index!Entry(db.row[p.doc].write, p.shared)
Agrees(d, e) == /\ db.row[d].write = e.write
                /\ d \notin indexEnv.torn => db.row[d].shared = e.shared

Phase(t) ==
    LET p == thr[t] IN
    /\ p.at = "idle" <=> p.op = "none"
    /\ p.at # "idle" => p.doc \in IndexDocs /\ indexEnv.at = "serve"
    /\ p.op = "text" => p.at \in {"execute", "commit", "rollback", "unlock", "end"}
    /\ Indexing(p) /\ p.failed => p.at \in {"unlock", "restore", "end"}
    /\ p.at = "restore" => p.failed
    /\ indexLocks.index = t <=>
          Indexing(p) /\ p.at \in {"execute", "commit", "rollback", "export", "unlock"}
    /\ Indexing(p) => indexLocks.writer[p.doc] = t
Opened(t) ==
    LET p == thr[t] IN
    /\ conn[t] # None => p.at \in {"commit", "rollback"} /\ \A u \in Threads \ {t} : conn[u] = None
    /\ p.at = "commit" =>
          /\ conn[t] # None /\ conn[t].migrated
          /\ conn[t].row = IF p.op = "text" THEN db.row
                           ELSE [db.row EXCEPT ![p.doc] = Committing(p)]
Changing(t) ==
    LET p == thr[t] IN
    Indexing(p) =>
    /\ p.at = "manifest" => manifest[p.doc] = p.before
    /\ p.at \in {"lock", "execute", "commit"} => manifest[p.doc] = Changed(p)
    /\ p.at \in {"manifest", "lock", "execute", "commit", "rollback", "restore"} \/ (p.at = "unlock" /\ p.failed)
         => Agrees(p.doc, p.before)
    /\ p.at \in {"export", "end"} \/ (p.at = "unlock" /\ ~p.failed) => Agrees(p.doc, manifest[p.doc])
    /\ p.op = "share" => manifest[p.doc].write = db.row[p.doc].write
Undisturbed(d) ==
    LET t == indexLocks.writer[d] IN
    /\ t = None \/ thr[t].op = "text" => Agrees(d, manifest[d])
    /\ t # None => thr[t].doc = d /\ thr[t].op # "none"
Migrated ==
    /\ indexEnv.at = "serve" => db.migrated
    /\ indexEnv.at = "start" => \A d \in IndexDocs : indexLocks.writer[d] = None
    /\ ~db.migrated => json = manifest /\ indexEnv.torn = {}
    /\ db.migrated => db.row \in [IndexDocs -> Index!Entries]
Exported == json = db.row \/ indexEnv.stale \/ \E t \in Threads : thr[t].at = "export"

IndexInv ==
    /\ IndexType /\ Migrated
    /\ \A t \in Threads : Phase(t) /\ Opened(t)
    /\ db.migrated => Exported /\ (\A t \in Threads : Changing(t)) /\ \A d \in IndexDocs : Undisturbed(d)

LEMMA IndexNone == None \notin Threads /\ None \notin Index!Entries /\ None \notin Index!Database
  BY MCPartsAssumption DEF Index!DocIndexAssumption

LEMMA IndexKnows == ASSUME IndexInv PROVE IndexAgrees
  <1>1. Index!RowIsManifest
    BY DEF IndexInv, Migrated, Undisturbed, Agrees, Index!RowIsManifest
  <1>2. Index!ExportIsCurrent
    <2>1. ASSUME indexEnv.at = "serve", indexLocks.index = None, ~indexEnv.stale PROVE json = db.row
      <3>1. \A t \in Threads : thr[t].at # "export"
        BY <2>1, IndexNone DEF IndexInv, Phase, Indexing, IndexType, IndexThread
      <3> QED
        BY <2>1, <3>1 DEF IndexInv, Migrated, Exported
    <2>2. \A t \in Threads : thr[t].at \in {"idle", "manifest", "lock", "end"} => conn[t] = None
      BY DEF IndexInv, Opened
    <2> QED
      BY <2>1, <2>2 DEF Index!ExportIsCurrent
  <1> QED
    BY <1>1, <1>2 DEF IndexAgrees

LEMMA IdleThread ==
  /\ Index!Idle \in IndexThread
  /\ Index!Idle.at = "idle" /\ Index!Idle.op = "none" /\ Index!Idle.failed = FALSE
  BY DEF Index!Idle, IndexThread, Index!First, Index!Entry, Index!Entries

LEMMA IndexStarts == ASSUME Index!Init PROVE IndexInv
  <1>1. Index!First \in Index!Entries
    BY DEF Index!First, Index!Entry, Index!Entries
  <1>2. IndexType
    BY <1>1, IdleThread DEF Index!Init, IndexType, Index!Database
  <1>3. ~db.migrated /\ Migrated
    BY DEF Index!Init, Migrated
  <1>4. \A t \in Threads : Phase(t) /\ Opened(t)
    BY IdleThread, IndexNone DEF Index!Init, Phase, Opened, Indexing
  <1> QED
    BY <1>2, <1>3, <1>4 DEF IndexInv

(* One thread goes on, with the rest of what it knows.                           *)
IndexMoves(t, p) == thr' = [thr EXCEPT ![t] = p]
Going(t, a) == [at |-> a, op |-> thr[t].op, doc |-> thr[t].doc, shared |-> thr[t].shared,
                before |-> thr[t].before, failed |-> thr[t].failed]
LEMMA IndexGoto ==
  ASSUME IndexType, NEW t \in Threads, NEW a, Index!Goto(t, a)
  PROVE  IndexMoves(t, Going(t, a))
  <1>1. [thr[t] EXCEPT !.at = a] = Going(t, a)
    BY DEF IndexType, IndexThread, Going
  <1> QED
    BY <1>1 DEF Index!Goto, IndexMoves, IndexType

LEMMA MigrateStep == ASSUME IndexInv, Index!Migrate PROVE IndexInv'
  <1>1. indexEnv' = [at |-> "serve", ops |-> indexEnv.ops, faults |-> indexEnv.faults,
                     crashes |-> indexEnv.crashes, stale |-> indexEnv.stale, torn |-> indexEnv.torn]
    BY DEF IndexInv, IndexType, Index!Migrate
  <1>2. db' = IF db.migrated THEN db ELSE [row |-> json, text |-> db.text, migrated |-> TRUE]
    <2>1. ASSUME ~db.migrated PROVE db' = [row |-> json, text |-> db.text, migrated |-> TRUE]
      <3>1. db = [row |-> db.row, text |-> db.text, migrated |-> db.migrated]
        BY DEF IndexInv, IndexType, Index!Database
      <3>2. [d \in IndexDocs |-> IF json[d] # None THEN json[d] ELSE db.row[d]] = json
        BY IndexNone DEF IndexInv, IndexType
      <3> QED
        BY <2>1, <3>1, <3>2 DEF Index!Migrate
    <2> QED
      BY <2>1 DEF Index!Migrate
  <1>3. UNCHANGED <<json, manifest, conn, thr, indexLocks>> /\ indexEnv.at = "start"
    BY DEF Index!Migrate
  <1>4. IndexType'
    BY <1>1, <1>2, <1>3 DEF IndexInv, IndexType, Index!Database
  <1>5. Migrated'
    BY <1>1, <1>2, <1>3 DEF IndexInv, IndexType, Migrated
  <1>6. \A t \in Threads : thr[t].at = "idle" /\ thr[t].op = "none" /\ conn[t] = None
    BY <1>3 DEF IndexInv, Phase, Opened, IndexType, IndexThread
  <1>7. \A t \in Threads : Phase(t)' /\ Opened(t)'
    BY <1>1, <1>3, <1>6 DEF IndexInv, Phase, Opened, Indexing
  <1>8. \A t \in Threads : Changing(t)'
    BY <1>3, <1>6 DEF Changing, Indexing
  <1>9. Exported' /\ \A d \in IndexDocs : Undisturbed(d)'
    <2>1. CASE db.migrated
      BY <1>1, <1>2, <1>3, <2>1 DEF IndexInv, Exported, Undisturbed, Agrees
    <2>2. CASE ~db.migrated
      <3>1. \A d \in IndexDocs : indexLocks.writer[d] = None
        BY <1>3 DEF IndexInv, Migrated
      <3> QED
        BY <1>1, <1>2, <1>3, <2>2, <3>1 DEF IndexInv, Migrated, Exported, Undisturbed, Agrees
    <2> QED
      BY <2>1, <2>2
  <1> QED
    BY <1>4, <1>5, <1>7, <1>8, <1>9 DEF IndexInv

(* A thread whose documents and whose share of the locks nobody touches.         *)
LEMMA Bystander ==
  ASSUME IndexInv, db.migrated, NEW u \in Threads, thr'[u] = thr[u],
         indexEnv'.at = indexEnv.at, indexLocks'.index = u <=> indexLocks.index = u,
         \A d \in IndexDocs : indexLocks.writer[d] = u =>
             /\ indexLocks'.writer[d] = u /\ manifest'[d] = manifest[d] /\ db'.row[d] = db.row[d]
             /\ d \in indexEnv'.torn <=> d \in indexEnv.torn
  PROVE  Phase(u)' /\ Changing(u)'
  <1>1. Indexing(thr[u]) => indexLocks.writer[thr[u].doc] = u /\ thr[u].doc \in IndexDocs
    BY DEF IndexInv, Phase, Indexing
  <1>2. Phase(u)'
    BY <1>1 DEF IndexInv, Phase, Indexing
  <1>3. Changing(u)'
    BY <1>1 DEF IndexInv, Changing, Indexing, Changed, Agrees
  <1> QED
    BY <1>2, <1>3

(* And a document that nobody touches.                                           *)
LEMMA Untouched ==
  ASSUME IndexInv, db.migrated, NEW d \in IndexDocs,
         manifest'[d] = manifest[d], db'.row[d] = db.row[d],
         d \in indexEnv'.torn <=> d \in indexEnv.torn,
         indexLocks'.writer[d] = indexLocks.writer[d],
         \A u \in Threads : indexLocks.writer[d] = u => thr'[u].doc = thr[u].doc /\ thr'[u].op = thr[u].op
  PROVE  Undisturbed(d)'
  <1>1. indexLocks.writer[d] \in Threads \cup {None}
    BY DEF IndexInv, IndexType
  <1> QED
    BY <1>1 DEF IndexInv, Undisturbed, Agrees

(* What a thread that is at work has.                                            *)
LEMMA AtWork ==
  ASSUME IndexInv, NEW t \in Threads, thr[t].at # "idle"
  PROVE  /\ thr[t] \in IndexThread /\ thr[t].doc \in IndexDocs /\ indexEnv.at = "serve" /\ db.migrated
         /\ thr[t].op \in {"rewrite", "share", "text"}
         /\ Indexing(thr[t]) => indexLocks.writer[thr[t].doc] = t
         /\ Phase(t) /\ Opened(t) /\ Changing(t) /\ IndexType
         /\ \A d \in IndexDocs : Undisturbed(d)
  BY DEF IndexInv, Migrated, Phase, IndexType, IndexThread, Indexing

(* A thread at work goes on, by itself and over its own document.                *)
LEMMA WorkGoesOn ==
  ASSUME IndexInv, NEW t \in Threads, thr[t].at # "idle",
         \A u \in Threads \ {t} : thr'[u] = thr[u] /\ conn'[u] = conn[u],
         \A u \in Threads \ {t} : indexLocks'.index = u <=> indexLocks.index = u,
         indexEnv'.at = indexEnv.at, indexEnv'.torn = indexEnv.torn, indexLocks'.writer = indexLocks.writer,
         \A d \in IndexDocs : indexLocks.writer[d] # t => manifest'[d] = manifest[d] /\ db'.row[d] = db.row[d],
         db'.row = db.row \/ thr[t].at = "commit", db'.row \in [IndexDocs -> Index!Entries], db'.migrated,
         thr'[t].doc = thr[t].doc, thr'[t].op # "none",
         thr'[t].op = "text" /\ indexLocks.writer[thr[t].doc] = t =>
             Agrees(thr[t].doc, manifest[thr[t].doc])',
         IndexType', Phase(t)', Opened(t)', Changing(t)', Exported'
  PROVE  IndexInv'
  <1>1. indexEnv.at = "serve" /\ db.migrated
    BY AtWork
  <1>2. ASSUME NEW u \in Threads \ {t} PROVE Phase(u)' /\ Changing(u)' /\ Opened(u)'
    <2>1. \A d \in IndexDocs : indexLocks.writer[d] = u =>
             indexLocks'.writer[d] = u /\ manifest'[d] = manifest[d] /\ db'.row[d] = db.row[d]
      BY <1>2
    <2>2. Phase(u)' /\ Changing(u)'
      BY <1>1, <1>2, <2>1, Bystander
    <2>3. conn[u] # None => conn'[t] = None
      BY <1>2 DEF Opened
    <2>4. thr[u].at = "commit" => db'.row = db.row
      BY <1>2 DEF IndexInv, Opened
    <2>5. Indexing(thr[u]) => manifest'[thr[u].doc] = manifest[thr[u].doc]
      BY <1>2, <2>1 DEF IndexInv, Phase, Indexing
    <2>6. Opened(u)'
      <3>1. thr[u].at = "commit" => (thr[u].op = "text" \/ Indexing(thr[u]))
        BY <1>2 DEF IndexInv, IndexType, IndexThread, Phase, Indexing
      <3>2. thr[u].at = "commit" /\ Indexing(thr[u]) => Committing(thr[u])' = Committing(thr[u])
        BY <1>2, <2>4, <2>5 DEF Committing
      <3>3. Opened(u)
        BY <1>2 DEF IndexInv
      <3> QED
        BY <1>2, <2>3, <2>4, <3>1, <3>2, <3>3 DEF Opened, Indexing
    <2> QED
      BY <2>2, <2>6
  <1>3. ASSUME NEW d \in IndexDocs PROVE Undisturbed(d)'
    <2>1. CASE indexLocks.writer[d] = t
      <3>1. thr[t].doc = d
        BY <2>1, IndexNone, AtWork DEF Undisturbed
      <3> QED
        BY <2>1, <3>1, IndexNone DEF Undisturbed
    <2>2. CASE indexLocks.writer[d] # t
      BY <1>1, <2>2, Untouched
    <2> QED
      BY <2>1, <2>2
  <1>4. Migrated'
    BY <1>1 DEF IndexInv, Migrated
  <1> QED
    BY <1>2, <1>3, <1>4 DEF IndexInv

LEMMA BeginStep ==
  ASSUME IndexInv, NEW t \in Threads, NEW d \in IndexDocs, NEW op \in {"rewrite", "share", "text"},
         NEW shared \in BOOLEAN, Index!Begin(t, d, op, shared)
  PROVE  IndexInv'
  <1> DEFINE starts == [at |-> IF op = "text" THEN "execute" ELSE "manifest", op |-> op, doc |-> d,
                       shared |-> shared, before |-> manifest[d], failed |-> FALSE]
  <1>1. IndexMoves(t, starts) /\ thr[t].at = "idle" /\ indexEnv.at = "serve"
    <2>1. [Index!Idle EXCEPT !.at = IF op = "text" THEN "execute" ELSE "manifest", !.op = op, !.doc = d,
                            !.shared = shared, !.before = manifest[d]] = starts
      <3> DEFINE x == [Index!Idle EXCEPT !.at = IF op = "text" THEN "execute" ELSE "manifest", !.op = op,
                                         !.doc = d, !.shared = shared, !.before = manifest[d]]
      <3>1. x \in IndexThread
        BY IdleThread DEF IndexThread, IndexInv, IndexType
      <3>2. /\ x.at = (IF op = "text" THEN "execute" ELSE "manifest") /\ x.op = op /\ x.doc = d
            /\ x.shared = shared /\ x.before = manifest[d] /\ x.failed = FALSE
        BY IdleThread DEF IndexThread
      <3> HIDE DEF x
      <3>3. x = starts
        BY <3>1, <3>2 DEF IndexThread
      <3> QED
        BY <3>3 DEF x
    <2> QED
      BY <2>1 DEF Index!Begin, Index!At, IndexMoves
  <1>2. IndexType /\ db.migrated /\ Phase(t) /\ Opened(t) /\ thr[t].op = "none" /\ conn[t] = None
    BY <1>1 DEF IndexInv, Migrated, Phase, Opened
  <1>3. indexLocks' = [writer |-> IF op = "text" THEN indexLocks.writer ELSE [indexLocks.writer EXCEPT ![d] = t],
                       index |-> indexLocks.index]
        /\ (op # "text" => indexLocks.writer[d] = None)
    BY <1>2 DEF Index!Begin, IndexType
  <1>4. indexEnv' = [indexEnv EXCEPT !.ops = @ + 1] /\ UNCHANGED <<db, json, manifest, conn>>
    BY DEF Index!Begin
  <1>5. /\ indexEnv'.at = indexEnv.at /\ indexEnv'.torn = indexEnv.torn /\ indexEnv'.stale = indexEnv.stale
        /\ indexLocks'.index = indexLocks.index
        /\ \A e \in IndexDocs : indexLocks'.writer[e] = IF op # "text" /\ e = d THEN t ELSE indexLocks.writer[e]
        /\ thr'[t] = starts /\ \A u \in Threads \ {t} : thr'[u] = thr[u]
    BY <1>1, <1>2, <1>3, <1>4 DEF IndexType, IndexMoves
  <1>6. IndexType'
    <2>1. starts \in IndexThread
      BY <1>2 DEF IndexType, IndexThread
    <2>2. indexEnv' \in [at : {"start", "serve"}, ops : Nat, faults : Nat, crashes : Nat, stale : BOOLEAN,
                         torn : SUBSET IndexDocs]
      BY <1>2, <1>4 DEF IndexType
    <2> QED
      BY <1>1, <1>2, <1>3, <1>4, <2>1, <2>2 DEF IndexType, IndexMoves
  <1>7. Migrated'
    BY <1>1, <1>4, <1>5 DEF IndexInv, Migrated
  <1>8. Exported'
    BY <1>1, <1>2, <1>4, <1>5 DEF IndexInv, Exported
  <1>9. ASSUME NEW u \in Threads PROVE Phase(u)' /\ Changing(u)' /\ Opened(u)'
    <2>1. CASE u = t
      <3>1. op # "text" => Agrees(d, manifest[d]) /\ indexLocks'.writer[d] = t
        BY <1>2, <1>3, <1>5 DEF IndexInv, Undisturbed
      <3>2. indexLocks.index # t
        BY <1>1, <1>2 DEF Phase
      <3>3. Phase(t)'
        BY <1>1, <1>5, <3>1, <3>2 DEF Phase, Indexing
      <3>4. Changing(t)'
        BY <1>4, <1>5, <3>1 DEF Changing, Indexing, Agrees
      <3>5. Opened(t)'
        BY <1>2, <1>4, <1>5 DEF Opened
      <3> QED
        BY <2>1, <3>3, <3>4, <3>5
    <2>2. CASE u # t
      <3>1. \A e \in IndexDocs : indexLocks.writer[e] = u => indexLocks'.writer[e] = u
        BY <1>3, <1>5, IndexNone
      <3>2. Phase(u)' /\ Changing(u)'
        BY <1>2, <1>4, <1>5, <2>2, <3>1, Bystander
      <3>3. Opened(u)'
        BY <1>4, <1>5, <2>2 DEF IndexInv, Opened, Committing
      <3> QED
        BY <3>2, <3>3
    <2> QED
      BY <2>1, <2>2
  <1>10. ASSUME NEW e \in IndexDocs PROVE Undisturbed(e)'
    <2>1. CASE op # "text" /\ e = d
      BY <1>5, <2>1, IndexNone DEF Undisturbed
    <2>2. CASE ~(op # "text" /\ e = d)
      <3>1. indexLocks.writer[e] # t
        BY <1>2, IndexNone DEF IndexInv, Undisturbed
      <3> QED
        BY <1>2, <1>4, <1>5, <2>2, <3>1, Untouched
    <2> QED
      BY <2>1, <2>2
  <1> QED
    BY <1>2, <1>4, <1>6, <1>7, <1>8, <1>9, <1>10 DEF IndexInv

LEMMA WriteManifestStep ==
  ASSUME IndexInv, NEW t \in Threads, Index!WriteManifest(t) PROVE IndexInv'
  <1>1. IndexMoves(t, Going(t, "lock")) /\ thr[t].at = "manifest"
    BY IndexGoto DEF Index!WriteManifest, Index!At, IndexInv
  <1>2. /\ thr[t] \in IndexThread /\ thr[t].doc \in IndexDocs /\ Indexing(thr[t]) /\ db.migrated /\ IndexType
        /\ indexLocks.writer[thr[t].doc] = t /\ Phase(t) /\ Opened(t) /\ Changing(t)
    BY <1>1, AtWork DEF Phase, Indexing
  <1>3. Changed(thr[t]) \in Index!Entries /\ manifest[thr[t].doc] = thr[t].before
    BY <1>1, <1>2 DEF IndexThread, Changed, Changing, Index!Entry, Index!Entries
  <1>4. manifest' = [manifest EXCEPT ![thr[t].doc] = Changed(thr[t])]
        /\ UNCHANGED <<db, json, conn, indexLocks, indexEnv>>
    BY <1>2, <1>3 DEF Index!WriteManifest, Index!DocOf, Changed, Indexing, IndexType
  <1>5. thr'[t] = Going(t, "lock") /\ \A u \in Threads \ {t} : thr'[u] = thr[u]
    BY <1>1, <1>2 DEF IndexMoves, IndexType
  <1>6. IndexType'
    BY <1>1, <1>2, <1>3, <1>4 DEF IndexType, IndexThread, IndexMoves, Going
  <1>7. Phase(t)' /\ Opened(t)'
    BY <1>1, <1>2, <1>4, <1>5 DEF Phase, Opened, Indexing, Going
  <1>8. Changing(t)'
    BY <1>1, <1>2, <1>3, <1>4, <1>5 DEF Changing, Indexing, Going, Agrees, Changed, Index!Entry, IndexType
  <1>9. Exported'
    BY <1>1, <1>2, <1>4, <1>5 DEF IndexInv, Exported
  <1> QED
    BY <1>1, <1>2, <1>4, <1>5, <1>6, <1>7, <1>8, <1>9, WorkGoesOn DEF IndexInv, Migrated, Indexing, Going, IndexType

LEMMA LockIndexStep == ASSUME IndexInv, NEW t \in Threads, Index!LockIndex(t) PROVE IndexInv'
  <1>1. IndexMoves(t, Going(t, "execute")) /\ thr[t].at = "lock" /\ indexLocks.index = None
    BY IndexGoto DEF Index!LockIndex, Index!At, IndexInv
  <1>2. /\ thr[t] \in IndexThread /\ thr[t].doc \in IndexDocs /\ Indexing(thr[t]) /\ db.migrated /\ IndexType
        /\ indexLocks.writer[thr[t].doc] = t /\ Phase(t) /\ Opened(t) /\ Changing(t)
    BY <1>1, AtWork DEF Phase, Indexing
  <1>3. indexLocks' = [writer |-> indexLocks.writer, index |-> t]
        /\ UNCHANGED <<db, json, manifest, conn, indexEnv>>
    BY <1>2 DEF Index!LockIndex, IndexType
  <1>4. thr'[t] = Going(t, "execute") /\ \A u \in Threads \ {t} : thr'[u] = thr[u]
    BY <1>1, <1>2 DEF IndexMoves, IndexType
  <1>5. IndexType'
    BY <1>1, <1>2, <1>3 DEF IndexType, IndexThread, IndexMoves, Going
  <1>6. Phase(t)' /\ Opened(t)' /\ Changing(t)'
    BY <1>1, <1>2, <1>3, <1>4 DEF Phase, Opened, Changing, Indexing, Going, Agrees, Changed
  <1>7. Exported'
    BY <1>1, <1>2, <1>3, <1>4 DEF IndexInv, Exported
  <1>8. \A u \in Threads \ {t} : indexLocks'.index # u /\ indexLocks.index # u
    BY <1>1, <1>3, IndexNone
  <1> QED
    BY <1>1, <1>2, <1>3, <1>4, <1>5, <1>6, <1>7, <1>8, WorkGoesOn DEF IndexInv, Migrated, Indexing, Going, IndexType

(* What the transaction of a thread is made of.                                  *)
LEMMA WrittenIs ==
  ASSUME IndexInv, NEW t \in Threads, thr[t].at = "execute"
  PROVE  /\ conn[t] = None /\ Index!Written(t) \in Index!Database /\ Index!Written(t) # None
         /\ Index!Written(t).migrated
         /\ Index!Written(t).row = IF thr[t].op = "text" THEN db.row
                                   ELSE [db.row EXCEPT ![thr[t].doc] = Committing(thr[t])]
  <1>1. /\ thr[t] \in IndexThread /\ thr[t].doc \in IndexDocs /\ db.migrated /\ IndexType
        /\ thr[t].op \in {"rewrite", "share", "text"} /\ Opened(t)
        /\ db.row \in [IndexDocs -> Index!Entries]
    BY AtWork DEF IndexInv, Migrated
  <1>2. conn[t] = None /\ Index!Seen(t) = db
    BY <1>1 DEF Opened, Index!Seen
  <1>3. db = [row |-> db.row, text |-> db.text, migrated |-> TRUE] /\ db.text \in [IndexDocs -> {0, 1}]
    BY <1>1 DEF IndexType, Index!Database
  <1> DEFINE d == thr[t].doc
  <1>4. ASSUME NEW e \in Index!Entries
        PROVE  LET w == [db EXCEPT !.row[d] = e] IN
               w \in Index!Database /\ w.migrated /\ w.row = [db.row EXCEPT ![d] = e]
    <2>1. db.row \in [IndexDocs -> Index!Entries \cup {None}] /\ d \in IndexDocs /\ db \in Index!Database
      BY <1>1 DEF IndexType
    <2> HIDE DEF d
    <2> QED
      BY <1>1, <2>1 DEF Index!Database
  <1>5. CASE thr[t].op = "rewrite"
    <2>1. Index!Written(t) = [db EXCEPT !.row[d] = manifest[d]] /\ manifest[d] \in Index!Entries
      BY <1>1, <1>2, <1>5 DEF Index!Written, Index!DocOf, IndexType
    <2> QED
      BY <1>2, <1>4, <1>5, <2>1, IndexNone DEF Committing
  <1>6. CASE thr[t].op = "share"
    <2>1. [db.row[d] EXCEPT !.shared = thr[t].shared] = Committing(thr[t])
          /\ Committing(thr[t]) \in Index!Entries
      BY <1>1, <1>6 DEF Committing, Index!Entry, Index!Entries, IndexThread
    <2>2. Index!Written(t) = [db EXCEPT !.row[d] = Committing(thr[t])]
      BY <1>2, <1>6, <2>1 DEF Index!Written, Index!DocOf
    <2> QED
      BY <1>2, <1>4, <1>6, <2>1, <2>2, IndexNone
  <1>7. CASE thr[t].op = "text"
    <2>1. Index!Written(t) = [db EXCEPT !.text[d] = 1 - db.text[d]]
      BY <1>2, <1>7 DEF Index!Written, Index!DocOf
    <2>2. db.text \in [IndexDocs -> {0, 1}] /\ d \in IndexDocs /\ db \in Index!Database
      BY <1>1 DEF IndexType, Index!Database
    <2>3. 1 - db.text[d] \in {0, 1}
      BY <2>2
    <2>4. Index!Written(t) \in Index!Database /\ Index!Written(t).migrated /\ Index!Written(t).row = db.row
      BY <1>1, <2>1, <2>2, <2>3 DEF Index!Database
    <2> QED
      BY <1>2, <1>7, <2>4, IndexNone
  <1> QED
    BY <1>1, <1>5, <1>6, <1>7

LEMMA ExecuteStep == ASSUME IndexInv, NEW t \in Threads, Index!Execute(t) PROVE IndexInv'
  <1>1. /\ thr[t].at = "execute" /\ UNCHANGED <<db, json, manifest, indexLocks>>
        /\ \/ /\ conn' = [conn EXCEPT ![t] = Index!Written(t)] /\ IndexMoves(t, Going(t, "commit"))
              /\ indexEnv' = indexEnv /\ \A u \in Threads \ {t} : conn[u] = None
           \/ /\ indexEnv' = [indexEnv EXCEPT !.faults = @ + 1] /\ IndexMoves(t, Going(t, "rollback"))
              /\ conn' = conn
    BY IndexGoto DEF Index!Execute, Index!At, Index!Fault, IndexInv
  <1>2. /\ thr[t] \in IndexThread /\ thr[t].doc \in IndexDocs /\ db.migrated /\ IndexType
        /\ thr[t].op \in {"rewrite", "share", "text"} /\ ~(Indexing(thr[t]) /\ thr[t].failed)
        /\ (Indexing(thr[t]) => indexLocks.writer[thr[t].doc] = t) /\ Phase(t) /\ Opened(t) /\ Changing(t)
        /\ \A d \in IndexDocs : Undisturbed(d)
    BY <1>1, AtWork DEF Phase
  <1>3. /\ conn[t] = None /\ Index!Written(t) \in Index!Database /\ Index!Written(t) # None
        /\ Index!Written(t).migrated
        /\ Index!Written(t).row = IF thr[t].op = "text" THEN db.row
                                  ELSE [db.row EXCEPT ![thr[t].doc] = Committing(thr[t])]
    BY <1>1, WrittenIs
  <1>4. /\ \A u \in Threads \ {t} : thr'[u] = thr[u] /\ conn'[u] = conn[u]
        /\ indexEnv'.at = indexEnv.at /\ indexEnv'.torn = indexEnv.torn /\ indexEnv'.stale = indexEnv.stale
    BY <1>1, <1>2 DEF IndexMoves, IndexType
  <1>5. \/ thr'[t] = Going(t, "commit") /\ conn'[t] = Index!Written(t)
           /\ \A u \in Threads \ {t} : conn'[u] = None
        \/ thr'[t] = Going(t, "rollback") /\ conn'[t] = None
    BY <1>1, <1>2, <1>3 DEF IndexMoves, IndexType
  <1>6. IndexType'
    <2>1. thr' \in [Threads -> IndexThread]
      BY <1>1, <1>2 DEF IndexType, IndexThread, IndexMoves, Going
    <2>2. conn' \in [Threads -> Index!Database \cup {None}]
      BY <1>1, <1>2, <1>3 DEF IndexType
    <2>3. indexEnv' \in [at : {"start", "serve"}, ops : Nat, faults : Nat, crashes : Nat, stale : BOOLEAN,
                         torn : SUBSET IndexDocs]
      BY <1>1, <1>2 DEF IndexType
    <2> QED
      BY <1>1, <1>2, <2>1, <2>2, <2>3 DEF IndexType
  <1>7. Phase(t)' /\ Changing(t)'
    BY <1>1, <1>2, <1>4, <1>5 DEF Phase, Changing, Indexing, Going, Agrees, Changed
  <1>8. Opened(t)'
    BY <1>1, <1>3, <1>5 DEF Opened, Going, Committing
  <1>9. Exported'
    <2>1. \A u \in Threads : thr[u].at = "export" => thr'[u].at = "export"
      BY <1>1, <1>4
    <2> QED
      BY <1>1, <1>2, <1>4, <2>1 DEF IndexInv, Exported
  <1>10. thr'[t].op = thr[t].op /\ thr'[t].doc = thr[t].doc
    BY <1>5 DEF Going
  <1>11. thr[t].op = "text" /\ indexLocks.writer[thr[t].doc] = t => Agrees(thr[t].doc, manifest[thr[t].doc])'
    <2>1. Undisturbed(thr[t].doc)
      BY <1>2
    <2> QED
      BY <1>1, <1>4, <1>10, <2>1 DEF Undisturbed, Agrees
  <1> QED
    BY <1>1, <1>2, <1>4, <1>6, <1>7, <1>8, <1>9, <1>10, <1>11, WorkGoesOn DEF IndexInv, Migrated

LEMMA CommitStep == ASSUME IndexInv, NEW t \in Threads, Index!Commit(t) PROVE IndexInv'
  <1>1. /\ thr[t].at = "commit" /\ UNCHANGED <<json, manifest, indexLocks>>
        /\ \/ /\ db' = conn[t] /\ conn' = [conn EXCEPT ![t] = None] /\ indexEnv' = indexEnv
              /\ IndexMoves(t, Going(t, IF thr[t].op = "text" THEN "end" ELSE "export"))
           \/ /\ indexEnv' = [indexEnv EXCEPT !.faults = @ + 1] /\ IndexMoves(t, Going(t, "rollback"))
              /\ UNCHANGED <<db, conn>>
    BY IndexGoto DEF Index!Commit, Index!At, Index!Fault, IndexInv
  <1>2. /\ thr[t] \in IndexThread /\ thr[t].doc \in IndexDocs /\ db.migrated /\ IndexType
        /\ thr[t].op \in {"rewrite", "share", "text"} /\ ~(Indexing(thr[t]) /\ thr[t].failed)
        /\ (Indexing(thr[t]) => indexLocks.writer[thr[t].doc] = t) /\ Phase(t) /\ Opened(t) /\ Changing(t)
        /\ db.row \in [IndexDocs -> Index!Entries] /\ \A d \in IndexDocs : Undisturbed(d)
    BY <1>1, AtWork DEF Phase, IndexInv, Migrated
  <1>3. /\ conn[t] # None /\ conn[t] \in Index!Database /\ conn[t].migrated
        /\ conn[t].row = IF thr[t].op = "text" THEN db.row
                         ELSE [db.row EXCEPT ![thr[t].doc] = Committing(thr[t])]
        /\ \A u \in Threads \ {t} : conn[u] = None
        /\ Committing(thr[t]) \in Index!Entries
    BY <1>1, <1>2 DEF Opened, Committing, IndexType, IndexThread, Index!Entry, Index!Entries
  <1>4. /\ \A u \in Threads \ {t} : thr'[u] = thr[u] /\ conn'[u] = conn[u]
        /\ indexEnv'.at = indexEnv.at /\ indexEnv'.torn = indexEnv.torn /\ indexEnv'.stale = indexEnv.stale
    BY <1>1, <1>2 DEF IndexMoves, IndexType
  <1>5. \/ /\ thr'[t] = Going(t, IF thr[t].op = "text" THEN "end" ELSE "export") /\ conn'[t] = None
           /\ db'.row = IF thr[t].op = "text" THEN db.row
                        ELSE [db.row EXCEPT ![thr[t].doc] = Committing(thr[t])]
        \/ thr'[t] = Going(t, "rollback") /\ conn'[t] = conn[t] /\ db' = db
    BY <1>1, <1>2, <1>3 DEF IndexMoves, IndexType
  <1>6. db'.migrated /\ db' \in Index!Database /\ db'.row \in [IndexDocs -> Index!Entries]
    BY <1>1, <1>2, <1>3 DEF IndexType
  <1>7. IndexType'
    <2>1. thr' \in [Threads -> IndexThread]
      BY <1>1, <1>2 DEF IndexType, IndexThread, IndexMoves, Going
    <2>2. conn' \in [Threads -> Index!Database \cup {None}]
      BY <1>1, <1>2 DEF IndexType
    <2>3. indexEnv' \in [at : {"start", "serve"}, ops : Nat, faults : Nat, crashes : Nat, stale : BOOLEAN,
                         torn : SUBSET IndexDocs]
      BY <1>1, <1>2 DEF IndexType
    <2> QED
      BY <1>1, <1>2, <1>6, <2>1, <2>2, <2>3 DEF IndexType
  <1>8. Phase(t)'
    BY <1>1, <1>2, <1>4, <1>5 DEF Phase, Indexing, Going
  <1>9. Opened(t)'
    BY <1>1, <1>3, <1>4, <1>5 DEF Opened, Going
  <1>10. Changing(t)'
    <2>1. CASE Indexing(thr[t]) /\ thr'[t] = Going(t, "export")
               /\ db'.row = [db.row EXCEPT ![thr[t].doc] = Committing(thr[t])]
      <3>1. db'.row[thr[t].doc] = Committing(thr[t]) /\ manifest[thr[t].doc] = Changed(thr[t])
            /\ db.row[thr[t].doc].write = thr[t].before.write
        BY <1>1, <1>2, <2>1 DEF Changing, Agrees
      <3>2. db'.row[thr[t].doc] = manifest[thr[t].doc]
        BY <2>1, <3>1 DEF Committing, Changed, Indexing, Index!Entry
      <3> QED
        BY <1>1, <2>1, <3>2 DEF Changing, Going, Agrees
    <2>2. CASE ~Indexing(thr[t])
      BY <1>5, <2>2 DEF Changing, Going, Indexing
    <2>3. CASE thr'[t] = Going(t, "rollback") /\ db' = db
      BY <1>1, <1>2, <1>4, <2>3 DEF Changing, Going, Indexing, Agrees
    <2> QED
      BY <1>5, <2>1, <2>2, <2>3 DEF Indexing
  <1>11. Exported'
    <2>1. \A u \in Threads : thr[u].at = "export" => thr'[u].at = "export"
      BY <1>1, <1>4
    <2>2. db'.row = db.row \/ thr'[t].at = "export"
      BY <1>5 DEF Going
    <2> QED
      BY <1>1, <1>2, <1>4, <2>1, <2>2 DEF IndexInv, Exported
  <1>12. thr'[t].op = thr[t].op /\ thr'[t].doc = thr[t].doc
    BY <1>5 DEF Going
  <1>13. thr[t].op = "text" /\ indexLocks.writer[thr[t].doc] = t => Agrees(thr[t].doc, manifest[thr[t].doc])'
    <2>1. Undisturbed(thr[t].doc)
      BY <1>2
    <2>2. thr[t].op = "text" => db'.row = db.row
      BY <1>5
    <2> QED
      BY <1>1, <1>4, <1>12, <2>1, <2>2 DEF Undisturbed, Agrees
  <1>14. \A d \in IndexDocs : indexLocks.writer[d] # t => db'.row[d] = db.row[d]
    BY <1>2, <1>5 DEF Indexing
  <1> QED
    BY <1>1, <1>2, <1>4, <1>6, <1>7, <1>8, <1>9, <1>10, <1>11, <1>12, <1>13, <1>14, WorkGoesOn

LEMMA RollbackStep == ASSUME IndexInv, NEW t \in Threads, Index!Rollback(t) PROVE IndexInv'
  <1> DEFINE next == [at |-> "unlock", op |-> thr[t].op, doc |-> thr[t].doc, shared |-> thr[t].shared,
                      before |-> thr[t].before, failed |-> TRUE]
  <1>1. thr[t].at = "rollback" /\ conn' = [conn EXCEPT ![t] = None]
        /\ UNCHANGED <<db, json, manifest, indexLocks, indexEnv>>
    BY DEF Index!Rollback, Index!At
  <1>2. /\ thr[t] \in IndexThread /\ thr[t].doc \in IndexDocs /\ db.migrated /\ IndexType
        /\ thr[t].op \in {"rewrite", "share", "text"}
        /\ (Indexing(thr[t]) => indexLocks.writer[thr[t].doc] = t) /\ Phase(t) /\ Opened(t) /\ Changing(t)
        /\ db.row \in [IndexDocs -> Index!Entries] /\ Undisturbed(thr[t].doc)
    BY <1>1, AtWork DEF IndexInv, Migrated
  <1>3. thr' = [thr EXCEPT ![t] = next]
    <2> DEFINE x == [thr[t] EXCEPT !.at = "unlock", !.failed = TRUE]
    <2>1. thr' = [thr EXCEPT ![t] = x]
      BY DEF Index!Rollback
    <2>2. x \in IndexThread
      BY <1>2 DEF IndexThread
    <2>3. /\ x.at = "unlock" /\ x.op = thr[t].op /\ x.doc = thr[t].doc
          /\ x.shared = thr[t].shared /\ x.before = thr[t].before /\ x.failed = TRUE
      BY <1>2 DEF IndexThread
    <2> HIDE DEF x
    <2>4. x = next
      BY <2>2, <2>3 DEF IndexThread
    <2> QED
      BY <2>1, <2>4
  <1>4. /\ thr'[t] = next /\ conn'[t] = None
        /\ \A u \in Threads \ {t} : thr'[u] = thr[u] /\ conn'[u] = conn[u]
    BY <1>1, <1>2, <1>3 DEF IndexType
  <1>5. IndexType'
    <2>1. next \in IndexThread
      BY <1>2 DEF IndexThread
    <2>2. thr' \in [Threads -> IndexThread] /\ conn' \in [Threads -> Index!Database \cup {None}]
      BY <1>1, <1>2, <1>3, <2>1 DEF IndexType
    <2> QED
      BY <1>1, <1>2, <2>2 DEF IndexType
  <1>6. Phase(t)' /\ Changing(t)' /\ Opened(t)'
    BY <1>1, <1>2, <1>4 DEF Phase, Changing, Opened, Indexing, Agrees
  <1>7. Exported'
    BY <1>1, <1>2, <1>4 DEF IndexInv, Exported
  <1>8. thr[t].op = "text" /\ indexLocks.writer[thr[t].doc] = t => Agrees(thr[t].doc, manifest[thr[t].doc])'
    BY <1>1, <1>2, <1>4 DEF Undisturbed, Agrees
  <1> QED
    BY <1>1, <1>2, <1>4, <1>5, <1>6, <1>7, <1>8, WorkGoesOn

LEMMA ExportStep == ASSUME IndexInv, NEW t \in Threads, Index!Export(t) PROVE IndexInv'
  <1>1. /\ thr[t].at = "export" /\ IndexMoves(t, Going(t, "unlock"))
        /\ UNCHANGED <<db, manifest, conn, indexLocks>>
        /\ \/ json' = db.row /\ indexEnv' = [indexEnv EXCEPT !.stale = FALSE]
           \/ json' = json /\ indexEnv' = [indexEnv EXCEPT !.faults = @ + 1, !.stale = TRUE]
    BY IndexGoto DEF Index!Export, Index!At, IndexInv
  <1>2. /\ thr[t] \in IndexThread /\ thr[t].doc \in IndexDocs /\ db.migrated /\ IndexType
        /\ Indexing(thr[t]) /\ ~thr[t].failed
        /\ indexLocks.writer[thr[t].doc] = t /\ Phase(t) /\ Opened(t) /\ Changing(t)
        /\ db.row \in [IndexDocs -> Index!Entries]
    BY <1>1, AtWork DEF IndexInv, Migrated, Phase, Indexing
  <1>3. /\ thr'[t] = Going(t, "unlock") /\ \A u \in Threads \ {t} : thr'[u] = thr[u]
        /\ indexEnv'.at = indexEnv.at /\ indexEnv'.torn = indexEnv.torn
        /\ (json' = db.row \/ indexEnv'.stale)
    BY <1>1, <1>2 DEF IndexMoves, IndexType
  <1>4. IndexType'
    <2>1. thr' \in [Threads -> IndexThread]
      BY <1>1, <1>2 DEF IndexType, IndexThread, IndexMoves, Going
    <2>2. indexEnv' \in [at : {"start", "serve"}, ops : Nat, faults : Nat, crashes : Nat, stale : BOOLEAN,
                         torn : SUBSET IndexDocs]
      <3>1. indexEnv \in [at : {"start", "serve"}, ops : Nat, faults : Nat, crashes : Nat, stale : BOOLEAN,
                          torn : SUBSET IndexDocs]
        BY <1>2 DEF IndexType
      <3>2. CASE indexEnv' = [indexEnv EXCEPT !.stale = FALSE]
        BY <3>1, <3>2
      <3>3. CASE indexEnv' = [indexEnv EXCEPT !.faults = @ + 1, !.stale = TRUE]
        <4>1. [indexEnv EXCEPT !.faults = @ + 1, !.stale = TRUE] \in
                 [at : {"start", "serve"}, ops : Nat, faults : Nat, crashes : Nat, stale : BOOLEAN,
                  torn : SUBSET IndexDocs]
          <5> DEFINE counted == [indexEnv EXCEPT !.faults = @ + 1]
          <5>1. counted \in [at : {"start", "serve"}, ops : Nat, faults : Nat, crashes : Nat, stale : BOOLEAN,
                             torn : SUBSET IndexDocs]
            BY <3>1
          <5>2. [indexEnv EXCEPT !.faults = @ + 1, !.stale = TRUE] = [counted EXCEPT !.stale = TRUE]
            OBVIOUS
          <5> HIDE DEF counted
          <5> QED
            BY <5>1, <5>2
        <4> QED
          BY <3>3, <4>1
      <3> QED
        BY <1>1, <3>2, <3>3
    <2>3. json' \in [IndexDocs -> Index!Entries]
      BY <1>1, <1>2 DEF IndexType
    <2> QED
      BY <1>1, <1>2, <2>1, <2>2, <2>3 DEF IndexType
  <1>5. Phase(t)' /\ Changing(t)' /\ Opened(t)'
    BY <1>1, <1>2, <1>3 DEF Phase, Changing, Opened, Indexing, Agrees, Going
  <1>6. Exported'
    BY <1>1, <1>3 DEF Exported
  <1> QED
    BY <1>1, <1>2, <1>3, <1>4, <1>5, <1>6, WorkGoesOn DEF Going, Indexing

LEMMA UnlockIndexStep == ASSUME IndexInv, NEW t \in Threads, Index!UnlockIndex(t) PROVE IndexInv'
  <1>1. /\ thr[t].at = "unlock" /\ UNCHANGED <<db, json, manifest, conn, indexEnv>>
        /\ IndexMoves(t, Going(t, IF thr[t].failed /\ thr[t].op # "text" THEN "restore" ELSE "end"))
    BY IndexGoto DEF Index!UnlockIndex, Index!At, IndexInv
  <1>2. /\ thr[t] \in IndexThread /\ thr[t].doc \in IndexDocs /\ db.migrated /\ IndexType
        /\ thr[t].op \in {"rewrite", "share", "text"}
        /\ (Indexing(thr[t]) => indexLocks.writer[thr[t].doc] = t) /\ Phase(t) /\ Opened(t) /\ Changing(t)
        /\ db.row \in [IndexDocs -> Index!Entries] /\ Undisturbed(thr[t].doc)
    BY <1>1, AtWork DEF IndexInv, Migrated
  <1>3. indexLocks' = [writer |-> indexLocks.writer,
                       index |-> IF indexLocks.index = t THEN None ELSE indexLocks.index]
    BY <1>2 DEF Index!UnlockIndex, IndexType
  <1>4. thr'[t] = Going(t, IF thr[t].failed /\ thr[t].op # "text" THEN "restore" ELSE "end")
        /\ \A u \in Threads \ {t} : thr'[u] = thr[u]
    BY <1>1, <1>2 DEF IndexMoves, IndexType
  <1>5. IndexType'
    <2>1. thr' \in [Threads -> IndexThread]
      BY <1>1, <1>2 DEF IndexType, IndexThread, IndexMoves, Going
    <2> QED
      BY <1>1, <1>2, <1>3, <2>1 DEF IndexType
  <1>6. Phase(t)' /\ Changing(t)' /\ Opened(t)'
    BY <1>1, <1>2, <1>3, <1>4, IndexNone DEF Phase, Changing, Opened, Indexing, Agrees, Going
  <1>7. Exported'
    BY <1>1, <1>2, <1>4 DEF IndexInv, Exported
  <1>8. thr[t].op = "text" /\ indexLocks.writer[thr[t].doc] = t => Agrees(thr[t].doc, manifest[thr[t].doc])'
    BY <1>1, <1>2, <1>3, <1>4 DEF Undisturbed, Agrees, Going
  <1>9. \A u \in Threads \ {t} : indexLocks'.index = u <=> indexLocks.index = u
    BY <1>3, IndexNone
  <1> QED
    BY <1>1, <1>2, <1>3, <1>4, <1>5, <1>6, <1>7, <1>8, <1>9, WorkGoesOn DEF Going

LEMMA RestoreStep == ASSUME IndexInv, NEW t \in Threads, Index!Restore(t) PROVE IndexInv'
  <1> DEFINE again == thr[t].op = "rewrite"
             next  == [at |-> IF again THEN "execute" ELSE "end", op |-> IF again THEN "text" ELSE thr[t].op,
                       doc |-> thr[t].doc, shared |-> thr[t].shared, before |-> thr[t].before,
                       failed |-> thr[t].failed]
  <1>1. /\ thr[t].at = "restore" /\ UNCHANGED <<db, json, conn, indexLocks, indexEnv>>
        /\ manifest' = [manifest EXCEPT ![thr[t].doc] = thr[t].before]
    BY DEF Index!Restore, Index!At, Index!DocOf
  <1>2. /\ thr[t] \in IndexThread /\ thr[t].doc \in IndexDocs /\ db.migrated /\ IndexType
        /\ Indexing(thr[t]) /\ thr[t].failed /\ indexLocks.writer[thr[t].doc] = t
        /\ Phase(t) /\ Opened(t) /\ Changing(t) /\ db.row \in [IndexDocs -> Index!Entries]
    BY <1>1, AtWork DEF IndexInv, Migrated, Phase, Indexing
  <1>3. thr' = [thr EXCEPT ![t] = next]
    <2> DEFINE x == [thr[t] EXCEPT !.at = IF @ = "restore" /\ thr[t].op = "rewrite" THEN "execute" ELSE "end",
                                   !.op = IF @ = "rewrite" THEN "text" ELSE @]
    <2>1. thr' = [thr EXCEPT ![t] = x]
      BY DEF Index!Restore
    <2>2. x \in IndexThread
      BY <1>2 DEF IndexThread
    <2>3. /\ x.at = (IF again THEN "execute" ELSE "end") /\ x.op = (IF again THEN "text" ELSE thr[t].op)
          /\ x.doc = thr[t].doc /\ x.shared = thr[t].shared /\ x.before = thr[t].before
          /\ x.failed = thr[t].failed
      BY <1>1, <1>2 DEF IndexThread
    <2> HIDE DEF x
    <2>4. x = next
      BY <2>2, <2>3 DEF IndexThread
    <2> QED
      BY <2>1, <2>4
  <1>4. /\ thr'[t] = next /\ \A u \in Threads \ {t} : thr'[u] = thr[u]
        /\ \A d \in IndexDocs : manifest'[d] = IF d = thr[t].doc THEN thr[t].before ELSE manifest[d]
    BY <1>1, <1>2, <1>3 DEF IndexType
  <1>5. IndexType'
    <2>1. next \in IndexThread
      BY <1>2 DEF IndexThread, Indexing
    <2>2. thr' \in [Threads -> IndexThread]
      BY <1>2, <1>3, <2>1 DEF IndexType
    <2>3. manifest' \in [IndexDocs -> Index!Entries]
      BY <1>1, <1>2 DEF IndexType, IndexThread
    <2> QED
      BY <1>1, <1>2, <2>2, <2>3 DEF IndexType
  <1>6. Agrees(thr[t].doc, thr[t].before)
    BY <1>1, <1>2 DEF Changing
  <1>7. conn[t] = None /\ indexLocks.index # t
    BY <1>1, <1>2 DEF Opened, Phase
  <1>8. Phase(t)' /\ Opened(t)'
    BY <1>1, <1>2, <1>4, <1>7 DEF Phase, Opened, Indexing
  <1>9. Changing(t)'
    BY <1>1, <1>2, <1>4, <1>6 DEF Changing, Indexing, Agrees
  <1>10. Exported'
    BY <1>1, <1>2, <1>4 DEF IndexInv, Exported
  <1>11. thr'[t].op = "text" => Agrees(thr[t].doc, manifest[thr[t].doc])'
    BY <1>1, <1>2, <1>4, <1>6 DEF Agrees
  <1>12. \A d \in IndexDocs : indexLocks.writer[d] # t => manifest'[d] = manifest[d]
    BY <1>2, <1>4
  <1>13. thr'[t].doc = thr[t].doc /\ thr'[t].op # "none"
    BY <1>2, <1>4 DEF Indexing
  <1> QED
    BY <1>1, <1>2, <1>4, <1>5, <1>8, <1>9, <1>10, <1>11, <1>12, <1>13, WorkGoesOn

LEMMA EndStep == ASSUME IndexInv, NEW t \in Threads, Index!End(t) PROVE IndexInv'
  <1>1. thr[t].at = "end" /\ IndexMoves(t, Index!Idle) /\ UNCHANGED <<db, json, manifest, conn>>
    BY DEF Index!End, Index!At, IndexMoves
  <1>2. /\ thr[t] \in IndexThread /\ thr[t].doc \in IndexDocs /\ db.migrated /\ IndexType
        /\ indexEnv.at = "serve" /\ indexLocks.index # t
        /\ Phase(t) /\ Opened(t) /\ Changing(t) /\ conn[t] = None /\ \A d \in IndexDocs : Undisturbed(d)
    BY <1>1, AtWork DEF Phase, Opened
  <1>3. indexLocks' = [writer |-> [d \in IndexDocs |-> IF indexLocks.writer[d] = t THEN None
                                                       ELSE indexLocks.writer[d]],
                       index |-> indexLocks.index]
    BY <1>2 DEF Index!End, IndexType
  <1>4. indexEnv' = [indexEnv EXCEPT !.torn = {d \in indexEnv.torn : indexLocks.writer[d] = t =>
                                                                     manifest[d] # db.row[d]}]
    BY DEF Index!End
  <1>5. /\ indexEnv'.at = indexEnv.at /\ indexEnv'.stale = indexEnv.stale
        /\ indexLocks'.index = indexLocks.index
        /\ \A d \in IndexDocs : indexLocks'.writer[d] = IF indexLocks.writer[d] = t THEN None
                                                        ELSE indexLocks.writer[d]
        /\ \A d \in IndexDocs : d \in indexEnv'.torn <=>
              d \in indexEnv.torn /\ (indexLocks.writer[d] = t => manifest[d] # db.row[d])
        /\ thr'[t] = Index!Idle /\ \A u \in Threads \ {t} : thr'[u] = thr[u]
    BY <1>1, <1>2, <1>3, <1>4 DEF IndexType, IndexMoves
  <1>6. IndexType'
    <2>1. thr' \in [Threads -> IndexThread]
      BY <1>1, <1>2, IdleThread DEF IndexType, IndexMoves
    <2>2. indexEnv' \in [at : {"start", "serve"}, ops : Nat, faults : Nat, crashes : Nat, stale : BOOLEAN,
                         torn : SUBSET IndexDocs]
      BY <1>2, <1>4 DEF IndexType
    <2> QED
      BY <1>1, <1>2, <1>3, <2>1, <2>2 DEF IndexType
  <1>7. Migrated'
    BY <1>1, <1>2, <1>5 DEF IndexInv, Migrated
  <1>8. Exported'
    BY <1>1, <1>2, <1>5 DEF IndexInv, Exported
  <1>9. ASSUME NEW u \in Threads PROVE Phase(u)' /\ Changing(u)' /\ Opened(u)'
    <2>1. CASE u = t
      BY <1>1, <1>2, <1>5, <2>1, IdleThread DEF Phase, Changing, Opened, Indexing
    <2>2. CASE u # t
      <3>1. \A d \in IndexDocs : indexLocks.writer[d] = u =>
               indexLocks'.writer[d] = u /\ (d \in indexEnv'.torn <=> d \in indexEnv.torn)
        BY <1>5, <2>2
      <3>2. Phase(u)' /\ Changing(u)'
        BY <1>1, <1>2, <1>5, <2>2, <3>1, Bystander
      <3>3. Opened(u)'
        BY <1>1, <1>5, <2>2 DEF IndexInv, Opened, Committing
      <3> QED
        BY <3>2, <3>3
    <2> QED
      BY <2>1, <2>2
  <1>10. ASSUME NEW d \in IndexDocs PROVE Undisturbed(d)'
    <2>1. CASE indexLocks.writer[d] = t
      <3>1. thr[t].doc = d /\ Agrees(d, manifest[d])
        BY <1>1, <1>2, <2>1, IndexNone DEF Undisturbed, Changing, Indexing, IndexThread
      <3>2. Agrees(d, manifest[d])'
        BY <1>1, <1>5, <2>1, <3>1 DEF Agrees
      <3> QED
        BY <1>5, <2>1, <3>2 DEF Undisturbed
    <2>2. CASE indexLocks.writer[d] # t
      BY <1>1, <1>2, <1>5, <2>2, Untouched
    <2> QED
      BY <2>1, <2>2
  <1> QED
    BY <1>6, <1>7, <1>8, <1>9, <1>10 DEF IndexInv

LEMMA IndexCrashStep == ASSUME IndexInv, Index!Crash PROVE IndexInv'
  <1>1. /\ indexEnv.at = "serve" /\ UNCHANGED <<db, json>>
        /\ manifest' = [d \in IndexDocs |-> Index!Settled(d)]
        /\ conn' = [t \in Threads |-> None] /\ thr' = [t \in Threads |-> Index!Idle]
        /\ indexLocks' = [writer |-> [d \in IndexDocs |-> None], index |-> None]
    BY DEF Index!Crash
  <1>2. IndexType /\ db.migrated /\ db.row \in [IndexDocs -> Index!Entries]
    BY <1>1 DEF IndexInv, Migrated
  <1> DEFINE cut == {d \in IndexDocs : manifest'[d] # db.row[d]}
  <1>3. /\ indexEnv'.at = "start" /\ indexEnv'.stale = (json # db.row) /\ indexEnv'.torn = cut
        /\ indexEnv' \in [at : {"start", "serve"}, ops : Nat, faults : Nat, crashes : Nat, stale : BOOLEAN,
                          torn : SUBSET IndexDocs]
    <2> DEFINE stale == (json # db.row)
               x   == [indexEnv EXCEPT !.at = "start", !.crashes = @ + 1, !.stale = stale, !.torn = cut]
    <2>1. indexEnv' = x
      BY DEF Index!Crash
    <2>2. cut \in SUBSET IndexDocs /\ stale \in BOOLEAN
      OBVIOUS
    <2> HIDE DEF cut, stale
    <2>3. x \in [at : {"start", "serve"}, ops : Nat, faults : Nat, crashes : Nat, stale : BOOLEAN,
                 torn : SUBSET IndexDocs]
      <3> DEFINE y == [[indexEnv EXCEPT !.at = "start"] EXCEPT !.crashes = @ + 1]
      <3>1. y \in [at : {"start", "serve"}, ops : Nat, faults : Nat, crashes : Nat, stale : BOOLEAN,
                   torn : SUBSET IndexDocs]
        <4> DEFINE z == [indexEnv EXCEPT !.at = "start"]
        <4>1. z \in [at : {"start", "serve"}, ops : Nat, faults : Nat, crashes : Nat, stale : BOOLEAN,
                     torn : SUBSET IndexDocs]
          BY <1>2 DEF IndexType
        <4> HIDE DEF z
        <4>2. [z EXCEPT !.crashes = @ + 1] \in
                [at : {"start", "serve"}, ops : Nat, faults : Nat, crashes : Nat, stale : BOOLEAN,
                 torn : SUBSET IndexDocs]
          BY <4>1
        <4> QED
          BY <4>2 DEF z
      <3>2. x = [[y EXCEPT !.stale = stale] EXCEPT !.torn = cut]
        OBVIOUS
      <3> HIDE DEF x, y
      <3> QED
        BY <2>2, <3>1, <3>2
    <2>4. x.at = "start" /\ x.torn = cut
      BY <1>2 DEF IndexType
    <2>5. x.stale = stale
      BY <1>2 DEF IndexType
    <2> QED
      BY <2>1, <2>3, <2>4, <2>5 DEF stale
  <1>4. ASSUME NEW d \in IndexDocs
        PROVE  Index!Settled(d) \in Index!Entries /\ Index!Settled(d).write = db.row[d].write
    <2>1. CASE \E t \in Threads : indexLocks.writer[d] = t /\ thr[t].op # "share"
      BY <1>2, <2>1 DEF Index!Settled
    <2>2. CASE ~\E t \in Threads : indexLocks.writer[d] = t /\ thr[t].op # "share"
      <3>1. Index!Settled(d) = manifest[d] /\ manifest[d] \in Index!Entries
        BY <1>2, <2>2 DEF Index!Settled, IndexType
      <3>2. CASE indexLocks.writer[d] = None
        BY <1>2, <3>1, <3>2 DEF IndexInv, Undisturbed, Agrees
      <3>3. CASE indexLocks.writer[d] # None
        BY <1>2, <2>2, <3>1, <3>3 DEF IndexInv, IndexType, Undisturbed, Changing, Indexing
      <3> QED
        BY <3>2, <3>3
    <2> QED
      BY <2>1, <2>2
  <1>5. /\ manifest' \in [IndexDocs -> Index!Entries]
        /\ \A d \in IndexDocs : manifest'[d].write = db.row[d].write
        /\ \A d \in IndexDocs : indexLocks'.writer[d] = None
        /\ \A t \in Threads : conn'[t] = None /\ thr'[t] = Index!Idle
        /\ indexLocks'.index = None
    BY <1>1, <1>4
  <1>6. IndexType'
    BY <1>1, <1>2, <1>3, <1>5, IdleThread DEF IndexType
  <1>7. Migrated' /\ Exported'
    BY <1>1, <1>2, <1>3, <1>5 DEF Migrated, Exported
  <1>8. ASSUME NEW t \in Threads PROVE Phase(t)' /\ Changing(t)' /\ Opened(t)'
    BY <1>5, IdleThread, IndexNone DEF Phase, Changing, Opened, Indexing
  <1>9. ASSUME NEW d \in IndexDocs PROVE Undisturbed(d)'
    BY <1>1, <1>3, <1>5 DEF Undisturbed, Agrees
  <1> QED
    BY <1>6, <1>7, <1>8, <1>9 DEF IndexInv

LEMMA IndexStep == ASSUME IndexInv, Index!Next PROVE IndexInv'
  <1>1. CASE Index!Migrate \/ Index!Crash
    BY <1>1, MigrateStep, IndexCrashStep
  <1>2. CASE \E t \in Threads : \E d \in IndexDocs :
               \/ Index!Begin(t, d, "rewrite", FALSE) \/ Index!Begin(t, d, "text", FALSE)
               \/ \E shared \in BOOLEAN : Index!Begin(t, d, "share", shared)
    BY <1>2, BeginStep
  <1>3. CASE \E t \in Threads : \/ Index!WriteManifest(t) \/ Index!LockIndex(t) \/ Index!Execute(t)
                                \/ Index!Commit(t) \/ Index!Rollback(t) \/ Index!Export(t)
                                \/ Index!UnlockIndex(t) \/ Index!Restore(t) \/ Index!End(t)
    BY <1>3, WriteManifestStep, LockIndexStep, ExecuteStep, CommitStep, RollbackStep, ExportStep,
       UnlockIndexStep, RestoreStep, EndStep
  <1> QED
    BY <1>1, <1>2, <1>3 DEF Index!Next

LEMMA IndexAlways == ASSUME IndexInv, [Next]_vars PROVE IndexInv'
  <1>1. CASE UNCHANGED indexVars
    <2>1. UNCHANGED <<db, json, manifest, conn, thr, indexLocks, indexEnv>>
      BY <1>1 DEF indexVars
    <2>2. IndexType' /\ Migrated' /\ (Exported <=> Exported')
      BY <2>1 DEF IndexInv, IndexType, Migrated, Exported
    <2>3. ASSUME NEW t \in Threads
          PROVE  (Phase(t) <=> Phase(t)') /\ (Opened(t) <=> Opened(t)') /\ (Changing(t) <=> Changing(t)')
      BY <2>1 DEF Phase, Opened, Changing, Indexing, Changed, Committing, Agrees
    <2>4. ASSUME NEW d \in IndexDocs PROVE Undisturbed(d) <=> Undisturbed(d)'
      BY <2>1 DEF Undisturbed, Agrees
    <2> QED
      BY <2>1, <2>2, <2>3, <2>4 DEF IndexInv
  <1> QED
    BY <1>1, StepOfParts, IndexStep

(* The index: the manifest and the row of a document that nobody writes agree,   *)
(* and the export is what the rows are, for every set of documents and threads   *)
(* and however often an execute, a commit or an export fails and the service     *)
(* crashes.                                                                      *)
THEOREM IndexIsAgreed == Spec => []IndexAgrees
  <1>1. Init => IndexInv
    BY IndexStarts DEF Init
  <1>2. IndexInv /\ [Next]_vars => IndexInv'
    BY IndexAlways
  <1>3. IndexInv => IndexAgrees
    BY IndexKnows
  <1> QED
    BY <1>1, <1>2, <1>3, PTL DEF Spec

-----------------------------------------------------------------------------
(* Windows: where a window ends.  A set of numbers has a least one, and a bounded *)
(* one a greatest.                                                               *)
LEMMA LeastNat ==
  ASSUME NEW T, T \subseteq Nat, T # {} PROVE \E n \in T : \A m \in T : n <= m
  <1>1. PICK R : R = {ss \in Nat \X Nat : ss[1] < ss[2]}
    OBVIOUS
  <1>2. IsWellFoundedOn(R, Nat)
    BY <1>1, NatLessThanWellFounded DEF OpToRel
  <1>3. PICK n \in T : \A y \in T : <<y, n>> \notin R
    BY <1>2, WFMin
  <1>4. ASSUME NEW m \in T PROVE n <= m
    <2>1. m \in Nat /\ n \in Nat /\ <<m, n>> \notin R
      BY <1>3
    <2>2. PICK ss : ss = <<m, n>>
      OBVIOUS
    <2>3. ss \in Nat \X Nat /\ ss[1] = m /\ ss[2] = n
      BY <2>1, <2>2
    <2>4. ~(m < n)
      BY <1>1, <2>1, <2>2, <2>3
    <2> QED
      BY <2>1, <2>4
  <1> QED
    BY <1>3, <1>4

LEMMA MinIsLeast ==
  ASSUME NEW S, S \subseteq Nat, S # {}
  PROVE  Result!Min(S) \in S /\ \A m \in S : Result!Min(S) <= m
  <1>1. \E n \in S : \A m \in S : n <= m
    BY LeastNat
  <1> QED
    BY <1>1 DEF Result!Min

LEMMA MaxIsGreatest ==
  ASSUME NEW S, S \subseteq Nat, S # {}, NEW b \in Nat, \A m \in S : m <= b
  PROVE  Result!Max(S) \in S /\ \A m \in S : m <= Result!Max(S)
  <1>1. PICK B : B = {n \in Nat : \A m \in S : m <= n}
    OBVIOUS
  <1>2. PICK n \in B : \A k \in B : n <= k
    <2>1. B \subseteq Nat /\ b \in B
      BY <1>1
    <2> QED
      BY <2>1, LeastNat
  <1>3. n \in S
    <2> SUFFICES ASSUME n \notin S PROVE FALSE
      OBVIOUS
    <2>1. PICK m \in S : m \in Nat
      OBVIOUS
    <2>2. \A k \in S : k \in Nat /\ k < n
      BY <1>1, <1>2
    <2>3. n - 1 \in B
      BY <1>1, <1>2, <2>1, <2>2
    <2> QED
      BY <1>1, <1>2, <2>3
  <1>4. \E k \in S : \A m \in S : k >= m
    BY <1>1, <1>2, <1>3
  <1> QED
    BY <1>4 DEF Result!Max

(* The ends of a source lie in it, and the last of them is its end.               *)
LEMMA EndsLie ==
  ASSUME asked \in Sources
  PROVE  /\ asked.size \in Nat /\ asked.fixed \in Nat /\ asked.name \in Nat /\ asked.head \in Nat
         /\ Result!Ends \subseteq 1..asked.size
         /\ asked.size > 0 => asked.size \in Result!Ends
  BY MCPartsAssumption DEF Result!ResultWindowsAssumption, Result!Ends

(* Where the next unit ends.                                                      *)
LEMMA UnitEnds ==
  ASSUME asked \in Sources, NEW from \in Nat, from <= asked.size
  PROVE  LET to == Result!Following(from) IN
         /\ to \in Nat /\ to <= asked.size
         /\ from = asked.size => to = from
         /\ from < asked.size => from < to /\ to \in Result!Ends
  <1>1. PICK S : S = {asked.size} \cup {e \in Result!Ends : from < e}
    OBVIOUS
  <1>2. S \subseteq Nat /\ S # {}
    BY <1>1, EndsLie
  <1>3. PICK to : to = Result!Following(from)
    OBVIOUS
  <1>4. to \in S /\ \A m \in S : to <= m
    BY <1>1, <1>2, <1>3, MinIsLeast DEF Result!Following
  <1> QED
    BY <1>1, <1>3, <1>4, EndsLie

(* A window that has more than its first unit fits.                               *)
LEMMA WindowEnds ==
  ASSUME asked \in Sources, NEW from \in Nat, from <= asked.size, NEW limit, NEW head
  PROVE  LET to == Result!Fill(from, limit, head) IN
         \/ to = Result!Following(from)
         \/ to \in Result!Ends /\ from < to /\ Result!Page(from, to, head) <= ResultBudget
  <1>1. PICK next : next = Result!Following(from)
    OBVIOUS
  <1>2. asked.size \in Nat /\ next \in Nat /\ next <= asked.size
    BY <1>1, EndsLie, UnitEnds
  <1>3. \A high : \A e \in Result!Between(from, high) :
           e \in Nat /\ e <= asked.size /\ e \in Result!Ends /\ from < e
    BY EndsLie DEF Result!Between
  <1>4. PICK G : G = {Result!Following(from)} \cup
                     {to \in Result!Between(from, asked.size) :
                        /\ limit = None \/ Result!Cardinality(Result!Between(from, to)) <= limit
                        /\ Result!Page(from, from, head) + Result!Estimate(from, to) <= ResultBudget}
    OBVIOUS
  <1>5. Result!Grown(from, limit, head) = Result!Max(G)
    BY <1>4 DEF Result!Grown
  <1>6. G \subseteq {next} \cup Result!Between(from, asked.size) /\ next \in G
    BY <1>1, <1>4
  <1>7. G \subseteq Nat /\ G # {} /\ \A m \in G : m <= asked.size
    BY <1>2, <1>3, <1>6
  <1>8. PICK grown \in Nat : grown = Result!Grown(from, limit, head)
    BY <1>2, <1>5, <1>7, MaxIsGreatest
  <1>9. PICK F : F = {Result!Following(from)} \cup
                     {e \in Result!Between(from, grown) : Result!Page(from, e, head) <= ResultBudget}
    OBVIOUS
  <1>10. Result!Fill(from, limit, head) = Result!Max(F)
    BY <1>8, <1>9 DEF Result!Fill, Result!BackOff
  <1>11. F \subseteq {next} \cup Result!Between(from, grown) /\ next \in F
    BY <1>1, <1>9
  <1>12. F \subseteq Nat /\ F # {} /\ \A m \in F : m <= asked.size
    BY <1>2, <1>3, <1>11
  <1>13. PICK to : to = Result!Fill(from, limit, head)
    OBVIOUS
  <1>14. to \in F
    BY <1>2, <1>10, <1>12, <1>13, MaxIsGreatest
  <1>15. \/ to = Result!Following(from)
         \/ to \in Result!Between(from, grown) /\ Result!Page(from, to, head) <= ResultBudget
    BY <1>9, <1>14
  <1> QED
    BY <1>3, <1>13, <1>15

(* Sizes are numbers, and a number for next_offset takes one to four of them.      *)
LEMMA PagesAreSized ==
  ASSUME asked \in Sources, NEW from \in Nat, NEW to \in Nat, NEW head \in Nat
  PROVE  /\ Result!Place(to) \in 1..4
         /\ Result!Page(from, to, head) = asked.fixed + asked.name + Result!Place(to) + head + (to - from)
         /\ Result!Page(from, to, head) \in Int
  <1>1. Result!Place(to) \in 1..4
    BY DEF Result!Place
  <1> QED
    BY <1>1, EndsLie DEF Result!Page

(* What every window repeats is as it was, or cut to half of a result or to what  *)
(* it is known by.                                                               *)
LEMMA HeadsAreCut ==
  ASSUME asked \in Sources, NEW from \in Nat, from <= asked.size
  PROVE  LET head == Result!HeadOf(from) IN
         /\ head \in Nat
         /\ ~Result!HeadCut(from) => head = asked.head
         /\ Result!HeadCut(from) =>
               head = 2 \/ Result!Page(from, from, head) <= ResultBudget \div 2
  <1>1. PICK head : head = Result!HeadOf(from)
    OBVIOUS
  <1>2. CASE ~Result!HeadCut(from)
    BY <1>1, <1>2, EndsLie DEF Result!HeadOf
  <1>3. CASE Result!HeadCut(from)
    <2>1. PICK H : H = {asked.head \div n : n \in {1, 2, 4, 8, 16, 32}}
      OBVIOUS
    <2>2. PICK S : /\ S = {1} \cup {h \in H : Result!Page(from, from, h + 1) <= ResultBudget \div 2}
                   /\ head = Result!Max(S) + 1
      BY <1>1, <1>3, <2>1 DEF Result!HeadOf, Result!Short, Result!Mark
    <2>3. asked.head \in Nat
      BY EndsLie
    <2>4. \A h \in H : h \in Nat /\ h <= asked.head
      BY <2>1, <2>3
    <2>5. S \subseteq Nat /\ S # {} /\ \A m \in S : m <= asked.head + 1
      BY <2>2, <2>3, <2>4
    <2>6. asked.head + 1 \in Nat
      BY <2>3
    <2>7. Result!Max(S) \in S
      BY <2>5, <2>6, MaxIsGreatest
    <2> QED
      BY <1>1, <1>3, <2>2, <2>5, <2>7
  <1> QED
    BY <1>1, <1>2, <1>3

(* No window is refused, but where a json table was left its header for the page's *)
(* own fields.                                                                   *)
LEMMA NoRefusal ==
  ASSUME asked \in Sources, NEW from \in {0} \cup Result!Ends, NEW limit, ~Result!Squeezed
  PROVE  Result!Window(from, limit).fits
  <1>1. from \in Nat /\ from <= asked.size
    BY EndsLie
  <1>2. PICK head, to, next : /\ head = Result!HeadOf(from) /\ to = Result!Fill(from, limit, head)
                              /\ next = Result!Following(from)
    OBVIOUS
  <1>3. PICK page : page = Result!Page(from, to, head)
    OBVIOUS
  <1>4. Result!Window(from, limit).fits <=>
           ~(page > ResultBudget) \/ Result!Least(from, to, head) <= ResultBudget
    BY <1>2, <1>3 DEF Result!Window
  <1> SUFFICES ASSUME page > ResultBudget PROVE Result!Least(from, to, head) <= ResultBudget
    BY <1>4
  <1>5. head \in Nat /\ next \in Nat /\ to \in Nat
    BY <1>1, <1>2, HeadsAreCut, UnitEnds, WindowEnds, EndsLie
  <1>6. page \in Int /\ ResultBudget \in Nat
    BY <1>1, <1>3, <1>5, PagesAreSized, MCPartsAssumption DEF Result!ResultWindowsAssumption
  <1>7. to = next
    BY <1>1, <1>2, <1>3, <1>6, WindowEnds
  <1>8. PICK p, q : p = Result!Place(from) /\ q = Result!Place(to)
    OBVIOUS
  <1>9. p \in 1..4 /\ q \in 1..4
    BY <1>1, <1>5, <1>8, PagesAreSized
  <1>10. /\ page = asked.fixed + asked.name + q + head + (to - from)
         /\ Result!Page(from, from, head) = asked.fixed + asked.name + p + head + 0
    BY <1>1, <1>3, <1>5, <1>8, PagesAreSized
  <1>11. /\ ResultBudget >= 8 /\ asked.fixed + 8 <= ResultBudget
         /\ Result!Listing => asked.fixed + asked.name + 8 <= ResultBudget
         /\ asked.fixed \in Nat /\ asked.name \in Nat /\ asked.head \in Nat
    BY MCPartsAssumption DEF Result!ResultWindowsAssumption, Result!Listing
  <1>12. CASE ~Result!Listing
    <2>1. PICK a, b : /\ a = Result!Page(from, from, head) - p + q + 1
                      /\ b = asked.fixed + q + 4
      OBVIOUS
    <2>2. Result!Least(from, to, head) = Result!Min({a, b})
      BY <1>8, <1>12, <2>1 DEF Result!Least, Result!Mark, Result!Short
    <2>3. a = asked.fixed + asked.name + head + q + 1
      BY <1>5, <1>9, <1>10, <1>11, <2>1
    <2>4. a \in Nat /\ b \in Nat /\ b <= ResultBudget
      BY <1>5, <1>6, <1>9, <1>11, <2>1, <2>3
    <2>5. Result!Min({a, b}) \in {a, b} /\ Result!Min({a, b}) <= b
      BY <2>4, MinIsLeast
    <2> QED
      BY <1>6, <2>2, <2>4, <2>5
  <1>13. CASE Result!Listing
    <2>1. Result!Least(from, to, head) = Result!Page(from, from, head) - p + q + 1
      BY <1>8, <1>13 DEF Result!Least, Result!Short
    <2>2. Result!Least(from, to, head) = asked.fixed + asked.name + q + head + 1
      BY <1>5, <1>9, <1>10, <1>11, <2>1
    <2>3. CASE Result!HeadCut(from)
      <3>1. head = 2 \/ Result!Page(from, from, head) <= ResultBudget \div 2
        BY <1>1, <1>2, <2>3, HeadsAreCut
      <3>2. CASE head = 2
        BY <1>6, <1>9, <1>11, <1>13, <2>2, <3>2
      <3>3. CASE Result!Page(from, from, head) <= ResultBudget \div 2
        BY <1>5, <1>6, <1>9, <1>10, <1>11, <2>1, <3>3
      <3> QED
        BY <3>1, <3>2, <3>3
    <2>4. CASE ~Result!HeadCut(from)
      <3>1. head = asked.head
        BY <1>1, <1>2, <2>4, HeadsAreCut
      <3>2. CASE asked.head = 0
        BY <1>6, <1>9, <1>11, <1>13, <2>2, <3>1, <3>2
      <3>3. CASE asked.head # 0
        <4>1. asked.kind # "json"
          BY <1>2, <1>3, <1>7, <2>4, <3>1 DEF Result!Squeezed
        <4>2. ~(page - 0 > ResultBudget)
          BY <1>2, <1>3, <1>7, <1>11, <2>4, <3>1, <3>3, <4>1 DEF Result!HeadCut
        <4> QED
          BY <1>6, <4>2
      <3> QED
        BY <3>2, <3>3
    <2> QED
      BY <2>3, <2>4
  <1> QED
    BY <1>12, <1>13

(* The walk: the next window starts where the last one ended.                     *)
Windowed == [from : Nat, to : Nat, cut : BOOLEAN, headCut : BOOLEAN, fits : BOOLEAN]
Reached  == IF windows = <<>> THEN 0 ELSE windows[Len(windows)].to
StartOf(all, i) == IF i = 1 THEN 0 ELSE all[i - 1].to
WindowIs(w, start) ==
    /\ w.from = start
    /\ w.to \in Result!Ends \cup {0} /\ (asked.size > 0 => w.to > w.from)
    /\ w.cut => w.to = Result!Following(w.from)
    /\ w.headCut => Result!Page(w.from, Result!Following(w.from), asked.head) > ResultBudget
WalkInv ==
    /\ asked \in Sources \cup {None} /\ windows \in Seq(Windowed)
    /\ asked = None => windows = <<>> /\ offset = None
    /\ \A i \in DOMAIN windows : WindowIs(windows[i], StartOf(windows, i))
    /\ offset # None =>
          offset = Reached /\ offset \in {0} \cup Result!Ends /\ (windows # <<>> => offset < asked.size)
    /\ Result!WalksEnd
    /\ Result!DistillsNameTheRest

LEMMA WalkStarts == ASSUME Result!Init PROVE WalkInv
  BY DEF Result!Init, WalkInv, Result!WalksEnd, Result!DistillsNameTheRest

LEMMA WindowIsWhole ==
  ASSUME asked \in Sources, NEW from \in {0} \cup Result!Ends, from < asked.size \/ asked.size = 0,
         NEW limit
  PROVE  LET w == Result!Window(from, limit) IN w \in Windowed /\ WindowIs(w, from)
  <1>1. PICK head, to, next, page, w :
           /\ head = Result!HeadOf(from) /\ to = Result!Fill(from, limit, head)
           /\ next = Result!Following(from) /\ page = Result!Page(from, to, head)
           /\ w = Result!Window(from, limit)
    OBVIOUS
  <1>2. from \in Nat /\ from <= asked.size
    BY EndsLie
  <1>3. /\ asked.size \in Nat /\ next \in Nat
        /\ from = asked.size => next = from
        /\ from < asked.size => from < next /\ next \in Result!Ends
    BY <1>1, <1>2, EndsLie, UnitEnds
  <1>4. to = next \/ (to \in Result!Ends /\ from < to /\ page <= ResultBudget)
    BY <1>1, <1>2, WindowEnds
  <1>5. to \in Result!Ends \cup {0} /\ (asked.size > 0 => to > from) /\ to \in Nat
    BY <1>2, <1>3, <1>4, EndsLie
  <1>6. /\ w.from = from /\ w.to = to /\ (w.cut => page > ResultBudget)
        /\ (w.headCut <=> Result!HeadCut(from))
    BY <1>1 DEF Result!Window
  <1>7. w \in Windowed
    BY <1>1, <1>2, <1>5 DEF Result!Window, Windowed, Result!HeadCut
  <1>8. head \in Nat /\ ResultBudget \in Nat
    BY <1>1, <1>2, HeadsAreCut, MCPartsAssumption DEF Result!ResultWindowsAssumption
  <1>9. page \in Int
    BY <1>1, <1>2, <1>5, <1>8, PagesAreSized
  <1>10. w.cut => to = next
    BY <1>4, <1>6, <1>8, <1>9
  <1>11. Result!HeadCut(from) => Result!Page(from, next, asked.head) > ResultBudget
    <2>1. PICK whole, place : /\ whole = Result!Page(from, next, asked.head)
                              /\ place = IF asked.kind = "json" THEN Result!Place(next) ELSE 0
      OBVIOUS
    <2>2. asked.head \in Nat
      BY EndsLie
    <2>3. Result!Place(next) \in 1..4 /\ whole \in Int
      BY <1>2, <1>3, <2>1, <2>2, PagesAreSized
    <2>4. whole \in Int /\ place \in Nat
      BY <2>1, <2>3
    <2>5. Result!HeadCut(from) => whole - place > ResultBudget
      BY <1>1, <2>1 DEF Result!HeadCut
    <2> QED
      BY <1>8, <2>1, <2>4, <2>5
  <1> QED
    BY <1>1, <1>5, <1>6, <1>7, <1>10, <1>11 DEF WindowIs

(* Nothing of the walk but the walk itself moves the places in a source.           *)
LEMMA PlacesStay ==
  ASSUME asked' = asked
  PROVE  /\ Result!Ends' = Result!Ends /\ (Result!Squeezed' <=> Result!Squeezed)
         /\ \A v, start : WindowIs(v, start)' <=> WindowIs(v, start)
  <1>1. Result!Ends' = Result!Ends
    BY DEF Result!Ends, Result!LineStart
  <1>2. \A p : Result!Following(p)' = Result!Following(p)
    BY <1>1 DEF Result!Following
  <1>3. \A p : Result!Place(p)' = Result!Place(p)
    BY <1>2 DEF Result!Place
  <1>4. \A p, q, h : Result!Page(p, q, h)' = Result!Page(p, q, h)
    BY <1>3 DEF Result!Page
  <1>5. \A p : Result!HeadCut(p)' <=> Result!HeadCut(p)
    BY <1>2, <1>3, <1>4 DEF Result!HeadCut
  <1>6. Result!Squeezed' <=> Result!Squeezed
    BY <1>1, <1>2, <1>4, <1>5 DEF Result!Squeezed
  <1> QED
    BY <1>1, <1>2, <1>4, <1>6 DEF WindowIs

LEMMA WalkStays == ASSUME WalkInv, UNCHANGED Result!vars PROVE WalkInv'
  <1>1. asked' = asked /\ windows' = windows /\ offset' = offset /\ distill' = distill
    BY DEF Result!vars
  <1>2. Result!WalksEnd' /\ Result!DistillsNameTheRest'
    BY <1>1, PlacesStay DEF WalkInv, Result!WalksEnd, Result!DistillsNameTheRest
  <1> QED
    BY <1>1, <1>2, PlacesStay DEF WalkInv, Reached

LEMMA AskStep == ASSUME WalkInv, NEW s \in Sources, Result!Ask(s) PROVE WalkInv'
  <1>1. windows' = <<>> /\ asked' = s /\ offset' = 0 /\ distill' = distill
    BY DEF WalkInv, Result!Ask
  <1>2. s # None /\ 0 # None
    BY MCPartsAssumption DEF Result!ResultWindowsAssumption
  <1>3. Result!WalksEnd'
    BY <1>1, <1>2 DEF Result!WalksEnd
  <1>4. Result!DistillsNameTheRest'
    BY <1>1 DEF WalkInv, Result!DistillsNameTheRest
  <1> QED
    BY <1>1, <1>2, <1>3, <1>4 DEF WalkInv, Reached

LEMMA ReadStep == ASSUME WalkInv, NEW limit, Result!Read(limit) PROVE WalkInv'
  <1>1. asked' = asked /\ distill' = distill /\ asked \in Sources /\ offset \in {0} \cup Result!Ends
    BY DEF WalkInv, Result!Read
  <1>2. PICK w : w = Result!Window(offset, limit)
    OBVIOUS
  <1>3. Result!Ends' = Result!Ends /\ (Result!Squeezed' <=> Result!Squeezed)
    BY <1>1, PlacesStay
  <1>4. Result!DistillsNameTheRest'
    BY <1>1 DEF WalkInv, Result!DistillsNameTheRest
  <1>5. \A v, start : WindowIs(v, start)' <=> WindowIs(v, start)
    BY <1>1, PlacesStay
  <1>6. \A i \in DOMAIN windows : WindowIs(windows[i], StartOf(windows, i))
    BY DEF WalkInv
  <1>7. CASE ~w.fits
    <2>1. windows' = windows /\ offset' = None
      BY <1>2, <1>7 DEF Result!Read
    <2>2. Result!Squeezed
      BY <1>1, <1>2, <1>7, NoRefusal
    <2>3. Result!WalksEnd'
      BY <1>3, <2>2 DEF Result!WalksEnd
    <2> QED
      BY <1>1, <1>4, <1>5, <2>1, <2>3 DEF WalkInv
  <1>8. CASE w.fits
    <2>1. windows' = Append(windows, w) /\ offset' = IF w.to = asked.size THEN None ELSE w.to
      BY <1>2, <1>8 DEF Result!Read, Result!NextOffset
    <2>2. windows \in Seq(Windowed) /\ offset = Reached /\ (windows # <<>> => offset < asked.size)
      BY DEF WalkInv, Result!Read
    <2>3. asked.size \in Nat /\ (offset < asked.size \/ asked.size = 0)
      <3>1. windows = <<>> => offset = 0
        BY <2>2 DEF Reached
      <3> QED
        BY <1>1, <2>2, <3>1, EndsLie
    <2>4. w \in Windowed /\ WindowIs(w, offset)
      BY <1>1, <1>2, <2>3, WindowIsWhole
    <2>5. /\ windows' \in Seq(Windowed) /\ Len(windows') = Len(windows) + 1 /\ windows' # <<>>
          /\ windows'[Len(windows')] = w
          /\ \A i \in 1..Len(windows) : windows'[i] = windows[i]
      BY <2>1, <2>2, <2>4
    <2>6. Reached' = w.to
      BY <2>5 DEF Reached
    <2>7. PICK all : all = windows'
      OBVIOUS
    <2>8. ASSUME NEW i \in DOMAIN all
          PROVE  WindowIs(all[i], StartOf(all, i))
      <3>1. CASE i \in 1..Len(windows)
        <4>1. WindowIs(windows[i], StartOf(windows, i))
          BY <1>6, <2>2, <3>1
        <4>2. i = 1 \/ all[i - 1] = windows[i - 1]
          BY <2>2, <2>5, <2>7, <3>1
        <4>3. all[i] = windows[i] /\ StartOf(all, i) = StartOf(windows, i)
          BY <2>5, <2>7, <3>1, <4>2 DEF StartOf
        <4> QED
          BY <4>1, <4>3
      <3>2. CASE i = Len(windows) + 1
        <4>1. Len(windows) \in Nat /\ (windows = <<>> <=> Len(windows) = 0)
          BY <2>2
        <4>2. offset = IF i = 1 THEN 0 ELSE windows[Len(windows)].to
          BY <2>2, <3>2, <4>1 DEF Reached
        <4>3. i # 1 => all[i - 1] = windows[Len(windows)]
          BY <2>5, <2>7, <3>2, <4>1
        <4>4. all[i] = w /\ StartOf(all, i) = offset
          BY <2>5, <2>7, <3>2, <4>2, <4>3 DEF StartOf
        <4> QED
          BY <2>4, <4>4
      <3> QED
        BY <2>2, <2>5, <2>7, <3>1, <3>2
    <2>9. w.to \in {0} \cup Result!Ends /\ (w.to # asked.size => w.to < asked.size) /\ w.to # None
      BY <1>1, <2>3, <2>4, EndsLie, MCPartsAssumption DEF WindowIs, Windowed, Result!ResultWindowsAssumption
    <2>10. Result!WalksEnd'
      BY <1>1, <2>1, <2>5, <2>9 DEF Result!WalksEnd
    <2>11. offset' # None => /\ offset' = Reached' /\ offset' \in {0} \cup Result!Ends'
                             /\ (windows' # <<>> => offset' < asked'.size)
      BY <1>1, <1>3, <2>1, <2>6, <2>9
    <2>12. \A i \in DOMAIN all : WindowIs(all[i], StartOf(all, i))'
      BY <1>5, <2>8
    <2>13. asked' \in Sources \cup {None} /\ asked' # None
      BY <1>1, MCPartsAssumption DEF Result!ResultWindowsAssumption
    <2> QED
      BY <1>4, <2>5, <2>7, <2>10, <2>11, <2>12, <2>13 DEF WalkInv
  <1> QED
    BY <1>7, <1>8

LEMMA DistillStep == ASSUME WalkInv, NEW d \in Distills, Result!Distill(d) PROVE WalkInv'
  <1>1. asked = None /\ asked' = None /\ offset' = None /\ windows' = <<>> /\ windows = <<>>
    BY DEF WalkInv, Result!Distill
  <1>2. PICK kept : kept = Result!Kept(d)
    OBVIOUS
  <1>3. /\ distill'.of = d.ends /\ distill'.sent = {e \in d.ends : e <= kept}
        /\ distill'.named = {e \in d.ends : e > kept} /\ distill'.size = Result!Size(d, kept)
    BY <1>2 DEF Result!Distill, Result!Dropped
  <1>4. d.size \in Nat /\ d.ends \subseteq 1..d.size
    BY MCPartsAssumption DEF Result!ResultWindowsAssumption
  <1>5. PICK S : S = {0} \cup {e \in d.ends : Result!Size(d, e) <= ResultBudget}
    OBVIOUS
  <1>6. kept \in S
    <2>1. S \subseteq Nat /\ S # {} /\ \A m \in S : m <= d.size
      BY <1>4, <1>5
    <2> QED
      BY <1>2, <1>4, <1>5, <2>1, MaxIsGreatest DEF Result!Kept
  <1>7. distill'.sent \cup distill'.named = distill'.of
    BY <1>3, <1>4, <1>5, <1>6
  <1>8. distill'.sent # {} => distill'.size <= ResultBudget
    BY <1>3, <1>4, <1>5, <1>6
  <1>9. Result!DistillsNameTheRest'
    BY <1>7, <1>8 DEF Result!DistillsNameTheRest
  <1> QED
    BY <1>1, <1>9 DEF WalkInv, Result!WalksEnd

(* Windows: a walk delivers the whole list or text, in order and in whole units,   *)
(* every step moves it on, and it is refused only where a json table was left its  *)
(* header, whatever the sizes are; a distill sends or names every section.         *)
THEOREM NothingMissing == Spec => []NothingIsMissing
  <1>1. Init => WalkInv
    BY WalkStarts DEF Init
  <1>2. WalkInv /\ [Next]_vars => WalkInv'
    <2> SUFFICES ASSUME WalkInv, [Next]_vars PROVE WalkInv'
      OBVIOUS
    <2>1. CASE Result!Next
      BY <2>1, AskStep, ReadStep, DistillStep DEF Result!Next
    <2>2. CASE UNCHANGED resultVars
      BY <2>2, WalkStays DEF resultVars, Result!vars
    <2> QED
      BY <2>1, <2>2, StepOfParts
  <1>3. WalkInv => NothingIsMissing
    <2> SUFFICES ASSUME WalkInv PROVE Result!WindowsFollow
      BY DEF WalkInv, NothingIsMissing, Result!NothingIsMissing
    <2>1. ASSUME NEW i \in DOMAIN windows, NEW w, w = windows[i]
          PROVE  /\ w.from = (IF i = 1 THEN 0 ELSE windows[i - 1].to)
                 /\ w.to \in Result!Ends \cup {0} /\ (asked.size > 0 => w.to > w.from)
                 /\ w.cut => w.to = Result!Following(w.from)
                 /\ w.headCut => Result!Page(w.from, Result!Following(w.from), asked.head) > ResultBudget
      <3>1. WindowIs(w, StartOf(windows, i))
        BY <2>1 DEF WalkInv
      <3> QED
        BY <3>1 DEF WindowIs, StartOf
    <2> QED
      BY <2>1 DEF Result!WindowsFollow
  <1> QED
    BY <1>1, <1>2, <1>3, PTL DEF Spec
=============================================================================
