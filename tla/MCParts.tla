------------------------------- MODULE MCParts -------------------------------
(***************************************************************************)
(* The parts around the document service, on small instances: the index,   *)
(* web captures, browser sessions, web search, the providers, the OCR      *)
(* worker, the assembly of pages, the calls of the summary model and the   *)
(* windows of the MCP front end.  Their variables are disjoint, so a       *)
(* behaviour is one of one part (focus) and the others stay where they     *)
(* start.                                                                  *)
(***************************************************************************)
EXTENDS Integers, Sequences, FiniteSetsExt

CONSTANTS
    Callers,         \* of the browser, numbered: sessions and captures that hold them
    Clients,         \* searches, numbered
    Threads,         \* threads of one pool
    IndexDocs, Legacy, IndexOps, IndexFaults, IndexCrashes,
    Sids, SessionLimit, SessionSlots, CaptureSlots, SessionFaults, Sweeper,
    Urls, Bodies,
    WebIds, Captures, WebJobs, WebSlots, WebQueue, WebForced, WebReplaces, WebFaults, WebCrashes,
    OcrPages,        \* the pages the OCR worker is sent, the calls it is sent for,
    OcrCalls,        \* and how many of them go wrong
    OcrFaults,
    MaxRetries,      \* of a call of a provider
    SearchChain, SearchInterval, MaxWait, SearchTimeout, MinShare, Budgets, MaxHits, SearchTime,
    PdfPages, Pdfs, Looks, Requests, MaxTables, MaxParses,
    SummaryDocs, SummarySlots, SummaryInterval, DetailLimit, BatchLimit, Papers,
    ResultBudget, Sources, Distills,
    None

VARIABLES
    focus,
    db, json, manifest, conn, thr, indexLocks, indexEnv,
    doc, row, req, job, locks, env,
    table, used, old, sess, call, sweep,
    now, allowed, queried, caller,
    ask, answering, turn, draft, answer, reached, rejected,
    holder, proc, breaker, thread, faults, calls,
    pdf, parse, at, plan, got, pages, cache, made, parses,
    asked, offset, windows, distill,
    nextCall, nap, held, gen, summariser, begun

(* The pages a PDF may have: with tables the text keeps or loses, a scan under     *)
(* text, a scan with a field to look at again, a blank; and the settings of a      *)
(* parse.                                                                          *)
Look(text, tables, strips, scan, blank, fits, field) ==
    [text |-> text, tables |-> tables, strips |-> strips, scan |-> scan, sparse |-> scan,
     blank |-> blank, image |-> scan, fits |-> fits, field |-> field]
LookAt == <<Look(TRUE, 2, TRUE, FALSE, FALSE, {"local", "llm"}, FALSE),
            Look(TRUE, 2, FALSE, TRUE, FALSE, {"local", "llm"}, TRUE),
            Look(FALSE, 1, TRUE, TRUE, FALSE, {"local"}, TRUE),
            Look(FALSE, 0, TRUE, TRUE, TRUE, {"local", "llm"}, FALSE)>>
MCLooks == {LookAt[i] : i \in DOMAIN LookAt}
MCPdfs == {<<LookAt[1], LookAt[1]>>} \cup UNION {{<<LookAt[i], LookAt[j]>> : j \in (i + 1)..4} : i \in 1..3}
Settings(mode, forced, force, model, backend, enabled) ==
    [mode |-> mode, force |-> force, pages |-> forced, model |-> model, proofread |-> mode = "full",
     backend |-> backend, enabled |-> enabled, regions |-> mode # "fast", keep |-> TRUE,
     keepRegions |-> TRUE]
MCRequests == {Settings("fast", {}, FALSE, "m1", "paddleocr", TRUE),
               Settings("accurate", {}, FALSE, "m1", "paddleocr", FALSE),
               Settings("full", {}, FALSE, "m1", "paddleocr", TRUE),
               Settings("full", {}, FALSE, "m2", "none", TRUE),
               Settings("accurate", {}, TRUE, "m2", "paddleocr", TRUE),
               Settings("accurate", {1}, FALSE, "m1", "paddleocr", TRUE)}

MCChain == <<"a", "b">>

(* Documents below the floor, of one section, of a tiny one and a batch and a      *)
(* half, and too long for section summaries.                                       *)
MCPapers == {[thin |-> TRUE, sections |-> <<"long">>],
             [thin |-> FALSE, sections |-> <<"long">>],
             [thin |-> FALSE, sections |-> <<"tiny", "long", "long", "long">>],
             [thin |-> FALSE, sections |-> <<"long", "long", "long", "long", "long">>]}

(* What is read through the MCP front end: units and fixed parts from a byte or    *)
(* two to more than a whole result.                                                *)
SeqsUpTo(S, n) == UNION {[1..k -> S] : k \in 0..n}
EndsOf(units) == {MapThenSumSet(LAMBDA j : units[j], 1..i) : i \in DOMAIN units}
Units(sizes, n) == {EndsOf(units) : units \in SeqsUpTo(sizes, n)}
Source(kind, fixed, names, heads, sizes, n) ==
    {[kind |-> kind, fixed |-> fixed, name |-> name, head |-> head, size |-> Max({0} \cup ends),
      ends |-> ends] : name \in names, head \in heads, ends \in Units(sizes, n)}
MCSources == Source("entries", 4, {1}, {0}, {1, 3, 20}, 3)
             \cup Source("json", 2, {1}, {3, 9, 20}, {1, 3, 20}, 2)
             \cup Source("text", 2, {1, 20}, {0}, {1, 3, 9}, 3)
             \cup Source("rows", 2, {1}, {0, 3, 20}, {1, 5, 30}, 3)
MCDistills == {[fixed |-> fixed, size |-> Max({0} \cup ends), ends |-> ends] :
                  fixed \in {2, 6}, ends \in Units({1, 4, 9}, 3)}

-----------------------------------------------------------------------------
Index == INSTANCE DocIndex WITH
    Docs <- IndexDocs, MaxOps <- IndexOps, MaxFaults <- IndexFaults, MaxCrashes <- IndexCrashes,
    locks <- indexLocks, env <- indexEnv
Capture == INSTANCE WebCapture WITH
    MaxId <- WebIds, Requests <- Captures, Jobs <- WebJobs, Slots <- WebSlots,
    MaxQueued <- WebQueue, MaxForced <- WebForced, MaxReplaces <- WebReplaces,
    MaxFaults <- WebFaults, MaxCrashes <- WebCrashes
Session == INSTANCE Sessions WITH
    MaxSize <- SessionLimit, MaxFaults <- SessionFaults
Search == INSTANCE SearchFlow WITH
    Searchers <- Clients, Chain <- SearchChain, Interval <- SearchInterval,
    Timeout <- SearchTimeout, MaxTime <- SearchTime
Provider == INSTANCE Providers WITH call <- ask, at <- answering
Worker == INSTANCE OcrWorker WITH Pages <- OcrPages, MaxFaults <- OcrFaults, MaxCalls <- OcrCalls
Ocr == INSTANCE PageOcr WITH
    Pages <- PdfPages, doc <- pdf, req <- parse
Result == INSTANCE ResultWindows WITH Budget <- ResultBudget
Summary == INSTANCE SummaryCalls WITH
    Docs <- SummaryDocs, Slots <- SummarySlots, Interval <- SummaryInterval,
    allowed <- nextCall, thread <- summariser

ASSUME MCPartsAssumption ==
    /\ Index!DocIndexAssumption
    /\ Capture!WebCaptureAssumption
    /\ Session!SessionsAssumption
    /\ Worker!WorkerAssumption
    /\ Provider!ProvidersAssumption
    /\ Search!SearchAssumption
    /\ Summary!SummaryCallsAssumption
    /\ Ocr!PageOcrAssumption
    /\ Result!ResultWindowsAssumption

indexVars == <<db, json, manifest, conn, thr, indexLocks, indexEnv>>
captureVars == <<doc, row, req, job, locks, env>>
sessionVars == <<table, used, old, sess, call, sweep>>
searchVars == <<now, allowed, queried, caller>>
providerVars == <<ask, answering, turn, draft, answer, reached, rejected>>
workerVars == <<holder, proc, breaker, thread, faults, calls>>
ocrVars == <<pdf, parse, at, plan, got, pages, cache, made, parses>>
resultVars == <<asked, offset, windows, distill>>
summaryVars == <<nextCall, nap, held, gen, summariser, begun>>
vars == <<focus, indexVars, captureVars, sessionVars, searchVars, providerVars, workerVars,
          ocrVars, resultVars, summaryVars>>

Parts == {"index", "capture", "session", "search", "provider", "worker", "ocr", "result", "summary"}
Init ==
    /\ Index!Init /\ Capture!Init /\ Session!Init /\ Search!Init /\ Provider!Init
    /\ Worker!Init /\ Ocr!Init /\ Result!Init /\ Summary!Init
    /\ focus \in Parts
    /\ pdf \in Pdfs
    /\ focus # "ocr" => pdf = CHOOSE p \in Pdfs : TRUE

(* The parts but one stay as they are.                                             *)
Rest(part) ==
    /\ focus = part /\ focus' = part
    /\ part # "index" => UNCHANGED indexVars
    /\ part # "capture" => UNCHANGED captureVars
    /\ part # "session" => UNCHANGED sessionVars
    /\ part # "search" => UNCHANGED searchVars
    /\ part # "provider" => UNCHANGED providerVars
    /\ part # "worker" => UNCHANGED workerVars
    /\ part # "ocr" => UNCHANGED ocrVars
    /\ part # "result" => UNCHANGED resultVars
    /\ part # "summary" => UNCHANGED summaryVars

(* Callers, clients, sessions, URLs, bodies and generations are alike: callers     *)
(* come in the order of their numbers, the first context is of the first session,  *)
(* the first capture of the first URL and the first body, and the shorter document *)
(* has the lower number.  A capture gets old while there is a request that may     *)
(* still look for it, and a document with batches of several sections may fall     *)
(* back on them singly: elsewhere it makes no difference.  Of two such documents   *)
(* one does, and one makes do with previews.                                       *)
FirstFirst(busy) == \A p, q \in DOMAIN busy : p < q /\ busy[q] => busy[p]
FirstSid == CHOOSE s \in Sids : TRUE
FirstUrl == CHOOSE u \in Urls : TRUE
FirstBody == CHOOSE b \in Bodies : TRUE
Ages == \E d \in Capture!Ids : row[d].fresh /\ row'[d].kind = "web" /\ ~row'[d].fresh
MayLook == \E r \in Captures : req[r].at \in {"idle", "look", "key"}
Batched(paper) == Cardinality(Summary!Sent(paper)) > 1 /\ ~Summary!Skipped(paper)
Ordered(g, h) ==
    g.paper # None /\ h.paper # None =>
        /\ Len(g.paper.sections) <= Len(h.paper.sections)
        /\ g.paper = h.paper /\ Batched(g.paper) => ~g.singly /\ h.singly
Next ==
    \/ Rest("index") /\ Index!Next
    \/ /\ Rest("capture") /\ Capture!Next /\ (Ages => MayLook)
       /\ req'[1].url \in {FirstUrl, None} /\ req'[1].body \in {FirstBody, None}
    \/ /\ Rest("session") /\ Session!Next /\ FirstFirst([p \in Callers |-> call'[p].at # "idle"])
       /\ sess'[FirstSid].ctx = "none" => sess' = sess
    \/ Rest("search") /\ Search!Next /\ FirstFirst([c \in Clients |-> caller'[c].at # "idle"])
    \/ Rest("provider") /\ Provider!Next
    \/ Rest("worker") /\ Worker!Next
    \/ Rest("ocr") /\ Ocr!Next
    \/ Rest("result") /\ Result!Next
    \/ /\ Rest("summary") /\ Summary!Next
       /\ \A d, e \in SummaryDocs : d < e => Ordered(gen'[d], gen'[e])
       /\ \A d \in SummaryDocs : gen'[d].singly => Batched(gen'[d].paper)
Spec == Init /\ [][Next]_vars

-----------------------------------------------------------------------------
(* Index: between writes the row, the manifest and doc-index.json say the same of  *)
(* a document, whatever failed before, and no idle thread has a transaction open.  *)
IndexAgrees == Index!RowIsManifest /\ Index!ExportIsCurrent
(* Web capture: one body is one document, however many captures of it race under   *)
(* however many URLs; only force_refresh stores it again, and the thread of a       *)
(* capture whose client left, which has lost the lock of the body.                  *)
OneDocPerBody == Capture!OneDocPerBody
(* Web capture: the manifest and the digest of a document are of the text it has,  *)
(* where no merge of tags has put an older manifest back.                          *)
SummaryOfItsText == Capture!SummaryOfItsText
(* Web capture: a pending or running summary has a thread behind it, or a request  *)
(* that is about to start one, where no failed status or start of a thread, no      *)
(* client that left, no crash and no merge of tags has left the claim alone.        *)
ClaimIsWorked == Capture!ClaimIsWorked
(* Sessions: every open browser context has an owner that will close it, save where *)
(* the caller that asked for it, or was to close it, was cancelled; no             *)
(* endpoint drives one that is closed, and nobody holds one session while waiting   *)
(* for another.                                                                     *)
SessionsAreSafe == Session!ContextsOwned /\ Session!EndpointsWorkOpen /\ Session!NoHoldAndWait
(* Rates: two queries of one search backend, and the start slots two calls of the   *)
(* summary model claim, are at least their interval apart, whoever makes them; and  *)
(* no request goes to the summary model while all its places are taken.             *)
CallsSpaced == Search!QueriesSpaced /\ Summary!CallsSpaced
(* Search: a call that declares a budget is answered inside it.                    *)
AnsweredInBudget == Search!AnsweredInBudget
(* Providers: content goes to the second vendor where that can help, and there     *)
(* only.                                                                           *)
FailoverWhereItHelps == Provider!FailoverWhereItHelps
(* Providers: a transcription the pipeline takes for a page is not what the output  *)
(* limit cut, and no failure or blank once a vendor transcribed it; what a content  *)
(* filter stopped partway does pass.                                               *)
PageIsWhole == Provider!PageIsWhole
(* OCR worker: a page is never given the text of another one.                      *)
AnswerOfItsPage == Worker!AnswerOfItsPage
(* Page assembly: what a parse says of the OCR of a page is so, and a page that    *)
(* keeps its own text keeps its tables.                                            *)
PagesAreHonest == Ocr!PagesAreHonest /\ Ocr!TablesKept
(* Page assembly: a cache answers only with what these settings would produce.     *)
CacheOfItsSettings == Ocr!CacheOfItsSettings
(* MCP: the windows a caller walks are the whole list or text, each in the budget. *)
NothingIsMissing == Result!NothingIsMissing
(* Summary model: a finished document has a usable summary of every section sent,  *)
(* where the placeholder of an item the model left out counts as one, and no thread *)
(* still writes to it.                                                              *)
SummariesAreReal == Summary!SummariesAreReal
=============================================================================
