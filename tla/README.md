# MantisFetch: a TLA+ verification project

MantisFetch is a document and web library for language-model clients: a FastAPI
server that parses uploads (`services/docreader`), captures web pages
(`services/browser`), stores both as directories plus one SQLite index, and
serves them over REST and MCP. This directory holds TLA+ models of its stateful
parts, the TLC configurations that check them, and TLAPS proofs about them.

Paths below are relative to the repository; `DR` is
`services/docreader/mantisfetch_docreader/__init__.py`, `ST` the `storage.py`
beside it, `BR` is `services/browser/mantisfetch_browser/__init__.py`, `MCP` is
`services/mcp/mantisfetch_mcp/__init__.py`.

## 1. The system

| Part | State | Operations | What is hard about it |
|---|---|---|---|
| Document rewrite and recovery (DR 1312-2180, 2268-2781, 3538-3607, 4099-4182, 5103-5382, 5943-6286) | a document's directory, `.rollback/`, `.rollback-source/`, `.rewrite-committed`; its index row; its row of the search table | replace by a parsed or a raw upload, settle, undo, startup sweep, failure record | crashes between any two file operations, operations that fail, two transactions, threads beside requests |
| Delete and retention (ST 288-474, DR 3219-3265, 7037-7128) | tombstone directories, index rows | delete, put back, sweep, retention loop | crash between rename, commit and removal; a document created again; staleness of the retention verdict |
| Deferred summaries (DR 1255-1286, 2784-2947, 3470-3535, 6864-6984) | slot semaphore, waiting count, `summary_status` in manifest and row, attempts | schedule, run, time out, retry, reset at start | queue bound, ownership of a slot after a timeout, stale results, crash between manifest and row |
| Summary generation (`summaries.py`) | semaphore and next start of the model calls, one generation per document | batch, pool, fall back section by section, brief, digest | threads of several documents that wake for one start slot; a batch that raises beside its siblings |
| Parse endpoint (DR 3302-3412, 4985-5067, 5408-6286) | scratch files, byte ledger, gate, per-doc_id locks, parse slots | admit, precheck, parse, answer, detach | deadlines, disconnects, ledger released exactly once |
| doc_id allocation (ST 484-603, DR 5385-5405) | directories, reserved ids, `.counter` | counter, random, filename, explicit | mint and write are not one step |
| Store and index (ST 60-268, `mantisfetch_common/doc_index_store.py`, `search_cache.py`) | SQLite tables, connections cached per thread, exported `index.json` | upsert, patch, batched patch, delete, one-shot migration, export | open transaction after a failed COMMIT, manifest and row of one change, best-effort export |
| Web captures (`services/browser/.../__init__.py` 2306-2960, 3540-3700) | capture directories, rows, per-URL and per-body locks, web summary queue | look up, capture, publish, merge, claim, summarise | racing captures of one body, stale summaries, replacement by an upload, queue bound |
| Browser sessions (`session.py`, the session endpoints) | session table, a lock per session, the cleanup loop | open, use, capture, expire, evict, close | eviction and expiry during use, failures between the context and the table |
| Search (`__init__.py` 3960-4310, `providers/search`) | next free start per backend | reserve a slot, query, fall back, capture the hits | a chain that reaches a backend late, callers cut off by their budget |
| Providers (`providers/`) | failover order | chat, vision, with retries, review pass and fallback | which errors may fail over, answers that are cut off |
| Local OCR worker (`ocr/engines.py`, `paddle_ocr_worker.py`) | one subprocess, its pipes, its lock, a breaker | start, prewarm, transcribe, time out, stop | answers that carry no page number, late or never |
| PDF parsing and page OCR (`pdf.py`, `pdf_planning.py`, `profiles.py`) | page and region caches | plan, transcribe locally or by the model, fall back, assemble, read regions | caches under other settings, partial failure page by page |
| MCP front end (`services/mcp`) | none | windows over lists, texts and tables, result budget | boundaries of windows |
| Server composition (`mantisfetch_server.py`) | a byte count per request | authentication gate, body ceiling, mounting | |
| Other parsers, extraction script, SDK, metrics, localisation, scripts | none | pure conversions | |

Requests meet in the per-doc_id asyncio lock; everything that rewrites a
directory (requests, summary threads, the startup sweep) meets in
`_document_writer_lock`. Summary threads take only the second, and the closing
steps of an upload take neither. Browser captures write the same library with
locks of their own. The index row is the commit point of a rewrite; the search
table commits before it, apart. Below the parse, the pages of a PDF share one OCR
subprocess and the caches of the document; the deferred summaries share the rate
of the model; both go through the providers.

What has to be true: a document is always one whole version (files, source, row,
searchable text), what was acknowledged stays, a stale writer never wins, a
start settles what an earlier process left, requests are answered and threads
end; of the queues, that bounds hold and slots come back; of deletes, that a
document is either there or gone; of ids, that nobody writes over what another
stored; of captures, that one body is one document and its summary is of its
text; of sessions, that every browser context is closed once and by its owner;
of text, that a page, a region and a summary are what these settings produce of
this page and not of another.

## 2. What is modelled

### Modules

- `Document`: what a document consists of. A version is the upload its source
  came with (`gen`) and how far its products were carried (`stage`). Products are
  grouped by how a rewrite treats them: moved (`sections`, standing for the
  generated directories and files), copied (`texts`: `full.md`, `digest.md`,
  `brief.md` and caches; `manifest`).
- `AtomicDocument`: the abstract specification. One variable, the content of the
  document, which goes from one whole version to a later one in one step
  (`Replace`), or to the summarised form of the same upload (`Summarise`).
- `DocRewrite`: the implementation, one document. `disk` is its directory, `db`
  its index row and search text, `tx` the program counter of whoever holds the
  writer lock, `req` the upload being served, `thr` one summary thread per
  upload, `env` the process and the count of crashes and failed operations.
- `DocRewriteInv`: the inductive invariant, in named parts.
- `DocRewriteStepProofs`, `DocRewriteProofs`: the proofs about it, of the steps of
  the recovery and the writers, and of requests and the theorems.
  `DocDeleteProofs`, `SummariesProofs`, `AdmissionProofs` are those of the modules
  they are named after. `ServiceProofs` carries theorems over to the composition
  `MCService`; `BrowserProofs` (captures and sessions) and `PartsProofs` (the other
  components) prove them of the composition `MCParts`.
- `DocDelete`: one doc_id above the level of its directory. `dir` and `tomb` are
  the directory and the `.deleting` tombstone at every place the document can be,
  `row` its index row, `del`, `up` and `thr` the delete, the upload and the
  summary threads, `lock` the writer lock. A rewrite of a directory that has a
  manifest is one step here; that it may be taken for one is what `RefinesAtomic`
  checks of `DocRewrite`.
- `Summaries`: the threads of the deferred summaries, their slots and queue, the
  model call each of them starts on a thread of its own, the status of the
  documents in manifest and row, retries and the reset of a start.
- `Admission`: uploads as coroutines, one action per stretch between two awaits:
  the byte ledger, the gate of the copies, the doc_id with its lock, the parse
  slots, the store.
- `DocIndex`: threads that write the index over cached connections, with the
  manifest of the same change, the export, and the one-shot migration.
- `WebCapture`: captures as coroutines, their summary threads, and the uploads and
  deletes of the same ids.
- `Sessions`: who owns and who may close a browser context.
- `SearchFlow`: the throttle of each backend, the fallback chain and
  `search_and_capture` in a caller's budget, over a discrete clock.
- `Providers`: one call of a model role through retries, review and failover.
- `OcrWorker`: the threads that share the OCR subprocess, its two pipes and its
  breaker.
- `PageOcr`: `parse_pdf` over the pages of one document, parsed repeatedly under
  other settings over the caches that are left.
- `SummaryCalls`: `generate_summaries` of several documents over one semaphore and
  one start slot.
- `ResultWindows`: the windows and cuts of the MCP front end, as functions of the
  sizes of what is read.
- `MCDocRewrite`, `MCDocDelete`, `MCAdmission`, `MCWebCapture`, `MCPageOcr`: the
  modules TLC runs, with one `.cfg` per question.
- `MCService` and `MCParts`: compositions TLC runs. `MCService` holds `Summaries`
  and `Admission`, `MCParts` the nine modules from `DocIndex` to `ResultWindows`.
  What the components share with each other is already inside each module as an
  action of its environment (a replacement in `Summaries`, an upload and a delete
  in `WebCapture`, a rewrite in `DocIndex`), so their variables are disjoint: the
  variable `focus` picks a component in `Init` and the others stay where they
  start. The reachable states are the disjoint union of those of the components,
  and a property of one component is checked on all behaviours of it. The sizes of the
  parts are constants of `MCParts` with values in its `.cfg`.

### State and actions against the code

`DocRewrite`:

| Code | Actions |
|---|---|
| `_settle_interrupted_rewrite` | `Settle`, `Touch`, `Drop`, `Fold`, `UnmarkStash`, `Unmark` (roll forward); `ReadRecord`, `PutBack`, `PutBackText`, `Forget`, `RemoveBackup`, `Unstash` (roll back) |
| `_rewrite_committed` | `RowMoved` |
| `_restore_on_failure` | `Settle` (purpose `rewrite`), `Snapshot`, `StageText`, `StageRow`, `StageMove`, `StageCopy`, `StageRecord`, the writer, `Touch`, `Drop`, `Unmark`; after a failure `PutBack` ... `RemoveBackup` (purpose `undo`), `Raise` |
| `_write_output_impl`, `_write_output_extract_only_impl`, `_write_raw_document` | `WriteTexts`, `WriteSections`, `WriteSource`, `WriteTextIndex`, `WriteManifest`, `CommitRow` |
| `_settle_before_replacing`, `_stash_source` | `Settle` (purposes `before`, `stash`), `Check`, `Refuse`, `StashSource` |
| `api_parse_doc`, `_store_only_ingest` | `Arrive`, `Start`, `SettleFirst`, `Parse`, `TakeStash`, `Persist`, `Write`, `Finish`, `Discard`, `Close` |
| `_record_parse_failure` | `FailReplacement`, `FailNew` |
| `_generate_deferred_summary`, `_reversible_rewrite` (guarded) | `ThreadWrites`, `ThreadSkips`, `ThreadGivesUp`, `ThreadSummarises` |
| `_finish_interrupted_rewrites` | `Restart`, the settling actions (purpose `sweep`), `Swept` |

`DocDelete`:

| Code | Actions |
|---|---|
| `_delete_document_locked`, `delete_document` | `DeleteAsks`, `DeleteLocks`, `DeleteAnswers` |
| `_delete_doc` | `SetAside`, `CommitDelete`, `ClearTombstone` |
| `_put_back_set_aside` | `PutBackAside` |
| `_expired_doc_ids`, `_retention_loop` | `RetentionPicks`, `DeleteAsks` |
| `_finish_interrupted_deletes` | `Restart`, `Sweep`, `Swept` of `DocDelete` |
| `_doc_content_type`, `_record_parse_failure` across places | `Start`, `WriteFiles`, `CommitRow`, `Answer`, `FailReplacement`, `FailNew` of `DocDelete` |

The modules after these, named once per group of rows:

| Code | Actions |
|---|---|
| `_deferred_summary_slot` | `TryAcquire`, `Admit`, `Acquire`, `Leave`, `Refused`, `RefusedFails` of `Summaries` |
| `_generate_deferred_summary` | `Start`, `Mark`, `MarkFails`, `Collect`, `Timeout`, `Complete`, `CompleteFails`, `Fail`, `FailFails`; its worker `_run_summary` is `Answers`, `GivesSlotBack` |
| `retry_summary` (`POST /library/{doc_id}/summary`) | `RetryLoad`, `RetryClaim`, `RetryClaimFails`, `RetryStart`, `RetryStartFails` |
| upload and replacement, as summaries see them | `FirstUpload`, `BeginReplace`, `EndReplace` |
| `_reset_interrupted_summaries` | `Crash`, `Sweep`, `ResetManifest`, `ResetRow`, `Serve` |
| `_UploadAdmission`, `api_parse_doc` up to the copy | `Admit`, `Enter`, `Copy`, `CopyFails`, `Copied`, `Disconnect` of `Admission` |
| `_precheck_upload`, `_reserve_doc_id`, `_next_doc_id`, `_next_filename_doc_id` | `Count`, `Precheck`, `Reserve` |
| `_doc_id_lock_within`, `_parse_slot` | `TakeLock`, `LockTimeout`, `TakeSlot`, `SlotTimeout` |
| the store under the lock | `Recheck`, `Commit`, `ParseFails` |
| `_transaction`, `_discard`, `_patch_doc_index_many`, `update_document_shared` | `Begin`, `WriteManifest`, `LockIndex`, `Execute`, `Commit`, `Rollback`, `Export`, `UnlockIndex`, `Restore`, `End` of `DocIndex` |
| `ensure_migrated_from_json` | `Migrate` |
| `_find_cached_capture`, `_find_capture_by_content_hash`, the capture endpoint | `Ask`, `Look`, `LockKey`, `Fetch`, `LockHash`, `Mint`, `Publish`, `PublishRow`, `PublishFails`, `Cancelled` of `WebCapture` |
| `_merge_capture_tags_metadata` | `MergeRead`, `MergeWrite` |
| `_resolve_cached_summary` and the claim | `Claim`, `ClaimRow`, `ClaimFails`, `Schedule` |
| the web summary thread | `Enter`, `Dequeue`, `Refused`, `Begin`, `BeginRow`, `Answer`, `Save`, `SaveRow`, `Finish`, `Fail`, and `RefusedDies`, `BeginDies`, `FinishFails`, `FailDies` |
| `SessionManager`, `_close_session`, `cleanup_loop`, the session endpoints | `Ask`, `Acquire`, `Refuse`, `NewContext`, `SetupFails`, `Put`, `Evict`, `Capture`, `Drop`, `Close`, `Work`, `CloseSession`, `Use`, `Sweep`, `SweepNext`, `SweepClose`, `CloseAll`, `Expire`, `Cancelled` of `Sessions` |
| `_enforce_search_throttle`, `web_search`, `search_and_capture` | `Ask`, `Query`, `Results`, `FallsThrough`, `Misconfigured`, `OutOfTime`, `NextHit`, `HitEnds`, `Tick` of `SearchFlow` |
| `get_provider`, `FailoverProvider`, the two backends | `Begin`, `Retry`, `Fail`, `Answer`, `Review`, `ReviewAgain` of `Providers` |
| `local_ocr_with_layout`, `_get_local_ocr_worker`, `_read_local_ocr_worker_message` | `Call`, `Prewarm`, `Lock`, `Refuse`, `Start`, `Reuse`, `Ready`, `StartFails`, `Read`, `Abandon`, `Take`, `BreakerCloses` of `OcrWorker`; the worker's `main` is `Load`, `Respond`, `Die` |
| `_assess_contract_quality`, `_plan_pdf_ocr`, `parse_pdf`, `_apply_field_focused_ocr` | `Parse`, `LocalPages`, `LlmPages`, `Fallback`, `Assemble`, `Regions` of `PageOcr` |
| `generate_summaries`, `gemini_summarize`, `_summarize_batch` | `Start`, `TakeBatch`, `SectionsDone`, `Acquire`, `Claim`, `Wake`, `Send`, `GoesWrong`, `Reply`, `Tick` of `SummaryCalls` |
| `_page_entries`, `_window_text`, `_shrink_entry`, `_refuse_what_does_not_fit`, `_fit_distill` | `Ask`, `Read`, `Distill` of `ResultWindows` |

In `DocRewrite` each step is one operation on the disk or the database, since the process may
die between any two. `tx.purpose` tells which caller is running the shared
helpers, and `Settled` and `SettleError` say where each goes on. `rmtree` may
stop halfway, by an error or by the death of the process (`Remains`). An
operation may fail when it is in `FaultySteps`; what the code does then (undo,
keep the backup, only log) is part of the action.

Abstractions: a product group is written by one step, since a half-written group
is undone or rolled back exactly like a whole one; parsing ends either way; the
snapshot and comparison of the row stand for its `write_id`; the texts of the
browser captures, which do not use this machinery, are absent. One request runs
at a time because the doc_id lock serialises them, but the next may look for the
document already while the first is served (`Arrive`). The document keeps its
content type and so its directory, as the code enforces for replacements.

`DocDelete` abstracts further. The asyncio lock of the doc_id is implicit: a
delete and an upload begin only when neither is under way (`Idle`), what they
latched before (`up.seen`, `del.picked`) is kept apart. A directory holds a whole
version, or nothing that makes a document (`Empty`), the record of a failed parse
(`Record`), or what an interrupted removal left (`Torn`). Places are the
content-type directories, the legacy flat one and one migrated place (`Moved`)
that only a row can name; a legacy row may name none (`Nowhere`). Age is a
property of the upload (`Expired`), so that a summary rewrite does not make a
document younger. An upload that is refused under the lock (409, 403, or
leftovers that cannot be settled) changes nothing here and is left
out. So is an index that cannot be read while a delete looks for the row, since the
code then reads the exported JSON.

The other modules abstract as follows.

- `Summaries`: a write of a thread to a document is one step, with what
  `DocRewrite` shows of it; it may fail, as a start of a thread may. A last write
  that fails or gives way to a replacement sets `dropped`. What a browser thread
  has made of a capture when the process dies is one of `LeftByBrowser`. Manifest and row of one document are written apart only where the
  code has no transaction around them, in the reset of a start.
- `Admission`: sizes are small numbers, the content of a file is its size. While an
  upload is copied it is on disk twice, in the multipart spool (`Spooled`) and in
  `.upload-tmp` (`Scratched`), the second in no ledger until the spool is closed. An
  upload that declares no length is `Unsized`. A coroutine runs from one await to
  the next, so the ledger changes in the step the code changes it in. A wait with
  a deadline may run out at any moment it is a wait. The lock of a doc_id serves
  who came first, as `asyncio.Lock` does.
- `DocIndex`: a row carries its last write and the discovery flag; a search text
  is the write it came with. SQLite serves one writer at a time.
- `WebCapture`: a body stands for what the site or the browser gave; the text, the
  manifest and the digest are the generation they belong to. Rendering and
  negotiation decide only which body it is. Deletes and replacements come from
  outside, under the locks the code holds for them. A capture whose client leaves is
  cancelled at the await it is at (`Cancelled`); nothing shields it, so its locks are
  free while the thread it waited for works on (`gone`).
- `Sessions`: the page is what a session believes of it (`seen`, `tools`). The
  table is used without an await and so in one step. The OrderedDict is a set of
  sessions and the order of their last uses (`used`); a session's lock is a queue.
  A caller may be cancelled at every await (`Cancelled`); `lost` marks the context of
  a caller that was cancelled before it could close it.
- `SearchFlow` and `SummaryCalls` count time in whole units. In `SearchFlow` a
  timer that is due is served before the clock moves (the event loop). `SummaryCalls`
  keeps what is left until the next start slot (`allowed`) and of each sleep (`nap`),
  so that its time has no end, and nothing stops it, since a thread may oversleep. A batch is
  the set of its sections, the first that no batch had; a batch holds so many
  sections, where the code counts tokens. A request that goes wrong is put again
  (`GoesWrong`, `Send`), any number of times where the providers count them.
- `Providers`: an exchange is its outcome; prompts and texts are left out. A text
  is whole, half (cut at the output limit), stopped (by a content filter, partway),
  blank or the failure marker.
- `OcrWorker`: a line in a pipe is the page it is about, although the code has no
  such number: that is what the property compares.
- `PageOcr`: a text is who produced it, under which settings, and how many tables
  it holds. Cleaning, layout and table extraction are left out. A pool is one
  step, since its tasks write disjoint results.
- `ResultWindows`: sizes are bytes in units of a small budget; a unit is a list
  entry, a line, a piece of a line or a row. An offset is the number of bytes before
  a unit, where the code has the number of units: a source is given by the places
  where its units end, and a step from one to the next is never a sum. The last cut of a
  distill whose fixed part alone is over the budget (the final `_shrink_entry`) and
  its list of actions are left out.

## 3. The properties and the runs

| Property | Says |
|---|---|
| `CrashSafe` | at any instant a start would find every file of the version the row names |
| `RefinesAtomic` | seen through the recovery, files, source, row and text change together, once per committed rewrite |
| `WholeWhenClean`, `OneVersion` | without leftovers the directory is exactly its version; with failing recoveries at least never a mixture |
| `TextMatches` | the searchable text belongs to the version of the row |
| `RestIsClean` | without failed operations nothing is left to settle |
| `MarkerOutlivesBackup` | the commit marker is never removed beside a backup |
| `AckedStays`, `NeverOlder` | an acknowledged upload is not taken back; the row never returns to an earlier upload |
| `OneFailureRecord` | a failure record stands for a document that is not there |
| `Answered`, `ThreadEnds` | uploads are answered, summary threads end |
| `Kept` | an acknowledged upload is there, in place or in a tombstone the next start restores, until a delete commits |
| `Gone` | after the commit of a delete the doc_id is neither listed nor found, until somebody uploads |
| `RetentionKeepsFresh` | retention deletes only what is old when the row goes |
| `RestIsClean` (`DocDelete`) | without failed operations no tombstone is left; and no directory in place is ever the rest of a removal |
| `Answered` (`DocDelete`) | deletes and uploads, waiting ones included, are answered |
| `IInv` | the inductive invariant of the proofs |
| `SlotsAndQueue` | every summary slot is free, held once, or owned by one worker; the waiting count is that of the queue, within its bound |
| `RunningIsLive` | a summary that is said to be running has a thread that will write its status, unless the last write or the start of its thread failed or gave way to a replacement; a start leaves a capture's summary in flight only where its row was completed |
| `HolderSettles` | a thread with a slot comes to its end, also when the model never answers |
| `BytesBounded` | the two ledgers are what the requests hold; the spools with the counted scratch files, and all scratch files, are each within the budget |
| `NeverOverwritten` | a stored document is written over or taken away only by a request that asked to replace it |
| `EveryUploadAnswered` | every admitted upload is answered |
| `IndexAgrees` | row, manifest and exported index agree between writes, whatever failed; no idle thread has a transaction open |
| `OneDocPerBody` | racing captures of one body store one document, but where a thread without the lock of the body stored it (forced, or of a client that left) |
| `SummaryOfItsText` | manifest and digest are of the text the document has |
| `ClaimIsWorked` | a web summary in flight has a thread or a request behind it, unless it was left (`env.left`) |
| `SessionsAreSafe` | an open context has an owner that will close it, or was lost with the caller that was cancelled; no session endpoint drives a closed one, nobody holds one session while waiting for another |
| `CallsSpaced` | queries of one backend, and the start slots of the calls of the summary model, keep their interval; no more requests are with the model than it has places |
| `AnsweredInBudget` | a search with a budget is answered inside it |
| `FailoverWhereItHelps` | refused content goes to no other vendor; any other failure is final only after every vendor was tried |
| `PageIsWhole` | a transcription taken for a page is not what the output limit cut, and a failed review does not lose it; what a filter stopped passes (section 5, 25) |
| `AnswerOfItsPage` | no page is given the text of another |
| `PagesAreHonest` | a page counts as transcribed exactly when its body is, the failure marker stands only where nothing else does, and own text keeps its tables |
| `CacheOfItsSettings` | a cached page is what these settings would produce |
| `SummariesAreReal` | a finished document has a usable summary of every section sent (the placeholder of an item the model left out counts as one), and no thread still writes to it |
| `NothingIsMissing` | windows are the whole list or text, in order and in whole units, each in the budget; a distill sends or names every section |

`TypeOK` of `DocRewrite` is proved and not run; `TypeOK` of `DocDelete` documents
the types. Some properties leave states out that section 5 is about, and say so
where they are defined: `SummaryOfItsText` the
documents a merge of tags has put back (`env.clobbered`), `ClaimIsWorked` these and
those whose claim was left (`env.left`: section 5, 5 and 21), `RunningIsLive` those a
thread gave up (`dropped`: 22), `OneDocPerBody` what was stored without the lock of the
body (`unlocked`: 21), `SessionsAreSafe` the contexts whose closer was cancelled (`lost`:
23), `NothingIsMissing` a json table at the edge of the budget (`Squeezed`).

| Run | Expect | Question |
|---|---|---|
| `crash` | pass | replacement of a parsed document, two crashes anywhere, one failed operation before the rewrite, with the summary thread of the stored version; the inductive invariant |
| `faults` | pass | two replacements, one failing operation out of 26, one crash |
| `threads` | pass | two uploads of any channel, three summary threads, three failed operations (what a refused upload takes), no crash; liveness |
| `deletes` | pass | two deletes, the retention loop and two uploads of a document stored in any layout or not at all; its summary threads, one failing operation, two crashes; safety and liveness |
| `service` | pass | the deferred summaries of an upload and a capture with a timeout, a retry, a replacement, a failing write and a crash; two uploads of any size and any way to an id; safety and liveness |
| `parts` | pass | index, captures, sessions, search, providers, OCR worker, pages, summary calls, windows, each under its own failures |
| `staging`, `gap`, `mint`, `merge`, `stuck`, `region` | violation | section 5 |

Bounds. One replacement is enough for `crash`: a start settles everything before
a request is served, so what a second one meets is again a document at rest.
Two crashes are the least that interrupt a recovery; a third meets a state a
second could have left. `faults` needs a second upload because a leftover of a
failed clean-up is first met by the next one; `threads` needs two generations
beside document 0 for a stale thread to be overtaken and for an upload that
arrives while the document is still new. `MaxFaults`, `MaxCrashes` and `MaxGen`
are guards of `Fault`, `Crash` and `Arrive`. `Rest` is an explicit stutter of
the finished system, so that TLC's deadlock check is on in every run of these two modules: with it
any other state without a step, such as a thread that waits for its own lock,
is reported.

`deletes` has two content types, for a document created again under another one,
and needs two deletes for the second to meet a tombstone the first could not
clear, two uploads for retention to have picked the older one, and two crashes
for a start that dies in its sweep. Its `FaultySteps` leave out `put_back` and
`restore`, which lose a document together with another failure (section 5), and
`read_index`, which makes a start skip the sweep and serve with the tombstones
in place.

Two failing operations are left out of `faults`: `put` and `stage_copy` break
`CrashSafe` (section 5, 1 and 9). `unstash_rm` leaves the source directory
standing, and the move then nests the stash in it; `stage_record` behaves like
`write_texts`. In `threads` only operations whose failure changes who answers are
faulty.

`service` has one slot and one place in the queue for three threads, so that one
of them is refused and a worker may own the slot while another thread waits for
it; one attempt, so that a retry meets the limit; two generations for a
replacement to overtake a thread. Two uploads suffice for `Admission`: each of its
properties is about one upload or a pair of them, and the budget of three units
with a ceiling of two makes the second wait, be refused or be admitted depending on
what the first declared. `Asks` leaves the explicit numbers out, which run `mint`
has.

In `parts`:

- index: two threads, two documents of which one is only in the exported index,
  two writes, two failures, so that a failed commit is followed by a failed
  rollback, and one crash;
- captures: two captures of two URLs and two bodies, two summary threads on one
  slot with one place in the queue, one forced capture, one replacement or delete,
  one fault (a row, a status, a start of a thread or a client that leaves), one crash;
- sessions: three callers, room for one session, so that a put evicts and one may
  wait for the lock of what another closes; one failing call or cancelled caller;
- search: two callers, two backends, an interval of two units and a wait of two, so
  that a third query is refused; one hit to capture; the clock ends at four, after
  every budget;
- providers: every chain of two vendors and every sequence of outcomes with two
  retries, which is the whole state space of one call;
- OCR worker: two threads, two pages, four calls, three failures: a timeout, the
  death of the next worker and one more;
- pages: two pages out of four kinds and six settings, parsed twice, the second time
  over the caches of the first;
- summary calls: two documents over two slots, documents below the floor, of one
  section, of two batches and too long for section summaries, each up to its end; of two
  documents of two batches one falls back on single sections (a request) and one on
  previews (a deferred summary);
- windows: every sequence of up to three units from a byte to more than a result,
  under every fixed part and header, read with every limit.

Callers, clients, sessions, URLs, bodies and generations are alike, so `MCParts` lets
them come in the order of their numbers, the first context is of the first session, the
first capture of the first URL and body, and the shorter document has the lower number
(`FirstFirst`, `Ordered`); no property names one of them. A capture gets old only while a
request may still look for it (`MayLook`), and a document falls back on single sections
only when it has a batch of several (`Batched`): elsewhere neither is ever read.

Fairness (`Fairness` in `DocRewrite`): weak fairness of the holder of the writer
lock, of the request, of every thread and of the restart. A request runs in a
task that survives its client (`_survives_client_disconnect`), a thread is
scheduled by the operating system, and neither waits for anything but the lock,
which its holder gives back. Weak fairness of a thread suffices because a thread
that finds the document in another's hands is overtaken only finitely often:
uploads are bounded. Nothing is assumed of clients, of parsing succeeding, or of
an operation that fails ever succeeding later. Threads that poll for a stash are
bounded by `_DEFERRED_WRITE_REPLACEMENT_WAIT_SEC`; that bound is `ThreadGivesUp`.
`DocDelete` assumes the same of the delete that holds the lock, the upload, the
threads and the start; a delete that nobody asked for and the retention loop have
no fairness. An upload that waits is served because asyncio locks are fair.
`Summaries` assumes that a thread of the operating system that can run does
(`Thread`); that the model answers (`Answers`) or that a worker that has its answer
gives the slot back is never assumed, the timeout is. `Admission` assumes that a coroutine whose await is over runs on (`Handler`),
and nothing of clients, who may stop before they send anything and may disconnect.
A holder of a doc_id lock or a parse slot gives it back because its parse ends,
either way. The components of `MCParts` are checked for safety only and have no
fairness.

`CHECK_DEADLOCK FALSE` is set for `service`, `parts` and the violated runs of their
modules: those have no `Rest`, and stop when every request is answered or every
bound is used up.

Every property of a passing run has a variant of some definition, which stands
before that definition in its module, with which TLC finds it violated: the marker not
written before the backup goes, the staging record forgotten last, a slot given
back by the thread and by its worker, a late answer taken for the next page, and so
on. They document which line of the code each property depends on.

## 4. What is proved

TLC checks the instances of section 3; the theorems hold for every value of the
constants that the assumptions allow, that is for any number of uploads,
documents, threads, callers, vendors, pages, slots, failures and crashes.

| Module | Theorem | States | Under |
|---|---|---|---|
| `DocRewriteProofs` | `Inductive`, `TypeCorrect` | `[]IInv`, `[]TypeOK` | `Scope` |
| | `RecoverySafe` | `[]CrashSafe` | `Scope` |
| | `RowMovesOn`, `AcksStay` | `NeverOlder`, `[]AckedStays` | `Scope` |
| | `NothingIsLeft` | `[]RestIsClean` | `Scope` |
| | `MarkerLast` | `MarkerOutlivesBackup` | `Scope`, `~Defers` |
| | `VersionsNeverMix` | `[]OneVersion` | `Scope`, a document stored before |
| | `WholeAtRest` | `[]WholeWhenClean` | `Scope`, `ParsedOnly` |
| | `TextsMatch` | `[]TextMatches` | `Scope` |
| | `OneRecord` | `[]OneFailureRecord` | `Scope`, no crash |
| | `RewriteIsAtomic` | `RefinesAtomic` | `Scope`, `ParsedOnly`, `TextHolds`, a document stored before |
| `DocDeleteProofs` | `TypeOKHolds`, `GoneHolds`, `RestIsCleanHolds` | `[]TypeOK`, `[]Gone`, `[]RestIsClean` | |
| | `KeptHolds`, `RetentionKeepsFreshHolds` | `[]Kept`, `RetentionKeepsFresh` | `PutsBack` |
| `SummariesProofs` | `SlotsAndQueueHolds`, `RunningIsLiveHolds` | `[]SlotsAndQueue`, `[]RunningIsLive` | |
| `AdmissionProofs` | `BytesBoundedHolds` | `[]BytesBounded` | |
| | `NeverOverwrittenHolds` | `NeverOverwritten` | `NumbersAreMinted` |
| `ServiceProofs` | `ServiceSlots`, `ServiceRunning`, `ServiceBytes`, `ServiceOverwrites` | the same four of the composition `MCService` | as above |
| `PartsProofs` | `IndexIsAgreed` | `[]IndexAgrees` | |
| | `PageOfItsAnswer` | `[]AnswerOfItsPage` | |
| | `FailoverHelps`, `PagesAreWhole` | `[]FailoverWhereItHelps`, `[]PageIsWhole` | |
| | `InBudget`, `RatesKept` | `[]AnsweredInBudget`, `CallsSpaced` | |
| | `PagesHonest`, `CachesOfTheirSettings` | `[]PagesAreHonest`, `[]CacheOfItsSettings` | |
| | `SummariesReal` | `[]SummariesAreReal` | |
| | `NothingMissing` | `[]NothingIsMissing` | |
| `BrowserProofs` | `OneDocumentPerBody` | `[]OneDocPerBody` | |
| | `SummariesOfTheirTexts`, `ClaimsAreWorked` | `[]SummaryOfItsText`, `[]ClaimIsWorked` | |
| | `SessionsSafe` | `[]SessionsAreSafe` | |

### Hypotheses of the theorems

Each stands in the theorem and not as an assumption on the constants, because the
code does run outside of it and the property is false there:

- `Scope` (`DocRewriteInv`): the operations that may fail are the writer's
  (`WriterSteps`), not those of the recovery: a failing `put` or `stage_copy`
  breaks `CrashSafe` (section 5, 9 and 1). Where there may be summary threads, the
  operations that undo a rewrite when they fail (`RewriteSteps`) do not fail: such an
  undo beside an upload breaks `AckedStays` (section 5, 2). Where uploads start
  such threads (`Defers`), the process does not die: a crash breaks `CrashSafe`
  (section 5, 7). Uploads of every channel, and the threads of the stored document and of
  every upload, are in scope.
- `~Defers`, for `MarkerLast`: the close of an upload whose thread is at work removes
  the marker beside the backup of the thread (section 5, 7).
- `ParsedOnly`: no document is stored raw. The products of a failed attempt over a
  raw document stay (section 5, 8).
- `TextHolds`: the search table does not fail. Its writes are best effort in the
  code (a warning is logged), and the abstract specification has no text apart.
- no crash, for `OneRecord`: a process that dies after the commit and before the
  record of an earlier failure is cleared leaves that record beside the document.
- a document stored before, for `VersionsNeverMix` and `RewriteIsAtomic`: a first
  upload that dies has nothing to fall back to.
- `PutsBack` (`DocDeleteProofs`): putting back, restoring and reading the index at
  a start do not fail. They lose a document together with a second failure
  (section 5, 19 and 20).
- `NumbersAreMinted` (`AdmissionProofs`): no client asks for an id of the counter;
  run `mint` shows what happens when one does.

### Assumptions on the constants

They are named in the module of the component, and TLC evaluates them in every
run. Beside numbers being numbers and markers such as `Absent` and `None` being no
value they could be confused with, they say:

- `DocDelete`: a document that was uploaded before an expired one is expired too
  (every write gets a fresh `created_at`, DR 2040, 5281, 7068); a document at a
  migrated path is stored with a row that names the path, since nothing else finds
  it.
- `Admission`: ids of the counter are distinct, and never of the form a file name
  gives; one upload declares at most the ceiling.
- `PageOcr`: the pages of a request are pages of the document
  (`_parse_page_range`, pdf_planning.py 30-53).
- `ResultWindows`: the fixed fields of an answer, with its name where it is a list,
  are small against the budget (at least 4096 bytes, MCP 136); names of texts, headers,
  entries, lines and rows are of any size. The last unit ends where the text does.
- `Sessions`: the cleanup loop is no caller. `SummaryCalls`: the summary that is not
  there yet is none of the texts one can have.
- `WebCapture`: captures and summary threads are numbered apart from each other,
  since one field of a document names whoever works on it.

### The invariants

None of the properties is inductive: each forbids a state that some unreachable
state, satisfying the property, steps into. What is added is what the code relies on
and does not say. Run `crash` checks `IInv` of `DocRewrite` itself with TLC, with the summary
thread of the stored version; that it holds beside the threads of deferred uploads rests on
the proof.

`IInv` of `DocRewrite`. `CrashSafe` alone allows a next step that removes a
backup whose verdict is not on disk, or commits a row whose manifest was never
written. The parts are `Control`, `Order` (who holds the lock while the request
is where, and that an upload is later than the row until it commits);
`BackupShape`, `Staging`, `Stashed`, `Written` (what is in backup and directory
after every step of the staging and the writer); `RollingBack` (a name leaves the
list only when nothing of it is left in the backup, and the record goes before the
files); `RollingForward` (the verdict is on disk before the evidence goes);
`Clean`. `Threads` says what is known beside a summary thread: it is of the upload of
the row or of an earlier one, and in the first case the row is at a stage the thread may
still carry on; while its write holds the lock there is no stash, and the request is at
a place (`Beside`) where it neither takes the source away nor clears anything.
`ThreadMayWrite` is the reason: the comparison of `_skip_stale_generation` and the look
for a stash, both under the lock, leave the request nowhere else to be.
The lemmas of the recovery, the staging and the writers are in
`DocRewriteStepProofs`. The other properties add a
layer of their own over `IInv`: `AckInv` (an answered upload is at or behind the
row), `StoredParsed` (no raw document), `FailureInv` (where a record is written and when it is removed),
and `TextsAgree` (which version the search text and its copy in the backup are of
while the writer, an undo or a recovery is at work). `RewriteIsAtomic` maps every
step: the commit of an upload is `Replace`, since what the recovery would make of
the disk changes there and nowhere else (`WholeIsRecovered`, `SameContents`);
the commit of a summary is `Summarise`; every other step is a stutter.

`DocDeleteProofs`: `SafeInv` says what place and tombstone may hold while a
delete, an upload, a thread or a start is at each of its steps, which gives `Gone`
and `RestIsClean`; `KeepInv` adds that the acknowledged upload is in a place the
row or a start will find.

`SummariesProofs`: `SlotInv` counts: the slots taken are owed by exactly the
threads and workers that will give them back, one owner each, in every state of a
thread including the timeout that hands the slot to the worker. `LiveInv` ties
every status to the thread, the retry or the start that will change it.

`AdmissionProofs`: `BytesInv` says that each ledger is the number of bytes the
requests in the matching states reserved, counted as a set of pairs of a request
and a byte so that a step changes it at one request; `IdInv`, what the id of a
request in each state is, and that the requests for one id have turns of their
own, with all others behind the one that was served.

`PartsProofs`, one section per component; `StepOfParts` says that a step of the
composition is a step of one part or leaves it as it is:

- `IndexInv`: a thread with the writer lock of a document has manifest and row as
  far as its operation has come (`Changing`), an open transaction is what the
  rows are with the change of its owner and nobody else has one (`Opened`), and
  every document nobody works on agrees (`Undisturbed`); a flag that a crash caught
  half-way is accounted for in `torn`.
- `WorkerInv`: the lines in the pipes are of the page of the thread that holds the
  lock, at most one, and a process whose answer was abandoned is never reused.
- `ProviderInv`: the vendors before the present one had the content and did not
  refuse it; a draft is a whole page and the answer at the worst.
- `SearchInv`, `SpacingInv`: the next free start of a backend (of the model) lies an
  interval behind every start already claimed, a caller that waits is inside
  its budget, and every thread past the semaphore of the model holds one of its places
  (`Seats`), of which there are no more than `Slots`.
- `OcrInv`: each cache entry is of its page, settings and image; the results of a
  pool are those of the plan.

- `GenInv`: while the batches of a document run, each section that is sent has a usable
  summary, or is in no batch yet, or is in the batch of a thread that works, unless a
  batch has raised; and who works at a generation does what its stage is about, so
  that nobody is left when the brief is asked for.

- `WalkInv`: the window that is next starts where the last one ended, at the end of a
  unit and before the end of the whole. `WindowEnds` says that a window longer than
  its first unit fits, `HeadsAreCut` what a header was cut to, and `NoRefusal` that
  what is left can always be cut to the budget. Greatest and least elements come from
  `LeastNat`, which the library's theorem that `<` is well-founded gives.

`BrowserProofs`, captures: `WebInv` adds to the three properties who may do what next.

- `Minted`: an id that was given out and has no row yet belongs to one capture, which
  is about to publish it.
- `Bodied`: a capture that is past the lock of its body, was not forced and still has
  its client, is the only one there, and no row has the body but one it knows of. The lookup under the
  lock is what makes `OneDocPerBody` inductive.
- `OwnDoc`: a thread that claimed a summary holds the generation it claimed; what it
  finds changed it leaves alone.
- `Claimed`: a document in flight has somebody who works on it, and a row that says
  so or a thread about to write it.

`BrowserProofs`, sessions: `SessInv` says who stands where in the queue of each lock
and why. A queue holds exactly those who wait for that session, each once. A closer
joins it once the session is out of the table and an endpoint only while it is in, so
that no endpoint stands behind a closer and what it drives is open. A session that is
being set up is known to nobody else, and the sweep waits for one session at most.

The lemmas are one per action, with the parts of the invariant as their steps.

### Only model-checked

- Liveness (`Answered` and `ThreadEnds` of `DocRewrite`, `Answered` of `DocDelete`,
  `HolderSettles`, `EveryUploadAnswered`): out of reach of the prover.
- `DocRewrite` outside of `Scope`: recoveries that fail themselves (run `faults`), and
  uploads whose source cannot be put back while summary threads wait for it (run
  `threads`).

## 5. What the models show of the code

Six behaviours contradict what a comment or a document of the repository says, and
a run reaches each of them (PROJECT.json, `findings`).

1. `staging`. A staging that fails on a copy is undone by unlinking the file in
   place and moving the copy back (DR 1553-1556). A process that dies between
   the two leaves no record of what was staged, and the start deletes the backup
   with the only manifest in it.
2. `gap`. The undo of a failed rewrite unlinks the manifest in place and then moves the
   old one back (DR 1555-1558), under the writer lock. An upload that looks for the
   document (DR 5801, 5967) takes no such lock. In that gap, which a summary thread
   whose commit fails opens beside it, the upload finds no manifest, counts as new,
   and when it fails its record clears directory, backup and row of the document
   that was there.
3. `mint`. The counter skips numbers whose document exists on disk (ST 504-508) and
   looks at no reservation. An upload of an explicit number that is still being
   parsed is given out again, and the second upload, which asked for nothing to be
   replaced, waits for the lock and writes over the first.
4. `merge`. The tags of a capture are merged into a manifest that is read and written
   under the index lock alone (BR 2838, 2867). What a replacement or a status write
   put there in between is overwritten by the older copy.
5. `stuck`. A web summary writes its status to row and manifest one after the other
   (BR 2602-2606, 2929-2931), and a start looks for interrupted summaries by the row
   (DR 3494). A process that dies between the two may leave a manifest in flight
   beside a row that is not: no start resets it, and no cache hit schedules it.
6. `region`. The cache of the regions is keyed by page, group and image
   (profiles.py 440), not by the model, the prompt or the proofread setting, and it
   keeps failures.

The following are in the models as well, and no run is about them: no text of the
repository denies them outright, or they need two failures, or the property a run
checks says what holds in their place (21 to 26).

7. The last step of an upload drops the stash and the marker outside the
   writer lock (DR 6257). Between its look for `.rollback/` (DR 1500) and its `unlink`
   (DR 1509) the summary thread it has just started can stage a backup, commit and
   touch a marker of its own, which the upload removes: `MarkerOutlivesBackup` fails
   beside such threads. A process that dies in the removal of that backup, once the
   row's snapshot is gone, leaves nothing that says the rewrite committed, and the
   start puts the files from before the summary back beside the row after it. TLC finds
   this violation of `CrashSafe` for one deferred upload of a new document and one crash.
8. An undo puts back what was staged and removes nothing that is new: after a failed
   replacement of a raw document by a parsed one, the products of the failed attempt
   stay.
9. An undo in which one operation fails leaves the manifest in the backup; the next
   upload takes the document for a new one, and if it fails the failure recorder
   clears the directory with the backup.
10. An upload looks for the document before it is read, without a lock (DR 5801), and
   the look under the doc_id lock (DR 5967) can only add to that verdict. When the
   document is deleted in between, the upload is still a replacement: its failure is
   not recorded, nothing it wrote is cleared, and when it fails after the manifest
   was written a document stays that no listing names.
11. A json table is measured without the page's own fields before its metadata is cut
    (MCP 1354-1370), and the window is built with them. At the edge of the budget the
    metadata is left whole, the row cannot give enough back, and the read is refused
    (`Squeezed`).
12. A start that resets an interrupted summary writes the manifest before the row
    (DR 3522, 3526). When the row fails, or the process dies between the two, the row
    says `running` for good: the next start skips the document, since its manifest is
    no longer in flight.
13. A parse leaves `pending` and schedules a thread; a retry is allowed for `pending`
    (DR 6927). When that thread still waits for a slot, the same summary is
    generated twice.
14. A retry with `force` passes the limit of attempts at the endpoint (DR 6929) and is
    failed by it in the thread (DR 2799).
15. `.rollback-capture` (BR 2313) is the only copy of a capture between two renames,
    and no start looks for it; only the next capture under the same id removes it.
16. A one-shot capture puts its session into the table before it takes the session's
    lock (BR 3484-3491). While that put waits for the close of what it evicted, the
    put of somebody else may evict the new session, and the capture works on a
    closed context.
17. The start refused to an OCR worker while the breaker is open is itself an
    exception of a page (engines.py 254), which arms the breaker again
    (engines.py 386-388): while pages keep coming it does not close.
18. A region whose text starts with `[` is taken for a failure (profiles.py 456), and a
    replaced region drops the tables of its page (profiles.py 465).
19. An index that cannot be read makes a start roll back a committed rewrite
    (documented in `_rewrite_committed`; `CrashSafe` and `TextMatches` leave these
    behaviours out through `env.blind`), and a first write that dies before its row
    leaves a manifest no listing names.
20. A delete that can neither finish nor put a directory back leaves it as a
    tombstone, and an upload in between (its `.tmp` is enough) makes the start clear
    it. A document listed at a migrated path and then replaced leaves a directory
    behind that no delete finds any more.

21. A capture is not shielded from its client as an upload is (BR 327-333; DR
    4996-5020). Cancelled while its thread publishes (BR 3640, 3774), it gives the lock of the
    body back before the row is there, so that another capture of the body stores it
    again; and the document that is published is never scheduled (BR 3667-3674): it
    stays `pending`, and a later capture that finds it takes the claim for somebody else's.
    So does one whose thread cannot be started (BR 2940-2953, 3669), or whose thread fails
    to write a status (BR 2541, 2562, 2610), until the next start.
22. The write of `failed` in the except clause of a summary thread (DR 2926-2941) may
    raise, and a retry writes `running` (DR 6940-6957) before it starts the thread (DR 6973),
    which may raise too. Either leaves a document running without a thread, until the
    next start.
23. A caller cancelled while it waits for the lock of a session it has taken out of the
    table (session.py 133-145), or while the browser makes its context (BR 3102, 3467),
    leaves the context open with no owner. The docstring of `session.py` (1-7) says that
    eviction and expiry close the context, the comment at BR 3114 that it would leak
    otherwise.
24. While an upload is copied (DR 5821-5871) its multipart spool and its copy in
    `.upload-tmp` are both on disk and the ledger counts one of them (DR 5900), so the bytes
    on disk may reach twice the ceiling, where the repository's README (370) says that
    the one number bounds all upload bytes the service holds.
25. Both backends look at a content filter only when there is no text (openai_compat.py
    336-356, gemini.py 198-209): what the model had said when the filter stopped it is
    taken for the page, and in a review pass (openai_compat.py 380-393, gemini.py 225-237)
    it replaces a whole draft. The output limit is handled there.
26. A call of the summary model claims its start slot once. The request goes out after
    the lock is given back (summaries.py 102-111), and a provider's retries
    (openai_compat.py 222-257, gemini.py 143-168) and the next provider of a failover put it
    again with no slot, so that the interval holds between claims and not, as
    the docstring (90-94) has it, between the starts of requests.

One hazard lies outside of what is modelled: the page cache of the transcribing model
is written in place (pdf.py 498), where the local page cache beside it is written
through a temporary file; `PageOcr` has no crash.

## 6. Plan

What is left to prove is `DocRewrite` with recoveries that fail themselves, for the
properties that survive them (run `faults`). The liveness properties stay with TLC.

### Not modelled

- Server composition: an authentication gate and a body ceiling without state of
  their own beyond the bytes of one request.
- The other parsers and extractors (Word, tabular, sectioning, regions of a layout):
  pure conversions of one format into another. What could be wrong in them is the
  text, which a model would restate line by line.
- `readability.js`, third-party code.
- The SDK, metrics, localisation and scripts: thin clients and formatting.

In the parts that are modelled in part:

- parse endpoint: the cost preflight, the url and s3 sources, deduplication by
  content;
- doc_id allocation: random ids, recovery of a broken counter file;
- store and index: the search queries and their ranking;
- PDF parsing: text cleaning, layout and table extraction;
- MCP front end: the tools that forward a call and return its answer.
