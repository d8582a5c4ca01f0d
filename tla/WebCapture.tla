----------------------------- MODULE WebCapture -----------------------------
(***************************************************************************)
(* Web captures: what finds a capture again, what stores one, and the      *)
(* thread that summarizes it, beside uploads and deletes of the same ids.  *)
(* A capture is a coroutine that works in threads; its locks are of its    *)
(* URL and of the hash of its body.  When its client leaves, the coroutine *)
(* is cancelled and lets them go; a thread it was waiting for works on.  A *)
(* summary thread takes the writer lock of the document, and both take     *)
(* _doc_index_lock for a row.                                              *)
(*                                                                         *)
(*   doc    the directory of each id: its manifest, its text, its digest   *)
(*   row    its row in the index                                           *)
(*   req    the captures                                                   *)
(*   job    the summary threads                                            *)
(*   locks  the writer lock of each document, and _doc_index_lock          *)
(*   env    counters, and the documents a known weakness has touched       *)
(***************************************************************************)
EXTENDS Integers, FiniteSets

CONSTANTS
    MaxId,         \* the ids: WEB-001, ...
    Requests,      \* the numbers of the captures, in the order they come
    Jobs,          \* the numbers of the summary threads; the least idle one is taken
    Urls, Bodies,
    Slots,         \* _WEB_SUMMARY_CONCURRENCY
    MaxQueued,     \* _WEB_SUMMARY_MAX_QUEUED
    MaxForced,     \* captures with force_refresh
    MaxReplaces,   \* uploads that replace a capture, and deletes
    MaxFaults,     \* writes and starts of threads that fail, clients that leave
    MaxCrashes,
    None

WebCaptureAssumption ==
    /\ MaxId \in Nat /\ Requests \cup Jobs \subseteq Nat \ {0} /\ Requests \cap Jobs = {}
    /\ None \notin Nat \cup Bodies

VARIABLES doc, row, req, job, locks, env
vars == <<doc, row, req, job, locks, env>>

Ids == 1..MaxId
InFlight == {"pending", "running"}

NoDoc == [kind |-> "none", gen |-> 0, text |-> 0, digest |-> 0, status |-> "none"]
NoRow == [kind |-> "none", gen |-> 0, body |-> None, url |-> None, fresh |-> FALSE,
          unlocked |-> FALSE, status |-> "none"]
NoRequest == [at |-> "idle", url |-> None, body |-> None, force |-> FALSE, gone |-> FALSE,
              id |-> 0, gen |-> 0, seen |-> NoDoc]
NoJob == [at |-> "idle", id |-> 0, gen |-> 0]
Unlocked == [writer |-> [d \in Ids |-> None], index |-> None]

Init ==
    /\ doc = [d \in Ids |-> NoDoc] /\ row = [d \in Ids |-> NoRow]
    /\ req = [r \in Requests |-> NoRequest] /\ job = [j \in Jobs |-> NoJob]
    /\ locks = Unlocked
    /\ env = [counter |-> 1, gens |-> 0, forced |-> 0, replaces |-> 0, faults |-> 0, crashes |-> 0,
              clobbered |-> {}, left |-> {}]

-----------------------------------------------------------------------------
At(r, a)   == req[r].at = a
Goto(r, a) == req' = [req EXCEPT ![r].at = a]
Ends(r)    == req' = [req EXCEPT ![r] = [NoRequest EXCEPT !.at = "done"]]
Index      == locks.index = None
Writer(d)  == locks.writer[d] = None
(* What fails, and the documents whose claim nobody works on from then on. *)
FaultLeaves(S) == /\ env.faults < MaxFaults
                  /\ env' = [env EXCEPT !.faults = @ + 1, !.left = @ \cup S]
Fault      == FaultLeaves({})
SetRow(d, status) == row' = IF row[d].kind = "none" THEN row
                            ELSE [row EXCEPT ![d].status = status]
SetManifest(d, status) == doc' = [doc EXCEPT ![d].status = status]

(* The latest of the web captures a lookup finds. *)
Latest(S) == {d \in S : \A e \in S : row[e].gen <= row[d].gen}
Captured == {d \in Ids : row[d].kind = "web"}
(* _find_cached_capture, _find_capture_by_content_hash *)
CachedFor(url) == {d \in Captured : row[d].url = url /\ row[d].fresh}
SameBody(body) == {d \in Captured : row[d].body = body}
Takes(r, found, hit, miss) ==
    \/ found = {} /\ Goto(r, miss)
    \/ \E d \in Latest(found) : req' = [req EXCEPT ![r].id = d, ![r].at = hit]

-----------------------------------------------------------------------------
(* The capture, up to the body of the page. *)

Ask(r, url, force) ==
    /\ At(r, "idle") /\ \A q \in Requests : q < r => ~At(q, "idle")
    /\ force => env.forced < MaxForced
    /\ req' = [req EXCEPT ![r] = [@ EXCEPT !.at = IF force THEN "fetch" ELSE "look",
                                           !.url = url, !.force = force]]
    /\ env' = [env EXCEPT !.forced = @ + (IF force THEN 1 ELSE 0)]
    /\ UNCHANGED <<doc, row, job, locks>>

(* The cache is looked at with no lock, and again under the lock of the key. *)
Look(r) ==
    /\ At(r, "look") /\ Takes(r, CachedFor(req[r].url), "reply", "key")
    /\ UNCHANGED <<doc, row, job, locks, env>>

HoldsKey(r) == ~req[r].force /\ ~req[r].gone /\ req[r].at \notin {"idle", "look", "key", "done"}
LockKey(r) ==
    /\ At(r, "key")
    /\ \A q \in Requests \ {r} : HoldsKey(q) => req[q].url # req[r].url
    /\ Takes(r, CachedFor(req[r].url), "reply", "fetch")
    /\ UNCHANGED <<doc, row, job, locks, env>>

(* The body of the page, from the site or from a browser; or no capture.      *)
Fetch(r) ==
    /\ At(r, "fetch")
    /\ \/ \E body \in Bodies :
            req' = [req EXCEPT ![r].body = body,
                               ![r].at = IF req[r].force THEN "mint" ELSE "hash"]
       \/ Ends(r)
    /\ UNCHANGED <<doc, row, job, locks, env>>

HoldsHash(r) == ~req[r].force /\ ~req[r].gone /\ req[r].body # None /\ req[r].at \notin {"hash", "done"}
LockNothing(r) ==                        \* variant: two captures of one body look at once
    /\ At(r, "hash")
    /\ Takes(r, SameBody(req[r].body), "merge", "mint")
    /\ UNCHANGED <<doc, row, job, locks, env>>
LockHash(r) ==
    /\ At(r, "hash")
    /\ \A q \in Requests \ {r} : HoldsHash(q) => req[q].body # req[r].body
    /\ Takes(r, SameBody(req[r].body), "merge", "mint")
    /\ UNCHANGED <<doc, row, job, locks, env>>

-----------------------------------------------------------------------------
(* A body that is stored already: tags and metadata go to that document, the  *)
(* manifest read and written under _doc_index_lock and no other.              *)

Merged(r) == IF req[r].gone THEN Ends(r) ELSE Goto(r, "reply")
MergeRead(r) ==
    /\ At(r, "merge") /\ Index
    /\ IF row[req[r].id].kind = "none"
       THEN Merged(r) /\ UNCHANGED locks
       ELSE /\ req' = [req EXCEPT ![r].at = "merging", ![r].seen = doc[req[r].id]]
            /\ locks' = [locks EXCEPT !.index = r]
    /\ UNCHANGED <<doc, row, job, env>>

MergeWrite(r) ==
    /\ At(r, "merging") /\ Merged(r)
    /\ LET d == req[r].id
           seen == req[r].seen
           now == [doc[d] EXCEPT !.kind = seen.kind, !.gen = seen.gen, !.status = seen.status]
           writes == seen.kind # "none" /\ doc[d].kind # "none" IN
       /\ doc' = IF writes THEN [doc EXCEPT ![d] = now] ELSE doc
       /\ env' = IF writes /\ now # doc[d] THEN [env EXCEPT !.clobbered = @ \cup {d}] ELSE env
    /\ locks' = [locks EXCEPT !.index = None]
    /\ UNCHANGED <<row, job>>

(* _resolve_cached_summary: a hit asks for the summary that is not there. *)
Intact(d, gen) == doc[d].kind = "web" /\ doc[d].gen = gen
Claim(r) ==
    /\ At(r, "reply") /\ Writer(req[r].id)
    /\ LET d == req[r].id IN
       IF doc[d].kind # "web" \/ doc[d].status \in InFlight \cup {"completed"}
       THEN Ends(r) /\ UNCHANGED <<doc, locks>>
       ELSE /\ req' = [req EXCEPT ![r].at = "claim", ![r].gen = doc[d].gen]
            /\ SetManifest(d, "pending")
            /\ locks' = [locks EXCEPT !.writer[d] = r]
    /\ UNCHANGED <<row, job, env>>

Starts(r) == \E j \in Jobs :
    /\ job[j].at = "idle" /\ \A i \in Jobs : i < j => job[i].at # "idle"
    /\ job' = [job EXCEPT ![j] = [at |-> "slot", id |-> req[r].id, gen |-> req[r].gen]]
(* Thread.start raises: the request fails, and the claim stays. *)
StartFails(r) == FaultLeaves({req[r].id}) /\ UNCHANGED job
ClaimRow(r) ==
    /\ At(r, "claim") /\ Index /\ Ends(r)
    /\ (Starts(r) /\ UNCHANGED env) \/ StartFails(r)
    /\ SetRow(req[r].id, "pending")
    /\ locks' = [locks EXCEPT !.writer[req[r].id] = None]
    /\ UNCHANGED doc

ClaimIsKept(r) ==                        \* variant: a claim that failed is not given back
    /\ At(r, "claim") /\ Index /\ Fault /\ Ends(r)
    /\ locks' = [locks EXCEPT !.writer[req[r].id] = None]
    /\ UNCHANGED <<doc, row, job>>
(* The row cannot be written, and the manifest gives the claim back, if that  *)
(* can be.                                                                    *)
ClaimFails(r) ==
    /\ At(r, "claim") /\ Index /\ Ends(r)
    /\ (Fault /\ SetManifest(req[r].id, "failed")) \/ (FaultLeaves({req[r].id}) /\ UNCHANGED doc)
    /\ locks' = [locks EXCEPT !.writer[req[r].id] = None]
    /\ UNCHANGED <<row, job>>

-----------------------------------------------------------------------------
(* A new body: an id, a staged directory nobody sees, and its publication.    *)

Unused == {d \in Ids : d >= env.counter /\ doc[d].kind = "none"}
Mint(r) ==
    /\ At(r, "mint")
    /\ \E d \in Unused :
        /\ \A e \in Unused : d <= e
        /\ req' = [req EXCEPT ![r].id = d, ![r].at = "publish"]
        /\ env' = [env EXCEPT !.counter = d + 1]
    /\ UNCHANGED <<doc, row, job, locks>>

Publish(r) ==
    /\ At(r, "publish") /\ Index
    /\ LET d == req[r].id
           gen == env.gens + 1 IN
       /\ req' = [req EXCEPT ![r].at = "index", ![r].gen = gen, ![r].seen = doc[d]]
       /\ doc' = [doc EXCEPT ![d] = [kind |-> "web", gen |-> gen, text |-> gen, digest |-> gen,
                                     status |-> "pending"]]
       /\ env' = [env EXCEPT !.gens = gen, !.left = IF req[r].gone THEN @ \cup {d} ELSE @]
    /\ locks' = [locks EXCEPT !.index = r]
    /\ UNCHANGED <<row, job>>

PublishRow(r) ==
    /\ At(r, "index")
    /\ row' = [row EXCEPT ![req[r].id] =
                  [kind |-> "web", gen |-> req[r].gen, body |-> req[r].body, url |-> req[r].url,
                   fresh |-> TRUE, unlocked |-> req[r].force \/ req[r].gone, status |-> "pending"]]
    /\ IF req[r].gone THEN Ends(r) ELSE Goto(r, "schedule")
    /\ locks' = [locks EXCEPT !.index = None]
    /\ UNCHANGED <<doc, job, env>>

PublishFails(r) ==
    /\ At(r, "index") /\ Fault /\ Ends(r)
    /\ doc' = [doc EXCEPT ![req[r].id] = req[r].seen]
    /\ locks' = [locks EXCEPT !.index = None]
    /\ UNCHANGED <<row, job>>

Schedule(r) ==
    /\ At(r, "schedule") /\ Ends(r)
    /\ (Starts(r) /\ UNCHANGED env) \/ StartFails(r)
    /\ UNCHANGED <<doc, row, locks>>

(* The client leaves and the coroutine is cancelled where it awaits.  A       *)
(* thread that has not begun never does; one that has works on, for nobody:   *)
(* the locks of the capture are free, and what it publishes is not scheduled. *)
InThread == {"merge", "merging", "reply", "claim", "mint", "publish", "index"}
Cancelled(r) ==
    /\ ~req[r].gone
    /\ \/ req[r].at \in {"look", "key", "fetch", "hash", "merge", "reply", "mint", "schedule"} /\ Ends(r)
       \/ req[r].at \in InThread /\ req' = [req EXCEPT ![r].gone = TRUE]
    /\ FaultLeaves(IF req[r].at \in {"index", "schedule"} THEN {req[r].id} ELSE {})
    /\ UNCHANGED <<doc, row, job, locks>>

-----------------------------------------------------------------------------
(* _defer_web_summary.  A slot, or a place in the queue, or a refusal.        *)

On(j, a)    == job[j].at = a
Holding     == {j \in Jobs : job[j].at \notin {"idle", "slot", "queued", "refused"}}
Queued      == {j \in Jobs : On(j, "queued")}
JobAt(j, a) == job' = [job EXCEPT ![j].at = a]
JobEnds(j)  == job' = [job EXCEPT ![j] = NoJob]
Take(j) == locks' = [locks EXCEPT !.writer[job[j].id] = j]
Give(j) == locks' = [locks EXCEPT !.writer[job[j].id] = None]
Live(j) == Intact(job[j].id, job[j].gen)
(* The status of the manifest cannot be written, and that ends the thread. *)
Dies(j) == /\ Live(j) /\ FaultLeaves({job[j].id}) /\ JobEnds(j)
           /\ UNCHANGED <<doc, row, req, locks>>

Enter(j) ==
    /\ On(j, "slot")
    /\ JobAt(j, IF Cardinality(Holding) < Slots THEN "begin"
                ELSE IF Cardinality(Queued) < MaxQueued THEN "queued" ELSE "refused")
    /\ UNCHANGED <<doc, row, req, locks, env>>
Dequeue(j) ==
    /\ On(j, "queued") /\ Cardinality(Holding) < Slots /\ JobAt(j, "begin")
    /\ UNCHANGED <<doc, row, req, locks, env>>

Refused(j) ==
    /\ On(j, "refused") /\ Writer(job[j].id) /\ Index /\ JobEnds(j)
    /\ IF Live(j) THEN /\ SetManifest(job[j].id, "not_queued")
                       /\ \/ SetRow(job[j].id, "not_queued") /\ UNCHANGED env
                          \/ Fault /\ UNCHANGED row
                  ELSE UNCHANGED <<doc, row, env>>
    /\ UNCHANGED <<req, locks>>
RefusedDies(j) == On(j, "refused") /\ Writer(job[j].id) /\ Dies(j)

Begin(j) ==
    /\ On(j, "begin") /\ Writer(job[j].id)
    /\ IF Live(j) THEN JobAt(j, "running") /\ SetManifest(job[j].id, "running") /\ Take(j)
                  ELSE JobEnds(j) /\ UNCHANGED <<doc, locks>>
    /\ UNCHANGED <<row, req, env>>
BeginDies(j) == On(j, "begin") /\ Writer(job[j].id) /\ Dies(j)
BeginRow(j) ==
    /\ On(j, "running") /\ Index /\ Give(j)
    /\ \/ SetRow(job[j].id, "running") /\ JobAt(j, "llm") /\ UNCHANGED <<doc, env>>
       \/ Fault /\ SetManifest(job[j].id, "failed") /\ JobEnds(j) /\ UNCHANGED row
       \/ FaultLeaves({job[j].id}) /\ JobEnds(j) /\ UNCHANGED <<doc, row>>
    /\ UNCHANGED req

Answer(j) ==
    /\ On(j, "llm") /\ (JobAt(j, "save") \/ JobAt(j, "fail"))
    /\ UNCHANGED <<doc, row, req, locks, env>>

SaveBlindly(j) ==                        \* variant: the generation is not looked at again
    /\ On(j, "save") /\ Writer(job[j].id) /\ JobAt(j, "saving") /\ Take(j)
    /\ doc' = IF doc[job[j].id].kind = "none" THEN doc
              ELSE [doc EXCEPT ![job[j].id].digest = job[j].gen]
    /\ UNCHANGED <<row, req, env>>
(* The digest and the brief, then the row, and the status of the manifest     *)
(* last, all under the lock.                                                  *)
Save(j) ==
    /\ On(j, "save") /\ Writer(job[j].id)
    /\ IF Live(j) THEN JobAt(j, "saving") /\ Take(j)
                       /\ doc' = [doc EXCEPT ![job[j].id].digest = job[j].gen]
                  ELSE JobEnds(j) /\ UNCHANGED <<doc, locks>>
    /\ UNCHANGED <<row, req, env>>
SaveRow(j) ==
    /\ On(j, "saving") /\ Index
    /\ \/ SetRow(job[j].id, "completed") /\ JobAt(j, "finish") /\ UNCHANGED <<locks, env>>
       \/ Fault /\ JobAt(j, "fail") /\ Give(j) /\ UNCHANGED row
    /\ UNCHANGED <<doc, req>>
Finish(j) ==
    /\ On(j, "finish") /\ JobEnds(j) /\ Give(j)
    /\ SetManifest(job[j].id, "completed")
    /\ UNCHANGED <<row, req, env>>
FinishFails(j) ==
    /\ On(j, "finish") /\ Fault /\ JobAt(j, "fail") /\ Give(j)
    /\ UNCHANGED <<doc, row, req>>

Fail(j) ==
    /\ On(j, "fail") /\ Writer(job[j].id) /\ Index /\ JobEnds(j)
    /\ IF Live(j) THEN /\ SetManifest(job[j].id, "failed")
                       /\ \/ SetRow(job[j].id, "failed") /\ UNCHANGED env
                          \/ Fault /\ UNCHANGED row
                  ELSE UNCHANGED <<doc, row, env>>
    /\ UNCHANGED <<req, locks>>
FailDies(j) == On(j, "fail") /\ Writer(job[j].id) /\ Dies(j)

-----------------------------------------------------------------------------
(* The library, beside: an upload replaces a capture, a document is deleted,  *)
(* a capture gets old, the process dies.                                      *)

Upload == 0                              \* who holds the writer lock then
Replace(d) ==
    /\ doc[d].kind = "web" /\ row[d].kind = "web" /\ Writer(d) /\ env.replaces < MaxReplaces
    /\ LET gen == env.gens + 1 IN
       /\ doc' = [doc EXCEPT ![d] = [kind |-> "upload", gen |-> gen, text |-> gen, digest |-> gen,
                                     status |-> "none"]]
       /\ env' = [env EXCEPT !.gens = gen, !.replaces = @ + 1]
    /\ locks' = [locks EXCEPT !.writer[d] = Upload]
    /\ UNCHANGED <<row, req, job>>
ReplaceRow(d) ==
    /\ locks.writer[d] = Upload /\ Index
    /\ row' = [row EXCEPT ![d] = [NoRow EXCEPT !.kind = "upload", !.gen = env.gens]]
    /\ locks' = [locks EXCEPT !.writer[d] = None]
    /\ UNCHANGED <<doc, req, job, env>>

Delete(d) ==
    /\ row[d].kind # "none" /\ Writer(d) /\ Index /\ env.replaces < MaxReplaces
    /\ doc' = [doc EXCEPT ![d] = NoDoc] /\ row' = [row EXCEPT ![d] = NoRow]
    /\ env' = [env EXCEPT !.replaces = @ + 1, !.clobbered = @ \ {d}, !.left = @ \ {d}]
    /\ UNCHANGED <<req, job, locks>>

Age(d) ==
    /\ row[d].fresh /\ row' = [row EXCEPT ![d].fresh = FALSE]
    /\ UNCHANGED <<doc, req, job, locks, env>>

(* The start that follows a crash sweeps the rows that say a summary is in    *)
(* flight, those nobody worked on before as well.  (A replacement it cuts is  *)
(* of DocRewrite.)  A claim is left between the status of the manifest and    *)
(* that of the row, and where a thread was to give up what its row completed. *)
GivenUp(d) == \E j \in Jobs : job[j].id = d /\ On(j, "fail") /\ Live(j)
Sweeps(d) == row[d].status \in InFlight /\ doc[d].status \in InFlight
Crash ==
    /\ env.crashes < MaxCrashes /\ \A d \in Ids : locks.writer[d] # Upload
    /\ req' = [r \in Requests |-> IF At(r, "idle") THEN req[r] ELSE [NoRequest EXCEPT !.at = "done"]]
    /\ job' = [j \in Jobs |-> NoJob]
    /\ locks' = Unlocked
    /\ doc' = [d \in Ids |-> IF Sweeps(d) THEN [doc[d] EXCEPT !.status = "failed"] ELSE doc[d]]
    /\ row' = [d \in Ids |-> IF Sweeps(d) THEN [row[d] EXCEPT !.status = "failed"] ELSE row[d]]
    /\ env' = [env EXCEPT !.crashes = @ + 1,
                          !.left = {d \in Ids : doc[d].status \in InFlight /\ ~Sweeps(d)
                                               /\ (d \in @ \/ ~Writer(d) \/ row[d].kind = "none"
                                                        \/ GivenUp(d))}]

Capture(r) ==
    \/ Look(r) \/ LockKey(r) \/ Fetch(r) \/ LockHash(r) \/ MergeRead(r) \/ MergeWrite(r)
    \/ Claim(r) \/ ClaimRow(r) \/ ClaimFails(r) \/ Mint(r) \/ Publish(r) \/ PublishRow(r)
    \/ PublishFails(r) \/ Schedule(r) \/ Cancelled(r)
Summary(j) ==
    \/ Enter(j) \/ Dequeue(j) \/ Refused(j) \/ Begin(j) \/ BeginRow(j) \/ Answer(j)
    \/ Save(j) \/ SaveRow(j) \/ Finish(j) \/ FinishFails(j) \/ Fail(j)
    \/ RefusedDies(j) \/ BeginDies(j) \/ FailDies(j)
Next ==
    \/ \E r \in Requests : Capture(r) \/ \E url \in Urls, force \in BOOLEAN : Ask(r, url, force)
    \/ \E j \in Jobs : Summary(j)
    \/ \E d \in Ids : Replace(d) \/ ReplaceRow(d) \/ Delete(d) \/ Age(d)
    \/ Crash

Spec == Init /\ [][Next]_vars

-----------------------------------------------------------------------------
(* One body is one document, however many captures of it race under however   *)
(* many URLs: where two have it, one was stored by a thread without the lock  *)
(* of the body, for force_refresh or after its client had left.               *)
OneDocPerBody ==
    \A d, e \in Captured : d # e /\ row[d].body = row[e].body => row[d].unlocked \/ row[e].unlocked

(* The manifest and the digest of a document are of the text it has: no merge *)
(* and no summary that was on its way when the document was replaced writes   *)
(* over what replaced it.                                                     *)
ManifestOfItsText == \A d \in Ids : doc[d].gen = doc[d].text /\ doc[d].digest = doc[d].text

(* The same, of every document whose manifest no merge has put back.          *)
SummaryOfItsText == \A d \in Ids \ env.clobbered :
    doc[d].gen = doc[d].text /\ doc[d].digest = doc[d].text

Worked(d) ==
    \/ \E j \in Jobs : job[j].id = d /\ job[j].gen = doc[d].gen
    \/ \E r \in Requests : /\ req[r].id = d
                           /\ req[r].at = "claim" \/ (req[r].at \in {"index", "schedule"} /\ ~req[r].gone)
(* A summary that is said to be pending or running has a thread behind it, or *)
(* the request that is about to start one: anything else nobody would ever    *)
(* schedule again.                                                            *)
EveryClaimIsWorked == \A d \in Ids :
    doc[d].status \in InFlight /\ row[d].kind # "none" => Worked(d)

(* The same, of every document but those a merge has put back, and those      *)
(* whose claim was left: by a status or a thread start that failed, by a      *)
(* client that left before its document was scheduled, or by a crash between  *)
(* the status of the manifest and that of the row.  A row that fails takes    *)
(* the claim back, and the next start settles what was left with both saying  *)
(* that it is in flight.                                                      *)
ClaimIsWorked == \A d \in Ids \ (env.clobbered \cup env.left) :
    doc[d].status \in InFlight => Worked(d)
=============================================================================
