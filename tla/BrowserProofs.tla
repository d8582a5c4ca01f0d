---------------------------- MODULE BrowserProofs ----------------------------
(***************************************************************************)
(* What is proved of the two parts of the browser service that keep state: *)
(* the captures it stores and the sessions it drives.                      *)
(***************************************************************************)
EXTENDS MCParts, SequenceTheorems, TLAPS

(* A step is one of the part it is about, or leaves that part as it is.       *)
LEMMA StepOfBrowser ==
  ASSUME [Next]_vars
  PROVE  (Capture!Next \/ UNCHANGED captureVars) /\ (Session!Next \/ UNCHANGED sessionVars)
  <1>1. CASE Next
    BY <1>1 DEF Next, Rest
  <1>2. CASE UNCHANGED vars
    BY <1>2 DEF vars
  <1> QED
    BY <1>1, <1>2

-----------------------------------------------------------------------------
(* Web captures: who holds which lock, whose an id is before its row is there,   *)
(* and what every document has.                                                  *)
WebStatus  == {"none", "pending", "running", "completed", "failed", "not_queued"}
WebKinds   == {"none", "web", "upload"}
WebDoc     == [kind : WebKinds, gen : Nat, text : Nat, digest : Nat, status : WebStatus]
WebRow     == [kind : WebKinds, gen : Nat, body : Bodies \cup {None}, url : Urls \cup {None},
               fresh : BOOLEAN, unlocked : BOOLEAN, status : WebStatus]
WebRequest == [at : {"idle", "look", "key", "fetch", "hash", "merge", "merging", "reply", "claim",
                     "mint", "publish", "index", "schedule", "done"},
               url : Urls \cup {None}, body : Bodies \cup {None}, force : BOOLEAN, gone : BOOLEAN,
               id : 0..WebIds, gen : Nat, seen : WebDoc]
WebJob     == [at : {"idle", "slot", "queued", "refused", "begin", "running", "llm", "save", "saving",
                     "finish", "fail"}, id : 0..WebIds, gen : Nat]
WebEnv     == [counter : Nat, gens : Nat, forced : Nat, replaces : Nat, faults : Nat, crashes : Nat,
               clobbered : SUBSET Capture!Ids, left : SUBSET Capture!Ids]
WebWriters == Captures \cup WebJobs \cup {None, Capture!Upload}
WebType ==
    /\ doc \in [Capture!Ids -> WebDoc] /\ row \in [Capture!Ids -> WebRow]
    /\ req \in [Captures -> WebRequest] /\ job \in [WebJobs -> WebJob]
    /\ locks \in [writer : [Capture!Ids -> WebWriters], index : Captures \cup {None}]
    /\ env \in WebEnv

(* The states of a request that has an id, a body, a claim.                      *)
Placed   == {"merge", "merging", "reply", "claim", "publish", "index", "schedule"}
Storing  == {"mint", "publish", "index"}
Claiming == {"claim", "index", "schedule"}

RequestOf(r) ==
    /\ req[r].at \in Placed => req[r].id # 0
    /\ req[r].at \in {"hash", "mint", "publish", "index"} => req[r].body # None
    /\ req[r].at \in {"idle", "look", "key"} => req[r].body = None
    /\ req[r].at \in {"merging", "index"} <=> locks.index = r
    /\ req[r].at = "claim" => locks.writer[req[r].id] = r
    /\ req[r].id < env.counter
JobOf(j) ==
    /\ IF job[j].at = "idle" THEN job[j].id = 0 ELSE job[j].id # 0
    /\ job[j].at \in {"running", "saving", "finish"} => locks.writer[job[j].id] = j
    /\ job[j].id < env.counter

(* An id that was minted belongs to one request until its row is written.        *)
NoRowYet(d) == row[d] = Capture!NoRow /\ locks.writer[d] = None
Own(r) ==
    /\ \A q \in Captures \ {r} : req[q].id # req[r].id
    /\ \A j \in WebJobs : job[j].id # req[r].id
Minted ==
    /\ \A d \in Capture!Ids : d >= env.counter => NoRowYet(d) /\ doc[d] = Capture!NoDoc
    /\ \A r \in Captures : req[r].at \in {"publish", "index"} => NoRowYet(req[r].id) /\ Own(r)
    /\ \A r \in Captures : req[r].at = "publish" => doc[req[r].id] = Capture!NoDoc
    /\ \A r \in Captures : req[r].at = "index" => /\ req[r].seen = Capture!NoDoc
                                                  /\ doc[req[r].id].gen = req[r].gen

(* A request that is about to store a body holds it, and no row has it.          *)
Bodied ==
    /\ \A r, q \in Captures : r # q /\ Capture!HoldsHash(r) /\ Capture!HoldsHash(q) =>
          req[r].body # req[q].body
    /\ \A r \in Captures : req[r].at \in Storing /\ ~req[r].force /\ ~req[r].gone =>
          \A d \in Capture!Captured : row[d].body = req[r].body => row[d].unlocked
    /\ OneDocPerBody

Coherent(x) == x.gen = x.text /\ x.digest = x.text
Active(d)   == doc[d].status \in Capture!InFlight
OwnDoc(d) == d \notin env.clobbered =>
    /\ Coherent(doc[d])
    /\ Active(d) => doc[d].kind = "web"
    /\ locks.writer[d] = Capture!Upload => doc[d].kind = "upload"
    /\ \A r \in Captures : req[r].id = d =>
          /\ req[r].at = "claim" => doc[d].gen = req[r].gen
          /\ req[r].at = "schedule" => doc[d].gen = req[r].gen \/ doc[d].kind # "web"
    /\ \A j \in WebJobs : job[j].id = d /\ job[j].at \in {"saving", "finish"} => Capture!Live(j)
Behind(d) ==
    \/ \E r \in Captures : req[r].id = d /\ req[r].at = "claim"
    \/ \E j \in WebJobs : job[j].id = d /\ job[j].at \in {"running", "finish"}
    \/ Capture!GivenUp(d)
Claimed(d) == d \notin env.clobbered \cup env.left /\ Active(d) =>
    /\ Capture!Worked(d)
    /\ row[d].kind = "none" \/ row[d].status \in Capture!InFlight \/ Behind(d)

WebInv ==
    /\ WebType /\ Minted /\ Bodied
    /\ \A r \in Captures : RequestOf(r)
    /\ \A j \in WebJobs : JobOf(j)
    /\ \A d \in Capture!Ids : OwnDoc(d) /\ Claimed(d)

LEMMA WebConstants ==
  /\ WebIds \in Nat /\ Capture!Ids = 1..WebIds /\ Captures \subseteq Nat \ {0} /\ WebJobs \subseteq Nat \ {0}
  /\ Captures \cap WebJobs = {} /\ None \notin Nat /\ None \notin Bodies
  /\ None \notin Captures /\ None \notin WebJobs /\ Capture!Upload = 0
  /\ 0 \notin Captures /\ 0 \notin WebJobs
  BY MCPartsAssumption DEF Capture!WebCaptureAssumption, Capture!Ids, Capture!Upload

LEMMA WebEmpty ==
  /\ Capture!NoDoc \in WebDoc /\ Capture!NoRow \in WebRow /\ Capture!NoRequest \in WebRequest
  /\ Capture!NoJob \in WebJob
  /\ Coherent(Capture!NoDoc) /\ Capture!NoDoc.kind = "none" /\ Capture!NoDoc.status = "none"
  /\ Capture!NoRow.kind = "none" /\ Capture!NoRow.status = "none"
  /\ Capture!NoRequest.at = "idle" /\ Capture!NoRequest.id = 0 /\ Capture!NoRequest.body = None
  /\ Capture!NoJob.at = "idle" /\ Capture!NoJob.id = 0
  BY WebConstants DEF Capture!NoDoc, Capture!NoRow, Capture!NoRequest, Capture!NoJob, WebDoc, WebRow, WebRequest,
     WebJob, WebKinds, WebStatus, Coherent

LEMMA WebStarts == ASSUME Capture!Init PROVE WebInv
  <1>1. WebType
    BY WebEmpty, WebConstants DEF Capture!Init, WebType, WebEnv, WebWriters, Capture!Unlocked
  <1>2. /\ \A r \in Captures : req[r] = Capture!NoRequest
        /\ \A j \in WebJobs : job[j] = Capture!NoJob
        /\ \A d \in Capture!Ids : doc[d] = Capture!NoDoc /\ row[d] = Capture!NoRow /\ locks.writer[d] = None
        /\ locks.index = None /\ env.counter = 1
    BY DEF Capture!Init, Capture!Unlocked
  <1>3. Minted
    BY <1>2, WebEmpty DEF Minted, NoRowYet
  <1>4. Bodied
    <2>1. Capture!Captured = {}
      BY <1>2, WebEmpty DEF Capture!Captured
    <2> QED
      BY <1>2, <2>1, WebEmpty DEF Bodied, Storing, Capture!HoldsHash, OneDocPerBody, Capture!OneDocPerBody
  <1>5. ASSUME NEW r \in Captures PROVE RequestOf(r)
    BY <1>2, WebEmpty, WebConstants DEF RequestOf, Placed
  <1>6. ASSUME NEW j \in WebJobs PROVE JobOf(j)
    BY <1>2, WebEmpty DEF JobOf
  <1>7. ASSUME NEW d \in Capture!Ids PROVE OwnDoc(d) /\ Claimed(d)
    BY <1>2, WebEmpty, WebConstants DEF OwnDoc, Claimed, Active, Capture!InFlight
  <1> QED
    BY <1>1, <1>3, <1>4, <1>5, <1>6, <1>7 DEF WebInv

(* A step of one request or thread, or of what lies beside, about one document.  *)
Acts(a, e) ==
    /\ env'.counter >= env.counter
    /\ \A d \in Capture!Ids \ {e} :
          /\ doc'[d] = doc[d] /\ row'[d] = row[d] /\ locks'.writer[d] = locks.writer[d]
          /\ d \in env'.clobbered <=> d \in env.clobbered
          /\ d \in env'.left <=> d \in env.left
    /\ \A r \in Captures \ {a} : req'[r] = req[r]
    /\ \A j \in WebJobs \ {a} :
          \/ job'[j] = job[j]
          \/ job[j].at = "idle" /\ job'[j].at = "slot" /\ job'[j].id = e /\ e # 0 /\ e < env.counter
    /\ \A q \in (Captures \cup WebJobs) \ {a} :
          /\ locks'.index = q <=> locks.index = q
          /\ e \in Capture!Ids /\ locks.writer[e] = q => locks'.writer[e] = q
    /\ a \in Captures => /\ req'[a].id \in {0, req[a].id, e}
                         /\ req[a].at \in Claiming => req[a].id = e
                         /\ req'[a].at \in Claiming => req'[a].id = e
    /\ a \in WebJobs => job[a].id = e /\ job'[a].id \in {0, e}

(* A document whose own data, and whose claims, stay.                            *)
LEMMA Steady ==
  ASSUME WebInv, NEW d \in Capture!Ids, doc'[d] = doc[d],
         row'[d].kind = row[d].kind, row'[d].status = row[d].status,
         locks'.writer[d] = locks.writer[d], d \in env'.clobbered <=> d \in env.clobbered,
         d \in env'.left <=> d \in env.left,
         \A r \in Captures : req[r].id = d /\ req[r].at \in Claiming =>
             req'[r].id = d /\ req'[r].at = req[r].at /\ req'[r].gen = req[r].gen /\ req'[r].gone = req[r].gone,
         \A r \in Captures : req'[r].id = d /\ req'[r].at \in Claiming => req[r].id = d /\ req[r].at \in Claiming,
         \A j \in WebJobs : job[j].id = d => /\ job'[j].id = d /\ job'[j].gen = job[j].gen
                                             /\ job[j].at \in {"running", "finish", "fail"} =>
                                                    job'[j].at = job[j].at,
         \A j \in WebJobs : job'[j].id = d /\ job'[j].at \in {"saving", "finish"} =>
             job[j].id = d /\ job[j].at = job'[j].at /\ job[j].gen = job'[j].gen
  PROVE  OwnDoc(d)' /\ Claimed(d)'
  <1>1. OwnDoc(d) /\ Claimed(d)
    BY DEF WebInv
  <1>2. OwnDoc(d)'
    BY <1>1 DEF OwnDoc, Coherent, Active, Claiming, Capture!Live, Capture!Intact
  <1>3. Capture!Worked(d) => Capture!Worked(d)'
    BY DEF Capture!Worked, Claiming
  <1>4. Behind(d) => Behind(d)'
    BY DEF Behind, Claiming, Capture!GivenUp, Capture!On, Capture!Live, Capture!Intact
  <1>5. Claimed(d)'
    BY <1>1, <1>3, <1>4 DEF Claimed, Active
  <1> QED
    BY <1>2, <1>5

LEMMA WebGoesOn ==
  ASSUME WebInv, NEW a \in Captures \cup WebJobs \cup {0}, NEW e, Acts(a, e), WebType', Minted', Bodied',
         a \in Captures => RequestOf(a)', a \in WebJobs => JobOf(a)',
         e \in Capture!Ids => OwnDoc(e)' /\ Claimed(e)'
  PROVE  WebInv'
  <1>1. ASSUME NEW r \in Captures PROVE RequestOf(r)'
    <2>1. CASE r # a
      <3>1. req'[r] = req[r] /\ (locks'.index = r <=> locks.index = r) /\ RequestOf(r)
        BY <1>1, <2>1 DEF Acts, WebInv
      <3>2. req[r].id \in 0..WebIds /\ env.counter \in Nat /\ env'.counter \in Nat /\ env'.counter >= env.counter
        BY <1>1 DEF WebInv, WebType, WebRequest, WebEnv, Acts
      <3>3. req[r].at = "claim" => locks'.writer[req[r].id] = r
        BY <1>1, <2>1, <3>1, <3>2, WebConstants DEF Acts, RequestOf, Placed
      <3> QED
        BY <3>1, <3>2, <3>3 DEF RequestOf
    <2> QED
      BY <1>1, <2>1
  <1>2. ASSUME NEW j \in WebJobs PROVE JobOf(j)'
    <2>1. CASE j # a /\ job'[j] = job[j]
      <3>1. JobOf(j) /\ job[j].id \in 0..WebIds /\ env.counter \in Nat /\ env'.counter \in Nat
            /\ env'.counter >= env.counter
        BY <1>2 DEF WebInv, WebType, WebJob, WebEnv, Acts
      <3>2. job[j].at \in {"running", "saving", "finish"} => locks'.writer[job[j].id] = j
        BY <1>2, <2>1, <3>1, WebConstants DEF Acts, JobOf
      <3> QED
        BY <2>1, <3>1, <3>2 DEF JobOf
    <2>2. CASE j # a /\ job'[j] # job[j]
      <3>1. env'.counter >= env.counter /\ job'[j].at = "slot" /\ job'[j].id = e /\ e # 0 /\ e < env.counter
        BY <1>2, <2>2 DEF Acts
      <3>2. env.counter \in Nat /\ env'.counter \in Nat /\ job'[j].id \in Nat
        BY <1>2 DEF WebInv, WebType, WebEnv, WebJob
      <3> QED
        BY <3>1, <3>2 DEF JobOf
    <2> QED
      BY <1>2, <2>1, <2>2
  <1>3. ASSUME NEW d \in Capture!Ids, d # e PROVE OwnDoc(d)' /\ Claimed(d)'
    <2>1. \A r \in Captures : req[r].id = d /\ req[r].at \in Claiming =>
             req'[r].id = d /\ req'[r].at = req[r].at /\ req'[r].gen = req[r].gen /\ req'[r].gone = req[r].gone
      BY <1>3 DEF Acts
    <2>2. \A r \in Captures : req'[r].id = d /\ req'[r].at \in Claiming => req[r].id = d /\ req[r].at \in Claiming
      BY <1>3 DEF Acts
    <2>3. \A j \in WebJobs : job[j].id = d => job'[j] = job[j]
      BY <1>3, WebConstants DEF Acts, WebInv, JobOf
    <2>4. \A j \in WebJobs : job'[j].id = d => job'[j] = job[j]
      BY <1>3, WebConstants DEF Acts, WebInv, JobOf
    <2> QED
      BY <1>3, <2>1, <2>2, <2>3, <2>4, Steady DEF Acts
  <1> QED
    BY <1>1, <1>2, <1>3 DEF WebInv

(* Nothing that is minted is touched, but by the request it was minted for.      *)
InUse(e) == e < env.counter /\ \A r \in Captures : req[r].at \in {"publish", "index"} => req[r].id # e
Lone(a, e) == e < env.counter /\ \A r \in Captures \ {a} : req[r].at \in {"publish", "index"} => req[r].id # e
LEMMA MintedStays ==
  ASSUME WebInv, NEW a \in Captures \cup WebJobs \cup {0}, NEW e \in 0..WebIds, Acts(a, e), Lone(a, e),
         env'.counter = env.counter, WebType',
         a \in Captures => req'[a].at \notin {"publish", "index"}
  PROVE  Minted'
  <1>1. env.counter \in Nat /\ WebType
    BY DEF WebInv, WebType, WebEnv
  <1>2. ASSUME NEW d \in Capture!Ids, d >= env.counter PROVE NoRowYet(d)' /\ doc'[d] = Capture!NoDoc
    <2>1. d # e
      BY <1>1, <1>2, WebConstants DEF Lone
    <2> QED
      BY <1>2, <2>1 DEF WebInv, Minted, NoRowYet, Acts
  <1>3. ASSUME NEW r \in Captures, req'[r].at \in {"publish", "index"}
        PROVE  /\ req'[r] = req[r] /\ NoRowYet(req[r].id)' /\ Own(r)'
               /\ req[r].at = "publish" => doc'[req[r].id] = Capture!NoDoc
               /\ req[r].at = "index" => req[r].seen = Capture!NoDoc /\ doc'[req[r].id].gen = req[r].gen
    <2>1. req'[r] = req[r] /\ r # a
      BY <1>3 DEF Acts
    <2>2. req[r].id \in Capture!Ids /\ req[r].id # 0 /\ req[r].id # e
      BY <1>1, <1>3, <2>1, WebConstants DEF WebInv, RequestOf, Placed, Lone, WebType, WebRequest
    <2>3. NoRowYet(req[r].id) /\ Own(r)
      BY <1>3, <2>1 DEF WebInv, Minted
    <2>4. Own(r)'
      BY <2>1, <2>2, <2>3 DEF Own, Acts
    <2> QED
      BY <1>3, <2>1, <2>2, <2>3, <2>4 DEF WebInv, Minted, NoRowYet, Acts
  <1> QED
    BY <1>2, <1>3 DEF Minted

LEMMA BodiedStays ==
  ASSUME WebInv,
         \A d \in Capture!Ids : row'[d].kind = "web" =>
             row[d].kind = "web" /\ row'[d].body = row[d].body /\ row'[d].unlocked = row[d].unlocked,
         \A r \in Captures :
             \/ (req'[r].at \notin Storing \/ req'[r].force \/ req'[r].gone) /\ ~Capture!HoldsHash(r)'
             \/ /\ req'[r].body = req[r].body /\ req'[r].force = req[r].force /\ req'[r].gone = req[r].gone
                /\ Capture!HoldsHash(r)' => Capture!HoldsHash(r)
                /\ req'[r].at \in Storing => req[r].at \in Storing
  PROVE  Bodied'
  <1>1. Capture!Captured' \subseteq Capture!Captured
    BY DEF Capture!Captured
  <1>2. \A d \in Capture!Captured' : row'[d].body = row[d].body /\ row'[d].unlocked = row[d].unlocked
    BY DEF Capture!Captured
  <1>3. OneDocPerBody'
    BY <1>1, <1>2 DEF WebInv, Bodied, OneDocPerBody, Capture!OneDocPerBody
  <1>4. \A r \in Captures : req'[r].at \in Storing /\ ~req'[r].force /\ ~req'[r].gone =>
           \A d \in Capture!Captured' : row'[d].body = req'[r].body => row'[d].unlocked
    BY <1>1, <1>2 DEF WebInv, Bodied
  <1>5. \A r, q \in Captures : r # q /\ Capture!HoldsHash(r)' /\ Capture!HoldsHash(q)' =>
           req'[r].body # req'[q].body
    BY DEF WebInv, Bodied
  <1> QED
    BY <1>3, <1>4, <1>5 DEF Bodied

(* Whose document is not one that was just minted.                               *)
LEMMA ApartFromMinted ==
  ASSUME WebInv
  PROVE  /\ \A r \in Captures : req[r].at \notin {"publish", "index"} => InUse(req[r].id)
         /\ \A j \in WebJobs : InUse(job[j].id)
         /\ \A d \in Capture!Ids : row[d].kind # "none" => InUse(d)
  <1>1. \A r \in Captures : req[r].at \notin {"publish", "index"} => InUse(req[r].id)
    BY DEF WebInv, Minted, Own, InUse, RequestOf
  <1>2. \A j \in WebJobs : InUse(job[j].id)
    BY DEF WebInv, Minted, Own, InUse, JobOf
  <1>3. ASSUME NEW d \in Capture!Ids, row[d].kind # "none" PROVE InUse(d)
    <2>1. ~NoRowYet(d)
      BY <1>3, WebEmpty DEF NoRowYet
    <2>2. d \in Nat /\ env.counter \in Nat
      BY <1>3, WebConstants DEF WebInv, WebType, WebEnv
    <2> QED
      BY <1>3, <2>1, <2>2 DEF WebInv, Minted, InUse
  <1> QED
    BY <1>1, <1>2, <1>3

(* What a step about a document that is apart from those has to keep.            *)
LEMMA WebActs ==
  ASSUME WebInv, NEW a \in Captures \cup WebJobs \cup {0}, NEW e \in 0..WebIds, Acts(a, e), Lone(a, e),
         env'.counter = env.counter, WebType', Bodied',
         a \in Captures => RequestOf(a)' /\ req'[a].at \notin {"publish", "index"},
         a \in WebJobs => JobOf(a)',
         e \in Capture!Ids => OwnDoc(e)' /\ Claimed(e)'
  PROVE  WebInv'
  BY MintedStays, WebGoesOn

(* A request that looks, or that fetches the page.                               *)
LEMMA RequestOnly ==
  ASSUME WebInv, NEW r \in Captures, UNCHANGED <<doc, row, job, locks>>,
         req' \in [Captures -> WebRequest], \A q \in Captures \ {r} : req'[q] = req[q],
         env' \in WebEnv, env'.counter = env.counter, env'.clobbered = env.clobbered, env'.left = env.left,
         req[r].at \notin Claiming \cup {"merging", "publish"},
         req'[r].at \notin Claiming \cup {"merging", "publish"},
         req'[r].id = req[r].id \/ InUse(req'[r].id),
         req'[r].at \in Placed => req'[r].id # 0,
         req'[r].at \in {"hash", "mint"} => req'[r].body # None,
         req'[r].at \in {"idle", "look", "key"} => req'[r].body = None, Bodied'
  PROVE  WebInv'
  <1>1. WebType /\ env.counter \in Nat /\ req'[r].id \in 0..WebIds
    BY DEF WebInv, WebType, WebEnv, WebRequest
  <1>2. PICK e \in 0..WebIds : e = req'[r].id
    BY <1>1
  <1>3. InUse(e)
    BY <1>2, ApartFromMinted DEF Claiming
  <1>4. WebType'
    BY <1>1 DEF WebType
  <1>5. Acts(r, e)
    BY <1>1, <1>2, WebConstants DEF Acts
  <1>6. RequestOf(r)'
    BY <1>1, <1>2, <1>3 DEF WebInv, RequestOf, InUse, Claiming
  <1>7. \A d \in Capture!Ids : OwnDoc(d)' /\ Claimed(d)'
    <2>1. \A q \in Captures : req[q].at \in Claiming \/ req'[q].at \in Claiming => req'[q] = req[q]
      OBVIOUS
    <2> QED
      BY <2>1, Steady
  <1> QED
    BY <1>3, <1>4, <1>5, <1>6, <1>7, WebConstants, WebActs DEF Claiming, InUse, Lone

(* What a lookup found.                                                          *)
LEMMA LookupTakes ==
  ASSUME WebInv, NEW r \in Captures, NEW found \in SUBSET Capture!Captured,
         NEW hit \in {"reply", "merge"}, NEW miss \in {"key", "fetch", "mint"},
         Capture!Takes(r, found, hit, miss)
  PROVE  /\ req' \in [Captures -> WebRequest] /\ \A q \in Captures \ {r} : req'[q] = req[q]
         /\ req'[r].body = req[r].body /\ req'[r].force = req[r].force /\ req'[r].gone = req[r].gone
         /\ \/ found = {} /\ req'[r].at = miss /\ req'[r].id = req[r].id
            \/ /\ req'[r].at = hit /\ req'[r].id \in Capture!Ids /\ req'[r].id # 0
               /\ InUse(req'[r].id)
  <1>1. req \in [Captures -> WebRequest]
    BY DEF WebInv, WebType
  <1>2. CASE found = {} /\ Capture!Goto(r, miss)
    BY <1>1, <1>2 DEF Capture!Goto, WebRequest
  <1>3. CASE \E d \in found : req' = [req EXCEPT ![r].id = d, ![r].at = hit]
    <2>1. PICK d \in found : req' = [req EXCEPT ![r].id = d, ![r].at = hit]
      BY <1>3
    <2>2. d \in Capture!Ids /\ d \in 0..WebIds /\ d # 0 /\ InUse(d)
      BY ApartFromMinted, WebConstants DEF Capture!Captured
    <2>3. req'[r] \in WebRequest /\ req'[r].at = hit /\ req'[r].id = d /\ req'[r].body = req[r].body
          /\ req'[r].force = req[r].force /\ req'[r].gone = req[r].gone
      BY <1>1, <2>1, <2>2 DEF WebRequest
    <2>4. \A q \in Captures \ {r} : req'[q] = req[q]
      BY <1>1, <2>1
    <2>5. req' = [q \in Captures |-> req'[q]]
      BY <1>1, <2>1
    <2> QED
      BY <1>1, <2>2, <2>3, <2>4, <2>5
  <1> QED
    BY <1>2, <1>3 DEF Capture!Takes, Capture!Latest

LEMMA AskStep ==
  ASSUME WebInv, NEW r \in Captures, NEW url \in Urls, NEW force \in BOOLEAN, Capture!Ask(r, url, force)
  PROVE  WebInv'
  <1>1. /\ req[r].at = "idle" /\ UNCHANGED <<doc, row, job, locks>>
        /\ req' = [req EXCEPT ![r] = [@ EXCEPT !.at = IF force THEN "fetch" ELSE "look",
                                               !.url = url, !.force = force]]
        /\ env' = [env EXCEPT !.forced = @ + (IF force THEN 1 ELSE 0)]
    BY DEF Capture!Ask, Capture!At
  <1>2. req \in [Captures -> WebRequest] /\ env \in WebEnv
    BY DEF WebInv, WebType
  <1>3. /\ req'[r] \in WebRequest /\ req'[r].id = req[r].id /\ req'[r].body = req[r].body
        /\ req'[r].at = (IF force THEN "fetch" ELSE "look")
    <2> DEFINE x == [req[r] EXCEPT !.at = IF force THEN "fetch" ELSE "look", !.url = url, !.force = force]
    <2>1. req'[r] = x
      BY <1>1, <1>2
    <2>2. req[r] \in WebRequest
      BY <1>2
    <2>3. x \in WebRequest /\ x.id = req[r].id /\ x.body = req[r].body
          /\ x.at = (IF force THEN "fetch" ELSE "look")
      BY <2>2 DEF WebRequest
    <2> QED
      BY <2>1, <2>3
  <1>4. req' \in [Captures -> WebRequest] /\ \A q \in Captures \ {r} : req'[q] = req[q]
    BY <1>1, <1>2, <1>3
  <1>5. env' \in WebEnv /\ env'.counter = env.counter /\ env'.clobbered = env.clobbered
        /\ env'.left = env.left
    BY <1>1, <1>2 DEF WebEnv
  <1>6. Bodied'
    BY <1>1, <1>3, <1>4, BodiedStays DEF Storing, Capture!HoldsHash, WebInv, RequestOf
  <1> QED
    BY <1>1, <1>3, <1>4, <1>5, <1>6, RequestOnly DEF Claiming, Placed, WebInv, RequestOf

LEMMA LookStep == ASSUME WebInv, NEW r \in Captures, Capture!Look(r) \/ Capture!LockKey(r) PROVE WebInv'
  <1>1. /\ req[r].at \in {"look", "key"} /\ UNCHANGED <<doc, row, job, locks, env>>
        /\ \E miss \in {"key", "fetch"} : Capture!Takes(r, Capture!CachedFor(req[r].url), "reply", miss)
    BY DEF Capture!Look, Capture!LockKey, Capture!At
  <1>2. Capture!CachedFor(req[r].url) \subseteq Capture!Captured
    BY DEF Capture!CachedFor
  <1>3. /\ req' \in [Captures -> WebRequest] /\ \A q \in Captures \ {r} : req'[q] = req[q]
        /\ req'[r].body = req[r].body /\ req'[r].force = req[r].force /\ req'[r].gone = req[r].gone
        /\ \/ req'[r].at \in {"key", "fetch"} /\ req'[r].id = req[r].id
           \/ req'[r].at = "reply" /\ req'[r].id \in Capture!Ids /\ req'[r].id # 0 /\ InUse(req'[r].id)
    BY <1>1, <1>2, LookupTakes
  <1>4. Bodied'
    BY <1>1, <1>3, BodiedStays DEF Storing, Capture!HoldsHash
  <1>5. env' \in WebEnv
    BY <1>1 DEF WebInv, WebType
  <1> QED
    BY <1>1, <1>3, <1>4, <1>5, RequestOnly DEF Claiming, Placed, WebInv, RequestOf

(* A request that ends has no id.                                                *)
LEMMA NoneInUse == ASSUME WebInv, NEW r \in Captures PROVE InUse(0) /\ 0 \in 0..WebIds
  <1>1. env.counter \in Nat /\ req[r].id \in 0..WebIds /\ req[r].id < env.counter
    BY DEF WebInv, WebType, WebEnv, WebRequest, RequestOf
  <1>2. \A q \in Captures : req[q].at \in {"publish", "index"} => req[q].id # 0
    BY DEF WebInv, RequestOf, Placed
  <1> QED
    BY <1>1, <1>2, WebConstants DEF InUse

LEMMA WebEnds ==
  ASSUME WebInv, NEW r \in Captures, Capture!Ends(r)
  PROVE  /\ req' \in [Captures -> WebRequest] /\ \A q \in Captures \ {r} : req'[q] = req[q]
         /\ req'[r].at = "done" /\ req'[r].id = 0 /\ req'[r].body = None
  <1>1. req \in [Captures -> WebRequest] /\ req' = [req EXCEPT ![r] = [Capture!NoRequest EXCEPT !.at = "done"]]
    BY DEF WebInv, WebType, Capture!Ends
  <1> DEFINE x == [Capture!NoRequest EXCEPT !.at = "done"]
  <1>2. x \in WebRequest /\ x.at = "done" /\ x.id = 0 /\ x.body = None
    BY WebEmpty DEF WebRequest, Capture!NoRequest
  <1>3. req' = [req EXCEPT ![r] = x]
    BY <1>1
  <1> HIDE DEF x
  <1> QED
    BY <1>1, <1>2, <1>3

LEMMA WebGoto ==
  ASSUME WebInv, NEW r \in Captures, NEW a \in {"key", "fetch", "merge", "reply", "mint", "schedule"},
         Capture!Goto(r, a)
  PROVE  /\ req' \in [Captures -> WebRequest] /\ \A q \in Captures \ {r} : req'[q] = req[q]
         /\ req'[r].at = a /\ req'[r].id = req[r].id /\ req'[r].body = req[r].body /\ req'[r].gen = req[r].gen
         /\ req'[r].force = req[r].force /\ req'[r].gone = req[r].gone
  BY DEF WebInv, WebType, Capture!Goto, WebRequest

LEMMA FetchStep == ASSUME WebInv, NEW r \in Captures, Capture!Fetch(r) PROVE WebInv'
  <1>1. req[r].at = "fetch" /\ UNCHANGED <<doc, row, job, locks, env>>
    BY DEF Capture!Fetch, Capture!At
  <1>2. req \in [Captures -> WebRequest] /\ env \in WebEnv
    BY DEF WebInv, WebType
  <1>3. CASE Capture!Ends(r)
    <2>1. Bodied'
      BY <1>1, <1>3, WebEnds, BodiedStays DEF Capture!HoldsHash, Storing
    <2> QED
      BY <1>1, <1>2, <1>3, <2>1, WebEnds, NoneInUse, RequestOnly DEF Claiming, Placed
  <1>4. CASE \E body \in Bodies : req' = [req EXCEPT ![r].body = body,
                                            ![r].at = IF req[r].force THEN "mint" ELSE "hash"]
    <2>1. PICK body \in Bodies : req' = [req EXCEPT ![r].body = body,
                                                     ![r].at = IF req[r].force THEN "mint" ELSE "hash"]
      BY <1>4
    <2>2. /\ req' \in [Captures -> WebRequest] /\ \A q \in Captures \ {r} : req'[q] = req[q]
          /\ req'[r].at = (IF req[r].force THEN "mint" ELSE "hash") /\ req'[r].id = req[r].id
          /\ req'[r].body = body /\ req'[r].force = req[r].force /\ req'[r].gone = req[r].gone
      <3> DEFINE a == IF req[r].force THEN "mint" ELSE "hash"
      <3>1. a \in {"mint", "hash"} /\ req' = [req EXCEPT ![r].body = body, ![r].at = a]
        BY <2>1
      <3> HIDE DEF a
      <3>2. /\ req' \in [Captures -> WebRequest] /\ \A q \in Captures \ {r} : req'[q] = req[q]
            /\ req'[r].at = a /\ req'[r].id = req[r].id
            /\ req'[r].body = body /\ req'[r].force = req[r].force /\ req'[r].gone = req[r].gone
        <4>1. req \in [Captures -> WebRequest] /\ body \in Bodies \cup {None}
              /\ req[r] \in WebRequest /\ req'[r] = [req[r] EXCEPT !.body = body, !.at = a]
          BY <1>2, <3>1
        <4>2. /\ req'[r] \in WebRequest /\ req'[r].at = a /\ req'[r].id = req[r].id
              /\ req'[r].body = body /\ req'[r].force = req[r].force /\ req'[r].gone = req[r].gone
          <5>1. /\ [req[r] EXCEPT !.body = body, !.at = a] \in WebRequest
                /\ [req[r] EXCEPT !.body = body, !.at = a].at = a
            BY <3>1, <4>1 DEF WebRequest
          <5> QED
            BY <4>1, <5>1 DEF WebRequest
        <4>3. req' = [q \in Captures |-> req'[q]] /\ \A q \in Captures \ {r} : req'[q] = req[q]
          BY <3>1, <4>1
        <4> QED
          BY <4>1, <4>2, <4>3
      <3> QED
        BY <3>2 DEF a
    <2>3. Bodied'
      BY <1>1, <2>2, BodiedStays DEF Capture!HoldsHash, Storing
    <2> QED
      BY <1>1, <1>2, <2>2, <2>3, WebConstants, RequestOnly DEF Claiming, Placed
  <1> QED
    BY <1>3, <1>4 DEF Capture!Fetch

LEMMA LockHashStep == ASSUME WebInv, NEW r \in Captures, Capture!LockHash(r) PROVE WebInv'
  <1>1. /\ req[r].at = "hash" /\ UNCHANGED <<doc, row, job, locks, env>>
        /\ \A q \in Captures \ {r} : Capture!HoldsHash(q) => req[q].body # req[r].body
        /\ Capture!Takes(r, Capture!SameBody(req[r].body), "merge", "mint")
    BY DEF Capture!LockHash, Capture!At
  <1>2. Capture!SameBody(req[r].body) \subseteq Capture!Captured
    BY DEF Capture!SameBody
  <1>3. /\ req' \in [Captures -> WebRequest] /\ \A q \in Captures \ {r} : req'[q] = req[q]
        /\ req'[r].body = req[r].body /\ req'[r].force = req[r].force /\ req'[r].gone = req[r].gone
        /\ \/ Capture!SameBody(req[r].body) = {} /\ req'[r].at = "mint" /\ req'[r].id = req[r].id
           \/ req'[r].at = "merge" /\ req'[r].id \in Capture!Ids /\ req'[r].id # 0 /\ InUse(req'[r].id)
    BY <1>1, <1>2, LookupTakes
  <1>4. Bodied'
    <2>1. Capture!Captured' = Capture!Captured
      BY <1>1 DEF Capture!Captured
    <2>2. OneDocPerBody'
      BY <1>1, <2>1 DEF WebInv, Bodied, OneDocPerBody, Capture!OneDocPerBody
    <2>3. ASSUME NEW q \in Captures, req'[q].at \in Storing, ~req'[q].force, ~req'[q].gone,
                 NEW d \in Capture!Captured', row'[d].body = req'[q].body
          PROVE  row'[d].unlocked
      BY <1>1, <1>3, <2>1, <2>3 DEF WebInv, Bodied, Storing, Capture!SameBody
    <2>4. ASSUME NEW p \in Captures, NEW q \in Captures, p # q, Capture!HoldsHash(p)', Capture!HoldsHash(q)'
          PROVE  req'[p].body # req'[q].body
      <3>1. CASE p # r /\ q # r
        BY <1>3, <2>4, <3>1 DEF WebInv, Bodied, Capture!HoldsHash
      <3>2. CASE p = r
        BY <1>1, <1>3, <2>4, <3>2 DEF Capture!HoldsHash
      <3>3. CASE q = r
        BY <1>1, <1>3, <2>4, <3>3 DEF Capture!HoldsHash
      <3> QED
        BY <3>1, <3>2, <3>3
    <2> QED
      BY <2>2, <2>3, <2>4 DEF Bodied
  <1>5. req[r].body # None /\ env \in WebEnv
    BY <1>1 DEF WebInv, RequestOf, WebType
  <1> QED
    BY <1>1, <1>3, <1>4, <1>5, RequestOnly DEF Claiming, Placed

(* What the writes of a manifest, of a row and of a writer lock leave alone.     *)
LEMMA WebSets ==
  ASSUME WebInv, NEW e \in Capture!Ids, NEW s \in WebStatus, Capture!SetManifest(e, s)
  PROVE  /\ doc' \in [Capture!Ids -> WebDoc] /\ \A d \in Capture!Ids \ {e} : doc'[d] = doc[d]
         /\ doc'[e].status = s /\ doc'[e].kind = doc[e].kind /\ doc'[e].gen = doc[e].gen
         /\ doc'[e].text = doc[e].text /\ doc'[e].digest = doc[e].digest
  BY DEF WebInv, WebType, WebDoc, Capture!SetManifest

LEMMA WebSetsRow ==
  ASSUME WebInv, NEW e \in Capture!Ids, NEW s \in WebStatus, Capture!SetRow(e, s)
  PROVE  /\ row' \in [Capture!Ids -> WebRow] /\ \A d \in Capture!Ids \ {e} : row'[d] = row[d]
         /\ row'[e].kind = row[e].kind /\ row'[e].body = row[e].body /\ row'[e].unlocked = row[e].unlocked
         /\ row'[e].kind = "none" \/ row'[e].status = s
  BY DEF WebInv, WebType, WebRow, Capture!SetRow

LEMMA WebLocks ==
  ASSUME WebInv, NEW e \in Capture!Ids, NEW a \in WebWriters, locks' = [locks EXCEPT !.writer[e] = a]
  PROVE  /\ locks' \in [writer : [Capture!Ids -> WebWriters], index : Captures \cup {None}]
         /\ locks'.index = locks.index /\ locks'.writer[e] = a
         /\ \A d \in Capture!Ids \ {e} : locks'.writer[d] = locks.writer[d]
  BY DEF WebInv, WebType

LEMMA WebLocksIndex ==
  ASSUME WebInv, NEW a \in Captures \cup {None}, locks' = [locks EXCEPT !.index = a]
  PROVE  /\ locks' \in [writer : [Capture!Ids -> WebWriters], index : Captures \cup {None}]
         /\ locks'.index = a /\ locks'.writer = locks.writer
  BY DEF WebInv, WebType

LEMMA WebFaultLeaves ==
  ASSUME WebInv, NEW S \in SUBSET Capture!Ids, Capture!FaultLeaves(S)
  PROVE  /\ env' \in WebEnv /\ env'.counter = env.counter /\ env'.clobbered = env.clobbered
         /\ env'.left = env.left \cup S
  <1> DEFINE x == env.faults + 1
             y == env.left \cup S
  <1>1. env' = [env EXCEPT !.faults = x, !.left = y] /\ env \in WebEnv
    BY DEF Capture!FaultLeaves, WebInv, WebType
  <1>2. x \in Nat /\ y \in SUBSET Capture!Ids
    BY <1>1 DEF WebEnv
  <1> HIDE DEF x, y
  <1>3. env' \in WebEnv /\ env'.counter = env.counter /\ env'.clobbered = env.clobbered /\ env'.left = y
    BY <1>1, <1>2 DEF WebEnv
  <1> QED
    BY <1>3 DEF y

LEMMA WebFault ==
  ASSUME WebInv, Capture!Fault
  PROVE  /\ env' \in WebEnv /\ env'.counter = env.counter /\ env'.clobbered = env.clobbered
         /\ env'.left = env.left
  <1>1. Capture!FaultLeaves({}) /\ {} \in SUBSET Capture!Ids
    BY DEF Capture!Fault
  <1> QED
    BY <1>1, WebFaultLeaves

(* A document that keeps its texts, and its kind.                                *)
LEMMA OwnKeeps ==
  ASSUME WebInv, NEW d \in Capture!Ids, d \in env.clobbered => d \in env'.clobbered,
         doc'[d].kind = doc[d].kind, doc'[d].gen = doc[d].gen, doc'[d].text = doc[d].text,
         doc'[d].digest = doc[d].digest \/ doc'[d].digest = doc[d].text,
         Active(d)' => Active(d) \/ doc[d].kind = "web",
         locks'.writer[d] # Capture!Upload \/ locks'.writer[d] = locks.writer[d],
         \A r \in Captures : req'[r].id = d /\ req'[r].at \in {"claim", "schedule"} =>
             \/ doc[d].gen = req'[r].gen
             \/ req[r].id = d /\ req[r].at = req'[r].at /\ req[r].gen = req'[r].gen,
         \A j \in WebJobs : job'[j].id = d /\ job'[j].at \in {"saving", "finish"} =>
             /\ job[j].id = d /\ job[j].gen = job'[j].gen
             /\ job[j].at \in {"saving", "finish"} \/ Capture!Live(j)
  PROVE  OwnDoc(d)'
  <1>1. OwnDoc(d)
    BY DEF WebInv
  <1>2. SUFFICES ASSUME d \notin env'.clobbered PROVE OwnDoc(d)'
    BY DEF OwnDoc
  <1>3. /\ Coherent(doc'[d])
        /\ Active(d)' => doc'[d].kind = "web"
        /\ locks'.writer[d] = Capture!Upload => doc'[d].kind = "upload"
    BY <1>1, <1>2 DEF OwnDoc, Coherent, Active
  <1>4. ASSUME NEW r \in Captures, req'[r].id = d
        PROVE  /\ req'[r].at = "claim" => doc'[d].gen = req'[r].gen
               /\ req'[r].at = "schedule" => doc'[d].gen = req'[r].gen \/ doc'[d].kind # "web"
    BY <1>1, <1>2, <1>4 DEF OwnDoc
  <1>5. ASSUME NEW j \in WebJobs, job'[j].id = d, job'[j].at \in {"saving", "finish"} PROVE Capture!Live(j)'
    BY <1>1, <1>2, <1>5 DEF OwnDoc, Capture!Live, Capture!Intact
  <1> QED
    BY <1>3, <1>4, <1>5 DEF OwnDoc

(* A request that names a document which is in use.                              *)
LEMMA WebPlaced ==
  ASSUME WebInv, NEW r \in Captures, req[r].at \in Placed \ {"publish", "index"}
  PROVE  /\ WebType /\ env \in WebEnv /\ req[r].id \in Capture!Ids /\ InUse(req[r].id)
         /\ req[r].at = "merging" => locks.index = r
         /\ req[r].at = "claim" => locks.writer[req[r].id] = r
  <1>1. WebType /\ env \in WebEnv /\ req[r] \in WebRequest /\ RequestOf(r)
    BY DEF WebInv, WebType
  <1>2. req[r].id \in Capture!Ids
    BY <1>1, WebConstants DEF WebRequest, RequestOf
  <1>3. InUse(req[r].id)
    BY ApartFromMinted
  <1> QED
    BY <1>1, <1>2, <1>3 DEF RequestOf

LEMMA MergeReadStep == ASSUME WebInv, NEW r \in Captures, Capture!MergeRead(r) PROVE WebInv'
  <1>1. req[r].at = "merge" /\ locks.index = None /\ UNCHANGED <<doc, row, job, env>>
    BY DEF Capture!MergeRead, Capture!At, Capture!Index
  <1>2. WebType /\ env \in WebEnv /\ req[r].id \in Capture!Ids /\ InUse(req[r].id)
    BY <1>1, WebPlaced DEF Placed
  <1>3. CASE Capture!Merged(r) /\ UNCHANGED locks
    <2>1. CASE Capture!Goto(r, "reply")
      <3>1. Bodied'
        BY <1>1, <2>1, WebGoto, BodiedStays DEF Storing, Capture!HoldsHash
      <3> QED
        BY <1>1, <1>2, <1>3, <2>1, <3>1, WebGoto, WebConstants, RequestOnly DEF Claiming, Placed
    <2>2. CASE Capture!Ends(r)
      <3>1. Bodied'
        BY <1>1, <2>2, WebEnds, BodiedStays DEF Storing, Capture!HoldsHash
      <3> QED
        BY <1>1, <1>2, <1>3, <2>2, <3>1, WebEnds, NoneInUse, RequestOnly DEF Claiming, Placed
    <2> QED
      BY <1>3, <2>1, <2>2 DEF Capture!Merged
  <1>4. CASE /\ req' = [req EXCEPT ![r].at = "merging", ![r].seen = doc[req[r].id]]
             /\ locks' = [locks EXCEPT !.index = r]
    <2>1. /\ req' \in [Captures -> WebRequest] /\ \A q \in Captures \ {r} : req'[q] = req[q]
          /\ req'[r].at = "merging" /\ req'[r].id = req[r].id /\ req'[r].body = req[r].body
          /\ req'[r].force = req[r].force /\ req'[r].gone = req[r].gone
      <3>1. /\ req \in [Captures -> WebRequest] /\ doc[req[r].id] \in WebDoc /\ req[r] \in WebRequest
            /\ req'[r] = [req[r] EXCEPT !.at = "merging", !.seen = doc[req[r].id]]
        BY <1>2, <1>4 DEF WebType
      <3>2. /\ req'[r] \in WebRequest /\ req'[r].at = "merging" /\ req'[r].id = req[r].id
            /\ req'[r].body = req[r].body /\ req'[r].force = req[r].force /\ req'[r].gone = req[r].gone
        <4>1. /\ [req[r] EXCEPT !.at = "merging", !.seen = doc[req[r].id]] \in WebRequest
              /\ [req[r] EXCEPT !.at = "merging", !.seen = doc[req[r].id]].at = "merging"
          BY <3>1 DEF WebRequest
        <4> QED
          BY <3>1, <4>1 DEF WebRequest
      <3>3. req' = [q \in Captures |-> req'[q]] /\ \A q \in Captures \ {r} : req'[q] = req[q]
        BY <1>4, <3>1
      <3> QED
        BY <3>1, <3>2, <3>3
    <2>2. /\ locks' \in [writer : [Capture!Ids -> WebWriters], index : Captures \cup {None}]
          /\ locks'.index = r /\ locks'.writer = locks.writer
      BY <1>4, WebLocksIndex
    <2>3. PICK e \in Capture!Ids : e = req[r].id
      BY <1>2
    <2>4. Acts(r, e)
      BY <1>1, <1>2, <2>1, <2>2, <2>3, WebConstants DEF Acts, WebType, WebEnv, Claiming
    <2>5. WebType'
      BY <1>1, <1>2, <2>1, <2>2 DEF WebType
    <2>6. Bodied'
      BY <1>1, <2>1, BodiedStays DEF Storing, Capture!HoldsHash
    <2>7. RequestOf(r)'
      BY <1>1, <1>2, <2>1, <2>2, WebConstants DEF WebInv, RequestOf, Placed
    <2>8. OwnDoc(e)' /\ Claimed(e)'
      BY <1>1, <2>1, <2>2, Steady DEF Claiming
    <2> QED
      BY <1>1, <1>2, <2>1, <2>3, <2>4, <2>5, <2>6, <2>7, <2>8, WebConstants, WebActs DEF InUse, Lone
  <1> QED
    BY <1>3, <1>4 DEF Capture!MergeRead

(* A document a merge has put back is left out of what the others are.           *)
LEMMA MergeWriteStep == ASSUME WebInv, NEW r \in Captures, Capture!MergeWrite(r) PROVE WebInv'
  <1>1. req[r].at = "merging" /\ Capture!Merged(r) /\ UNCHANGED <<row, job>>
        /\ locks' = [locks EXCEPT !.index = None]
    BY DEF Capture!MergeWrite, Capture!At
  <1>2. WebType /\ env \in WebEnv /\ req[r].id \in Capture!Ids /\ InUse(req[r].id) /\ locks.index = r
    BY <1>1, WebPlaced DEF Placed
  <1>3. PICK e \in Capture!Ids : e = req[r].id
    BY <1>2
  <1>4. /\ req' \in [Captures -> WebRequest] /\ \A q \in Captures \ {r} : req'[q] = req[q]
        /\ \/ /\ req'[r].at = "reply" /\ req'[r].id = e /\ req'[r].body = req[r].body
              /\ req'[r].force = req[r].force /\ req'[r].gone = req[r].gone
           \/ req'[r].at = "done" /\ req'[r].id = 0 /\ req'[r].body = None
    BY <1>1, <1>3, WebGoto, WebEnds DEF Capture!Merged
  <1>5. /\ locks' \in [writer : [Capture!Ids -> WebWriters], index : Captures \cup {None}]
        /\ locks'.index = None /\ locks'.writer = locks.writer
    BY <1>1, WebLocksIndex
  <1>6. /\ doc' \in [Capture!Ids -> WebDoc] /\ \A d \in Capture!Ids \ {e} : doc'[d] = doc[d]
        /\ env' \in WebEnv /\ env'.counter = env.counter /\ env'.left = env.left
        /\ env'.clobbered = env.clobbered \/ env'.clobbered = env.clobbered \cup {e}
        /\ e \in env'.clobbered \/ (doc'[e] = doc[e] /\ env'.clobbered = env.clobbered)
    <2> DEFINE seen == req[r].seen
               merged == [doc[e] EXCEPT !.kind = seen.kind, !.gen = seen.gen, !.status = seen.status]
               writes == seen.kind # "none" /\ doc[e].kind # "none"
    <2>1. /\ doc' = IF writes THEN [doc EXCEPT ![e] = merged] ELSE doc
          /\ env' = IF writes /\ merged # doc[e] THEN [env EXCEPT !.clobbered = @ \cup {e}] ELSE env
      BY <1>3 DEF Capture!MergeWrite
    <2>2. merged \in WebDoc
      <3>1. doc[e] \in WebDoc /\ seen \in WebDoc
        BY <1>2 DEF WebType, WebRequest
      <3> HIDE DEF seen
      <3> QED
        BY <3>1 DEF WebDoc
    <2>3. doc \in [Capture!Ids -> WebDoc]
      BY <1>2 DEF WebType
    <2> HIDE DEF merged, writes
    <2>4. doc' \in [Capture!Ids -> WebDoc] /\ \A d \in Capture!Ids \ {e} : doc'[d] = doc[d]
      BY <2>1, <2>2, <2>3
    <2>5. doc'[e] = (IF writes THEN merged ELSE doc[e])
      BY <2>1, <2>3
    <2>6. env' \in WebEnv /\ env'.counter = env.counter /\ env'.left = env.left
      BY <1>2, <2>1 DEF WebEnv
    <2>9. env'.clobbered = IF writes /\ merged # doc[e] THEN env.clobbered \cup {e} ELSE env.clobbered
      BY <1>2, <2>1 DEF WebEnv
    <2>7. CASE writes /\ merged # doc[e]
      <3>1. env'.clobbered = env.clobbered \cup {e}
        BY <2>7, <2>9
      <3>2. e \in env'.clobbered
        BY <3>1
      <3> QED
        BY <2>4, <2>6, <3>1, <3>2
    <2>8. CASE ~(writes /\ merged # doc[e])
      BY <2>4, <2>5, <2>6, <2>8, <2>9
    <2> QED
      BY <2>7, <2>8
  <1>7. Acts(r, e)
    BY <1>1, <1>2, <1>3, <1>4, <1>5, <1>6, WebConstants DEF Acts, WebType, WebEnv, Claiming
  <1>8. WebType'
    BY <1>1, <1>2, <1>4, <1>5, <1>6 DEF WebType
  <1>9. Bodied'
    BY <1>1, <1>4, BodiedStays DEF Storing, Capture!HoldsHash
  <1>10. RequestOf(r)'
    BY <1>1, <1>2, <1>3, <1>4, <1>5, <1>6, NoneInUse, WebConstants DEF WebInv, RequestOf, Placed, InUse
  <1>11. OwnDoc(e)' /\ Claimed(e)'
    <2>1. CASE e \in env'.clobbered
      BY <2>1 DEF OwnDoc, Claimed
    <2>2. CASE doc'[e] = doc[e] /\ env'.clobbered = env.clobbered
      BY <1>1, <1>4, <1>5, <1>6, <2>2, Steady DEF Claiming
    <2> QED
      BY <1>6, <2>1, <2>2
  <1> QED
    BY <1>1, <1>2, <1>3, <1>4, <1>6, <1>7, <1>8, <1>9, <1>10, <1>11, WebConstants, WebActs DEF InUse, Lone

LEMMA ClaimStep == ASSUME WebInv, NEW r \in Captures, Capture!Claim(r) PROVE WebInv'
  <1>1. req[r].at = "reply" /\ locks.writer[req[r].id] = None /\ UNCHANGED <<row, job, env>>
    BY DEF Capture!Claim, Capture!At, Capture!Writer
  <1>2. WebType /\ env \in WebEnv /\ req[r].id \in Capture!Ids /\ InUse(req[r].id)
    BY <1>1, WebPlaced DEF Placed
  <1>3. PICK e \in Capture!Ids : e = req[r].id
    BY <1>2
  <1>4. CASE Capture!Ends(r) /\ UNCHANGED <<doc, locks>>
    <2>1. Bodied'
      BY <1>1, <1>4, WebEnds, BodiedStays DEF Capture!HoldsHash, Storing
    <2> QED
      BY <1>1, <1>2, <1>4, <2>1, WebEnds, NoneInUse, RequestOnly DEF Claiming, Placed
  <1>5. CASE /\ doc[e].kind = "web" /\ req' = [req EXCEPT ![r].at = "claim", ![r].gen = doc[e].gen]
             /\ Capture!SetManifest(e, "pending") /\ locks' = [locks EXCEPT !.writer[e] = r]
    <2>1. /\ req' \in [Captures -> WebRequest] /\ \A q \in Captures \ {r} : req'[q] = req[q]
          /\ req'[r].at = "claim" /\ req'[r].id = e /\ req'[r].body = req[r].body
          /\ req'[r].force = req[r].force /\ req'[r].gone = req[r].gone /\ req'[r].gen = doc[e].gen
      <3>1. /\ req \in [Captures -> WebRequest] /\ doc[e].gen \in Nat /\ req[r] \in WebRequest
            /\ req'[r] = [req[r] EXCEPT !.at = "claim", !.gen = doc[e].gen]
        BY <1>2, <1>5 DEF WebType, WebDoc
      <3>2. /\ req'[r] \in WebRequest /\ req'[r].at = "claim" /\ req'[r].id = e /\ req'[r].body = req[r].body
            /\ req'[r].force = req[r].force /\ req'[r].gone = req[r].gone /\ req'[r].gen = doc[e].gen
        <4>1. /\ [req[r] EXCEPT !.at = "claim", !.gen = doc[e].gen] \in WebRequest
              /\ [req[r] EXCEPT !.at = "claim", !.gen = doc[e].gen].at = "claim"
          BY <3>1 DEF WebRequest
        <4> QED
          BY <1>3, <3>1, <4>1 DEF WebRequest
      <3>3. req' = [q \in Captures |-> req'[q]] /\ \A q \in Captures \ {r} : req'[q] = req[q]
        BY <1>5, <3>1
      <3> QED
        BY <3>1, <3>2, <3>3
    <2>2. /\ locks' \in [writer : [Capture!Ids -> WebWriters], index : Captures \cup {None}]
          /\ locks'.index = locks.index /\ locks'.writer[e] = r
          /\ \A d \in Capture!Ids \ {e} : locks'.writer[d] = locks.writer[d]
      BY <1>5, WebLocks DEF WebWriters
    <2>3. /\ doc' \in [Capture!Ids -> WebDoc] /\ \A d \in Capture!Ids \ {e} : doc'[d] = doc[d]
          /\ doc'[e].status = "pending" /\ doc'[e].kind = doc[e].kind /\ doc'[e].gen = doc[e].gen
          /\ doc'[e].text = doc[e].text /\ doc'[e].digest = doc[e].digest
      BY <1>5, WebSets DEF WebStatus
    <2>4. Acts(r, e)
      <3>1. locks.writer[e] = None /\ job' = job /\ env' = env /\ row' = row /\ env.counter \in Nat
        BY <1>1, <1>2, <1>3 DEF WebEnv
      <3> QED
        BY <1>3, <2>1, <2>2, <2>3, <3>1, WebConstants DEF Acts
    <2>5. WebType'
      BY <1>1, <1>2, <2>1, <2>2, <2>3 DEF WebType
    <2>6. Bodied'
      BY <1>1, <2>1, BodiedStays DEF Storing, Capture!HoldsHash
    <2>7. RequestOf(r)'
      BY <1>1, <1>2, <1>3, <2>1, <2>2, WebConstants DEF WebInv, RequestOf, Placed
    <2>8. OwnDoc(e)'
      <3>1. \A q \in Captures : req'[q].id = e /\ req'[q].at \in {"claim", "schedule"} =>
               \/ doc[e].gen = req'[q].gen
               \/ req[q].id = e /\ req[q].at = req'[q].at /\ req[q].gen = req'[q].gen
        BY <2>1
      <3>2. e \in env.clobbered => e \in env'.clobbered
        BY <1>1
      <3>3. locks'.writer[e] # Capture!Upload
        BY <2>2, WebConstants
      <3>4. job' = job
        BY <1>1
      <3> QED
        BY <1>5, <2>3, <3>1, <3>2, <3>3, <3>4, OwnKeeps
    <2>9. Claimed(e)'
      BY <2>1 DEF Claimed, Behind, Capture!Worked
    <2> QED
      BY <1>1, <1>2, <1>3, <2>1, <2>4, <2>5, <2>6, <2>7, <2>8, <2>9, WebConstants, WebActs DEF InUse, Lone
  <1> QED
    BY <1>3, <1>4, <1>5 DEF Capture!Claim

LEMMA WebStart ==
  ASSUME WebInv, NEW r \in Captures, req[r].id # 0, Capture!Starts(r)
  PROVE  /\ job' \in [WebJobs -> WebJob]
         /\ \E j \in WebJobs : /\ job[j].at = "idle" /\ job'[j].at = "slot" /\ job'[j].id = req[r].id
                               /\ job'[j].gen = req[r].gen /\ \A i \in WebJobs \ {j} : job'[i] = job[i]
  <1>1. PICK j \in WebJobs : /\ job[j].at = "idle"
                             /\ job' = [job EXCEPT ![j] = [at |-> "slot", id |-> req[r].id, gen |-> req[r].gen]]
    BY DEF Capture!Starts
  <1>2. job \in [WebJobs -> WebJob] /\ req[r] \in WebRequest
    BY DEF WebInv, WebType
  <1>3. [at |-> "slot", id |-> req[r].id, gen |-> req[r].gen] \in WebJob
    BY <1>2 DEF WebRequest, WebJob
  <1> QED
    BY <1>1, <1>2, <1>3

(* A claim is handed to a thread, or is left.                                    *)
Handed(r, e) ==
    /\ job' \in [WebJobs -> WebJob] /\ env' \in WebEnv
    /\ env'.counter = env.counter /\ env'.clobbered = env.clobbered
    /\ \A d \in Capture!Ids \ {e} : d \in env'.left <=> d \in env.left
    /\ \/ \E j \in WebJobs : /\ job[j].at = "idle" /\ job'[j].at = "slot" /\ job'[j].id = e
                              /\ job'[j].gen = req[r].gen /\ \A i \in WebJobs \ {j} : job'[i] = job[i]
       \/ job' = job /\ e \in env'.left
LEMMA WebHands ==
  ASSUME WebInv, NEW r \in Captures, NEW e \in Capture!Ids, e = req[r].id,
         (Capture!Starts(r) /\ UNCHANGED env) \/ Capture!StartFails(r)
  PROVE  Handed(r, e)
  <1>1. job \in [WebJobs -> WebJob] /\ env \in WebEnv
    BY DEF WebInv, WebType
  <1>2. CASE Capture!Starts(r) /\ UNCHANGED env
    BY <1>1, <1>2, WebStart, WebConstants DEF Handed
  <1>3. CASE Capture!StartFails(r)
    <2>1. Capture!FaultLeaves({e}) /\ job' = job /\ {e} \in SUBSET Capture!Ids
      BY <1>3 DEF Capture!StartFails
    <2> QED
      BY <1>1, <2>1, WebFaultLeaves DEF Handed
  <1> QED
    BY <1>2, <1>3

LEMMA ClaimRowStep == ASSUME WebInv, NEW r \in Captures, Capture!ClaimRow(r) PROVE WebInv'
  <1>1. /\ req[r].at = "claim" /\ Capture!Ends(r) /\ UNCHANGED doc
        /\ (Capture!Starts(r) /\ UNCHANGED env) \/ Capture!StartFails(r)
        /\ Capture!SetRow(req[r].id, "pending") /\ locks' = [locks EXCEPT !.writer[req[r].id] = None]
    BY DEF Capture!ClaimRow, Capture!At
  <1>2. WebType /\ env \in WebEnv /\ req[r].id \in Capture!Ids /\ InUse(req[r].id) /\ locks.writer[req[r].id] = r
    BY <1>1, WebPlaced DEF Placed
  <1>3. PICK e \in Capture!Ids : e = req[r].id
    BY <1>2
  <1>4. /\ req' \in [Captures -> WebRequest] /\ \A q \in Captures \ {r} : req'[q] = req[q]
        /\ req'[r].at = "done" /\ req'[r].id = 0 /\ req'[r].body = None
    BY <1>1, WebEnds
  <1>5. /\ locks' \in [writer : [Capture!Ids -> WebWriters], index : Captures \cup {None}]
        /\ locks'.index = locks.index /\ locks'.writer[e] = None
        /\ \A d \in Capture!Ids \ {e} : locks'.writer[d] = locks.writer[d]
    BY <1>1, <1>3, WebLocks DEF WebWriters
  <1>6. /\ row' \in [Capture!Ids -> WebRow] /\ \A d \in Capture!Ids \ {e} : row'[d] = row[d]
        /\ row'[e].kind = row[e].kind /\ row'[e].body = row[e].body /\ row'[e].unlocked = row[e].unlocked
        /\ row'[e].kind = "none" \/ row'[e].status = "pending"
    BY <1>1, <1>3, WebSetsRow DEF WebStatus
  <1>7. Handed(r, e)
    BY <1>1, <1>2, <1>3, WebHands
  <1>8. Acts(r, e)
    <2>1. env.counter \in Nat /\ e < env.counter /\ e # 0
      BY <1>2, <1>3, WebConstants DEF InUse, WebEnv
    <2> QED
      BY <1>1, <1>2, <1>3, <1>4, <1>5, <1>6, <1>7, <2>1, WebConstants DEF Acts, Claiming, Handed
  <1>9. WebType'
    BY <1>1, <1>2, <1>4, <1>5, <1>6, <1>7 DEF WebType, Handed
  <1>10. Bodied'
    BY <1>1, <1>4, <1>6, BodiedStays DEF Storing, Capture!HoldsHash
  <1>11. RequestOf(r)'
    BY <1>1, <1>2, <1>3, <1>4, <1>5, <1>7, NoneInUse, WebConstants
       DEF WebInv, RequestOf, Placed, InUse, Handed
  <1>12. OwnDoc(e)'
    <2>1. \A q \in Captures : req'[q].id = e /\ req'[q].at \in {"claim", "schedule"} =>
             req[q].id = e /\ req[q].at = req'[q].at /\ req[q].gen = req'[q].gen
      BY <1>4
    <2>2. doc' = doc /\ locks'.writer[e] # Capture!Upload
      BY <1>1, <1>5, WebConstants
    <2>3. Active(e)' => Active(e)
      BY <2>2 DEF Active
    <2> QED
      BY <1>7, <2>1, <2>2, <2>3, OwnKeeps DEF Handed
  <1>13. Claimed(e)'
    <2>1. OwnDoc(e)
      BY DEF WebInv
    <2>2. e \notin env.clobbered => doc[e].gen = req[r].gen
      BY <1>1, <1>3, <2>1 DEF OwnDoc
    <2>3. row'[e].kind = "none" \/ row'[e].status \in Capture!InFlight
      BY <1>6 DEF Capture!InFlight
    <2>4. e \notin env'.left /\ e \notin env'.clobbered => Capture!Worked(e)'
      BY <1>1, <1>7, <2>2 DEF Capture!Worked, Handed
    <2> QED
      BY <2>3, <2>4 DEF Claimed
  <1> QED
    BY <1>1, <1>2, <1>3, <1>4, <1>7, <1>8, <1>9, <1>10, <1>11, <1>12, <1>13, WebConstants, WebActs
       DEF InUse, Lone, Handed

LEMMA ClaimFailsStep == ASSUME WebInv, NEW r \in Captures, Capture!ClaimFails(r) PROVE WebInv'
  <1>1. /\ req[r].at = "claim" /\ Capture!Ends(r) /\ UNCHANGED <<row, job>>
        /\ \/ Capture!Fault /\ Capture!SetManifest(req[r].id, "failed")
           \/ Capture!FaultLeaves({req[r].id}) /\ UNCHANGED doc
        /\ locks' = [locks EXCEPT !.writer[req[r].id] = None]
    BY DEF Capture!ClaimFails, Capture!At
  <1>2. WebType /\ env \in WebEnv /\ req[r].id \in Capture!Ids /\ InUse(req[r].id) /\ locks.writer[req[r].id] = r
    BY <1>1, WebPlaced DEF Placed
  <1>3. PICK e \in Capture!Ids : e = req[r].id
    BY <1>2
  <1>4. /\ req' \in [Captures -> WebRequest] /\ \A q \in Captures \ {r} : req'[q] = req[q]
        /\ req'[r].at = "done" /\ req'[r].id = 0 /\ req'[r].body = None
    BY <1>1, WebEnds
  <1>5. /\ locks' \in [writer : [Capture!Ids -> WebWriters], index : Captures \cup {None}]
        /\ locks'.index = locks.index /\ locks'.writer[e] = None
        /\ \A d \in Capture!Ids \ {e} : locks'.writer[d] = locks.writer[d]
    BY <1>1, <1>3, WebLocks DEF WebWriters
  <1>6. /\ doc' \in [Capture!Ids -> WebDoc] /\ \A d \in Capture!Ids \ {e} : doc'[d] = doc[d]
        /\ doc'[e].kind = doc[e].kind /\ doc'[e].gen = doc[e].gen
        /\ doc'[e].text = doc[e].text /\ doc'[e].digest = doc[e].digest
        /\ env' \in WebEnv /\ env'.counter = env.counter /\ env'.clobbered = env.clobbered
        /\ \A d \in Capture!Ids \ {e} : d \in env'.left <=> d \in env.left
        /\ doc'[e].status = "failed" \/ (doc'[e] = doc[e] /\ e \in env'.left)
    <2>1. CASE Capture!Fault /\ Capture!SetManifest(e, "failed")
      BY <2>1, WebSets, WebFault DEF WebStatus
    <2>2. CASE Capture!FaultLeaves({e}) /\ UNCHANGED doc
      <3>1. {e} \in SUBSET Capture!Ids /\ doc \in [Capture!Ids -> WebDoc]
        BY <1>2 DEF WebType
      <3> QED
        BY <2>2, <3>1, WebFaultLeaves
    <2> QED
      BY <1>1, <1>3, <2>1, <2>2
  <1>7. job' = job /\ row' = row
    BY <1>1
  <1>8. Acts(r, e)
    BY <1>1, <1>2, <1>3, <1>4, <1>5, <1>6, <1>7, WebConstants DEF Acts, Claiming, WebEnv
  <1>9. WebType'
    BY <1>1, <1>2, <1>4, <1>5, <1>6, <1>7 DEF WebType
  <1>10. Bodied'
    BY <1>1, <1>4, BodiedStays DEF Storing, Capture!HoldsHash
  <1>11. RequestOf(r)'
    BY <1>1, <1>2, <1>3, <1>4, <1>5, <1>6, NoneInUse, WebConstants DEF WebInv, RequestOf, Placed, InUse
  <1>12. (Active(e)' => Active(e)) /\ (e \notin env'.left => ~Active(e)')
    BY <1>6 DEF Active, Capture!InFlight
  <1>13. OwnDoc(e)'
    <2>1. \A q \in Captures : req'[q].id = e /\ req'[q].at \in {"claim", "schedule"} =>
             req[q].id = e /\ req[q].at = req'[q].at /\ req[q].gen = req'[q].gen
      BY <1>4
    <2>2. locks'.writer[e] # Capture!Upload
      BY <1>5, WebConstants
    <2> QED
      BY <1>6, <1>7, <1>12, <2>1, <2>2, OwnKeeps
  <1>14. Claimed(e)'
    BY <1>12 DEF Claimed
  <1> QED
    BY <1>1, <1>2, <1>3, <1>4, <1>6, <1>8, <1>9, <1>10, <1>11, <1>13, <1>14, WebConstants, WebActs DEF InUse, Lone

(* A new id: nobody has it.                                                      *)
LEMMA MintStep == ASSUME WebInv, NEW r \in Captures, Capture!Mint(r) PROVE WebInv'
  <1>1. PICK e \in Capture!Unused :
           /\ req[r].at = "mint" /\ UNCHANGED <<doc, row, job, locks>>
           /\ req' = [req EXCEPT ![r].id = e, ![r].at = "publish"] /\ env' = [env EXCEPT !.counter = e + 1]
    BY DEF Capture!Mint, Capture!At
  <1>2. /\ WebType /\ env \in WebEnv /\ env.counter \in Nat /\ e \in Capture!Ids /\ e \in Nat /\ e # 0
        /\ e >= env.counter /\ e \in 0..WebIds
    BY WebConstants DEF WebInv, WebType, WebEnv, Capture!Unused
  <1>3. /\ req' \in [Captures -> WebRequest] /\ \A q \in Captures \ {r} : req'[q] = req[q]
        /\ req'[r].at = "publish" /\ req'[r].id = e /\ req'[r].body = req[r].body
        /\ req'[r].force = req[r].force /\ req'[r].gone = req[r].gone
    BY <1>1, <1>2 DEF WebType, WebRequest
  <1>4. /\ env' \in WebEnv /\ env'.counter = e + 1 /\ env'.clobbered = env.clobbered
        /\ env'.left = env.left
    BY <1>1, <1>2 DEF WebEnv
  <1>5. WebType'
    BY <1>1, <1>2, <1>3, <1>4 DEF WebType
  <1>6. Acts(r, e)
    BY <1>1, <1>2, <1>3, <1>4, WebConstants DEF Acts, Claiming
  <1>7. \A q \in Captures : req[q].id \in Nat /\ req[q].id < env.counter
    BY <1>2 DEF WebInv, RequestOf, WebType, WebRequest
  <1>8. \A j \in WebJobs : job[j].id \in Nat /\ job[j].id < env.counter
    BY <1>2 DEF WebInv, JobOf, WebType, WebJob
  <1>9. Minted'
    <2>1. ASSUME NEW d \in Capture!Ids, d >= env'.counter PROVE NoRowYet(d)' /\ doc'[d] = Capture!NoDoc
      <3>1. d \in Nat /\ d >= env.counter
        BY <1>2, <1>4, <2>1, WebConstants
      <3> QED
        BY <1>1, <2>1, <3>1 DEF WebInv, Minted, NoRowYet
    <2>2. NoRowYet(e)' /\ Own(r)' /\ doc'[e] = Capture!NoDoc
      BY <1>1, <1>2, <1>3, <1>7, <1>8 DEF WebInv, Minted, NoRowYet, Own
    <2>3. ASSUME NEW q \in Captures, q # r, req'[q].at \in {"publish", "index"}
          PROVE  NoRowYet(req[q].id)' /\ Own(q)'
      <3>1. NoRowYet(req[q].id) /\ Own(q) /\ req'[q] = req[q] /\ req[q].id # e
        BY <1>2, <1>3, <1>7, <2>3 DEF WebInv, Minted
      <3> QED
        BY <1>1, <1>3, <3>1 DEF NoRowYet, Own
    <2> QED
      BY <1>1, <1>3, <2>1, <2>2, <2>3 DEF WebInv, Minted
  <1>10. Bodied'
    BY <1>1, <1>3, BodiedStays DEF Storing, Capture!HoldsHash
  <1>11. RequestOf(r)'
    BY <1>1, <1>2, <1>3, <1>4, WebConstants DEF WebInv, RequestOf, Placed
  <1>12. OwnDoc(e)' /\ Claimed(e)'
    BY <1>1, <1>2, <1>3, <1>4, Steady DEF Claiming
  <1> QED
    BY <1>5, <1>6, <1>9, <1>10, <1>11, <1>12, WebConstants, WebGoesOn

(* What a minted id has, and who else may name it: nobody.                       *)
LEMMA WebOwn ==
  ASSUME WebInv, NEW r \in Captures, req[r].at \in {"publish", "index"}
  PROVE  /\ req[r].id \in Capture!Ids /\ NoRowYet(req[r].id) /\ Lone(r, req[r].id)
         /\ req[r].id < env.counter /\ req[r].body # None
         /\ \A q \in Captures \ {r} : req[q].id # req[r].id
         /\ \A j \in WebJobs : job[j].id # req[r].id
         /\ req[r].at = "publish" => doc[req[r].id] = Capture!NoDoc
         /\ req[r].at = "index" => req[r].seen = Capture!NoDoc /\ doc[req[r].id].gen = req[r].gen
  BY WebConstants DEF WebInv, WebType, WebRequest, Minted, Own, Lone, RequestOf, Placed

LEMMA PublishStep == ASSUME WebInv, NEW r \in Captures, Capture!Publish(r) PROVE WebInv'
  <1> DEFINE next == env.gens + 1
             new == [kind |-> "web", gen |-> next, text |-> next, digest |-> next, status |-> "pending"]
  <1>1. /\ req[r].at = "publish" /\ locks.index = None /\ UNCHANGED <<row, job>>
        /\ req' = [req EXCEPT ![r].at = "index", ![r].gen = next, ![r].seen = doc[req[r].id]]
        /\ doc' = [doc EXCEPT ![req[r].id] = new]
        /\ env' = [env EXCEPT !.gens = next, !.left = IF req[r].gone THEN @ \cup {req[r].id} ELSE @]
        /\ locks' = [locks EXCEPT !.index = r]
    BY DEF Capture!Publish, Capture!At, Capture!Index
  <1>2. WebType /\ env \in WebEnv /\ env.counter \in Nat /\ next \in Nat
    BY DEF WebInv, WebType, WebEnv
  <1>3. PICK e \in Capture!Ids : e = req[r].id
    BY <1>1, WebOwn
  <1>4. new \in WebDoc /\ Coherent(new) /\ new.kind = "web" /\ new.gen = next /\ new.status = "pending"
    BY <1>2 DEF WebDoc, Coherent, WebKinds, WebStatus
  <1> HIDE DEF new
  <1>5. /\ req' \in [Captures -> WebRequest] /\ \A q \in Captures \ {r} : req'[q] = req[q]
        /\ req'[r].at = "index" /\ req'[r].id = e /\ req'[r].body = req[r].body
        /\ req'[r].force = req[r].force /\ req'[r].gone = req[r].gone
        /\ req'[r].gen = next /\ req'[r].seen = Capture!NoDoc
    <2>1. /\ doc[e] = Capture!NoDoc /\ doc[e] \in WebDoc /\ req \in [Captures -> WebRequest]
          /\ req[r] \in WebRequest
          /\ req'[r] = [req[r] EXCEPT !.at = "index", !.gen = next, !.seen = doc[e]]
      BY <1>1, <1>2, <1>3, WebOwn DEF WebType
    <2> HIDE DEF next
    <2>2. /\ req'[r] \in WebRequest /\ req'[r].at = "index" /\ req'[r].id = e /\ req'[r].body = req[r].body
          /\ req'[r].force = req[r].force /\ req'[r].gone = req[r].gone
          /\ req'[r].gen = next /\ req'[r].seen = Capture!NoDoc
      <3>1. /\ [req[r] EXCEPT !.at = "index", !.gen = next, !.seen = doc[e]] \in WebRequest
            /\ [req[r] EXCEPT !.at = "index", !.gen = next, !.seen = doc[e]].at = "index"
        BY <1>2, <2>1 DEF WebRequest
      <3> QED
        BY <1>3, <2>1, <3>1 DEF WebRequest
    <2>3. req' = [q \in Captures |-> req'[q]] /\ \A q \in Captures \ {r} : req'[q] = req[q]
      BY <1>1, <2>1
    <2> QED
      BY <2>1, <2>2, <2>3
  <1>6. /\ locks' \in [writer : [Capture!Ids -> WebWriters], index : Captures \cup {None}]
        /\ locks'.index = r /\ locks'.writer = locks.writer
    BY <1>1, WebLocksIndex
  <1>7. /\ doc' \in [Capture!Ids -> WebDoc] /\ \A d \in Capture!Ids \ {e} : doc'[d] = doc[d]
        /\ doc'[e] = new
    BY <1>1, <1>2, <1>3, <1>4 DEF WebType
  <1>8. /\ env' \in WebEnv /\ env'.counter = env.counter /\ env'.clobbered = env.clobbered
        /\ \A d \in Capture!Ids \ {e} : d \in env'.left <=> d \in env.left
        /\ req[r].gone => e \in env'.left
    <2> DEFINE y == IF req[r].gone THEN env.left \cup {e} ELSE env.left
    <2>1. env' = [env EXCEPT !.gens = next, !.left = y]
      BY <1>1, <1>3
    <2>2. /\ y \in SUBSET Capture!Ids /\ (req[r].gone => e \in y)
          /\ \A d \in Capture!Ids \ {e} : d \in y <=> d \in env.left
      BY <1>2 DEF WebEnv
    <2> HIDE DEF y, next
    <2>3. env' \in WebEnv /\ env'.counter = env.counter /\ env'.clobbered = env.clobbered /\ env'.left = y
      BY <1>2, <2>1, <2>2 DEF WebEnv
    <2> QED
      BY <2>2, <2>3
  <1>9. WebType'
    BY <1>1, <1>2, <1>5, <1>6, <1>7, <1>8 DEF WebType
  <1>10. Acts(r, e)
    BY <1>1, <1>2, <1>3, <1>5, <1>6, <1>7, <1>8, WebConstants DEF Acts, Claiming
  <1>11. Minted'
    <2>1. ASSUME NEW d \in Capture!Ids, d >= env'.counter PROVE NoRowYet(d)' /\ doc'[d] = Capture!NoDoc
      <3>1. d # e
        BY <1>1, <1>2, <1>3, <1>8, <2>1, WebConstants, WebOwn
      <3> QED
        BY <1>1, <1>6, <1>7, <1>8, <2>1, <3>1 DEF WebInv, Minted, NoRowYet
    <2>2. NoRowYet(e)' /\ Own(r)'
      BY <1>1, <1>3, <1>5, <1>6, WebOwn DEF NoRowYet, Own
    <2>3. ASSUME NEW q \in Captures, q # r, req'[q].at \in {"publish", "index"}
          PROVE  NoRowYet(req[q].id)' /\ Own(q)' /\ doc'[req[q].id] = doc[req[q].id]
      <3>1. NoRowYet(req[q].id) /\ Own(q) /\ req'[q] = req[q] /\ req[q].id # e /\ req[q].id \in Capture!Ids
        BY <1>3, <1>5, <2>3, WebOwn DEF Own
      <3> QED
        BY <1>1, <1>3, <1>5, <1>6, <1>7, <3>1 DEF NoRowYet, Own
    <2>4. \A q \in Captures : req'[q].at = "publish" => doc'[req'[q].id] = Capture!NoDoc
      BY <1>5, <2>3 DEF WebInv, Minted
    <2>5. \A q \in Captures : req'[q].at = "index" => /\ req'[q].seen = Capture!NoDoc
                                                        /\ doc'[req'[q].id].gen = req'[q].gen
      BY <1>4, <1>5, <1>7, <2>3 DEF WebInv, Minted
    <2> QED
      BY <1>5, <2>1, <2>2, <2>3, <2>4, <2>5 DEF Minted
  <1>12. Bodied'
    BY <1>1, <1>5, BodiedStays DEF Storing, Capture!HoldsHash
  <1>13. RequestOf(r)'
    BY <1>1, <1>2, <1>3, <1>5, <1>6, <1>8, WebConstants, WebOwn DEF RequestOf, Placed
  <1>14. OwnDoc(e)'
    BY <1>1, <1>3, <1>4, <1>5, <1>6, <1>7, WebConstants, WebOwn DEF OwnDoc, Active, NoRowYet
  <1>15. Claimed(e)'
    <2>1. row'[e].kind = "none"
      BY <1>1, <1>3, WebEmpty, WebOwn DEF NoRowYet
    <2>2. CASE ~req[r].gone
      BY <1>5, <2>1, <2>2 DEF Claimed, Capture!Worked
    <2>3. CASE req[r].gone
      BY <1>8, <2>3 DEF Claimed
    <2> QED
      BY <2>2, <2>3
  <1> QED
    BY <1>9, <1>10, <1>11, <1>12, <1>13, <1>14, <1>15, WebConstants, WebGoesOn

LEMMA PublishRowStep == ASSUME WebInv, NEW r \in Captures, Capture!PublishRow(r) PROVE WebInv'
  <1> DEFINE new == [kind |-> "web", gen |-> req[r].gen, body |-> req[r].body, url |-> req[r].url,
                     fresh |-> TRUE, unlocked |-> req[r].force \/ req[r].gone, status |-> "pending"]
  <1>1. /\ req[r].at = "index" /\ UNCHANGED <<doc, job, env>> /\ row' = [row EXCEPT ![req[r].id] = new]
        /\ IF req[r].gone THEN Capture!Ends(r) ELSE Capture!Goto(r, "schedule")
        /\ locks' = [locks EXCEPT !.index = None]
    BY DEF Capture!PublishRow, Capture!At
  <1>2. WebType /\ env \in WebEnv /\ env.counter \in Nat /\ locks.index = r
    BY <1>1 DEF WebInv, WebType, WebEnv, RequestOf
  <1>3. PICK e \in Capture!Ids : e = req[r].id
    BY <1>1, WebOwn
  <1>4. /\ new \in WebRow /\ new.kind = "web" /\ new.body = req[r].body
        /\ new.unlocked = (req[r].force \/ req[r].gone) /\ new.status = "pending"
    BY <1>2 DEF WebRow, WebKinds, WebStatus, WebType, WebRequest
  <1> HIDE DEF new
  <1>5. /\ req' \in [Captures -> WebRequest] /\ \A q \in Captures \ {r} : req'[q] = req[q]
        /\ IF req[r].gone THEN req'[r].at = "done" /\ req'[r].id = 0 /\ req'[r].body = None
           ELSE /\ req'[r].at = "schedule" /\ req'[r].id = e /\ req'[r].body = req[r].body
                /\ req'[r].force = req[r].force /\ req'[r].gone = req[r].gone /\ req'[r].gen = req[r].gen
    BY <1>1, <1>3, WebGoto, WebEnds
  <1>6. /\ locks' \in [writer : [Capture!Ids -> WebWriters], index : Captures \cup {None}]
        /\ locks'.index = None /\ locks'.writer = locks.writer
    BY <1>1, WebLocksIndex
  <1>7. /\ row' \in [Capture!Ids -> WebRow] /\ \A d \in Capture!Ids \ {e} : row'[d] = row[d]
        /\ row'[e] = new
    BY <1>1, <1>2, <1>3, <1>4 DEF WebType
  <1>8. WebType'
    BY <1>1, <1>2, <1>5, <1>6, <1>7 DEF WebType
  <1>9. Acts(r, e)
    BY <1>1, <1>2, <1>3, <1>5, <1>6, <1>7, WebConstants DEF Acts, Claiming
  <1>10. Bodied'
    <2>1. row[e].kind = "none" /\ e \notin Capture!Captured
      BY <1>1, <1>3, WebOwn, WebEmpty DEF NoRowYet, Capture!Captured
    <2>2. Capture!Captured' = Capture!Captured \cup {e} /\ Capture!Captured \subseteq Capture!Ids
      BY <1>4, <1>7 DEF Capture!Captured
    <2>3. ~req[r].force /\ ~req[r].gone => \A d \in Capture!Captured : row[d].body = req[r].body => row[d].unlocked
      BY <1>1 DEF WebInv, Bodied, Storing
    <2>4. OneDocPerBody'
      <3>1. ASSUME NEW d \in Capture!Captured', NEW c \in Capture!Captured', d # c, row'[d].body = row'[c].body
            PROVE  row'[d].unlocked \/ row'[c].unlocked
        <4>1. CASE d # e /\ c # e
          BY <1>7, <2>2, <3>1, <4>1 DEF WebInv, Bodied, OneDocPerBody, Capture!OneDocPerBody
        <4>2. CASE d = e
          BY <1>4, <1>7, <2>2, <2>3, <3>1, <4>2
        <4>3. CASE c = e
          BY <1>4, <1>7, <2>2, <2>3, <3>1, <4>3
        <4> QED
          BY <4>1, <4>2, <4>3
      <3> QED
        BY <3>1 DEF OneDocPerBody, Capture!OneDocPerBody
    <2>5. ASSUME NEW q \in Captures, req'[q].at \in Storing, ~req'[q].force, ~req'[q].gone,
                 NEW d \in Capture!Captured', row'[d].body = req'[q].body
          PROVE  row'[d].unlocked
      <3>1. q # r /\ req'[q] = req[q] /\ req[q].body # None
        BY <1>5, <2>5 DEF Storing, WebInv, RequestOf
      <3>2. CASE d # e
        BY <1>7, <2>2, <2>5, <3>1, <3>2 DEF WebInv, Bodied
      <3>3. CASE d = e /\ ~req[r].force /\ ~req[r].gone
        <4>1. Capture!HoldsHash(r) /\ Capture!HoldsHash(q)
          BY <1>1, <2>5, <3>1, <3>3, WebOwn DEF Capture!HoldsHash, Storing
        <4> QED
          BY <1>4, <1>7, <2>5, <3>1, <3>3, <4>1 DEF WebInv, Bodied
      <3>4. CASE d = e /\ (req[r].force \/ req[r].gone)
        BY <1>4, <1>7, <3>4
      <3> QED
        BY <3>2, <3>3, <3>4
    <2>6. \A p, q \in Captures : p # q /\ Capture!HoldsHash(p)' /\ Capture!HoldsHash(q)' =>
             req'[p].body # req'[q].body
      <3>1. \A q \in Captures : Capture!HoldsHash(q)' => Capture!HoldsHash(q) /\ req'[q].body = req[q].body
        BY <1>1, <1>5 DEF Capture!HoldsHash
      <3> QED
        BY <3>1 DEF WebInv, Bodied
    <2> QED
      BY <2>4, <2>5, <2>6 DEF Bodied
  <1>11. RequestOf(r)'
    BY <1>1, <1>2, <1>3, <1>5, <1>6, NoneInUse, WebConstants, WebOwn DEF RequestOf, Placed, InUse
  <1>12. OwnDoc(e)'
    <2>1. OwnDoc(e) /\ locks'.writer[e] # Capture!Upload
      BY <1>1, <1>3, <1>6, WebConstants, WebOwn DEF WebInv, NoRowYet
    <2>2. doc[e].gen = req[r].gen /\ doc' = doc /\ env' = env /\ job' = job
      BY <1>1, <1>3, WebOwn
    <2>3. /\ \A q \in Captures : req'[q].id = e => q = r
          /\ \A j \in WebJobs : job'[j].id # e
      BY <1>1, <1>3, <1>5, <2>2, WebOwn
    <2>4. req'[r].at # "claim" /\ (req'[r].at = "schedule" => req'[r].gen = req[r].gen)
      BY <1>5
    <2> QED
      BY <2>1, <2>2, <2>3, <2>4 DEF OwnDoc, Coherent, Active
  <1>13. Claimed(e)'
    <2>1. row'[e].status \in Capture!InFlight
      BY <1>4, <1>7 DEF Capture!InFlight
    <2>2. CASE ~req[r].gone
      BY <1>5, <2>1, <2>2 DEF Claimed, Capture!Worked
    <2>3. CASE req[r].gone
      <3>1. \A q \in Captures : req[q].id = e /\ (req[q].at = "claim"
                                  \/ (req[q].at \in {"index", "schedule"} /\ ~req[q].gone)) => FALSE
        BY <1>1, <1>3, <2>3, WebOwn
      <3>2. ~Capture!Worked(e)
        BY <1>1, <1>3, <3>1, WebOwn DEF Capture!Worked
      <3>3. e \in env.clobbered \cup env.left \/ ~Active(e)
        BY <3>2 DEF WebInv, Claimed
      <3> QED
        BY <1>1, <3>3 DEF Claimed, Active
    <2> QED
      BY <2>2, <2>3
  <1> QED
    BY <1>1, <1>3, <1>5, <1>8, <1>9, <1>10, <1>11, <1>12, <1>13, WebConstants, WebOwn, WebActs

LEMMA PublishFailsStep == ASSUME WebInv, NEW r \in Captures, Capture!PublishFails(r) PROVE WebInv'
  <1>1. /\ req[r].at = "index" /\ Capture!Fault /\ Capture!Ends(r) /\ UNCHANGED <<row, job>>
        /\ doc' = [doc EXCEPT ![req[r].id] = req[r].seen] /\ locks' = [locks EXCEPT !.index = None]
    BY DEF Capture!PublishFails, Capture!At
  <1>2. WebType /\ env \in WebEnv /\ env.counter \in Nat /\ locks.index = r
    BY <1>1 DEF WebInv, WebType, WebEnv, RequestOf
  <1>3. PICK e \in Capture!Ids : e = req[r].id
    BY <1>1, WebOwn
  <1>4. /\ req' \in [Captures -> WebRequest] /\ \A q \in Captures \ {r} : req'[q] = req[q]
        /\ req'[r].at = "done" /\ req'[r].id = 0 /\ req'[r].body = None
    BY <1>1, WebEnds
  <1>5. /\ locks' \in [writer : [Capture!Ids -> WebWriters], index : Captures \cup {None}]
        /\ locks'.index = None /\ locks'.writer = locks.writer
    BY <1>1, WebLocksIndex
  <1>6. /\ doc' \in [Capture!Ids -> WebDoc] /\ \A d \in Capture!Ids \ {e} : doc'[d] = doc[d]
        /\ doc'[e] = Capture!NoDoc
    BY <1>1, <1>2, <1>3, WebEmpty, WebOwn DEF WebType
  <1>7. /\ env' \in WebEnv /\ env'.counter = env.counter /\ env'.clobbered = env.clobbered
        /\ env'.left = env.left
    BY <1>1, WebFault
  <1>8. WebType'
    BY <1>1, <1>2, <1>4, <1>5, <1>6, <1>7 DEF WebType
  <1>9. Acts(r, e)
    BY <1>1, <1>2, <1>3, <1>4, <1>5, <1>6, <1>7, WebConstants DEF Acts, Claiming
  <1>10. Bodied'
    BY <1>1, <1>4, BodiedStays DEF Storing, Capture!HoldsHash
  <1>11. RequestOf(r)'
    BY <1>2, <1>4, <1>5, <1>7, NoneInUse, WebConstants DEF RequestOf, Placed, InUse
  <1>12. OwnDoc(e)' /\ Claimed(e)'
    <2>1. Coherent(doc'[e]) /\ ~Active(e)' /\ locks'.writer[e] # Capture!Upload
      BY <1>1, <1>3, <1>5, <1>6, WebConstants, WebEmpty, WebOwn DEF Active, Capture!InFlight, NoRowYet
    <2>2. \A q \in Captures : req'[q].id # e
      BY <1>1, <1>3, <1>4, WebConstants, WebOwn
    <2>3. \A j \in WebJobs : job'[j].id # e
      BY <1>1, <1>3, WebOwn
    <2> QED
      BY <2>1, <2>2, <2>3 DEF OwnDoc, Claimed
  <1> QED
    BY <1>1, <1>3, <1>4, <1>7, <1>8, <1>9, <1>10, <1>11, <1>12, WebConstants, WebOwn, WebActs

LEMMA ScheduleStep == ASSUME WebInv, NEW r \in Captures, Capture!Schedule(r) PROVE WebInv'
  <1>1. /\ req[r].at = "schedule" /\ Capture!Ends(r) /\ UNCHANGED <<doc, row, locks>>
        /\ (Capture!Starts(r) /\ UNCHANGED env) \/ Capture!StartFails(r)
    BY DEF Capture!Schedule, Capture!At
  <1>2. WebType /\ env \in WebEnv /\ req[r].id \in Capture!Ids /\ InUse(req[r].id)
    BY <1>1, WebPlaced DEF Placed
  <1>3. PICK e \in Capture!Ids : e = req[r].id
    BY <1>2
  <1>4. /\ req' \in [Captures -> WebRequest] /\ \A q \in Captures \ {r} : req'[q] = req[q]
        /\ req'[r].at = "done" /\ req'[r].id = 0 /\ req'[r].body = None
    BY <1>1, WebEnds
  <1>5. Handed(r, e)
    BY <1>1, <1>3, WebHands
  <1>6. env.counter \in Nat /\ e < env.counter /\ e # 0
    BY <1>2, <1>3, WebConstants DEF InUse, WebEnv
  <1>7. Acts(r, e)
    BY <1>1, <1>2, <1>3, <1>4, <1>5, <1>6, WebConstants DEF Acts, Claiming, Handed
  <1>8. WebType'
    BY <1>1, <1>2, <1>4, <1>5 DEF WebType, Handed
  <1>9. Bodied'
    BY <1>1, <1>4, BodiedStays DEF Storing, Capture!HoldsHash
  <1>10. RequestOf(r)'
    BY <1>1, <1>2, <1>4, <1>5, NoneInUse, WebConstants DEF WebInv, RequestOf, Placed, InUse, Handed
  <1>11. OwnDoc(e)'
    <2>1. \A q \in Captures : req'[q].id = e /\ req'[q].at \in {"claim", "schedule"} =>
             req[q].id = e /\ req[q].at = req'[q].at /\ req[q].gen = req'[q].gen
      BY <1>4
    <2>2. (Active(e)' => Active(e)) /\ doc' = doc /\ locks' = locks
      BY <1>1 DEF Active
    <2>3. \A j \in WebJobs : job'[j].at \in {"saving", "finish"} => job'[j] = job[j]
      BY <1>5 DEF Handed
    <2> QED
      BY <1>5, <2>1, <2>2, <2>3, OwnKeeps DEF Handed
  <1>12. Claimed(e)'
    <2>1. SUFFICES ASSUME e \notin env'.clobbered, e \notin env'.left, Active(e), Claimed(e) PROVE Claimed(e)'
      BY <1>1 DEF Claimed, Active, WebInv
    <2>2. PICK j \in WebJobs : /\ job[j].at = "idle" /\ job'[j].id = e /\ job'[j].gen = req[r].gen
                               /\ \A i \in WebJobs \ {j} : job'[i] = job[i]
      BY <1>5, <2>1 DEF Handed
    <2>3. e \notin env.clobbered /\ env' = env
      BY <1>1, <1>3, <1>5, <2>1, <2>2, WebFaultLeaves DEF Handed, Capture!StartFails, Capture!FaultLeaves
    <2>4. doc[e].kind = "web" /\ doc[e].gen = req[r].gen
      BY <1>1, <1>3, <2>1, <2>3 DEF WebInv, OwnDoc
    <2>5. Capture!Worked(e)'
      BY <1>1, <2>2, <2>4 DEF Capture!Worked
    <2>6. Behind(e) => Behind(e)'
      BY <1>1, <1>4, <2>2 DEF Behind, Capture!GivenUp, Capture!On, Capture!Live, Capture!Intact
    <2> QED
      BY <1>1, <2>1, <2>3, <2>5, <2>6 DEF Claimed
  <1> QED
    BY <1>1, <1>2, <1>3, <1>4, <1>5, <1>7, <1>8, <1>9, <1>10, <1>11, <1>12, WebConstants, WebActs
       DEF InUse, Lone, Handed

(* A client that leaves: its request ends, or goes on without locks.             *)
LEMMA WebGone ==
  ASSUME WebInv, NEW r \in Captures, req' = [req EXCEPT ![r].gone = TRUE]
  PROVE  /\ req' \in [Captures -> WebRequest] /\ \A q \in Captures \ {r} : req'[q] = req[q]
         /\ req'[r].at = req[r].at /\ req'[r].id = req[r].id /\ req'[r].body = req[r].body
         /\ req'[r].force = req[r].force /\ req'[r].gen = req[r].gen /\ req'[r].seen = req[r].seen
         /\ req'[r].gone = TRUE
  <1>1. req \in [Captures -> WebRequest] /\ req[r] \in WebRequest /\ req'[r] = [req[r] EXCEPT !.gone = TRUE]
    BY DEF WebInv, WebType
  <1>2. [req[r] EXCEPT !.gone = TRUE] \in WebRequest
    BY <1>1 DEF WebRequest
  <1> QED
    BY <1>1, <1>2 DEF WebRequest

LEMMA GoesOnAlone ==
  ASSUME WebInv, NEW r \in Captures, req' = [req EXCEPT ![r].gone = TRUE], UNCHANGED <<doc, row, job, locks>>,
         req[r].at \in Capture!InThread,
         Capture!FaultLeaves(IF req[r].at \in {"index", "schedule"} THEN {req[r].id} ELSE {})
  PROVE  WebInv'
  <1> DEFINE S == IF req[r].at \in {"index", "schedule"} THEN {req[r].id} ELSE {}
  <1>1. WebType /\ env \in WebEnv /\ env.counter \in Nat /\ RequestOf(r) /\ req[r].id \in 0..WebIds
        /\ req[r].at # "schedule" /\ req[r].at # "idle"
    BY DEF WebInv, WebType, WebEnv, WebRequest, Capture!InThread
  <1>2. S \in SUBSET Capture!Ids /\ Capture!FaultLeaves(S)
    BY <1>1, WebOwn
  <1>3. /\ env' \in WebEnv /\ env'.counter = env.counter /\ env'.clobbered = env.clobbered
        /\ env'.left = env.left \cup S
    BY <1>2, WebFaultLeaves
  <1>4. PICK e \in 0..WebIds : e = req[r].id
    BY <1>1
  <1>5. S \subseteq {e} /\ (req[r].at = "index" => e \in S)
    BY <1>4
  <1> HIDE DEF S
  <1>6. WebType'
    BY <1>1, <1>3, WebGone DEF WebType
  <1>7. Acts(r, e)
    BY <1>1, <1>3, <1>4, <1>5, WebGone, WebConstants DEF Acts
  <1>8. Minted'
    <2>1. \A q \in Captures : /\ req'[q].at = req[q].at /\ req'[q].id = req[q].id
                              /\ req'[q].gen = req[q].gen /\ req'[q].seen = req[q].seen
      BY WebGone
    <2> QED
      BY <1>3, <2>1 DEF WebInv, Minted, NoRowYet, Own
  <1>9. Bodied'
    BY WebGone, BodiedStays DEF Capture!HoldsHash
  <1>10. RequestOf(r)'
    BY <1>1, <1>3, WebGone DEF RequestOf
  <1>11. ASSUME e \in Capture!Ids PROVE OwnDoc(e)' /\ Claimed(e)'
    <2>1. OwnDoc(e) /\ Claimed(e)
      BY <1>11 DEF WebInv
    <2>2. OwnDoc(e)'
      BY <1>3, <1>11, WebGone, OwnKeeps DEF Active
    <2>3. req[r].at # "index" /\ Capture!Worked(e) => Capture!Worked(e)'
      BY <1>1, WebGone DEF Capture!Worked
    <2>4. Behind(e) => Behind(e)'
      BY WebGone DEF Behind, Capture!GivenUp, Capture!On, Capture!Live, Capture!Intact
    <2>5. Claimed(e)'
      BY <1>3, <1>5, <2>1, <2>3, <2>4 DEF Claimed, Active
    <2> QED
      BY <2>2, <2>5
  <1> QED
    BY <1>6, <1>7, <1>8, <1>9, <1>10, <1>11, WebConstants, WebGoesOn

LEMMA CancelledStep == ASSUME WebInv, NEW r \in Captures, Capture!Cancelled(r) PROVE WebInv'
  <1>1. /\ Capture!FaultLeaves(IF req[r].at \in {"index", "schedule"} THEN {req[r].id} ELSE {})
        /\ UNCHANGED <<doc, row, job, locks>>
    BY DEF Capture!Cancelled
  <1>2. CASE req[r].at \in Capture!InThread /\ req' = [req EXCEPT ![r].gone = TRUE]
    BY <1>1, <1>2, GoesOnAlone
  <1>3. CASE req[r].at = "schedule" /\ Capture!Ends(r)
    BY <1>1, <1>3, ScheduleStep DEF Capture!Schedule, Capture!StartFails, Capture!At
  <1>4. CASE /\ req[r].at \in {"look", "key", "fetch", "hash", "merge", "reply", "mint"}
             /\ Capture!Ends(r)
    <2>1. Capture!Fault
      BY <1>1, <1>4 DEF Capture!Fault
    <2>2. Bodied'
      BY <1>1, <1>4, WebEnds, BodiedStays DEF Capture!HoldsHash, Storing
    <2> QED
      BY <1>1, <1>4, <2>1, <2>2, WebFault, WebEnds, NoneInUse, RequestOnly DEF Claiming, Placed
  <1> QED
    BY <1>2, <1>3, <1>4 DEF Capture!Cancelled

-----------------------------------------------------------------------------
(* A summary thread: it acts on its document, which no request stores.           *)
LEMMA WebThread ==
  ASSUME WebInv, NEW j \in WebJobs, job[j].at # "idle"
  PROVE  /\ job[j].id \in Capture!Ids /\ job[j].id # 0 /\ job[j].id < env.counter /\ Lone(j, job[j].id)
         /\ job[j].at \in {"running", "saving", "finish"} => locks.writer[job[j].id] = j
  BY WebConstants, ApartFromMinted DEF WebInv, WebType, WebJob, JobOf, InUse, Lone

LEMMA WebJobAt ==
  ASSUME WebInv, NEW j \in WebJobs,
         NEW a \in {"begin", "queued", "refused", "running", "llm", "save", "saving", "finish", "fail"},
         Capture!JobAt(j, a)
  PROVE  /\ job' \in [WebJobs -> WebJob] /\ \A i \in WebJobs \ {j} : job'[i] = job[i]
         /\ job'[j].at = a /\ job'[j].id = job[j].id /\ job'[j].gen = job[j].gen
  BY DEF WebInv, WebType, WebJob, Capture!JobAt

LEMMA WebJobEnds ==
  ASSUME WebInv, NEW j \in WebJobs, Capture!JobEnds(j)
  PROVE  /\ job' \in [WebJobs -> WebJob] /\ \A i \in WebJobs \ {j} : job'[i] = job[i]
         /\ job'[j].at = "idle" /\ job'[j].id = 0
  BY WebEmpty DEF WebInv, WebType, Capture!JobEnds

LEMMA WebJobActs ==
  ASSUME WebInv, NEW j \in WebJobs, job[j].at # "idle", NEW e \in Capture!Ids, e = job[j].id, req' = req,
         env' \in WebEnv, env'.counter = env.counter, env'.clobbered = env.clobbered,
         \A d \in Capture!Ids \ {e} : d \in env'.left <=> d \in env.left,
         doc' \in [Capture!Ids -> WebDoc], \A d \in Capture!Ids \ {e} : doc'[d] = doc[d],
         row' \in [Capture!Ids -> WebRow], \A d \in Capture!Ids \ {e} : row'[d] = row[d],
         row'[e].kind = row[e].kind, row'[e].body = row[e].body, row'[e].unlocked = row[e].unlocked,
         locks' \in [writer : [Capture!Ids -> WebWriters], index : Captures \cup {None}],
         locks'.index = locks.index, \A d \in Capture!Ids \ {e} : locks'.writer[d] = locks.writer[d],
         locks.writer[e] \in {None, j} \/ locks'.writer[e] = locks.writer[e],
         job' \in [WebJobs -> WebJob], \A i \in WebJobs \ {j} : job'[i] = job[i],
         job'[j].at = "idle" => job'[j].id = 0, job'[j].at # "idle" => job'[j].id = e,
         job'[j].at \in {"running", "saving", "finish"} => locks'.writer[e] = j,
         job'[j].at \in {"saving", "finish"} =>
             job'[j].gen = job[j].gen /\ (job[j].at \in {"saving", "finish"} \/ Capture!Live(j)),
         doc'[e].kind = doc[e].kind, doc'[e].gen = doc[e].gen, doc'[e].text = doc[e].text,
         doc'[e].digest = doc[e].digest \/ doc'[e].digest = doc[e].text \/ e \in env.clobbered,
         Active(e)' => Active(e) \/ doc[e].kind = "web",
         locks'.writer[e] # Capture!Upload \/ locks'.writer[e] = locks.writer[e],
         Claimed(e)'
  PROVE  WebInv'
  <1>1. WebType' /\ env.counter \in Nat
    BY DEF WebInv, WebType, WebEnv
  <1>2. e \in 0..WebIds /\ e # 0 /\ Lone(j, e) /\ e < env.counter /\ 0 < env.counter
    BY <1>1, WebConstants, WebThread
  <1>3. Acts(j, e)
    BY <1>1, <1>2, WebConstants, SMTT(30) DEF Acts
  <1>4. Bodied'
    <2>1. \A d \in Capture!Ids : row'[d].kind = row[d].kind /\ row'[d].body = row[d].body /\ row'[d].unlocked = row[d].unlocked
      OBVIOUS
    <2> QED
      BY <2>1, BodiedStays DEF Capture!HoldsHash
  <1>5. JobOf(j)'
    BY <1>2 DEF JobOf
  <1>6. OwnDoc(e)'
    <2>1. CASE e \in env.clobbered
      BY <2>1, SMTT(30) DEF OwnDoc
    <2>2. CASE e \notin env.clobbered
      <3>1. \A i \in WebJobs : job'[i].id = e /\ job'[i].at \in {"saving", "finish"} =>
               /\ job[i].id = e /\ job[i].gen = job'[i].gen
               /\ job[i].at \in {"saving", "finish"} \/ Capture!Live(i)
        BY <1>2
      <3> QED
        BY <2>2, <3>1, OwnKeeps
    <2> QED
      BY <2>1, <2>2, SMTT(30)
  <1> QED
    BY <1>1, <1>2, <1>3, <1>4, <1>5, <1>6, WebConstants, WebActs

(* A thread that only waits, or that hears from the provider.                    *)
LEMMA JobOnly ==
  ASSUME WebInv, NEW j \in WebJobs, job[j].at \in {"slot", "queued", "llm"}, UNCHANGED <<doc, row, req, locks, env>>,
         NEW a \in {"begin", "queued", "refused", "save", "fail"}, Capture!JobAt(j, a)
  PROVE  WebInv'
  <1>1. PICK e \in Capture!Ids : e = job[j].id
    BY WebThread
  <1>2. /\ job' \in [WebJobs -> WebJob] /\ \A i \in WebJobs \ {j} : job'[i] = job[i]
        /\ job'[j].at = a /\ job'[j].id = job[j].id /\ job'[j].gen = job[j].gen
    BY WebJobAt
  <1>3. Claimed(e)'
    BY <1>1, <1>2, Steady
  <1>4. WebType /\ env \in WebEnv
    BY DEF WebInv, WebType
  <1>5. Active(e)' => Active(e)
    BY DEF Active
  <1> QED
    BY <1>1, <1>2, <1>3, <1>4, <1>5, WebJobActs DEF WebType

(* A thread whose document is another by now has nothing that counts on it.      *)
LEMMA GoneClaimed ==
  ASSUME WebInv, NEW j \in WebJobs, NEW e \in Capture!Ids, e = job[j].id, ~Capture!Live(j),
         UNCHANGED <<doc, row, req, env>>, job[j].at \notin {"running", "finish"},
         \A i \in WebJobs \ {j} : job'[i] = job[i]
  PROVE  Claimed(e)'
  <1>1. OwnDoc(e) /\ Claimed(e)
    BY DEF WebInv
  <1>2. e \notin env.clobbered /\ Active(e) => job[j].gen # doc[e].gen
    BY <1>1 DEF OwnDoc, Capture!Live, Capture!Intact
  <1>3. SUFFICES ASSUME e \notin env.clobbered \cup env.left, Active(e) PROVE Claimed(e)'
    BY DEF Claimed, Active
  <1>4. Capture!Worked(e)'
    BY <1>1, <1>2, <1>3 DEF Claimed, Capture!Worked
  <1>5. Behind(e) => Behind(e)'
    BY DEF Behind, Capture!GivenUp, Capture!On, Capture!Live, Capture!Intact
  <1> QED
    BY <1>1, <1>3, <1>4, <1>5 DEF Claimed

(* A status that cannot be written leaves the claim.                             *)
LEMMA DiesStep ==
  ASSUME WebInv, NEW j \in WebJobs, Capture!RefusedDies(j) \/ Capture!BeginDies(j) \/ Capture!FailDies(j)
  PROVE  WebInv'
  <1>1. /\ job[j].at \in {"refused", "begin", "fail"} /\ Capture!FaultLeaves({job[j].id})
        /\ Capture!JobEnds(j) /\ UNCHANGED <<doc, row, req, locks>>
    BY DEF Capture!RefusedDies, Capture!BeginDies, Capture!FailDies, Capture!Dies, Capture!On
  <1>2. PICK e \in Capture!Ids : e = job[j].id
    BY <1>1, WebThread
  <1>3. /\ job' \in [WebJobs -> WebJob] /\ \A i \in WebJobs \ {j} : job'[i] = job[i]
        /\ job'[j].at = "idle" /\ job'[j].id = 0
    BY <1>1, WebJobEnds
  <1>4. /\ env' \in WebEnv /\ env'.counter = env.counter /\ env'.clobbered = env.clobbered
        /\ env'.left = env.left \cup {e}
    <2>1. {e} \in SUBSET Capture!Ids /\ Capture!FaultLeaves({e})
      BY <1>1, <1>2
    <2> QED
      BY <2>1, WebFaultLeaves
  <1>5. Claimed(e)' /\ (Active(e)' => Active(e))
    BY <1>1, <1>4 DEF Claimed, Active
  <1>6. WebType
    BY DEF WebInv
  <1> QED
    BY <1>1, <1>2, <1>3, <1>4, <1>5, <1>6, WebJobActs DEF WebType

LEMMA GoneStep ==
  ASSUME WebInv, NEW j \in WebJobs, job[j].at \in {"refused", "begin", "save", "fail"}, ~Capture!Live(j),
         UNCHANGED <<doc, row, req, locks, env>>, Capture!JobEnds(j)
  PROVE  WebInv'
  <1>1. PICK e \in Capture!Ids : e = job[j].id
    BY WebThread
  <1>2. /\ job' \in [WebJobs -> WebJob] /\ \A i \in WebJobs \ {j} : job'[i] = job[i]
        /\ job'[j].at = "idle" /\ job'[j].id = 0
    BY WebJobEnds
  <1>3. Claimed(e)'
    BY <1>1, <1>2, GoneClaimed
  <1>4. WebType /\ env \in WebEnv
    BY DEF WebInv, WebType
  <1>5. Active(e)' => Active(e)
    BY DEF Active
  <1> QED
    BY <1>1, <1>2, <1>3, <1>4, <1>5, WebJobActs DEF WebType

LEMMA EnterStep ==
  ASSUME WebInv, NEW j \in WebJobs, Capture!Enter(j) \/ Capture!Dequeue(j) \/ Capture!Answer(j) PROVE WebInv'
  <1>1. /\ job[j].at \in {"slot", "queued", "llm"} /\ UNCHANGED <<doc, row, req, locks, env>>
        /\ \E a \in {"begin", "queued", "refused", "save", "fail"} : Capture!JobAt(j, a)
    BY DEF Capture!Enter, Capture!Dequeue, Capture!Answer, Capture!On
  <1> QED
    BY <1>1, JobOnly

LEMMA RefusedStep == ASSUME WebInv, NEW j \in WebJobs, Capture!Refused(j) PROVE WebInv'
  <1>1. job[j].at = "refused" /\ Capture!JobEnds(j) /\ UNCHANGED <<req, locks>>
    BY DEF Capture!Refused, Capture!On
  <1>2. CASE ~Capture!Live(j)
    BY <1>1, <1>2, GoneStep DEF Capture!Refused
  <1>3. CASE Capture!Live(j)
    <2>1. PICK e \in Capture!Ids : e = job[j].id
      BY <1>1, WebThread
    <2>2. Capture!SetManifest(e, "not_queued")
      BY <1>3, <2>1 DEF Capture!Refused
    <2>3. ~Active(e)' /\ Claimed(e)'
      BY <2>2, WebSets DEF WebStatus, Active, Claimed, Capture!InFlight
    <2>4. WebType /\ env \in WebEnv
      BY DEF WebInv, WebType
    <2>5. CASE Capture!SetRow(e, "not_queued") /\ UNCHANGED env
      BY <1>1, <2>1, <2>2, <2>3, <2>4, <2>5, WebSets, WebSetsRow, WebJobEnds, WebJobActs DEF WebType, WebStatus
    <2>6. CASE Capture!Fault /\ UNCHANGED row
      BY <1>1, <2>1, <2>2, <2>3, <2>4, <2>6, WebSets, WebFault, WebJobEnds, WebJobActs DEF WebType, WebStatus
    <2> QED
      BY <1>3, <2>1, <2>5, <2>6 DEF Capture!Refused
  <1> QED
    BY <1>2, <1>3

LEMMA SummaryBeginStep == ASSUME WebInv, NEW j \in WebJobs, Capture!Begin(j) PROVE WebInv'
  <1>1. job[j].at = "begin" /\ locks.writer[job[j].id] = None /\ UNCHANGED <<row, req, env>>
    BY DEF Capture!Begin, Capture!On, Capture!Writer
  <1>2. CASE ~Capture!Live(j)
    BY <1>1, <1>2, GoneStep DEF Capture!Begin
  <1>3. CASE Capture!Live(j)
    <2>1. PICK e \in Capture!Ids : e = job[j].id
      BY <1>1, WebThread
    <2>2. Capture!JobAt(j, "running") /\ Capture!SetManifest(e, "running")
          /\ locks' = [locks EXCEPT !.writer[e] = j] /\ doc[e].kind = "web" /\ doc[e].gen = job[j].gen
      BY <1>3, <2>1 DEF Capture!Begin, Capture!Take, Capture!Live, Capture!Intact
    <2>3. /\ job' \in [WebJobs -> WebJob] /\ \A i \in WebJobs \ {j} : job'[i] = job[i]
          /\ job'[j].at = "running" /\ job'[j].id = e /\ job'[j].gen = job[j].gen
      BY <2>1, <2>2, WebJobAt
    <2>4. /\ doc' \in [Capture!Ids -> WebDoc] /\ \A d \in Capture!Ids \ {e} : doc'[d] = doc[d]
          /\ doc'[e].kind = doc[e].kind /\ doc'[e].gen = doc[e].gen
          /\ doc'[e].text = doc[e].text /\ doc'[e].digest = doc[e].digest
      BY <2>2, WebSets DEF WebStatus
    <2>5. Claimed(e)'
      BY <2>2, <2>3, <2>4 DEF Claimed, Behind, Capture!Worked
    <2>6. WebType /\ env \in WebEnv
      BY DEF WebInv, WebType
    <2>7. /\ locks' \in [writer : [Capture!Ids -> WebWriters], index : Captures \cup {None}]
          /\ locks'.index = locks.index /\ locks'.writer[e] = j /\ j # Capture!Upload
          /\ \A d \in Capture!Ids \ {e} : locks'.writer[d] = locks.writer[d]
      BY <2>2, WebLocks, WebConstants DEF WebWriters
    <2> QED
      BY <1>1, <2>1, <2>2, <2>3, <2>4, <2>5, <2>6, <2>7, WebJobActs DEF WebType
  <1> QED
    BY <1>2, <1>3

LEMMA BeginRowStep == ASSUME WebInv, NEW j \in WebJobs, Capture!BeginRow(j) PROVE WebInv'
  <1>1. job[j].at = "running" /\ Capture!Give(j) /\ UNCHANGED req
    BY DEF Capture!BeginRow, Capture!On
  <1>2. PICK e \in Capture!Ids : e = job[j].id /\ locks.writer[e] = j
    BY <1>1, WebThread
  <1>3. /\ locks' \in [writer : [Capture!Ids -> WebWriters], index : Captures \cup {None}]
        /\ locks'.index = locks.index /\ locks'.writer[e] = None /\ None # Capture!Upload
        /\ \A d \in Capture!Ids \ {e} : locks'.writer[d] = locks.writer[d]
    <2>1. locks' = [locks EXCEPT !.writer[e] = None]
      BY <1>1, <1>2 DEF Capture!Give
    <2>2. None \in WebWriters /\ None # Capture!Upload
      BY WebConstants DEF WebWriters
    <2> QED
      BY <2>1, <2>2, WebLocks
  <1>4. WebType /\ env \in WebEnv
    BY DEF WebInv, WebType
  <1>5. CASE Capture!SetRow(e, "running") /\ Capture!JobAt(j, "llm") /\ UNCHANGED <<doc, env>>
    <2>1. /\ job' \in [WebJobs -> WebJob] /\ \A i \in WebJobs \ {j} : job'[i] = job[i]
          /\ job'[j].at = "llm" /\ job'[j].id = e /\ job'[j].gen = job[j].gen
      BY <1>2, <1>5, WebJobAt
    <2>2. /\ row' \in [Capture!Ids -> WebRow] /\ \A d \in Capture!Ids \ {e} : row'[d] = row[d]
          /\ row'[e].kind = row[e].kind /\ row'[e].body = row[e].body /\ row'[e].unlocked = row[e].unlocked
          /\ row'[e].kind = "none" \/ row'[e].status = "running"
      BY <1>5, WebSetsRow DEF WebStatus
    <2>3. Claimed(e)' /\ (Active(e)' => Active(e))
      <3>1. Capture!Worked(e) => Capture!Worked(e)'
        BY <1>1, <1>2, <1>5, <2>1 DEF Capture!Worked
      <3>2. Active(e)' => Active(e)
        BY <1>5 DEF Active
      <3> QED
        BY <1>5, <2>2, <3>1, <3>2 DEF WebInv, Claimed, Capture!InFlight
    <2> QED
      BY <1>1, <1>2, <1>3, <1>4, <1>5, <2>1, <2>2, <2>3, WebJobActs DEF WebType
  <1>6. CASE Capture!Fault /\ Capture!SetManifest(e, "failed") /\ Capture!JobEnds(j) /\ UNCHANGED row
    <2>1. /\ job' \in [WebJobs -> WebJob] /\ \A i \in WebJobs \ {j} : job'[i] = job[i]
          /\ job'[j].at = "idle" /\ job'[j].id = 0
      BY <1>6, WebJobEnds
    <2>2. /\ doc' \in [Capture!Ids -> WebDoc] /\ \A d \in Capture!Ids \ {e} : doc'[d] = doc[d]
          /\ doc'[e].status = "failed" /\ doc'[e].kind = doc[e].kind /\ doc'[e].gen = doc[e].gen
          /\ doc'[e].text = doc[e].text /\ doc'[e].digest = doc[e].digest
      BY <1>6, WebSets DEF WebStatus
    <2>3. ~Active(e)' /\ Claimed(e)'
      BY <2>2 DEF Claimed, Active, Capture!InFlight
    <2> QED
      BY <1>1, <1>2, <1>3, <1>4, <1>6, <2>1, <2>2, <2>3, WebFault, WebJobActs DEF WebType
  <1>7. CASE Capture!FaultLeaves({e}) /\ Capture!JobEnds(j) /\ UNCHANGED <<doc, row>>
    <2>1. /\ job' \in [WebJobs -> WebJob] /\ \A i \in WebJobs \ {j} : job'[i] = job[i]
          /\ job'[j].at = "idle" /\ job'[j].id = 0
      BY <1>7, WebJobEnds
    <2>2. /\ env' \in WebEnv /\ env'.counter = env.counter /\ env'.clobbered = env.clobbered
          /\ env'.left = env.left \cup {e}
      <3>1. {e} \in SUBSET Capture!Ids
        OBVIOUS
      <3> QED
        BY <1>7, <3>1, WebFaultLeaves
    <2>3. Claimed(e)' /\ (Active(e)' => Active(e))
      BY <1>7, <2>2 DEF Claimed, Active
    <2> QED
      BY <1>1, <1>2, <1>3, <1>4, <1>7, <2>1, <2>2, <2>3, WebJobActs DEF WebType
  <1> QED
    BY <1>2, <1>5, <1>6, <1>7 DEF Capture!BeginRow

LEMMA SaveStep == ASSUME WebInv, NEW j \in WebJobs, Capture!Save(j) PROVE WebInv'
  <1>1. job[j].at = "save" /\ locks.writer[job[j].id] = None /\ UNCHANGED <<row, req, env>>
    BY DEF Capture!Save, Capture!On, Capture!Writer
  <1>2. CASE ~Capture!Live(j)
    BY <1>1, <1>2, GoneStep DEF Capture!Save
  <1>3. CASE Capture!Live(j)
    <2>1. PICK e \in Capture!Ids : e = job[j].id
      BY <1>1, WebThread
    <2>2. Capture!JobAt(j, "saving") /\ doc' = [doc EXCEPT ![e].digest = job[j].gen]
          /\ locks' = [locks EXCEPT !.writer[e] = j] /\ doc[e].kind = "web" /\ doc[e].gen = job[j].gen
      BY <1>3, <2>1 DEF Capture!Save, Capture!Take, Capture!Live, Capture!Intact
    <2>3. /\ job' \in [WebJobs -> WebJob] /\ \A i \in WebJobs \ {j} : job'[i] = job[i]
          /\ job'[j].at = "saving" /\ job'[j].id = e /\ job'[j].gen = job[j].gen
      BY <2>1, <2>2, WebJobAt
    <2>4. WebType /\ env \in WebEnv /\ job[j].gen \in Nat
      BY DEF WebInv, WebType, WebJob
    <2>5. /\ doc' \in [Capture!Ids -> WebDoc] /\ \A d \in Capture!Ids \ {e} : doc'[d] = doc[d]
          /\ doc'[e].kind = doc[e].kind /\ doc'[e].gen = doc[e].gen /\ doc'[e].status = doc[e].status
          /\ doc'[e].text = doc[e].text /\ doc'[e].digest = job[j].gen
      BY <2>2, <2>4 DEF WebType, WebDoc
    <2>6. e \in env.clobbered \/ doc[e].gen = doc[e].text
      BY DEF WebInv, OwnDoc, Coherent
    <2>7. Claimed(e)' /\ (Active(e)' => Active(e))
      <3>1. Capture!Worked(e) => Capture!Worked(e)'
        BY <1>1, <2>1, <2>3, <2>5 DEF Capture!Worked
      <3>2. Active(e)' => Active(e)
        BY <2>5 DEF Active
      <3>3. Behind(e) => Behind(e)'
        BY <1>1, <2>3, <2>5 DEF Behind, Capture!GivenUp, Capture!On, Capture!Live, Capture!Intact
      <3> QED
        BY <1>1, <3>1, <3>2, <3>3 DEF WebInv, Claimed
    <2>8. /\ locks' \in [writer : [Capture!Ids -> WebWriters], index : Captures \cup {None}]
          /\ locks'.index = locks.index /\ locks'.writer[e] = j /\ j # Capture!Upload
          /\ \A d \in Capture!Ids \ {e} : locks'.writer[d] = locks.writer[d]
      BY <2>2, WebLocks, WebConstants DEF WebWriters
    <2> QED
      BY <1>1, <1>3, <2>1, <2>2, <2>3, <2>4, <2>5, <2>6, <2>7, <2>8, WebJobActs DEF WebType
  <1> QED
    BY <1>2, <1>3

LEMMA SaveRowStep == ASSUME WebInv, NEW j \in WebJobs, Capture!SaveRow(j) PROVE WebInv'
  <1>1. job[j].at = "saving" /\ UNCHANGED <<doc, req>>
    BY DEF Capture!SaveRow, Capture!On
  <1>2. PICK e \in Capture!Ids : e = job[j].id /\ locks.writer[e] = j
    BY <1>1, WebThread
  <1>3. WebType /\ env \in WebEnv /\ (Active(e)' => Active(e))
    BY <1>1 DEF WebInv, WebType, Active
  <1>4. CASE Capture!SetRow(e, "completed") /\ Capture!JobAt(j, "finish") /\ UNCHANGED <<locks, env>>
    <2>1. /\ job' \in [WebJobs -> WebJob] /\ \A i \in WebJobs \ {j} : job'[i] = job[i]
          /\ job'[j].at = "finish" /\ job'[j].id = e /\ job'[j].gen = job[j].gen
      BY <1>2, <1>4, WebJobAt
    <2>2. /\ row' \in [Capture!Ids -> WebRow] /\ \A d \in Capture!Ids \ {e} : row'[d] = row[d]
          /\ row'[e].kind = row[e].kind /\ row'[e].body = row[e].body /\ row'[e].unlocked = row[e].unlocked
      BY <1>4, WebSetsRow DEF WebStatus
    <2>3. Claimed(e)'
      <3>1. Capture!Worked(e) => Capture!Worked(e)'
        BY <1>1, <1>2, <2>1 DEF Capture!Worked
      <3> QED
        BY <1>3, <1>4, <2>1, <3>1 DEF WebInv, Claimed, Behind
    <2> QED
      BY <1>1, <1>2, <1>3, <1>4, <2>1, <2>2, <2>3, WebJobActs DEF WebType
  <1>5. CASE Capture!Fault /\ Capture!JobAt(j, "fail") /\ Capture!Give(j) /\ UNCHANGED row
    <2>1. /\ job' \in [WebJobs -> WebJob] /\ \A i \in WebJobs \ {j} : job'[i] = job[i]
          /\ job'[j].at = "fail" /\ job'[j].id = e /\ job'[j].gen = job[j].gen
      BY <1>2, <1>5, WebJobAt
    <2>2. /\ locks' \in [writer : [Capture!Ids -> WebWriters], index : Captures \cup {None}]
          /\ locks'.index = locks.index /\ locks'.writer[e] = None /\ None # Capture!Upload
          /\ \A d \in Capture!Ids \ {e} : locks'.writer[d] = locks.writer[d]
      <3>1. locks' = [locks EXCEPT !.writer[e] = None]
        BY <1>2, <1>5 DEF Capture!Give
      <3>2. None \in WebWriters /\ None # Capture!Upload
        BY WebConstants DEF WebWriters
      <3> QED
        BY <3>1, <3>2, WebLocks
    <2>3. Claimed(e)'
      <3>1. Capture!Worked(e) => Capture!Worked(e)'
        BY <1>1, <1>2, <2>1 DEF Capture!Worked
      <3>2. env'.clobbered = env.clobbered /\ env'.left = env.left
        BY <1>5, WebFault
      <3>3. Behind(e) => Behind(e)'
        BY <1>1, <1>2, <2>1 DEF Behind, Capture!GivenUp, Capture!On, Capture!Live, Capture!Intact
      <3> QED
        BY <1>3, <1>5, <3>1, <3>2, <3>3 DEF WebInv, Claimed
    <2> QED
      BY <1>1, <1>2, <1>3, <1>5, <2>1, <2>2, <2>3, WebFault, WebJobActs DEF WebType
  <1> QED
    BY <1>2, <1>4, <1>5 DEF Capture!SaveRow

LEMMA FinishStep == ASSUME WebInv, NEW j \in WebJobs, Capture!Finish(j) PROVE WebInv'
  <1>1. job[j].at = "finish" /\ Capture!JobEnds(j) /\ Capture!Give(j) /\ UNCHANGED <<row, req, env>>
    BY DEF Capture!Finish, Capture!On
  <1>2. PICK e \in Capture!Ids : e = job[j].id /\ locks.writer[e] = j
    BY <1>1, WebThread
  <1>3. /\ locks' \in [writer : [Capture!Ids -> WebWriters], index : Captures \cup {None}]
        /\ locks'.index = locks.index /\ locks'.writer[e] = None /\ None # Capture!Upload
        /\ \A d \in Capture!Ids \ {e} : locks'.writer[d] = locks.writer[d]
    <2>1. locks' = [locks EXCEPT !.writer[e] = None]
      BY <1>1, <1>2 DEF Capture!Give
    <2>2. None \in WebWriters /\ None # Capture!Upload
      BY WebConstants DEF WebWriters
    <2> QED
      BY <2>1, <2>2, WebLocks
  <1>4. /\ doc' \in [Capture!Ids -> WebDoc] /\ \A d \in Capture!Ids \ {e} : doc'[d] = doc[d]
        /\ doc'[e].status = "completed" /\ doc'[e].kind = doc[e].kind /\ doc'[e].gen = doc[e].gen
        /\ doc'[e].text = doc[e].text /\ doc'[e].digest = doc[e].digest
    BY <1>2, WebSets DEF WebStatus, Capture!Finish
  <1>5. ~Active(e)' /\ Claimed(e)'
    BY <1>4 DEF Active, Claimed, Capture!InFlight
  <1>6. WebType /\ env \in WebEnv
    BY DEF WebInv, WebType
  <1> QED
    BY <1>1, <1>2, <1>3, <1>4, <1>5, <1>6, WebJobEnds, WebJobActs DEF WebType

(* The status that was not written is the thread's to take back: it has the      *)
(* generation still, unless a merge has put another manifest there.              *)
LEMMA FinishFailsStep == ASSUME WebInv, NEW j \in WebJobs, Capture!FinishFails(j) PROVE WebInv'
  <1>1. /\ job[j].at = "finish" /\ Capture!Fault /\ Capture!JobAt(j, "fail") /\ Capture!Give(j)
        /\ UNCHANGED <<doc, row, req>>
    BY DEF Capture!FinishFails, Capture!On
  <1>2. PICK e \in Capture!Ids : e = job[j].id /\ locks.writer[e] = j
    BY <1>1, WebThread
  <1>3. /\ locks' \in [writer : [Capture!Ids -> WebWriters], index : Captures \cup {None}]
        /\ locks'.index = locks.index /\ locks'.writer[e] = None /\ None # Capture!Upload
        /\ \A d \in Capture!Ids \ {e} : locks'.writer[d] = locks.writer[d]
    <2>1. locks' = [locks EXCEPT !.writer[e] = None]
      BY <1>1, <1>2 DEF Capture!Give
    <2>2. None \in WebWriters /\ None # Capture!Upload
      BY WebConstants DEF WebWriters
    <2> QED
      BY <2>1, <2>2, WebLocks
  <1>4. /\ job' \in [WebJobs -> WebJob] /\ \A i \in WebJobs \ {j} : job'[i] = job[i]
        /\ job'[j].at = "fail" /\ job'[j].id = e /\ job'[j].gen = job[j].gen
    BY <1>1, <1>2, WebJobAt
  <1>5. /\ env' \in WebEnv /\ env'.counter = env.counter /\ env'.clobbered = env.clobbered
        /\ env'.left = env.left
    BY <1>1, WebFault
  <1>6. Claimed(e)'
    <2>1. SUFFICES ASSUME e \notin env.clobbered, e \notin env.left, Active(e), Claimed(e) PROVE Claimed(e)'
      BY <1>1, <1>5 DEF Claimed, Active, WebInv
    <2>2. Capture!Live(j)
      BY <1>1, <1>2, <2>1 DEF WebInv, OwnDoc
    <2>3. Capture!Worked(e)'
      BY <1>1, <1>2, <1>4, <2>2 DEF Capture!Worked, Capture!Live, Capture!Intact
    <2>4. Behind(e)'
      BY <1>1, <1>2, <1>4, <2>2 DEF Behind, Capture!GivenUp, Capture!On, Capture!Live, Capture!Intact
    <2> QED
      BY <2>3, <2>4 DEF Claimed
  <1>7. WebType /\ (Active(e)' => Active(e))
    BY <1>1 DEF WebInv, Active
  <1> QED
    BY <1>1, <1>2, <1>3, <1>4, <1>5, <1>6, <1>7, WebJobActs DEF WebType

LEMMA FailStep == ASSUME WebInv, NEW j \in WebJobs, Capture!Fail(j) PROVE WebInv'
  <1>1. job[j].at = "fail" /\ Capture!JobEnds(j) /\ UNCHANGED <<req, locks>>
    BY DEF Capture!Fail, Capture!On
  <1>2. CASE ~Capture!Live(j)
    BY <1>1, <1>2, GoneStep DEF Capture!Fail
  <1>3. CASE Capture!Live(j)
    <2>1. PICK e \in Capture!Ids : e = job[j].id
      BY <1>1, WebThread
    <2>2. Capture!SetManifest(e, "failed")
      BY <1>3, <2>1 DEF Capture!Fail
    <2>3. ~Active(e)' /\ Claimed(e)'
      BY <2>2, WebSets DEF WebStatus, Active, Claimed, Capture!InFlight
    <2>4. WebType /\ env \in WebEnv
      BY DEF WebInv, WebType
    <2>5. CASE Capture!SetRow(e, "failed") /\ UNCHANGED env
      BY <1>1, <2>1, <2>2, <2>3, <2>4, <2>5, WebSets, WebSetsRow, WebJobEnds, WebJobActs DEF WebType, WebStatus
    <2>6. CASE Capture!Fault /\ UNCHANGED row
      BY <1>1, <2>1, <2>2, <2>3, <2>4, <2>6, WebSets, WebFault, WebJobEnds, WebJobActs DEF WebType, WebStatus
    <2> QED
      BY <1>3, <2>1, <2>5, <2>6 DEF Capture!Fail
  <1> QED
    BY <1>2, <1>3

-----------------------------------------------------------------------------
(* What lies beside: an upload over a capture, a delete, a capture that ages.    *)
LEMMA BesideActs ==
  ASSUME WebInv, NEW e \in Capture!Ids, InUse(e), UNCHANGED <<req, job>>,
         env' \in WebEnv, env'.counter = env.counter,
         \A d \in Capture!Ids \ {e} : /\ d \in env'.clobbered <=> d \in env.clobbered
                                      /\ d \in env'.left <=> d \in env.left,
         doc' \in [Capture!Ids -> WebDoc], \A d \in Capture!Ids \ {e} : doc'[d] = doc[d],
         row' \in [Capture!Ids -> WebRow], \A d \in Capture!Ids \ {e} : row'[d] = row[d],
         row'[e].kind = "web" =>
             row[e].kind = "web" /\ row'[e].body = row[e].body /\ row'[e].unlocked = row[e].unlocked,
         locks' \in [writer : [Capture!Ids -> WebWriters], index : Captures \cup {None}],
         locks'.index = locks.index, \A d \in Capture!Ids \ {e} : locks'.writer[d] = locks.writer[d],
         locks.writer[e] \in {None, Capture!Upload} \/ locks'.writer[e] = locks.writer[e],
         OwnDoc(e)', Claimed(e)'
  PROVE  WebInv'
  <1>1. WebType' /\ env.counter \in Nat
    BY DEF WebInv, WebType, WebEnv
  <1>2. e \in 0..WebIds /\ Lone(0, e)
    BY WebConstants DEF InUse, Lone
  <1>3. Acts(0, e)
    BY <1>1, <1>2, WebConstants DEF Acts
  <1>4. Bodied'
    <2>1. \A d \in Capture!Ids : row'[d].kind = "web" =>
             row[d].kind = "web" /\ row'[d].body = row[d].body /\ row'[d].unlocked = row[d].unlocked
      OBVIOUS
    <2> QED
      BY <2>1, BodiedStays DEF Capture!HoldsHash
  <1> QED
    BY <1>1, <1>2, <1>3, <1>4, WebConstants, WebActs

LEMMA ReplaceStep == ASSUME WebInv, NEW e \in Capture!Ids, Capture!Replace(e) PROVE WebInv'
  <1> DEFINE next == env.gens + 1
             new == [kind |-> "upload", gen |-> next, text |-> next, digest |-> next, status |-> "none"]
  <1>1. /\ row[e].kind = "web" /\ locks.writer[e] = None /\ UNCHANGED <<row, req, job>>
        /\ doc' = [doc EXCEPT ![e] = new] /\ env' = [env EXCEPT !.gens = next, !.replaces = @ + 1]
        /\ locks' = [locks EXCEPT !.writer[e] = Capture!Upload]
    BY DEF Capture!Replace, Capture!Writer
  <1>2. WebType /\ env \in WebEnv /\ next \in Nat /\ InUse(e)
    BY <1>1, ApartFromMinted DEF WebInv, WebType, WebEnv
  <1>3. new \in WebDoc /\ Coherent(new) /\ new.kind = "upload" /\ new.status = "none"
    BY <1>2 DEF WebDoc, Coherent, WebKinds, WebStatus
  <1> HIDE DEF new
  <1>4. /\ env' \in WebEnv /\ env'.counter = env.counter /\ env'.clobbered = env.clobbered
        /\ env'.left = env.left
    <2>1. env.replaces + 1 \in Nat
      BY <1>2 DEF WebEnv
    <2> HIDE DEF next
    <2> QED
      BY <1>1, <1>2, <2>1 DEF WebEnv
  <1>5. doc' \in [Capture!Ids -> WebDoc] /\ doc'[e] = new /\ \A d \in Capture!Ids \ {e} : doc'[d] = doc[d]
    BY <1>1, <1>2, <1>3 DEF WebType
  <1>6. /\ locks' \in [writer : [Capture!Ids -> WebWriters], index : Captures \cup {None}]
        /\ locks'.index = locks.index /\ locks'.writer[e] = Capture!Upload
        /\ \A d \in Capture!Ids \ {e} : locks'.writer[d] = locks.writer[d]
    BY <1>1, WebLocks DEF WebWriters
  <1>7. ~Active(e)' /\ Claimed(e)'
    BY <1>3, <1>5 DEF Active, Claimed, Capture!InFlight
  <1>8. OwnDoc(e)'
    <2>1. /\ \A r \in Captures : req[r].id = e => req[r].at # "claim"
          /\ \A j \in WebJobs : job[j].id = e => job[j].at \notin {"saving", "finish"}
      BY <1>1, WebConstants DEF WebInv, RequestOf, JobOf
    <2> QED
      BY <1>1, <1>3, <1>5, <1>7, <2>1 DEF OwnDoc
  <1> QED
    BY <1>1, <1>2, <1>4, <1>5, <1>6, <1>7, <1>8, BesideActs DEF WebType

LEMMA ReplaceRowStep == ASSUME WebInv, NEW e \in Capture!Ids, Capture!ReplaceRow(e) PROVE WebInv'
  <1> DEFINE new == [Capture!NoRow EXCEPT !.kind = "upload", !.gen = env.gens]
  <1>1. /\ locks.writer[e] = Capture!Upload /\ UNCHANGED <<doc, req, job, env>>
        /\ row' = [row EXCEPT ![e] = new] /\ locks' = [locks EXCEPT !.writer[e] = None]
    BY DEF Capture!ReplaceRow
  <1>2. WebType /\ env \in WebEnv /\ env.gens \in Nat
    BY DEF WebInv, WebType, WebEnv
  <1>3. new \in WebRow /\ new.kind = "upload"
    BY <1>2, WebEmpty DEF WebRow, WebKinds, Capture!NoRow
  <1> HIDE DEF new
  <1>4. row' \in [Capture!Ids -> WebRow] /\ row'[e] = new /\ \A d \in Capture!Ids \ {e} : row'[d] = row[d]
    BY <1>1, <1>2, <1>3 DEF WebType
  <1>5. /\ locks' \in [writer : [Capture!Ids -> WebWriters], index : Captures \cup {None}]
        /\ locks'.index = locks.index /\ locks'.writer[e] = None /\ None # Capture!Upload
        /\ \A d \in Capture!Ids \ {e} : locks'.writer[d] = locks.writer[d]
    <2>1. None \in WebWriters /\ None # Capture!Upload
      BY WebConstants DEF WebWriters
    <2> QED
      BY <1>1, <2>1, WebLocks
  <1>6. InUse(e)
    <2>1. ~NoRowYet(e) /\ e \in Nat /\ env.counter \in Nat
      BY <1>1, WebConstants DEF NoRowYet, WebInv, WebType, WebEnv
    <2> QED
      BY <2>1 DEF WebInv, Minted, InUse
  <1>7. OwnDoc(e) /\ Active(e)' = Active(e)
    BY <1>1 DEF WebInv, Active
  <1>8. OwnDoc(e)'
    BY <1>1, <1>5, <1>7 DEF OwnDoc, Coherent, Capture!Live, Capture!Intact
  <1>9. e \notin env.clobbered => ~Active(e)
    BY <1>1, <1>7 DEF OwnDoc
  <1>10. Claimed(e)'
    BY <1>1, <1>7, <1>9 DEF Claimed
  <1> QED
    BY <1>1, <1>2, <1>3, <1>4, <1>5, <1>6, <1>8, <1>10, BesideActs DEF WebType

LEMMA DeleteCaptureStep == ASSUME WebInv, NEW e \in Capture!Ids, Capture!Delete(e) PROVE WebInv'
  <1>1. /\ row[e].kind # "none" /\ locks.writer[e] = None /\ UNCHANGED <<req, job, locks>>
        /\ doc' = [doc EXCEPT ![e] = Capture!NoDoc] /\ row' = [row EXCEPT ![e] = Capture!NoRow]
        /\ env' = [env EXCEPT !.replaces = @ + 1, !.clobbered = @ \ {e}, !.left = @ \ {e}]
    BY DEF Capture!Delete, Capture!Writer
  <1>2. WebType /\ env \in WebEnv /\ InUse(e)
    BY <1>1, ApartFromMinted DEF WebInv, WebType
  <1>3. /\ env' \in WebEnv /\ env'.counter = env.counter
        /\ env'.clobbered = env.clobbered \ {e} /\ env'.left = env.left \ {e}
    <2>1. env.replaces + 1 \in Nat /\ env.clobbered \ {e} \in SUBSET Capture!Ids
          /\ env.left \ {e} \in SUBSET Capture!Ids
      BY <1>2 DEF WebEnv
    <2> DEFINE x == env.replaces + 1
               y == env.clobbered \ {e}
               z == env.left \ {e}
    <2>2. env' = [env EXCEPT !.replaces = x, !.clobbered = y, !.left = z]
      BY <1>1
    <2>3. x \in Nat /\ y \in SUBSET Capture!Ids /\ z \in SUBSET Capture!Ids
      BY <2>1
    <2> HIDE DEF x, y, z
    <2>4. env' \in WebEnv /\ env'.counter = env.counter /\ env'.clobbered = y /\ env'.left = z
      BY <1>2, <2>2, <2>3 DEF WebEnv
    <2> QED
      BY <2>4 DEF y, z
  <1>4. /\ doc' \in [Capture!Ids -> WebDoc] /\ doc'[e] = Capture!NoDoc
        /\ \A d \in Capture!Ids \ {e} : doc'[d] = doc[d]
        /\ row' \in [Capture!Ids -> WebRow] /\ row'[e] = Capture!NoRow
        /\ \A d \in Capture!Ids \ {e} : row'[d] = row[d]
    BY <1>1, <1>2, WebEmpty DEF WebType
  <1>5. Coherent(doc'[e]) /\ ~Active(e)' /\ Claimed(e)' /\ row'[e].kind = "none"
    BY <1>4, WebEmpty DEF Active, Claimed, Capture!InFlight
  <1>6. OwnDoc(e)'
    <2>1. /\ \A r \in Captures : req[r].id = e => req[r].at # "claim"
          /\ \A j \in WebJobs : job[j].id = e => job[j].at \notin {"saving", "finish"}
      BY <1>1, WebConstants DEF WebInv, RequestOf, JobOf
    <2>2. locks'.writer[e] # Capture!Upload /\ doc'[e].kind = "none"
      BY <1>1, <1>4, WebConstants, WebEmpty
    <2> QED
      BY <1>1, <1>5, <2>1, <2>2 DEF OwnDoc
  <1> QED
    BY <1>1, <1>2, <1>3, <1>4, <1>5, <1>6, BesideActs DEF WebType

LEMMA AgeStep == ASSUME WebInv, NEW e \in Capture!Ids, Capture!Age(e) PROVE WebInv'
  <1>1. /\ row[e].fresh /\ UNCHANGED <<doc, req, job, locks, env>>
        /\ row' = [row EXCEPT ![e].fresh = FALSE]
    BY DEF Capture!Age
  <1>2. WebType /\ env \in WebEnv
    BY DEF WebInv, WebType
  <1>3. /\ row' \in [Capture!Ids -> WebRow] /\ \A d \in Capture!Ids \ {e} : row'[d] = row[d]
        /\ row'[e].kind = row[e].kind /\ row'[e].body = row[e].body /\ row'[e].unlocked = row[e].unlocked
        /\ row'[e].status = row[e].status
    BY <1>1, <1>2 DEF WebType, WebRow
  <1>4. InUse(e)
    <2>1. ~NoRowYet(e) /\ e \in Nat /\ env.counter \in Nat
      BY <1>1, WebConstants DEF NoRowYet, Capture!NoRow, WebInv, WebType, WebEnv
    <2> QED
      BY <2>1 DEF WebInv, Minted, InUse
  <1>5. OwnDoc(e)' /\ Claimed(e)'
    BY <1>1, <1>3, Steady
  <1> QED
    BY <1>1, <1>2, <1>3, <1>4, <1>5, BesideActs DEF WebType

(* A crash ends every request and every thread; the start that follows fails     *)
(* what nobody works for, but what it can not tell.                              *)
LEMMA CaptureCrashStep == ASSUME WebInv, Capture!Crash PROVE WebInv'
  <1>1. WebType /\ env \in WebEnv /\ env.counter \in Nat
    BY DEF WebInv, WebType, WebEnv
  <1>2. /\ job' = [j \in WebJobs |-> Capture!NoJob] /\ locks' = Capture!Unlocked
        /\ req' = [r \in Captures |-> IF req[r].at = "idle" THEN req[r]
                                      ELSE [Capture!NoRequest EXCEPT !.at = "done"]]
        /\ doc' = [d \in Capture!Ids |-> IF Capture!Sweeps(d) THEN [doc[d] EXCEPT !.status = "failed"] ELSE doc[d]]
        /\ row' = [d \in Capture!Ids |-> IF Capture!Sweeps(d) THEN [row[d] EXCEPT !.status = "failed"] ELSE row[d]]
    BY DEF Capture!Crash, Capture!At
  <1>3. /\ env' \in WebEnv /\ env'.counter = env.counter /\ env'.clobbered = env.clobbered
        /\ env'.left = {d \in Capture!Ids :
              doc[d].status \in Capture!InFlight /\ ~Capture!Sweeps(d)
              /\ (d \in env.left \/ ~Capture!Writer(d) \/ row[d].kind = "none" \/ Capture!GivenUp(d))}
    <2> DEFINE x == env.crashes + 1
               z == {d \in Capture!Ids :
                        doc[d].status \in Capture!InFlight /\ ~Capture!Sweeps(d)
                        /\ (d \in env.left \/ ~Capture!Writer(d) \/ row[d].kind = "none"
                            \/ Capture!GivenUp(d))}
    <2>1. env' = [env EXCEPT !.crashes = x, !.left = z]
      BY DEF Capture!Crash
    <2>2. x \in Nat /\ z \in SUBSET Capture!Ids
      BY <1>1 DEF WebEnv
    <2> HIDE DEF x, z
    <2>3. env' \in WebEnv /\ env'.counter = env.counter /\ env'.clobbered = env.clobbered /\ env'.left = z
      BY <1>1, <2>1, <2>2 DEF WebEnv
    <2> QED
      BY <2>3 DEF z
  <1>4. \A d \in Capture!Ids :
           /\ doc'[d] \in WebDoc /\ doc'[d].kind = doc[d].kind /\ doc'[d].gen = doc[d].gen
           /\ doc'[d].text = doc[d].text /\ doc'[d].digest = doc[d].digest
           /\ IF Capture!Sweeps(d) THEN doc'[d].status = "failed" ELSE doc'[d] = doc[d]
    BY <1>1, <1>2 DEF WebType, WebDoc, WebStatus
  <1>5. \A d \in Capture!Ids :
           /\ row'[d] \in WebRow /\ row'[d].kind = row[d].kind /\ row'[d].body = row[d].body
           /\ row'[d].unlocked = row[d].unlocked /\ (~Capture!Sweeps(d) => row'[d] = row[d])
    <2> SUFFICES ASSUME NEW d \in Capture!Ids
                 PROVE  /\ row'[d] \in WebRow /\ row'[d].kind = row[d].kind /\ row'[d].body = row[d].body
                        /\ row'[d].unlocked = row[d].unlocked /\ (~Capture!Sweeps(d) => row'[d] = row[d])
      OBVIOUS
    <2>1. /\ row[d] \in WebRow
          /\ row'[d] = IF Capture!Sweeps(d) THEN [row[d] EXCEPT !.status = "failed"] ELSE row[d]
      BY <1>1, <1>2 DEF WebType
    <2>2. /\ [row[d] EXCEPT !.status = "failed"] \in WebRow
          /\ [row[d] EXCEPT !.status = "failed"].kind = row[d].kind
          /\ [row[d] EXCEPT !.status = "failed"].body = row[d].body
          /\ [row[d] EXCEPT !.status = "failed"].unlocked = row[d].unlocked
      BY <2>1 DEF WebRow, WebStatus
    <2> QED
      BY <2>1, <2>2
  <1>6. \A r \in Captures :
           /\ req'[r] \in WebRequest /\ req'[r].body = None
           /\ \/ req[r].at = "idle" /\ req'[r] = req[r]
              \/ req'[r].at = "done" /\ req'[r].id = 0
    <2> DEFINE x == [Capture!NoRequest EXCEPT !.at = "done"]
    <2>1. x \in WebRequest /\ x.at = "done" /\ x.id = 0 /\ x.body = None
      BY WebEmpty DEF WebRequest, Capture!NoRequest
    <2>2. \A r \in Captures : req'[r] = IF req[r].at = "idle" THEN req[r] ELSE x
      BY <1>2
    <2>3. \A r \in Captures : req[r] \in WebRequest /\ (req[r].at = "idle" => req[r].body = None)
      BY <1>1 DEF WebInv, WebType, RequestOf
    <2> HIDE DEF x
    <2> QED
      BY <2>1, <2>2, <2>3
  <1>7. /\ locks' \in [writer : [Capture!Ids -> WebWriters], index : Captures \cup {None}]
        /\ locks'.index = None /\ \A d \in Capture!Ids : locks'.writer[d] = None
    BY <1>2 DEF Capture!Unlocked, WebWriters
  <1>8. \A j \in WebJobs : job'[j] = Capture!NoJob
    BY <1>2
  <1>9. WebType'
    BY <1>2, <1>3, <1>4, <1>5, <1>6, <1>7, WebEmpty DEF WebType
  <1>10. Minted'
    <2>1. ASSUME NEW d \in Capture!Ids, d >= env.counter PROVE NoRowYet(d)' /\ doc'[d] = Capture!NoDoc
      <3>1. row[d] = Capture!NoRow /\ doc[d] = Capture!NoDoc
        BY <2>1 DEF WebInv, Minted, NoRowYet
      <3>2. ~Capture!Sweeps(d)
        BY <3>1, WebEmpty DEF Capture!Sweeps, Capture!InFlight
      <3> QED
        BY <1>4, <1>5, <1>7, <3>1, <3>2 DEF NoRowYet
    <2>2. \A r \in Captures : req'[r].at \notin {"publish", "index"}
      BY <1>6
    <2> QED
      BY <1>3, <2>1, <2>2 DEF Minted
  <1>11. Bodied'
    BY <1>5, <1>6, BodiedStays DEF Storing, Capture!HoldsHash
  <1>12. ASSUME NEW r \in Captures PROVE RequestOf(r)'
    <2>1. req[r].id < env.counter /\ req[r].id \in 0..WebIds
      BY <1>1 DEF WebInv, RequestOf, WebType, WebRequest
    <2> QED
      BY <1>1, <1>3, <1>6, <1>7, <2>1, WebConstants DEF RequestOf, Placed
  <1>13. ASSUME NEW j \in WebJobs PROVE JobOf(j)'
    <2>1. job[j].id < env.counter /\ job[j].id \in 0..WebIds
      BY <1>1 DEF WebInv, JobOf, WebType, WebJob
    <2> QED
      BY <1>1, <1>3, <1>8, <2>1, WebEmpty, WebConstants DEF JobOf
  <1>14. ASSUME NEW d \in Capture!Ids PROVE OwnDoc(d)'
    <2>1. Active(d)' => Active(d)
      BY <1>4 DEF Active, Capture!InFlight
    <2>2. locks'.writer[d] # Capture!Upload
      BY <1>7, WebConstants
    <2>3. /\ \A r \in Captures : req'[r].at \notin {"claim", "schedule"}
          /\ \A j \in WebJobs : job'[j].at \notin {"saving", "finish"}
      BY <1>6, <1>8, WebEmpty
    <2> QED
      BY <1>3, <1>4, <2>1, <2>2, <2>3, OwnKeeps
  <1>15. ASSUME NEW d \in Capture!Ids PROVE Claimed(d)'
    <2>1. SUFFICES ASSUME d \notin env'.clobbered, d \notin env'.left, Active(d)' PROVE FALSE
      BY DEF Claimed
    <2>2. Active(d) /\ ~Capture!Sweeps(d)
      BY <1>4, <2>1 DEF Active, Capture!InFlight
    <2>3. /\ row[d].kind # "none" /\ locks.writer[d] = None /\ row[d].status \notin Capture!InFlight
          /\ d \notin env.left /\ ~Capture!GivenUp(d)
      BY <1>3, <2>1, <2>2 DEF Active, Capture!Sweeps, Capture!Writer
    <2>4. \/ \E r \in Captures : req[r].id = d /\ req[r].at = "claim"
          \/ \E j \in WebJobs : job[j].id = d /\ job[j].at \in {"running", "finish"}
      BY <1>3, <2>1, <2>2, <2>3 DEF WebInv, Claimed, Behind
    <2> QED
      BY <2>3, <2>4, WebConstants DEF WebInv, RequestOf, JobOf
  <1> QED
    BY <1>9, <1>10, <1>11, <1>12, <1>13, <1>14, <1>15 DEF WebInv

LEMMA WebStep == ASSUME WebInv, [Capture!Next]_(Capture!vars) PROVE WebInv'
  <1>1. ASSUME NEW r \in Captures, Capture!Capture(r) PROVE WebInv'
    BY <1>1, LookStep, FetchStep, LockHashStep, MergeReadStep, MergeWriteStep, ClaimStep, ClaimRowStep,
       ClaimFailsStep, MintStep, PublishStep, PublishRowStep, PublishFailsStep, ScheduleStep, CancelledStep
       DEF Capture!Capture
  <1>2. ASSUME NEW r \in Captures, NEW url \in Urls, NEW force \in BOOLEAN, Capture!Ask(r, url, force)
        PROVE  WebInv'
    BY <1>2, AskStep
  <1>3. ASSUME NEW j \in WebJobs, Capture!Summary(j) PROVE WebInv'
    BY <1>3, EnterStep, RefusedStep, SummaryBeginStep, BeginRowStep, SaveStep, SaveRowStep, FinishStep,
       FinishFailsStep, FailStep, DiesStep DEF Capture!Summary
  <1>4. ASSUME NEW d \in Capture!Ids, Capture!Replace(d) \/ Capture!ReplaceRow(d) \/ Capture!Delete(d) \/ Capture!Age(d)
        PROVE  WebInv'
    BY <1>4, ReplaceStep, ReplaceRowStep, DeleteCaptureStep, AgeStep
  <1>5. CASE Capture!Crash
    BY <1>5, CaptureCrashStep
  <1>6. CASE UNCHANGED Capture!vars
    BY <1>6 DEF Capture!vars, WebInv, WebType, Minted, NoRowYet, Own, Bodied, OneDocPerBody, Capture!OneDocPerBody,
       Capture!Captured, Capture!HoldsHash, RequestOf, JobOf, OwnDoc, Claimed, Behind, Coherent, Active, Capture!Worked,
       Capture!GivenUp, Capture!On, Capture!Live, Capture!Intact
  <1> QED
    BY <1>1, <1>2, <1>3, <1>4, <1>5, <1>6 DEF Capture!Next

LEMMA WebAlways == ASSUME WebInv, [Next]_vars PROVE WebInv'
  <1>1. [Capture!Next]_(Capture!vars)
    BY StepOfBrowser DEF captureVars, Capture!vars
  <1> QED
    BY <1>1, WebStep

(* Web captures: no two rows have the same body, but where one was stored by a   *)
(* thread without the lock of the body, forced or left alone by its client, for  *)
(* every number of captures, URLs, bodies and ids, whatever fails, whoever       *)
(* leaves and wherever the process dies.                                         *)
THEOREM OneDocumentPerBody == Spec => []OneDocPerBody
  <1>1. Init => WebInv
    BY WebStarts DEF Init
  <1>2. WebInv /\ [Next]_vars => WebInv'
    BY WebAlways
  <1>3. WebInv => OneDocPerBody
    BY DEF WebInv, Bodied
  <1> QED
    BY <1>1, <1>2, <1>3, PTL DEF Spec

(* Web captures: the manifest and the digest are of the text of the document,    *)
(* where no merge has put an older manifest back, however an upload, a delete    *)
(* and the summary threads of its generations interleave.                        *)
THEOREM SummariesOfTheirTexts == Spec => []SummaryOfItsText
  <1>1. Init => WebInv
    BY WebStarts DEF Init
  <1>2. WebInv /\ [Next]_vars => WebInv'
    BY WebAlways
  <1>3. WebInv => SummaryOfItsText
    BY DEF WebInv, OwnDoc, Coherent, SummaryOfItsText, Capture!SummaryOfItsText
  <1> QED
    BY <1>1, <1>2, <1>3, PTL DEF Spec

(* Web captures: a summary that is said to be pending or running has a thread    *)
(* behind it, or the request that is about to start one, after failed row        *)
(* writes, cancelled requests and crashes too; those excepted that a failing     *)
(* status or thread start, a client that left or a crash has left.               *)
THEOREM ClaimsAreWorked == Spec => []ClaimIsWorked
  <1>1. Init => WebInv
    BY WebStarts DEF Init
  <1>2. WebInv /\ [Next]_vars => WebInv'
    BY WebAlways
  <1>3. WebInv => ClaimIsWorked
    BY DEF WebInv, Claimed, Active, ClaimIsWorked, Capture!ClaimIsWorked
  <1> QED
    BY <1>1, <1>2, <1>3, PTL DEF Spec

-----------------------------------------------------------------------------
(* A queue of a lock: who waits in it, in which order, each once.                *)
Has(q, a)       == \E i \in DOMAIN q : q[i] = a
Before(q, a, b) == \E i, j \in DOMAIN q : i < j /\ q[i] = a /\ q[j] = b
OneTurn(q)      == \A i, j \in DOMAIN q : q[i] = q[j] => i = j
Joined(q, p, long) ==
    /\ OneTurn(long)
    /\ \A a : Has(long, a) <=> (Has(q, a) \/ a = p)
    /\ \A a, b : Before(long, a, b) => Before(q, a, b) \/ (b = p /\ Has(q, a))
Left(q, p, short) ==
    /\ OneTurn(short) /\ Has(q, p)
    /\ \A a : Has(short, a) <=> (Has(q, a) /\ a # p)
    /\ \A a, b : Before(short, a, b) => Before(q, a, b)
    /\ \A a : Has(short, a) => Before(q, p, a)
Gone(q, p, short) ==
    /\ OneTurn(short) /\ Has(q, p)
    /\ \A a : Has(short, a) <=> (Has(q, a) /\ a # p)
    /\ \A a, b : Before(short, a, b) => Before(q, a, b)

(* Who joins a queue is behind all who are in it.                                *)
LEMMA JoinsQueue ==
  ASSUME NEW S, NEW q \in Seq(S), NEW p \in S, OneTurn(q), ~Has(q, p)
  PROVE  Append(q, p) \in Seq(S) /\ Joined(q, p, Append(q, p))
  <1> DEFINE long == Append(q, p)
  <1>1. /\ long \in Seq(S) /\ Len(q) \in Nat
        /\ DOMAIN q = 1..Len(q) /\ DOMAIN long = 1..(Len(q) + 1)
        /\ \A i \in 1..Len(q) : long[i] = q[i]
        /\ long[Len(q) + 1] = p
    OBVIOUS
  <1> HIDE DEF long
  <1>2. OneTurn(long)
    BY <1>1 DEF OneTurn, Has
  <1>3. ASSUME NEW a PROVE Has(long, a) <=> (Has(q, a) \/ a = p)
    BY <1>1 DEF Has
  <1>4. ASSUME NEW a, NEW b, Before(long, a, b) PROVE Before(q, a, b) \/ (b = p /\ Has(q, a))
    BY <1>1, <1>4 DEF Has, Before
  <1> QED
    BY <1>1, <1>2, <1>3, <1>4 DEF long, Joined

(* Who leaves from its head was before all others.                               *)
LEMMA LeavesQueue ==
  ASSUME NEW S, NEW q \in Seq(S), q # <<>>, OneTurn(q)
  PROVE  Tail(q) \in Seq(S) /\ Left(q, Head(q), Tail(q))
  <1> DEFINE short == Tail(q)
  <1>1. /\ short \in Seq(S) /\ Len(q) \in Nat \ {0}
        /\ DOMAIN q = 1..Len(q) /\ DOMAIN short = 1..(Len(q) - 1)
        /\ \A i \in 1..(Len(q) - 1) : short[i] = q[i + 1]
        /\ Head(q) = q[1]
    OBVIOUS
  <1> HIDE DEF short
  <1>2. OneTurn(short)
    <2> SUFFICES ASSUME NEW i \in DOMAIN short, NEW j \in DOMAIN short, short[i] = short[j] PROVE i = j
      BY DEF OneTurn
    <2>1. i + 1 \in DOMAIN q /\ j + 1 \in DOMAIN q /\ q[i + 1] = q[j + 1]
      BY <1>1
    <2>2. i + 1 = j + 1
      BY <2>1 DEF OneTurn
    <2> QED
      BY <2>2, <1>1
  <1>3. Has(q, Head(q))
    BY <1>1 DEF Has
  <1>4. ASSUME NEW a, Has(short, a) PROVE Has(q, a) /\ a # Head(q) /\ Before(q, Head(q), a)
    <2>1. PICK i \in 1..(Len(q) - 1) : short[i] = a
      BY <1>1, <1>4 DEF Has
    <2>2. i + 1 \in DOMAIN q /\ q[i + 1] = a /\ 1 \in DOMAIN q /\ 1 < i + 1 /\ 1 # i + 1
      BY <1>1, <2>1
    <2>3. a # q[1]
      BY <2>2 DEF OneTurn
    <2> QED
      BY <1>1, <2>2, <2>3 DEF Has, Before
  <1>5. ASSUME NEW a, Has(q, a), a # Head(q) PROVE Has(short, a)
    <2>1. PICK i \in 1..Len(q) : q[i] = a
      BY <1>1, <1>5 DEF Has
    <2>2. i - 1 \in 1..(Len(q) - 1) /\ (i - 1) + 1 = i
      BY <1>1, <1>5, <2>1
    <2>3. short[i - 1] = a
      BY <1>1, <2>1, <2>2
    <2> QED
      BY <1>1, <2>2, <2>3 DEF Has
  <1>6. ASSUME NEW a, NEW b, Before(short, a, b) PROVE Before(q, a, b)
    <2>1. PICK i \in 1..(Len(q) - 1), j \in 1..(Len(q) - 1) : i < j /\ short[i] = a /\ short[j] = b
      BY <1>1, <1>6 DEF Before
    <2>2. i + 1 \in DOMAIN q /\ j + 1 \in DOMAIN q /\ i + 1 < j + 1 /\ q[i + 1] = a /\ q[j + 1] = b
      BY <1>1, <2>1
    <2> QED
      BY <2>2 DEF Before
  <1> QED
    BY <1>1, <1>2, <1>3, <1>4, <1>5, <1>6 DEF short, Left

(* Who leaves from its midst leaves the others as they stand.                    *)
LEMMA LeavesMidst ==
  ASSUME NEW S, NEW q \in Seq(S), OneTurn(q), NEW k \in DOMAIN q
  PROVE  Session!RemoveAt(q, k) \in Seq(S) /\ Gone(q, q[k], Session!RemoveAt(q, k))
  <1> DEFINE short == Session!RemoveAt(q, k)
             Was(i) == IF i < k THEN i ELSE i + 1
  <1>1. /\ Len(q) \in Nat /\ DOMAIN q = 1..Len(q) /\ k \in 1..Len(q)
        /\ \A i \in 1..Len(q) : q[i] \in S
    OBVIOUS
  <1>2. /\ short \in Seq(S) /\ DOMAIN short = 1..(Len(q) - 1)
        /\ \A i \in 1..(Len(q) - 1) : short[i] = q[Was(i)]
    <2>1. /\ SubSeq(q, 1, k - 1) \in Seq(S) /\ Len(SubSeq(q, 1, k - 1)) = k - 1
          /\ \A i \in 1..(k - 1) : SubSeq(q, 1, k - 1)[i] = q[i]
      <3>1. 1 \in Int /\ k - 1 \in Int /\ \A i \in 1..(k - 1) : q[i] \in S
        BY <1>1
      <3>2. /\ SubSeq(q, 1, k - 1) \in Seq(S)
            /\ Len(SubSeq(q, 1, k - 1)) = IF 1 <= k - 1 THEN (k - 1) - 1 + 1 ELSE 0
            /\ \A i \in 1..((k - 1) - 1 + 1) : SubSeq(q, 1, k - 1)[i] = q[1 + i - 1]
        BY <3>1, SubSeqProperties
      <3>3. \A i \in 1..(k - 1) : 1 + i - 1 = i /\ i \in 1..((k - 1) - 1 + 1)
        BY <1>1
      <3> QED
        BY <1>1, <3>2, <3>3
    <2>2. /\ SubSeq(q, k + 1, Len(q)) \in Seq(S) /\ Len(SubSeq(q, k + 1, Len(q))) = Len(q) - k
          /\ \A i \in 1..(Len(q) - k) : SubSeq(q, k + 1, Len(q))[i] = q[i + k]
      <3>1. k + 1 \in Int /\ Len(q) \in Int /\ \A i \in (k + 1)..Len(q) : q[i] \in S
        BY <1>1
      <3>2. /\ SubSeq(q, k + 1, Len(q)) \in Seq(S)
            /\ Len(SubSeq(q, k + 1, Len(q))) = IF k + 1 <= Len(q) THEN Len(q) - (k + 1) + 1 ELSE 0
            /\ \A i \in 1..(Len(q) - (k + 1) + 1) : SubSeq(q, k + 1, Len(q))[i] = q[(k + 1) + i - 1]
        BY <3>1, SubSeqProperties
      <3>3. \A i \in 1..(Len(q) - k) : (k + 1) + i - 1 = i + k /\ i \in 1..(Len(q) - (k + 1) + 1)
        BY <1>1
      <3> QED
        BY <1>1, <3>2, <3>3
    <2>3. PICK a, b : a = SubSeq(q, 1, k - 1) /\ b = SubSeq(q, k + 1, Len(q)) /\ short = a \o b
      BY DEF Session!RemoveAt
    <2>4. /\ short \in Seq(S) /\ Len(short) = Len(q) - 1
          /\ \A i \in 1..(Len(q) - 1) : short[i] = IF i <= k - 1 THEN a[i] ELSE b[i - (k - 1)]
      <3>1. a \in Seq(S) /\ b \in Seq(S) /\ Len(a) = k - 1 /\ Len(b) = Len(q) - k
        BY <2>1, <2>2, <2>3
      <3>2. /\ a \o b \in Seq(S) /\ Len(a \o b) = Len(a) + Len(b)
            /\ \A i \in 1..(Len(a) + Len(b)) : (a \o b)[i] = IF i <= Len(a) THEN a[i] ELSE b[i - Len(a)]
        BY <3>1, ConcatProperties
      <3>3. (k - 1) + (Len(q) - k) = Len(q) - 1
        BY <1>1
      <3> HIDE DEF short
      <3> QED
        BY <2>3, <3>1, <3>2, <3>3
    <2>5. ASSUME NEW i \in 1..(Len(q) - 1) PROVE short[i] = q[Was(i)]
      <3>1. CASE i <= k - 1
        BY <1>1, <2>1, <2>3, <2>4, <3>1
      <3>2. CASE i > k - 1
        <4>1. i - (k - 1) \in 1..(Len(q) - k) /\ (i - (k - 1)) + k = i + 1
          BY <1>1, <3>2
        <4> QED
          <5>1. short[i] = b[i - (k - 1)] /\ ~(i < k)
            BY <1>1, <2>4, <3>2
          <5>2. b[i - (k - 1)] = q[i + 1]
            BY <2>2, <2>3, <4>1
          <5> QED
            BY <5>1, <5>2
      <3> QED
        BY <1>1, <3>1, <3>2
    <2> QED
      BY <1>1, <2>4, <2>5
  <1>3. /\ \A i \in 1..(Len(q) - 1) : Was(i) \in DOMAIN q \ {k}
        /\ \A i, j \in 1..(Len(q) - 1) : i < j => Was(i) < Was(j)
        /\ \A i, j \in 1..(Len(q) - 1) : Was(i) = Was(j) => i = j
        /\ \A i \in DOMAIN q \ {k} : \E j \in 1..(Len(q) - 1) : Was(j) = i
    <2>1. ASSUME NEW i \in DOMAIN q \ {k} PROVE \E j \in 1..(Len(q) - 1) : Was(j) = i
      <3>1. CASE i < k
        BY <1>1, <3>1
      <3>2. CASE i > k
        <4>1. i - 1 \in 1..(Len(q) - 1) /\ Was(i - 1) = i
          BY <1>1, <3>2
        <4> QED
          BY <4>1
      <3> QED
        BY <1>1, <3>1, <3>2
    <2> QED
      BY <1>1, <2>1
  <1> HIDE DEF short, Was
  <1>4. OneTurn(short)
    BY <1>2, <1>3 DEF OneTurn
  <1>5. ASSUME NEW a PROVE Has(short, a) <=> (Has(q, a) /\ a # q[k])
    <2>1. ASSUME Has(short, a) PROVE Has(q, a) /\ a # q[k]
      <3>1. PICK i \in 1..(Len(q) - 1) : q[Was(i)] = a
        BY <1>2, <2>1 DEF Has
      <3>2. Was(i) \in DOMAIN q /\ Was(i) # k
        BY <1>3
      <3> QED
        BY <3>1, <3>2 DEF Has, OneTurn
    <2>2. ASSUME Has(q, a), a # q[k] PROVE Has(short, a)
      <3>1. PICK i \in DOMAIN q \ {k} : q[i] = a
        BY <2>2 DEF Has
      <3>2. PICK j \in 1..(Len(q) - 1) : Was(j) = i
        BY <1>3
      <3> QED
        BY <1>2, <3>1, <3>2 DEF Has
    <2> QED
      BY <2>1, <2>2
  <1>6. ASSUME NEW a, NEW b, Before(short, a, b) PROVE Before(q, a, b)
    <2>1. PICK i \in 1..(Len(q) - 1), j \in 1..(Len(q) - 1) : i < j /\ q[Was(i)] = a /\ q[Was(j)] = b
      BY <1>2, <1>6 DEF Before
    <2> QED
      BY <1>3, <2>1 DEF Before
  <1> QED
    BY <1>2, <1>4, <1>5, <1>6 DEF short, Gone, Has

-----------------------------------------------------------------------------
(* Browser sessions: who waits for which lock in which order, and who owns what. *)
SessKinds   == {"new", "capture"} \cup Session!Operations
SessCall    == [at : {"idle", "queue", "slot", "setup", "evict", "work", "drop", "close", "done"},
                kind : SessKinds \cup {None}, sid : Sids \cup {None}, victim : Sids \cup {None},
                bad : BOOLEAN]
Lockers     == Callers \cup {Sweeper}
SessSession == [ctx : {"none", "open", "closed"}, closed : BOOLEAN, lost : BOOLEAN, lock : Seq(Lockers),
                seen : {"none", "this", "earlier"}, tools : {"none", "this", "earlier"}]
SessSweep   == [todo : SUBSET Sids, at : {"asleep", "next", "close"}, faults : Nat]
SessType ==
    /\ call \in [Callers -> SessCall] /\ sess \in [Sids -> SessSession]
    /\ table \in SUBSET Sids /\ old \in SUBSET table /\ sweep \in SessSweep

Works(a)    == a \in Callers /\ call[a].at = "work"
Operates(a) == Works(a) /\ call[a].kind \in Session!Operations
Owned(s) ==
    \/ s \in table \cup sweep.todo
    \/ \E p \in Callers :
         \/ call[p].sid = s /\ call[p].at \in {"setup", "close"}
         \/ call[p].victim = s /\ call[p].at = "evict"

(* The queue of a session holds who waits for it.  Nobody closes a session before *)
(* an endpoint that waits for it, since a closer joins the queue when the session *)
(* is out of the table and an endpoint only while it is in.                       *)
Queue(s) ==
    /\ OneTurn(sess[s].lock)
    /\ \A p \in Callers : Has(sess[s].lock, p) <=> s \in Session!WaitsFor(p)
    /\ Has(sess[s].lock, Sweeper) => sweep.at = "close" /\ s \in sweep.todo
Served(s) ==
    \A p \in Callers : Operates(p) /\ Has(sess[s].lock, p) =>
        /\ sess[s].ctx = "open"
        /\ \A a \in Lockers : Before(sess[s].lock, a, p) => Works(a)
Listed(s) == s \in table =>
    /\ sess[s].ctx = "open" /\ s \notin sweep.todo
    /\ \A a \in Lockers : Has(sess[s].lock, a) => Works(a)
Fresh(s) == sess[s].ctx = "none" =>
    /\ s \notin table \cup sweep.todo
    /\ \A a \in Lockers : ~Has(sess[s].lock, a)
    /\ \A p \in Callers : call[p].sid # s /\ call[p].victim # s
SessionOf(s) ==
    Queue(s) /\ Served(s) /\ Listed(s) /\ Fresh(s) /\ (sess[s].ctx = "open" => sess[s].lost \/ Owned(s))

(* A session that is being set up is known to nobody else.                        *)
SetsUp(p) ==
    /\ call[p].sid \in Sids /\ sess[call[p].sid].ctx = "open"
    /\ call[p].sid \notin table \cup sweep.todo
    /\ \A a \in Lockers : ~Has(sess[call[p].sid].lock, a)
    /\ \A q \in Callers : call[q].victim # call[p].sid /\ (q # p => call[q].sid # call[p].sid)
CallerOf(p) ==
    /\ call[p].at = "idle" => call[p] = Session!NoCall
    /\ call[p].at \in {"queue", "slot", "setup", "evict"} => call[p].kind \in {"new", "capture"}
    /\ call[p].at = "work" => call[p].kind \in {"capture"} \cup Session!Operations
    /\ call[p].at \in {"setup", "evict", "work", "drop", "close"} => call[p].sid \in Sids
    /\ call[p].at = "evict" => call[p].victim \in Sids /\ call[p].victim # call[p].sid
    /\ call[p].kind \in Session!Operations => ~call[p].bad
    /\ call[p].at = "setup" => SetsUp(p)
Swept ==
    /\ sweep.at = "asleep" => sweep.todo = {}
    /\ \A s, t \in Sids : Has(sess[s].lock, Sweeper) /\ Has(sess[t].lock, Sweeper) => s = t

SessInv ==
    /\ SessType /\ Swept
    /\ \A s \in Sids : SessionOf(s)
    /\ \A p \in Callers : CallerOf(p)

LEMMA SessConstants ==
  /\ None \notin Sids /\ Sweeper \notin Callers /\ Sweeper \in Lockers /\ Callers \subseteq Lockers
  /\ "new" \notin Session!Operations /\ "capture" \notin Session!Operations
  BY MCPartsAssumption DEF Session!SessionsAssumption, Session!Operations, Lockers

LEMMA SessStarts == ASSUME Session!Init PROVE SessInv
  <1>1. /\ table = {} /\ old = {} /\ sess \in [Sids -> {Session!NoSession}]
        /\ call \in [Callers -> {Session!NoCall}] /\ sweep = [todo |-> {}, at |-> "asleep", faults |-> 0]
    BY DEF Session!Init
  <1>2. /\ Session!NoSession \in SessSession /\ Session!NoSession.ctx = "none"
        /\ \A a : ~Has(Session!NoSession.lock, a) /\ OneTurn(Session!NoSession.lock)
    BY DEF Session!NoSession, SessSession, Has, OneTurn
  <1>3. /\ Session!NoCall \in SessCall /\ Session!NoCall.at = "idle" /\ Session!NoCall.kind = None
        /\ Session!NoCall.sid = None /\ Session!NoCall.victim = None /\ ~Session!NoCall.bad
    BY DEF Session!NoCall, SessCall
  <1>4. SessType
    <2>1. call \in [Callers -> SessCall] /\ sess \in [Sids -> SessSession]
      BY <1>1, <1>2, <1>3
    <2> QED
      BY <1>1, <2>1 DEF SessType, SessSweep
  <1>5. /\ \A s \in Sids : sess[s] = Session!NoSession
        /\ \A p \in Callers : call[p] = Session!NoCall
    BY <1>1
  <1>6. ASSUME NEW s \in Sids PROVE SessionOf(s)
    <2>1. /\ sess[s].ctx = "none" /\ OneTurn(sess[s].lock) /\ s \notin table \cup sweep.todo
          /\ \A a : ~Has(sess[s].lock, a)
      BY <1>1, <1>2, <1>5
    <2>2. \A p \in Callers : Session!WaitsFor(p) = {} /\ call[p].sid = None /\ call[p].victim = None
      BY <1>3, <1>5 DEF Session!WaitsFor, Session!At
    <2>3. None # s
      BY SessConstants
    <2> QED
      BY <2>1, <2>2, <2>3 DEF SessionOf, Queue, Served, Listed, Fresh
  <1>7. ASSUME NEW p \in Callers PROVE CallerOf(p)
    BY <1>3, <1>5 DEF CallerOf
  <1>8. Swept
    BY <1>1, <1>2, <1>5 DEF Swept
  <1> QED
    BY <1>4, <1>6, <1>7, <1>8 DEF SessInv

(* What stays so of a session that a caller has nothing to do with.              *)
LEMMA Elsewhere ==
  ASSUME SessInv, NEW p \in Callers, \A q \in Callers \ {p} : call'[q] = call[q],
         NEW t \in Sids, sess'[t] = sess[t], t \in table' <=> t \in table,
         t \in sweep'.todo <=> t \in sweep.todo, sweep'.at = sweep.at,
         t \notin Session!WaitsFor(p), (t \notin Session!WaitsFor(p))',
         call'[p].sid = t => call[p].sid = t, call'[p].victim = t => call[p].victim = t,
         call[p].at = "setup" => call[p].sid # t
  PROVE  SessionOf(t)'
  <1>1. SessionOf(t) /\ ~Has(sess[t].lock, p)
    BY DEF SessInv, SessionOf, Queue
  <1>2. \A q \in Callers \ {p} : (t \in Session!WaitsFor(q))' <=> t \in Session!WaitsFor(q)
    BY DEF Session!WaitsFor, Session!At
  <1>3. \A a \in Lockers : Has(sess[t].lock, a) =>
            (Works(a)' <=> Works(a)) /\ (Operates(a)' <=> Operates(a))
    BY <1>1 DEF Works, Operates
  <1>4. Queue(t)'
    BY <1>1, <1>2 DEF SessionOf, Queue
  <1>5. Served(t)'
    <2> SUFFICES ASSUME NEW q \in Callers, Operates(q)', Has(sess[t].lock, q)
                 PROVE  /\ sess[t].ctx = "open"
                        /\ \A a \in Lockers : Before(sess[t].lock, a, q) => Works(a)'
      BY DEF Served
    <2>1. Operates(q)
      BY <1>3, SessConstants
    <2>2. ASSUME NEW a \in Lockers, Before(sess[t].lock, a, q) PROVE Works(a)'
      <3>1. Has(sess[t].lock, a)
        BY <2>2 DEF Before, Has
      <3> QED
        BY <1>1, <1>3, <2>1, <2>2, <3>1 DEF SessionOf, Served
    <2> QED
      BY <1>1, <2>1, <2>2 DEF SessionOf, Served
  <1>6. Listed(t)'
    BY <1>1, <1>3 DEF SessionOf, Listed
  <1>7. Fresh(t)'
    BY <1>1 DEF SessionOf, Fresh
  <1>8. sess[t].ctx = "open" => sess[t].lost \/ Owned(t)'
    <2> SUFFICES ASSUME sess[t].ctx = "open", ~sess[t].lost, t \notin table \cup sweep.todo PROVE Owned(t)'
      BY DEF Owned
    <2>1. PICK q \in Callers : \/ call[q].sid = t /\ call[q].at \in {"setup", "close"}
                               \/ call[q].victim = t /\ call[q].at = "evict"
      BY <1>1 DEF SessionOf, Owned
    <2>2. q # p
      BY <2>1 DEF Session!WaitsFor, Session!At
    <2> QED
      BY <2>1, <2>2 DEF Owned
  <1> QED
    BY <1>4, <1>5, <1>6, <1>7, <1>8 DEF SessionOf

(* What stays so of the other callers.                                           *)
LEMMA Bystander ==
  ASSUME SessInv, NEW p \in Callers, NEW q \in Callers \ {p},
         \A r \in Callers \ {p} : call'[r] = call[r],
         call[q].at = "setup" =>
            /\ sess'[call[q].sid] = sess[call[q].sid] /\ call[q].sid \notin table' \cup sweep'.todo
            /\ call'[p].sid # call[q].sid /\ call'[p].victim # call[q].sid
  PROVE  CallerOf(q)'
  <1>1. CallerOf(q) /\ call'[q] = call[q]
    BY DEF SessInv
  <1>2. ASSUME call[q].at = "setup" PROVE SetsUp(q)'
    <2>1. SetsUp(q)
      BY <1>1, <1>2 DEF CallerOf
    <2> QED
      BY <1>1, <1>2, <2>1 DEF SetsUp
  <1> QED
    BY <1>1, <1>2 DEF CallerOf, Session!NoCall

(* A step of a caller that has no session yet, or none any more.                 *)
LEMMA QuietStep ==
  ASSUME SessInv, NEW p \in Callers, NEW c \in SessCall, call' = [call EXCEPT ![p] = c],
         UNCHANGED <<table, old, sess>>, sweep' \in SessSweep,
         sweep'.todo = sweep.todo, sweep'.at = sweep.at,
         call[p].at \in {"idle", "queue", "slot", "drop"}, c.at \in {"queue", "slot", "done"},
         c.sid = call[p].sid, c.victim = call[p].victim,
         c.at \in {"queue", "slot"} => c.kind \in {"new", "capture"},
         c.kind \in Session!Operations => ~c.bad
  PROVE  SessInv'
  <1>1. call'[p] = c /\ \A q \in Callers \ {p} : call'[q] = call[q]
    BY DEF SessInv, SessType
  <1>2. SessType'
    BY DEF SessInv, SessType
  <1>3. ASSUME NEW t \in Sids PROVE SessionOf(t)'
    <2>1. t \notin Session!WaitsFor(p) /\ (t \notin Session!WaitsFor(p))'
      BY <1>1 DEF Session!WaitsFor, Session!At
    <2> QED
      BY <1>1, <2>1, Elsewhere
  <1>4. CallerOf(p)'
    BY <1>1 DEF CallerOf
  <1>5. ASSUME NEW q \in Callers \ {p} PROVE CallerOf(q)'
    <2>1. ASSUME call[q].at = "setup" PROVE SetsUp(q)
      BY <2>1 DEF SessInv, CallerOf
    <2> QED
      BY <1>1, <2>1, Bystander DEF SetsUp
  <1>6. Swept'
    BY DEF SessInv, Swept
  <1> QED
    BY <1>2, <1>3, <1>4, <1>5, <1>6 DEF SessInv

(* The queue of a session that somebody leaves from the head, or joins.          *)
LEMMA Leaves ==
  ASSUME SessInv, NEW s \in Sids, NEW a \in Lockers, Session!AtHead(s, a)
  PROVE  /\ Tail(sess[s].lock) \in Seq(Lockers) /\ Left(sess[s].lock, a, Tail(sess[s].lock))
         /\ Has(sess[s].lock, a)
  <1>1. /\ sess[s].lock \in Seq(Lockers) /\ OneTurn(sess[s].lock)
        /\ sess[s].lock # <<>> /\ Head(sess[s].lock) = a
    BY DEF SessInv, SessType, SessSession, SessionOf, Queue, Session!AtHead
  <1> QED
    BY <1>1, LeavesQueue DEF Left
LEMMA LeavesAnywhere ==
  ASSUME SessInv, NEW s \in Sids, NEW a \in Callers, s \in Session!WaitsFor(a)
  PROVE  Session!Others(s, a) \in Seq(Lockers) /\ Gone(sess[s].lock, a, Session!Others(s, a))
  <1>1. sess[s].lock \in Seq(Lockers) /\ OneTurn(sess[s].lock) /\ Has(sess[s].lock, a)
    BY DEF SessInv, SessType, SessSession, SessionOf, Queue
  <1>2. PICK i : i = CHOOSE j \in DOMAIN sess[s].lock : sess[s].lock[j] = a
    OBVIOUS
  <1>3. i \in DOMAIN sess[s].lock /\ sess[s].lock[i] = a
    BY <1>1, <1>2 DEF Has
  <1>4. Session!Others(s, a) = Session!RemoveAt(sess[s].lock, i)
    BY <1>2 DEF Session!Others
  <1> QED
    BY <1>1, <1>3, <1>4, LeavesMidst
LEMMA Joins ==
  ASSUME SessInv, NEW s \in Sids, NEW a \in Lockers, ~Has(sess[s].lock, a)
  PROVE  /\ Append(sess[s].lock, a) \in Seq(Lockers)
         /\ Joined(sess[s].lock, a, Append(sess[s].lock, a))
  <1>1. sess[s].lock \in Seq(Lockers) /\ OneTurn(sess[s].lock)
    BY DEF SessInv, SessType, SessSession, SessionOf, Queue
  <1> QED
    BY <1>1, JoinsQueue

(* No step of a caller makes the sweep wait.                                     *)
LEMMA SweepStill ==
  ASSUME SessInv, sweep'.todo = sweep.todo, sweep'.at = sweep.at, NEW p \in Callers,
         \A t \in Sids : \/ sess'[t].lock = sess[t].lock
                         \/ Joined(sess[t].lock, p, sess'[t].lock)
                         \/ Left(sess[t].lock, p, sess'[t].lock)
                         \/ Gone(sess[t].lock, p, sess'[t].lock)
  PROVE  Swept'
  <1>1. ASSUME NEW t \in Sids, Has(sess'[t].lock, Sweeper) PROVE Has(sess[t].lock, Sweeper)
    BY <1>1, SessConstants DEF Joined, Left, Gone
  <1> QED
    BY <1>1 DEF SessInv, Swept

LEMMA SessAskStep ==
  ASSUME SessInv, NEW p \in Callers, NEW kind \in {"new", "capture"}, Session!Ask(p, kind)
  PROVE  SessInv'
  <1> DEFINE c == [call[p] EXCEPT !.at = "queue", !.kind = kind]
  <1>1. call[p] \in SessCall /\ call[p].at = "idle" /\ call[p] = Session!NoCall
    BY DEF SessInv, SessType, CallerOf, Session!Ask, Session!At
  <1>2. kind \in SessKinds /\ call[p].bad = FALSE
    BY <1>1 DEF SessKinds, Session!NoCall
  <1>3. /\ c \in SessCall /\ c.at = "queue" /\ c.kind = kind /\ c.sid = call[p].sid
        /\ c.victim = call[p].victim /\ c.bad = call[p].bad
    BY <1>1, <1>2 DEF SessCall
  <1>4. call' = [call EXCEPT ![p] = c] /\ UNCHANGED <<table, old, sess, sweep>>
    BY DEF Session!Ask
  <1>5. sweep' \in SessSweep
    BY <1>4 DEF SessInv, SessType
  <1> HIDE DEF c
  <1> QED
    BY <1>1, <1>2, <1>3, <1>4, <1>5, QuietStep

LEMMA WaitStep ==
  ASSUME SessInv, NEW p \in Callers, Session!Acquire(p) \/ Session!Refuse(p)
  PROVE  SessInv'
  <1>0. PICK a \in {"slot", "done"} : call' = [call EXCEPT ![p].at = a]
    BY DEF Session!Acquire, Session!Refuse, Session!Step, Session!Done
  <1> DEFINE c == [call[p] EXCEPT !.at = a]
  <1>1. call[p] \in SessCall /\ call[p].at = "queue" /\ CallerOf(p)
    BY DEF SessInv, SessType, Session!Acquire, Session!Refuse, Session!At
  <1>2. /\ c \in SessCall /\ c.at = a /\ c.kind = call[p].kind
        /\ c.sid = call[p].sid /\ c.victim = call[p].victim
    BY <1>1 DEF SessCall
  <1>3. call' = [call EXCEPT ![p] = c] /\ UNCHANGED <<table, old, sess, sweep>>
    BY <1>0 DEF Session!Acquire, Session!Refuse
  <1>4. sweep' \in SessSweep /\ c.kind \in {"new", "capture"} /\ c.kind \notin Session!Operations
    BY <1>1, <1>2, <1>3, SessConstants DEF SessInv, SessType, CallerOf
  <1> HIDE DEF c
  <1> QED
    BY <1>1, <1>2, <1>3, <1>4, QuietStep

(* A caller that finds nothing to do, or fails or is cancelled before it has a    *)
(* context.                                                                      *)
LEMMA DoneStep ==
  ASSUME SessInv, NEW p \in Callers, call[p].at \in {"idle", "queue", "slot", "drop"}, Session!Done(p),
         UNCHANGED <<table, old, sess>>, UNCHANGED sweep \/ Session!Fault
  PROVE  SessInv'
  <1> DEFINE c == [call[p] EXCEPT !.at = "done"]
  <1>1. call[p] \in SessCall /\ CallerOf(p)
    BY DEF SessInv, SessType
  <1>2. c \in SessCall /\ c.at = "done" /\ c.kind = call[p].kind /\ c.sid = call[p].sid
        /\ c.victim = call[p].victim /\ c.bad = call[p].bad
    BY <1>1 DEF SessCall
  <1>3. call' = [call EXCEPT ![p] = c]
    BY DEF Session!Done
  <1>4. sweep' \in SessSweep /\ sweep'.todo = sweep.todo /\ sweep'.at = sweep.at
    BY DEF SessInv, SessType, SessSweep, Session!Fault
  <1>5. c.kind \in Session!Operations => ~c.bad
    BY <1>1, <1>2 DEF CallerOf
  <1> HIDE DEF c
  <1> QED
    BY <1>2, <1>3, <1>4, <1>5, QuietStep

LEMMA NewContextStep ==
  ASSUME SessInv, NEW p \in Callers, Session!NewContext(p)
  PROVE  SessInv'
  <1>1. call[p].at = "slot" /\ UNCHANGED <<table, old>>
    BY DEF Session!NewContext, Session!At
  <1>2. CASE Session!Fault /\ Session!Done(p) /\ UNCHANGED sess
    BY <1>1, <1>2, DoneStep
  <1>3. ASSUME NEW s \in Sids, sess[s].ctx = "none", sess' = [sess EXCEPT ![s].ctx = "open"],
               call' = [call EXCEPT ![p].at = "setup", ![p].sid = s], UNCHANGED sweep
        PROVE  SessInv'
    <2>1. /\ call' \in [Callers -> SessCall] /\ \A q \in Callers \ {p} : call'[q] = call[q]
          /\ call'[p] \in SessCall /\ call'[p].at = "setup" /\ call'[p].sid = s
          /\ call'[p].kind = call[p].kind /\ call'[p].victim = call[p].victim /\ call'[p].bad = call[p].bad
      BY <1>3 DEF SessInv, SessType, SessCall
    <2>2. /\ sess' \in [Sids -> SessSession] /\ \A t \in Sids \ {s} : sess'[t] = sess[t]
          /\ sess'[s].ctx = "open" /\ sess'[s].lock = sess[s].lock
      BY <1>3 DEF SessInv, SessType, SessSession
    <2>3. SessType'
      BY <1>1, <1>3, <2>1, <2>2 DEF SessInv, SessType
    <2>4. /\ s \notin table \cup sweep.todo /\ \A a \in Lockers : ~Has(sess[s].lock, a)
          /\ \A q \in Callers : call[q].sid # s /\ call[q].victim # s
      BY <1>3 DEF SessInv, SessionOf, Fresh
    <2>5. CallerOf(p) /\ SessionOf(s)
      BY DEF SessInv
    <2>6. \A t \in Sids : (t \notin Session!WaitsFor(p)) /\ (t \notin Session!WaitsFor(p))'
      BY <1>1, <2>1 DEF Session!WaitsFor, Session!At
    <2>7. ASSUME NEW t \in Sids \ {s} PROVE SessionOf(t)'
      BY <1>1, <1>3, <2>1, <2>2, <2>6, <2>7, Elsewhere
    <2>8. SessionOf(s)'
      <3>1. Queue(s)'
        <4>1. \A q \in Callers \ {p} : (s \in Session!WaitsFor(q))' <=> s \in Session!WaitsFor(q)
          BY <2>1 DEF Session!WaitsFor, Session!At
        <4> QED
          BY <1>3, <2>2, <2>4, <2>5, <2>6, <4>1, SessConstants DEF SessionOf, Queue
      <3>2. Served(s)' /\ Listed(s)' /\ Fresh(s)' /\ Owned(s)'
        BY <1>1, <1>3, <2>1, <2>2, <2>4, SessConstants DEF Served, Listed, Fresh, Owned
      <3> QED
        BY <3>1, <3>2 DEF SessionOf
    <2>9. CallerOf(p)'
      <3>1. SetsUp(p)'
        BY <1>1, <1>3, <2>1, <2>2, <2>4 DEF SetsUp
      <3> QED
        BY <1>1, <2>1, <2>5, <3>1 DEF CallerOf
    <2>10. ASSUME NEW q \in Callers \ {p} PROVE CallerOf(q)'
      <3>1. ASSUME call[q].at = "setup" PROVE SetsUp(q) /\ call[q].sid # s /\ call[p].victim # call[q].sid
        BY <2>4, <3>1 DEF SessInv, CallerOf, SetsUp
      <3> QED
        BY <1>1, <1>3, <2>1, <2>2, <3>1, Bystander DEF SetsUp
    <2>11. Swept'
      BY <1>3, <2>2 DEF SessInv, Swept
    <2> QED
      BY <2>3, <2>7, <2>8, <2>9, <2>10, <2>11 DEF SessInv
  <1> QED
    BY <1>2, <1>3 DEF Session!NewContext

(* A setup that fails or is cancelled.                                           *)
LEMMA SetupEnds ==
  ASSUME SessInv, NEW p \in Callers, call[p].at = "setup", Session!Done(p), Session!Fault,
         UNCHANGED <<table, old>>,
         \/ sess' = [sess EXCEPT ![call[p].sid].ctx = "closed"]
         \/ sess' = [sess EXCEPT ![call[p].sid].lost = TRUE]
  PROVE  SessInv'
  <1>1. PICK s : s = call[p].sid
    OBVIOUS
  <1>2. /\ CallerOf(p) /\ call' = [call EXCEPT ![p].at = "done"]
        /\ sweep' \in SessSweep /\ sweep'.todo = sweep.todo /\ sweep'.at = sweep.at
    BY DEF Session!Done, Session!Fault, SessInv, SessType, SessSweep
  <1>3. s \in Sids /\ SetsUp(p) /\ SessionOf(s)
    BY <1>1, <1>2 DEF CallerOf, SessInv
  <1>4. /\ call' \in [Callers -> SessCall] /\ \A q \in Callers \ {p} : call'[q] = call[q]
        /\ call'[p].at = "done" /\ call'[p].sid = s /\ call'[p].kind = call[p].kind
        /\ call'[p].victim = call[p].victim /\ call'[p].bad = call[p].bad
    BY <1>1, <1>2 DEF SessInv, SessType, SessCall
  <1>5. /\ sess' \in [Sids -> SessSession] /\ \A t \in Sids \ {s} : sess'[t] = sess[t]
        /\ sess'[s].ctx # "none" /\ (sess'[s].ctx = "open" => sess'[s].lost)
        /\ sess'[s].lock = sess[s].lock
    <2>0. sess[s] \in SessSession /\ sess[s].ctx = "open"
      BY <1>1, <1>3 DEF SessInv, SessType, SetsUp
    <2>1. CASE sess' = [sess EXCEPT ![s].ctx = "closed"]
      <3>1. PICK k : k = [sess[s] EXCEPT !.ctx = "closed"]
        OBVIOUS
      <3>2. k \in SessSession /\ k.ctx = "closed" /\ k.lock = sess[s].lock
        BY <2>0, <3>1 DEF SessSession
      <3>3. sess' = [sess EXCEPT ![s] = k]
        BY <2>1, <3>1
      <3> QED
        BY <1>3, <3>2, <3>3 DEF SessInv, SessType
    <2>2. CASE sess' = [sess EXCEPT ![s].lost = TRUE]
      <3>1. PICK k : k = [sess[s] EXCEPT !.lost = TRUE]
        OBVIOUS
      <3>2. k \in SessSession /\ k.ctx = "open" /\ k.lost /\ k.lock = sess[s].lock
        BY <2>0, <3>1 DEF SessSession
      <3>3. sess' = [sess EXCEPT ![s] = k]
        BY <2>2, <3>1
      <3> QED
        BY <1>3, <3>2, <3>3 DEF SessInv, SessType
    <2> QED
      BY <1>1, <2>1, <2>2
  <1>6. SessType'
    BY <1>2, <1>4, <1>5 DEF SessInv, SessType
  <1>7. /\ s \notin table \cup sweep.todo /\ \A a \in Lockers : ~Has(sess[s].lock, a)
        /\ \A q \in Callers : call[q].victim # s /\ (q # p => call[q].sid # s)
    BY <1>1, <1>3 DEF SetsUp
  <1>8. \A t \in Sids : (t \notin Session!WaitsFor(p)) /\ (t \notin Session!WaitsFor(p))'
    BY <1>2, <1>4 DEF Session!WaitsFor, Session!At
  <1>9. ASSUME NEW t \in Sids \ {s} PROVE SessionOf(t)'
    BY <1>1, <1>2, <1>4, <1>5, <1>8, <1>9, Elsewhere
  <1>10. SessionOf(s)'
    <2>1. Queue(s)'
      <3>1. \A q \in Callers \ {p} : (s \in Session!WaitsFor(q))' <=> s \in Session!WaitsFor(q)
        BY <1>4 DEF Session!WaitsFor, Session!At
      <3> QED
        BY <1>2, <1>3, <1>5, <1>7, <1>8, <3>1, SessConstants DEF SessionOf, Queue
    <2>2. Served(s)' /\ Listed(s)' /\ Fresh(s)'
      BY <1>2, <1>5, <1>7, SessConstants DEF Served, Listed, Fresh
    <2> QED
      BY <1>5, <2>1, <2>2 DEF SessionOf
  <1>11. CallerOf(p)'
    BY <1>2, <1>4 DEF CallerOf
  <1>12. ASSUME NEW q \in Callers \ {p} PROVE CallerOf(q)'
    <2>1. ASSUME call[q].at = "setup"
          PROVE  SetsUp(q) /\ call[q].sid # s /\ call[p].victim # call[q].sid
      BY <1>7, <2>1 DEF SessInv, CallerOf, SetsUp
    <2> QED
      BY <1>2, <1>4, <1>5, <2>1, Bystander DEF SetsUp
  <1>13. Swept'
    BY <1>2, <1>5 DEF SessInv, Swept
  <1> QED
    BY <1>6, <1>9, <1>10, <1>11, <1>12, <1>13 DEF SessInv

(* A context that the browser makes for a caller that is gone.                    *)
LEMMA LeavesContextStep ==
  ASSUME SessInv, NEW p \in Callers, call[p].at = "slot", Session!Done(p), Session!Fault,
         UNCHANGED <<table, old>>, NEW s \in Sids, sess[s].ctx = "none",
         sess' = [sess EXCEPT ![s].ctx = "open", ![s].lost = TRUE]
  PROVE  SessInv'
  <1>1. /\ call' \in [Callers -> SessCall] /\ \A q \in Callers \ {p} : call'[q] = call[q]
        /\ call'[p].at = "done" /\ call'[p].sid = call[p].sid /\ call'[p].kind = call[p].kind
        /\ call'[p].victim = call[p].victim /\ call'[p].bad = call[p].bad
    BY DEF SessInv, SessType, SessCall, Session!Done
  <1>2. /\ sess' \in [Sids -> SessSession] /\ \A t \in Sids \ {s} : sess'[t] = sess[t]
        /\ sess'[s].ctx = "open" /\ sess'[s].lost /\ sess'[s].lock = sess[s].lock
    BY DEF SessInv, SessType, SessSession
  <1>3. sweep' \in SessSweep /\ sweep'.todo = sweep.todo /\ sweep'.at = sweep.at
    BY DEF Session!Fault, SessInv, SessType, SessSweep
  <1>4. SessType'
    BY <1>1, <1>2, <1>3 DEF SessInv, SessType
  <1>5. /\ SessionOf(s) /\ s \notin table \cup sweep.todo
        /\ \A a \in Lockers : ~Has(sess[s].lock, a)
        /\ \A q \in Callers : call[q].sid # s /\ call[q].victim # s
    BY DEF SessInv, SessionOf, Fresh
  <1>6. \A t \in Sids : (t \notin Session!WaitsFor(p)) /\ (t \notin Session!WaitsFor(p))'
    BY <1>1 DEF Session!WaitsFor, Session!At
  <1>7. ASSUME NEW t \in Sids \ {s} PROVE SessionOf(t)'
    BY <1>1, <1>2, <1>3, <1>6, Elsewhere
  <1>8. SessionOf(s)'
    <2>1. \A q \in Callers \ {p} : (s \in Session!WaitsFor(q))' <=> s \in Session!WaitsFor(q)
      BY <1>1 DEF Session!WaitsFor, Session!At
    <2>2. Queue(s)'
      BY <1>2, <1>3, <1>5, <1>6, <2>1, SessConstants DEF SessionOf, Queue
    <2>3. Served(s)' /\ Listed(s)' /\ Fresh(s)'
      BY <1>2, <1>3, <1>5, SessConstants DEF Served, Listed, Fresh
    <2> QED
      BY <1>2, <2>2, <2>3 DEF SessionOf
  <1>9. CallerOf(p)'
    <2>1. CallerOf(p)
      BY DEF SessInv
    <2> QED
      BY <1>1, <2>1 DEF CallerOf
  <1>10. ASSUME NEW q \in Callers \ {p} PROVE CallerOf(q)'
    <2>1. ASSUME call[q].at = "setup"
          PROVE  SetsUp(q) /\ call[q].sid # s
      BY <1>5, <2>1 DEF SessInv, CallerOf
    <2> QED
      BY <1>1, <1>2, <1>3, <2>1, Bystander DEF SetsUp
  <1>11. Swept'
    BY <1>2, <1>3 DEF SessInv, Swept
  <1> QED
    BY <1>4, <1>7, <1>8, <1>9, <1>10, <1>11 DEF SessInv

(* A closer takes a session out of the table and joins its queue.                *)
LEMMA CloserJoins ==
  ASSUME SessInv, NEW p \in Callers, \A q \in Callers \ {p} : call'[q] = call[q],
         NEW s \in Sids, s \in table, s \notin table', UNCHANGED sweep,
         sess'[s].ctx = sess[s].ctx, Joined(sess[s].lock, p, sess'[s].lock),
         Session!WaitsFor(p) = {}, (s \in Session!WaitsFor(p))',
         \/ call'[p].at = "close" /\ call'[p].sid = s
         \/ call'[p].at = "evict" /\ call'[p].victim = s
  PROVE  SessionOf(s)'
  <1>1. SessionOf(s) /\ ~Has(sess[s].lock, p) /\ sess[s].ctx = "open" /\ s \notin sweep.todo
    BY DEF SessInv, SessionOf, Queue, Listed
  <1>2. /\ OneTurn(sess'[s].lock)
        /\ \A a : Has(sess'[s].lock, a) <=> (Has(sess[s].lock, a) \/ a = p)
        /\ \A a, b : Before(sess'[s].lock, a, b) =>
                       Before(sess[s].lock, a, b) \/ (b = p /\ Has(sess[s].lock, a))
    BY DEF Joined
  <1>3. \A q \in Callers \ {p} : (s \in Session!WaitsFor(q))' <=> s \in Session!WaitsFor(q)
    BY DEF Session!WaitsFor, Session!At
  <1>4. Queue(s)'
    BY <1>1, <1>2, <1>3, SessConstants DEF SessionOf, Queue
  <1>5. Served(s)'
    <2> SUFFICES ASSUME NEW q \in Callers, Operates(q)', Has(sess'[s].lock, q)
                 PROVE  /\ sess'[s].ctx = "open"
                        /\ \A a \in Lockers : Before(sess'[s].lock, a, q) => Works(a)'
      BY DEF Served
    <2>1. q # p /\ Operates(q) /\ Has(sess[s].lock, q)
      BY <1>2 DEF Operates, Works
    <2>2. ASSUME NEW a \in Lockers, Before(sess'[s].lock, a, q) PROVE Works(a)'
      <3>1. Before(sess[s].lock, a, q)
        BY <1>2, <2>1, <2>2
      <3>2. Works(a) /\ Has(sess[s].lock, a)
        BY <1>1, <2>1, <3>1 DEF SessionOf, Served, Before, Has
      <3> QED
        BY <1>1, <3>2 DEF Works
    <2> QED
      BY <1>1, <2>2
  <1>6. Listed(s)' /\ Fresh(s)' /\ Owned(s)'
    BY <1>1 DEF Listed, Fresh, Owned
  <1> QED
    BY <1>4, <1>5, <1>6 DEF SessionOf

(* A caller joins the queue of a listed session to work in it.                   *)
LEMMA WorkerJoins ==
  ASSUME SessInv, NEW p \in Callers, \A q \in Callers \ {p} : call'[q] = call[q],
         NEW s \in Sids, s \in table', UNCHANGED <<sweep.todo, sweep.at>>, s \notin sweep.todo,
         sess[s].ctx = "open", \A a \in Lockers : Has(sess[s].lock, a) => Works(a),
         sess'[s].ctx = sess[s].ctx, Joined(sess[s].lock, p, sess'[s].lock),
         Session!WaitsFor(p) = {}, call'[p].at = "work", call'[p].sid = s
  PROVE  SessionOf(s)'
  <1>1. SessionOf(s) /\ ~Has(sess[s].lock, p)
    BY DEF SessInv, SessionOf, Queue
  <1>2. /\ OneTurn(sess'[s].lock)
        /\ \A a : Has(sess'[s].lock, a) <=> (Has(sess[s].lock, a) \/ a = p)
        /\ \A a, b : Before(sess'[s].lock, a, b) =>
                       Before(sess[s].lock, a, b) \/ (b = p /\ Has(sess[s].lock, a))
    BY DEF Joined
  <1>3. /\ \A q \in Callers \ {p} : (s \in Session!WaitsFor(q))' <=> s \in Session!WaitsFor(q)
        /\ (s \in Session!WaitsFor(p))'
    BY DEF Session!WaitsFor, Session!At
  <1>4. Queue(s)'
    BY <1>1, <1>2, <1>3, SessConstants DEF SessionOf, Queue
  <1>5. \A a \in Lockers : Has(sess'[s].lock, a) => Works(a)'
    BY <1>1, <1>2 DEF Works
  <1>6. ASSUME NEW a, NEW b, Before(sess'[s].lock, a, b) PROVE Has(sess'[s].lock, a)
    BY <1>6 DEF Before, Has
  <1>7. Served(s)' /\ Listed(s)' /\ Fresh(s)' /\ Owned(s)'
    BY <1>5, <1>6 DEF Served, Listed, Fresh, Owned
  <1> QED
    BY <1>4, <1>7 DEF SessionOf

(* Who is at the head leaves: a worker as it came, a closer with the context     *)
(* closed.                                                                       *)
LEMMA HeadLeaves ==
  ASSUME SessInv, NEW p \in Callers, \A q \in Callers \ {p} : call'[q] = call[q],
         NEW s \in Sids, UNCHANGED <<table, sweep.todo, sweep.at>>,
         IF Works(p) THEN sess'[s].ctx = sess[s].ctx /\ sess'[s].lost = sess[s].lost
                     ELSE sess'[s].ctx = "closed",
         Left(sess[s].lock, p, sess'[s].lock), (s \notin Session!WaitsFor(p))'
  PROVE  SessionOf(s)'
  <1>1. /\ SessionOf(s) /\ OneTurn(sess'[s].lock) /\ Has(sess[s].lock, p)
        /\ \A b : Has(sess'[s].lock, b) <=> (Has(sess[s].lock, b) /\ b # p)
        /\ \A b, c : Before(sess'[s].lock, b, c) => Before(sess[s].lock, b, c)
        /\ \A b : Has(sess'[s].lock, b) => Before(sess[s].lock, p, b)
    BY DEF SessInv, Left
  <1>2. \A q \in Callers \ {p} : (s \in Session!WaitsFor(q))' <=> s \in Session!WaitsFor(q)
    BY DEF Session!WaitsFor, Session!At
  <1>3. Queue(s)'
    BY <1>1, <1>2 DEF SessionOf, Queue
  <1>4. p \in Lockers
    BY SessConstants
  <1>5. Served(s)'
    <2> SUFFICES ASSUME NEW q \in Callers, Operates(q)', Has(sess'[s].lock, q)
                 PROVE  /\ sess'[s].ctx = "open"
                        /\ \A a \in Lockers : Before(sess'[s].lock, a, q) => Works(a)'
      BY DEF Served
    <2>1. q # p /\ Operates(q) /\ Has(sess[s].lock, q) /\ Before(sess[s].lock, p, q)
      BY <1>1 DEF Operates, Works
    <2>2. Works(p) /\ sess[s].ctx = "open"
      BY <1>1, <1>4, <2>1 DEF SessionOf, Served
    <2>3. ASSUME NEW a \in Lockers, Before(sess'[s].lock, a, q) PROVE Works(a)'
      <3>1. Before(sess[s].lock, a, q)
        BY <1>1, <2>3
      <3>2. Has(sess'[s].lock, a)
        BY <2>3 DEF Before, Has
      <3>3. Works(a) /\ a # p
        BY <1>1, <2>1, <3>1, <3>2 DEF SessionOf, Served
      <3> QED
        BY <3>3 DEF Works
    <2> QED
      BY <2>2, <2>3
  <1>6. Listed(s)'
    <2> SUFFICES ASSUME s \in table
                 PROVE  /\ sess'[s].ctx = "open" /\ s \notin sweep.todo
                        /\ \A a \in Lockers : Has(sess'[s].lock, a) => Works(a)'
      BY DEF Listed
    <2>1. Works(p) /\ sess[s].ctx = "open" /\ s \notin sweep.todo
      BY <1>1, <1>4 DEF SessionOf, Listed
    <2>2. ASSUME NEW a \in Lockers, Has(sess'[s].lock, a) PROVE Works(a)'
      <3>1. Works(a) /\ a # p
        BY <1>1, <2>2 DEF SessionOf, Listed
      <3> QED
        BY <3>1 DEF Works
    <2> QED
      BY <2>1, <2>2
  <1>7. Fresh(s)'
    BY <1>1, <1>4 DEF SessionOf, Fresh
  <1>8. sess'[s].ctx = "open" => sess'[s].lost \/ Owned(s)'
    <2> SUFFICES ASSUME sess'[s].ctx = "open", ~sess'[s].lost PROVE Owned(s)'
      OBVIOUS
    <2>1. Works(p) /\ Owned(s)
      BY <1>1 DEF SessionOf
    <2> QED
      BY <2>1 DEF Works, Owned
  <1> QED
    BY <1>3, <1>5, <1>6, <1>7, <1>8 DEF SessionOf

(* Who is cancelled leaves from anywhere: a worker with the session as it was, a *)
(* closer with the context open and lost.                                        *)
LEMMA CancelledLeaves ==
  ASSUME SessInv, NEW p \in Callers, \A q \in Callers \ {p} : call'[q] = call[q],
         NEW s \in Sids, UNCHANGED <<table, sweep.todo, sweep.at>>, sess'[s].ctx = sess[s].ctx,
         IF Works(p) THEN sess'[s].lost = sess[s].lost ELSE sess'[s].lost,
         Gone(sess[s].lock, p, sess'[s].lock), (s \notin Session!WaitsFor(p))'
  PROVE  SessionOf(s)'
  <1>1. /\ SessionOf(s) /\ OneTurn(sess'[s].lock) /\ Has(sess[s].lock, p)
        /\ \A b : Has(sess'[s].lock, b) <=> (Has(sess[s].lock, b) /\ b # p)
        /\ \A b, c : Before(sess'[s].lock, b, c) => Before(sess[s].lock, b, c)
    BY DEF SessInv, Gone
  <1>2. \A q \in Callers \ {p} : (s \in Session!WaitsFor(q))' <=> s \in Session!WaitsFor(q)
    BY DEF Session!WaitsFor, Session!At
  <1>3. Queue(s)'
    BY <1>1, <1>2 DEF SessionOf, Queue
  <1>4. p \in Lockers
    BY SessConstants
  <1>5. Served(s)'
    <2> SUFFICES ASSUME NEW q \in Callers, Operates(q)', Has(sess'[s].lock, q)
                 PROVE  /\ sess'[s].ctx = "open"
                        /\ \A a \in Lockers : Before(sess'[s].lock, a, q) => Works(a)'
      BY DEF Served
    <2>1. q # p /\ Operates(q) /\ Has(sess[s].lock, q)
      BY <1>1 DEF Operates, Works
    <2>2. ASSUME NEW a \in Lockers, Before(sess'[s].lock, a, q) PROVE Works(a)'
      <3>1. Before(sess[s].lock, a, q)
        BY <1>1, <2>2
      <3>2. Has(sess'[s].lock, a)
        BY <2>2 DEF Before, Has
      <3>3. Works(a) /\ a # p
        BY <1>1, <2>1, <3>1, <3>2 DEF SessionOf, Served
      <3> QED
        BY <3>3 DEF Works
    <2> QED
      BY <1>1, <2>1, <2>2 DEF SessionOf, Served
  <1>6. Listed(s)'
    <2> SUFFICES ASSUME s \in table
                 PROVE  /\ sess'[s].ctx = "open" /\ s \notin sweep.todo
                        /\ \A a \in Lockers : Has(sess'[s].lock, a) => Works(a)'
      BY DEF Listed
    <2>1. ASSUME NEW a \in Lockers, Has(sess'[s].lock, a) PROVE Works(a)'
      <3>1. Works(a) /\ a # p
        BY <1>1, <2>1 DEF SessionOf, Listed
      <3> QED
        BY <3>1 DEF Works
    <2> QED
      BY <1>1, <2>1 DEF SessionOf, Listed
  <1>7. Fresh(s)'
    BY <1>1, <1>4 DEF SessionOf, Fresh
  <1>8. sess'[s].ctx = "open" => sess'[s].lost \/ Owned(s)'
    <2> SUFFICES ASSUME sess'[s].ctx = "open", ~sess'[s].lost PROVE Owned(s)'
      OBVIOUS
    <2>1. Works(p) /\ Owned(s)
      BY <1>1 DEF SessionOf
    <2> QED
      BY <2>1 DEF Works, Owned
  <1> QED
    BY <1>3, <1>5, <1>6, <1>7, <1>8 DEF SessionOf

LEMMA RemoveStep ==
  ASSUME SessInv, NEW p \in Callers, NEW s \in table, call[p].at \in {"idle", "drop"},
         table' = table \ {s}, old' = old \ {s}, sess' = Session!Closing(s, p), UNCHANGED sweep,
         call' = [call EXCEPT ![p].at = "close", ![p].sid = s]
  PROVE  SessInv'
  <1>1. /\ call' \in [Callers -> SessCall] /\ \A q \in Callers \ {p} : call'[q] = call[q]
        /\ call'[p].at = "close" /\ call'[p].sid = s /\ call'[p].kind = call[p].kind
        /\ call'[p].victim = call[p].victim /\ call'[p].bad = call[p].bad
    BY DEF SessInv, SessType, SessCall
  <1>2. /\ s \in Sids /\ SessionOf(s) /\ CallerOf(p)
    BY DEF SessInv, SessType
  <1>3. Session!WaitsFor(p) = {} /\ (Session!WaitsFor(p) = {s})'
    BY <1>1 DEF Session!WaitsFor, Session!At
  <1>4. ~Has(sess[s].lock, p)
    BY <1>2, <1>3 DEF SessionOf, Queue
  <1>5. Append(sess[s].lock, p) \in Seq(Lockers)
        /\ Joined(sess[s].lock, p, Append(sess[s].lock, p))
    BY <1>2, <1>4, Joins, SessConstants
  <1>6. /\ sess' \in [Sids -> SessSession] /\ \A t \in Sids \ {s} : sess'[t] = sess[t]
        /\ sess'[s].ctx = sess[s].ctx /\ Joined(sess[s].lock, p, sess'[s].lock)
    BY <1>2, <1>5 DEF SessInv, SessType, SessSession, Session!Closing
  <1>7. SessType'
    BY <1>1, <1>6 DEF SessInv, SessType
  <1>8. ASSUME NEW t \in Sids \ {s} PROVE SessionOf(t)'
    BY <1>1, <1>3, <1>6, Elsewhere
  <1>9. SessionOf(s)'
    BY <1>1, <1>2, <1>3, <1>6, CloserJoins
  <1>10. CallerOf(p)'
    BY <1>1, <1>2 DEF CallerOf
  <1>11. ASSUME NEW q \in Callers \ {p} PROVE CallerOf(q)'
    <2>1. ASSUME call[q].at = "setup" PROVE SetsUp(q) /\ call[q].sid # s
      BY <2>1 DEF SessInv, CallerOf, SetsUp
    <2> QED
      BY <1>1, <1>6, <2>1, Bystander DEF SetsUp
  <1>12. Swept'
    BY <1>6, SweepStill
  <1> QED
    BY <1>7, <1>8, <1>9, <1>10, <1>11, <1>12 DEF SessInv

LEMMA RemoveSessionStep ==
  ASSUME SessInv, NEW p \in Callers, NEW s \in Sids, call[p].at \in {"idle", "drop"},
         Session!RemoveSession(p, s), UNCHANGED sweep
  PROVE  SessInv'
  <1>1. CASE s \in table
    BY <1>1, RemoveStep DEF Session!RemoveSession
  <1>2. CASE s \notin table
    BY <1>2, DoneStep DEF Session!RemoveSession
  <1> QED
    BY <1>1, <1>2

LEMMA PutStep ==
  ASSUME SessInv, NEW p \in Callers, Session!Put(p)
  PROVE  SessInv'
  <1>1. PICK s : s = call[p].sid
    OBVIOUS
  <1>2. /\ call[p].at = "setup" /\ UNCHANGED sweep /\ CallerOf(p) /\ call[p] \in SessCall
        /\ Session!WaitsFor(p) = {}
    BY DEF Session!Put, Session!At, Session!WaitsFor, SessInv, SessType
  <1>3. s \in Sids /\ SetsUp(p) /\ SessionOf(s) /\ call[p].kind \in {"new", "capture"}
    BY <1>1, <1>2 DEF CallerOf, SessInv
  <1>4. /\ s \notin table \cup sweep.todo /\ \A a \in Lockers : ~Has(sess[s].lock, a)
        /\ sess[s].ctx = "open"
        /\ \A q \in Callers : call[q].victim # s /\ (q # p => call[q].sid # s)
    BY <1>1, <1>3 DEF SetsUp
  <1>5. ASSUME NEW q \in Callers \ {p}, call[q].at = "setup"
        PROVE  SetsUp(q) /\ call[q].sid # s /\ call[p].victim # call[q].sid
    BY <1>4, <1>5 DEF SessInv, CallerOf, SetsUp
  <1>6. CASE \E v \in Session!Oldest(table) :
               /\ table' = (table \ {v}) \cup {s} /\ old' = old \ {v}
               /\ sess' = Session!Closing(v, p)
               /\ call' = [call EXCEPT ![p].at = "evict", ![p].victim = v]
    <2>1. PICK v \in table : /\ table' = (table \ {v}) \cup {s} /\ old' = old \ {v}
                             /\ sess' = Session!Closing(v, p)
                             /\ call' = [call EXCEPT ![p].at = "evict", ![p].victim = v]
      BY <1>6 DEF Session!Oldest
    <2>2. v \in Sids /\ v # s /\ SessionOf(v)
      BY <1>4 DEF SessInv, SessType
    <2>3. /\ call' \in [Callers -> SessCall] /\ \A q \in Callers \ {p} : call'[q] = call[q]
          /\ call'[p].at = "evict" /\ call'[p].victim = v /\ call'[p].sid = s
          /\ call'[p].kind = call[p].kind /\ call'[p].bad = call[p].bad
      BY <1>1, <2>1, <2>2 DEF SessInv, SessType, SessCall
    <2>4. (Session!WaitsFor(p) = {v})' /\ ~Has(sess[v].lock, p)
      BY <1>2, <2>2, <2>3 DEF Session!WaitsFor, Session!At, SessionOf, Queue
    <2>5. Append(sess[v].lock, p) \in Seq(Lockers)
          /\ Joined(sess[v].lock, p, Append(sess[v].lock, p))
      BY <2>2, <2>4, Joins, SessConstants
    <2>6. /\ sess' \in [Sids -> SessSession] /\ \A t \in Sids \ {v} : sess'[t] = sess[t]
          /\ sess'[v].ctx = sess[v].ctx /\ Joined(sess[v].lock, p, sess'[v].lock)
      BY <2>1, <2>2, <2>5 DEF SessInv, SessType, SessSession, Session!Closing
    <2>7. SessType'
      BY <1>2, <1>3, <1>4, <2>1, <2>3, <2>6 DEF SessInv, SessType
    <2>8. ASSUME NEW t \in Sids \ {s, v} PROVE SessionOf(t)'
      BY <1>1, <1>2, <2>1, <2>3, <2>4, <2>6, Elsewhere
    <2>9. SessionOf(v)'
      BY <1>2, <2>1, <2>2, <2>3, <2>4, <2>6, CloserJoins
    <2>10. SessionOf(s)'
      <3>1. \A q \in Callers \ {p} : (s \in Session!WaitsFor(q))' <=> s \in Session!WaitsFor(q)
        BY <2>3 DEF Session!WaitsFor, Session!At
      <3>2. Queue(s)'
        BY <1>2, <1>3, <1>4, <2>2, <2>4, <2>6, <3>1, SessConstants DEF SessionOf, Queue
      <3>3. s \in table' /\ sess'[s] = sess[s] /\ s \notin sweep'.todo
        BY <1>2, <1>3, <1>4, <2>1, <2>2, <2>6
      <3>4. Served(s)'
        BY <1>4, <3>3, SessConstants DEF Served
      <3>5. Listed(s)' /\ Fresh(s)' /\ Owned(s)'
        BY <1>4, <3>3 DEF Listed, Fresh, Owned
      <3> QED
        BY <3>2, <3>4, <3>5 DEF SessionOf
    <2>11. CallerOf(p)'
      BY <1>2, <1>3, <2>2, <2>3 DEF CallerOf
    <2>12. ASSUME NEW q \in Callers \ {p} PROVE CallerOf(q)'
      <3>1. ASSUME call[q].at = "setup" PROVE call[q].sid # v
        BY <1>5, <3>1 DEF SetsUp
      <3> QED
        BY <1>2, <1>5, <2>1, <2>3, <2>6, <3>1, Bystander DEF SetsUp
    <2>13. Swept'
      BY <1>2, <2>6, SweepStill
    <2> QED
      BY <2>7, <2>8, <2>9, <2>10, <2>11, <2>12, <2>13 DEF SessInv
  <1>7. CASE /\ table' = table \cup {s} /\ UNCHANGED old
             /\ call[p].kind = "new" /\ Session!Done(p) /\ UNCHANGED sess
    <2>1. /\ call' \in [Callers -> SessCall] /\ \A q \in Callers \ {p} : call'[q] = call[q]
          /\ call'[p].at = "done" /\ call'[p].victim = call[p].victim /\ call'[p].sid = s
          /\ call'[p].kind = call[p].kind /\ call'[p].bad = call[p].bad
      BY <1>1, <1>7 DEF SessInv, SessType, SessCall, Session!Done
    <2>2. (Session!WaitsFor(p) = {})'
      BY <2>1 DEF Session!WaitsFor, Session!At
    <2>3. SessType'
      BY <1>2, <1>3, <1>7, <2>1 DEF SessInv, SessType
    <2>4. ASSUME NEW t \in Sids \ {s} PROVE SessionOf(t)'
      BY <1>1, <1>2, <1>7, <2>1, <2>2, Elsewhere
    <2>5. SessionOf(s)'
      <3>1. \A q \in Callers \ {p} : (s \in Session!WaitsFor(q))' <=> s \in Session!WaitsFor(q)
        BY <2>1 DEF Session!WaitsFor, Session!At
      <3>2. Queue(s)'
        BY <1>2, <1>3, <1>4, <1>7, <2>2, <3>1, SessConstants DEF SessionOf, Queue
      <3>3. Served(s)' /\ Listed(s)' /\ Fresh(s)' /\ Owned(s)'
        BY <1>2, <1>4, <1>7, SessConstants DEF Served, Listed, Fresh, Owned
      <3> QED
        BY <3>2, <3>3 DEF SessionOf
    <2>6. CallerOf(p)'
      BY <1>2, <2>1 DEF CallerOf
    <2>7. ASSUME NEW q \in Callers \ {p} PROVE CallerOf(q)'
      BY <1>2, <1>5, <1>7, <2>1, Bystander DEF SetsUp
    <2>8. Swept'
      BY <1>2, <1>7 DEF SessInv, Swept
    <2> QED
      BY <2>3, <2>4, <2>5, <2>6, <2>7, <2>8 DEF SessInv
  <1>8. CASE /\ table' = table \cup {s} /\ UNCHANGED old
             /\ call[p].kind # "new" /\ Session!Step(p, "work") /\ sess' = Session!Queued(s, p)
    <2>1. /\ call' \in [Callers -> SessCall] /\ \A q \in Callers \ {p} : call'[q] = call[q]
          /\ call'[p].at = "work" /\ call'[p].victim = call[p].victim /\ call'[p].sid = s
          /\ call'[p].kind = "capture" /\ call'[p].bad = call[p].bad
      BY <1>1, <1>3, <1>8 DEF SessInv, SessType, SessCall, Session!Step
    <2>2. (Session!WaitsFor(p) = {s})'
      BY <2>1 DEF Session!WaitsFor, Session!At
    <2>3. /\ ~Has(sess[s].lock, p) /\ Append(sess[s].lock, p) \in Seq(Lockers)
          /\ Joined(sess[s].lock, p, Append(sess[s].lock, p))
      BY <1>3, <1>4, Joins, SessConstants
    <2>4. /\ sess' \in [Sids -> SessSession] /\ \A t \in Sids \ {s} : sess'[t] = sess[t]
          /\ sess'[s].ctx = sess[s].ctx /\ Joined(sess[s].lock, p, sess'[s].lock)
      BY <1>3, <1>8, <2>3 DEF SessInv, SessType, SessSession, Session!Queued
    <2>5. SessType'
      BY <1>2, <1>3, <1>8, <2>1, <2>4 DEF SessInv, SessType
    <2>6. ASSUME NEW t \in Sids \ {s} PROVE SessionOf(t)'
      BY <1>1, <1>2, <1>8, <2>1, <2>2, <2>4, Elsewhere
    <2>7. SessionOf(s)'
      BY <1>2, <1>3, <1>4, <1>8, <2>1, <2>4, WorkerJoins
    <2>8. CallerOf(p)'
      BY <1>3, <2>1, SessConstants DEF CallerOf
    <2>9. ASSUME NEW q \in Callers \ {p} PROVE CallerOf(q)'
      BY <1>2, <1>5, <1>8, <2>1, <2>4, Bystander DEF SetsUp
    <2>10. Swept'
      BY <1>2, <2>4, SweepStill
    <2> QED
      BY <2>5, <2>6, <2>7, <2>8, <2>9, <2>10 DEF SessInv
  <1> QED
    BY <1>1, <1>6, <1>7, <1>8 DEF Session!Put

LEMMA EvictStep ==
  ASSUME SessInv, NEW p \in Callers, Session!Evict(p)
  PROVE  SessInv'
  <1>1. PICK s, v : s = call[p].sid /\ v = call[p].victim
    OBVIOUS
  <1>2. /\ call[p].at = "evict" /\ UNCHANGED <<table, old, sweep>> /\ CallerOf(p) /\ call[p] \in SessCall
        /\ Session!AtHead(v, p)
    BY <1>1 DEF Session!Evict, Session!At, SessInv, SessType
  <1>3. /\ s \in Sids /\ v \in Sids /\ s # v /\ call[p].kind \in {"new", "capture"}
        /\ SessionOf(s) /\ SessionOf(v)
    BY <1>1, <1>2 DEF CallerOf, SessInv
  <1>4. Session!WaitsFor(p) = {v} /\ ~Has(sess[s].lock, p) /\ ~Works(p)
    BY <1>1, <1>2, <1>3 DEF Session!WaitsFor, Session!At, SessionOf, Queue, Works
  <1>5. /\ Tail(sess[v].lock) \in Seq(Lockers) /\ Left(sess[v].lock, p, Tail(sess[v].lock))
        /\ Append(sess[s].lock, p) \in Seq(Lockers) /\ Joined(sess[s].lock, p, Append(sess[s].lock, p))
    BY <1>2, <1>3, <1>4, Leaves, Joins, SessConstants
  <1>6. ASSUME NEW q \in Callers \ {p}, call[q].at = "setup"
        PROVE  SetsUp(q) /\ call[q].sid # s /\ call[q].sid # v
    BY <1>1, <1>6 DEF SessInv, CallerOf, SetsUp
  <1>8. CASE call[p].kind = "new" /\ Session!Done(p) /\ sess' = Session!Closed(v)
    <2>1. /\ call' \in [Callers -> SessCall] /\ \A q \in Callers \ {p} : call'[q] = call[q]
          /\ call'[p].at = "done" /\ call'[p].victim = v /\ call'[p].sid = s
          /\ call'[p].kind = call[p].kind /\ call'[p].bad = call[p].bad
      BY <1>1, <1>8 DEF SessInv, SessType, SessCall, Session!Done
    <2>2. (Session!WaitsFor(p) = {})'
      BY <2>1 DEF Session!WaitsFor, Session!At
    <2>3. /\ sess' \in [Sids -> SessSession] /\ \A t \in Sids \ {v} : sess'[t] = sess[t]
          /\ sess'[v].ctx = "closed" /\ Left(sess[v].lock, p, sess'[v].lock)
      BY <1>3, <1>5, <1>8 DEF SessInv, SessType, SessSession, Session!Closed
    <2>4. SessType'
      BY <1>2, <2>1, <2>3 DEF SessInv, SessType
    <2>5. ASSUME NEW t \in Sids \ {v} PROVE SessionOf(t)'
      BY <1>1, <1>2, <1>4, <2>1, <2>2, <2>3, Elsewhere
    <2>6. SessionOf(v)'
      BY <1>2, <1>3, <1>4, <2>1, <2>2, <2>3, HeadLeaves
    <2>7. CallerOf(p)'
      BY <1>2, <2>1 DEF CallerOf
    <2>8. ASSUME NEW q \in Callers \ {p} PROVE CallerOf(q)'
      BY <1>2, <1>6, <2>1, <2>3, Bystander DEF SetsUp
    <2>9. Swept'
      BY <1>2, <2>3, SweepStill
    <2> QED
      BY <2>4, <2>5, <2>6, <2>7, <2>8, <2>9 DEF SessInv
  <1>9. CASE /\ call[p].kind # "new" /\ Session!Step(p, "work")
             /\ sess' = [Session!Closed(v) EXCEPT ![s].lock = Append(@, p)]
    <2>1. /\ call' \in [Callers -> SessCall] /\ \A q \in Callers \ {p} : call'[q] = call[q]
          /\ call'[p].at = "work" /\ call'[p].victim = v /\ call'[p].sid = s
          /\ call'[p].kind = "capture" /\ call'[p].bad = call[p].bad
      BY <1>1, <1>3, <1>9 DEF SessInv, SessType, SessCall, Session!Step
    <2>2. (Session!WaitsFor(p) = {s})' /\ ~Operates(p)'
      BY <2>1, SessConstants DEF Session!WaitsFor, Session!At, Operates
    <2>3. /\ sess' \in [Sids -> SessSession] /\ \A t \in Sids \ {s, v} : sess'[t] = sess[t]
          /\ sess'[v].ctx = "closed" /\ Left(sess[v].lock, p, sess'[v].lock)
          /\ sess'[s].ctx = sess[s].ctx /\ sess'[s].lost = sess[s].lost
          /\ Joined(sess[s].lock, p, sess'[s].lock)
      <3>1. PICK shut : shut = Session!Closed(v)
        OBVIOUS
      <3>2. /\ shut \in [Sids -> SessSession] /\ \A t \in Sids \ {v} : shut[t] = sess[t]
            /\ shut[v].ctx = "closed" /\ shut[v].lock = Tail(sess[v].lock)
        BY <1>3, <1>5, <3>1 DEF SessInv, SessType, SessSession, Session!Closed
      <3>3. sess' = [shut EXCEPT ![s].lock = Append(@, p)] /\ shut[s] = sess[s] /\ shut[s] \in SessSession
        BY <1>3, <1>9, <3>1, <3>2
      <3>4. [shut[s] EXCEPT !.lock = Append(sess[s].lock, p)] \in SessSession
        BY <1>5, <3>3 DEF SessSession
      <3>5. /\ sess' \in [Sids -> SessSession] /\ \A t \in Sids \ {s} : sess'[t] = shut[t]
            /\ sess'[s] = [shut[s] EXCEPT !.lock = Append(sess[s].lock, p)]
        BY <1>3, <3>2, <3>3, <3>4
      <3>6. /\ sess'[s].ctx = sess[s].ctx /\ sess'[s].lost = sess[s].lost
            /\ sess'[s].lock = Append(sess[s].lock, p)
        BY <3>3, <3>5 DEF SessSession
      <3> QED
        BY <1>3, <1>5, <3>2, <3>5, <3>6
    <2>4. SessType'
      BY <1>2, <2>1, <2>3 DEF SessInv, SessType
    <2>5. ASSUME NEW t \in Sids \ {s, v} PROVE SessionOf(t)'
      BY <1>1, <1>2, <1>4, <2>1, <2>2, <2>3, Elsewhere
    <2>6. SessionOf(v)'
      BY <1>2, <1>3, <1>4, <2>1, <2>2, <2>3, HeadLeaves
    <2>7. SessionOf(s)'
      <3>1. /\ OneTurn(sess'[s].lock)
            /\ \A a : Has(sess'[s].lock, a) <=> (Has(sess[s].lock, a) \/ a = p)
            /\ \A a, b : Before(sess'[s].lock, a, b) =>
                           Before(sess[s].lock, a, b) \/ (b = p /\ Has(sess[s].lock, a))
        BY <2>3 DEF Joined
      <3>2. \A q \in Callers \ {p} : (s \in Session!WaitsFor(q))' <=> s \in Session!WaitsFor(q)
        BY <2>1 DEF Session!WaitsFor, Session!At
      <3>3. Queue(s)'
        BY <1>2, <1>3, <1>4, <2>2, <3>1, <3>2, SessConstants DEF SessionOf, Queue
      <3>4. Served(s)'
        <4> SUFFICES ASSUME NEW q \in Callers, Operates(q)', Has(sess'[s].lock, q)
                     PROVE  /\ sess'[s].ctx = "open"
                            /\ \A a \in Lockers : Before(sess'[s].lock, a, q) => Works(a)'
          BY DEF Served
        <4>1. q # p /\ Operates(q) /\ Has(sess[s].lock, q)
          BY <2>1, <2>2, <3>1 DEF Operates, Works
        <4>2. ASSUME NEW a \in Lockers, Before(sess'[s].lock, a, q) PROVE Works(a)'
          <5>1. Before(sess[s].lock, a, q)
            BY <3>1, <4>1, <4>2
          <5>2. Works(a)
            BY <1>3, <4>1, <5>1 DEF SessionOf, Served
          <5> QED
            BY <2>1, <5>2 DEF Works
        <4> QED
          BY <1>3, <2>3, <4>1, <4>2 DEF SessionOf, Served
      <3>5. Listed(s)'
        BY <1>2, <1>3, <2>1, <2>3, <3>1 DEF SessionOf, Listed, Works
      <3>6. Fresh(s)' /\ (sess'[s].ctx = "open" => sess'[s].lost \/ Owned(s)')
        <4>1. sess[s].ctx # "none"
          BY <1>1, <1>3 DEF SessionOf, Fresh
        <4>2. ASSUME Owned(s) PROVE Owned(s)'
          BY <1>1, <1>2, <1>3, <2>1, <4>2 DEF Owned
        <4> QED
          BY <1>3, <2>3, <4>1, <4>2 DEF SessionOf, Fresh
      <3> QED
        BY <3>3, <3>4, <3>5, <3>6 DEF SessionOf
    <2>8. CallerOf(p)'
      BY <1>3, <2>1, SessConstants DEF CallerOf
    <2>9. ASSUME NEW q \in Callers \ {p} PROVE CallerOf(q)'
      BY <1>2, <1>6, <2>1, <2>3, Bystander DEF SetsUp
    <2>10. Swept'
      BY <1>2, <2>3, SweepStill
    <2> QED
      BY <2>4, <2>5, <2>6, <2>7, <2>8, <2>9, <2>10 DEF SessInv
  <1> QED
    BY <1>1, <1>8, <1>9 DEF Session!Evict

(* What an operation leaves of a session is the same context and lock.           *)
LEMMA AfterKeeps ==
  ASSUME NEW op, NEW k \in SessSession, NEW m \in Session!After(op, k)
  PROVE  m \in SessSession /\ m.ctx = k.ctx /\ m.lost = k.lost /\ m.lock = k.lock
  <1> DEFINE Keeps(x, y) == x \in SessSession /\ x.ctx = y.ctx /\ x.lost = y.lost /\ x.lock = y.lock
  <1>1. ASSUME NEW x \in SessSession, NEW a \in {"none", "this", "earlier"}
        PROVE  Keeps([x EXCEPT !.seen = a], x) /\ Keeps([x EXCEPT !.tools = a], x)
    BY DEF SessSession
  <1>2. ASSUME NEW x \in SessSession, NEW a \in {"none", "this", "earlier"},
               NEW b \in {"none", "this", "earlier"}
        PROVE  Keeps([x EXCEPT !.seen = a, !.tools = b], x)
    BY DEF SessSession
  <1>3. ASSUME NEW x \in SessSession
        PROVE  /\ Session!Knew(x.seen) \in {"none", "this", "earlier"}
               /\ Session!Knew(x.tools) \in {"none", "this", "earlier"}
               /\ Session!Found(x.tools) \in {"none", "this", "earlier"}
    BY DEF SessSession, Session!Knew, Session!Found
  <1>4. ASSUME NEW x \in SessSession
        PROVE  /\ Keeps(Session!Distilled(x), x) /\ Keeps(Session!Moved(x), x) /\ Keeps(x, x)
               /\ Keeps([x EXCEPT !.seen = Session!Knew(@), !.tools = "none"], x)
               /\ Keeps([x EXCEPT !.tools = Session!Found(@)], x)
    <2>1. Keeps(x, x)
      OBVIOUS
    <2> HIDE DEF Keeps
    <2>2. PICK a, b, f : a = Session!Knew(x.seen) /\ b = Session!Knew(x.tools) /\ f = Session!Found(x.tools)
      OBVIOUS
    <2>3. \A g \in {a, b, f} : g \in {"none", "this", "earlier"}
      BY <1>3, <2>2
    <2>4. /\ Session!Distilled(x) = [x EXCEPT !.seen = "this", !.tools = f]
          /\ Session!Moved(x) = [x EXCEPT !.seen = a, !.tools = b]
          /\ [x EXCEPT !.seen = Session!Knew(@), !.tools = "none"] = [x EXCEPT !.seen = a, !.tools = "none"]
          /\ [x EXCEPT !.tools = Session!Found(@)] = [x EXCEPT !.tools = f]
      BY <2>2 DEF Session!Distilled, Session!Moved
    <2>5. Keeps([x EXCEPT !.seen = "this", !.tools = f], x) /\ Keeps([x EXCEPT !.seen = a, !.tools = b], x)
      BY <1>2, <2>3
    <2>6. Keeps([x EXCEPT !.seen = a, !.tools = "none"], x)
      BY <1>2, <2>3
    <2>7. Keeps([x EXCEPT !.tools = f], x)
      BY <1>1, <2>3
    <2> QED
      BY <2>1, <2>4, <2>5, <2>6, <2>7, Zenon
  <1> HIDE DEF Keeps
  <1>5. ASSUME NEW x, NEW y, NEW z, Keeps(x, y), Keeps(y, z) PROVE Keeps(x, z)
    BY <1>5 DEF Keeps
  <1>6. ASSUME NEW x, NEW y, Keeps(x, y) PROVE x \in SessSession
    BY <1>6 DEF Keeps
  <1>7. Keeps(m, k)
    <2>1. CASE op = "act"
      <3>1. PICK b \in {k, Session!Distilled(k)} :
               m \in {b, Session!Distilled(b), Session!Distilled(Session!Moved(b)), Session!Moved(b)}
        BY <2>1 DEF Session!After
      <3>2. Keeps(b, k) /\ b \in SessSession
        BY <1>4, <1>6, <3>1
      <3>3. Keeps(Session!Moved(b), b) /\ Keeps(Session!Distilled(b), b) /\ Keeps(b, b)
        BY <1>4, <3>2
      <3>4. Session!Moved(b) \in SessSession
        BY <1>6, <3>3
      <3>5. Keeps(Session!Distilled(Session!Moved(b)), Session!Moved(b))
        BY <1>4, <3>4
      <3>6. Keeps(Session!Distilled(Session!Moved(b)), b)
        BY <1>5, <3>3, <3>5
      <3>7. Keeps(m, b)
        BY <3>1, <3>3, <3>6
      <3> QED
        BY <1>5, <3>2, <3>7
    <2>2. CASE op = "webmcp_invoke"
      <3>1. PICK b : b = [k EXCEPT !.tools = Session!Found(@)] /\ m \in {b, Session!Moved(b)}
        BY <2>2 DEF Session!After
      <3>2. Keeps(b, k) /\ b \in SessSession
        BY <1>4, <1>6, <3>1
      <3>3. Keeps(Session!Moved(b), b)
        BY <1>4, <3>2
      <3>4. Keeps(Session!Moved(b), k)
        BY <1>5, <3>2, <3>3
      <3> QED
        BY <3>1, <3>2, <3>4
    <2>3. CASE op \notin {"act", "webmcp_invoke"}
      <3>1. m \in {k, [k EXCEPT !.seen = Session!Knew(@), !.tools = "none"], Session!Distilled(k),
                   [k EXCEPT !.seen = "this"], Session!Moved(k), [k EXCEPT !.tools = Session!Found(@)],
                   [k EXCEPT !.tools = "this"]}
        BY <2>3 DEF Session!After
      <3> QED
        BY <1>1, <1>4, <3>1
    <2> QED
      BY <2>1, <2>2, <2>3
  <1> QED
    BY <1>7 DEF Keeps

LEMMA CutOffKeeps ==
  ASSUME NEW op, NEW k \in SessSession, NEW m \in Session!CutOff(op, k)
  PROVE  m \in SessSession /\ m.ctx = k.ctx /\ m.lost = k.lost /\ m.lock = k.lock
  <1>1. CASE m \in Session!After(op, k)
    BY <1>1, AfterKeeps
  <1>2. CASE m \notin Session!After(op, k)
    <2>1. m = [k EXCEPT !.seen = Session!Knew(@), !.tools = Session!Knew(@)]
      BY <1>2 DEF Session!CutOff, Session!Moved
    <2>2. /\ Session!Knew(k.seen) \in {"none", "this", "earlier"}
          /\ Session!Knew(k.tools) \in {"none", "this", "earlier"}
      BY DEF SessSession, Session!Knew
    <2> QED
      BY <2>1, <2>2 DEF SessSession
  <1> QED
    BY <1>1, <1>2

(* A caller at the head of the queue of its session is done with it.             *)
LEMMA LeaveStep ==
  ASSUME SessInv, NEW p \in Callers, NEW s \in Sids, s = call[p].sid, call[p].at \in {"work", "close"},
         Session!AtHead(s, p), UNCHANGED <<table, old, sweep>>,
         NEW c \in SessCall, call' = [call EXCEPT ![p] = c], c.at \in {"drop", "done"}, c.sid = s,
         c.victim = call[p].victim, c.kind = call[p].kind, c.kind \in Session!Operations => ~c.bad,
         NEW k \in SessSession, sess' = [sess EXCEPT ![s] = k], Left(sess[s].lock, p, k.lock),
         IF Works(p) THEN k.ctx = sess[s].ctx /\ k.lost = sess[s].lost ELSE k.ctx = "closed"
  PROVE  SessInv'
  <1>1. call' \in [Callers -> SessCall] /\ call'[p] = c /\ \A q \in Callers \ {p} : call'[q] = call[q]
    BY DEF SessInv, SessType
  <1>2. sess' \in [Sids -> SessSession] /\ sess'[s] = k /\ \A t \in Sids \ {s} : sess'[t] = sess[t]
    BY DEF SessInv, SessType
  <1>3. SessType'
    BY <1>1, <1>2 DEF SessInv, SessType
  <1>4. Session!WaitsFor(p) = {s} /\ (Session!WaitsFor(p) = {})'
    BY <1>1 DEF Session!WaitsFor, Session!At
  <1>5. ASSUME NEW t \in Sids \ {s} PROVE SessionOf(t)'
    BY <1>1, <1>2, <1>4, Elsewhere
  <1>6. SessionOf(s)'
    BY <1>1, <1>2, <1>4, HeadLeaves
  <1>7. CallerOf(p)'
    BY <1>1 DEF CallerOf
  <1>8. ASSUME NEW q \in Callers \ {p} PROVE CallerOf(q)'
    <2>1. ASSUME call[q].at = "setup" PROVE SetsUp(q) /\ call[q].sid # s
      BY <2>1 DEF SessInv, CallerOf, SetsUp
    <2>2. ASSUME call[q].at = "setup" PROVE call[p].victim # call[q].sid
      BY <2>1, <2>2 DEF SetsUp
    <2> QED
      BY <1>1, <1>2, <2>1, <2>2, Bystander DEF SetsUp
  <1>9. Swept'
    BY <1>2, SweepStill
  <1> QED
    BY <1>3, <1>5, <1>6, <1>7, <1>8, <1>9 DEF SessInv

LEMMA CaptureStep ==
  ASSUME SessInv, NEW p \in Callers, Session!Capture(p)
  PROVE  SessInv'
  <1>1. PICK s : s = call[p].sid
    OBVIOUS
  <1>2. PICK b \in BOOLEAN : b = (sess[s].ctx # "open")
    OBVIOUS
  <1> DEFINE c == [call[p] EXCEPT !.at = "drop", !.bad = b]
             k == [sess[s] EXCEPT !.lock = Tail(@)]
  <1>3. /\ call[p].at = "work" /\ call[p].kind = "capture" /\ Session!AtHead(s, p) /\ Works(p)
        /\ UNCHANGED <<table, old, sweep>> /\ call[p] \in SessCall /\ CallerOf(p)
    BY <1>1 DEF Session!Capture, Session!At, Works, SessInv, SessType
  <1>4. s \in Sids /\ sess[s] \in SessSession
    BY <1>1, <1>3 DEF CallerOf, SessInv, SessType
  <1>5. /\ c \in SessCall /\ c.at = "drop" /\ c.sid = s /\ c.victim = call[p].victim
        /\ c.kind = call[p].kind /\ c.kind \notin Session!Operations
    BY <1>1, <1>3, SessConstants DEF SessCall
  <1>6. Tail(sess[s].lock) \in Seq(Lockers) /\ Left(sess[s].lock, p, Tail(sess[s].lock))
    BY <1>3, <1>4, Leaves, SessConstants
  <1>7. /\ k \in SessSession /\ k.ctx = sess[s].ctx /\ k.lost = sess[s].lost
        /\ Left(sess[s].lock, p, k.lock)
    BY <1>4, <1>6 DEF SessSession
  <1>8. call' = [call EXCEPT ![p] = c] /\ sess' = [sess EXCEPT ![s] = k]
    BY <1>1, <1>2 DEF Session!Capture
  <1> HIDE DEF c, k
  <1> QED
    BY <1>1, <1>3, <1>4, <1>5, <1>7, <1>8, LeaveStep

LEMMA CloseStep ==
  ASSUME SessInv, NEW p \in Callers, Session!Close(p)
  PROVE  SessInv'
  <1>1. PICK s : s = call[p].sid
    OBVIOUS
  <1> DEFINE c == [call[p] EXCEPT !.at = "done"]
             k == [sess[s] EXCEPT !.ctx = "closed", !.lock = Tail(@)]
  <1>3. /\ call[p].at = "close" /\ Session!AtHead(s, p) /\ ~Works(p)
        /\ UNCHANGED <<table, old, sweep>> /\ call[p] \in SessCall /\ CallerOf(p)
    BY <1>1 DEF Session!Close, Session!At, Works, SessInv, SessType
  <1>4. s \in Sids /\ sess[s] \in SessSession
    BY <1>1, <1>3 DEF CallerOf, SessInv, SessType
  <1>5. /\ c \in SessCall /\ c.at = "done" /\ c.sid = s /\ c.victim = call[p].victim
        /\ c.kind = call[p].kind /\ c.bad = call[p].bad
    BY <1>1, <1>3 DEF SessCall
  <1>6. Tail(sess[s].lock) \in Seq(Lockers) /\ Left(sess[s].lock, p, Tail(sess[s].lock))
    BY <1>3, <1>4, Leaves, SessConstants
  <1>7. k \in SessSession /\ k.ctx = "closed" /\ Left(sess[s].lock, p, k.lock)
    BY <1>4, <1>6 DEF SessSession
  <1>8. call' = [call EXCEPT ![p] = c] /\ sess' = [sess EXCEPT ![s] = k]
    BY <1>1 DEF Session!Close, Session!Done, Session!Closed
  <1>9. c.kind \in Session!Operations => ~c.bad
    BY <1>3, <1>5 DEF CallerOf
  <1> HIDE DEF c, k
  <1> QED
    BY <1>1, <1>3, <1>4, <1>5, <1>7, <1>8, <1>9, LeaveStep

LEMMA WorkStep ==
  ASSUME SessInv, NEW p \in Callers, Session!Work(p)
  PROVE  SessInv'
  <1>1. PICK s : s = call[p].sid
    OBVIOUS
  <1>2. PICK m \in Session!After(call[p].kind, sess[s]) :
           sess' = [sess EXCEPT ![s] = [m EXCEPT !.lock = Tail(@)]]
    BY <1>1 DEF Session!Work
  <1> DEFINE c == [call[p] EXCEPT !.at = "done", !.bad = FALSE]
             k == [m EXCEPT !.lock = Tail(@)]
  <1>3. /\ call[p].at = "work" /\ Session!AtHead(s, p) /\ Works(p) /\ call[p].kind \in Session!Operations
        /\ UNCHANGED <<table, old, sweep>> /\ call[p] \in SessCall /\ CallerOf(p)
    BY <1>1 DEF Session!Work, Session!At, Works, SessInv, SessType
  <1>4. s \in Sids /\ sess[s] \in SessSession /\ SessionOf(s)
    BY <1>1, <1>3 DEF CallerOf, SessInv, SessType
  <1>5. /\ c \in SessCall /\ c.at = "done" /\ c.sid = s /\ c.victim = call[p].victim
        /\ c.kind = call[p].kind /\ c.bad = FALSE
    BY <1>1, <1>3 DEF SessCall
  <1>6. Tail(sess[s].lock) \in Seq(Lockers) /\ Left(sess[s].lock, p, Tail(sess[s].lock))
        /\ Has(sess[s].lock, p)
    BY <1>3, <1>4, Leaves, SessConstants
  <1>7. m \in SessSession /\ m.ctx = sess[s].ctx /\ m.lost = sess[s].lost /\ m.lock = sess[s].lock
    BY <1>4, AfterKeeps
  <1>8. /\ k \in SessSession /\ k.ctx = sess[s].ctx /\ k.lost = sess[s].lost
        /\ Left(sess[s].lock, p, k.lock)
    BY <1>6, <1>7 DEF SessSession
  <1>9. sess[s].ctx = "open"
    BY <1>3, <1>4, <1>6 DEF SessionOf, Served, Operates
  <1>10. call' = [call EXCEPT ![p] = c]
    BY <1>1, <1>9 DEF Session!Work
  <1>11. sess' = [sess EXCEPT ![s] = k]
    BY <1>2
  <1> HIDE DEF c, k
  <1> QED
    BY <1>1, <1>3, <1>4, <1>5, <1>8, <1>10, <1>11, LeaveStep

LEMMA UseStep ==
  ASSUME SessInv, NEW p \in Callers, NEW s \in Sids, NEW op \in Session!Operations, Session!Use(p, s, op)
  PROVE  SessInv'
  <1>1. call[p].at = "idle" /\ UNCHANGED sweep /\ CallerOf(p) /\ call[p] \in SessCall /\ SessionOf(s)
    BY DEF Session!Use, Session!At, SessInv, SessType
  <1>2. CASE s \notin table
    <2>1. Session!Done(p) /\ UNCHANGED <<table, old, sess>>
      BY <1>2 DEF Session!Use
    <2> QED
      BY <1>1, <2>1, DoneStep
  <1>3. CASE s \in table /\ s \in old
    <2>1. /\ table' = table \ {s} /\ old' = old \ {s} /\ sess' = Session!Closing(s, p)
          /\ call' = [call EXCEPT ![p].at = "close", ![p].sid = s]
      BY <1>3 DEF Session!Use
    <2> QED
      BY <1>1, <1>3, <2>1, RemoveStep
  <1>4. CASE s \in table /\ s \notin old
    <2>1. /\ UNCHANGED <<table, old>> /\ sess' = Session!Queued(s, p)
          /\ call' = [call EXCEPT ![p].at = "work", ![p].kind = op, ![p].sid = s]
      BY <1>4 DEF Session!Use
    <2>2. call[p] = Session!NoCall /\ ~call[p].bad
      BY <1>1 DEF CallerOf, Session!NoCall
    <2>3. /\ call' \in [Callers -> SessCall] /\ \A q \in Callers \ {p} : call'[q] = call[q]
          /\ call'[p].at = "work" /\ call'[p].kind = op /\ call'[p].sid = s
          /\ call'[p].victim = call[p].victim /\ call'[p].bad = FALSE
      BY <1>1, <2>1, <2>2 DEF SessInv, SessType, SessCall, SessKinds
    <2>4. Session!WaitsFor(p) = {} /\ (Session!WaitsFor(p) = {s})'
      BY <1>1, <2>3 DEF Session!WaitsFor, Session!At
    <2>5. ~Has(sess[s].lock, p)
      BY <1>1, <2>4 DEF SessionOf, Queue
    <2>6. Append(sess[s].lock, p) \in Seq(Lockers)
          /\ Joined(sess[s].lock, p, Append(sess[s].lock, p))
      BY <2>5, Joins, SessConstants
    <2>7. /\ sess' \in [Sids -> SessSession] /\ \A t \in Sids \ {s} : sess'[t] = sess[t]
          /\ sess'[s].ctx = sess[s].ctx /\ Joined(sess[s].lock, p, sess'[s].lock)
      BY <2>1, <2>6 DEF SessInv, SessType, SessSession, Session!Queued
    <2>8. SessType'
      BY <1>1, <2>1, <2>3, <2>7 DEF SessInv, SessType
    <2>9. ASSUME NEW t \in Sids \ {s} PROVE SessionOf(t)'
      BY <1>1, <2>1, <2>3, <2>4, <2>7, Elsewhere
    <2>10. SessionOf(s)'
      <3>1. /\ sess[s].ctx = "open" /\ s \notin sweep.todo
            /\ \A a \in Lockers : Has(sess[s].lock, a) => Works(a)
        BY <1>1, <1>4 DEF SessionOf, Listed
      <3> QED
        BY <1>1, <1>4, <2>1, <2>3, <2>4, <2>7, <3>1, WorkerJoins
    <2>11. CallerOf(p)'
      BY <2>3 DEF CallerOf
    <2>12. ASSUME NEW q \in Callers \ {p} PROVE CallerOf(q)'
      <3>1. ASSUME call[q].at = "setup" PROVE SetsUp(q) /\ call[q].sid # s
        BY <1>4, <3>1 DEF SessInv, CallerOf, SetsUp
      <3> QED
        BY <1>1, <2>1, <2>3, <2>7, <3>1, Bystander DEF SetsUp
    <2>13. Swept'
      BY <1>1, <2>7, SweepStill
    <2> QED
      BY <2>8, <2>9, <2>10, <2>11, <2>12, <2>13 DEF SessInv
  <1> QED
    BY <1>2, <1>3, <1>4

(* A caller that is cancelled while it waits for a lock or holds it.             *)
LEMMA LeavesLockStep ==
  ASSUME SessInv, NEW p \in Callers, Session!Fault, UNCHANGED <<table, old>>,
         Session!LeavesClose(p) \/ Session!LeavesWork(p)
  PROVE  SessInv'
  <1>1. PICK s : s = IF Session!At(p, "evict") THEN call[p].victim ELSE call[p].sid
    OBVIOUS
  <1>2. /\ call[p].at \in {"evict", "close", "work"} /\ call[p] \in SessCall /\ CallerOf(p)
        /\ Works(p) <=> Session!LeavesWork(p)
    BY DEF Session!LeavesClose, Session!LeavesWork, Session!At, Works, SessInv, SessType
  <1>3. s \in Sids /\ sess[s] \in SessSession /\ SessionOf(s) /\ Session!WaitsFor(p) = {s}
    BY <1>1, <1>2 DEF CallerOf, Session!At, Session!WaitsFor, SessInv, SessType
  <1>4. sweep' \in SessSweep /\ sweep'.todo = sweep.todo /\ sweep'.at = sweep.at
    BY DEF Session!Fault, SessInv, SessType, SessSweep
  <1>5. PICK a \in {"done", "drop"} : /\ call' = [call EXCEPT ![p].at = a]
    BY DEF Session!LeavesClose, Session!LeavesWork, Session!Done, Session!Step
  <1>6. /\ call' \in [Callers -> SessCall] /\ \A q \in Callers \ {p} : call'[q] = call[q]
        /\ call'[p].at = a /\ call'[p].sid = call[p].sid /\ call'[p].kind = call[p].kind
        /\ call'[p].victim = call[p].victim /\ call'[p].bad = call[p].bad
    BY <1>5 DEF SessInv, SessType, SessCall
  <1>7. (Session!WaitsFor(p) = {})'
    BY <1>6 DEF Session!WaitsFor, Session!At
  <1>8. PICK rest : rest = Session!Others(s, p)
    OBVIOUS
  <1>9. rest \in Seq(Lockers) /\ Gone(sess[s].lock, p, rest)
    BY <1>3, <1>8, LeavesAnywhere
  <1>10. /\ sess' \in [Sids -> SessSession] /\ \A t \in Sids \ {s} : sess'[t] = sess[t]
         /\ SessionOf(s)'
         /\ Gone(sess[s].lock, p, sess'[s].lock) \/ Left(sess[s].lock, p, sess'[s].lock)
    <2>1. CASE sess' = [sess EXCEPT ![s].lost = TRUE, ![s].lock = rest] /\ ~Works(p)
      <3>1. /\ sess' \in [Sids -> SessSession] /\ \A t \in Sids \ {s} : sess'[t] = sess[t]
            /\ sess'[s].ctx = sess[s].ctx /\ sess'[s].lost /\ sess'[s].lock = rest
        BY <1>3, <1>9, <2>1 DEF SessInv, SessType, SessSession
      <3>2. SessionOf(s)'
        BY <1>3, <1>4, <1>6, <1>7, <1>9, <2>1, <3>1, CancelledLeaves
      <3> QED
        BY <1>9, <3>1, <3>2
    <2>2. CASE Session!AtHead(s, p) /\ sess' = Session!Closed(s) /\ ~Works(p)
      <3>1. Tail(sess[s].lock) \in Seq(Lockers) /\ Left(sess[s].lock, p, Tail(sess[s].lock))
        BY <1>3, <2>2, Leaves, SessConstants
      <3>2. /\ sess' \in [Sids -> SessSession] /\ \A t \in Sids \ {s} : sess'[t] = sess[t]
            /\ sess'[s].ctx = "closed" /\ Left(sess[s].lock, p, sess'[s].lock)
        BY <1>3, <2>2, <3>1 DEF SessInv, SessType, SessSession, Session!Closed
      <3>3. SessionOf(s)'
        BY <1>3, <1>4, <1>6, <1>7, <2>2, <3>2, HeadLeaves
      <3> QED
        BY <3>2, <3>3
    <2>3. ASSUME NEW k \in {sess[s]} \cup Session!CutOff(call[p].kind, sess[s]), Works(p),
                 sess' = [sess EXCEPT ![s] = [k EXCEPT !.lock = rest]]
          PROVE  /\ sess' \in [Sids -> SessSession] /\ \A t \in Sids \ {s} : sess'[t] = sess[t]
                 /\ SessionOf(s)' /\ Gone(sess[s].lock, p, sess'[s].lock)
      <3>1. k \in SessSession /\ k.ctx = sess[s].ctx /\ k.lost = sess[s].lost
        BY <1>3, <2>3, CutOffKeeps
      <3>2. [k EXCEPT !.lock = rest] \in SessSession
        BY <1>9, <3>1 DEF SessSession
      <3>3. /\ sess' \in [Sids -> SessSession] /\ \A t \in Sids \ {s} : sess'[t] = sess[t]
            /\ sess'[s] = [k EXCEPT !.lock = rest]
        BY <1>3, <2>3, <3>2 DEF SessInv, SessType
      <3>4. sess'[s].ctx = sess[s].ctx /\ sess'[s].lost = sess[s].lost /\ sess'[s].lock = rest
        BY <3>1, <3>3 DEF SessSession
      <3>5. SessionOf(s)'
        BY <1>3, <1>4, <1>6, <1>7, <1>9, <2>3, <3>4, CancelledLeaves
      <3> QED
        BY <1>9, <3>3, <3>4, <3>5
    <2>4. CASE Session!LeavesClose(p)
      BY <1>1, <1>2, <1>8, <2>1, <2>2, <2>4 DEF Session!LeavesClose, Session!At, Works
    <2>5. CASE Session!LeavesWork(p)
      <3>1. s = call[p].sid /\ Works(p)
        BY <1>1, <1>2, <2>5 DEF Session!At, Works
      <3>2. PICK k \in {sess[s]} \cup Session!CutOff(call[p].kind, sess[s]) :
               sess' = [sess EXCEPT ![s] = [k EXCEPT !.lock = rest]]
        BY <1>8, <2>5, <3>1 DEF Session!LeavesWork
      <3> QED
        BY <2>3, <3>1, <3>2
    <2> QED
      BY <2>4, <2>5
  <1>11. SessType'
    BY <1>4, <1>6, <1>10 DEF SessInv, SessType
  <1>12. ASSUME NEW t \in Sids \ {s} PROVE SessionOf(t)'
    BY <1>2, <1>3, <1>4, <1>6, <1>7, <1>10, Elsewhere
  <1>13. CallerOf(p)'
    <2>1. ASSUME a = "drop" PROVE call[p].at = "work"
      <3>1. ASSUME Session!LeavesClose(p) PROVE FALSE
        <4>1. call' = [call EXCEPT ![p].at = "done"]
          BY <3>1 DEF Session!LeavesClose, Session!Done
        <4>2. call'[p].at = "done"
          BY <1>2, <4>1 DEF SessInv, SessType, SessCall
        <4> QED
          BY <1>6, <2>1, <4>2
      <3> QED
        BY <3>1 DEF Session!LeavesWork, Session!At
    <2> QED
      BY <1>2, <1>6, <2>1 DEF CallerOf
  <1>14. ASSUME NEW q \in Callers \ {p} PROVE CallerOf(q)'
    <2>1. ASSUME call[q].at = "setup" PROVE SetsUp(q) /\ call[q].sid # s /\ call[p].victim # call[q].sid
      <3>1. SetsUp(q)
        BY <2>1 DEF SessInv, CallerOf
      <3>2. Has(sess[s].lock, p) /\ p \in Lockers
        BY <1>9, SessConstants DEF Gone
      <3> QED
        BY <3>1, <3>2 DEF SetsUp
    <2> QED
      BY <1>4, <1>6, <1>10, <2>1, Bystander DEF SetsUp
  <1>15. Swept'
    BY <1>4, <1>10, SweepStill
  <1> QED
    BY <1>11, <1>10, <1>12, <1>13, <1>14, <1>15 DEF SessInv

LEMMA CancelledCallStep ==
  ASSUME SessInv, NEW p \in Callers, Session!Cancelled(p)
  PROVE  SessInv'
  <1>1. Session!Fault /\ UNCHANGED <<table, old>>
    BY DEF Session!Cancelled
  <1>2. CASE Session!LeavesNothing(p)
    BY <1>1, <1>2, DoneStep DEF Session!LeavesNothing, Session!At
  <1>3. CASE Session!LeavesContext(p)
    <2>1. call[p].at = "slot" /\ Session!Done(p)
      BY <1>3 DEF Session!LeavesContext, Session!At
    <2>2. CASE UNCHANGED sess
      BY <1>1, <2>1, <2>2, DoneStep
    <2>3. CASE ~ UNCHANGED sess
      <3>1. PICK s \in Sids : sess[s].ctx = "none" /\ sess' = [sess EXCEPT ![s].ctx = "open", ![s].lost = TRUE]
        BY <1>3, <2>3 DEF Session!LeavesContext
      <3> QED
        BY <1>1, <2>1, <3>1, LeavesContextStep
    <2> QED
      BY <2>2, <2>3
  <1>4. CASE Session!LeavesSetup(p)
    BY <1>1, <1>4, SetupEnds DEF Session!LeavesSetup, Session!At
  <1>5. CASE Session!LeavesClose(p) \/ Session!LeavesWork(p)
    BY <1>1, <1>5, LeavesLockStep
  <1> QED
    BY <1>2, <1>3, <1>4, <1>5 DEF Session!Cancelled

(* The steps of the sweep, and of the time.                                      *)
LEMMA SweepElsewhere ==
  ASSUME SessInv, UNCHANGED call, NEW t \in Sids, sess'[t] = sess[t],
         t \in table' => t \in table /\ t \notin sweep'.todo,
         t \in table' \cup sweep'.todo <=> t \in table \cup sweep.todo,
         Has(sess[t].lock, Sweeper) => sweep'.at = "close" /\ t \in sweep'.todo
  PROVE  SessionOf(t)'
  <1>1. SessionOf(t)
    BY DEF SessInv
  <1>2. Queue(t)'
    BY <1>1 DEF SessionOf, Queue, Session!WaitsFor, Session!At
  <1>3. Served(t)'
    BY <1>1 DEF SessionOf, Served, Operates, Works
  <1>4. Listed(t)'
    BY <1>1 DEF SessionOf, Listed, Works
  <1>5. Fresh(t)'
    BY <1>1 DEF SessionOf, Fresh
  <1>6. Owned(t) => Owned(t)'
    BY DEF Owned
  <1> QED
    BY <1>1, <1>2, <1>3, <1>4, <1>5, <1>6 DEF SessionOf
LEMMA SweepBystander ==
  ASSUME SessInv, UNCHANGED call, NEW p \in Callers,
         call[p].at = "setup" => /\ sess'[call[p].sid].ctx = sess[call[p].sid].ctx
                                 /\ sess'[call[p].sid].lock = sess[call[p].sid].lock
                                 /\ call[p].sid \notin table' \cup sweep'.todo
  PROVE  CallerOf(p)'
  <1>1. CallerOf(p)
    BY DEF SessInv
  <1>2. ASSUME call[p].at = "setup" PROVE SetsUp(p)'
    BY <1>1, <1>2 DEF CallerOf, SetsUp
  <1> QED
    BY <1>1, <1>2 DEF CallerOf, Session!NoCall

(* Sessions expire, and what expired, or all of them at the end, goes to the sweep. *)
LEMMA SweepStep ==
  ASSUME SessInv, UNCHANGED <<sess, call>>, sweep' \in SessSweep,
         \/ Session!Sweep \/ Session!CloseAll \/ \E s \in Sids : Session!Expire(s)
  PROVE  SessInv'
  <1>1. CASE \E s \in Sids : Session!Expire(s)
    <2>1. UNCHANGED <<table, sweep>> /\ old' \in SUBSET table
      BY <1>1 DEF Session!Expire, SessInv, SessType
    <2>2. SessType'
      BY <2>1 DEF SessInv, SessType
    <2>3. ASSUME NEW t \in Sids PROVE SessionOf(t)'
      <3>1. Queue(t) /\ Listed(t)
        BY DEF SessInv, SessionOf
      <3> QED
        BY <2>1, <3>1, SweepElsewhere DEF Queue, Listed
    <2>4. ASSUME NEW p \in Callers PROVE CallerOf(p)'
      <3>1. call[p].at = "setup" => SetsUp(p)
        BY DEF SessInv, CallerOf
      <3> QED
        BY <2>1, <3>1, SweepBystander DEF SetsUp
    <2>5. Swept'
      BY <2>1 DEF SessInv, Swept
    <2> QED
      BY <2>2, <2>3, <2>4, <2>5 DEF SessInv
  <1>2. CASE Session!Sweep \/ Session!CloseAll
    <2>1. PICK some \in SUBSET table :
             /\ sweep.at = "asleep" /\ sweep' = [sweep EXCEPT !.todo = some, !.at = "next"]
             /\ table' = table \ some /\ old' = {}
      <3>1. CASE Session!Sweep
        BY <3>1 DEF Session!Sweep, SessInv, SessType
      <3>2. CASE Session!CloseAll
        <4>1. table \ table = {}
          OBVIOUS
        <4> QED
          BY <3>2, <4>1 DEF Session!CloseAll
      <3> QED
        BY <1>2, <3>1, <3>2
    <2>2. sweep.todo = {} /\ sweep'.todo = some /\ sweep'.at = "next"
      BY <2>1 DEF SessInv, SessType, SessSweep, Swept
    <2>3. \A t \in Sids : ~Has(sess[t].lock, Sweeper)
      BY <2>1 DEF SessInv, SessionOf, Queue
    <2>4. SessType'
      BY <2>1 DEF SessInv, SessType
    <2>5. ASSUME NEW t \in Sids PROVE SessionOf(t)'
      BY <2>1, <2>2, <2>3, SweepElsewhere
    <2>6. ASSUME NEW p \in Callers PROVE CallerOf(p)'
      <3>1. call[p].at = "setup" => SetsUp(p)
        BY DEF SessInv, CallerOf
      <3> QED
        BY <2>1, <2>2, <3>1, SweepBystander DEF SetsUp
    <2>7. Swept'
      BY <2>2, <2>3 DEF Swept
    <2> QED
      BY <2>4, <2>5, <2>6, <2>7 DEF SessInv
  <1> QED
    BY <1>1, <1>2

LEMMA SweepNextStep ==
  ASSUME SessInv, Session!SweepNext
  PROVE  SessInv'
  <1>1. sweep.at = "next" /\ UNCHANGED <<table, old, call>>
    BY DEF Session!SweepNext
  <1>2. \A t \in Sids : ~Has(sess[t].lock, Sweeper)
    BY <1>1 DEF SessInv, SessionOf, Queue
  <1>3. ASSUME NEW p \in Callers, call[p].at = "setup" PROVE SetsUp(p)
    BY <1>3 DEF SessInv, CallerOf
  <1>4. \A t \in Sids : Listed(t)
    BY DEF SessInv, SessionOf
  <1>5. CASE sweep.todo = {} /\ sweep' = [sweep EXCEPT !.at = "asleep"] /\ UNCHANGED sess
    <2>1. sweep'.todo = {} /\ sweep' \in SessSweep
      BY <1>5 DEF SessInv, SessType, SessSweep
    <2>2. SessType'
      BY <1>1, <1>5, <2>1 DEF SessInv, SessType
    <2>3. ASSUME NEW t \in Sids PROVE SessionOf(t)'
      BY <1>1, <1>2, <1>5, <2>1, SweepElsewhere
    <2>4. ASSUME NEW p \in Callers PROVE CallerOf(p)'
      BY <1>1, <1>3, <1>5, <2>1, SweepBystander DEF SetsUp
    <2>5. Swept'
      BY <1>2, <1>5, <2>1 DEF Swept
    <2> QED
      BY <2>2, <2>3, <2>4, <2>5 DEF SessInv
  <1>6. ASSUME NEW s \in sweep.todo, sess' = Session!Closing(s, Sweeper),
               sweep' = [sweep EXCEPT !.at = "close"]
        PROVE  SessInv'
    <2>1. sweep'.todo = sweep.todo /\ sweep'.at = "close" /\ sweep' \in SessSweep /\ s \in Sids
      BY <1>6 DEF SessInv, SessType, SessSweep
    <2>2. Append(sess[s].lock, Sweeper) \in Seq(Lockers)
          /\ Joined(sess[s].lock, Sweeper, Append(sess[s].lock, Sweeper))
      BY <1>2, <2>1, Joins, SessConstants
    <2>3. /\ sess' \in [Sids -> SessSession] /\ \A t \in Sids \ {s} : sess'[t] = sess[t]
          /\ sess'[s].ctx = sess[s].ctx /\ Joined(sess[s].lock, Sweeper, sess'[s].lock)
      BY <1>6, <2>1, <2>2 DEF SessInv, SessType, SessSession, Session!Closing
    <2>4. SessType'
      BY <1>1, <2>1, <2>3 DEF SessInv, SessType
    <2>5. ASSUME NEW t \in Sids \ {s} PROVE SessionOf(t)'
      BY <1>1, <1>2, <1>4, <2>1, <2>3, SweepElsewhere DEF Listed
    <2>6. SessionOf(s)'
      <3>1. /\ OneTurn(sess'[s].lock)
            /\ \A a : Has(sess'[s].lock, a) <=> (Has(sess[s].lock, a) \/ a = Sweeper)
            /\ \A a, b : Before(sess'[s].lock, a, b) =>
                           Before(sess[s].lock, a, b) \/ (b = Sweeper /\ Has(sess[s].lock, a))
        BY <2>3 DEF Joined
      <3>2. SessionOf(s) /\ s \notin table
        BY <2>1 DEF SessInv, SessionOf, Listed
      <3>3. Queue(s)'
        BY <1>1, <2>1, <3>1, <3>2, SessConstants DEF SessionOf, Queue, Session!WaitsFor, Session!At
      <3>4. Served(s)'
        BY <1>1, <2>3, <3>1, <3>2, SessConstants DEF SessionOf, Served, Operates, Works
      <3>5. Listed(s)' /\ Fresh(s)' /\ Owned(s)'
        BY <1>1, <2>1, <2>3, <3>2 DEF SessionOf, Listed, Fresh, Owned
      <3> QED
        BY <3>3, <3>4, <3>5 DEF SessionOf
    <2>7. ASSUME NEW p \in Callers PROVE CallerOf(p)'
      <3>1. call[p].at = "setup" => SetsUp(p) /\ call[p].sid # s
        BY <1>3 DEF SetsUp
      <3> QED
        BY <1>1, <2>1, <2>3, <3>1, SweepBystander DEF SetsUp
    <2>8. Swept'
      <3>1. ASSUME NEW t \in Sids, Has(sess'[t].lock, Sweeper) PROVE t = s
        BY <1>2, <2>3, <3>1
      <3> QED
        BY <2>1, <3>1 DEF Swept
    <2> QED
      BY <2>4, <2>5, <2>6, <2>7, <2>8 DEF SessInv
  <1> QED
    BY <1>5, <1>6 DEF Session!SweepNext, Session!Oldest

LEMMA SweepCloseStep ==
  ASSUME SessInv, Session!SweepClose
  PROVE  SessInv'
  <1>1. sweep.at = "close" /\ UNCHANGED <<table, old, call>>
    BY DEF Session!SweepClose
  <1>2. PICK s \in sweep.todo : /\ Session!AtHead(s, Sweeper) /\ sess' = Session!Closed(s)
                                /\ sweep' = [sweep EXCEPT !.todo = @ \ {s}, !.at = "next"]
    BY DEF Session!SweepClose
  <1>3. /\ sweep'.todo = sweep.todo \ {s} /\ sweep'.at = "next" /\ sweep' \in SessSweep /\ s \in Sids
    BY <1>2 DEF SessInv, SessType, SessSweep
  <1>4. /\ Tail(sess[s].lock) \in Seq(Lockers) /\ Left(sess[s].lock, Sweeper, Tail(sess[s].lock))
        /\ Has(sess[s].lock, Sweeper)
    BY <1>2, <1>3, Leaves, SessConstants
  <1>5. /\ sess' \in [Sids -> SessSession] /\ \A t \in Sids \ {s} : sess'[t] = sess[t]
        /\ sess'[s].ctx = "closed" /\ Left(sess[s].lock, Sweeper, sess'[s].lock)
    BY <1>2, <1>3, <1>4 DEF SessInv, SessType, SessSession, Session!Closed
  <1>6. /\ OneTurn(sess'[s].lock)
        /\ \A b : Has(sess'[s].lock, b) <=> (Has(sess[s].lock, b) /\ b # Sweeper)
        /\ \A b : Has(sess'[s].lock, b) => Before(sess[s].lock, Sweeper, b)
    BY <1>5 DEF Left
  <1>7. SessType'
    BY <1>1, <1>3, <1>5 DEF SessInv, SessType
  <1>8. \A t \in Sids \ {s} : ~Has(sess[t].lock, Sweeper) /\ Listed(t)
    BY <1>3, <1>4 DEF SessInv, Swept, SessionOf
  <1>9. ASSUME NEW t \in Sids \ {s} PROVE SessionOf(t)'
    BY <1>1, <1>3, <1>5, <1>8, SweepElsewhere DEF Listed
  <1>10. SessionOf(s)'
    <2>1. SessionOf(s) /\ s \notin table
      BY <1>3 DEF SessInv, SessionOf, Listed
    <2>2. Queue(s)'
      BY <1>1, <1>6, <2>1, SessConstants DEF SessionOf, Queue, Session!WaitsFor, Session!At
    <2>3. Served(s)'
      <3> SUFFICES ASSUME NEW q \in Callers, Operates(q), Has(sess'[s].lock, q) PROVE FALSE
        BY <1>1 DEF Served, Operates, Works
      <3>1. Has(sess[s].lock, q) /\ Before(sess[s].lock, Sweeper, q)
        BY <1>6
      <3> QED
        BY <2>1, <3>1, SessConstants DEF SessionOf, Served, Works
    <2>4. Listed(s)' /\ Fresh(s)'
      BY <1>1, <1>5, <2>1 DEF Listed, Fresh
    <2> QED
      BY <1>5, <2>2, <2>3, <2>4 DEF SessionOf
  <1>11. ASSUME NEW p \in Callers PROVE CallerOf(p)'
    <2>1. call[p].at = "setup" => SetsUp(p) /\ call[p].sid # s
      BY DEF SessInv, CallerOf, SetsUp
    <2> QED
      BY <1>1, <1>3, <1>5, <2>1, SweepBystander DEF SetsUp
  <1>12. Swept'
    BY <1>3, <1>5, <1>6, <1>8 DEF Swept
  <1> QED
    BY <1>7, <1>9, <1>10, <1>11, <1>12 DEF SessInv

LEMMA SessStep == ASSUME SessInv, [Session!Next]_(Session!vars) PROVE SessInv'
  <1>1. ASSUME UNCHANGED Session!vars PROVE SessInv'
    <2>1. UNCHANGED <<table, old, sess, call, sweep>>
      BY <1>1 DEF Session!vars
    <2>2. SessType' /\ Swept'
      BY <2>1 DEF SessInv, SessType, Swept
    <2>3. ASSUME NEW t \in Sids PROVE SessionOf(t)'
      <3>1. Queue(t) /\ Listed(t)
        BY DEF SessInv, SessionOf
      <3> QED
        BY <2>1, <3>1, SweepElsewhere DEF Queue, Listed
    <2>4. ASSUME NEW p \in Callers PROVE CallerOf(p)'
      <3>1. call[p].at = "setup" => SetsUp(p)
        BY DEF SessInv, CallerOf
      <3> QED
        BY <2>1, <3>1, SweepBystander DEF SetsUp
    <2> QED
      BY <2>2, <2>3, <2>4 DEF SessInv
  <1>2. ASSUME NEW p \in Callers, Session!Drop(p) PROVE SessInv'
    <2>1. call[p].sid \in Sids /\ call[p].at = "drop"
      BY <1>2 DEF Session!Drop, Session!At, SessInv, CallerOf
    <2> QED
      BY <1>2, <2>1, RemoveSessionStep DEF Session!Drop
  <1>3. ASSUME NEW p \in Callers, NEW s \in Sids, Session!CloseSession(p, s) PROVE SessInv'
    BY <1>3, RemoveSessionStep DEF Session!CloseSession, Session!At
  <1>4. ASSUME NEW p \in Callers,
               \/ Session!Acquire(p) \/ Session!Refuse(p) \/ Session!NewContext(p)
               \/ Session!SetupFails(p) \/ Session!Put(p) \/ Session!Evict(p)
               \/ Session!Capture(p) \/ Session!Close(p) \/ Session!Work(p) \/ Session!Cancelled(p)
        PROVE  SessInv'
    <2>1. ASSUME Session!SetupFails(p) PROVE SessInv'
      BY <2>1, SetupEnds DEF Session!SetupFails, Session!At
    <2> QED
      BY <1>4, <2>1, WaitStep, NewContextStep, PutStep, EvictStep, CaptureStep, CloseStep, WorkStep,
         CancelledCallStep
  <1>5. ASSUME Session!Sweep \/ Session!CloseAll \/ \E s \in Sids : Session!Expire(s) PROVE SessInv'
    <2>1. UNCHANGED <<sess, call>>
      BY <1>5 DEF Session!Sweep, Session!CloseAll, Session!Expire
    <2>2. sweep' \in SessSweep
      BY <1>5 DEF Session!Sweep, Session!CloseAll, Session!Expire, SessInv, SessType, SessSweep
    <2> QED
      BY <1>5, <2>1, <2>2, SweepStep
  <1> QED
    BY <1>1, <1>2, <1>3, <1>4, <1>5, SessAskStep, UseStep, SweepNextStep, SweepCloseStep DEF Session!Next

LEMMA SessAlways == SessInv /\ [Next]_vars => SessInv'
  <1> SUFFICES ASSUME SessInv, [Next]_vars PROVE SessInv'
    OBVIOUS
  <1>1. [Session!Next]_(Session!vars)
    BY StepOfBrowser DEF sessionVars, Session!vars
  <1> QED
    BY <1>1, SessStep

(* Sessions: an open context has an owner that will close it, no endpoint drives  *)
(* a closed one, and nobody holds one session while it waits for another, for     *)
(* every number of callers, sessions and failures, in whatever order sessions are *)
(* evicted, expire and are closed, and wherever a caller is cancelled; only the   *)
(* caller that was to close a context, or asked for it, leaves it without one.    *)
THEOREM SessionsSafe == Spec => []SessionsAreSafe
  <1>1. Init => SessInv
    BY SessStarts DEF Init
  <1>2. SessInv /\ [Next]_vars => SessInv'
    BY SessAlways
  <1>3. SessInv => SessionsAreSafe
    <2> SUFFICES ASSUME SessInv PROVE SessionsAreSafe
      OBVIOUS
    <2>1. Session!ContextsOwned
      BY DEF SessInv, SessionOf, Owned, Session!ContextsOwned
    <2>2. Session!EndpointsWorkOpen
      BY DEF SessInv, CallerOf, Session!EndpointsWorkOpen
    <2>3. Session!NoHoldAndWait
      <3> SUFFICES ASSUME NEW p \in Callers, NEW s \in Sids
                   PROVE  LET places == {i \in DOMAIN sess[s].lock : sess[s].lock[i] = p} IN
                          /\ s \in Session!WaitsFor(p) <=> places # {}
                          /\ \A i, j \in places : i = j
        BY DEF Session!NoHoldAndWait
      <3>1. Queue(s)
        BY DEF SessInv, SessionOf
      <3> QED
        BY <3>1 DEF Queue, Has, OneTurn
    <2> QED
      BY <2>1, <2>2, <2>3 DEF SessionsAreSafe
  <1> QED
    BY <1>1, <1>2, <1>3, PTL DEF Spec
=============================================================================
