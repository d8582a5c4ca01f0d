----------------------------- MODULE Admission -----------------------------
(***************************************************************************)
(* What stands between an upload and the library: the bytes uploads may    *)
(* hold, the gate of the copies, the doc_id and its lock, and the parse    *)
(* slots.  A request is a coroutine: it runs from one await to the next.   *)
(*                                                                         *)
(*   req        the requests: where each is, and what it holds             *)
(*   receiving  _receiving_bytes_held                                      *)
(*   scratch    _scratch_bytes_held                                        *)
(*   lib        the stored documents: the request that wrote each          *)
(*   counter    .counter, of the ids minted by number                      *)
(***************************************************************************)
EXTENDS Integers, Sequences, FiniteSets, FiniteSetsExt

CONSTANTS
    Requests,     \* upload requests
    Sizes,        \* the bytes of a file
    Unsized,      \* what a request of no believable length declares
    Ceiling,      \* the most one request may be
    Budget,       \* _parse_queue_max_bytes
    MaxUpload,    \* _MAX_CONCURRENT_UPLOAD
    MaxParse,     \* _MAX_CONCURRENT_PARSE
    Numbered,     \* the ids the counter mints, in order
    Named,        \* the ids a file name mints, in order
    Asks,         \* how clients ask for an id: an id, "counter" or "filename"
    Free          \* no document, no id

AdmissionAssumption ==
    /\ Sizes \subseteq 0..Ceiling /\ Unsized \notin Sizes
    /\ Ceiling \in Nat /\ Budget \in Nat /\ IsFiniteSet(Requests) /\ Free \notin Requests
    /\ MaxUpload \in Nat \ {0} /\ MaxParse \in Nat \ {0}

Ids == {Numbered[i] : i \in DOMAIN Numbered} \cup {Named[i] : i \in DOMAIN Named}

(* The ids: a numbered one and one of a file name are never the same.         *)
IdsAssumption ==
    /\ Numbered \in Seq(Ids) /\ Named \in Seq(Ids)
    /\ Free \notin Ids /\ "counter" \notin Ids /\ "filename" \notin Ids
    /\ \A i, k \in DOMAIN Numbered : Numbered[i] = Numbered[k] => i = k
    /\ \A i \in DOMAIN Numbered, k \in DOMAIN Named : Numbered[i] # Named[k]

VARIABLES req, receiving, scratch, lib, counter
vars == <<req, receiving, scratch, lib, counter>>

NoRequest == [at |-> "new", size |-> 0, reserved |-> 0, counted |-> FALSE, id |-> Free,
              ask |-> Free, replace |-> FALSE, replacing |-> FALSE, raw |-> FALSE,
              turn |-> 0, answer |-> "none"]

Init ==
    /\ req = [r \in Requests |-> NoRequest]
    /\ receiving = 0 /\ scratch = 0
    /\ lib = [i \in Ids |-> Free]
    /\ counter = 1

-----------------------------------------------------------------------------
At(r, a)  == req[r].at = a
Goto(r, a) == req' = [req EXCEPT ![r] = [@ EXCEPT !.at = a]]
Exists(i) == i \in Ids /\ lib[i] # Free
Explicit(r) == req[r].ask \in Ids

(* The end of a request, however it ends: the finally clauses of the handler  *)
(* and of _UploadAdmission give back what it still holds.                     *)
Answer(r, a) ==
    /\ req' = [req EXCEPT ![r] = [NoRequest EXCEPT !.at = "done", !.answer = a]]
    /\ receiving' = receiving - req[r].reserved
    /\ scratch' = scratch - (IF req[r].counted THEN req[r].size ELSE 0)

(* _UploadAdmission: the length is reserved before a byte is read, or refused. *)
ReservedAsDeclared(length) == IF length = Unsized THEN 0 ELSE length   \* variant
Reserved(length) == IF length = Unsized THEN Ceiling ELSE length
Admit(r, size, length) ==
    /\ At(r, "new")
    /\ length = size \/ length = Unsized
    /\ IF receiving + scratch + Reserved(length) > Budget
       THEN /\ req' = [req EXCEPT ![r] = [@ EXCEPT !.at = "done", !.answer = "refused"]]
            /\ UNCHANGED receiving
       ELSE /\ receiving' = receiving + Reserved(length)
            /\ req' = [req EXCEPT ![r] = [@ EXCEPT !.at = "received", !.size = size,
                                                   !.reserved = Reserved(length)]]
    /\ UNCHANGED <<scratch, lib, counter>>

(* The form is read, and an id that is taken is refused before the copy. *)
Enter(r, ask, replace, raw) ==
    /\ At(r, "received")
    /\ replace => ask \in Ids
    /\ LET replacing == ask \in Ids /\ Exists(ask) IN
       IF replacing /\ ~replace
       THEN Answer(r, "refused")
       ELSE /\ req' = [req EXCEPT ![r] = [@ EXCEPT !.at = "gate", !.ask = ask, !.raw = raw,
                                  !.replace = replace, !.replacing = replacing]]
            /\ UNCHANGED <<receiving, scratch>>
    /\ UNCHANGED <<lib, counter>>

(* _upload_sem *)
Copying == {r \in Requests : At(r, "copy")}
Copy(r) ==
    /\ At(r, "gate") /\ Cardinality(Copying) < MaxUpload /\ Goto(r, "copy")
    /\ UNCHANGED <<receiving, scratch, lib, counter>>
CopyFails(r) ==                          \* over the cap of the format, or a read error
    /\ At(r, "copy") /\ Answer(r, "refused")
    /\ UNCHANGED <<lib, counter>>
(* The copy is whole: from here the request runs without its client. *)
Copied(r) ==
    /\ At(r, "copy") /\ Goto(r, "staged")
    /\ UNCHANGED <<receiving, scratch, lib, counter>>

(* The spool is closed; the reservation goes back and the scratch file is     *)
(* counted in one step, no await between them.                                *)
Count(r) ==
    /\ At(r, "staged")
    /\ IF req[r].size = 0 \/ scratch + req[r].size > Budget
       THEN Answer(r, "refused")
       ELSE /\ receiving' = receiving - req[r].reserved
            /\ scratch' = scratch + req[r].size
            /\ req' = [req EXCEPT ![r] = [@ EXCEPT !.at = IF req[r].raw THEN "reserve"
                                                          ELSE "check",
                                                   !.reserved = 0, !.counted = TRUE]]
    /\ UNCHANGED <<lib, counter>>

(* _precheck_upload: what is wrong with the file itself is refused with no    *)
(* doc_id minted, and so is what cannot be parsed within its budget.          *)
Precheck(r) ==
    /\ At(r, "check")
    /\ \/ Goto(r, "reserve") /\ UNCHANGED <<receiving, scratch>>
       \/ Answer(r, "refused")
    /\ UNCHANGED <<lib, counter>>

-----------------------------------------------------------------------------
(* The doc_id. *)

(* _doc_id_parse_locks: an id is in it while a request refers to its lock. *)
InUse == {req[r].id : r \in {q \in Requests : ~At(q, "done")}} \ {Free}

(* _next_filename_doc_id: the first id of the name that is neither stored nor *)
(* reserved; else the counter.                                                *)
FreeNames == {i \in DOMAIN Named : ~Exists(Named[i]) /\ Named[i] \notin InUse}
(* _next_doc_id: the first number from the counter on that is not stored. *)
FreeNumbers == {i \in counter..Len(Numbered) : ~Exists(Numbered[i])}

(* The lock of an id is fair: who reserved it first has it first. *)
Mint(r, i) ==
    req' = [req EXCEPT ![r] = [@ EXCEPT !.id = i, !.at = "lock",
                                        !.turn = 1 + Max({req[q].turn : q \in Requests})]]
Reserve(r) ==
    /\ At(r, "reserve")
    /\ \/ Explicit(r) /\ Mint(r, req[r].ask) /\ UNCHANGED counter
       \/ /\ req[r].ask = "filename" /\ FreeNames # {}
          /\ Mint(r, Named[Min(FreeNames)]) /\ UNCHANGED counter
       \/ /\ req[r].ask = "counter" \/ (req[r].ask = "filename" /\ FreeNames = {})
          /\ FreeNumbers # {}
          /\ Mint(r, Numbered[Min(FreeNumbers)]) /\ counter' = Min(FreeNumbers) + 1
    /\ UNCHANGED <<receiving, scratch, lib>>

-----------------------------------------------------------------------------
(* The lock of the id, then a parse slot.  A raw upload needs no slot. *)

Holds(r)  == req[r].at \in {"slot", "parse", "commit"}
BeforeAnyone(r) == {q \in Requests : q # r /\ req[q].id = req[r].id  \* variant: waiters let each other go first
                                         /\ (Holds(q) \/ At(q, "lock"))}
Before(r) == {q \in Requests : q # r /\ req[q].id = req[r].id
                               /\ (Holds(q) \/ (At(q, "lock") /\ req[q].turn < req[r].turn))}
Parsing   == {r \in Requests : req[r].at \in {"parse", "commit"} /\ ~req[r].raw}

TakeLock(r) ==
    /\ At(r, "lock") /\ Before(r) = {}
    /\ Goto(r, IF req[r].raw THEN "parse" ELSE "slot")
    /\ UNCHANGED <<receiving, scratch, lib, counter>>

(* The budget, or the ceiling of the queue, bounds the wait of a parse; a raw *)
(* upload waits as long as it takes.                                          *)
LockTimeout(r) ==
    /\ At(r, "lock") /\ ~req[r].raw /\ Before(r) # {}
    /\ Answer(r, "refused")
    /\ UNCHANGED <<lib, counter>>

TakeSlot(r) ==
    /\ At(r, "slot") /\ Cardinality(Parsing) < MaxParse
    /\ Goto(r, "parse")
    /\ UNCHANGED <<receiving, scratch, lib, counter>>

SlotTimeout(r) ==
    /\ At(r, "slot") /\ Cardinality(Parsing) >= MaxParse
    /\ Answer(r, "refused")
    /\ UNCHANGED <<lib, counter>>

-----------------------------------------------------------------------------
(* Under the lock: an id that was pinned is looked at again, the upload is    *)
(* parsed, and the document is written.                                       *)

TrustTheFirstLook(r) ==                  \* variant: the check before the upload decides
    /\ At(r, "parse") /\ Goto(r, "commit")
    /\ UNCHANGED <<receiving, scratch, lib, counter>>
Recheck(r) ==
    /\ At(r, "parse")
    /\ LET taken == Explicit(r) /\ Exists(req[r].id) IN
       IF taken /\ ~req[r].replace
       THEN Answer(r, "refused")
       ELSE /\ req' = [req EXCEPT ![r] = [@ EXCEPT !.at = "commit",
                                                   !.replacing = req[r].replacing \/ taken]]
            /\ UNCHANGED <<receiving, scratch>>
    /\ UNCHANGED <<lib, counter>>

Commit(r) ==
    /\ At(r, "commit") /\ Answer(r, "stored")
    /\ lib' = [lib EXCEPT ![req[r].id] = r]
    /\ UNCHANGED counter

(* _record_parse_failure: of a document that was not there nothing is left. *)
ParseFails(r) ==
    /\ At(r, "commit") /\ Answer(r, "failed")
    /\ lib' = IF req[r].replacing THEN lib ELSE [lib EXCEPT ![req[r].id] = Free]
    /\ UNCHANGED counter

-----------------------------------------------------------------------------
(* _survives_client_disconnect: before the copy is whole the handler is       *)
(* cancelled; after it, it goes on for nobody and nothing changes.            *)
Disconnect(r) ==
    /\ req[r].at \in {"received", "gate", "copy"} /\ Answer(r, "gone")
    /\ UNCHANGED <<lib, counter>>

Handler(r) ==
    \/ \E ask \in Asks, replace, raw \in BOOLEAN : Enter(r, ask, replace, raw)
    \/ Copy(r) \/ CopyFails(r) \/ Copied(r) \/ Count(r) \/ Precheck(r) \/ Reserve(r)
    \/ TakeLock(r) \/ LockTimeout(r) \/ TakeSlot(r) \/ SlotTimeout(r)
    \/ Recheck(r) \/ Commit(r) \/ ParseFails(r)

Next == \E r \in Requests :
    \/ \E size \in Sizes : \E length \in {size, Unsized} : Admit(r, size, length)
    \/ Handler(r) \/ Disconnect(r)

(* A coroutine whose await is over runs on. *)
Fairness == \A r \in Requests : WF_vars(Handler(r))
Spec == Init /\ [][Next]_vars /\ Fairness

-----------------------------------------------------------------------------
(* What the requests hold, byte for byte: of the reservations, of the scratch *)
(* files that are counted, of the multipart spools and of .upload-tmp.  From  *)
(* the first chunk of its copy to the close of its spool a file is on disk    *)
(* twice, and its copy is in no ledger.                                       *)
Bytes(held) == {b \in Requests \X (1..Ceiling) : b[2] <= held[b[1]]}
Reserving == [r \in Requests |-> req[r].reserved]
Counting  == [r \in Requests |-> IF req[r].counted THEN req[r].size ELSE 0]
Spooled   == [r \in Requests |-> IF req[r].at \in {"received", "gate", "copy", "staged"}
                                 THEN req[r].size ELSE 0]
Scratched == [r \in Requests |-> IF req[r].at \in {"copy", "staged"} \/ req[r].counted
                                 THEN req[r].size ELSE 0]

(* The two ledgers are what the requests hold, byte for byte: nothing is      *)
(* given back twice, and a request that ended holds nothing.  The spools with *)
(* the scratch files that are counted are within the budget at every instant, *)
(* and so are all scratch files, the uncounted too: uploads hold the budget   *)
(* of either place at the most, and of both never more than twice that.       *)
BytesBounded ==
    /\ receiving = Cardinality(Bytes(Reserving))
    /\ scratch = Cardinality(Bytes(Counting))
    /\ Cardinality(Bytes(Spooled)) + Cardinality(Bytes(Counting)) <= Budget
    /\ Cardinality(Bytes(Scratched)) <= Budget

(* A document a client was told is stored is never written over, nor taken    *)
(* away, by a request that did not ask to replace it.                         *)
NeverOverwritten == [][\A i \in Ids : lib[i] # Free /\ lib'[i] # lib[i] =>
                         \E r \in Requests : req[r].id = i /\ req[r].replace /\ req'[r].answer = "stored"]_vars

(* Every admitted upload is answered: no wait for a gate, a lock or a slot is *)
(* for ever, whatever the other requests and the clients do.                  *)
EveryUploadAnswered == \A r \in Requests : req[r].at = "received" ~> req[r].at = "done"
=============================================================================
