------------------------------ MODULE DocDelete ------------------------------
(***************************************************************************)
(* One doc_id of the library, deleted and uploaded again.                  *)
(*                                                                         *)
(* A delete renames the product directories of the document aside, as      *)
(* {doc_id}.deleting, deletes its index row, and removes them then; a      *)
(* start settles what an earlier process left, by the row.  Beside it run  *)
(* uploads to the same doc_id, the summary threads of those before, and    *)
(* the retention loop.  What happens inside one directory is the matter of *)
(* DocRewrite: a rewrite of a directory with a manifest is one step here.  *)
(*                                                                         *)
(*   dir   the directory at each place         (survives a crash)          *)
(*   tomb  the tombstone beside each place     (survives a crash)          *)
(*   row   the index row                       (survives a crash)          *)
(*   del   the delete that holds the doc_id lock, and retention's verdict  *)
(*   up    the upload that holds the doc_id lock                           *)
(*   thr   the deferred-summary thread of every upload, and where it writes*)
(*   lock  the document's writer lock                                      *)
(*   env   the process, its start-up sweep, deaths, failures and deletes   *)
(*   known what the clients were told, or may conclude from an answer      *)
(***************************************************************************)
EXTENDS Naturals

CONSTANTS
    Typed,         \* the content-type directories
    General,       \* the one an upload goes to by default
    Flat,          \* the legacy layout, directly under the library
    Moved,         \* a migrated place that only an index row knows
    Nowhere,       \* the place in a row without a usable storage_path
    Absent,        \* no row, no directory, no document
    Empty,         \* a directory without anything that makes a document
    Record,        \* a directory with the record of a failed parse
    Torn,          \* what is left of a version whose removal stopped
    Unknown,       \* an upload has begun: there may be a document again
    Bases,         \* [dir, row]: where document 0 may be stored
    Expired,       \* the uploads older than the retention limit
    MaxGen,        \* how many uploads there are
    MaxDeletes,    \* how many deletes
    FaultySteps,   \* the operations that may fail
    MaxFaults,     \* how many of them fail in a behaviour
    MaxCrashes     \* how often the process dies in a behaviour

Known  == Typed \cup {Flat}
Places == Known \cup {Moved}
Gens   == 0..MaxGen
(* What a directory holds: a whole version with its manifest, or less. *)
Content == Gens \cup {Empty, Record, Torn}

Row == [gen : Gens, place : Places \cup {Nowhere}]

ASSUME ConstantsAssumption ==
    /\ General \in Typed /\ Flat \notin Typed /\ Moved \notin Known
    /\ Nowhere \notin Places
    /\ {Empty, Record, Torn, Absent, Unknown} \cap Gens = {}
    /\ Absent \notin {Empty, Record, Torn, Unknown} /\ Torn \notin {Empty, Record}
    /\ Absent \notin Row
    /\ MaxGen \in Nat /\ MaxDeletes \in Nat /\ MaxFaults \in Nat /\ MaxCrashes \in Nat
    /\ Expired \subseteq Gens /\ \A g \in Expired : 0..g \subseteq Expired
    /\ \A b \in Bases : \/ b = Absent
                        \/ /\ b.dir \in Places /\ b.row \in {b.dir, Nowhere}
                           /\ b.dir = Moved => b.row = Moved

VARIABLES dir, tomb, row, del, up, thr, lock, env, known
vars == <<dir, tomb, row, del, up, thr, lock, env, known>>

NoDel == [at |-> "idle", trigger |-> "none", todo |-> {}, moved |-> {}, left |-> {},
          picked |-> FALSE]
NoUp  == [at |-> "idle", gen |-> 0, seen |-> "none", place |-> General,
          replacing |-> FALSE, answer |-> "none"]
NoThr == [at |-> "none", place |-> General]

Init == \E b \in Bases :
    /\ dir = [p \in Places |-> IF b # Absent /\ p = b.dir THEN 0 ELSE Absent]
    /\ tomb = [p \in Places |-> Absent]
    /\ row = IF b = Absent THEN Absent ELSE [gen |-> 0, place |-> b.row]
    /\ del = NoDel /\ up = NoUp /\ lock = "none"
    /\ thr = [g \in Gens |-> IF g = 0 /\ b # Absent /\ b.dir \in Typed
                             THEN [at |-> "due", place |-> b.dir] ELSE NoThr]
    /\ env = [up |-> "up", todo |-> {}, crashes |-> 0, faults |-> 0, deletes |-> 0]
    /\ known = IF b = Absent THEN Absent ELSE 0

-----------------------------------------------------------------------------
(* Helpers. *)

Exists(x)    == x # Absent
Fault(step)  == /\ step \in FaultySteps /\ env.faults < MaxFaults
                /\ env' = [env EXCEPT !.faults = @ + 1]
NoFault      == UNCHANGED env
Readable(p)  == p \in Places /\ dir[p] \in Gens
Idle         == env.up = "up" /\ del.at = "idle" /\ up.at = "idle"

(* _resolve_doc_dir: the row's own place, the content types, the flat layout. *)
Typeds == {p \in Typed : Readable(p)}
Resolved ==
    IF Exists(row) /\ Readable(row.place) THEN row.place
    ELSE IF Typeds # {} THEN CHOOSE p \in Typeds : TRUE
    ELSE IF Readable(Flat) THEN Flat ELSE Nowhere
(* _doc_exists_anywhere *)
ExistsAnywhere == Resolved # Nowhere

(* rmtree stops halfway, by an error or by the death of the process. *)
Remains(c) == {c} \cup (IF c \in Gens THEN {Torn} ELSE {})

-----------------------------------------------------------------------------
(* The delete.  It holds the per-doc_id asyncio lock from DeleteAsks to its   *)
(* answer, and the writer lock from DeleteLocks on.                           *)

Deleting(at) == env.up = "up" /\ del.at = at
DelOnly == UNCHANGED <<up, thr>>
DelGoes(at) == del' = [del EXCEPT !.at = at]
DelEndsHolding ==                        \* variant: keeps the writer lock
    del' = [NoDel EXCEPT !.picked = del.picked] /\ UNCHANGED lock
(* The executor's hold of the writer lock, and the request's of the doc_id lock. *)
DelEnds == del' = [NoDel EXCEPT !.picked = del.picked] /\ lock' = "none"

(* _expired_doc_ids: by the created_at of the row, without any lock. *)
RetentionPicks ==
    /\ env.up = "up" /\ ~del.picked
    /\ Exists(row) /\ row.gen \in Expired
    /\ del' = [del EXCEPT !.picked = TRUE]
    /\ DelOnly /\ UNCHANGED <<dir, tomb, row, lock, env, known>>

ExpiredWhenPicked == TRUE                \* variant: does not look again
(* _created_before: by the created_at of the manifest there is now. *)
StillExpired == ExistsAnywhere /\ dir[Resolved] \in Expired

(* _delete_document_locked, by a client or by the retention loop. *)
DeleteAsks ==
    /\ Idle
    /\ \/ /\ env.deletes < MaxDeletes
          /\ del' = [del EXCEPT !.at = "locking", !.trigger = "rest"]
          /\ env' = [env EXCEPT !.deletes = @ + 1]
       \/ /\ del.picked
          /\ del' = IF StillExpired
                    THEN [del EXCEPT !.at = "locking", !.trigger = "retention", !.picked = FALSE]
                    ELSE [del EXCEPT !.picked = FALSE]
          /\ NoFault
    /\ DelOnly /\ UNCHANGED <<dir, tomb, row, lock, known>>

(* The row's own place, if it names this document, and every known layout. *)
Candidates == Known \cup (IF Exists(row) /\ row.place # Nowhere THEN {row.place} ELSE {})

DeleteUnlocked ==                        \* variant: a thread may be writing
    /\ Deleting("locking")
    /\ del' = [del EXCEPT !.at = "aside", !.todo = Candidates]
    /\ DelOnly /\ UNCHANGED <<dir, tomb, row, lock, env, known>>
(* _delete_doc_serialized; the doc-index lock is only ever taken inside. *)
DeleteLocks ==
    /\ Deleting("locking") /\ lock = "none"
    /\ lock' = "delete"
    /\ del' = [del EXCEPT !.at = "aside", !.todo = Candidates]
    /\ DelOnly /\ UNCHANGED <<dir, tomb, row, env, known>>

(* A live directory wins over a stale tombstone of itself; a tombstone alone  *)
(* is a leftover of an earlier delete.                                        *)
SetAside ==
    /\ Deleting("aside")
    /\ \E p \in del.todo :
          LET done == [del EXCEPT !.todo = @ \ {p}] IN
          \/ /\ ~Exists(dir[p])
             /\ del' = [done EXCEPT !.left = IF Exists(tomb[p]) THEN @ \cup {p} ELSE @]
             /\ NoFault /\ UNCHANGED <<dir, tomb>>
          \/ /\ Exists(dir[p]) /\ Exists(tomb[p])
             /\ \/ tomb' = [tomb EXCEPT ![p] = Absent] /\ NoFault /\ UNCHANGED del
                \/ /\ Fault("stale") /\ DelGoes("back")
                   /\ \E c \in Remains(tomb[p]) : tomb' = [tomb EXCEPT ![p] = c]
             /\ UNCHANGED dir
          \/ /\ Exists(dir[p]) /\ ~Exists(tomb[p])
             /\ \/ /\ dir' = [dir EXCEPT ![p] = Absent]
                   /\ tomb' = [tomb EXCEPT ![p] = dir[p]]
                   /\ del' = [done EXCEPT !.moved = @ \cup {p}] /\ NoFault
                \/ Fault("set_aside") /\ DelGoes("back") /\ UNCHANGED <<dir, tomb>>
    /\ DelOnly /\ UNCHANGED <<row, lock, known>>

(* dis.delete_document: the commit point.  From here on the document is gone, *)
(* whatever becomes of the answer.                                            *)
CommitDelete ==
    /\ Deleting("aside") /\ del.todo = {}
    /\ \/ /\ row' = Absent /\ known' = Absent /\ NoFault
          /\ del' = [del EXCEPT !.at = "clear", !.left = @ \cup del.moved, !.moved = {}]
       \/ Fault("commit") /\ DelGoes("back") /\ UNCHANGED <<row, known>>
    /\ DelOnly /\ UNCHANGED <<dir, tomb, lock>>

(* A tombstone that cannot be removed is logged and left to the next start. *)
ClearTombstone ==
    /\ Deleting("clear")
    /\ \E p \in del.left :
          /\ del' = [del EXCEPT !.left = @ \ {p}]
          /\ \/ tomb' = [tomb EXCEPT ![p] = Absent] /\ NoFault
             \/ /\ Fault("clear")
                /\ \E c \in Remains(tomb[p]) : tomb' = [tomb EXCEPT ![p] = c]
    /\ DelOnly /\ UNCHANGED <<dir, row, lock, known>>

(* _put_back_set_aside never raises: what cannot be renamed stays. *)
PutBackAside ==
    /\ Deleting("back")
    /\ \E p \in del.moved :
          /\ del' = [del EXCEPT !.moved = @ \ {p}]
          /\ \/ /\ dir' = [dir EXCEPT ![p] = tomb[p]]
                /\ tomb' = [tomb EXCEPT ![p] = Absent] /\ NoFault
             \/ Fault("put_back") /\ UNCHANGED <<dir, tomb>>
    /\ DelOnly /\ UNCHANGED <<row, lock, known>>

(* 200, or the error that goes out once everything is back. *)
DeleteAnswers ==
    /\ \/ Deleting("clear") /\ del.left = {}
       \/ Deleting("back") /\ del.moved = {}
    /\ DelEnds
    /\ DelOnly /\ UNCHANGED <<dir, tomb, row, env, known>>

-----------------------------------------------------------------------------
(* An upload with this doc_id and replace=true, parsed or raw.                *)

Serving(at) == env.up = "up" /\ up.at = at
UpGoes(at) == up' = [up EXCEPT !.at = at]
UpOnly == UNCHANGED <<tomb, del>>
Replies(a) == up' = [NoUp EXCEPT !.gen = up.gen, !.seen = up.seen, !.place = up.place,
                                 !.answer = a]

(* The look before the upload is read, with no lock. *)
Arrive ==
    /\ env.up = "up" /\ up.seen = "none" /\ up.gen < MaxGen
    /\ up' = [up EXCEPT !.seen = IF ExistsAnywhere THEN "there" ELSE "absent"]
    /\ UpOnly /\ UNCHANGED <<dir, row, thr, lock, env, known>>

(* _doc_content_type of a replacement, the requested one otherwise. *)
Destinations(replacing) ==
    IF ~replacing THEN Typed
    ELSE IF ~ExistsAnywhere THEN {General}
    ELSE IF Resolved \in Typed THEN {Resolved} ELSE Typed

(* Under the doc_id lock it looks again, but only for a document it missed.   *)
(* The directory appears here, with the upload in .tmp.                       *)
Start ==
    /\ Idle /\ up.seen # "none"
    /\ LET replacing == up.seen = "there" \/ ExistsAnywhere IN
       \E p \in Destinations(replacing) :
          /\ up' = [up EXCEPT !.at = "parse", !.gen = @ + 1, !.seen = "none", !.place = p,
                              !.replacing = replacing, !.answer = "none"]
          /\ dir' = [dir EXCEPT ![p] = IF Exists(@) THEN @ ELSE Empty]
    /\ UpOnly /\ UNCHANGED <<row, thr, lock, env, known>>

Parse ==
    /\ Serving("parse") /\ (UpGoes("write") \/ UpGoes("fail"))
    /\ UpOnly /\ UNCHANGED <<dir, row, thr, lock, env, known>>

(* The client can no longer conclude that the document is gone. *)
Unsettled == known' = IF known = Absent THEN Unknown ELSE known

(* Over a manifest the rewrite is reversible as a whole.  Without one there   *)
(* is nothing to put back: the files are there before the row is.             *)
WriteFiles ==
    /\ Serving("write") /\ lock = "none"
    /\ lock' = "upload" /\ UpGoes("row") /\ Unsettled
    /\ dir' = [dir EXCEPT ![up.place] = IF @ \in Gens THEN @ ELSE up.gen]
    /\ UpOnly /\ UNCHANGED <<row, thr, env>>
CommitRow ==
    /\ Serving("row") /\ lock' = "none"
    /\ \/ /\ row' = [gen |-> up.gen, place |-> up.place]
          /\ dir' = [dir EXCEPT ![up.place] = up.gen]
          /\ UpGoes("answer") /\ NoFault
       \/ Fault("write_row") /\ UpGoes("fail") /\ UNCHANGED <<row, dir>>
    /\ UpOnly /\ UNCHANGED <<thr, known>>

(* A deferred summary gets its thread, which may not start; any other upload  *)
(* has none.                                                                  *)
Answer ==
    /\ Serving("answer")
    /\ \/ /\ Replies("ok") /\ known' = up.gen /\ NoFault
          /\ \/ UNCHANGED thr
             \/ thr' = [thr EXCEPT ![up.gen] = [at |-> "due", place |-> up.place]]
       \/ Fault("start_worker") /\ UpGoes("fail") /\ UNCHANGED <<thr, known>>
    /\ UpOnly /\ UNCHANGED <<dir, row, lock>>

(* _record_parse_failure: nothing, for a replacement that is in one piece. *)
FailReplacement ==
    /\ Serving("fail") /\ up.replacing /\ Replies("failed")
    /\ UpOnly /\ UNCHANGED <<dir, row, thr, lock, env, known>>
FailNew ==
    /\ \/ /\ Serving("fail") /\ ~up.replacing /\ UpGoes("fail_row")
          /\ dir' = [dir EXCEPT ![up.place] = Empty]
          /\ NoFault /\ UNCHANGED row
       \/ /\ Serving("fail_row") /\ Replies("failed")
          /\ dir' = [dir EXCEPT ![up.place] = Record]
          /\ \/ row' = Absent /\ NoFault
             \/ Fault("fail_row") /\ UNCHANGED row
    /\ UpOnly /\ UNCHANGED <<thr, lock, known>>

-----------------------------------------------------------------------------
(* The summary thread of upload g: one guarded write, at any later time.      *)

ThreadLooks(g) ==
    /\ env.up = "up" /\ thr[g].at = "due" /\ lock = "none"
    /\ IF dir[thr[g].place] = g
       THEN thr' = [thr EXCEPT ![g].at = "writing"] /\ lock' = "summary"
       ELSE thr' = [thr EXCEPT ![g].at = "over"] /\ UNCHANGED lock
    /\ UNCHANGED <<dir, tomb, row, del, up, env, known>>
ThreadWrites(g) ==
    /\ env.up = "up" /\ thr[g].at = "writing"
    /\ dir' = [dir EXCEPT ![thr[g].place] = g]
    /\ row' = [gen |-> g, place |-> thr[g].place]
    /\ thr' = [thr EXCEPT ![g].at = "over"] /\ lock' = "none"
    /\ UNCHANGED <<tomb, del, up, env, known>>

-----------------------------------------------------------------------------
(* The process dies; the next one settles the tombstones before it serves.    *)

FoundByIndex == {p \in Candidates : Exists(tomb[p])}   \* variant: no walk
(* The walk over the library's containers. *)
Tombstones == {p \in Places : Exists(tomb[p])}

(* _finish_interrupted_deletes; an unreadable index leaves all as it is. *)
Restart ==
    /\ env.up = "down"
    /\ \/ env' = [env EXCEPT !.up = "sweep", !.todo = Tombstones]
       \/ /\ "read_index" \in FaultySteps /\ env.faults < MaxFaults
          /\ env' = [env EXCEPT !.up = "sweep", !.faults = @ + 1]
    /\ UNCHANGED <<dir, tomb, row, del, up, thr, lock, known>>

RestoresListed(p) ==                     \* variant: only a row with a path counts
    Exists(row) /\ ~Exists(dir[p]) /\ row.place = p
Uncommitted(p) ==
    /\ Exists(row) /\ ~Exists(dir[p])
    /\ row.place \in {Nowhere, p}

Sweep ==
    /\ env.up = "sweep"
    /\ \E p \in env.todo :
          LET done == [env EXCEPT !.todo = @ \ {p}]
              failed == [done EXCEPT !.faults = @ + 1]
              MayFail(step) == step \in FaultySteps /\ env.faults < MaxFaults
          IN \/ /\ Uncommitted(p)
                /\ \/ /\ dir' = [dir EXCEPT ![p] = tomb[p]]
                      /\ tomb' = [tomb EXCEPT ![p] = Absent] /\ env' = done
                   \/ MayFail("restore") /\ env' = failed /\ UNCHANGED <<dir, tomb>>
             \/ /\ ~Uncommitted(p)
                /\ \/ tomb' = [tomb EXCEPT ![p] = Absent] /\ env' = done
                   \/ /\ MayFail("sweep") /\ env' = failed
                      /\ \E c \in Remains(tomb[p]) : tomb' = [tomb EXCEPT ![p] = c]
                /\ UNCHANGED dir
    /\ UNCHANGED <<row, del, up, thr, lock, known>>
Swept ==
    /\ env.up = "sweep" /\ env.todo = {}
    /\ env' = [env EXCEPT !.up = "up"]
    /\ UNCHANGED <<dir, tomb, row, del, up, thr, lock, known>>

(* What an rmtree of the step that runs now may leave. *)
Removing ==
    {p \in Places : Exists(tomb[p]) /\
        \/ del.at = "clear" /\ p \in del.left
        \/ del.at = "aside" /\ p \in del.todo /\ Exists(dir[p])
        \/ env.up = "sweep" /\ p \in env.todo /\ ~Uncommitted(p)}
Crash ==
    /\ env.up # "down" /\ env.crashes < MaxCrashes
    /\ env' = [env EXCEPT !.up = "down", !.crashes = @ + 1, !.todo = {}]
    /\ del' = NoDel /\ up' = [NoUp EXCEPT !.gen = up.gen] /\ lock' = "none"
    /\ thr' = [g \in Gens |-> NoThr]
    /\ \/ UNCHANGED tomb
       \/ \E p \in Removing : \E c \in Remains(tomb[p]) : tomb' = [tomb EXCEPT ![p] = c]
    /\ UNCHANGED <<dir, row, known>>

(* Everybody has been answered and there is nobody left to call. *)
Rest ==
    /\ Idle /\ lock = "none" /\ up.seen = "none" /\ ~del.picked
    /\ up.gen = MaxGen /\ env.deletes = MaxDeletes
    /\ \A g \in Gens : thr[g].at \in {"none", "over"}
    /\ UNCHANGED vars

Deletes == DeleteAsks \/ DeleteLocks \/ SetAside \/ CommitDelete \/ ClearTombstone
           \/ PutBackAside \/ DeleteAnswers
Uploads == Arrive \/ Start \/ Parse \/ WriteFiles \/ CommitRow \/ Answer
           \/ FailReplacement \/ FailNew
Thread(g) == ThreadLooks(g) \/ ThreadWrites(g)
Starting == Restart \/ Sweep \/ Swept

Next == Deletes \/ RetentionPicks \/ Uploads \/ (\E g \in Gens : Thread(g)) \/ Crash
        \/ Starting \/ Rest

Spec == Init /\ [][Next]_vars

(* A delete and an upload run to their answer, a thread to its end, and the   *)
(* host restarts the process.  No client has to call again.                   *)
Fairness ==
    /\ WF_vars(DeleteLocks \/ SetAside \/ CommitDelete \/ ClearTombstone \/ PutBackAside
               \/ DeleteAnswers)
    /\ WF_vars(Start \/ Parse \/ WriteFiles \/ CommitRow \/ Answer \/ FailReplacement \/ FailNew)
    /\ WF_vars(Starting)
    /\ \A g \in Gens : WF_vars(Thread(g))
FairSpec == Spec /\ Fairness

-----------------------------------------------------------------------------
(* Properties. *)

Quiet == Idle /\ lock = "none"

(* The bookkeeping is of the kinds the code keeps.                            *)
TypeOK ==
    /\ dir \in [Places -> Content \cup {Absent}]
    /\ tomb \in [Places -> Content \cup {Absent}]
    /\ row \in Row \cup {Absent}
    /\ del \in [at : {"idle", "locking", "aside", "clear", "back"},
                trigger : {"none", "rest", "retention"}, todo : SUBSET Places,
                moved : SUBSET Places, left : SUBSET Places, picked : BOOLEAN]
    /\ up \in [at : {"idle", "parse", "write", "row", "answer", "fail", "fail_row"},
               gen : Gens, seen : {"none", "there", "absent"}, place : Typed,
               replacing : BOOLEAN, answer : {"none", "ok", "failed"}]
    /\ thr \in [Gens -> [at : {"none", "due", "writing", "over"}, place : Typed]]
    /\ lock \in {"none", "delete", "upload", "summary"}
    /\ env \in [up : {"up", "down", "sweep"}, todo : SUBSET Places, crashes : Nat,
                faults : Nat, deletes : Nat]
    /\ known \in Gens \cup {Absent, Unknown}

(* Where the version of the row is, or where the next start puts it back. *)
RowPlaces == IF row.place = Nowhere THEN Known ELSE {row.place}
Findable ==
    \E p \in RowPlaces : dir[p] = row.gen \/ (~Exists(dir[p]) /\ tomb[p] = row.gen)

(* An upload that was answered with 200 is there, or a later one is: listed,  *)
(* and its files in place or in a tombstone that the next start restores.     *)
(* Only a delete that commits takes it away, never one that fails, is killed  *)
(* or is swept (_delete_doc: "a failed delete leaves the document whole").    *)
Kept == known \in Gens => Exists(row) /\ row.gen >= known /\ Findable

(* Once a delete has committed, and until somebody uploads again, the doc_id  *)
(* is neither listed nor found on the disk: no summary thread, sweep or put   *)
(* back brings it back (_delete_document_locked, #168).                       *)
Gone == known = Absent => ~Exists(row) /\ ~ExistsAnywhere

(* Retention deletes only what was older than its limit when the row went,    *)
(* however long ago it picked it (only_if_created_before).                    *)
RetentionKeepsFresh ==
    [][del.trigger = "retention" /\ Exists(row) /\ ~Exists(row') => row.gen \in Expired]_vars

(* Where no operation failed a finished delete, and a start, leave no         *)
(* tombstone anywhere in the library; and whatever failed, a tombstone that   *)
(* rmtree has touched is never put back (_finish_interrupted_deletes).        *)
RestIsClean ==
    /\ Quiet /\ env.faults = 0 => \A p \in Places : ~Exists(tomb[p])
    /\ \A p \in Places : dir[p] # Torn

(* A delete and an upload are answered, also one that waits for the doc_id    *)
(* lock: neither the two locks nor a failure on the way leaves one waiting.   *)
Answered == /\ up.seen # "none" ~> up.seen = "none"
            /\ del.at # "idle" ~> del.at = "idle"
            /\ up.at # "idle" ~> up.at = "idle"
=============================================================================
