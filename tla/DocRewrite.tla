------------------------------ MODULE DocRewrite ------------------------------
(***************************************************************************)
(* One document of the library, rewritten in place.                        *)
(*                                                                         *)
(* A replacement or a summary write moves the products of the stored       *)
(* version into .rollback/, writes its own and commits one SQLite row; an  *)
(* upload moves the stored source into .rollback-source/ before that, and  *)
(* a .rewrite-committed marker tells the next start which way an           *)
(* interrupted rewrite is to be settled.  The process may die between any  *)
(* two operations on the disk, and the operations of FaultySteps may fail. *)
(*                                                                         *)
(*   disk  the document's directory           (survives a crash)           *)
(*   db    its index row and its search text  (survives a crash)           *)
(*   tx    what the holder of the document's writer lock is doing          *)
(*   req   the request that holds the per-doc_id asyncio lock              *)
(*   thr   the deferred-summary thread of every upload                     *)
(*   env   the process, and how often it died or an operation failed       *)
(***************************************************************************)
EXTENDS Document, FiniteSets

CONSTANTS
    Bases,         \* how document 0 may have been stored; Absent for no document
    Channels,      \* the kinds of upload the clients send
    FaultySteps,   \* the operations that may fail
    MaxFaults,     \* how many of them fail in a behaviour
    MaxCrashes,    \* how often the process dies in a behaviour
    NoFile,        \* a file of .rollback/ that was not written
    Unknown        \* what the snapshot says when the index could not be read

ASSUME ConstantsAssumption ==
    /\ MaxGen \in Nat /\ MaxFaults \in Nat /\ MaxCrashes \in Nat
    /\ Bases \subseteq Stages \cup {Absent}
    /\ Channels \subseteq {"sync", "defer", "raw"}
    /\ Absent \notin Version \cup Gens \cup Stages
    /\ NoFile \notin Version /\ NoFile # Absent /\ \A names \in SUBSET Parts : NoFile # names
    /\ Unknown \notin Version /\ Unknown # Absent /\ Unknown # NoFile

NoParts  == [p \in Parts |-> Absent]
NoBackup == [here |-> FALSE, part |-> NoParts, fts |-> NoFile, idx |-> NoFile,
             staged |-> NoFile]

VARIABLES disk, db, tx, req, thr, env
vars == <<disk, db, tx, req, thr, env>>

NoTx == [holder |-> "none", at |-> "none", purpose |-> "none", names |-> {},
         finished |-> FALSE, fts |-> Absent, idx |-> Absent, target |-> Absent]

Init == \E base \in Bases :
    LET v == IF base = Absent THEN Absent ELSE [gen |-> 0, stage |-> base] IN
    /\ disk = [part |-> PartsOf(v), source |-> SourceOf(v), stash |-> Absent,
               marker |-> FALSE, backup |-> NoBackup, failure |-> FALSE]
    /\ db = [row |-> v, fts |-> TextOf(v)]
    /\ tx = NoTx
    /\ req = [at |-> "idle", gen |-> 0, channel |-> "none", replacing |-> FALSE,
              answer |-> "none", acked |-> 0, seen |-> "none"]
    /\ thr = [g \in Gens |-> IF g = 0 /\ base = "parse" THEN "placeholder" ELSE "none"]
    /\ env = [up |-> "up", crashes |-> 0, faults |-> 0, textFault |-> FALSE, blind |-> FALSE]

-----------------------------------------------------------------------------
(* Helpers. *)

At(a)     == tx.at = a /\ env.up # "down"
Goto(a)   == tx' = [tx EXCEPT !.at = a]
Exists(x) == x # Absent

Faulty(step) == step \in FaultySteps /\ env.faults < MaxFaults
Fault(step)  == Faulty(step) /\ env' = [env EXCEPT !.faults = @ + 1]
NoFault      == UNCHANGED env
(* A failure of the search table that is only logged, and an index that a     *)
(* decision could not read.                                                   *)
TextFault(step)  == Faulty(step) /\ env' = [env EXCEPT !.faults = @ + 1, !.textFault = TRUE]
BlindFault(step) == Faulty(step) /\ env' = [env EXCEPT !.faults = @ + 1, !.blind = TRUE]

Outside == UNCHANGED <<req, thr>>        \* a step of the lock holder alone

Leftovers == disk.backup.here \/ Exists(disk.stash) \/ disk.marker

(* The writer lock is taken by one of the sweep, a request and a thread. *)
Acquire(who, at, purpose, target) ==
    /\ tx.holder = "none"
    /\ tx' = [NoTx EXCEPT !.holder = who, !.at = at, !.purpose = purpose, !.target = target]

(* rmtree walks the backup in any order: what can be left when it stops.  *)
Remains(b) ==
    [here : {TRUE}, part : {f \in [Parts -> {b.part[p] : p \in Parts} \cup {Absent}] :
                               \A p \in Parts : f[p] \in {b.part[p], Absent}},
     fts : {b.fts, NoFile}, idx : {b.idx, NoFile}, staged : {b.staged, NoFile}]

-----------------------------------------------------------------------------
(* _settle_interrupted_rewrite: finish or undo what an earlier rewrite left.  *)
(* purpose "rewrite" is include_stash=False, every other one includes it.     *)

IncludesNoStash == FALSE                 \* variant: a start forgets the stash
IncludesStash == tx.purpose # "rewrite"

(* Where the caller goes on; stuck is the answer "incomplete". *)
Settled(stuck) ==
    CASE tx.purpose = "sweep"              -> "swept"
      [] tx.purpose \in {"before", "stash"} -> "check"
      [] tx.purpose = "rewrite"            -> IF stuck THEN "raise" ELSE "clear"
      [] OTHER                             -> "raise"
(* Where an OSError out of settling, or out of an undo, lands. *)
SettleError ==
    CASE tx.purpose = "sweep"  -> "swept"
      [] tx.purpose = "before" -> "refuse"
      [] OTHER                 -> "raise"

RowDiffers == db.row # disk.backup.idx   \* variant: no snapshot decides too
(* _rewrite_committed: the row carries another write_id than the snapshot. *)
RowMoved == LET idx == disk.backup.idx IN
    /\ idx \notin {NoFile, Unknown}
    /\ db.row # Absent
    /\ db.row # idx

Settle ==
    /\ At("settle")
    /\ \/ /\ ~(disk.backup.here \/ disk.marker \/ (IncludesStash /\ Exists(disk.stash)))
          /\ Goto(Settled(FALSE)) /\ NoFault
       \/ /\ disk.marker
          /\ Goto("drop") /\ NoFault
       \/ /\ ~disk.marker /\ RowMoved
          /\ \/ Goto("touch") /\ NoFault
             \/ Goto("record") /\ BlindFault("settle")     \* the index cannot be read
       \/ /\ ~disk.marker /\ ~RowMoved
          /\ disk.backup.here \/ (IncludesStash /\ Exists(disk.stash))
          /\ Goto(IF disk.backup.here THEN "record" ELSE "unstash_rm") /\ NoFault
    /\ Outside /\ UNCHANGED <<disk, db>>

TouchUnchecked ==                        \* variant: the verdict may not be on disk
    /\ At("touch") /\ Goto("drop")
    /\ \/ disk' = [disk EXCEPT !.marker = TRUE] /\ NoFault
       \/ Fault("touch") /\ UNCHANGED disk
    /\ Outside /\ UNCHANGED db
(* marker.touch(), by a settle that read the row and by a rewrite that committed. *)
Touch ==
    /\ At("touch")
    /\ \/ /\ disk' = [disk EXCEPT !.marker = TRUE]
          /\ Goto("drop") /\ NoFault
       \/ /\ Fault("touch") /\ UNCHANGED disk
          /\ Goto(IF tx.purpose = "commit" THEN "finish" ELSE Settled(TRUE))
    /\ Outside /\ UNCHANGED db

(* _gone(backup) on the way out of a commit; a failure leaves some of it.  *)
Drop ==
    /\ At("drop")
    /\ Goto(IF tx.purpose \in {"commit", "rewrite"} THEN "unmark" ELSE "fold")
    /\ \/ disk' = [disk EXCEPT !.backup = NoBackup] /\ NoFault
       \/ /\ disk.backup.here /\ Fault("drop")
          /\ \E b \in Remains(disk.backup) : disk' = [disk EXCEPT !.backup = b]
    /\ Outside /\ UNCHANGED db

(* _discard_stashed_source under the lock: the stash first, then the marker. *)
FoldedOver == [disk EXCEPT !.stash = Absent, !.source = disk.stash]   \* variant
Folded == [disk EXCEPT !.stash = Absent,
                       !.source = IF Exists(disk.source) THEN @ ELSE disk.stash]
Fold ==
    /\ At("fold")
    /\ \/ /\ disk' = (IF Exists(disk.stash) THEN Folded ELSE disk)
          /\ Goto("unmark_stash") /\ NoFault
       \/ /\ Exists(disk.stash) /\ Fault("fold")
          /\ Goto(IF tx.purpose = "close" THEN "finish" ELSE Settled(FALSE))
          /\ UNCHANGED disk
    /\ Outside /\ UNCHANGED db

UnmarkStashAnyway ==                     \* variant: does not look for a backup
    /\ At("unmark_stash")
    /\ Goto(IF tx.purpose = "close" THEN "finish" ELSE Settled(FALSE))
    /\ disk' = [disk EXCEPT !.marker = FALSE] /\ NoFault
    /\ Outside /\ UNCHANGED db
UnmarkStash ==
    /\ At("unmark_stash")
    /\ Goto(IF tx.purpose = "close" THEN "finish" ELSE Settled(FALSE))
    /\ \/ disk' = [disk EXCEPT !.marker = @ /\ disk.backup.here] /\ NoFault
       \/ disk.marker /\ Fault("unmark") /\ UNCHANGED disk
    /\ Outside /\ UNCHANGED db

(* The marker of a rewrite without a stash of its own to wait for: after the  *)
(* commit it stays while a stash is there, before a new rewrite it may not.   *)
Unmark ==
    /\ At("unmark")
    /\ LET keep == disk.backup.here \/ (tx.purpose = "commit" /\ Exists(disk.stash)) IN
       \/ /\ disk' = [disk EXCEPT !.marker = @ /\ keep] /\ NoFault
          /\ Goto(IF tx.purpose = "commit" THEN "finish"
                  ELSE Settled(disk.backup.here))
       \/ /\ disk.marker /\ ~keep /\ Fault("unmark") /\ UNCHANGED disk
          /\ Goto(IF tx.purpose = "commit" THEN "finish" ELSE Settled(TRUE))
    /\ Outside /\ UNCHANGED db

-----------------------------------------------------------------------------
(* The roll back: of a leftover by settling, or of its own rewrite (purpose   *)
(* "undo") by _restore_on_failure.                                            *)

(* Without a readable record only what has been moved out goes back. *)
ReadRecord ==
    /\ At("record")
    /\ \/ /\ disk.backup.staged # NoFile
          /\ tx' = [tx EXCEPT !.at = "put", !.names = disk.backup.staged, !.finished = TRUE]
          /\ NoFault
       \/ /\ disk.backup.staged = NoFile
          /\ tx' = [tx EXCEPT !.at = "put", !.finished = FALSE,
                              !.names = {p \in Moved : Exists(disk.backup.part[p])}]
          /\ NoFault
       \/ /\ disk.backup.staged # NoFile /\ Fault("record")
          /\ Goto(Settled(TRUE))
    /\ Outside /\ UNCHANGED <<disk, db>>

(* _put_back_staged: a name is removed where it stands, then moved back; one  *)
(* with nothing behind it has been put back already.                          *)
PutBack ==
    /\ At("put")
    /\ \/ /\ tx.names = {}
          /\ Goto("text") /\ NoFault /\ UNCHANGED disk
       \/ \E p \in tx.names :
            LET done == [tx EXCEPT !.names = @ \ {p}] IN
            \/ /\ ~Exists(disk.backup.part[p])
               /\ tx' = done /\ NoFault /\ UNCHANGED disk
            \/ /\ Exists(disk.backup.part[p]) /\ Exists(disk.part[p])
               /\ disk' = [disk EXCEPT !.part[p] = Absent]
               /\ NoFault /\ UNCHANGED tx
            \/ /\ Exists(disk.backup.part[p]) /\ ~Exists(disk.part[p])
               /\ disk' = [disk EXCEPT !.part[p] = disk.backup.part[p],
                                       !.backup.part[p] = Absent]
               /\ tx' = done /\ NoFault
       \/ /\ \E p \in tx.names : Exists(disk.backup.part[p])
          /\ Fault("put") /\ Goto(SettleError) /\ UNCHANGED disk
    /\ Outside /\ UNCHANGED db

(* No snapshot of the text says that none was indexed. *)
SnapshotText == IF disk.backup.fts = NoFile THEN Absent ELSE disk.backup.fts

(* The indexed text: from memory in an undo, which goes on when it cannot be  *)
(* written; from the backup in a settle, which then keeps the backup.         *)
PutBackText ==
    /\ At("text")
    /\ LET undo   == tx.purpose = "undo"
           before == IF undo THEN tx.fts ELSE SnapshotText
           skips  == ~undo /\ ~tx.finished
       IN \/ /\ db' = [db EXCEPT !.fts = IF skips THEN @ ELSE before]
             /\ Goto("forget") /\ NoFault
          \/ /\ ~skips /\ undo /\ TextFault("text")
             /\ Goto("forget") /\ UNCHANGED db
          \/ /\ ~skips /\ ~undo /\ Fault("text")
             /\ Goto(Settled(TRUE)) /\ UNCHANGED db
    /\ Outside /\ UNCHANGED disk

ForgetLast == At("forget") /\ Goto("remove") /\ UNCHANGED <<disk, db, req, thr, env>>   \* variant
(* _forget_staging_then_remove: the record first, so that an interrupted      *)
(* removal reads as a staging that did not finish.                            *)
Forget ==
    /\ At("forget")
    /\ \/ disk' = [disk EXCEPT !.backup.staged = NoFile] /\ NoFault
       \/ disk.backup.staged # NoFile /\ Fault("forget") /\ UNCHANGED disk
    /\ Goto("remove")
    /\ Outside /\ UNCHANGED db

RemoveBackup ==
    /\ At("remove")
    /\ \/ disk' = [disk EXCEPT !.backup = NoBackup] /\ NoFault
       \/ /\ disk.backup.here /\ Fault("remove")
          /\ \E b \in Remains(disk.backup) : disk' = [disk EXCEPT !.backup = b]
    /\ Goto(IF tx.purpose = "undo" THEN "raise"
            ELSE IF IncludesStash /\ Exists(disk.stash) THEN "unstash_rm" ELSE Settled(FALSE))
    /\ Outside /\ UNCHANGED db

(* _restore_stashed_source: rmtree(source, ignore_errors), then a move that   *)
(* puts the stash inside a source directory that is still there.              *)
SourceRemoved == [disk EXCEPT !.source = Absent]
StashMoved == [disk EXCEPT !.stash = Absent,
                           !.source = IF Exists(@) THEN @ ELSE disk.stash]
Unstash ==
    \/ /\ At("unstash_rm") /\ Goto("unstash_mv")
       /\ \/ disk' = SourceRemoved /\ NoFault
          \/ Exists(disk.source) /\ Fault("unstash_rm") /\ UNCHANGED disk
       /\ Outside /\ UNCHANGED db
    \/ /\ At("unstash_mv")
       /\ \/ disk' = StashMoved /\ Goto(Settled(FALSE)) /\ NoFault
          \/ Fault("unstash_mv") /\ Goto(SettleError) /\ UNCHANGED disk
       /\ Outside /\ UNCHANGED db

-----------------------------------------------------------------------------
(* _stash_source, then _restore_on_failure around the writer.                 *)

(* Nothing is left to settle here, so no stash is thrown away.  The raw       *)
(* channel goes on to its rewrite in the same hold of the lock.               *)
StashSource ==
    /\ At("stash")
    /\ \/ /\ disk' = IF Exists(disk.source)
                      THEN [disk EXCEPT !.stash = disk.source, !.source = Absent] ELSE disk
          /\ tx' = IF req.channel = "raw" THEN [tx EXCEPT !.at = "settle", !.purpose = "rewrite"]
                   ELSE [tx EXCEPT !.at = "finish"]
          /\ NoFault
       \/ Fault("stash") /\ Goto("raise") /\ UNCHANGED disk
    /\ Outside /\ UNCHANGED db

(* rmtree(backup) of what a settle could not remove, then the two reads that  *)
(* the roll back needs; a read that fails is no text, or an unknown row.      *)
Snapshot ==
    /\ At("clear")
    /\ \/ /\ tx' = [tx EXCEPT !.at = "stage_text", !.fts = db.fts, !.idx = db.row]
          /\ disk' = [disk EXCEPT !.backup = NoBackup] /\ NoFault
       \/ /\ tx' = [tx EXCEPT !.at = "stage_text", !.fts = db.fts, !.idx = db.row]
          /\ disk.backup.here /\ Fault("clear") /\ UNCHANGED disk
       \/ /\ tx' = [tx EXCEPT !.at = "stage_text", !.fts = Absent, !.idx = db.row]
          /\ disk' = [disk EXCEPT !.backup = NoBackup]
          /\ Exists(db.fts) /\ TextFault("read_text")
       \/ /\ tx' = [tx EXCEPT !.at = "stage_text", !.fts = db.fts, !.idx = Unknown]
          /\ disk' = [disk EXCEPT !.backup = NoBackup]
          /\ BlindFault("read_row")
    /\ Outside /\ UNCHANGED db

(* A failure of the staging, or of the writer, undoes the rewrite. *)
Undo == tx' = [tx EXCEPT !.at = "put", !.purpose = "undo"]
Undone(step) == Fault(step) /\ Undo /\ UNCHANGED <<disk, db>>

StageNoText ==                           \* variant: the text is not snapshotted
    /\ At("stage_text") /\ Goto("stage_row")
    /\ disk' = [disk EXCEPT !.backup.here = TRUE]
    /\ NoFault /\ Outside /\ UNCHANGED db
StageText ==
    /\ At("stage_text")
    /\ \/ /\ disk' = [disk EXCEPT !.backup.here = TRUE,
                                  !.backup.fts = IF Exists(tx.fts) THEN tx.fts ELSE @]
          /\ Goto("stage_row") /\ NoFault /\ UNCHANGED db
       \/ Undone("stage_text")
    /\ Outside

StageRow ==
    /\ At("stage_row")
    /\ \/ /\ disk' = [disk EXCEPT !.backup.idx = tx.idx]
          /\ Goto("stage_move") /\ NoFault /\ UNCHANGED db
       \/ Undone("stage_row")
    /\ Outside

StageMove ==
    /\ At("stage_move")
    /\ \/ \E p \in Moved : /\ Exists(disk.part[p])
                            /\ disk' = [disk EXCEPT !.part[p] = Absent,
                                                    !.backup.part[p] = disk.part[p]]
                            /\ tx' = [tx EXCEPT !.names = @ \cup {p}]
                            /\ NoFault /\ UNCHANGED db
       \/ /\ \A p \in Moved : ~Exists(disk.part[p])
          /\ Goto("stage_copy") /\ NoFault /\ UNCHANGED <<disk, db>>
       \/ Undone("stage_move")
    /\ Outside

StageCopy ==
    /\ At("stage_copy")
    /\ \/ \E p \in Copied : /\ Exists(disk.part[p]) /\ p \notin tx.names
                             /\ disk' = [disk EXCEPT !.backup.part[p] = disk.part[p]]
                             /\ tx' = [tx EXCEPT !.names = @ \cup {p}]
                             /\ NoFault /\ UNCHANGED db
       \/ /\ \A p \in Copied : Exists(disk.part[p]) => p \in tx.names
          /\ Goto("stage_record") /\ NoFault /\ UNCHANGED <<disk, db>>
       \/ Undone("stage_copy")
    /\ Outside

StageRecord ==
    /\ At("stage_record")
    /\ \/ /\ disk' = [disk EXCEPT !.backup.staged = tx.names]
          /\ Goto("write_texts") /\ NoFault /\ UNCHANGED db
       \/ Undone("stage_record")
    /\ Outside

-----------------------------------------------------------------------------
(* The writers: _write_output_impl and _write_output_extract_only_impl, and   *)
(* for the raw channel _store_raw_serialized around _write_raw_document.      *)

Raw == tx.target.stage = "raw"

WriteTextsBeside ==                      \* variant: a raw document keeps the old texts
    /\ At("write_texts") /\ Goto(IF Raw THEN "write_source" ELSE "write_sections")
    /\ disk' = [disk EXCEPT !.part["texts"] = IF Raw THEN @ ELSE tx.target]
    /\ NoFault /\ Outside /\ UNCHANGED db
WriteTexts ==
    /\ At("write_texts")
    /\ \/ /\ disk' = [disk EXCEPT !.part["texts"] = PartOf(tx.target, "texts")]
          /\ Goto(IF Raw THEN "write_source" ELSE "write_sections")
          /\ NoFault /\ UNCHANGED db
       \/ Undone("write_texts")
    /\ Outside

WriteSections ==
    /\ At("write_sections")
    /\ \/ /\ disk' = [disk EXCEPT !.part["sections"] = tx.target]
          /\ Goto("write_text_index") /\ NoFault /\ UNCHANGED db
       \/ Undone("write_sections")
    /\ Outside

(* Only the raw channel persists its source inside the rewrite. *)
WriteSource ==
    /\ At("write_source")
    /\ \/ /\ disk' = [disk EXCEPT !.source = SourceOf(tx.target)]
          /\ Goto("write_manifest") /\ NoFault /\ UNCHANGED db
       \/ Undone("write_source")
    /\ Outside

(* The search text: its failure is swallowed, and it is a transaction of its  *)
(* own that commits before the row.                                           *)
WriteTextIndex ==
    /\ At("write_text_index")
    /\ \/ db' = [db EXCEPT !.fts = TextOf(tx.target)] /\ NoFault
       \/ TextFault("write_text_index") /\ UNCHANGED db
    /\ Goto(IF Raw THEN "write_row" ELSE "write_manifest")
    /\ Outside /\ UNCHANGED disk

WriteManifest ==
    /\ At("write_manifest")
    /\ \/ /\ disk' = [disk EXCEPT !.part["manifest"] = tx.target]
          /\ Goto(IF Raw THEN "write_text_index" ELSE "write_row")
          /\ NoFault /\ UNCHANGED db
       \/ Undone("write_manifest")
    /\ Outside

CommitRowUnmarked ==                     \* variant: the backup goes before the marker
    /\ At("write_row")
    /\ db' = [db EXCEPT !.row = tx.target]
    /\ tx' = [tx EXCEPT !.at = "drop", !.purpose = "commit"]
    /\ NoFault /\ Outside /\ UNCHANGED disk
(* _update_doc_index: the SQLite row is the commit point. *)
CommitRow ==
    /\ At("write_row")
    /\ \/ /\ db' = [db EXCEPT !.row = tx.target]
          /\ tx' = [tx EXCEPT !.at = "touch", !.purpose = "commit"]
          /\ NoFault /\ UNCHANGED disk
       \/ Undone("write_row")
    /\ Outside

-----------------------------------------------------------------------------
(* The lock holder is done: who goes on, and where. *)

Release == tx' = NoTx
Request(at) == req' = [req EXCEPT !.at = at]
Reply(answer) == req' = [req EXCEPT !.at = "idle", !.answer = answer,
                                    !.acked = IF answer = "ok" THEN req.gen ELSE @]

(* _settle_before_replacing and _stash_source look once more under the lock. *)
Check ==
    /\ At("check")
    /\ \/ /\ Leftovers
          /\ Goto(IF tx.purpose = "before" THEN "refuse" ELSE "raise") /\ UNCHANGED req
       \/ /\ ~Leftovers /\ tx.purpose = "before"
          /\ Release /\ Request(IF req.channel = "raw" THEN "write" ELSE "parse")
       \/ /\ ~Leftovers /\ tx.purpose = "stash"
          /\ Goto("stash") /\ UNCHANGED req
    /\ NoFault /\ UNCHANGED <<disk, db, thr>>

(* A refusal stays away from the failure recorder: nothing was touched. *)
Refuse ==
    /\ At("refuse") /\ Release /\ Reply("refused")
    /\ UNCHANGED <<disk, db, thr, env>>

(* The phases of a summary thread; each but "llm" is one guarded write. *)
Stage == [placeholder |-> "running", giveup |-> "failed", result |-> "done",
          failure |-> "failed"]
Writing == DOMAIN Stage
AfterWrite(phase, raised) ==
    CASE phase = "placeholder" -> IF raised THEN "giveup" ELSE "llm"
      [] phase = "result"      -> IF raised THEN "failure" ELSE "over"
      [] OTHER                 -> "over"
ThreadGoes(raised) ==
    LET g == tx.target.gen IN thr' = [thr EXCEPT ![g] = AfterWrite(@, raised)]

Raise ==
    /\ At("raise") /\ Release
    /\ \/ tx.holder = "request" /\ Request("fail") /\ UNCHANGED thr
       \/ tx.holder = "summary" /\ ThreadGoes(TRUE) /\ UNCHANGED req
    /\ UNCHANGED <<disk, db, env>>

Uncleared(d) == d                        \* variant: the record of the failure stays
(* _clear_parse_failure. *)
Cleared(d) == [d EXCEPT !.failure = FALSE]

CloseRelocking == tx' = [tx EXCEPT !.at = "blocked"]   \* variant: takes its own lock again
(* The raw channel drops its stash in the hold of the lock it wrote in. *)
CloseHolding == tx' = [tx EXCEPT !.at = "fold", !.purpose = "close"]

Finish ==
    /\ At("finish")
    /\ \/ /\ tx.holder = "summary"
          /\ Release /\ ThreadGoes(FALSE) /\ UNCHANGED <<disk, req>>
       \/ /\ tx.holder = "request" /\ tx.purpose = "stash"
          /\ Release /\ Request("persist") /\ UNCHANGED <<disk, thr>>
       \/ /\ tx.holder = "request" /\ tx.purpose = "commit" /\ req.channel # "raw"
          /\ Release /\ Request(IF req.channel = "sync" THEN "close" ELSE "discard")
          /\ UNCHANGED <<disk, thr>>
       \/ /\ tx.holder = "request" /\ tx.purpose = "commit" /\ req.channel = "raw"
          /\ CloseHolding /\ disk' = Cleared(disk) /\ UNCHANGED <<req, thr>>
       \/ /\ tx.holder = "request" /\ tx.purpose = "close" /\ req.channel = "raw"
          /\ Release /\ Reply("ok") /\ UNCHANGED <<disk, thr>>
       \/ /\ tx.holder = "request" /\ tx.purpose = "close" /\ req.channel = "defer"
          /\ Release /\ Request("close")
          /\ thr' = [thr EXCEPT ![req.gen] = "placeholder"] /\ UNCHANGED disk
    /\ UNCHANGED <<db, env>>

-----------------------------------------------------------------------------
(* api_parse_doc and _store_only_ingest, one request at a time: both hold the *)
(* per-doc_id asyncio lock, which no summary thread takes.                    *)

Serving(at) == req.at = at /\ env.up = "up"
ManifestThere == Exists(disk.part["manifest"])
Waiting == UNCHANGED <<tx, thr>>

Target == [gen |-> req.gen, stage |-> CASE req.channel = "sync"  -> "done"
                                        [] req.channel = "defer" -> "parse"
                                        [] OTHER                 -> "raw"]

(* An upload looks for the document when it arrives, which may be while       *)
(* another one is served, and once more when it has the doc_id lock.          *)
Arrive ==
    /\ env.up = "up" /\ req.seen = "none" /\ req.gen < MaxGen
    /\ req' = [req EXCEPT !.seen = IF ManifestThere THEN "there" ELSE "absent"]
    /\ Waiting /\ UNCHANGED <<disk, db, env>>
ReplacingOnArrival == req.seen = "there" \* variant: does not look again
Replacing == req.seen = "there" \/ ManifestThere
Start ==
    /\ Serving("idle") /\ req.seen # "none"
    /\ \E c \in Channels :
          req' = [req EXCEPT !.seen = "none", !.gen = @ + 1, !.channel = c, !.answer = "none",
                             !.replacing = Replacing,
                             !.at = IF Replacing THEN "before"
                                    ELSE IF c = "raw" THEN "write" ELSE "parse"]
    /\ Waiting /\ UNCHANGED <<disk, db, env>>

SettleFirst ==
    /\ Serving("before") /\ Acquire("request", "settle", "before", Absent)
    /\ Request("locked") /\ UNCHANGED <<disk, db, thr, env>>

Parse ==
    /\ Serving("parse")
    /\ \/ Request(IF req.replacing THEN "stash" ELSE "persist")
       \/ Request("fail")
    /\ Waiting /\ UNCHANGED <<disk, db, env>>

TakeStash ==
    /\ Serving("stash") /\ Acquire("request", "settle", "stash", Absent)
    /\ Request("locked") /\ UNCHANGED <<disk, db, thr, env>>

(* _persist_source_file, outside the writer lock. *)
Persist ==
    /\ Serving("persist")
    /\ \/ /\ disk' = [disk EXCEPT !.source = req.gen]
          /\ Request("write") /\ NoFault
       \/ Request("fail") /\ Fault("persist") /\ UNCHANGED disk
    /\ Waiting /\ UNCHANGED db

(* The writer; the raw channel stashes in the same hold of the lock. *)
Write ==
    /\ Serving("write")
    /\ Acquire("request", "settle",
               IF req.channel = "raw" /\ req.replacing THEN "stash" ELSE "rewrite", Target)
    /\ Request("locked") /\ UNCHANGED <<disk, db, thr, env>>

(* A deferred upload drops its stash before its summary thread exists. *)
Discard ==
    /\ Serving("discard") /\ Acquire("request", "fold", "close", Absent)
    /\ Request("locked") /\ UNCHANGED <<disk, db, thr, env>>

(* _clear_parse_failure and _discard_stashed_source, outside the writer lock. *)
Close ==
    \/ /\ Serving("close")
       /\ \/ /\ disk' = Cleared(IF Exists(disk.stash) THEN Folded ELSE disk)
             /\ Request("close_look") /\ NoFault
          \/ /\ Exists(disk.stash) /\ Fault("fold")
             /\ disk' = Cleared(disk) /\ Reply("ok")
       /\ Waiting /\ UNCHANGED db
    \/ /\ Serving("close_look")
       /\ IF disk.backup.here THEN Reply("ok") ELSE Request("close_unmark")
       /\ Waiting /\ UNCHANGED <<disk, db, env>>
    \/ /\ Serving("close_unmark")
       /\ \/ disk' = [disk EXCEPT !.marker = FALSE] /\ NoFault
          \/ disk.marker /\ Fault("unmark") /\ UNCHANGED disk
       /\ Reply("ok")
       /\ Waiting /\ UNCHANGED db

(* As it stood before this request wrote anything. *)
WasReplacing == req.replacing

(* _record_parse_failure, outside the writer lock: a replacement gets its     *)
(* source back, the attempt at a new document is cleared and recorded.        *)
FailReplacement ==
    \/ /\ Serving("fail") /\ WasReplacing
       /\ IF Exists(disk.stash) THEN Request("fail_rm") ELSE Reply("failed")
       /\ Waiting /\ UNCHANGED <<disk, db, env>>
    \/ /\ Serving("fail_rm") /\ Request("fail_mv")
       /\ \/ disk' = SourceRemoved /\ NoFault
          \/ Exists(disk.source) /\ Fault("unstash_rm") /\ UNCHANGED disk
       /\ Waiting /\ UNCHANGED db
    \/ /\ Serving("fail_mv") /\ Reply("failed")
       /\ \/ disk' = StashMoved /\ NoFault
          \/ Fault("unstash_mv") /\ UNCHANGED disk
       /\ Waiting /\ UNCHANGED db
FailNew ==
    \/ /\ Serving("fail") /\ ~WasReplacing
       /\ \/ /\ disk' = [part |-> NoParts, source |-> Absent, stash |-> Absent,
                         marker |-> FALSE, backup |-> NoBackup, failure |-> FALSE]
             /\ Request("fail_row") /\ NoFault
          \/ Fault("fail_clear") /\ Reply("failed") /\ UNCHANGED disk
       /\ Waiting /\ UNCHANGED db
    \/ /\ Serving("fail_row") /\ Reply("failed")
       /\ disk' = [disk EXCEPT !.failure = TRUE]
       /\ \/ db' = [row |-> Absent, fts |-> Absent] /\ NoFault
          \/ TextFault("fail_row") /\ UNCHANGED db
       /\ Waiting

-----------------------------------------------------------------------------
(* _generate_deferred_summary: guarded writes of the version it summarises.   *)

NotInFlight == FALSE                     \* variant: writes beside a replacement
(* The stash of a replacement that has not committed yet, or of one that never will. *)
InFlight == Exists(disk.stash)
SkipsRatherThanWaits(g) == thr[g] \in {"placeholder", "giveup"}
StaleWhenGone(g) == ~ManifestThere       \* variant: any manifest is its own
Stale(g) == disk.part["manifest"] \notin [gen : {g}, stage : Stages]

ThreadSkips(g) ==
    /\ env.up = "up" /\ tx.holder = "none" /\ thr[g] \in Writing
    /\ Stale(g) \/ (SkipsRatherThanWaits(g) /\ InFlight)
    /\ thr' = [thr EXCEPT ![g] = AfterWrite(@, FALSE)]
    /\ UNCHANGED <<disk, db, tx, req, env>>

ThreadWrites(g) ==
    /\ env.up = "up" /\ thr[g] \in Writing
    /\ ~Stale(g) /\ ~InFlight
    /\ Acquire("summary", "settle", "rewrite", [gen |-> g, stage |-> Stage[thr[g]]])
    /\ UNCHANGED <<disk, db, req, thr, env>>

ThreadWaitsOn(g) == FALSE                \* variant: no limit on the wait
(* _DEFERRED_WRITE_REPLACEMENT_WAIT_SEC has passed with the stash still there. *)
ThreadGivesUp(g) ==
    /\ env.up = "up" /\ tx.holder = "none" /\ thr[g] \in Writing
    /\ ~Stale(g) /\ InFlight /\ ~SkipsRatherThanWaits(g)
    /\ thr' = [thr EXCEPT ![g] = "over"]
    /\ UNCHANGED <<disk, db, tx, req, env>>

ThreadSummarises(g) ==
    /\ env.up = "up" /\ thr[g] = "llm"
    /\ \E phase \in {"result", "failure"} : thr' = [thr EXCEPT ![g] = phase]
    /\ UNCHANGED <<disk, db, tx, req, env>>

-----------------------------------------------------------------------------
(* The process dies; the next one settles before it serves anything.          *)

Crash ==
    /\ env.up # "down" /\ env.crashes < MaxCrashes
    /\ env' = [env EXCEPT !.up = "down", !.crashes = @ + 1]
    /\ tx' = NoTx
    /\ req' = [req EXCEPT !.at = "idle", !.answer = "none", !.seen = "none"]
    /\ thr' = [g \in Gens |-> "none"]
    /\ \/ UNCHANGED disk
       \/ /\ tx.at \in {"drop", "remove"} /\ disk.backup.here
          /\ \E b \in Remains(disk.backup) : disk' = [disk EXCEPT !.backup = b]
    /\ UNCHANGED db

(* _finish_interrupted_rewrites walks the library for the scaffolding. *)
Restart ==
    /\ env.up = "down"
    /\ IF Leftovers
       THEN /\ env' = [env EXCEPT !.up = "starting"]
            /\ Acquire("sweep", "settle", "sweep", Absent)
       ELSE env' = [env EXCEPT !.up = "up"] /\ UNCHANGED tx
    /\ UNCHANGED <<disk, db, req, thr>>
Swept ==
    /\ At("swept") /\ Release
    /\ env' = [env EXCEPT !.up = "up"]
    /\ UNCHANGED <<disk, db, req, thr>>

(* Every request has been answered and every thread has ended. *)
Rest ==
    /\ Serving("idle") /\ req.gen = MaxGen /\ tx.holder = "none"
    /\ \A g \in Gens : thr[g] \in {"none", "over"}
    /\ UNCHANGED vars

Settling == Settle \/ Touch \/ Drop \/ Fold \/ UnmarkStash \/ Unmark \/ ReadRecord
            \/ PutBack \/ PutBackText \/ Forget \/ RemoveBackup \/ Unstash
Rewriting == StashSource \/ Snapshot \/ StageText \/ StageRow \/ StageMove \/ StageCopy
             \/ StageRecord \/ WriteTexts \/ WriteSections \/ WriteSource
             \/ WriteTextIndex \/ WriteManifest \/ CommitRow
Holder == Settling \/ Rewriting \/ Check \/ Refuse \/ Raise \/ Finish \/ Swept
Requests == Arrive \/ Start \/ SettleFirst \/ Parse \/ TakeStash \/ Persist \/ Write
            \/ Discard \/ Close \/ FailReplacement \/ FailNew
Thread(g) == ThreadSkips(g) \/ ThreadWrites(g) \/ ThreadGivesUp(g) \/ ThreadSummarises(g)

Next == Holder \/ Requests \/ (\E g \in Gens : Thread(g)) \/ Crash \/ Restart \/ Rest

Spec == Init /\ [][Next]_vars

(* A request runs in a task that survives its client, a thread runs on its    *)
(* own, and neither waits for anything but the lock; the host restarts the    *)
(* process.  Nothing is assumed of the clients beyond the uploads they sent.  *)
Fairness == WF_vars(Holder) /\ WF_vars(Requests) /\ WF_vars(Restart)
            /\ \A g \in Gens : WF_vars(Thread(g))
FairSpec == Spec /\ Fairness

-----------------------------------------------------------------------------
(* What the next start would make of the directory as it is now: the verdict  *)
(* of the marker or the row, then _settle_interrupted_rewrite in either way.  *)

Committed == disk.marker \/ RowMoved
Restorable == IF disk.backup.staged # NoFile THEN disk.backup.staged ELSE Moved
RecoveredParts ==
    [p \in Parts |-> IF ~Committed /\ p \in Restorable /\ Exists(disk.backup.part[p])
                     THEN disk.backup.part[p] ELSE disk.part[p]]
RecoveredSource ==
    IF ~Exists(disk.stash) \/ (Committed /\ Exists(disk.source)) THEN disk.source
    ELSE disk.stash
RecoveredText ==
    IF Committed \/ disk.backup.staged = NoFile THEN db.fts ELSE SnapshotText
Recovered == [row |-> db.row, part |-> RecoveredParts, source |-> RecoveredSource,
              text |-> RecoveredText]

(* Every file of v is there, and is of v and not of another version. *)
Intact(v, part, source) ==
    /\ \A p \in Parts : PartOf(v, p) \in {Absent, part[p]}
    /\ SourceOf(v) \in {Absent, source}

Quiet == env.up = "up" /\ tx.holder = "none" /\ req.at = "idle"
AtRest == Quiet /\ ~Leftovers

-----------------------------------------------------------------------------
(* Properties. *)

Row    == Version \cup {Absent}
Part   == [Parts -> Row]
Source == Gens \cup {Absent}
Names  == SUBSET Parts
Backup == [here : BOOLEAN, part : Part, fts : Version \cup {NoFile},
           idx : Row \cup {NoFile, Unknown}, staged : {NoFile} \cup Names]
Ats == {"none", "settle", "touch", "drop", "fold", "unmark_stash", "unmark", "record", "put",
        "text", "forget", "remove", "unstash_rm", "unstash_mv", "swept", "check", "refuse",
        "raise", "stash", "clear", "stage_text", "stage_row", "stage_move", "stage_copy",
        "stage_record", "write_texts", "write_sections", "write_source", "write_text_index",
        "write_manifest", "write_row", "finish"}

Disk == [part : Part, source : Source, stash : Source, marker : BOOLEAN,
         backup : Backup, failure : BOOLEAN]
Tx   == [holder : {"none", "sweep", "request", "summary"}, at : Ats,
         purpose : {"none", "sweep", "before", "stash", "rewrite", "commit", "undo", "close"},
         names : Names, finished : BOOLEAN, fts : Row, idx : Row \cup {Unknown}, target : Row]
Req  == [at : {"idle", "before", "locked", "parse", "stash", "persist", "write",
               "discard", "close", "close_look", "close_unmark", "fail", "fail_rm", "fail_mv",
               "fail_row"},
         gen : Gens, channel : {"none", "sync", "defer", "raw"}, replacing : BOOLEAN,
         answer : {"none", "ok", "failed", "refused"}, acked : Gens,
         seen : {"none", "there", "absent"}]
Phases == {"none", "placeholder", "llm", "giveup", "result", "failure", "over"}
Env  == [up : {"up", "down", "starting"}, crashes : Nat, faults : Nat, textFault : BOOLEAN,
         blind : BOOLEAN]

(* The files, the row and the bookkeeping of the lock holder, the request and *)
(* the threads are always of the kinds the code writes: what was never        *)
(* written to .rollback/ is never taken for a version.                        *)
TypeOK ==
    /\ disk \in Disk /\ db \in [row : Row, fts : Row] /\ tx \in Tx /\ req \in Req
    /\ thr \in [Gens -> Phases] /\ env \in Env

(* At any instant, whatever was done last, a start now would find every file  *)
(* of the version the index row names: in place, or in .rollback/ and         *)
(* .rollback-source/ under a verdict that puts them back.  It is what         *)
(* _settle_interrupted_rewrite and the order of the steps of                  *)
(* _restore_on_failure are for.  An index that cannot be read is left out:    *)
(* _rewrite_committed documents what it then gives up.                        *)
CrashSafe == ~env.blind => Intact(db.row, RecoveredParts, RecoveredSource)

(* Seen through the recovery, an in-place rewrite is atomic: files, source,   *)
(* row and indexed text of one version are exchanged for those of a later one *)
(* in the step that commits the row, and no crash, sweep or failed attempt    *)
(* changes them (_reversible_rewrite, "all-or-nothing").                      *)
Atomic == INSTANCE AtomicDocument WITH Base <- Bases, content <- Recovered
RefinesAtomic == Atomic!Spec

(* Between requests a document without leftovers is exactly the version of    *)
(* its row: no file of it is missing and none of a failed or replaced version *)
(* is left beside it (_restore_on_failure: "the way it was").                 *)
WholeWhenClean == AtRest /\ Exists(db.row) =>
    disk.part = PartsOf(db.row) /\ disk.source = SourceOf(db.row)

(* A document without leftovers is complete in some version even when the     *)
(* operations on the disk fail: its files never mix two versions.             *)
OneVersion == AtRest => \E v \in Version : Intact(v, disk.part, disk.source)

(* The search table, which commits apart from the row, answers with the text  *)
(* of the version of the row, unless it failed itself and that was logged     *)
(* (_restore_indexed_text, _restore_search_index, _clear_search_index).       *)
TextMatches == AtRest /\ ~env.textFault /\ ~env.blind => db.fts = TextOf(db.row)

(* Where no operation failed nothing is left to settle: every path out of a   *)
(* request, a summary and a start removes backup, stash and marker.           *)
RestIsClean == Quiet /\ env.faults = 0 => ~Leftovers

(* What an upload was answered with 200 for is there, or a later one is:      *)
(* neither a crash, a failed replacement nor a stale summary takes it back.   *)
AckedStays == req.acked = 0 \/ (Exists(db.row) /\ req.acked <= db.row.gen)

(* The row never goes back to an earlier upload: a deferred summary of a      *)
(* replaced parse, and a roll back, leave the newer row (_skip_stale_         *)
(* generation, _rewrite_committed).                                           *)
NeverOlder == [][~Exists(db.row) \/ db'.row = db.row \/
                 (Exists(db'.row) /\ db'.row.gen >= db.row.gen)]_vars

(* The marker goes last: it is never removed from beside a backup, which a    *)
(* start would take for a rewrite that did not commit (the comment in         *)
(* _discard_stashed_source; "the last step of the rewrite").                  *)
MarkerOutlivesBackup == [][disk.marker /\ ~disk'.marker => ~disk'.backup.here]_vars

(* A failure record stands for a document that is not in the library          *)
(* (_record_parse_failure; _clear_parse_failure once a parse succeeds).       *)
OneFailureRecord == Quiet => ~(disk.failure /\ Exists(db.row))

(* Every upload is answered: no chain of lock, stash and settled leftovers    *)
(* leaves a request waiting.                                                  *)
Answered == /\ req.seen # "none" ~> req.seen = "none"
            /\ req.at # "idle" ~> req.at = "idle"

(* Every summary thread ends, the one included that waits for a replacement   *)
(* which never settles (_DEFERRED_WRITE_REPLACEMENT_WAIT_SEC).                *)
ThreadEnds == \A g \in Gens : thr[g] \in Writing ~> thr[g] \in {"none", "over"}
=============================================================================
