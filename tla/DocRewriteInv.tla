---------------------------- MODULE DocRewriteInv ----------------------------
(***************************************************************************)
(* The inductive invariant behind CrashSafe, for uploads whose writer may  *)
(* fail at any operation and whose process may die at any moment, while    *)
(* the operations of the recovery itself succeed.  Beside summary threads  *)
(* the rewrites succeed as well: run gap shows an upload clear what an     *)
(* undo has taken away.  Where uploads start such threads the process      *)
(* lives on: the close of such an upload, outside the lock, may remove the *)
(* marker of its thread, and a start would then miss the verdict.          *)
(***************************************************************************)
EXTENDS DocRewrite

WriterSteps == {"stash", "stage_text", "stage_row", "stage_move", "write_texts",
                "write_sections", "write_source", "write_text_index", "write_manifest",
                "write_row", "persist", "read_text", "fail_clear", "fail_row"}

(* Those of them that undo the rewrite when they fail. *)
RewriteSteps == {"stage_text", "stage_row", "stage_move", "write_texts", "write_sections",
                 "write_source", "write_manifest", "write_row"}

Defers    == "defer" \in Channels        \* an upload may start a summary thread
Summaries == Defers \/ "parse" \in Bases \* there may be one

Scope == /\ FaultySteps \subseteq WriterSteps
         /\ Summaries => FaultySteps \cap RewriteSteps = {}
         /\ Defers => MaxCrashes = 0

NoBack  == disk.backup = NoBackup
NoLeft  == NoBack /\ ~disk.marker /\ ~Exists(disk.stash)
PutOut(p) == ~Exists(disk.backup.part[p])      \* nothing of p is left in the backup

SettleAts == {"settle", "touch", "drop", "fold", "unmark_stash", "record", "put", "text",
              "forget", "remove", "unstash_rm", "unstash_mv", "swept"}
WriteAts  == {"write_texts", "write_sections", "write_source", "write_text_index",
              "write_manifest", "write_row"}
StageAts  == {"stage_text", "stage_row", "stage_move", "stage_copy", "stage_record"}
UndoAts   == {"put", "text", "forget", "remove", "raise"}
AtsOf == [none |-> {"none"}, sweep |-> SettleAts, before |-> {"settle", "check"},
          stash |-> {"settle", "check", "stash", "finish", "raise"},
          rewrite |-> {"settle", "clear"} \cup StageAts \cup WriteAts,
          undo |-> UndoAts, commit |-> {"touch", "drop", "unmark", "finish"},
          close |-> {"fold", "unmark_stash", "finish"}]

(* Who holds the lock, and where the request is meanwhile. *)
Control ==
    /\ ~env.blind
    /\ tx.at \in AtsOf[tx.purpose]
    /\ tx.holder = "none" <=> tx.purpose = "none"
    /\ tx.holder = "sweep" <=> tx.purpose = "sweep"
    /\ tx.holder = "summary" => tx.purpose \in {"rewrite", "commit"} /\ env.up = "up"
    /\ tx.holder = "request" <=> req.at = "locked"
    /\ env.up = "starting" <=> tx.holder = "sweep"
    /\ env.up # "up" => req.at = "idle"

(* Until its commit a request is later than the row, and knows of it. *)
BeforeCommit == \/ req.at \in {"before", "parse", "stash", "persist", "write", "fail", "fail_rm",
                               "fail_mv", "fail_row"}
                \/ tx.holder = "request" /\ tx.purpose \in {"before", "stash", "rewrite", "undo"}
Order ==
    /\ Exists(db.row) => db.row.gen <= req.gen
    /\ BeforeCommit => (Exists(db.row) => db.row.gen < req.gen)
    /\ BeforeCommit /\ ~req.replacing => ~Exists(db.row) /\ ~Exists(disk.stash)
    /\ req.at \in {"before", "stash"} \/ tx.purpose \in {"before", "stash"} => req.replacing
    /\ req.seen # "none" => req.gen < MaxGen
    /\ req.at # "idle" => req.channel \in Channels
    /\ req.at \in {"parse", "stash", "persist", "close", "close_look", "close_unmark"}
         => req.channel # "raw"
    /\ req.at = "discard" => req.channel = "defer"
    /\ tx.holder = "request" /\ tx.purpose \in {"rewrite", "undo", "commit"}
         => tx.target = Target
    /\ tx.purpose = "stash" /\ req.channel = "raw" => tx.target = Target
    /\ tx.purpose = "close" => req.channel # "sync"
    /\ tx.purpose = "stash" /\ tx.at = "finish" => req.channel # "raw"

(* A thread summarises a version that the row has not left for another stage, *)
(* or has left for another upload; while it writes, no upload has set the     *)
(* source aside, and none has come as far as to commit.                       *)
Active(g) == thr[g] \notin {"none", "over"}
Carried(stage) ==
    CASE stage = "parse"   -> {"running", "done", "failed"}
      [] stage = "running" -> {"done", "failed"}
      [] OTHER             -> {}
Left == [placeholder |-> {"parse"}, giveup |-> {"parse"}, llm |-> {"parse", "running"},
         result |-> {"parse", "running"}, failure |-> {"parse", "running"}]
Closing == req.at \in {"close", "close_look", "close_unmark"}
Beside == \/ req.at \in {"idle", "before", "parse", "stash", "fail"}
          \/ req.at = "write" /\ req.channel = "raw" /\ req.replacing
          \/ Closing /\ req.channel = "defer"
Unthreaded == \/ req.at = "discard" \/ (Closing /\ req.channel = "sync")
              \/ tx.holder = "request" /\ tx.purpose \in {"commit", "close"}
Threads ==
    /\ \A g \in Gens : thr[g] # "none" => Summaries
    /\ \A g \in Gens : Active(g) => Exists(db.row) /\ g <= db.row.gen
    /\ \A g \in Gens : Active(g) /\ tx.purpose # "commit" /\ db.row.gen = g
                           => db.row.stage \in Left[thr[g]]
    /\ tx.holder = "summary" =>
         /\ tx.target \in Version /\ thr[tx.target.gen] \in Writing
         /\ tx.target.stage = Stage[thr[tx.target.gen]]
         /\ db.row.gen = tx.target.gen
         /\ tx.purpose = "commit" => db.row = tx.target
         /\ ~Exists(disk.stash) /\ Beside
    /\ Unthreaded => ~Active(req.gen) /\ db.row = Target

(* A backup is recorded as a whole or not at all. *)
BackupShape ==
    /\ ~disk.backup.here => NoBack
    /\ disk.backup.staged # NoFile =>
         \A p \in Parts : Exists(disk.backup.part[p]) => p \in disk.backup.staged

(* Where nothing is left over, where at most the stash is. *)
Clean ==
    /\ \/ env.up = "up" /\ tx.holder # "summary"
          /\ req.at \in {"idle", "before", "parse", "stash", "fail_row"}
       \/ tx.purpose = "before"
       \/ tx.purpose = "stash" /\ tx.at \in {"settle", "check", "stash", "raise"}
       \/ tx.at = "swept"
       => NoLeft
    /\ \/ req.at \in {"persist", "write", "fail", "fail_rm", "fail_mv"} /\ tx.holder # "summary"
       \/ tx.purpose = "stash"
       \/ tx.purpose = "rewrite" /\ tx.at \in {"settle", "clear", "stage_text"}
       \/ tx.purpose = "undo" /\ tx.at = "raise"
       => NoBack /\ ~disk.marker
    /\ req.at = "write" /\ req.channel = "raw" => ~Exists(disk.stash)
    /\ req.at \in {"fail_rm", "fail_mv"} => Exists(disk.stash) /\ req.replacing
    /\ req.at = "fail_mv" => ~Exists(disk.source)
    /\ req.at = "fail_row" => ~req.replacing

(* The stored source is out of the way before another one is written. *)
Stashed ==
    /\ \/ req.at = "persist" \/ (req.at = "write" /\ req.channel # "raw")
       \/ tx.holder = "request" /\ tx.purpose = "rewrite"
       \/ tx.purpose = "stash" /\ tx.at = "finish"
       => (Exists(db.row) => Exists(disk.stash))
    /\ \/ req.channel # "raw" /\ req.at = "write"
       \/ req.channel # "raw" /\ tx.holder = "request" /\ tx.purpose = "rewrite"
       => disk.source = req.gen

(* What is staged when, and that a finished staging holds the whole version. *)
Staging ==
    /\ tx.purpose = "rewrite" => ~disk.marker
    /\ tx.at \in StageAts \cup WriteAts => tx.idx = db.row
    /\ \/ tx.purpose = "stash"
       \/ tx.purpose = "rewrite" /\ tx.at \in {"settle", "clear", "stage_text", "stage_row"}
       => tx.names = {}
    /\ tx.at \in {"stage_text", "stage_row"} => disk.backup.part = NoParts
    /\ tx.at \in StageAts => disk.backup.staged = NoFile
    /\ tx.at = "stage_row" => disk.backup.here /\ disk.backup.idx = NoFile
    /\ tx.at \in {"stage_move", "stage_copy", "stage_record"} \cup WriteAts =>
         /\ disk.backup.here /\ disk.backup.idx = db.row
         /\ \A p \in Parts : p \in tx.names <=> ~PutOut(p)
    /\ tx.at = "stage_move" => /\ \A p \in Copied : p \notin tx.names
                               /\ \A p \in tx.names : ~Exists(disk.part[p])
    /\ tx.at \in {"stage_copy", "stage_record"} =>
         /\ \A p \in Moved : ~Exists(disk.part[p])
         /\ \A p \in Copied : p \in tx.names => disk.backup.part[p] = disk.part[p]
    /\ tx.at = "stage_record" => \A p \in Copied : Exists(disk.part[p]) => p \in tx.names
    /\ tx.at \in WriteAts =>
         /\ disk.backup.staged = tx.names
         /\ \A p \in Parts : PartOf(db.row, p) \in {Absent, disk.backup.part[p]}

(* What has been written when the row is about to name it. *)
Written ==
    tx.at \in WriteAts =>
    /\ tx.at # "write_texts" => disk.part["texts"] = PartOf(tx.target, "texts")
    /\ ~Raw /\ tx.at \in {"write_text_index", "write_manifest", "write_row"}
         => disk.part["sections"] = tx.target
    /\ Raw /\ tx.at \in {"write_text_index", "write_manifest", "write_row"}
         => disk.source = tx.target.gen
    /\ tx.at = "write_row" \/ (Raw /\ tx.at = "write_text_index")
         => disk.part["manifest"] = tx.target
    /\ Exists(db.row) => Exists(disk.part["manifest"])
    /\ Raw => tx.at # "write_sections"
    /\ ~Raw => tx.at # "write_source"

(* A roll back, by a start or by the rewrite itself, takes names off its list *)
(* only when nothing of them is left in the backup.                           *)
RollingBack ==
    /\ tx.at \in {"record", "put", "text", "forget", "remove"} => ~Committed
    /\ tx.at = "record" => disk.backup.here
    /\ tx.purpose = "undo" => disk.backup.idx \in {NoFile, db.row}
    /\ tx.at = "put" => /\ tx.names \subseteq Restorable
                        /\ \A p \in Restorable \ tx.names : PutOut(p)
    /\ tx.at \in {"text", "forget", "remove"} => \A p \in Restorable : PutOut(p)
    /\ tx.at = "remove" => disk.backup.staged = NoFile
    /\ tx.at \in {"unstash_rm", "unstash_mv"} => NoBack /\ ~disk.marker /\ Exists(disk.stash)
    /\ tx.at = "unstash_mv" => ~Exists(disk.source)

(* A verdict is on disk before what it was read from goes. *)
RollingForward ==
    /\ tx.at = "touch" => disk.backup.here /\ ~disk.marker /\ RowMoved
    /\ tx.at \in {"drop", "unmark"} => disk.marker \/ (Defers /\ tx.holder = "summary")
    /\ tx.at = "drop" /\ tx.purpose = "commit" => RowMoved
    /\ tx.at \in {"unmark", "fold", "unmark_stash"} => NoBack
    /\ tx.at = "fold" => disk.marker \/ ~Exists(disk.stash)
    /\ tx.at = "unmark_stash" => ~Exists(disk.stash)
    /\ tx.purpose \in {"commit", "close"} => Exists(disk.source)
    /\ req.at = "discard" => Exists(disk.source)
    /\ \/ tx.purpose = "commit" /\ tx.at = "finish"
       \/ req.at \in {"close", "discard"} /\ tx.holder # "summary"
       => NoBack /\ (disk.marker <=> Exists(disk.stash))
    /\ tx.purpose = "close" /\ tx.at = "finish" => NoLeft
    /\ req.at \in {"close_look", "close_unmark"} /\ tx.holder # "summary"
         => NoBack /\ ~Exists(disk.stash)
    /\ req.at \in {"close", "close_look", "close_unmark"} /\ req.channel = "defer"
         /\ tx.holder # "summary" => NoLeft

IInv == /\ TypeOK /\ CrashSafe /\ Control /\ Order /\ BackupShape /\ Clean /\ Stashed
        /\ Staging /\ Written /\ RollingBack /\ RollingForward /\ Threads
===============================================================================
