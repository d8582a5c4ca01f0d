------------------------- MODULE DocRewriteStepProofs -------------------------
(***************************************************************************)
(* The steps of the recovery and of the writers keep the invariant.  First *)
(* the settling of what an earlier rewrite left, with one lemma per        *)
(* outcome of an action and one step per part of the invariant it can      *)
(* disturb; then a rewrite, which stages, writes and commits, or fails and *)
(* is rolled back.                                                         *)
(***************************************************************************)
EXTENDS DocRewriteInv, TLAPS

(* An empty .rollback/ is of the type of every other.                         *)
LEMMA NoBackupType == NoBackup \in Backup /\ Absent \in Source /\ Absent \in Row
  BY DEF NoBackup, Backup, NoParts, Part, Row, Parts, Moved, Copied, Source

(* There is nothing in an empty .rollback/.                                   *)
LEMMA NoBackupFields ==
  /\ ~NoBackup.here /\ NoBackup.part = NoParts
  /\ NoBackup.staged = NoFile /\ NoBackup.idx = NoFile
  /\ \A p \in Parts : NoBackup.part[p] = Absent
  BY DEF NoBackup, NoParts

(* A free lock.                                                               *)
LEMMA NoTxFields ==
  /\ NoTx \in Tx /\ NoTx.holder = "none" /\ NoTx.at = "none" /\ NoTx.purpose = "none"
  /\ NoTx.names = {}
  BY NoBackupType DEF NoTx, Tx, Ats, Names, Row

(* Forgetting the record of an empty backup changes nothing.                  *)
LEMMA NoStaging == [NoBackup EXCEPT !.staged = NoFile] = NoBackup
  <1>1. ASSUME NEW b \in Backup, b.staged = NoFile PROVE [b EXCEPT !.staged = NoFile] = b
    BY <1>1 DEF Backup
  <1> QED
    BY <1>1, NoBackupFields, NoBackupType

(* Why the lock was taken follows from where its holder is; a summary only    *)
(* takes it to rewrite.                                                       *)
LEMMA PurposeAt ==
  ASSUME TypeOK, Control
  PROVE  /\ tx.at \in {"clear"} \cup StageAts \cup WriteAts => tx.purpose = "rewrite"
         /\ tx.at = "stash" => tx.purpose = "stash"
         /\ tx.at = "check" => tx.purpose \in {"before", "stash"}
         /\ tx.at = "raise" => tx.purpose \in {"stash", "undo"}
         /\ tx.at = "swept" => tx.purpose = "sweep"
         /\ tx.at = "finish" => tx.purpose \in {"stash", "commit", "close"}
         /\ tx.at = "settle" => tx.purpose \in {"sweep", "before", "stash", "rewrite"}
         /\ tx.at \notin {"refuse", "none"} => tx.purpose # "none"
         /\ tx.at # "refuse"
         /\ tx.purpose \notin {"none", "sweep"} =>
              tx.holder \in {"request", "summary"} /\ env.up = "up"
         /\ tx.purpose \in {"before", "stash", "undo", "close"} => tx.holder = "request"
         /\ tx.holder = "request" => req.at = "locked" /\ env.up = "up"
  BY DEF TypeOK, Tx, Env, Control, AtsOf, SettleAts, StageAts, WriteAts, UndoAts

(* A step of the lock holder that leaves row and stash alone takes nothing    *)
(* from the threads.                                                          *)
LEMMA ThreadsKept ==
  ASSUME Threads, UNCHANGED <<req, thr>>, db'.row = db.row,
         disk'.stash = disk.stash \/ tx.holder # "summary",
         tx'.holder = tx.holder, tx'.target = tx.target, tx'.purpose = tx.purpose
  PROVE  Threads'
  BY DEF Threads, Active, Closing, Beside, Unthreaded, Target

(* Nor does the step with which another holder goes on to another purpose, or *)
(* hands the lock back, whatever the request does next.                       *)
LEMMA ThreadsHandedOn ==
  ASSUME TypeOK, Threads, thr' = thr, db'.row = db.row,
         tx.holder # "summary", tx'.holder # "summary",
         tx.purpose = "commit" => tx.holder = "request",
         Unthreaded' => Unthreaded /\ req'.gen = req.gen /\ req'.channel = req.channel
  PROVE  Threads'
  <1>1. ASSUME NEW g \in Gens, Active(g), tx.purpose = "commit" PROVE db.row.gen # g
    BY <1>1 DEF Threads, Unthreaded, Target
  <1>2. Unthreaded' => ~Active(req.gen)' /\ db'.row = Target'
    BY DEF Threads, Active, Target
  <1> QED
    BY <1>1, <1>2 DEF Threads, Active

(* A rewrite that can fail is one of a request.                               *)
LEMMA OnlyRequestsUndo ==
  ASSUME Scope, IInv, NEW step \in RewriteSteps, Faulty(step)
  PROVE  tx.holder # "summary"
  <1>1. ~Summaries
    BY DEF Scope, Faulty
  <1>2. tx.holder = "summary" => tx.target.gen \in Gens /\ thr[tx.target.gen] \in Writing
    BY DEF IInv, Threads, Version
  <1> QED
    BY <1>1, <1>2 DEF IInv, Threads, Writing, Stage

(* The operations of the recovery succeed in Scope.                           *)
LEMMA NoOtherFault ==
  ASSUME Scope
  PROVE  \A step \in {"settle", "touch", "drop", "fold", "unmark", "record", "put", "text",
                      "forget", "remove", "unstash_rm", "unstash_mv", "clear", "read_row",
                      "stage_copy", "stage_record"} : ~Faulty(step)
  BY DEF Scope, WriterSteps, Faulty

-----------------------------------------------------------------------------
(* Settle: the verdict of the marker, of the row, or of what is there.        *)
LEMMA SettleInv ==
  ASSUME Scope, IInv, At("settle"),
         UNCHANGED <<disk, db, req, thr, env>>,
         NEW a \in Ats,
         \/ /\ a \in {"swept", "check", "clear"} /\ a = Settled(FALSE)
            /\ ~(disk.backup.here \/ disk.marker \/ (IncludesStash /\ Exists(disk.stash)))
         \/ a = "drop" /\ disk.marker
         \/ a = "touch" /\ ~disk.marker /\ RowMoved
         \/ a = "record" /\ ~disk.marker /\ ~RowMoved /\ disk.backup.here
         \/ a = "unstash_rm" /\ ~disk.marker /\ ~disk.backup.here
            /\ IncludesStash /\ Exists(disk.stash),
         tx' = [tx EXCEPT !.at = a]
  PROVE  IInv'
  <1> USE DEF Exists, IInv, At
  <1>1. TypeOK'
    BY NoBackupType DEF TypeOK, Disk, Tx, Ats, Settled, IncludesStash, Clean, BackupShape,
       Control, AtsOf, SettleAts, WriteAts, StageAts, UndoAts, NoBack, NoBackup, NoParts,
       NoLeft
  <1>2. Control'
    <2>1. CASE tx.purpose = "sweep"
      BY <2>1 DEF Settled, Control, AtsOf, SettleAts, TypeOK, Tx
    <2>2. CASE tx.purpose \in {"before", "stash"}
      BY <2>2 DEF Settled, Control, AtsOf, Clean, NoLeft, NoBack, NoBackup, RowMoved,
         TypeOK, Tx
    <2>3. CASE tx.purpose = "rewrite"
      BY <2>3 DEF Settled, IncludesStash, Control, AtsOf, Clean, NoLeft, NoBack, NoBackup,
         RowMoved, TypeOK, Tx
    <2>4. tx.purpose \in {"sweep", "before", "stash", "rewrite"}
      BY DEF Control, AtsOf, StageAts, WriteAts, UndoAts, TypeOK, Tx
    <2> QED
      BY <2>1, <2>2, <2>3, <2>4
  <1> USE DEF TypeOK, Disk, Tx, Req, Env, Backup, Part, Row, Names, Source, Control,
          AtsOf, SettleAts, WriteAts, StageAts, UndoAts
  <1>3. CrashSafe'
    BY DEF CrashSafe, Intact, RecoveredParts, RecoveredSource, Committed, RowMoved,
       Restorable, Settled, IncludesStash, Clean, BackupShape, NoBack, NoBackup, NoParts,
       NoLeft
  <1>4. (Order /\ BackupShape /\ Clean /\ Stashed /\ Staging /\ Written /\ RollingBack /\
      RollingForward)'
    BY DEF Order, BeforeCommit, Target, BackupShape, NoBack, NoBackup, NoParts, Clean,
       NoLeft, Stashed, Staging, PutOut, Written, Raw, RollingBack, Committed, RowMoved,
       Restorable, RollingForward, Settled, IncludesStash
  <1>5. Threads'
    BY ThreadsKept
  <1> QED
    BY <1>1, <1>2, <1>3, <1>4, <1>5 DEF IInv

LEMMA SettleStep ==
  ASSUME Scope, IInv, Settle
  PROVE  IInv'
  <1>1. PICK a \in Ats :
          /\ \/ /\ a \in {"swept", "check", "clear"} /\ a = Settled(FALSE)
                /\ ~(disk.backup.here \/ disk.marker \/ (IncludesStash /\ Exists(disk.stash)))
             \/ a = "drop" /\ disk.marker
             \/ a = "touch" /\ ~disk.marker /\ RowMoved
             \/ a = "record" /\ ~disk.marker /\ ~RowMoved /\ disk.backup.here
             \/ a = "unstash_rm" /\ ~disk.marker /\ ~disk.backup.here
                /\ IncludesStash /\ Exists(disk.stash)
          /\ tx' = [tx EXCEPT !.at = a]
    <2>1. Settled(FALSE) \in {"swept", "check", "clear"}
      BY PurposeAt DEF IInv, Settle, At, Settled
    <2> QED
      BY <2>1, NoOtherFault DEF Settle, Goto, BlindFault, Ats
  <1>2. UNCHANGED <<disk, db, req, thr, env>> /\ At("settle")
    BY NoOtherFault DEF Settle, Outside, NoFault, BlindFault
  <1> QED
    BY <1>1, <1>2, SettleInv

(* Touch: the verdict is on disk before anything it was read from is          *)
(* removed.                                                                   *)
LEMMA TouchInv ==
  ASSUME Scope, IInv, At("touch"),
         UNCHANGED <<db, req, thr, env>>,
         disk' = [disk EXCEPT !.marker = TRUE],
         tx' = [tx EXCEPT !.at = "drop"]
  PROVE  IInv'
  <1> USE DEF Exists, IInv, At
  <1>1. TypeOK'
    BY NoBackupType DEF TypeOK, Disk, Tx, Ats
  <1> USE DEF TypeOK, Disk, Tx, Req, Env, Backup, Part, Row, Names, Source, Control,
          AtsOf, SettleAts, WriteAts, StageAts, UndoAts
  <1>2. CrashSafe'
    BY DEF CrashSafe, Intact, RecoveredParts, RecoveredSource, Committed, RowMoved,
       Restorable, RollingForward
  <1>3. Control'
    OBVIOUS
  <1>4. (Order /\ BackupShape /\ Clean /\ Stashed /\ Staging /\ Written /\ RollingBack /\
      RollingForward)'
    BY DEF Order, BeforeCommit, Target, BackupShape, NoBack, NoBackup, NoParts, Clean,
       NoLeft, Stashed, Staging, PutOut, Written, Raw, RollingBack, Committed, RowMoved,
       Restorable, RollingForward
  <1>5. Threads'
    BY ThreadsKept
  <1> QED
    BY <1>1, <1>2, <1>3, <1>4, <1>5 DEF IInv

LEMMA TouchStep ==
  ASSUME Scope, IInv, Touch
  PROVE  IInv'
  <1>1. /\ UNCHANGED <<db, req, thr, env>> /\ At("touch")
        /\ disk' = [disk EXCEPT !.marker = TRUE] /\ tx' = [tx EXCEPT !.at = "drop"]
    BY NoOtherFault DEF Touch, Outside, NoFault, Goto, Fault
  <1> QED
    BY <1>1, TouchInv

(* Drop: of a committed rewrite the backup may go.                            *)
LEMMA DropInv ==
  ASSUME Scope, IInv, At("drop"),
         UNCHANGED <<db, req, thr, env>>,
         disk' = [disk EXCEPT !.backup = NoBackup],
         tx' = [tx EXCEPT !.at = IF tx.purpose = "commit" THEN "unmark" ELSE "fold"]
  PROVE  IInv'
  <1> USE DEF Exists, IInv, At
  <1>1. TypeOK'
    BY NoBackupType DEF TypeOK, Disk, Tx, Ats
  <1> USE DEF TypeOK, Disk, Tx, Req, Env, Backup, Part, Row, Names, Source, Control,
          AtsOf, SettleAts, WriteAts, StageAts, UndoAts
  <1>2. CrashSafe'
    <2>1. Committed /\ (disk.marker \/ disk.stash = Absent)
      BY DEF Committed, RollingForward, Threads
    <2>2. RecoveredParts = disk.part /\ RecoveredParts' = disk.part
      BY <2>1, NoBackupFields DEF RecoveredParts
    <2>3. RecoveredSource' = RecoveredSource
      BY <2>1 DEF RecoveredSource, Committed
    <2> QED
      BY <2>2, <2>3 DEF CrashSafe, Intact
  <1>3. Control'
    OBVIOUS
  <1>4. (Order /\ BackupShape /\ Clean /\ Stashed /\ Staging /\ Written /\ RollingBack /\
      RollingForward)'
    BY DEF Order, BeforeCommit, Target, BackupShape, NoBack, NoBackup, NoParts, Clean,
       NoLeft, Stashed, Staging, PutOut, Written, Raw, RollingBack, Committed, RowMoved,
       Restorable, RollingForward
  <1>5. Threads'
    BY ThreadsKept
  <1> QED
    BY <1>1, <1>2, <1>3, <1>4, <1>5 DEF IInv

LEMMA DropStep ==
  ASSUME Scope, IInv, Drop
  PROVE  IInv'
  <1>1. /\ UNCHANGED <<db, req, thr, env>> /\ At("drop")
         /\ disk' = [disk EXCEPT !.backup = NoBackup]
        /\ tx' = [tx EXCEPT !.at = IF tx.purpose = "commit" THEN "unmark" ELSE "fold"]
    <2>1. tx.purpose # "rewrite"
      BY DEF Drop, At, IInv, Control, AtsOf, StageAts, WriteAts
    <2> QED
      BY <2>1, NoOtherFault DEF Drop, Outside, NoFault, Goto, Fault
  <1> QED
    BY <1>1, DropInv

(* Fold: of a committed rewrite the stash may go, unless it is the only       *)
(* source.                                                                    *)
LEMMA FoldInv ==
  ASSUME Scope, IInv, At("fold"),
         UNCHANGED <<db, req, thr, env>>,
         disk' = IF Exists(disk.stash) THEN Folded ELSE disk,
         tx' = [tx EXCEPT !.at = "unmark_stash"]
  PROVE  IInv'
  <1> USE DEF Exists, IInv, At
  <1>1. TypeOK'
    BY NoBackupType DEF TypeOK, Disk, Tx, Ats, Folded
  <1> USE DEF TypeOK, Disk, Tx, Req, Env, Backup, Part, Row, Names, Source, Control,
          AtsOf, SettleAts, WriteAts, StageAts, UndoAts
  <1>2. CrashSafe'
    BY DEF CrashSafe, Intact, RecoveredParts, RecoveredSource, Committed, RowMoved,
       Restorable, RollingForward, NoBack, NoBackup, NoParts, Folded
  <1>3. Control'
    BY DEF Folded
  <1>4. (Order /\ BackupShape /\ Clean /\ Stashed /\ Staging /\ Written /\ RollingBack /\
      RollingForward)'
    BY DEF Order, BeforeCommit, Target, BackupShape, NoBack, NoBackup, NoParts, Clean,
       NoLeft, Stashed, Staging, PutOut, Written, Raw, RollingBack, Committed, RowMoved,
       Restorable, RollingForward, Folded
  <1>5. Threads'
    BY ThreadsKept
  <1> QED
    BY <1>1, <1>2, <1>3, <1>4, <1>5 DEF IInv

LEMMA FoldStep ==
  ASSUME Scope, IInv, Fold
  PROVE  IInv'
  <1>1. /\ UNCHANGED <<db, req, thr, env>> /\ At("fold")
        /\ disk' = (IF Exists(disk.stash) THEN Folded ELSE disk)
        /\ tx' = [tx EXCEPT !.at = "unmark_stash"]
    BY NoOtherFault DEF Fold, Outside, NoFault, Goto, Fault
  <1> QED
    BY <1>1, FoldInv

(* UnmarkStash: the marker goes when neither backup nor stash is left.        *)
LEMMA UnmarkStashInv ==
  ASSUME Scope, IInv, At("unmark_stash"),
         UNCHANGED <<db, req, thr, env>>,
         disk' = [disk EXCEPT !.marker = @ /\ disk.backup.here],
         tx' = [tx EXCEPT !.at = IF tx.purpose = "close" THEN "finish" ELSE "swept"]
  PROVE  IInv'
  <1> USE DEF Exists, IInv, At
  <1>1. TypeOK'
    BY ZenonT(60), NoBackupType DEF TypeOK, Disk, Tx, Ats
  <1> USE DEF TypeOK, Disk, Tx, Req, Env, Backup, Part, Row, Names, Source, Control,
          AtsOf, SettleAts, WriteAts, StageAts, UndoAts
  <1>2. CrashSafe'
    BY DEF CrashSafe, Intact, RecoveredParts, RecoveredSource, Committed, RowMoved,
       Restorable, NoBack, NoBackup, NoParts, RollingForward
  <1>3. Control'
    OBVIOUS
  <1>4. (Order /\ BackupShape /\ Stashed /\ Staging /\ Written /\ RollingBack /\
      RollingForward)'
    BY DEF Order, BeforeCommit, Target, BackupShape, NoBack, NoBackup, NoParts, Stashed,
       Staging, PutOut, Written, Raw, RollingBack, Committed, RowMoved, Restorable,
       RollingForward, NoLeft
  <1>5. Clean'
    BY DEF Clean, NoLeft, NoBack, NoBackup, NoParts, RollingForward
  <1>6. Threads'
    BY ThreadsKept
  <1> QED
    BY <1>1, <1>2, <1>3, <1>4, <1>5, <1>6 DEF IInv

LEMMA UnmarkStashStep ==
  ASSUME Scope, IInv, UnmarkStash
  PROVE  IInv'
  <1>1. /\ UNCHANGED <<db, req, thr, env>> /\ At("unmark_stash")
        /\ disk' = [disk EXCEPT !.marker = @ /\ disk.backup.here]
        /\ tx' = [tx EXCEPT !.at = IF tx.purpose = "close" THEN "finish" ELSE "swept"]
    <2>1. tx.purpose \in {"sweep", "close"}
      BY DEF UnmarkStash, At, IInv, TypeOK, Tx, Control, AtsOf, StageAts, WriteAts, UndoAts
    <2> QED
      BY <2>1, NoOtherFault DEF UnmarkStash, Settled, Outside, NoFault, Goto, Fault
  <1> QED
    BY <1>1, UnmarkStashInv

(* Unmark: after a commit the marker stays while the stash is there.          *)
LEMMA UnmarkInv ==
  ASSUME Scope, IInv, At("unmark"),
         UNCHANGED <<db, req, thr, env>>,
         disk' = [disk EXCEPT !.marker = @ /\ (disk.backup.here \/ Exists(disk.stash))],
         tx' = [tx EXCEPT !.at = "finish"]
  PROVE  IInv'
  <1> USE DEF Exists, IInv, At
  <1>1. TypeOK'
    BY NoBackupType DEF TypeOK, Disk, Tx, Ats
  <1>7. RollingForward'
    <2>1. /\ NoBack /\ tx.purpose = "commit" /\ Exists(disk.source)
          /\ tx.purpose = "commit" => tx.holder \in {"request", "summary"}
          /\ disk.marker \/ tx.holder = "summary"
      BY DEF RollingForward, Control, TypeOK, Tx, AtsOf, SettleAts, WriteAts, StageAts, UndoAts
    <2>2. disk.backup.here = FALSE
      BY <2>1 DEF NoBack, NoBackup
    <2>3. (disk.marker /\ (disk.backup.here \/ Exists(disk.stash))) = Exists(disk.stash)
      BY <2>1, <2>2 DEF Threads, TypeOK, Disk
    <2>4. /\ disk'.backup = disk.backup /\ disk'.stash = disk.stash
          /\ disk'.source = disk.source /\ disk'.marker = Exists(disk.stash)
          /\ tx'.at = "finish" /\ tx'.purpose = "commit" /\ tx'.holder = tx.holder
      BY <2>1, <2>3 DEF TypeOK, Disk, Tx
    <2>5. tx.holder = "request" => req.at = "locked"
      BY DEF Control
    <2>6. tx.holder = "summary" => req.at # "discard"
      BY DEF Threads, Beside, Closing
    <2> QED
      BY <2>1, <2>4, <2>5, <2>6 DEF RollingForward, NoBack
  <1> USE DEF TypeOK, Disk, Tx, Req, Env, Backup, Part, Row, Names, Source, Control,
          AtsOf, SettleAts, WriteAts, StageAts, UndoAts
  <1>2. CrashSafe'
    BY DEF CrashSafe, Intact, RecoveredParts, RecoveredSource, Committed, RowMoved,
       Restorable, NoBack, NoBackup, NoParts, RollingForward
  <1>3. Control'
    OBVIOUS
  <1>4. (Order /\ BackupShape /\ Stashed /\ Staging /\ Written /\ RollingBack)'
    BY DEF Order, BeforeCommit, Target, BackupShape, NoBack, NoBackup, NoParts, Stashed,
       Staging, PutOut, Written, Raw, RollingBack, Committed, RowMoved, Restorable,
       RollingForward, NoLeft
  <1>5. Clean'
    BY DEF Clean, NoLeft, NoBack, NoBackup, NoParts, RollingForward
  <1>6. Threads'
    BY ThreadsKept
  <1> QED
    BY <1>1, <1>2, <1>3, <1>4, <1>5, <1>6, <1>7 DEF IInv

LEMMA UnmarkStep ==
  ASSUME Scope, IInv, Unmark
  PROVE  IInv'
  <1>1. /\ UNCHANGED <<db, req, thr, env>> /\ At("unmark")
        /\ disk' = [disk EXCEPT !.marker = @ /\ (disk.backup.here \/ Exists(disk.stash))]
        /\ tx' = [tx EXCEPT !.at = "finish"]
    <2>1. tx.purpose = "commit"
      BY SMTT(60) DEF Unmark, At, IInv, TypeOK, Tx, Control, AtsOf, SettleAts, StageAts,
         WriteAts, UndoAts
    <2> QED
      BY <2>1, NoOtherFault DEF Unmark, Outside, NoFault, Goto, Fault
  <1> QED
    BY <1>1, UnmarkInv

(* ReadRecord: the roll back knows what was staged.                           *)
LEMMA ReadRecordInv ==
  ASSUME Scope, IInv, At("record"),
         UNCHANGED <<disk, db, req, thr, env>>,
         NEW f \in BOOLEAN,
         tx' = [tx EXCEPT !.at = "put", !.finished = f, !.names =
            IF disk.backup.staged # NoFile THEN disk.backup.staged
            ELSE {p \in Moved : Exists(disk.backup.part[p])}]
  PROVE  IInv'
  <1> USE DEF Exists, IInv, At
  <1>1. TypeOK'
    <2>1. disk.backup.staged \in {NoFile} \cup Names /\ Moved \in Names
      BY DEF TypeOK, Disk, Backup, Names, Parts
    <2>2. tx'.names \in Names
      BY <2>1 DEF TypeOK, Tx, Names
    <2>3. tx' \in Tx
      BY ZenonT(60), <2>1, <2>2 DEF TypeOK, Tx, Ats, Names
    <2> QED
      BY <2>3 DEF TypeOK
  <1> USE DEF TypeOK, Disk, Tx, Req, Env, Backup, Part, Row, Names, Source, Control,
          AtsOf, SettleAts, WriteAts, StageAts, UndoAts
  <1>2. CrashSafe'
    BY DEF CrashSafe, Intact, RecoveredParts, RecoveredSource, Committed, RowMoved,
       Restorable
  <1>3. Control'
    OBVIOUS
  <1>4. Order'
    BY DEF Order, BeforeCommit, Target
  <1>5. BackupShape'
    BY DEF BackupShape, NoBack, NoBackup, NoParts
  <1>6. Clean'
    BY DEF Clean, NoLeft, NoBack, NoBackup, NoParts
  <1>7. Stashed'
    BY DEF Stashed
  <1>8. Staging'
    BY DEF Staging, PutOut
  <1>9. Written'
    BY DEF Written, Raw
  <1>10. RollingBack'
    BY DEF RollingBack, PutOut, NoBack, NoBackup, NoParts, Committed, RowMoved, Restorable,
       Moved
  <1>11. RollingForward'
    BY DEF RollingForward, NoLeft, RowMoved, NoBack, NoBackup, NoParts
  <1>12. Threads'
    BY ThreadsKept
  <1> QED
    BY ZenonT(60), <1>1, <1>2, <1>3, <1>4, <1>5, <1>6, <1>7, <1>8, <1>9, <1>10, <1>11, <1>12 DEF IInv

LEMMA ReadRecordStep ==
  ASSUME Scope, IInv, ReadRecord
  PROVE  IInv'
  <1>1. /\ UNCHANGED <<disk, db, req, thr, env>> /\ At("record")
        /\ \E f \in BOOLEAN :
             tx' = [tx EXCEPT !.at = "put", !.finished = f, !.names =
                      IF disk.backup.staged # NoFile THEN disk.backup.staged
                      ELSE {p \in Moved : Exists(disk.backup.part[p])}]
    BY ZenonT(60), NoOtherFault DEF ReadRecord, Outside, NoFault, Goto, Fault
  <1> QED
    BY ZenonT(60), <1>1, ReadRecordInv

(* PutBack: each name is removed where it stands and moved back; between      *)
(* the two a start finds it in the backup.                                    *)
LEMMA PutEndInv ==
  ASSUME Scope, IInv, At("put"),
         UNCHANGED <<disk, db, req, thr, env>>,
         tx.names = {},
         tx' = [tx EXCEPT !.at = "text"]
  PROVE  IInv'
  <1> USE DEF Exists, IInv, At
  <1>1. TypeOK'
    BY NoBackupType DEF TypeOK, Disk, Tx, Ats
  <1> USE DEF TypeOK, Disk, Tx, Req, Env, Backup, Part, Row, Names, Source, Control,
          AtsOf, SettleAts, WriteAts, StageAts, UndoAts
  <1>2. CrashSafe'
    BY DEF CrashSafe, Intact, RecoveredParts, RecoveredSource, Committed, RowMoved,
       Restorable
  <1>3. Control'
    OBVIOUS
  <1>4. (Order /\ BackupShape /\ Clean /\ Stashed /\ Staging /\ Written /\ RollingBack /\
      RollingForward)'
    BY DEF Order, BeforeCommit, Target, BackupShape, NoBack, NoBackup, NoParts, Clean,
       NoLeft, Stashed, Staging, PutOut, Written, Raw, RollingBack, Committed, RowMoved,
       Restorable, RollingForward
  <1>5. Threads'
    BY ThreadsKept
  <1> QED
    BY <1>1, <1>2, <1>3, <1>4, <1>5 DEF IInv

LEMMA PutSkipInv ==
  ASSUME Scope, IInv, At("put"),
         UNCHANGED <<disk, db, req, thr, env>>,
         NEW p \in tx.names,
         ~Exists(disk.backup.part[p]),
         tx' = [tx EXCEPT !.names = @ \ {p}]
  PROVE  IInv'
  <1> USE DEF Exists, IInv, At
  <1>1. TypeOK'
    BY NoBackupType DEF TypeOK, Disk, Tx, Ats, Names
  <1> USE DEF TypeOK, Disk, Tx, Req, Env, Backup, Part, Row, Names, Source, Control,
          AtsOf, SettleAts, WriteAts, StageAts, UndoAts
  <1>2. CrashSafe'
    BY DEF CrashSafe, Intact, RecoveredParts, RecoveredSource, Committed, RowMoved,
       Restorable
  <1>3. Control'
    OBVIOUS
  <1>4. (Order /\ BackupShape /\ Clean /\ Stashed /\ Staging /\ Written /\ RollingBack /\
      RollingForward)'
    BY DEF Order, BeforeCommit, Target, BackupShape, NoBack, NoBackup, NoParts, Clean,
       NoLeft, Stashed, Staging, PutOut, Written, Raw, RollingBack, Committed, RowMoved,
       Restorable, RollingForward
  <1>5. Threads'
    BY ThreadsKept
  <1> QED
    BY <1>1, <1>2, <1>3, <1>4, <1>5 DEF IInv

LEMMA PutUnlinkInv ==
  ASSUME Scope, IInv, At("put"),
         UNCHANGED <<db, req, thr, env, tx>>,
         NEW p \in tx.names,
         Exists(disk.backup.part[p]),
         disk' = [disk EXCEPT !.part[p] = Absent]
  PROVE  IInv'
  <1> USE DEF Exists, IInv, At
  <1>1. TypeOK'
    BY NoBackupType DEF TypeOK, Disk, Tx, Ats, Part
  <1> USE DEF TypeOK, Disk, Tx, Req, Env, Backup, Part, Row, Names, Source, Control,
          AtsOf, SettleAts, WriteAts, StageAts, UndoAts
  <1>2. CrashSafe'
    BY DEF CrashSafe, Intact, RecoveredParts, RecoveredSource, Committed, RowMoved,
       Restorable, RollingBack
  <1>3. Control'
    OBVIOUS
  <1>4. (Order /\ BackupShape /\ Clean /\ Stashed /\ Staging /\ Written /\ RollingBack /\
      RollingForward)'
    BY SMTT(60) DEF Order, BeforeCommit, Target, BackupShape, NoBack, NoBackup, NoParts,
       Clean, NoLeft, Stashed, Staging, PutOut, Written, Raw, RollingBack, Committed,
       RowMoved, Restorable, RollingForward
  <1>5. Threads'
    BY ThreadsKept
  <1> QED
    BY SMTT(60), <1>1, <1>2, <1>3, <1>4, <1>5 DEF IInv

LEMMA PutMoveInv ==
  ASSUME Scope, IInv, At("put"),
         UNCHANGED <<db, req, thr, env>>,
         NEW p \in tx.names,
         Exists(disk.backup.part[p]),
         ~Exists(disk.part[p]),
         disk' = [disk EXCEPT !.part[p] = disk.backup.part[p], !.backup.part[p] = Absent],
         tx' = [tx EXCEPT !.names = @ \ {p}]
  PROVE  IInv'
  <1> USE DEF Exists, IInv, At
  <1>1. TypeOK'
    BY ZenonT(60), NoBackupType DEF TypeOK, Disk, Tx, Ats, Part, Backup, Row, Names
  <1>2. RollingBack'
    <2>1. /\ disk'.backup.staged = disk.backup.staged /\ disk'.backup.idx = disk.backup.idx
          /\ disk'.marker = disk.marker /\ tx'.at = "put" /\ tx'.purpose = tx.purpose
          /\ tx'.names = tx.names \ {p}
          /\ \A q \in Parts : disk'.backup.part[q] = IF q = p THEN Absent
                 ELSE disk.backup.part[q]
      BY DEF TypeOK, Disk, Tx, Backup, Part, Names
    <2>2. Restorable \subseteq Parts
      BY DEF TypeOK, Disk, Backup, Restorable, Names, Parts
    <2> QED
      BY <2>1, <2>2 DEF RollingBack, Committed, RowMoved, Restorable, PutOut
  <1> USE DEF TypeOK, Disk, Tx, Req, Env, Backup, Part, Row, Names, Source, Control,
          AtsOf, SettleAts, WriteAts, StageAts, UndoAts
  <1>3. CrashSafe'
    BY DEF CrashSafe, Intact, RecoveredParts, RecoveredSource, Committed, RowMoved,
       Restorable, RollingBack
  <1>4. Control'
    OBVIOUS
  <1>5. (Order /\ BackupShape /\ Clean /\ Stashed /\ Staging /\ Written /\ RollingForward)'
    BY SMTT(60) DEF Order, BeforeCommit, Target, BackupShape, NoBack, NoBackup, NoParts,
       Clean, NoLeft, Stashed, Staging, PutOut, Written, Raw, RollingForward, RowMoved
  <1>6. Threads'
    BY ThreadsKept
  <1> QED
    BY <1>1, <1>2, <1>3, <1>4, <1>5, <1>6 DEF IInv

LEMMA PutBackStep ==
  ASSUME Scope, IInv, PutBack
  PROVE  IInv'
  <1>1. At("put") /\ UNCHANGED <<db, req, thr, env>>
    BY ZenonT(60), NoOtherFault DEF PutBack, Outside, NoFault, Goto, Fault
  <1>2. CASE tx.names = {} /\ Goto("text") /\ UNCHANGED disk
    BY <1>1, <1>2, PutEndInv DEF Goto
  <1>3. ASSUME NEW p \in tx.names, ~Exists(disk.backup.part[p]), UNCHANGED disk,
               tx' = [tx EXCEPT !.names = @ \ {p}]
        PROVE  IInv'
    BY <1>1, <1>3, PutSkipInv
  <1>4. ASSUME NEW p \in tx.names, Exists(disk.backup.part[p]), UNCHANGED tx,
               disk' = [disk EXCEPT !.part[p] = Absent]
        PROVE  IInv'
    BY <1>1, <1>4, PutUnlinkInv
  <1>5. ASSUME NEW p \in tx.names, Exists(disk.backup.part[p]), ~Exists(disk.part[p]),
               disk' = [disk EXCEPT !.part[p] = disk.backup.part[p],
                      !.backup.part[p] = Absent],
               tx' = [tx EXCEPT !.names = @ \ {p}]
        PROVE  IInv'
    BY ZenonT(60), <1>1, <1>5, PutMoveInv
  <1> QED
    BY ZenonT(60), <1>2, <1>3, <1>4, <1>5, NoOtherFault DEF PutBack, Fault

(* PutBackText: the indexed text is no part of the files.                     *)
LEMMA TextInv ==
  ASSUME Scope, IInv, At("text"),
         UNCHANGED <<disk, req, thr, env>>,
         db' = [db EXCEPT !.fts = db'.fts],
         db'.fts \in Row,
         tx' = [tx EXCEPT !.at = "forget"]
  PROVE  IInv'
  <1> USE DEF Exists, IInv, At
  <1>1. TypeOK'
    BY NoBackupType DEF TypeOK, Disk, Tx, Ats
  <1> USE DEF TypeOK, Disk, Tx, Req, Env, Backup, Part, Row, Names, Source, Control,
          AtsOf, SettleAts, WriteAts, StageAts, UndoAts
  <1>2. CrashSafe'
    BY DEF CrashSafe, Intact, RecoveredParts, RecoveredSource, Committed, RowMoved,
       Restorable
  <1>3. Control'
    OBVIOUS
  <1>4. (Order /\ BackupShape /\ Clean /\ Stashed /\ Staging /\ Written /\ RollingBack /\
      RollingForward)'
    BY DEF Order, BeforeCommit, Target, BackupShape, NoBack, NoBackup, NoParts, Clean,
       NoLeft, Stashed, Staging, PutOut, Written, Raw, RollingBack, Committed, RowMoved,
       Restorable, RollingForward
  <1>5. Threads'
    BY ThreadsKept
  <1> QED
    BY <1>1, <1>2, <1>3, <1>4, <1>5 DEF IInv

LEMMA PutBackTextStep ==
  ASSUME Scope, IInv, PutBackText
  PROVE  IInv'
  <1>1. /\ UNCHANGED <<disk, req, thr, env>> /\ At("text")
        /\ tx' = [tx EXCEPT !.at = "forget"]
    BY NoOtherFault DEF PutBackText, TextFault, Outside, NoFault, Goto, Fault
  <1>2. db' = [db EXCEPT !.fts = db'.fts] /\ db'.fts \in Row
    <2>1. db.fts \in Row /\ tx.fts \in Row /\ SnapshotText \in Row
      BY NoBackupType DEF IInv, TypeOK, Disk, Backup, Tx, SnapshotText, Row
    <2>2. \E f \in Row : db' = [db EXCEPT !.fts = f]
      BY <2>1, NoOtherFault DEF PutBackText, TextFault, Fault
    <2> QED
      BY <2>2 DEF IInv, TypeOK
  <1> QED
    BY <1>1, <1>2, TextInv

(* Forget: nothing recorded is left in the backup when its record goes.       *)
LEMMA ForgetInv ==
  ASSUME Scope, IInv, At("forget"),
         UNCHANGED <<db, req, thr, env>>,
         disk' = [disk EXCEPT !.backup.staged = NoFile],
         tx' = [tx EXCEPT !.at = "remove"]
  PROVE  IInv'
  <1> USE DEF Exists, IInv, At
  <1>1. TypeOK'
    BY NoBackupType DEF TypeOK, Disk, Tx, Ats, Backup
  <1> USE DEF TypeOK, Disk, Tx, Req, Env, Backup, Part, Row, Names, Source, Control,
          AtsOf, SettleAts, WriteAts, StageAts, UndoAts
  <1>2. CrashSafe'
    BY DEF CrashSafe, Intact, RecoveredParts, RecoveredSource, Committed, RowMoved,
       Restorable, PutOut, RollingBack, BackupShape
  <1>3. Control'
    OBVIOUS
  <1>4. (Order /\ Stashed /\ Written)'
    BY DEF Order, BeforeCommit, Target, Stashed, Written, Raw
  <1>5. BackupShape'
    BY ZenonT(60), NoStaging DEF BackupShape, NoBack, NoBackup, NoParts
  <1>6. (Clean /\ Staging /\ RollingForward)'
    BY DEF Clean, NoLeft, NoBack, NoBackup, NoParts, Staging, PutOut, RollingForward,
       RowMoved
  <1>7. RollingBack'
    BY DEF RollingBack, PutOut, NoBack, NoBackup, NoParts, Committed, RowMoved, Restorable,
       BackupShape, Moved, Parts
  <1>8. Threads'
    BY ThreadsKept
  <1> QED
    BY SMTT(60), <1>1, <1>2, <1>3, <1>4, <1>5, <1>6, <1>7, <1>8 DEF IInv

LEMMA ForgetStep ==
  ASSUME Scope, IInv, Forget
  PROVE  IInv'
  <1>1. /\ UNCHANGED <<db, req, thr, env>> /\ At("forget")
        /\ disk' = [disk EXCEPT !.backup.staged = NoFile] /\ tx' = [tx EXCEPT !.at = "remove"]
    BY NoOtherFault DEF Forget, Outside, NoFault, Goto, Fault
  <1> QED
    BY <1>1, ForgetInv

(* RemoveBackup: and then the backup itself.                                  *)
LEMMA RemoveInv ==
  ASSUME Scope, IInv, At("remove"),
         UNCHANGED <<db, req, thr, env>>,
         disk' = [disk EXCEPT !.backup = NoBackup],
         tx' = [tx EXCEPT !.at = IF tx.purpose = "undo" THEN "raise"
                         ELSE IF Exists(disk.stash) THEN "unstash_rm" ELSE "swept"]
  PROVE  IInv'
  <1> USE DEF Exists, IInv, At
  <1>1. TypeOK'
    BY NoBackupType DEF TypeOK, Disk, Tx, Ats
  <1> USE DEF TypeOK, Disk, Tx, Req, Env, Backup, Part, Row, Names, Source, Control,
          AtsOf, SettleAts, WriteAts, StageAts, UndoAts
  <1>2. CrashSafe'
    BY DEF CrashSafe, Intact, RecoveredParts, RecoveredSource, Committed, RowMoved,
       Restorable, PutOut, RollingBack, BackupShape, NoBack, NoBackup, NoParts
  <1>3. Control'
    OBVIOUS
  <1>4. (Order /\ BackupShape /\ Stashed /\ Staging /\ Written /\ RollingBack /\
      RollingForward)'
    BY DEF Order, BeforeCommit, Target, BackupShape, NoBack, NoBackup, NoParts, Stashed,
       Staging, PutOut, Written, Raw, RollingBack, Committed, RowMoved, Restorable,
       RollingForward, NoLeft
  <1>5. Clean'
    BY DEF Clean, NoLeft, NoBack, NoBackup, NoParts, RollingBack, Committed
  <1>6. Threads'
    BY ThreadsKept
  <1> QED
    BY <1>1, <1>2, <1>3, <1>4, <1>5, <1>6 DEF IInv

LEMMA RemoveBackupStep ==
  ASSUME Scope, IInv, RemoveBackup
  PROVE  IInv'
  <1>1. /\ UNCHANGED <<db, req, thr, env>> /\ At("remove")
         /\ disk' = [disk EXCEPT !.backup = NoBackup]
        /\ tx' = [tx EXCEPT !.at = IF tx.purpose = "undo" THEN "raise"
                              ELSE IF Exists(disk.stash) THEN "unstash_rm" ELSE "swept"]
    <2>1. tx.purpose \in {"sweep", "undo"}
      BY DEF RemoveBackup, At, IInv, TypeOK, Tx, Control, AtsOf, StageAts, WriteAts
    <2> QED
      BY <2>1, NoOtherFault DEF RemoveBackup, IncludesStash, Settled, Outside, NoFault,
         Goto, Fault
  <1> QED
    BY <1>1, RemoveInv

(* Unstash: the stored source comes back, first removing what stands there.   *)
LEMMA UnstashRmInv ==
  ASSUME Scope, IInv, At("unstash_rm"),
         UNCHANGED <<db, req, thr, env>>,
         disk' = [disk EXCEPT !.source = Absent],
         tx' = [tx EXCEPT !.at = "unstash_mv"]
  PROVE  IInv'
  <1> USE DEF Exists, IInv, At
  <1>1. TypeOK'
    BY NoBackupType DEF TypeOK, Disk, Tx, Ats
  <1> USE DEF TypeOK, Disk, Tx, Req, Env, Backup, Part, Row, Names, Source, Control,
          AtsOf, SettleAts, WriteAts, StageAts, UndoAts
  <1>2. CrashSafe'
    BY DEF CrashSafe, Intact, RecoveredParts, RecoveredSource, Committed, RowMoved,
       Restorable, RollingBack, NoBack, NoBackup, NoParts
  <1>3. Control'
    OBVIOUS
  <1>4. (Order /\ BackupShape /\ Clean /\ Stashed /\ Staging /\ Written /\ RollingBack /\
      RollingForward)'
    BY DEF Order, BeforeCommit, Target, BackupShape, NoBack, NoBackup, NoParts, Clean,
       NoLeft, Stashed, Staging, PutOut, Written, Raw, RollingBack, Committed, RowMoved,
       Restorable, RollingForward
  <1>5. Threads'
    BY ThreadsKept
  <1> QED
    BY <1>1, <1>2, <1>3, <1>4, <1>5 DEF IInv

LEMMA UnstashMvInv ==
  ASSUME Scope, IInv, At("unstash_mv"),
         UNCHANGED <<db, req, thr, env>>,
         disk' = [disk EXCEPT !.stash = Absent, !.source = disk.stash],
         tx' = [tx EXCEPT !.at = "swept"]
  PROVE  IInv'
  <1> USE DEF Exists, IInv, At
  <1>1. TypeOK'
    BY NoBackupType DEF TypeOK, Disk, Tx, Ats
  <1> USE DEF TypeOK, Disk, Tx, Req, Env, Backup, Part, Row, Names, Source, Control,
          AtsOf, SettleAts, WriteAts, StageAts, UndoAts
  <1>2. CrashSafe'
    BY DEF CrashSafe, Intact, RecoveredParts, RecoveredSource, Committed, RowMoved,
       Restorable, RollingBack, NoBack, NoBackup, NoParts
  <1>3. Control'
    OBVIOUS
  <1>4. (Order /\ BackupShape /\ Stashed /\ Staging /\ Written /\ RollingBack /\
      RollingForward)'
    BY DEF Order, BeforeCommit, Target, BackupShape, NoBack, NoBackup, NoParts, Stashed,
       Staging, PutOut, Written, Raw, RollingBack, Committed, RowMoved, Restorable,
       RollingForward, NoLeft
  <1>5. Clean'
    BY DEF Clean, NoLeft, NoBack, NoBackup, NoParts, RollingBack
  <1>6. Threads'
    BY ThreadsKept
  <1> QED
    BY <1>1, <1>2, <1>3, <1>4, <1>5, <1>6 DEF IInv

LEMMA UnstashStep ==
  ASSUME Scope, IInv, Unstash
  PROVE  IInv'
  <1>1. tx.at \in {"unstash_rm", "unstash_mv"} => tx.purpose = "sweep"
    BY DEF IInv, TypeOK, Tx, Control, AtsOf, StageAts, WriteAts, UndoAts
  <1>2. CASE At("unstash_rm")
    <2>1. /\ UNCHANGED <<db, req, thr, env>> /\ tx' = [tx EXCEPT !.at = "unstash_mv"]
          /\ disk' = [disk EXCEPT !.source = Absent]
      BY <1>2, NoOtherFault DEF Unstash, SourceRemoved, At, Outside, NoFault, Goto, Fault
    <2> QED
      BY <1>2, <2>1, UnstashRmInv
  <1>3. CASE At("unstash_mv")
    <2>1. /\ UNCHANGED <<db, req, thr, env>> /\ tx' = [tx EXCEPT !.at = "swept"]
          /\ disk' = StashMoved
      BY <1>1, <1>3, NoOtherFault DEF Unstash, Settled, At, Outside, NoFault, Goto, Fault
    <2>2. ~Exists(disk.source)
      BY <1>3 DEF IInv, RollingBack, At
    <2> QED
      BY <1>3, <2>1, <2>2, UnstashMvInv DEF StashMoved
  <1> QED
    BY <1>2, <1>3 DEF Unstash

-----------------------------------------------------------------------------
(* What is being written is the version of the upload, later than the row, or *)
(* another stage of the version of the row.                                   *)
LEMMA TargetIs ==
  ASSUME IInv, tx.at \in WriteAts
  PROVE  /\ tx.target \in Version /\ Exists(tx.target) /\ tx.purpose = "rewrite"
         /\ tx.holder = "request" =>
              /\ tx.target = Target /\ tx.target.gen = req.gen
              /\ Raw <=> req.channel = "raw"
              /\ Exists(db.row) => db.row.gen < tx.target.gen
         /\ tx.holder = "summary" =>
              /\ ~Raw /\ Exists(db.row) /\ db.row.gen = tx.target.gen
              /\ db.row.stage \in {"parse", "running"} /\ ~Exists(disk.stash)
              /\ tx.target.stage \in Carried(db.row.stage)
         /\ tx.holder \in {"request", "summary"}
         /\ Exists(db.row) => db.row # tx.target
  <1> USE DEF IInv
  <1>1. tx.purpose = "rewrite" /\ tx.holder \in {"request", "summary"}
    BY PurposeAt
  <1>2. ASSUME tx.holder = "request"
        PROVE  /\ tx.target = Target /\ tx.target \in Version /\ tx.target.gen = req.gen
               /\ Raw <=> req.channel = "raw"
               /\ Exists(db.row) => db.row.gen < tx.target.gen
    <2>1. tx.target = Target /\ (Exists(db.row) => db.row.gen < req.gen)
      BY <1>1, <1>2 DEF Order, BeforeCommit
    <2>2. req.channel \in {"sync", "defer", "raw"} /\ req.gen \in Gens
      BY <1>2, PurposeAt, ConstantsAssumption DEF Order, TypeOK, Req
    <2> QED
      BY <2>1, <2>2 DEF Target, Version, Stages, Raw
  <1>3. ASSUME tx.holder = "summary"
        PROVE  /\ tx.target \in Version /\ ~Raw /\ Exists(db.row)
               /\ db.row.gen = tx.target.gen /\ ~Exists(disk.stash)
               /\ db.row.stage \in {"parse", "running"}
               /\ tx.target.stage \in Carried(db.row.stage)
    <2> DEFINE g == tx.target.gen
    <2>1. /\ tx.target \in Version /\ thr[g] \in Writing /\ tx.target.stage = Stage[thr[g]]
          /\ db.row.gen = g /\ ~Exists(disk.stash) /\ g \in Gens
      BY <1>3 DEF Threads, Version
    <2>2. thr[g] \in {"placeholder", "giveup", "result", "failure"}
      BY <2>1 DEF Writing, Stage
    <2>3. Exists(db.row) /\ db.row.stage \in Left[thr[g]]
      BY <1>1, <2>1, <2>2 DEF Threads, Active
    <2> QED
      BY <2>1, <2>2, <2>3 DEF Left, Stage, Raw, Carried
  <1>4. Exists(tx.target)
    BY <1>1, <1>2, <1>3, ConstantsAssumption DEF Exists
  <1>5. Exists(db.row) => db.row # tx.target
    BY <1>1, <1>2, <1>3 DEF TypeOK, Row, Version, Gens, Carried, Exists
  <1> QED
    BY <1>1, <1>2, <1>3, <1>4, <1>5

(* While the writer writes, a start would restore every staged file and the   *)
(* stashed source, or leave the source that a summary does not touch:         *)
(* whatever else happens to the files in place, the document of the row is    *)
(* recovered.                                                                 *)
LEMMA WritingIsSafe ==
  ASSUME IInv, tx.at \in WriteAts,
         disk'.backup = disk.backup, disk'.marker = disk.marker, disk'.stash = disk.stash,
         Raw \/ disk'.source = disk.source, db'.row = db.row
  PROVE  CrashSafe'
  <1> USE DEF IInv, Exists
  <1>1. /\ tx.purpose = "rewrite" /\ ~disk.marker /\ disk.backup.idx = db.row
        /\ disk.backup.staged = tx.names
        /\ Exists(db.row) => Exists(disk.stash) \/ tx.holder = "summary"
    BY PurposeAt DEF Staging, WriteAts, Stashed
  <1>2. tx.names # NoFile /\ \A p \in Parts : Exists(disk.backup.part[p]) => p \in tx.names
    BY <1>1, ConstantsAssumption DEF TypeOK, Tx, Names, Staging, PutOut
  <1>3. ~Committed /\ ~Committed' /\ Restorable' = tx.names
    BY <1>1, <1>2 DEF Committed, RowMoved, Restorable
  <1>4. RecoveredSource' = RecoveredSource \/ ~Exists(db.row)
    <2>1. CASE tx.holder = "summary"
      BY <2>1, TargetIs DEF RecoveredSource
    <2>2. CASE tx.holder # "summary"
      BY <2>2, <1>1, <1>3 DEF RecoveredSource
    <2> QED
      BY <2>1, <2>2
  <1>5. \A p \in Parts : PartOf(db.row, p) \in {Absent, RecoveredParts'[p]}
    BY <1>1, <1>2, <1>3 DEF Staging, RecoveredParts
  <1> QED
    BY <1>4, <1>5 DEF CrashSafe, Intact, Control, SourceOf

(* A failure of the search table changes the bookkeeping of the failures      *)
(* only.                                                                      *)
LEMMA TextFaultType ==
  ASSUME TypeOK, NEW step, TextFault(step) \/ NoFault
  PROVE  /\ env' = [env EXCEPT !.faults = env'.faults, !.textFault = env'.textFault]
         /\ env'.faults \in Nat /\ env'.textFault \in BOOLEAN
  <1>1. env \in Env
    BY DEF TypeOK
  <1>2. CASE NoFault
    BY <1>1, <1>2 DEF NoFault, Env
  <1>3. CASE TextFault(step)
    BY <1>1, <1>3 DEF TextFault, Env
  <1> QED
    BY <1>2, <1>3

-----------------------------------------------------------------------------
(* StashSource: the stored source leaves its place in one move.               *)
LEMMA StashTakenInv ==
  ASSUME Scope, IInv, At("stash"),
         UNCHANGED <<db, req, thr, env>>,
         disk' = IF Exists(disk.source)
                   THEN [disk EXCEPT !.stash = disk.source, !.source = Absent] ELSE disk,
         tx' = IF req.channel = "raw" THEN [tx EXCEPT !.at = "settle", !.purpose = "rewrite"]
                ELSE [tx EXCEPT !.at = "finish"]
  PROVE  IInv'
  <1> USE DEF Exists, IInv, At
  <1>1. TypeOK'
    BY ZenonT(60), NoBackupType DEF TypeOK, Disk, Tx, Ats
  <1>2. Order'
    <2>1. tx.purpose = "stash" /\ req.at = "locked"
      BY PurposeAt
    <2>2. /\ tx'.purpose \in {"stash", "rewrite"} /\ tx'.target = tx.target
          /\ tx'.purpose = "rewrite" => req.channel = "raw"
      BY <2>1 DEF TypeOK, Tx
    <2>3. Exists(disk'.stash) => Exists(disk.source) \/ Exists(disk.stash)
      BY DEF TypeOK, Disk
    <2>4. BeforeCommit /\ req.replacing
      BY <2>1, PurposeAt DEF BeforeCommit, Order
    <2> QED
      BY <2>1, <2>2, <2>3, <2>4 DEF Order, BeforeCommit, Target
  <1>3. Stashed'
    <2>1. tx.purpose = "stash" /\ req.at = "locked"
      BY PurposeAt
    <2>2. tx'.purpose = "rewrite" => req.channel = "raw"
      BY <2>1 DEF TypeOK, Tx
    <2>3. NoLeft
      BY <2>1 DEF Clean
    <2>4. Exists(db.row) => Exists(disk.source)
      BY <2>3, ConstantsAssumption DEF CrashSafe, Intact, RecoveredSource, SourceOf, NoLeft,
         Control, TypeOK, Row, Version
    <2>5. Exists(db.row) => Exists(disk'.stash)
      BY <2>4 DEF TypeOK, Disk
    <2> QED
      BY <2>1, <2>2, <2>5 DEF Stashed
  <1> USE DEF TypeOK, Disk, Tx, Req, Env, Backup, Part, Row, Names, Source, Control,
          AtsOf, SettleAts, WriteAts, StageAts, UndoAts
  <1>4. CrashSafe'
    BY DEF CrashSafe, Intact, RecoveredParts, RecoveredSource, Committed, RowMoved,
       Restorable, Clean, NoLeft, NoBack, NoBackup, NoParts
  <1>5. Control'
    OBVIOUS
  <1>6. (BackupShape /\ Written /\ RollingBack /\ RollingForward)'
    BY DEF BackupShape, NoBack, NoBackup, NoParts, Written, Raw, RollingBack, PutOut,
       Committed, RowMoved, Restorable, RollingForward, NoLeft
  <1>7. Clean'
    BY DEF Clean, NoLeft, NoBack, NoBackup, NoParts, Order
  <1>8. Staging'
    BY DEF Staging, PutOut, Clean, NoLeft
  <1>9. Threads'
    BY ThreadsHandedOn DEF Unthreaded, Closing
  <1> QED
    BY <1>1, <1>2, <1>3, <1>4, <1>5, <1>6, <1>7, <1>8, <1>9 DEF IInv

LEMMA StashFailedInv ==
  ASSUME Scope, IInv, At("stash"),
         UNCHANGED <<disk, db, req, thr>>,
         env' = [env EXCEPT !.faults = @ + 1],
         tx' = [tx EXCEPT !.at = "raise"]
  PROVE  IInv'
  <1> USE DEF Exists, IInv, At
  <1>1. TypeOK'
    BY NoBackupType DEF TypeOK, Disk, Tx, Ats, Env
  <1> USE DEF TypeOK, Disk, Tx, Req, Env, Backup, Part, Row, Names, Source, Control,
          AtsOf, SettleAts, WriteAts, StageAts, UndoAts
  <1>2. CrashSafe'
    BY DEF CrashSafe, Intact, RecoveredParts, RecoveredSource, Committed, RowMoved,
       Restorable
  <1>3. Control'
    OBVIOUS
  <1>4. (Order /\ BackupShape /\ Clean /\ Stashed /\ Staging /\ Written /\ RollingBack /\
      RollingForward)'
    BY DEF Order, BeforeCommit, Target, BackupShape, NoBack, NoBackup, NoParts, Clean,
       NoLeft, Stashed, Staging, PutOut, Written, Raw, RollingBack, Committed, RowMoved,
       Restorable, RollingForward
  <1>5. Threads'
    BY ThreadsKept
  <1> QED
    BY <1>1, <1>2, <1>3, <1>4, <1>5 DEF IInv

LEMMA StashSourceStep ==
  ASSUME Scope, IInv, StashSource
  PROVE  IInv'
  <1>1. CASE Fault("stash") /\ Goto("raise") /\ UNCHANGED <<disk, db, req, thr>>
    BY <1>1, StashFailedInv DEF StashSource, Fault, Goto
  <1>2. CASE ~Faulty("stash") \/ ~(Goto("raise") /\ UNCHANGED disk)
    BY <1>2, StashTakenInv DEF StashSource, Outside, NoFault, Goto, Fault
  <1> QED
    BY <1>1, <1>2, StashTakenInv DEF StashSource, Outside, NoFault, Goto, Fault

(* Snapshot: the row is read before anything is staged.                       *)
LEMMA SnapshotInv ==
  ASSUME Scope, IInv, At("clear"),
         UNCHANGED <<db, req, thr>>,
         disk' = [disk EXCEPT !.backup = NoBackup],
         env' = [env EXCEPT !.faults = env'.faults, !.textFault = env'.textFault],
         env'.faults \in Nat,
         env'.textFault \in BOOLEAN,
         NEW t \in Row,
         tx' = [tx EXCEPT !.at = "stage_text", !.fts = t, !.idx = db.row]
  PROVE  IInv'
  <1> USE DEF Exists, IInv, At
  <1>1. TypeOK'
    BY NoBackupType DEF TypeOK, Disk, Tx, Ats, Env
  <1>2. Control'
    <2>1. tx.purpose = "rewrite" /\ env'.up = env.up /\ env'.blind = env.blind
      BY PurposeAt DEF TypeOK, Env
    <2>2. tx'.purpose = tx.purpose /\ tx'.holder = tx.holder /\ tx'.at = "stage_text"
      BY DEF TypeOK, Tx
    <2> QED
      BY <2>1, <2>2 DEF Control, AtsOf, StageAts
  <1>3. Staging'
    <2>1. tx.purpose = "rewrite"
      BY PurposeAt
    <2>2. tx'.purpose = tx.purpose /\ tx'.names = tx.names
          /\ tx'.at = "stage_text" /\ tx'.idx = db.row
      BY DEF TypeOK, Tx
    <2>3. disk'.backup.part = NoParts /\ disk'.backup.staged = NoFile /\ ~disk'.marker
      BY <2>1, NoBackupFields DEF Staging, TypeOK, Disk
    <2>4. tx.names = {}
      BY <2>1 DEF Staging
    <2> QED
      BY <2>1, <2>2, <2>3, <2>4 DEF Staging, StageAts, WriteAts
  <1> USE DEF TypeOK, Disk, Tx, Req, Env, Backup, Part, Row, Names, Source, Control,
          AtsOf, SettleAts, WriteAts, StageAts, UndoAts
  <1>4. CrashSafe'
    BY SMTT(60) DEF CrashSafe, Intact, RecoveredParts, RecoveredSource, Committed, RowMoved,
       Restorable, Clean, NoBack, NoBackup, NoParts
  <1>5. Order'
    BY DEF Order, BeforeCommit, Target
  <1>6. BackupShape'
    BY DEF BackupShape, NoBack, NoBackup, NoParts
  <1>7. Clean'
    BY DEF Clean, NoLeft, NoBack, NoBackup, NoParts
  <1>8. Stashed'
    BY DEF Stashed
  <1>9. Written'
    BY DEF Written, Raw
  <1>10. RollingBack'
    BY DEF RollingBack, PutOut, NoBack, NoBackup, NoParts, Committed, RowMoved, Restorable
  <1>11. RollingForward'
    BY DEF RollingForward, NoLeft, RowMoved, NoBack, NoBackup, NoParts
  <1>12. Threads'
    BY ThreadsKept
  <1> QED
    BY <1>1, <1>2, <1>3, <1>4, <1>5, <1>6, <1>7, <1>8, <1>9, <1>10, <1>11, <1>12 DEF IInv

LEMMA SnapshotStep ==
  ASSUME Scope, IInv, Snapshot
  PROVE  IInv'
  <1>1. /\ UNCHANGED <<db, req, thr>> /\ At("clear")
         /\ disk' = [disk EXCEPT !.backup = NoBackup]
    BY NoOtherFault DEF Snapshot, Fault, BlindFault, Outside
  <1>2. \E step \in {"read_text"} : TextFault(step) \/ NoFault
    BY NoOtherFault DEF Snapshot, Fault, BlindFault
  <1>3. \E t \in Row : tx' = [tx EXCEPT !.at = "stage_text", !.fts = t, !.idx = db.row]
    BY ZenonT(60), NoOtherFault, NoBackupType DEF Snapshot, BlindFault, IInv, TypeOK
  <1> QED
    BY ZenonT(60), <1>1, <1>2, <1>3, SnapshotInv, TextFaultType DEF IInv

(* Undone: a rewrite that raises is rolled back from where it is.             *)
LEMMA UndoneInv ==
  ASSUME Scope, IInv, tx.at \in {"stage_text", "stage_row", "stage_move"} \cup WriteAts,
         env.up # "down", tx.holder # "summary",
         UNCHANGED <<disk, db, req, thr>>,
         env' = [env EXCEPT !.faults = @ + 1],
         tx' = [tx EXCEPT !.at = "put", !.purpose = "undo"]
  PROVE  IInv'
  <1> USE DEF Exists, IInv, At
  <1>1. TypeOK'
    <2>1. tx' \in Tx
      BY DEF TypeOK, Tx, Ats
    <2>2. env' \in Env
      BY DEF TypeOK, Env
    <2> QED
      BY <2>1, <2>2 DEF TypeOK
  <1>2. RollingBack'
    <2>1. tx'.at = "put" /\ tx'.names = tx.names
      BY DEF TypeOK, Tx
    <2>2. tx.purpose = "rewrite" /\ ~disk.marker
      BY PurposeAt DEF StageAts, Staging
    <2>3. disk.backup.idx \in {NoFile, db.row}
      <3>1. CASE tx.at = "stage_text"
        BY <3>1, <2>2, NoBackupFields DEF Clean, NoBack
      <3>2. CASE tx.at # "stage_text"
        BY <3>2 DEF Staging, WriteAts
      <3> QED
        BY <3>1, <3>2
    <2>4. tx.names \subseteq Restorable /\ \A p \in Restorable \ tx.names : PutOut(p)
      <3>1. CASE tx.at \in {"stage_text", "stage_row"}
        BY <3>1, <2>2 DEF Staging, StageAts, PutOut, NoParts, Restorable, Moved, Parts
      <3>2. CASE tx.at = "stage_move"
        BY <3>2 DEF Staging, StageAts, Restorable, Moved, Copied, Parts, TypeOK, Tx, Names
      <3>3. CASE tx.at \in WriteAts
        <4>1. disk.backup.staged = tx.names
          BY <3>3 DEF Staging
        <4>2. tx.names # NoFile
          BY ConstantsAssumption DEF TypeOK, Tx, Names
        <4> QED
          BY <4>1, <4>2 DEF Restorable
      <3> QED
        BY <3>1, <3>2, <3>3
    <2>5. ~Committed
      BY <2>2, <2>3 DEF Committed, RowMoved
    <2> QED
      BY <2>1, <2>3, <2>4, <2>5 DEF RollingBack, Committed, RowMoved, Restorable, PutOut
  <1> USE DEF TypeOK, Disk, Tx, Req, Env, Backup, Part, Row, Names, Source, Control,
          AtsOf, SettleAts, WriteAts, StageAts, UndoAts
  <1>3. CrashSafe'
    BY DEF CrashSafe, Intact, RecoveredParts, RecoveredSource, Committed, RowMoved,
       Restorable
  <1>4. Control'
    OBVIOUS
  <1>5. Order'
    BY DEF Order, BeforeCommit, Target
  <1>6. (BackupShape /\ Stashed /\ Staging /\ Written /\ RollingForward)'
    BY DEF BackupShape, NoBack, NoBackup, NoParts, Stashed, Staging, PutOut, Written, Raw,
       RollingForward, NoLeft, RowMoved
  <1>7. Clean'
    BY DEF Clean, NoLeft, NoBack, NoBackup, NoParts, Staging
  <1>8. Threads'
    BY ThreadsHandedOn, PurposeAt DEF Unthreaded, Closing
  <1> QED
    BY <1>1, <1>2, <1>3, <1>4, <1>5, <1>6, <1>7, <1>8 DEF IInv

LEMMA UndoneStep ==
  ASSUME Scope, IInv, tx.at \in {"stage_text", "stage_row", "stage_move"} \cup WriteAts,
         env.up # "down",
         NEW step \in RewriteSteps, Undone(step), Outside
  PROVE  IInv'
  BY UndoneInv, OnlyRequestsUndo DEF Undone, Undo, Fault, Outside

(* StageText and StageRow: the snapshots.                                     *)
LEMMA StageTextInv ==
  ASSUME Scope, IInv, At("stage_text"),
         UNCHANGED <<db, req, thr, env>>,
         disk' = [disk EXCEPT !.backup.here = TRUE, !.backup.fts = IF Exists(tx.fts)
                THEN tx.fts ELSE @],
         tx' = [tx EXCEPT !.at = "stage_row"]
  PROVE  IInv'
  <1> USE DEF Exists, IInv, At
  <1>1. TypeOK'
    BY ZenonT(60), NoBackupType DEF TypeOK, Disk, Tx, Ats, Backup, Row
  <1>2. Staging'
    <2>1. disk.backup = NoBackup
      BY PurposeAt DEF Clean, NoBack, StageAts
    <2>2. /\ disk'.backup.part = NoParts /\ disk'.backup.staged = NoFile
          /\ disk'.backup.idx = NoFile /\ disk'.marker = disk.marker /\ disk'.backup.here
      BY <2>1, NoBackupFields DEF TypeOK, Disk, Backup
    <2>3. /\ tx'.at = "stage_row" /\ tx'.purpose = tx.purpose /\ tx'.names = tx.names
          /\ tx'.idx = tx.idx
      BY DEF TypeOK, Tx
    <2> QED
      BY <2>2, <2>3 DEF Staging, StageAts, WriteAts
  <1> USE DEF TypeOK, Disk, Tx, Req, Env, Backup, Part, Row, Names, Source, Control,
          AtsOf, SettleAts, WriteAts, StageAts, UndoAts
  <1>3. CrashSafe'
    BY ZenonT(60) DEF CrashSafe, Intact, RecoveredParts, RecoveredSource, Committed,
       RowMoved, Restorable, Clean, NoBack, NoBackup, NoParts
  <1>4. Control'
    OBVIOUS
  <1>5. Order'
    BY DEF Order, BeforeCommit, Target
  <1>6. BackupShape'
    BY DEF BackupShape, NoBack, NoBackup, NoParts
  <1>7. Clean'
    BY DEF Clean, NoLeft, NoBack, NoBackup, NoParts
  <1>8. Stashed'
    BY DEF Stashed
  <1>9. Written'
    BY DEF Written, Raw
  <1>10. RollingBack'
    BY DEF RollingBack, PutOut, NoBack, NoBackup, NoParts, Committed, RowMoved, Restorable
  <1>11. RollingForward'
    BY DEF RollingForward, NoLeft, RowMoved, NoBack, NoBackup, NoParts
  <1>12. Threads'
    BY ThreadsKept
  <1> QED
    BY <1>1, <1>2, <1>3, <1>4, <1>5, <1>6, <1>7, <1>8, <1>9, <1>10, <1>11, <1>12 DEF IInv

LEMMA StageTextStep ==
  ASSUME Scope, IInv, StageText
  PROVE  IInv'
  <1>1. CASE Undone("stage_text") /\ Outside
    BY <1>1, UndoneStep DEF StageText, RewriteSteps, At
  <1>2. CASE ~Undone("stage_text")
    BY <1>2, StageTextInv DEF StageText, Outside, NoFault, Goto, Fault
  <1> QED
    BY <1>1, <1>2 DEF StageText

LEMMA StageRowInv ==
  ASSUME Scope, IInv, At("stage_row"),
         UNCHANGED <<db, req, thr, env>>,
         disk' = [disk EXCEPT !.backup.idx = tx.idx],
         tx' = [tx EXCEPT !.at = "stage_move"]
  PROVE  IInv'
  <1> USE DEF Exists, IInv, At
  <1>1. TypeOK'
    BY NoBackupType DEF TypeOK, Disk, Tx, Ats, Backup, Row
  <1>2. BackupShape'
    <2>1. disk'.backup.here /\ disk'.backup.staged = NoFile
      BY DEF Staging, StageAts, TypeOK, Disk, Backup
    <2> QED
      BY <2>1 DEF BackupShape
  <1>3. Staging'
    <2>1. /\ disk'.backup.part = NoParts /\ disk'.backup.staged = NoFile
          /\ disk'.backup.idx = db.row /\ disk'.marker = disk.marker
          /\ disk'.backup.here
      BY DEF TypeOK, Disk, Backup, Staging, StageAts
    <2>2. /\ tx'.at = "stage_move" /\ tx'.purpose = tx.purpose /\ tx'.names = {}
          /\ tx'.idx = tx.idx
      BY PurposeAt DEF StageAts, TypeOK, Tx, Staging
    <2>3. \A p \in Parts : NoParts[p] = Absent
      BY DEF NoParts
    <2>4. tx.purpose = "rewrite" => ~disk.marker
      BY DEF Staging
    <2>5. tx.idx = db.row
      BY DEF Staging, StageAts
    <2> QED
      BY <2>1, <2>2, <2>3, <2>4, <2>5 DEF Staging, StageAts, WriteAts, PutOut
  <1> USE DEF TypeOK, Disk, Tx, Req, Env, Backup, Part, Row, Names, Source, Control,
          AtsOf, SettleAts, WriteAts, StageAts, UndoAts
  <1>4. CrashSafe'
    BY DEF CrashSafe, Intact, RecoveredParts, RecoveredSource, Committed, RowMoved,
       Restorable, Staging, NoBack, NoBackup, NoParts
  <1>5. Control'
    OBVIOUS
  <1>6. (Order /\ Clean /\ Stashed /\ Written /\ RollingBack /\ RollingForward)'
    BY SMTT(60) DEF Order, BeforeCommit, Target, Clean, NoLeft, NoBack, NoBackup, NoParts,
       Stashed, Written, Raw, RollingBack, PutOut, Committed, RowMoved, Restorable,
       RollingForward
  <1>7. Threads'
    BY ThreadsKept
  <1> QED
    BY SMTT(60), <1>1, <1>2, <1>3, <1>4, <1>5, <1>6, <1>7 DEF IInv

LEMMA StageRowStep ==
  ASSUME Scope, IInv, StageRow
  PROVE  IInv'
  <1>1. CASE Undone("stage_row") /\ Outside
    BY <1>1, UndoneStep DEF StageRow, RewriteSteps, At
  <1>2. CASE ~Undone("stage_row")
    BY <1>2, StageRowInv DEF StageRow, Outside, NoFault, Goto, Fault
  <1> QED
    BY <1>1, <1>2 DEF StageRow

(* StageMove: a name moved out is found in the backup, recorded or not.       *)
LEMMA StageMovedInv ==
  ASSUME Scope, IInv, At("stage_move"),
         UNCHANGED <<db, req, thr, env>>,
         NEW p \in Moved,
         Exists(disk.part[p]),
         disk' = [disk EXCEPT !.part[p] = Absent, !.backup.part[p] = disk.part[p]],
         tx' = [tx EXCEPT !.names = @ \cup {p}]
  PROVE  IInv'
  <1> USE DEF Exists, IInv, At
  <1>1. TypeOK'
    BY ZenonT(60), NoBackupType DEF TypeOK, Disk, Tx, Ats, Backup, Row, Part, Parts, Names
  <1>2. CrashSafe'
    <2>1. ~RowMoved /\ ~disk.marker /\ disk.backup.staged = NoFile
      BY PurposeAt DEF RowMoved, Staging, StageAts
    <2>2. /\ disk'.backup.staged = NoFile /\ ~disk'.marker
          /\ disk'.source = disk.source /\ disk'.stash = disk.stash
          /\ disk'.backup.idx = disk.backup.idx
          /\ disk'.part = [disk.part EXCEPT ![p] = Absent]
          /\ disk'.backup.part = [disk.backup.part EXCEPT ![p] = disk.part[p]]
      BY <2>1 DEF TypeOK, Disk, Backup
    <2>3. ~Committed /\ ~Committed' /\ RecoveredSource' = RecoveredSource
      BY <2>1, <2>2 DEF Committed, RowMoved, RecoveredSource
    <2>4. p \in Parts /\ Restorable = Moved /\ Restorable' = Moved
      BY <2>1, <2>2 DEF Restorable, Parts
    <2>5. PutOut(p)
      <3>1. p \notin tx.names
        BY DEF Staging
      <3> QED
        BY <3>1, <2>4 DEF Staging
    <2>6. \A q \in Parts : Exists(RecoveredParts[q]) => RecoveredParts'[q] = RecoveredParts[q]
      <3> SUFFICES ASSUME NEW q \in Parts, Exists(RecoveredParts[q])
                   PROVE  RecoveredParts'[q] = RecoveredParts[q]
        OBVIOUS
      <3>1. CASE q = p
        BY <2>2, <2>3, <2>4, <2>5, <3>1 DEF RecoveredParts, PutOut, TypeOK, Disk, Backup,
           Part
      <3>2. CASE q # p
        BY <2>2, <2>3, <2>4, <3>2 DEF RecoveredParts, TypeOK, Disk, Backup, Part
      <3> QED
        BY <3>1, <3>2
    <2> QED
      BY <2>3, <2>6 DEF CrashSafe, Intact, Control
  <1> USE DEF TypeOK, Disk, Tx, Req, Env, Backup, Part, Row, Names, Source, Control,
          AtsOf, SettleAts, WriteAts, StageAts, UndoAts
  <1>3. Control'
    OBVIOUS
  <1>4. Order'
    BY DEF Order, BeforeCommit, Target
  <1>5. BackupShape'
    BY DEF BackupShape, NoBack, NoBackup, NoParts, Staging
  <1>6. Clean'
    BY DEF Clean, NoLeft, NoBack, NoBackup, NoParts
  <1>7. Stashed'
    BY DEF Stashed
  <1>8. Staging'
    BY DEF Staging, PutOut, Moved, Copied, Parts
  <1>9. Written'
    BY DEF Written, Raw
  <1>10. RollingBack'
    BY DEF RollingBack, PutOut, NoBack, NoBackup, NoParts, Committed, RowMoved, Restorable,
       Staging
  <1>11. RollingForward'
    BY DEF RollingForward, NoLeft, RowMoved, NoBack, NoBackup, NoParts
  <1>12. Threads'
    BY ThreadsKept
  <1> QED
    BY <1>1, <1>2, <1>3, <1>4, <1>5, <1>6, <1>7, <1>8, <1>9, <1>10, <1>11, <1>12 DEF IInv

LEMMA StageMoveEndInv ==
  ASSUME Scope, IInv, At("stage_move"),
         UNCHANGED <<disk, db, req, thr, env>>,
         \A p \in Moved : ~Exists(disk.part[p]),
         tx' = [tx EXCEPT !.at = "stage_copy"]
  PROVE  IInv'
  <1> USE DEF Exists, IInv, At
  <1>1. TypeOK'
    BY NoBackupType DEF TypeOK, Disk, Tx, Ats
  <1> USE DEF TypeOK, Disk, Tx, Req, Env, Backup, Part, Row, Names, Source, Control,
          AtsOf, SettleAts, WriteAts, StageAts, UndoAts
  <1>2. CrashSafe'
    BY DEF CrashSafe, Intact, RecoveredParts, RecoveredSource, Committed, RowMoved,
       Restorable
  <1>3. Control'
    OBVIOUS
  <1>4. (Order /\ BackupShape /\ Clean /\ Stashed /\ Staging /\ Written /\ RollingBack /\
      RollingForward)'
    BY DEF Order, BeforeCommit, Target, BackupShape, NoBack, NoBackup, NoParts, Clean,
       NoLeft, Stashed, Staging, PutOut, Written, Raw, RollingBack, Committed, RowMoved,
       Restorable, RollingForward
  <1>5. Threads'
    BY ThreadsKept
  <1> QED
    BY <1>1, <1>2, <1>3, <1>4, <1>5 DEF IInv

LEMMA StageMoveStep ==
  ASSUME Scope, IInv, StageMove
  PROVE  IInv'
  <1>1. CASE Undone("stage_move") /\ Outside
    BY ZenonT(60), <1>1, UndoneStep DEF StageMove, RewriteSteps, At
  <1>2. CASE ~Undone("stage_move")
    BY ZenonT(60), <1>2, StageMovedInv, StageMoveEndInv DEF StageMove, Outside, NoFault,
       Goto, Fault
  <1> QED
    BY ZenonT(60), <1>1, <1>2 DEF StageMove

(* StageCopy: what is copied stays in place.                                  *)
LEMMA StageCopiedInv ==
  ASSUME Scope, IInv, At("stage_copy"),
         UNCHANGED <<db, req, thr, env>>,
         NEW p \in Copied,
         Exists(disk.part[p]),
         p \notin tx.names,
         disk' = [disk EXCEPT !.backup.part[p] = disk.part[p]],
         tx' = [tx EXCEPT !.names = @ \cup {p}]
  PROVE  IInv'
  <1> USE DEF Exists, IInv, At
  <1>1. TypeOK'
    BY SMTT(60), NoBackupType DEF TypeOK, Disk, Tx, Ats, Backup, Row, Part, Parts, Names
  <1> USE DEF TypeOK, Disk, Tx, Req, Env, Backup, Part, Row, Names, Source, Control,
          AtsOf, SettleAts, WriteAts, StageAts, UndoAts
  <1>2. CrashSafe'
    BY DEF CrashSafe, Intact, RecoveredParts, RecoveredSource, Committed, RowMoved,
       Restorable, Staging, Moved, Copied, Parts, PutOut
  <1>3. Control'
    OBVIOUS
  <1>4. (Order /\ Clean /\ Stashed /\ Written /\ RollingForward)'
    BY DEF Order, BeforeCommit, Target, Clean, NoLeft, NoBack, NoBackup, NoParts, Stashed,
       Written, Raw, RollingForward, RowMoved
  <1>5. BackupShape'
    BY DEF BackupShape, NoBack, NoBackup, NoParts, Staging
  <1>6. Staging'
    BY DEF Staging, PutOut, Moved, Copied, Parts
  <1>7. RollingBack'
    BY DEF RollingBack, PutOut, NoBack, NoBackup, NoParts, Committed, RowMoved, Restorable,
       Staging
  <1>8. Threads'
    BY ThreadsKept
  <1> QED
    BY ZenonT(60), <1>1, <1>2, <1>3, <1>4, <1>5, <1>6, <1>7, <1>8 DEF IInv

LEMMA StageCopyEndInv ==
  ASSUME Scope, IInv, At("stage_copy"),
         UNCHANGED <<disk, db, req, thr, env>>,
         \A p \in Copied : Exists(disk.part[p]) => p \in tx.names,
         tx' = [tx EXCEPT !.at = "stage_record"]
  PROVE  IInv'
  <1> USE DEF Exists, IInv, At
  <1>1. TypeOK'
    BY NoBackupType DEF TypeOK, Disk, Tx, Ats
  <1> USE DEF TypeOK, Disk, Tx, Req, Env, Backup, Part, Row, Names, Source, Control,
          AtsOf, SettleAts, WriteAts, StageAts, UndoAts
  <1>2. CrashSafe'
    BY DEF CrashSafe, Intact, RecoveredParts, RecoveredSource, Committed, RowMoved,
       Restorable
  <1>3. Control'
    OBVIOUS
  <1>4. (Order /\ BackupShape /\ Clean /\ Stashed /\ Staging /\ Written /\ RollingBack /\
      RollingForward)'
    BY DEF Order, BeforeCommit, Target, BackupShape, NoBack, NoBackup, NoParts, Clean,
       NoLeft, Stashed, Staging, PutOut, Written, Raw, RollingBack, Committed, RowMoved,
       Restorable, RollingForward
  <1>5. Threads'
    BY ThreadsKept
  <1> QED
    BY <1>1, <1>2, <1>3, <1>4, <1>5 DEF IInv

LEMMA StageCopyStep ==
  ASSUME Scope, IInv, StageCopy
  PROVE  IInv'
    BY StageCopiedInv, StageCopyEndInv, NoOtherFault DEF StageCopy, Undone, Outside,
       NoFault, Goto, Fault

(* StageRecord: from here on the backup holds the whole version.              *)
LEMMA StageRecordInv ==
  ASSUME Scope, IInv, At("stage_record"),
         UNCHANGED <<db, req, thr, env>>,
         disk' = [disk EXCEPT !.backup.staged = tx.names],
         tx' = [tx EXCEPT !.at = "write_texts"]
  PROVE  IInv'
  <1> USE DEF Exists, IInv, At
  <1>1. TypeOK'
    BY NoBackupType DEF TypeOK, Disk, Tx, Ats, Backup, Names
  <1> USE DEF TypeOK, Disk, Tx, Req, Env, Backup, Part, Row, Names, Source, Control,
          AtsOf, SettleAts, WriteAts, StageAts, UndoAts
  <1>2. CrashSafe'
    BY DEF CrashSafe, Intact, RecoveredParts, RecoveredSource, Committed, RowMoved,
       Restorable, Staging, Moved, Copied, Parts, PutOut
  <1>3. Control'
    OBVIOUS
  <1>4. (Order /\ Clean /\ Stashed /\ RollingBack /\ RollingForward)'
    BY DEF Order, BeforeCommit, Target, Clean, NoLeft, NoBack, NoBackup, NoParts, Stashed,
       RollingBack, PutOut, Committed, RowMoved, Restorable, RollingForward
  <1>5. BackupShape'
    BY DEF BackupShape, NoBack, NoBackup, NoParts, Staging, PutOut
  <1>6. Staging'
    BY DEF Staging, PutOut, CrashSafe, Intact, RecoveredParts, Committed, RowMoved,
       Restorable, Moved, Copied, Parts, PartOf
  <1>7. Written'
    <2>1. RecoveredParts["manifest"] = disk.part["manifest"]
      BY DEF Staging, RecoveredParts, Restorable, Moved, Copied, Parts
    <2>2. Exists(db.row) => PartOf(db.row, "manifest") = db.row
      BY DEF PartOf
    <2>3. Exists(db.row) => Exists(disk.part["manifest"])
      BY <2>1, <2>2 DEF CrashSafe, Intact, Parts, Copied
    <2> QED
      BY <2>3 DEF Written, Raw
  <1>8. Threads'
    BY ThreadsKept
  <1> QED
    BY SMTT(60), <1>1, <1>2, <1>3, <1>4, <1>5, <1>6, <1>7, <1>8 DEF IInv

LEMMA StageRecordStep ==
  ASSUME Scope, IInv, StageRecord
  PROVE  IInv'
    BY StageRecordInv, NoOtherFault DEF StageRecord, Undone, Outside, NoFault, Goto, Fault

(* The writers: the new version, beside a backup of the old one.              *)
LEMMA WriteTextsInv ==
  ASSUME Scope, IInv, At("write_texts"),
         UNCHANGED <<db, req, thr, env>>,
         disk' = [disk EXCEPT !.part["texts"] = PartOf(tx.target, "texts")],
         tx' = [tx EXCEPT !.at = IF Raw THEN "write_source" ELSE "write_sections"]
  PROVE  IInv'
  <1> USE DEF Exists, IInv, At
  <1>1. TypeOK'
    BY TargetIs, NoBackupType DEF TypeOK, Disk, Tx, Ats, WriteAts, Part, Row, PartOf, Parts,
       Moved, Copied
  <1>2. CrashSafe'
    BY WritingIsSafe DEF TypeOK, Disk, WriteAts, Part
  <1>3. Written'
    <2>1. /\ disk'.part = [disk.part EXCEPT !["texts"] = PartOf(tx.target, "texts")]
          /\ disk'.source = disk.source
      BY DEF TypeOK, Disk
    <2>2. tx'.target = tx.target /\ tx'.at = IF Raw THEN "write_source" ELSE "write_sections"
      BY DEF TypeOK, Tx
    <2>3. "texts" \in Parts /\ DOMAIN disk.part = Parts
      BY DEF Parts, Moved, Copied, TypeOK, Disk, Part
    <2>4. Written
      OBVIOUS
    <2> QED
      BY <2>1, <2>2, <2>3, <2>4, TargetIs DEF Written, Raw, WriteAts, PartOf, Parts, Moved,
         Copied
  <1> USE DEF TypeOK, Disk, Tx, Req, Env, Backup, Part, Row, Names, Source, Control,
          AtsOf, SettleAts, WriteAts, StageAts, UndoAts
  <1>4. Control'
    OBVIOUS
  <1>5. (Order /\ BackupShape /\ Clean /\ Stashed /\ Staging /\ RollingBack
         /\ RollingForward)'
    BY DEF Order, BeforeCommit, Target, BackupShape, NoBack, NoBackup, NoParts, Clean,
       NoLeft, Stashed, Staging, PutOut, RollingBack, Committed, RowMoved, Restorable,
       RollingForward
  <1>6. Threads'
    BY ThreadsKept
  <1> QED
    BY <1>1, <1>2, <1>3, <1>4, <1>5, <1>6 DEF IInv

LEMMA WriteTextsStep ==
  ASSUME Scope, IInv, WriteTexts
  PROVE  IInv'
  <1>1. CASE Undone("write_texts") /\ Outside
    BY <1>1, UndoneStep DEF WriteTexts, RewriteSteps, At, WriteAts
  <1>2. CASE ~Undone("write_texts")
    BY <1>2, WriteTextsInv DEF WriteTexts, Outside, NoFault, Goto, Fault
  <1> QED
    BY <1>1, <1>2 DEF WriteTexts

LEMMA WriteSectionsInv ==
  ASSUME Scope, IInv, At("write_sections"),
         UNCHANGED <<db, req, thr, env>>,
         disk' = [disk EXCEPT !.part["sections"] = tx.target],
         tx' = [tx EXCEPT !.at = "write_text_index"]
  PROVE  IInv'
  <1> USE DEF Exists, IInv, At
  <1>1. TypeOK'
    BY TargetIs, NoBackupType DEF TypeOK, Disk, Tx, Ats, WriteAts, Part, Row, PartOf, Parts,
       Moved, Copied
  <1>2. CrashSafe'
    BY WritingIsSafe DEF TypeOK, Disk, WriteAts, Part
  <1>3. Written'
    <2>1. /\ disk'.part = [disk.part EXCEPT !["sections"] = tx.target]
          /\ disk'.source = disk.source
      BY DEF TypeOK, Disk
    <2>2. tx'.target = tx.target /\ tx'.at = "write_text_index"
      BY DEF TypeOK, Tx
    <2>3. "sections" \in Parts /\ DOMAIN disk.part = Parts
      BY DEF Parts, Moved, Copied, TypeOK, Disk, Part
    <2>4. Written
      OBVIOUS
    <2> QED
      BY <2>1, <2>2, <2>3, <2>4, TargetIs DEF Written, Raw, WriteAts, PartOf, Parts, Moved,
         Copied
  <1> USE DEF TypeOK, Disk, Tx, Req, Env, Backup, Part, Row, Names, Source, Control,
          AtsOf, SettleAts, WriteAts, StageAts, UndoAts
  <1>4. Control'
    OBVIOUS
  <1>5. (Order /\ BackupShape /\ Clean /\ Stashed /\ Staging /\ RollingBack
         /\ RollingForward)'
    BY DEF Order, BeforeCommit, Target, BackupShape, NoBack, NoBackup, NoParts, Clean,
       NoLeft, Stashed, Staging, PutOut, RollingBack, Committed, RowMoved, Restorable,
       RollingForward
  <1>6. Threads'
    BY ThreadsKept
  <1> QED
    BY <1>1, <1>2, <1>3, <1>4, <1>5, <1>6 DEF IInv

LEMMA WriteSectionsStep ==
  ASSUME Scope, IInv, WriteSections
  PROVE  IInv'
  <1>1. CASE Undone("write_sections") /\ Outside
    BY <1>1, UndoneStep DEF WriteSections, RewriteSteps, At, WriteAts
  <1>2. CASE ~Undone("write_sections")
    BY <1>2, WriteSectionsInv DEF WriteSections, Outside, NoFault, Goto, Fault
  <1> QED
    BY <1>1, <1>2 DEF WriteSections

LEMMA WriteSourceInv ==
  ASSUME Scope, IInv, At("write_source"),
         UNCHANGED <<db, req, thr, env>>,
         disk' = [disk EXCEPT !.source = SourceOf(tx.target)],
         tx' = [tx EXCEPT !.at = "write_manifest"]
  PROVE  IInv'
  <1> USE DEF Exists, IInv, At
  <1>1. TypeOK'
    BY TargetIs, NoBackupType DEF TypeOK, Disk, Tx, Ats, WriteAts, SourceOf, Exists, Source,
       Version
  <1>2. CrashSafe'
    BY WritingIsSafe DEF TypeOK, Disk, WriteAts, Part, Written
  <1>3. Stashed'
    <2>1. Raw /\ req.channel = "raw" /\ disk'.stash = disk.stash /\ tx'.purpose = tx.purpose
      BY TargetIs DEF Written, WriteAts, TypeOK, Disk, Tx
    <2>2. req.at = "locked" /\ tx.purpose = "rewrite" /\ tx'.at = "write_manifest"
      BY <2>1, PurposeAt, TargetIs DEF TypeOK, Tx, WriteAts
    <2> QED
      BY <2>1, <2>2 DEF Stashed
  <1>4. Written'
    <2>1. Raw /\ disk'.part = disk.part /\ disk'.source = tx.target.gen
      BY TargetIs DEF Written, WriteAts, TypeOK, Disk, SourceOf, Exists
    <2>2. tx'.at = "write_manifest" /\ tx'.target = tx.target
      BY DEF TypeOK, Tx
    <2> QED
      BY <2>1, <2>2 DEF Written, Raw, WriteAts
  <1>8. Clean' /\ RollingForward'
    <2>1. tx'.at = "write_manifest" /\ tx'.purpose = "rewrite" /\ req'.at = "locked"
      BY TargetIs, PurposeAt DEF TypeOK, Tx, WriteAts, Control, Written
    <2> QED
      BY <2>1 DEF Clean, RollingForward
  <1> USE DEF TypeOK, Disk, Tx, Req, Env, Backup, Part, Row, Names, Source, Control,
          AtsOf, SettleAts, WriteAts, StageAts, UndoAts
  <1>5. Control'
    OBVIOUS
  <1>6. Order' /\ BackupShape' /\ Staging'
    BY DEF Order, BeforeCommit, Target, BackupShape, NoBack, NoBackup, NoParts, Staging,
       PutOut
  <1>9. RollingBack'
    BY DEF RollingBack, PutOut, NoBack, NoBackup, NoParts, Committed, RowMoved, Restorable
  <1>7. Threads'
    BY ThreadsKept
  <1> QED
    BY <1>1, <1>2, <1>3, <1>4, <1>5, <1>6, <1>7, <1>8, <1>9 DEF IInv

LEMMA WriteSourceStep ==
  ASSUME Scope, IInv, WriteSource
  PROVE  IInv'
  <1>1. CASE Undone("write_source") /\ Outside
    BY <1>1, UndoneStep DEF WriteSource, RewriteSteps, At, WriteAts
  <1>2. CASE ~Undone("write_source")
    BY <1>2, WriteSourceInv DEF WriteSource, Outside, NoFault, Goto, Fault
  <1> QED
    BY <1>1, <1>2 DEF WriteSource

LEMMA WriteTextIndexInv ==
  ASSUME Scope, IInv, At("write_text_index"),
         UNCHANGED <<disk, req, thr>>,
         db' = [db EXCEPT !.fts = db'.fts],
         db'.fts \in Row,
         env' = [env EXCEPT !.faults = env'.faults, !.textFault = env'.textFault],
         env'.faults \in Nat,
         env'.textFault \in BOOLEAN,
         tx' = [tx EXCEPT !.at = IF Raw THEN "write_row" ELSE "write_manifest"]
  PROVE  IInv'
  <1> USE DEF Exists, IInv, At
  <1>1. TypeOK'
    <2>1. tx' \in Tx
      BY DEF TypeOK, Tx, Ats
    <2>2. env' \in Env
      BY DEF TypeOK, Env
    <2> QED
      BY <2>1, <2>2 DEF TypeOK
  <1>2. Control'
    <2>1. env'.up = env.up /\ env'.blind = env.blind
      BY DEF TypeOK, Env
    <2>2. tx'.purpose = tx.purpose /\ tx'.holder = tx.holder /\ tx'.at \in WriteAts
      BY DEF TypeOK, Tx, WriteAts
    <2>3. tx.purpose = "rewrite"
      BY PurposeAt DEF WriteAts
    <2> QED
      BY <2>1, <2>2, <2>3 DEF Control, AtsOf
  <1> USE DEF TypeOK, Disk, Tx, Req, Env, Backup, Part, Row, Names, Source, Control,
          AtsOf, SettleAts, WriteAts, StageAts, UndoAts
  <1>3. CrashSafe'
    BY DEF CrashSafe, Intact, RecoveredParts, RecoveredSource, Committed, RowMoved,
       Restorable
  <1>4. Order'
    BY DEF Order, BeforeCommit, Target
  <1>5. BackupShape'
    BY DEF BackupShape, NoBack, NoBackup, NoParts
  <1>6. Clean'
    BY DEF Clean, NoLeft, NoBack, NoBackup, NoParts
  <1>7. Stashed'
    BY DEF Stashed
  <1>8. Staging'
    BY DEF Staging, PutOut
  <1>9. Written'
    BY DEF Written, Raw
  <1>10. RollingBack'
    BY DEF RollingBack, PutOut, NoBack, NoBackup, NoParts, Committed, RowMoved, Restorable
  <1>11. RollingForward'
    BY DEF RollingForward, NoLeft, RowMoved, NoBack, NoBackup, NoParts
  <1>12. Threads'
    BY ThreadsKept
  <1> QED
    BY <1>1, <1>2, <1>3, <1>4, <1>5, <1>6, <1>7, <1>8, <1>9, <1>10, <1>11, <1>12 DEF IInv

LEMMA WriteTextIndexStep ==
  ASSUME Scope, IInv, WriteTextIndex
  PROVE  IInv'
  <1>1. /\ UNCHANGED <<disk, req, thr>> /\ At("write_text_index")
        /\ tx' = [tx EXCEPT !.at = IF Raw THEN "write_row" ELSE "write_manifest"]
    BY DEF WriteTextIndex, Outside, Goto
  <1>2. TextFault("write_text_index") \/ NoFault
    BY DEF WriteTextIndex
  <1>3. db' = [db EXCEPT !.fts = db'.fts] /\ db'.fts \in Row
    <2>1. TextOf(tx.target) \in Row /\ db.fts \in Row
      BY NoBackupType DEF IInv, TypeOK, Tx, TextOf, PartOf
    <2> QED
      BY <2>1 DEF WriteTextIndex, IInv, TypeOK
  <1> QED
    BY <1>1, <1>2, <1>3, WriteTextIndexInv, TextFaultType DEF IInv

LEMMA WriteManifestInv ==
  ASSUME Scope, IInv, At("write_manifest"),
         UNCHANGED <<db, req, thr, env>>,
         disk' = [disk EXCEPT !.part["manifest"] = tx.target],
         tx' = [tx EXCEPT !.at = IF Raw THEN "write_text_index" ELSE "write_row"]
  PROVE  IInv'
  <1> USE DEF Exists, IInv, At
  <1>1. TypeOK'
    BY TargetIs, NoBackupType DEF TypeOK, Disk, Tx, Ats, WriteAts, Part, Row, PartOf, Parts,
       Moved, Copied
  <1>2. CrashSafe'
    BY WritingIsSafe DEF TypeOK, Disk, WriteAts, Part
  <1>3. Written'
    <2>1. /\ disk'.part = [disk.part EXCEPT !["manifest"] = tx.target]
          /\ disk'.source = disk.source
      BY DEF TypeOK, Disk
    <2>2. tx'.target = tx.target /\ tx'.at = IF Raw THEN "write_text_index" ELSE "write_row"
      BY DEF TypeOK, Tx
    <2>3. "manifest" \in Parts /\ DOMAIN disk.part = Parts
      BY DEF Parts, Moved, Copied, TypeOK, Disk, Part
    <2>4. Written
      OBVIOUS
    <2> QED
      BY <2>1, <2>2, <2>3, <2>4, TargetIs DEF Written, Raw, WriteAts, PartOf, Parts, Moved,
         Copied
  <1> USE DEF TypeOK, Disk, Tx, Req, Env, Backup, Part, Row, Names, Source, Control,
          AtsOf, SettleAts, WriteAts, StageAts, UndoAts
  <1>4. Control'
    OBVIOUS
  <1>5. (Order /\ BackupShape /\ Clean /\ Stashed /\ Staging /\ RollingBack
         /\ RollingForward)'
    BY DEF Order, BeforeCommit, Target, BackupShape, NoBack, NoBackup, NoParts, Clean,
       NoLeft, Stashed, Staging, PutOut, RollingBack, Committed, RowMoved, Restorable,
       RollingForward
  <1>6. Threads'
    BY ThreadsKept
  <1> QED
    BY <1>1, <1>2, <1>3, <1>4, <1>5, <1>6 DEF IInv

LEMMA WriteManifestStep ==
  ASSUME Scope, IInv, WriteManifest
  PROVE  IInv'
  <1>1. CASE Undone("write_manifest") /\ Outside
    BY <1>1, UndoneStep DEF WriteManifest, RewriteSteps, At, WriteAts
  <1>2. CASE ~Undone("write_manifest")
    BY <1>2, WriteManifestInv DEF WriteManifest, Outside, NoFault, Goto, Fault
  <1> QED
    BY <1>1, <1>2 DEF WriteManifest

(* The source in place is the one of the version that is being written.       *)
LEMMA SourceIsTarget ==
  ASSUME IInv, tx.at = "write_row"
  PROVE  disk.source = tx.target.gen /\ Exists(disk.source)
  <1> USE DEF IInv, Exists
  <1>1. tx.target.gen \in Gens /\ tx.target.gen # Absent /\ tx.purpose = "rewrite"
    BY TargetIs, ConstantsAssumption DEF WriteAts, Version
  <1>2. CASE Raw
    BY <1>1, <1>2 DEF Written, WriteAts
  <1>3. CASE ~Raw /\ tx.holder = "request"
    BY <1>1, <1>3, TargetIs DEF Stashed, WriteAts
  <1>4. CASE tx.holder = "summary"
    <2>1. Exists(db.row) /\ db.row.gen = tx.target.gen /\ ~Exists(disk.stash)
      BY <1>4, TargetIs DEF WriteAts
    <2>2. SourceOf(db.row) \in {Absent, disk.source}
      BY <2>1 DEF CrashSafe, Control, Intact, RecoveredSource
    <2> QED
      BY <1>1, <2>1, <2>2 DEF SourceOf
  <1> QED
    BY <1>2, <1>3, <1>4, TargetIs DEF WriteAts

(* CommitRow: the row names the new version, every file of which is in        *)
(* place.                                                                     *)
LEMMA CommitRowInv ==
  ASSUME Scope, IInv, At("write_row"),
         UNCHANGED <<disk, req, thr, env>>,
         db' = [db EXCEPT !.row = tx.target],
         tx' = [tx EXCEPT !.at = "touch", !.purpose = "commit"]
  PROVE  IInv'
  <1> USE DEF Exists, IInv, At
  <1>1. TypeOK'
    BY TargetIs DEF TypeOK, Tx, Ats, WriteAts, Row
  <1>2. CrashSafe'
    <2>1. RowMoved' /\ db'.row = tx.target
      <3>1. disk.backup.idx = db.row /\ db.row \in Row /\ db'.row = tx.target
        BY DEF Staging, WriteAts, TypeOK
      <3>2. db.row \notin {NoFile, Unknown} /\ tx.target # db.row
        BY <3>1, TargetIs, ConstantsAssumption DEF WriteAts, Row, Version, Gens
      <3> QED
        BY <3>1, <3>2, TargetIs DEF RowMoved, WriteAts
    <2>2. Committed' /\ RecoveredParts' = disk.part
      BY <2>1 DEF Committed, RecoveredParts, TypeOK, Disk, Part
    <2>3. disk.source = tx.target.gen /\ disk.source # Absent
      BY SourceIsTarget DEF WriteAts
    <2>4. RecoveredSource' = tx.target.gen
      BY <2>2, <2>3 DEF RecoveredSource
    <2>5. \A p \in Parts : PartOf(tx.target, p) \in {Absent, disk.part[p]}
      BY TargetIs DEF Written, WriteAts, Raw, PartOf, Parts, Moved, Copied
    <2> QED
      BY <2>1, <2>2, <2>4, <2>5, TargetIs DEF CrashSafe, Intact, SourceOf, WriteAts
  <1>3. Order'
    <2>1. /\ tx.purpose = "rewrite" /\ tx'.purpose = "commit" /\ tx'.target = tx.target
          /\ tx'.holder = tx.holder /\ tx.holder = "request" => req.at = "locked"
      BY PurposeAt DEF WriteAts, TypeOK, Tx
    <2>2. CASE tx.holder = "request"
      <3>1. db'.row = tx.target /\ tx.target.gen = req.gen /\ tx.target = Target
             /\ req.gen \in Nat
        BY <2>2, TargetIs DEF WriteAts, TypeOK, Req, Gens
      <3> QED
        BY <2>1, <2>2, <3>1 DEF Order, BeforeCommit, Target
    <2>3. CASE tx.holder = "summary"
      <3>1. db'.row = tx.target /\ db.row.gen = tx.target.gen /\ Exists(db.row)
        BY <2>3, TargetIs DEF WriteAts, TypeOK
      <3> QED
        BY <2>1, <2>3, <3>1 DEF Order, BeforeCommit, Target
    <2> QED
      BY <2>2, <2>3, TargetIs DEF WriteAts
  <1>4. RollingForward'
    <2>1. RowMoved'
      <3>1. disk.backup.idx = db.row /\ db.row \in Row /\ db'.row = tx.target
        BY DEF Staging, WriteAts, TypeOK
      <3>2. db.row \notin {NoFile, Unknown} /\ tx.target # db.row
        BY <3>1, TargetIs, ConstantsAssumption DEF WriteAts, Row, Version, Gens
      <3> QED
        BY <3>1, <3>2, TargetIs DEF RowMoved, WriteAts
    <2>2. /\ tx'.at = "touch" /\ tx'.purpose = "commit" /\ tx.purpose = "rewrite"
          /\ tx'.holder = tx.holder /\ tx.holder \in {"request", "summary"}
          /\ tx.holder = "request" => req.at = "locked"
      BY PurposeAt DEF WriteAts, TypeOK, Tx
    <2>3. disk.backup.here /\ ~disk.marker
      BY <2>2 DEF Staging, WriteAts
    <2>4. Exists(disk.source)
      BY SourceIsTarget DEF WriteAts
    <2> QED
      BY <2>1, <2>2, <2>3, <2>4 DEF RollingForward
  <1> USE DEF TypeOK, Disk, Tx, Req, Env, Backup, Part, Row, Names, Source, Control,
          AtsOf, SettleAts, WriteAts, StageAts, UndoAts
  <1>5. Control'
    OBVIOUS
  <1>6. (BackupShape /\ Clean /\ Staging /\ Written /\ RollingBack)'
    BY DEF BackupShape, NoBack, NoBackup, NoParts, Clean, NoLeft, Staging, PutOut,
       Written, Raw, RollingBack, Committed, RowMoved, Restorable
  <1>8. Stashed'
    BY DEF Stashed, Threads, Beside, Closing
  <1>7. Threads'
    <2>1. /\ db'.row = tx.target /\ tx'.purpose = "commit" /\ tx'.target = tx.target
          /\ tx'.holder = tx.holder /\ tx.target.gen \in Nat
          /\ tx.holder = "request" => req.at = "locked"
      BY TargetIs, PurposeAt DEF Version, Gens
    <2>2. ASSUME NEW g \in Gens, Active(g)
          PROVE  /\ g <= tx.target.gen
                 /\ tx.holder = "request" => g # req.gen
      BY <2>1, <2>2, TargetIs DEF Threads, Gens, Version
    <2>3. tx.holder = "request" => tx.target = Target
      BY TargetIs
    <2>4. tx.holder = "summary" => db'.row.gen = tx'.target.gen
      BY <2>1
    <2>5. tx.holder # "request" => ~Unthreaded'
      BY <2>1 DEF Threads, Beside, Unthreaded, Closing
    <2>6. req.gen \in Gens /\ Exists(tx.target)
      BY TargetIs
    <2> QED
      BY <2>1, <2>2, <2>3, <2>4, <2>5, <2>6 DEF Threads, Active, Beside, Closing, Target
  <1> QED
    BY <1>1, <1>2, <1>3, <1>4, <1>5, <1>6, <1>7, <1>8 DEF IInv

LEMMA CommitRowStep ==
  ASSUME Scope, IInv, CommitRow
  PROVE  IInv'
  <1>1. CASE Undone("write_row") /\ Outside
    BY <1>1, UndoneStep DEF CommitRow, RewriteSteps, At, WriteAts
  <1>2. CASE ~Undone("write_row")
    BY <1>2, CommitRowInv DEF CommitRow, Outside, NoFault, Goto, Fault
  <1> QED
    BY <1>1, <1>2 DEF CommitRow

(* Check, Raise, Finish and Swept: the lock is handed on.                     *)
LEMMA CheckPassedInv ==
  ASSUME Scope, IInv, At("check"),
         tx.purpose = "before",
         UNCHANGED <<disk, db, thr, env>>,
         tx' = NoTx,
         req' = [req EXCEPT !.at = IF req.channel = "raw" THEN "write" ELSE "parse"]
  PROVE  IInv'
  <1> USE DEF Exists, IInv, At
  <1>1. TypeOK'
    BY NoBackupType, NoTxFields, PurposeAt DEF TypeOK, Disk, Tx, Ats, Req
  <1> USE DEF TypeOK, Disk, Tx, Req, Env, Backup, Part, Row, Names, Source, Control,
          AtsOf, SettleAts, WriteAts, StageAts, UndoAts
  <1>2. CrashSafe'
    BY NoTxFields, PurposeAt DEF CrashSafe, Intact, RecoveredParts, RecoveredSource,
       Committed, RowMoved, Restorable
  <1>3. Control'
    BY NoTxFields, PurposeAt
  <1>4. (Order /\ BackupShape /\ Clean /\ Stashed /\ Staging /\ Written /\ RollingBack /\
      RollingForward)'
    BY NoTxFields, PurposeAt DEF Order, BeforeCommit, Target, BackupShape, NoBack, NoBackup,
       NoParts, Clean, NoLeft, Stashed, Staging, PutOut, Written, Raw, RollingBack,
       Committed, RowMoved, Restorable, RollingForward
  <1>5. Threads'
    BY ThreadsHandedOn, NoTxFields, PurposeAt DEF Unthreaded, Closing
  <1> QED
    BY <1>1, <1>2, <1>3, <1>4, <1>5 DEF IInv

LEMMA CheckStashInv ==
  ASSUME Scope, IInv, At("check"),
         tx.purpose = "stash",
         UNCHANGED <<disk, db, thr, env, req>>,
         tx' = [tx EXCEPT !.at = "stash"]
  PROVE  IInv'
  <1> USE DEF Exists, IInv, At
  <1>1. TypeOK'
    BY NoBackupType DEF TypeOK, Disk, Tx, Ats
  <1> USE DEF TypeOK, Disk, Tx, Req, Env, Backup, Part, Row, Names, Source, Control,
          AtsOf, SettleAts, WriteAts, StageAts, UndoAts
  <1>2. CrashSafe'
    BY DEF CrashSafe, Intact, RecoveredParts, RecoveredSource, Committed, RowMoved,
       Restorable
  <1>3. Control'
    OBVIOUS
  <1>4. (Order /\ BackupShape /\ Clean /\ Stashed /\ Staging /\ Written /\ RollingBack /\
      RollingForward)'
    BY DEF Order, BeforeCommit, Target, BackupShape, NoBack, NoBackup, NoParts, Clean,
       NoLeft, Stashed, Staging, PutOut, Written, Raw, RollingBack, Committed, RowMoved,
       Restorable, RollingForward
  <1>5. Threads'
    BY ThreadsKept
  <1> QED
    BY <1>1, <1>2, <1>3, <1>4, <1>5 DEF IInv

LEMMA CheckStep ==
  ASSUME Scope, IInv, Check
  PROVE  IInv'
  <1>1. tx.purpose \in {"before", "stash"} /\ ~Leftovers
    <2>1. tx.purpose \in {"before", "stash"}
      BY PurposeAt DEF Check, At, IInv
    <2>2. NoLeft
      BY <2>1 DEF Check, At, IInv, Clean
    <2> QED
      BY <2>1, <2>2, NoBackupFields DEF NoLeft, NoBack, Leftovers
  <1>2. /\ UNCHANGED <<disk, db, thr, env>> /\ At("check")
    BY DEF Check, NoFault
  <1>3. CASE tx.purpose = "before"
    BY <1>1, <1>2, <1>3, CheckPassedInv DEF Check, Release, Request
  <1>4. CASE tx.purpose = "stash"
    BY <1>1, <1>2, <1>4, CheckStashInv DEF Check, Goto
  <1> QED
    BY <1>1, <1>3, <1>4

LEMMA RaiseInv ==
  ASSUME Scope, IInv, At("raise"),
         UNCHANGED <<disk, db, thr, env>>,
         tx' = NoTx,
         req' = [req EXCEPT !.at = "fail"]
  PROVE  IInv'
  <1> USE DEF Exists, IInv, At
  <1>1. TypeOK'
    BY NoBackupType, NoTxFields, PurposeAt DEF TypeOK, Disk, Tx, Ats, Req
  <1> USE DEF TypeOK, Disk, Tx, Req, Env, Backup, Part, Row, Names, Source, Control,
          AtsOf, SettleAts, WriteAts, StageAts, UndoAts
  <1>2. CrashSafe'
    BY NoTxFields, PurposeAt DEF CrashSafe, Intact, RecoveredParts, RecoveredSource,
       Committed, RowMoved, Restorable
  <1>3. Control'
    BY NoTxFields, PurposeAt
  <1>4. (Order /\ BackupShape /\ Clean /\ Stashed /\ Staging /\ Written /\ RollingBack /\
      RollingForward)'
    BY NoTxFields, PurposeAt DEF Order, BeforeCommit, Target, BackupShape, NoBack, NoBackup,
       NoParts, Clean, NoLeft, Stashed, Staging, PutOut, Written, Raw, RollingBack,
       Committed, RowMoved, Restorable, RollingForward
  <1>5. Threads'
    BY ThreadsHandedOn, NoTxFields, PurposeAt DEF Unthreaded, Closing
  <1> QED
    BY <1>1, <1>2, <1>3, <1>4, <1>5 DEF IInv

LEMMA RaiseStep ==
  ASSUME Scope, IInv, Raise
  PROVE  IInv'
  <1>1. tx.holder # "summary"
    BY PurposeAt DEF IInv, Raise, At
  <1> QED
    BY <1>1, RaiseInv DEF Raise, Release, Request

LEMMA StashedInv ==
  ASSUME Scope, IInv, At("finish"),
         tx.purpose = "stash",
         req.channel # "raw",
         UNCHANGED <<disk, db, thr, env>>,
         tx' = NoTx,
         req' = [req EXCEPT !.at = "persist"]
  PROVE  IInv'
  <1> USE DEF Exists, IInv, At
  <1>1. TypeOK'
    BY NoBackupType, NoTxFields, PurposeAt DEF TypeOK, Disk, Tx, Ats, Req
  <1> USE DEF TypeOK, Disk, Tx, Req, Env, Backup, Part, Row, Names, Source, Control,
          AtsOf, SettleAts, WriteAts, StageAts, UndoAts
  <1>2. CrashSafe'
    BY NoTxFields, PurposeAt DEF CrashSafe, Intact, RecoveredParts, RecoveredSource,
       Committed, RowMoved, Restorable
  <1>3. Control'
    BY SMTT(60), NoTxFields, PurposeAt
  <1>4. (Order /\ BackupShape /\ Clean /\ Stashed /\ Staging /\ Written /\ RollingBack /\
      RollingForward)'
    BY NoTxFields, PurposeAt DEF Order, BeforeCommit, Target, BackupShape, NoBack, NoBackup,
       NoParts, Clean, NoLeft, Stashed, Staging, PutOut, Written, Raw, RollingBack,
       Committed, RowMoved, Restorable, RollingForward
  <1>5. Threads'
    BY ThreadsHandedOn, NoTxFields, PurposeAt DEF Unthreaded, Closing
  <1> QED
    BY <1>1, <1>2, <1>3, <1>4, <1>5 DEF IInv

LEMMA CommittedInv ==
  ASSUME Scope, IInv, At("finish"),
         tx.purpose = "commit", tx.holder = "request",
         req.channel \in {"sync", "defer"},
         UNCHANGED <<disk, db, thr, env>>,
         tx' = NoTx,
         req' = [req EXCEPT !.at = IF req.channel = "sync" THEN "close" ELSE "discard"]
  PROVE  IInv'
  <1> USE DEF Exists, IInv, At
  <1>1. TypeOK'
    BY NoBackupType, NoTxFields, PurposeAt DEF TypeOK, Disk, Tx, Ats, Req
  <1>8. RollingForward'
    <2>1. NoBack /\ (disk.marker <=> Exists(disk.stash)) /\ Exists(disk.source)
      BY DEF RollingForward
    <2>2. /\ req'.at = IF req.channel = "sync" THEN "close" ELSE "discard"
          /\ req'.channel = req.channel
          /\ tx'.at = "none" /\ tx'.purpose = "none" /\ tx'.holder = "none"
      BY NoTxFields DEF TypeOK, Req
    <2> QED
      BY <2>1, <2>2 DEF RollingForward, NoBack
  <1> USE DEF TypeOK, Disk, Tx, Req, Env, Backup, Part, Row, Names, Source, Control,
          AtsOf, SettleAts, WriteAts, StageAts, UndoAts
  <1>2. CrashSafe'
    BY NoTxFields, PurposeAt DEF CrashSafe, Intact, RecoveredParts, RecoveredSource,
       Committed, RowMoved, Restorable
  <1>3. Control'
    BY SMTT(60), NoTxFields, PurposeAt
  <1>4. Order' /\ BackupShape'
    BY NoTxFields, PurposeAt DEF Order, BeforeCommit, Target, BackupShape, NoBack, NoBackup,
       NoParts
  <1>6. Clean' /\ Stashed' /\ Staging' /\ Written'
    BY NoTxFields, PurposeAt DEF Clean, NoLeft, NoBack, Stashed, Staging, PutOut, Written, Raw
  <1>7. RollingBack'
    BY NoTxFields DEF RollingBack, PutOut, NoBack, Committed, RowMoved, Restorable
  <1>5. Threads'
    BY ThreadsHandedOn, NoTxFields, PurposeAt DEF Unthreaded, Closing
  <1> QED
    BY <1>1, <1>2, <1>3, <1>4, <1>5, <1>6, <1>7, <1>8 DEF IInv

LEMMA ClosingInv ==
  ASSUME Scope, IInv, At("finish"),
         tx.purpose = "commit", tx.holder = "request",
         req.channel = "raw",
         UNCHANGED <<db, thr, env, req>>,
         tx' = [tx EXCEPT !.at = "fold", !.purpose = "close"],
         disk' = Cleared(disk)
  PROVE  IInv'
  <1> USE DEF Exists, IInv, At
  <1>1. TypeOK'
    BY NoBackupType DEF TypeOK, Disk, Tx, Ats, Cleared
  <1>8. RollingForward'
    <2>1. NoBack /\ (disk.marker <=> Exists(disk.stash)) /\ Exists(disk.source)
      BY DEF RollingForward
    <2>2. /\ disk'.backup = disk.backup /\ disk'.marker = disk.marker
          /\ disk'.stash = disk.stash /\ disk'.source = disk.source
          /\ tx'.at = "fold" /\ tx'.purpose = "close" /\ req'.at = "locked"
      BY DEF TypeOK, Disk, Tx, Cleared, Control
    <2> QED
      BY <2>1, <2>2 DEF RollingForward, NoBack
  <1> USE DEF TypeOK, Disk, Tx, Req, Env, Backup, Part, Row, Names, Source, Control,
          AtsOf, SettleAts, WriteAts, StageAts, UndoAts
  <1>2. CrashSafe'
    BY DEF CrashSafe, Intact, RecoveredParts, RecoveredSource, Committed, RowMoved,
       Restorable, Cleared
  <1>3. Control'
    BY DEF Cleared
  <1>4. Order' /\ BackupShape'
    BY DEF Order, BeforeCommit, Target, BackupShape, NoBack, NoBackup, NoParts, Cleared
  <1>6. Clean' /\ Stashed' /\ Staging' /\ Written'
    BY DEF Clean, NoLeft, NoBack, Stashed, Staging, PutOut, Written, Raw, Cleared
  <1>7. RollingBack'
    BY DEF RollingBack, PutOut, NoBack, Committed, RowMoved, Restorable, Cleared
  <1>5. Threads'
    BY ThreadsHandedOn DEF Unthreaded, Closing
  <1> QED
    BY <1>1, <1>2, <1>3, <1>4, <1>5, <1>6, <1>7, <1>8 DEF IInv

LEMMA ClosedInv ==
  ASSUME Scope, IInv, At("finish"),
         tx.purpose = "close", req.channel = "raw",
         UNCHANGED <<db, thr, env, disk>>,
         tx' = NoTx,
         req' = [req EXCEPT !.at = "idle", !.answer = "ok", !.acked = req.gen]
  PROVE  IInv'
  <1> USE DEF Exists, IInv, At
  <1>1. TypeOK'
    BY ZenonT(60), NoBackupType, NoTxFields, PurposeAt DEF TypeOK, Disk, Tx, Ats, Req
  <1> USE DEF TypeOK, Disk, Tx, Req, Env, Backup, Part, Row, Names, Source, Control,
          AtsOf, SettleAts, WriteAts, StageAts, UndoAts
  <1>2. CrashSafe'
    BY NoTxFields, PurposeAt DEF CrashSafe, Intact, RecoveredParts, RecoveredSource,
       Committed, RowMoved, Restorable
  <1>3. Control'
    BY NoTxFields, PurposeAt
  <1>4. Order'
    BY NoTxFields, PurposeAt DEF Order, BeforeCommit, Target
  <1>5. BackupShape'
    BY NoTxFields, PurposeAt DEF BackupShape, NoBack, NoBackup, NoParts
  <1>6. Clean'
    BY NoTxFields, PurposeAt DEF Clean, NoLeft, NoBack, NoBackup, NoParts, RollingForward
  <1>7. Stashed'
    BY NoTxFields, PurposeAt DEF Stashed
  <1>8. Staging'
    BY NoTxFields, PurposeAt DEF Staging, PutOut
  <1>9. Written'
    BY NoTxFields, PurposeAt DEF Written, Raw
  <1>10. RollingBack'
    BY NoTxFields, PurposeAt DEF RollingBack, PutOut, NoBack, NoBackup, NoParts, Committed,
       RowMoved, Restorable
  <1>11. RollingForward'
    BY NoTxFields, PurposeAt DEF RollingForward, NoLeft, RowMoved, NoBack, NoBackup, NoParts
  <1>12. Threads'
    BY ThreadsHandedOn, NoTxFields, PurposeAt DEF Unthreaded, Closing
  <1> QED
    BY <1>1, <1>2, <1>3, <1>4, <1>5, <1>6, <1>7, <1>8, <1>9, <1>10, <1>11, <1>12 DEF IInv

(* The summary thread of a deferred upload begins when nothing is left of the *)
(* version before.                                                            *)
LEMMA DeferredInv ==
  ASSUME Scope, IInv, At("finish"),
         tx.purpose = "close", req.channel = "defer",
         UNCHANGED <<db, env, disk>>,
         tx' = NoTx,
         thr' = [thr EXCEPT ![req.gen] = "placeholder"],
         req' = [req EXCEPT !.at = "close"]
  PROVE  IInv'
  <1> USE DEF Exists, IInv, At
  <1>1. TypeOK'
    BY ZenonT(60), NoBackupType, NoTxFields, PurposeAt DEF TypeOK, Req, Phases
  <1>2. Threads'
    <2>1. /\ tx.holder = "request" /\ Unthreaded /\ req.at = "locked"
          /\ req.channel \in Channels
      BY PurposeAt DEF Unthreaded, Order
    <2>2. db.row = Target /\ Exists(db.row) /\ req.gen \in Gens
      BY <2>1, ConstantsAssumption DEF Threads, TypeOK, Req, Target, Version, Stages
    <2>3. Target.gen = req.gen /\ Target.stage = "parse" /\ Defers
      BY <2>1 DEF Target, Defers
    <2>4. /\ thr' \in [Gens -> Phases] /\ thr'[req.gen] = "placeholder"
          /\ \A g \in Gens \ {req.gen} : thr'[g] = thr[g]
      BY <2>2 DEF TypeOK, Phases
    <2>5. /\ req'.at = "close" /\ req'.channel = "defer" /\ tx'.holder = "none"
          /\ ~Unthreaded' /\ req.gen <= req.gen
      BY NoTxFields, <2>2 DEF TypeOK, Req, Unthreaded, Closing, Gens
    <2> QED
      BY <2>1, <2>2, <2>3, <2>4, <2>5 DEF Threads, Active, Summaries, Left
  <1> USE DEF TypeOK, Disk, Tx, Req, Env, Backup, Part, Row, Names, Source, Control,
          AtsOf, SettleAts, WriteAts, StageAts, UndoAts
  <1>3. CrashSafe'
    BY NoTxFields, PurposeAt DEF CrashSafe, Intact, RecoveredParts, RecoveredSource,
       Committed, RowMoved, Restorable
  <1>4. Control'
    BY NoTxFields, PurposeAt
  <1>5. Order'
    BY NoTxFields, PurposeAt DEF Order, BeforeCommit, Target
  <1>6. BackupShape'
    BY NoTxFields, PurposeAt DEF BackupShape, NoBack, NoBackup, NoParts
  <1>7. Clean'
    BY NoTxFields, PurposeAt DEF Clean, NoLeft, NoBack, NoBackup, NoParts, RollingForward
  <1>8. Stashed'
    BY NoTxFields, PurposeAt DEF Stashed
  <1>9. Staging'
    BY NoTxFields, PurposeAt DEF Staging, PutOut
  <1>10. Written'
    BY NoTxFields, PurposeAt DEF Written, Raw
  <1>11. RollingBack'
    BY NoTxFields, PurposeAt DEF RollingBack, PutOut, NoBack, NoBackup, NoParts, Committed,
       RowMoved, Restorable
  <1>12. RollingForward'
    BY NoTxFields, PurposeAt DEF RollingForward, NoLeft, RowMoved, NoBack, NoBackup, NoParts
  <1> QED
    BY <1>1, <1>2, <1>3, <1>4, <1>5, <1>6, <1>7, <1>8, <1>9, <1>10, <1>11, <1>12 DEF IInv

(* A summary that is written leaves the document to the others, and its       *)
(* thread goes on to what it writes next.                                     *)
LEMMA SummaryWrittenInv ==
  ASSUME Scope, IInv, At("finish"),
         tx.holder = "summary",
         UNCHANGED <<db, env, disk, req>>,
         tx' = NoTx,
         ThreadGoes(FALSE)
  PROVE  IInv'
  <1> USE DEF Exists, IInv, At
  <1> DEFINE g == tx.target.gen
  <1>1. /\ tx.purpose = "commit" /\ Beside /\ g \in Gens /\ thr[g] \in Writing
        /\ db.row = tx.target /\ tx.target.stage = Stage[thr[g]]
        /\ ~Exists(disk.stash) /\ NoBack /\ ~disk.marker
    <2>1. tx.purpose = "commit"
      BY PurposeAt DEF Control, AtsOf, StageAts, WriteAts
    <2>2. ~Exists(disk.stash) /\ Beside /\ tx.target \in Version /\ thr[g] \in Writing
          /\ db.row = tx.target /\ tx.target.stage = Stage[thr[g]]
      BY <2>1 DEF Threads
    <2>3. NoBack /\ (disk.marker <=> Exists(disk.stash))
      BY <2>1 DEF RollingForward
    <2>4. ~disk.marker
      BY <2>2, <2>3
    <2> QED
      BY <2>1, <2>2, <2>3, <2>4 DEF Version
  <1>2. /\ thr' = [thr EXCEPT ![g] = AfterWrite(thr[g], FALSE)]
        /\ AfterWrite(thr[g], FALSE) \in {"llm", "over"}
        /\ AfterWrite(thr[g], FALSE) = "llm" => db.row.stage = "running"
    BY <1>1 DEF ThreadGoes, AfterWrite, Writing, Stage
  <1>3. /\ thr' \in [Gens -> Phases] /\ thr'[g] = AfterWrite(thr[g], FALSE)
        /\ \A h \in Gens \ {g} : thr'[h] = thr[h]
    BY <1>1, <1>2 DEF TypeOK, Phases
  <1>4. TypeOK'
    BY <1>3, NoTxFields DEF TypeOK
  <1>5. Threads'
    <2>1. ~Unthreaded' /\ tx'.holder = "none" /\ thr[g] # "none" /\ Active(g)
      BY <1>1, NoTxFields DEF Unthreaded, Beside, Closing, Active, Writing, Stage
    <2>2. Left["llm"] = {"parse", "running"}
      BY DEF Left
    <2>3. ASSUME NEW h \in Gens, Active(h)'
          PROVE  /\ Summaries /\ Exists(db.row) /\ h <= db.row.gen
                 /\ db.row.gen = h => db.row.stage \in Left[thr'[h]]
      <3>1. CASE h = g
        BY <1>1, <1>2, <1>3, <2>1, <2>2, <2>3, <3>1 DEF Threads, Active
      <3>2. CASE h # g
        BY <1>1, <1>3, <2>3, <3>2 DEF Threads, Active, Version
      <3> QED
        BY <3>1, <3>2
    <2>4. ASSUME NEW h \in Gens, thr'[h] # "none" PROVE Summaries
      BY <1>1, <1>3, <2>1, <2>4 DEF Threads
    <2> QED
      BY <2>1, <2>3, <2>4 DEF Threads
  <1>6. Control'
    BY <1>1, NoTxFields DEF Control, AtsOf, Beside, Closing
  <1>7. Order'
    BY <1>1, NoTxFields DEF Order, BeforeCommit, Target
  <1>8. Clean' /\ Stashed'
    BY <1>1, NoTxFields DEF Clean, Stashed, NoLeft, NoBack, Beside, Closing
  <1> USE DEF TypeOK, Disk, Tx, Req, Env, Backup, Part, Row, Names, Source, Control,
          AtsOf, SettleAts, WriteAts, StageAts, UndoAts
  <1>9. CrashSafe'
    BY NoTxFields, PurposeAt DEF CrashSafe, Intact, RecoveredParts, RecoveredSource,
       Committed, RowMoved, Restorable
  <1>10. BackupShape' /\ Staging' /\ Written'
    BY NoTxFields DEF BackupShape, NoBack, NoBackup, NoParts, Staging, PutOut, Written, Raw
  <1>11. RollingBack'
    BY NoTxFields DEF RollingBack, PutOut, NoBack, NoBackup, NoParts, Committed,
       RowMoved, Restorable
  <1>12. RollingForward'
    BY <1>1, NoTxFields DEF RollingForward, NoLeft, RowMoved, NoBack, Beside, Closing
  <1> QED
    BY <1>4, <1>5, <1>6, <1>7, <1>8, <1>9, <1>10, <1>11, <1>12 DEF IInv

LEMMA FinishStep ==
  ASSUME Scope, IInv, Finish
  PROVE  IInv'
  <1>1. /\ UNCHANGED <<db, env>> /\ At("finish")
        /\ tx.holder \in {"request", "summary"} /\ tx.purpose \in {"stash", "commit", "close"}
        /\ tx.holder = "request" => req.channel \in {"sync", "defer", "raw"}
    BY PurposeAt, ConstantsAssumption DEF Finish, At, IInv, Order
  <1>2. /\ tx.purpose = "stash" => req.channel # "raw"
        /\ tx.purpose = "close" => req.channel # "sync"
    BY <1>1 DEF At, IInv, Order
  <1>3. CASE tx.holder = "summary"
    BY <1>1, <1>3, SummaryWrittenInv DEF Finish, Release
  <1> SUFFICES ASSUME tx.holder = "request" PROVE IInv'
    BY <1>1, <1>3
  <1>4. CASE tx.purpose = "stash"
    BY <1>1, <1>2, <1>4, StashedInv DEF Finish, Release, Request
  <1>5. CASE tx.purpose = "commit" /\ req.channel \in {"sync", "defer"}
    BY <1>1, <1>5, CommittedInv DEF Finish, Release, Request
  <1>6. CASE tx.purpose = "commit" /\ req.channel = "raw"
    BY <1>1, <1>6, ClosingInv DEF Finish, CloseHolding
  <1>7. CASE tx.purpose = "close" /\ req.channel = "raw"
    BY <1>1, <1>7, ClosedInv DEF Finish, Release, Reply
  <1>8. CASE tx.purpose = "close" /\ req.channel = "defer"
    BY <1>1, <1>8, DeferredInv DEF Finish, Release, Request
  <1> QED
    BY <1>1, <1>2, <1>4, <1>5, <1>6, <1>7, <1>8

LEMMA SweptInv ==
  ASSUME Scope, IInv, At("swept"),
         UNCHANGED <<disk, db, thr, req>>,
         tx' = NoTx,
         env' = [env EXCEPT !.up = "up"]
  PROVE  IInv'
  <1> USE DEF Exists, IInv, At
  <1>1. TypeOK'
    BY NoBackupType, NoTxFields, PurposeAt DEF TypeOK, Disk, Tx, Ats, Env
  <1> USE DEF TypeOK, Disk, Tx, Req, Env, Backup, Part, Row, Names, Source, Control,
          AtsOf, SettleAts, WriteAts, StageAts, UndoAts
  <1>2. CrashSafe'
    BY NoTxFields, PurposeAt DEF CrashSafe, Intact, RecoveredParts, RecoveredSource,
       Committed, RowMoved, Restorable
  <1>3. Control'
    BY NoTxFields, PurposeAt
  <1>4. (Order /\ BackupShape /\ Clean /\ Stashed /\ Staging /\ Written /\ RollingBack /\
      RollingForward)'
    BY NoTxFields, PurposeAt DEF Order, BeforeCommit, Target, BackupShape, NoBack, NoBackup,
       NoParts, Clean, NoLeft, Stashed, Staging, PutOut, Written, Raw, RollingBack,
       Committed, RowMoved, Restorable, RollingForward
  <1>5. Threads'
    BY ThreadsHandedOn, NoTxFields, PurposeAt DEF Unthreaded, Closing
  <1> QED
    BY <1>1, <1>2, <1>3, <1>4, <1>5 DEF IInv

LEMMA SweptStep ==
  ASSUME Scope, IInv, Swept
  PROVE  IInv'
    BY SweptInv DEF Swept, Release
===============================================================================
