--------------------------- MODULE DocRewriteProofs ---------------------------
(***************************************************************************)
(* The requests, also beside a summary that is being written, the summary  *)
(* threads, a crash and a start keep the invariant, and with them every    *)
(* step does: what is proved of the rewrite.                               *)
(***************************************************************************)
EXTENDS DocRewriteStepProofs

(* Nobody holds the lock while a request runs outside it, but for a summary.  *)
LEMMA ServingIsFree ==
  ASSUME TypeOK, Control, tx.holder = "none"
  PROVE  tx.purpose = "none" /\ tx.at = "none"
  BY DEF TypeOK, Tx, Control, AtsOf

(* The version an upload writes.                                              *)
LEMMA TargetType ==
  ASSUME TypeOK PROVE Target \in Version /\ Target.gen = req.gen
  BY DEF TypeOK, Req, Target, Version, Stages

(* What rmtree leaves of a backup when it stops.                              *)
LEMMA BackupIsCut ==
  ASSUME TypeOK, NEW b \in Remains(disk.backup)
  PROVE  /\ b \in Backup /\ b.here
         /\ b.staged \in {disk.backup.staged, NoFile} /\ b.idx \in {disk.backup.idx, NoFile}
         /\ \A p \in Parts : b.part[p] \in {disk.backup.part[p], Absent}
  <1>1. disk.backup \in Backup
    BY DEF TypeOK, Disk
  <1>2. /\ b.here = TRUE /\ DOMAIN b = {"here", "part", "fts", "idx", "staged"}
        /\ b.fts \in {disk.backup.fts, NoFile} /\ b.staged \in {disk.backup.staged, NoFile}
        /\ b.idx \in {disk.backup.idx, NoFile}
        /\ b = [here |-> b.here, part |-> b.part, fts |-> b.fts, idx |-> b.idx,
                 staged |-> b.staged]
    BY DEF Remains
  <1>3. /\ b.part \in [Parts -> {disk.backup.part[p] : p \in Parts} \cup {Absent}]
        /\ \A p \in Parts : b.part[p] \in {disk.backup.part[p], Absent}
    BY DEF Remains
  <1>4. b.part \in Part
    BY <1>1, <1>3, NoBackupType DEF Backup, Part
  <1> QED
    BY <1>1, <1>2, <1>3, <1>4 DEF Backup

-----------------------------------------------------------------------------
(* Beside a summary thread that holds the lock.                               *)

(* Who may hold the lock while a request runs outside it.                     *)
LEMMA ServedBy ==
  ASSUME IInv, env.up = "up", req.at # "locked"
  PROVE  tx.holder \in {"none", "summary"}
  BY DEF IInv, TypeOK, Tx, Control

(* Where a request is while a summary holds the lock, and of what kind.       *)
LEMMA BesideIs ==
  ASSUME IInv, tx.holder = "summary"
  PROVE  /\ Beside /\ ~Exists(disk.stash) /\ tx.purpose \in {"rewrite", "commit"}
         /\ req.at # "idle" => req.channel \in Channels
         /\ req.at \in {"before", "parse", "stash", "write", "fail"} => req.replacing
  <1>1. Exists(db.row)
    BY DEF IInv, Threads, Version, Active, Writing, Stage
  <1> QED
    BY <1>1 DEF IInv, Threads, Order, Control, BeforeCommit

(* The manifest is that of the row wherever a start would leave it alone.     *)
LEMMA ManifestIs ==
  ASSUME IInv, Exists(db.row), RecoveredParts["manifest"] = disk.part["manifest"]
  PROVE  disk.part["manifest"] = db.row
  <1>1. PartOf(db.row, "manifest") = db.row /\ "manifest" \in Parts
    BY DEF PartOf, Parts, Copied
  <1> QED
    BY <1>1 DEF IInv, CrashSafe, Control, Intact, Exists

(* While a summary is written there is a row, and a manifest beside it.       *)
LEMMA ManifestStays ==
  ASSUME IInv, tx.holder = "summary"
  PROVE  Exists(db.row) /\ Exists(disk.part["manifest"])
  <1>1. Exists(db.row) /\ "manifest" \in Parts
    BY DEF IInv, Threads, Version, Active, Writing, Stage, Parts, Copied
  <1>2. tx.purpose \in {"rewrite", "commit"} /\ tx.at \in AtsOf[tx.purpose]
    BY DEF IInv, Control
  <1>3. CASE disk.backup = NoBackup
    <2>1. RecoveredParts["manifest"] = disk.part["manifest"]
      BY <1>1, <1>3, NoBackupFields DEF RecoveredParts, Exists
    <2> QED
      BY <1>1, <2>1, ManifestIs
  <1>4. CASE tx.purpose = "rewrite"
    <2>1. CASE tx.at \in {"settle", "clear"}
      BY <1>3, <1>4, <2>1 DEF IInv, Clean, NoBack
    <2>2. CASE tx.at \in StageAts
      <3>1. RecoveredParts["manifest"] = disk.part["manifest"]
        BY <1>1, <2>2 DEF IInv, Staging, RecoveredParts, Restorable, Moved
      <3> QED
        BY <1>1, <3>1, ManifestIs
    <2>3. CASE tx.at \in WriteAts
      BY <1>1, <2>3 DEF IInv, Written
    <2> QED
      BY <1>2, <1>4, <2>1, <2>2, <2>3 DEF AtsOf
  <1>5. CASE tx.purpose = "commit"
    <2>1. CASE tx.at \in {"touch", "drop"}
      <3>1. RecoveredParts["manifest"] = disk.part["manifest"]
        BY <1>1, <1>5, <2>1 DEF IInv, RollingForward, RecoveredParts, Committed
      <3> QED
        BY <1>1, <3>1, ManifestIs
    <2>2. CASE tx.at \in {"unmark", "finish"}
      BY <1>3, <1>5, <2>2 DEF IInv, RollingForward, NoBack
    <2> QED
      BY <1>2, <1>5, <2>1, <2>2 DEF AtsOf
  <1> QED
    BY <1>2, <1>4, <1>5

(* A marker beside a summary decides nothing that the row does not.           *)
LEMMA MarkerBeside ==
  ASSUME IInv, tx.holder = "summary", disk.marker
  PROVE  RowMoved \/ NoBack
  <1>1. tx.purpose = "commit" /\ tx.at \in {"touch", "drop", "unmark", "finish"}
    BY DEF IInv, Control, Staging, AtsOf
  <1> QED
    BY <1>1 DEF IInv, RollingForward

(* What a request may do meanwhile: it neither takes the source away nor      *)
(* needs the lock, and takes away no marker but one that decides nothing.     *)
LEMMA BesideInv ==
  ASSUME Scope, IInv, tx.holder = "summary", UNCHANGED <<db, tx, thr, env>>,
         req' \in Req, Order', Beside', disk' \in Disk,
         disk'.part = disk.part, disk'.source = disk.source, disk'.stash = disk.stash,
         disk'.backup = disk.backup,
         disk'.marker = disk.marker \/ (~disk'.marker /\ Defers)
  PROVE  IInv'
  <1>1. /\ req'.at \notin {"locked", "persist", "discard", "fail_rm", "fail_mv", "fail_row"}
        /\ req'.at = "write" => req'.channel = "raw"
        /\ req'.at \in {"close", "close_look", "close_unmark"} => req'.channel = "defer"
    BY DEF Beside, Closing
  <1>2. /\ ~Exists(disk.stash) /\ env.up = "up" /\ tx.purpose \in {"rewrite", "commit"}
        /\ tx.at \in AtsOf[tx.purpose] /\ tx.at \notin {"swept"}
        /\ tx.purpose = "rewrite" => ~disk.marker
    BY DEF IInv, Threads, Control, Staging, AtsOf, StageAts, WriteAts
  <1>3. (TypeOK /\ Control)'
    BY <1>1, <1>2 DEF IInv, TypeOK, Control
  <1>4. disk.marker /\ ~disk'.marker => RowMoved \/ NoBack
    BY MarkerBeside
  <1>5. CrashSafe'
    <2>1. RowMoved' <=> RowMoved
      BY DEF RowMoved
    <2>2. RecoveredParts' = RecoveredParts
      <3>1. CASE NoBack
        BY <3>1, NoBackupFields DEF NoBack, RecoveredParts, Exists
      <3>2. CASE ~NoBack
        BY <1>4, <2>1, <3>2 DEF RecoveredParts, Committed, Restorable
      <3> QED
        BY <3>1, <3>2
    <2>3. RecoveredSource' = RecoveredSource
      BY <1>2 DEF RecoveredSource
    <2> QED
      BY <2>2, <2>3 DEF IInv, CrashSafe, Intact
  <1>6. (BackupShape /\ Written)'
    BY DEF IInv, BackupShape, Written, NoBack, Raw
  <1>7. Clean'
    BY <1>1, <1>2 DEF IInv, Clean, NoBack
  <1>8. Stashed'
    BY <1>1 DEF IInv, Stashed
  <1>9. Staging'
    BY DEF IInv, Staging, PutOut
  <1>10. RollingBack'
    BY <1>2 DEF RollingBack, AtsOf, StageAts, WriteAts
  <1>11. RollingForward'
    BY <1>1, <1>2 DEF IInv, RollingForward, RowMoved, NoBack, AtsOf
  <1>12. Threads'
    BY <1>1, <1>2 DEF IInv, Threads, Active, Unthreaded, Closing
  <1> QED
    BY <1>3, <1>5, <1>6, <1>7, <1>8, <1>9, <1>10, <1>11, <1>12 DEF IInv

-----------------------------------------------------------------------------
(* Arrive and Start: an upload.                                               *)
LEMMA ArriveInv ==
  ASSUME Scope, IInv, env.up = "up",
         req.gen < MaxGen,
         UNCHANGED <<disk, db, tx, thr, env>>,
         NEW s \in {"there", "absent"},
         req' = [req EXCEPT !.seen = s]
  PROVE  IInv'
  <1> USE DEF Exists, IInv, At
  <1>1. TypeOK'
    BY NoBackupType DEF TypeOK, Disk, Tx, Ats, Req
  <1> USE DEF TypeOK, Disk, Tx, Req, Env, Backup, Part, Row, Names, Source, Control,
          AtsOf, SettleAts, WriteAts, StageAts, UndoAts
  <1>2. CrashSafe'
    BY DEF CrashSafe, Intact, RecoveredParts, RecoveredSource, Committed, RowMoved,
       Restorable
  <1>3. Control'
    BY SMTT(60)
  <1>4. (Order /\ BackupShape /\ Clean /\ Stashed /\ Staging /\ Written /\ RollingBack /\
      RollingForward)'
    BY DEF Order, BeforeCommit, Target, BackupShape, NoBack, NoBackup, NoParts, Clean,
       NoLeft, Stashed, Staging, PutOut, Written, Raw, RollingBack, Committed, RowMoved,
       Restorable, RollingForward
  <1>5. Threads'
    BY DEF Threads, Active, Closing, Beside, Unthreaded, Target
  <1> QED
    BY <1>1, <1>2, <1>3, <1>4, <1>5 DEF IInv

LEMMA ArriveStep ==
  ASSUME Scope, IInv, Arrive
  PROVE  IInv'
    BY ArriveInv DEF Arrive, Waiting

LEMMA StartInv ==
  ASSUME Scope, IInv, req.at = "idle",
         env.up = "up", tx.holder = "none",
         UNCHANGED <<disk, db, tx, thr, env>>,
         NEW s \in BOOLEAN,
         NEW c \in Channels,
         req.gen < MaxGen,
         s \/ disk.part["manifest"] = Absent,
         req' = [req EXCEPT !.seen = "none", !.gen = @ + 1, !.channel = c, !.answer = "none",
                            !.replacing = s,
                            !.at = IF s THEN "before"
                                   ELSE IF c = "raw" THEN "write" ELSE "parse"]
  PROVE  IInv'
  <1> USE DEF Exists, IInv, At
  <1>1. TypeOK'
    <2>1. req.gen + 1 \in Gens /\ c \in {"sync", "defer", "raw"}
      BY ConstantsAssumption DEF TypeOK, Req, Gens
    <2>2. req' \in Req
      BY <2>1 DEF TypeOK, Req
    <2> QED
      BY <2>2 DEF TypeOK
  <1>2. Order'
    <2>1. tx.purpose = "none" /\ NoLeft
      BY ServingIsFree DEF Clean
    <2>2. ~s => ~Exists(db.row)
      <3>1. RecoveredParts["manifest"] = disk.part["manifest"]
        BY <2>1, NoBackupFields DEF NoLeft, NoBack, RecoveredParts, Parts, Moved, Copied
      <3>2. Exists(db.row) => PartOf(db.row, "manifest") = db.row
        BY DEF PartOf
      <3> QED
        BY <3>1, <3>2 DEF CrashSafe, Control, Intact, Parts, Moved, Copied
    <2>3. /\ req'.gen = req.gen + 1 /\ req'.channel = c /\ req'.replacing = s
          /\ req'.at \in {"before", "write", "parse"}
          /\ req'.at = "before" => s
          /\ req'.at = "parse" => c # "raw"
      BY DEF TypeOK, Req
    <2>4. req.gen \in Nat /\ (Exists(db.row) => db.row.gen \in Nat /\ db.row.gen <= req.gen)
      BY DEF TypeOK, Req, Gens, Order, Row, Version
    <2>5. c \in {"sync", "defer", "raw"}
      BY ConstantsAssumption
    <2> QED
      BY <2>1, <2>2, <2>3, <2>4, <2>5 DEF Order, BeforeCommit, NoLeft
  <1> USE DEF TypeOK, Disk, Tx, Req, Env, Backup, Part, Row, Names, Source, Control,
          AtsOf, SettleAts, WriteAts, StageAts, UndoAts
  <1>3. CrashSafe'
    BY ServingIsFree DEF CrashSafe, Intact, RecoveredParts, RecoveredSource, Committed,
       RowMoved, Restorable
  <1>4. Control'
    BY ServingIsFree
  <1>5. BackupShape'
    BY ServingIsFree DEF BackupShape, NoBack, NoBackup, NoParts
  <1>6. Clean'
    BY ServingIsFree DEF Clean, NoLeft, NoBack, NoBackup, NoParts
  <1>7. Stashed'
    BY ServingIsFree DEF Stashed
  <1>8. Staging'
    BY ServingIsFree DEF Staging, PutOut
  <1>9. Written'
    BY ServingIsFree DEF Written, Raw
  <1>10. RollingBack'
    BY ServingIsFree DEF RollingBack, PutOut, NoBack, NoBackup, NoParts, Committed,
       RowMoved, Restorable
  <1>11. RollingForward'
    BY ServingIsFree DEF RollingForward, NoLeft, RowMoved, NoBack, NoBackup, NoParts
  <1>12. Threads'
    BY ThreadsHandedOn, NoTxFields, ServingIsFree DEF Unthreaded, Closing, NoTx
  <1> QED
    BY <1>1, <1>2, <1>3, <1>4, <1>5, <1>6, <1>7, <1>8, <1>9, <1>10, <1>11, <1>12 DEF IInv

LEMMA StartStep ==
  ASSUME Scope, IInv, Start
  PROVE  IInv'
  <1>1. PICK c \in Channels :
          req' = [req EXCEPT !.seen = "none", !.gen = @ + 1, !.channel = c, !.answer = "none",
                             !.replacing = Replacing,
                             !.at = IF Replacing THEN "before"
                                    ELSE IF c = "raw" THEN "write" ELSE "parse"]
    BY ZenonT(60) DEF Start
  <1>2. /\ Replacing \in BOOLEAN /\ req.gen < MaxGen
        /\ Replacing \/ disk.part["manifest"] = Absent
        /\ UNCHANGED <<disk, db, tx, thr, env>> /\ req.at = "idle" /\ env.up = "up"
    BY DEF Replacing, ManifestThere, Exists, Start, Serving, Waiting, IInv, Order
  <1>3. CASE tx.holder = "none"
    BY ZenonT(60), <1>1, <1>2, <1>3, StartInv
  <1>4. CASE tx.holder = "summary"
    <2>1. Replacing
      BY <1>4, ManifestStays DEF Replacing, ManifestThere
    <2>2. req.gen + 1 \in Gens /\ c \in {"sync", "defer", "raw"}
      BY <1>2, ConstantsAssumption DEF IInv, TypeOK, Req, Gens
    <2>3. /\ req' \in Req /\ req'.at = "before" /\ req'.replacing /\ req'.gen = req.gen + 1
          /\ req'.seen = "none" /\ req'.channel = c
      BY <1>1, <2>1, <2>2 DEF IInv, TypeOK, Req
    <2>4. req.gen \in Nat /\ (Exists(db.row) => db.row.gen \in Nat /\ db.row.gen <= req.gen)
      BY DEF IInv, TypeOK, Req, Gens, Order, Row, Version, Exists
    <2>5. Order'
      BY <1>2, <1>4, <2>3, <2>4, BesideIs DEF Order, BeforeCommit, Exists
    <2>6. Beside'
      BY <2>3 DEF Beside
    <2> QED
      BY <1>2, <1>4, <2>3, <2>5, <2>6, BesideInv DEF IInv, TypeOK
  <1> QED
    BY <1>2, <1>3, <1>4, ServedBy

(* SettleFirst, Parse, TakeStash: up to the stash.                            *)
LEMMA SettleFirstInv ==
  ASSUME Scope, IInv, req.at = "before",
         env.up = "up", tx.holder = "none",
         UNCHANGED <<disk, db, thr, env>>,
         tx' = [NoTx EXCEPT !.holder = "request", !.at = "settle", !.purpose = "before",
                         !.target = Absent],
         req' = [req EXCEPT !.at = "locked"]
  PROVE  IInv'
  <1> USE DEF Exists, IInv, At
  <1>1. TypeOK'
    BY ZenonT(60), NoBackupType, NoTxFields, ServingIsFree DEF TypeOK, Disk, Tx, Ats, Req,
       NoTx
  <1> USE DEF TypeOK, Disk, Tx, Req, Env, Backup, Part, Row, Names, Source, Control,
          AtsOf, SettleAts, WriteAts, StageAts, UndoAts
  <1>2. CrashSafe'
    BY NoTxFields, ServingIsFree DEF CrashSafe, Intact, RecoveredParts, RecoveredSource,
       Committed, RowMoved, Restorable, NoTx
  <1>3. Control'
    BY NoTxFields, ServingIsFree DEF NoTx
  <1>4. Order'
    BY NoTxFields, ServingIsFree DEF Order, BeforeCommit, Target, NoTx
  <1>5. BackupShape'
    BY NoTxFields, ServingIsFree DEF BackupShape, NoBack, NoBackup, NoParts, NoTx
  <1>6. Clean'
    BY NoTxFields, ServingIsFree DEF Clean, NoLeft, NoBack, NoBackup, NoParts, NoTx
  <1>7. Stashed'
    BY NoTxFields, ServingIsFree DEF Stashed, NoTx
  <1>8. Staging'
    BY NoTxFields, ServingIsFree DEF Staging, PutOut, NoTx
  <1>9. Written'
    BY NoTxFields, ServingIsFree DEF Written, Raw, NoTx
  <1>10. RollingBack'
    BY NoTxFields, ServingIsFree DEF RollingBack, PutOut, NoBack, NoBackup, NoParts,
       Committed, RowMoved, Restorable, NoTx
  <1>11. RollingForward'
    BY NoTxFields, ServingIsFree DEF RollingForward, NoLeft, RowMoved, NoBack, NoBackup,
       NoParts, NoTx
  <1>12. Threads'
    BY ThreadsHandedOn, NoTxFields, ServingIsFree DEF Unthreaded, Closing, NoTx
  <1> QED
    BY <1>1, <1>2, <1>3, <1>4, <1>5, <1>6, <1>7, <1>8, <1>9, <1>10, <1>11, <1>12 DEF IInv

LEMMA SettleFirstStep ==
  ASSUME Scope, IInv, SettleFirst
  PROVE  IInv'
    BY SettleFirstInv DEF SettleFirst, Serving, Acquire, Request

LEMMA ParsedInv ==
  ASSUME Scope, IInv, req.at = "parse",
         env.up = "up", tx.holder = "none",
         UNCHANGED <<disk, db, thr, env, tx>>,
         NEW a \in {"persist", "stash", "fail"},
         a = "persist" => ~req.replacing,
         a = "stash" => req.replacing,
         req' = [req EXCEPT !.at = a]
  PROVE  IInv'
  <1> USE DEF Exists, IInv, At
  <1>1. TypeOK'
    BY NoBackupType, ServingIsFree DEF TypeOK, Disk, Tx, Ats, Req
  <1>2. Stashed'
    <2>1. tx.purpose = "none" /\ BeforeCommit
      BY ServingIsFree DEF BeforeCommit
    <2>2. a = "persist" => ~Exists(db.row)
      BY <2>1 DEF Order
    <2>3. req'.at = a /\ req'.channel = req.channel
      BY DEF TypeOK, Req
    <2> QED
      BY <2>1, <2>2, <2>3 DEF Stashed
  <1> USE DEF TypeOK, Disk, Tx, Req, Env, Backup, Part, Row, Names, Source, Control,
          AtsOf, SettleAts, WriteAts, StageAts, UndoAts
  <1>3. CrashSafe'
    BY ServingIsFree DEF CrashSafe, Intact, RecoveredParts, RecoveredSource, Committed,
       RowMoved, Restorable
  <1>4. Control'
    BY SMTT(60), ServingIsFree
  <1>5. (Order /\ BackupShape /\ Clean /\ Staging /\ Written /\ RollingBack
         /\ RollingForward)'
    BY ServingIsFree DEF Order, BeforeCommit, Target, BackupShape, NoBack, NoBackup,
       NoParts, Clean, NoLeft, Staging, PutOut, Written, Raw, RollingBack, Committed,
       RowMoved, Restorable, RollingForward
  <1>6. Threads'
    BY ThreadsHandedOn, NoTxFields, ServingIsFree DEF Unthreaded, Closing, NoTx
  <1> QED
    BY <1>1, <1>2, <1>3, <1>4, <1>5, <1>6 DEF IInv

LEMMA ParseStep ==
  ASSUME Scope, IInv, Parse
  PROVE  IInv'
  <1>1. PICK a \in {"persist", "stash", "fail"} :
          /\ a = "persist" => ~req.replacing
          /\ a = "stash" => req.replacing
          /\ req' = [req EXCEPT !.at = a]
    BY DEF Parse, Request
  <1>2. UNCHANGED <<disk, db, thr, env, tx>> /\ req.at = "parse" /\ env.up = "up"
    BY DEF Parse, Serving, Waiting
  <1>3. CASE tx.holder = "none"
    BY <1>1, <1>2, <1>3, ParsedInv
  <1>4. CASE tx.holder = "summary"
    <2>1. req.replacing /\ a # "persist" /\ tx.purpose \in {"rewrite", "commit"}
      BY <1>1, <1>2, <1>4, BesideIs
    <2>2. /\ req' \in Req /\ req'.at = a /\ req'.replacing /\ req'.gen = req.gen
          /\ req'.seen = req.seen /\ req'.channel = req.channel
      BY <1>1, <2>1 DEF IInv, TypeOK, Req
    <2>3. Order' /\ Beside'
      BY <1>2, <1>4, <2>1, <2>2 DEF IInv, Order, BeforeCommit, Exists, Beside
    <2> QED
      BY <1>2, <1>4, <2>2, <2>3, BesideInv DEF IInv, TypeOK
  <1> QED
    BY <1>2, <1>3, <1>4, ServedBy

LEMMA TakeStashInv ==
  ASSUME Scope, IInv, req.at = "stash",
         env.up = "up", tx.holder = "none",
         UNCHANGED <<disk, db, thr, env>>,
         tx' = [NoTx EXCEPT !.holder = "request", !.at = "settle", !.purpose = "stash",
                         !.target = Absent],
         req' = [req EXCEPT !.at = "locked"]
  PROVE  IInv'
  <1> USE DEF Exists, IInv, At
  <1>1. TypeOK'
    BY ZenonT(60), NoBackupType, NoTxFields, ServingIsFree DEF TypeOK, Disk, Tx, Ats, Req,
       NoTx
  <1> USE DEF TypeOK, Disk, Tx, Req, Env, Backup, Part, Row, Names, Source, Control,
          AtsOf, SettleAts, WriteAts, StageAts, UndoAts
  <1>2. CrashSafe'
    BY NoTxFields, ServingIsFree DEF CrashSafe, Intact, RecoveredParts, RecoveredSource,
       Committed, RowMoved, Restorable, NoTx
  <1>3. Control'
    BY NoTxFields, ServingIsFree DEF NoTx
  <1>4. Order'
    BY NoTxFields, ServingIsFree DEF Order, BeforeCommit, Target, NoTx
  <1>5. BackupShape'
    BY NoTxFields, ServingIsFree DEF BackupShape, NoBack, NoBackup, NoParts, NoTx
  <1>6. Clean'
    BY NoTxFields, ServingIsFree DEF Clean, NoLeft, NoBack, NoBackup, NoParts, NoTx
  <1>7. Stashed'
    BY NoTxFields, ServingIsFree DEF Stashed, NoTx
  <1>8. Staging'
    BY NoTxFields, ServingIsFree DEF Staging, PutOut, NoTx
  <1>9. Written'
    BY NoTxFields, ServingIsFree DEF Written, Raw, NoTx
  <1>10. RollingBack'
    BY NoTxFields, ServingIsFree DEF RollingBack, PutOut, NoBack, NoBackup, NoParts,
       Committed, RowMoved, Restorable, NoTx
  <1>11. RollingForward'
    BY NoTxFields, ServingIsFree DEF RollingForward, NoLeft, RowMoved, NoBack, NoBackup,
       NoParts, NoTx
  <1>12. Threads'
    BY ThreadsHandedOn, NoTxFields, ServingIsFree DEF Unthreaded, Closing, NoTx
  <1> QED
    BY <1>1, <1>2, <1>3, <1>4, <1>5, <1>6, <1>7, <1>8, <1>9, <1>10, <1>11, <1>12 DEF IInv

LEMMA TakeStashStep ==
  ASSUME Scope, IInv, TakeStash
  PROVE  IInv'
    BY TakeStashInv DEF TakeStash, Serving, Acquire, Request

(* Persist: the new source, with the stored one stashed.                      *)
LEMMA PersistInv ==
  ASSUME Scope, IInv, req.at = "persist",
         env.up = "up", tx.holder = "none",
         UNCHANGED <<db, thr, env, tx>>,
         disk' = [disk EXCEPT !.source = req.gen],
         req' = [req EXCEPT !.at = "write"]
  PROVE  IInv'
  <1> USE DEF Exists, IInv, At
  <1>1. TypeOK'
    <2>1. disk' \in Disk
      BY DEF TypeOK, Disk, Source, Req
    <2>2. req' \in Req
      BY DEF TypeOK, Req
    <2> QED
      BY <2>1, <2>2 DEF TypeOK
  <1>2. CrashSafe'
    <2>1. NoBack /\ ~disk.marker /\ (Exists(db.row) => Exists(disk.stash))
      BY DEF Clean, Stashed
    <2>2. ~RowMoved /\ ~RowMoved' /\ ~disk'.marker
      BY <2>1, NoBackupFields DEF NoBack, RowMoved, TypeOK, Disk
    <2>3. RecoveredParts' = RecoveredParts
      BY <2>2 DEF RecoveredParts, Committed, Restorable, TypeOK, Disk
    <2>4. Exists(db.row) => RecoveredSource' = RecoveredSource
      BY <2>1, <2>2 DEF RecoveredSource, Committed, TypeOK, Disk
    <2> QED
      BY <2>3, <2>4 DEF CrashSafe, Intact, SourceOf
  <1>3. Clean'
    <2>1. tx.purpose = "none" /\ tx.at = "none" /\ NoBack /\ ~disk.marker
           /\ req.channel # "raw"
      BY ServingIsFree DEF Clean, Order
    <2>2. NoBack' /\ ~disk'.marker /\ req'.channel = req.channel /\ req'.at = "write"
      BY <2>1 DEF NoBack, TypeOK, Disk, Req
    <2> QED
      BY <2>1, <2>2 DEF Clean
  <1> USE DEF TypeOK, Disk, Tx, Req, Env, Backup, Part, Row, Names, Source, Control,
          AtsOf, SettleAts, WriteAts, StageAts, UndoAts
  <1>4. Control'
    BY SMTT(60), ServingIsFree
  <1>5. (Order /\ BackupShape /\ Stashed /\ Staging /\ Written /\ RollingBack /\
      RollingForward)'
    BY ServingIsFree DEF Order, BeforeCommit, Target, BackupShape, NoBack, NoBackup,
       NoParts, Stashed, Staging, PutOut, Written, Raw, RollingBack, Committed, RowMoved,
       Restorable, RollingForward, NoLeft
  <1>6. Threads'
    BY ThreadsHandedOn, NoTxFields, ServingIsFree DEF Unthreaded, Closing, NoTx
  <1> QED
    BY <1>1, <1>2, <1>3, <1>4, <1>5, <1>6 DEF IInv

LEMMA PersistFailedInv ==
  ASSUME Scope, IInv, req.at = "persist",
         env.up = "up", tx.holder = "none",
         UNCHANGED <<disk, db, thr, tx>>,
         env' = [env EXCEPT !.faults = @ + 1],
         req' = [req EXCEPT !.at = "fail"]
  PROVE  IInv'
  <1> USE DEF Exists, IInv, At
  <1>1. TypeOK'
    BY NoBackupType, ServingIsFree DEF TypeOK, Disk, Tx, Ats, Req, Env
  <1> USE DEF TypeOK, Disk, Tx, Req, Env, Backup, Part, Row, Names, Source, Control,
          AtsOf, SettleAts, WriteAts, StageAts, UndoAts
  <1>2. CrashSafe'
    BY ServingIsFree DEF CrashSafe, Intact, RecoveredParts, RecoveredSource, Committed,
       RowMoved, Restorable
  <1>3. Control'
    BY SMTT(60), ServingIsFree
  <1>4. (Order /\ BackupShape /\ Clean /\ Stashed /\ Staging /\ Written /\ RollingBack /\
      RollingForward)'
    BY ServingIsFree DEF Order, BeforeCommit, Target, BackupShape, NoBack, NoBackup,
       NoParts, Clean, NoLeft, Stashed, Staging, PutOut, Written, Raw, RollingBack,
       Committed, RowMoved, Restorable, RollingForward
  <1>5. Threads'
    BY ThreadsHandedOn, NoTxFields, ServingIsFree DEF Unthreaded, Closing, NoTx
  <1> QED
    BY <1>1, <1>2, <1>3, <1>4, <1>5 DEF IInv

LEMMA PersistStep ==
  ASSUME Scope, IInv, Persist
  PROVE  IInv'
  <1>1. tx.holder = "none"
    BY ServedBy, BesideIs DEF Persist, Serving, Beside, Closing
  <1> QED
    BY <1>1, PersistInv, PersistFailedInv DEF Persist, Serving, Waiting, Request, Fault,
       NoFault

(* Write: the lock is taken for the rewrite.                                  *)
LEMMA WriteInv ==
  ASSUME Scope, IInv, req.at = "write",
         env.up = "up", tx.holder = "none",
         UNCHANGED <<disk, db, thr, env>>,
         tx' = [NoTx EXCEPT !.holder = "request", !.at = "settle",
                         !.purpose = IF req.channel = "raw" /\ req.replacing
                         THEN "stash" ELSE "rewrite", !.target = Target],
         req' = [req EXCEPT !.at = "locked"]
  PROVE  IInv'
  <1> USE DEF Exists, IInv, At
  <1>1. TypeOK'
    <2>1. tx' \in Tx
      BY TargetType, NoBackupType DEF NoTx, Tx, Ats, Names, Row
    <2>2. req' \in Req
      BY DEF TypeOK, Req
    <2> QED
      BY <2>1, <2>2 DEF TypeOK
  <1>2. Stashed'
    <2>1. tx.purpose = "none" /\ BeforeCommit
      BY ServingIsFree DEF BeforeCommit
    <2>2. /\ tx'.purpose = IF req.channel = "raw" /\ req.replacing THEN "stash" ELSE "rewrite"
          /\ tx'.at = "settle" /\ req'.at = "locked"
          /\ req'.channel = req.channel /\ req'.gen = req.gen
      BY DEF NoTx, TypeOK, Req
    <2>3. ~req.replacing => ~Exists(db.row)
      BY <2>1 DEF Order
    <2>4. req.channel # "raw" => (Exists(db.row) => Exists(disk.stash))
           /\ disk.source = req.gen
      BY DEF Stashed
    <2> QED
      BY <2>2, <2>3, <2>4 DEF Stashed
  <1>3. Staging'
    <2>1. tx'.at = "settle" /\ tx'.names = {}
      BY DEF NoTx
    <2>2. ~disk.marker
      BY DEF Clean
    <2> QED
      BY <2>1, <2>2 DEF Staging, StageAts, WriteAts
  <1> USE DEF TypeOK, Disk, Tx, Req, Env, Backup, Part, Row, Names, Source, Control,
          AtsOf, SettleAts, WriteAts, StageAts, UndoAts
  <1>4. CrashSafe'
    BY NoTxFields, ServingIsFree, TargetType DEF CrashSafe, Intact, RecoveredParts,
       RecoveredSource, Committed, RowMoved, Restorable, NoTx
  <1>5. Control'
    BY SMTT(60), NoTxFields, ServingIsFree, TargetType DEF NoTx
  <1>6. (Order /\ BackupShape /\ Clean /\ Written /\ RollingBack /\ RollingForward)'
    BY NoTxFields, ServingIsFree, TargetType DEF Order, BeforeCommit, Target, BackupShape,
       NoBack, NoBackup, NoParts, Clean, NoLeft, Written, Raw, RollingBack, PutOut,
       Committed, RowMoved, Restorable, RollingForward, NoTx
  <1>7. Threads'
    BY ThreadsHandedOn, NoTxFields, ServingIsFree DEF Unthreaded, Closing, NoTx
  <1> QED
    BY <1>1, <1>2, <1>3, <1>4, <1>5, <1>6, <1>7 DEF IInv

LEMMA WriteStep ==
  ASSUME Scope, IInv, Write
  PROVE  IInv'
    BY WriteInv DEF Write, Serving, Acquire, Request

(* Discard: a deferred upload drops its stash in a hold of its own.           *)
LEMMA DiscardInv ==
  ASSUME Scope, IInv, req.at = "discard",
         env.up = "up", tx.holder = "none",
         UNCHANGED <<disk, db, thr, env>>,
         tx' = [NoTx EXCEPT !.holder = "request", !.at = "fold", !.purpose = "close",
                         !.target = Absent],
         req' = [req EXCEPT !.at = "locked"]
  PROVE  IInv'
  <1>1. /\ tx'.holder = "request" /\ tx'.at = "fold" /\ tx'.purpose = "close"
        /\ tx'.names = {} /\ tx' \in Tx
    BY NoBackupType DEF NoTx, Tx, Ats, Names, Row
  <1>2. /\ req' \in Req /\ req'.at = "locked" /\ req'.gen = req.gen
        /\ req'.channel = "defer" /\ req'.replacing = req.replacing /\ req'.seen = req.seen
    BY DEF IInv, TypeOK, Req, Order
  <1>3. tx.purpose = "none" /\ tx.at = "none"
    BY ServingIsFree DEF IInv
  <1>4. /\ NoBack /\ (disk.marker <=> Exists(disk.stash)) /\ Exists(disk.source)
        /\ req.channel \in Channels
    BY DEF IInv, RollingForward, Order
  <1>5. TypeOK' /\ Control'
    BY <1>1, <1>2 DEF IInv, TypeOK, Control, AtsOf
  <1>6. (CrashSafe /\ BackupShape)'
    BY DEF IInv, CrashSafe, Intact, RecoveredParts, RecoveredSource, Committed, RowMoved,
       Restorable, BackupShape, NoBack
  <1>7. Order'
    BY <1>1, <1>2, <1>3, <1>4 DEF IInv, Order, BeforeCommit, Exists
  <1>8. (Clean /\ Stashed)'
    BY <1>1, <1>2 DEF Clean, Stashed
  <1>9. (Staging /\ Written /\ RollingBack)'
    BY <1>1 DEF Staging, Written, RollingBack, StageAts, WriteAts
  <1>10. RollingForward'
    BY <1>1, <1>2, <1>4 DEF RollingForward, NoBack
  <1>11. Threads'
    <2>1. Unthreaded /\ req'.gen = req.gen /\ req'.channel = req.channel
      BY <1>2 DEF Unthreaded, IInv, Order
    <2> QED
      BY <1>1, <1>3, <2>1, ThreadsHandedOn DEF IInv
  <1> QED
    BY <1>5, <1>6, <1>7, <1>8, <1>9, <1>10, <1>11 DEF IInv

LEMMA DiscardStep ==
  ASSUME Scope, IInv, Discard
  PROVE  IInv'
  BY DiscardInv DEF Discard, Serving, Acquire, Request

(* Close: stash and marker go, outside the lock.                              *)
LEMMA CloseInv ==
  ASSUME Scope, IInv, req.at = "close",
         env.up = "up", tx.holder = "none",
         UNCHANGED <<db, thr, env, tx>>,
         disk' = Cleared(IF Exists(disk.stash) THEN Folded ELSE disk),
         req' = [req EXCEPT !.at = "close_look"]
  PROVE  IInv'
  <1> USE DEF Exists, IInv, At
  <1>1. TypeOK'
    BY ZenonT(60), NoBackupType, ServingIsFree DEF TypeOK, Disk, Tx, Ats, Req, Cleared,
       Folded
  <1>2. CrashSafe'
    <2>1. /\ NoBack /\ (disk.marker <=> Exists(disk.stash))
          /\ disk'.part = disk.part /\ disk'.backup = disk.backup
                 /\ disk'.marker = disk.marker
          /\ ~Exists(disk'.stash)
          /\ disk'.source = IF Exists(disk.stash) /\ ~Exists(disk.source)
                             THEN disk.stash ELSE disk.source
      BY DEF RollingForward, Cleared, Folded, TypeOK, Disk
    <2>2. \A p \in Parts : RecoveredParts[p] = disk.part[p]
           /\ RecoveredParts'[p] = disk.part[p]
      BY <2>1, NoBackupFields DEF NoBack, RecoveredParts
    <2>3. RecoveredSource' = RecoveredSource
      BY <2>1 DEF RecoveredSource, Committed
    <2> QED
      BY <2>2, <2>3 DEF CrashSafe, Intact
  <1> USE DEF TypeOK, Disk, Tx, Req, Env, Backup, Part, Row, Names, Source, Control,
          AtsOf, SettleAts, WriteAts, StageAts, UndoAts
  <1>3. Control'
    BY ServingIsFree DEF Cleared, Folded
  <1>4. Order'
    BY ServingIsFree DEF Order, BeforeCommit, Target, Cleared, Folded
  <1>5. BackupShape'
    BY ServingIsFree DEF BackupShape, NoBack, NoBackup, NoParts, Cleared, Folded
  <1>6. Clean'
    BY ServingIsFree DEF Clean, NoLeft, NoBack, NoBackup, NoParts, Cleared, Folded
  <1>7. Stashed'
    BY ServingIsFree DEF Stashed, Cleared, Folded
  <1>8. Staging'
    BY ServingIsFree DEF Staging, PutOut, Cleared, Folded
  <1>9. Written'
    BY ServingIsFree DEF Written, Raw, Cleared, Folded
  <1>10. RollingBack'
    BY ServingIsFree DEF RollingBack, PutOut, NoBack, NoBackup, NoParts, Committed,
       RowMoved, Restorable, Cleared, Folded
  <1>11. RollingForward'
    BY ServingIsFree DEF RollingForward, NoLeft, RowMoved, NoBack, NoBackup, NoParts,
       Cleared, Folded
  <1>12. Threads'
    BY ThreadsHandedOn, NoTxFields, ServingIsFree DEF Unthreaded, Closing, NoTx
  <1> QED
    BY <1>1, <1>2, <1>3, <1>4, <1>5, <1>6, <1>7, <1>8, <1>9, <1>10, <1>11, <1>12 DEF IInv

LEMMA CloseLookInv ==
  ASSUME Scope, IInv, req.at = "close_look",
         env.up = "up", tx.holder = "none",
         UNCHANGED <<db, thr, env, tx, disk>>,
         req' = [req EXCEPT !.at = "close_unmark"]
  PROVE  IInv'
  <1> USE DEF Exists, IInv, At
  <1>1. TypeOK'
    BY NoBackupType, ServingIsFree DEF TypeOK, Disk, Tx, Ats, Req
  <1> USE DEF TypeOK, Disk, Tx, Req, Env, Backup, Part, Row, Names, Source, Control,
          AtsOf, SettleAts, WriteAts, StageAts, UndoAts
  <1>2. CrashSafe'
    BY ServingIsFree DEF CrashSafe, Intact, RecoveredParts, RecoveredSource, Committed,
       RowMoved, Restorable
  <1>3. Control'
    BY SMTT(60), ServingIsFree
  <1>4. (Order /\ BackupShape /\ Clean /\ Stashed /\ Staging /\ Written /\ RollingBack /\
      RollingForward)'
    BY ServingIsFree DEF Order, BeforeCommit, Target, BackupShape, NoBack, NoBackup,
       NoParts, Clean, NoLeft, Stashed, Staging, PutOut, Written, Raw, RollingBack,
       Committed, RowMoved, Restorable, RollingForward
  <1>5. Threads'
    BY ThreadsHandedOn, NoTxFields, ServingIsFree DEF Unthreaded, Closing, NoTx
  <1> QED
    BY <1>1, <1>2, <1>3, <1>4, <1>5 DEF IInv

LEMMA CloseUnmarkInv ==
  ASSUME Scope, IInv, req.at = "close_unmark",
         env.up = "up", tx.holder = "none",
         UNCHANGED <<db, thr, env, tx>>,
         disk' = [disk EXCEPT !.marker = FALSE],
         req' = [req EXCEPT !.at = "idle", !.answer = "ok", !.acked = req.gen]
  PROVE  IInv'
  <1> USE DEF Exists, IInv, At
  <1>1. TypeOK'
    BY ZenonT(60), NoBackupType, ServingIsFree DEF TypeOK, Disk, Tx, Ats, Req
  <1>2. CrashSafe'
    <2>1. /\ NoBack /\ ~Exists(disk.stash) /\ ~Exists(disk'.stash)
          /\ disk'.part = disk.part /\ disk'.backup = disk.backup
                 /\ disk'.source = disk.source
      BY DEF RollingForward, TypeOK, Disk
    <2>2. \A p \in Parts : RecoveredParts[p] = disk.part[p]
           /\ RecoveredParts'[p] = disk.part[p]
      BY <2>1, NoBackupFields DEF NoBack, RecoveredParts
    <2>3. RecoveredSource' = RecoveredSource
      BY <2>1 DEF RecoveredSource
    <2> QED
      BY <2>2, <2>3 DEF CrashSafe, Intact
  <1>3. Clean'
    <2>1. tx.purpose = "none" /\ tx.at = "none" /\ req'.at = "idle"
      BY ServingIsFree DEF TypeOK, Req
    <2>2. NoBack /\ ~Exists(disk.stash)
      BY DEF RollingForward
    <2>3. NoLeft'
      BY <2>2 DEF NoLeft, NoBack, TypeOK, Disk
    <2> QED
      BY <2>1, <2>3 DEF Clean
  <1> USE DEF TypeOK, Disk, Tx, Req, Env, Backup, Part, Row, Names, Source, Control,
          AtsOf, SettleAts, WriteAts, StageAts, UndoAts
  <1>4. Control'
    BY ServingIsFree
  <1>5. Order'
    BY ServingIsFree DEF Order, BeforeCommit, Target
  <1>6. BackupShape'
    BY ServingIsFree DEF BackupShape, NoBack, NoBackup, NoParts
  <1>7. Stashed'
    BY ServingIsFree DEF Stashed
  <1>8. Staging'
    BY ServingIsFree DEF Staging, PutOut
  <1>9. Written'
    BY ServingIsFree DEF Written, Raw
  <1>10. RollingBack'
    BY ServingIsFree DEF RollingBack, PutOut, NoBack, NoBackup, NoParts, Committed,
       RowMoved, Restorable
  <1>11. RollingForward'
    BY ServingIsFree DEF RollingForward, NoLeft, RowMoved, NoBack, NoBackup, NoParts
  <1>12. Threads'
    BY ThreadsHandedOn, NoTxFields, ServingIsFree DEF Unthreaded, Closing, NoTx
  <1> QED
    BY <1>1, <1>2, <1>3, <1>4, <1>5, <1>6, <1>7, <1>8, <1>9, <1>10, <1>11, <1>12 DEF IInv

LEMMA CloseStep ==
  ASSUME Scope, IInv, Close
  PROVE  IInv'
  <1>1. CASE tx.holder = "none"
    <2>1. CASE req.at = "close"
      BY <1>1, <2>1, CloseInv, NoOtherFault DEF Close, Serving, Waiting, Request, Fault, NoFault
    <2>2. CASE req.at = "close_look"
      <3>1. ~disk.backup.here
        BY <1>1, <2>2, NoBackupFields DEF IInv, RollingForward, NoBack
      <3> QED
        BY <1>1, <2>2, <3>1, CloseLookInv DEF Close, Serving, Waiting, Request
    <2>3. CASE req.at = "close_unmark"
      BY <1>1, <2>3, CloseUnmarkInv, NoOtherFault DEF Close, Serving, Waiting, Reply, Fault,
         NoFault
    <2> QED
      BY <2>1, <2>2, <2>3 DEF Close, Serving
  <1>2. CASE tx.holder = "summary"
    <2>1. /\ req.at \in {"close", "close_look", "close_unmark"} /\ UNCHANGED <<db, tx, thr>>
          /\ req.channel = "defer" /\ Defers /\ ~Exists(disk.stash)
          /\ tx.purpose \in {"rewrite", "commit"}
      BY <1>2, BesideIs DEF Close, Serving, Waiting, Beside, Closing, Defers
    <2>2. /\ env' = env
          /\ disk' \in {disk, Cleared(disk), [disk EXCEPT !.marker = FALSE]}
      BY <2>1, NoOtherFault DEF Close, NoFault, Fault
    <2>3. /\ req' \in Req /\ req'.at \in {"idle", "close_look", "close_unmark"}
          /\ req'.replacing = req.replacing /\ req'.gen = req.gen
          /\ req'.seen = req.seen /\ req'.channel = req.channel
      BY <2>1 DEF Close, Request, Reply, IInv, TypeOK, Req
    <2>4. /\ disk' \in Disk
          /\ disk'.part = disk.part /\ disk'.source = disk.source /\ disk'.stash = disk.stash
          /\ disk'.backup = disk.backup /\ disk'.marker \in {disk.marker, FALSE}
      BY <2>2 DEF Cleared, IInv, TypeOK, Disk
    <2>5. Order' /\ Beside'
      BY <1>2, <2>1, <2>3, <2>4 DEF IInv, Order, BeforeCommit, Exists, Beside, Closing
    <2> QED
      BY <1>2, <2>1, <2>2, <2>3, <2>4, <2>5, BesideInv
  <1> QED
    BY <1>1, <1>2, ServedBy DEF Close, Serving

(* FailReplacement: the stored source is put back.                            *)
LEMMA FailKeptInv ==
  ASSUME Scope, IInv, req.at = "fail",
         env.up = "up", tx.holder = "none",
         UNCHANGED <<disk, db, thr, env, tx>>,
         req.replacing,
         req' = [req EXCEPT !.at = "idle", !.answer = "failed"],
         ~Exists(disk.stash)
  PROVE  IInv'
  <1> USE DEF Exists, IInv, At
  <1>1. TypeOK'
    BY ZenonT(60), NoBackupType, ServingIsFree DEF TypeOK, Disk, Tx, Ats, Req
  <1> USE DEF TypeOK, Disk, Tx, Req, Env, Backup, Part, Row, Names, Source, Control,
          AtsOf, SettleAts, WriteAts, StageAts, UndoAts
  <1>2. CrashSafe'
    BY ServingIsFree DEF CrashSafe, Intact, RecoveredParts, RecoveredSource, Committed,
       RowMoved, Restorable
  <1>3. Control'
    BY ServingIsFree
  <1>4. Order'
    BY ServingIsFree DEF Order, BeforeCommit, Target
  <1>5. BackupShape'
    BY ServingIsFree DEF BackupShape, NoBack, NoBackup, NoParts
  <1>6. Clean'
    BY ServingIsFree DEF Clean, NoLeft, NoBack, NoBackup, NoParts
  <1>7. Stashed'
    BY ServingIsFree DEF Stashed
  <1>8. Staging'
    BY ServingIsFree DEF Staging, PutOut
  <1>9. Written'
    BY ServingIsFree DEF Written, Raw
  <1>10. RollingBack'
    BY ServingIsFree DEF RollingBack, PutOut, NoBack, NoBackup, NoParts, Committed,
       RowMoved, Restorable
  <1>11. RollingForward'
    BY ServingIsFree DEF RollingForward, NoLeft, RowMoved, NoBack, NoBackup, NoParts
  <1>12. Threads'
    BY ThreadsHandedOn, NoTxFields, ServingIsFree DEF Unthreaded, Closing, NoTx
  <1> QED
    BY <1>1, <1>2, <1>3, <1>4, <1>5, <1>6, <1>7, <1>8, <1>9, <1>10, <1>11, <1>12 DEF IInv

LEMMA FailStashedInv ==
  ASSUME Scope, IInv, req.at = "fail",
         env.up = "up", tx.holder = "none",
         UNCHANGED <<disk, db, thr, env, tx>>,
         req.replacing,
         req' = [req EXCEPT !.at = "fail_rm"],
         Exists(disk.stash)
  PROVE  IInv'
  <1> USE DEF Exists, IInv, At
  <1>1. TypeOK'
    BY NoBackupType, ServingIsFree DEF TypeOK, Disk, Tx, Ats, Req
  <1> USE DEF TypeOK, Disk, Tx, Req, Env, Backup, Part, Row, Names, Source, Control,
          AtsOf, SettleAts, WriteAts, StageAts, UndoAts
  <1>2. CrashSafe'
    BY ServingIsFree DEF CrashSafe, Intact, RecoveredParts, RecoveredSource, Committed,
       RowMoved, Restorable
  <1>3. Control'
    BY SMTT(60), ServingIsFree
  <1>4. (Order /\ BackupShape /\ Clean /\ Stashed /\ Staging /\ Written /\ RollingBack /\
      RollingForward)'
    BY ServingIsFree DEF Order, BeforeCommit, Target, BackupShape, NoBack, NoBackup,
       NoParts, Clean, NoLeft, Stashed, Staging, PutOut, Written, Raw, RollingBack,
       Committed, RowMoved, Restorable, RollingForward
  <1>5. Threads'
    BY ThreadsHandedOn, NoTxFields, ServingIsFree DEF Unthreaded, Closing, NoTx
  <1> QED
    BY <1>1, <1>2, <1>3, <1>4, <1>5 DEF IInv

LEMMA FailRmInv ==
  ASSUME Scope, IInv, req.at = "fail_rm",
         env.up = "up", tx.holder = "none",
         UNCHANGED <<db, thr, env, tx>>,
         req' = [req EXCEPT !.at = "fail_mv"],
         disk' = SourceRemoved
  PROVE  IInv'
  <1> USE DEF Exists, IInv, At
  <1>1. TypeOK'
    BY NoBackupType, ServingIsFree DEF TypeOK, Disk, Tx, Ats, Req, SourceRemoved
  <1>2. CrashSafe'
    <2>1. /\ NoBack /\ ~disk.marker /\ Exists(disk.stash) /\ disk'.stash = disk.stash
          /\ disk'.part = disk.part /\ disk'.backup = disk.backup /\ ~disk'.marker
      BY DEF Clean, SourceRemoved, TypeOK, Disk
    <2>2. \A p \in Parts : RecoveredParts[p] = disk.part[p]
           /\ RecoveredParts'[p] = disk.part[p]
      BY <2>1, NoBackupFields DEF NoBack, RecoveredParts
    <2>3. ~Committed /\ ~Committed'
      BY <2>1, NoBackupFields DEF NoBack, Committed, RowMoved
    <2>4. RecoveredSource' = RecoveredSource
      BY <2>1, <2>3 DEF RecoveredSource
    <2> QED
      BY <2>2, <2>4 DEF CrashSafe, Intact
  <1> USE DEF TypeOK, Disk, Tx, Req, Env, Backup, Part, Row, Names, Source, Control,
          AtsOf, SettleAts, WriteAts, StageAts, UndoAts
  <1>3. Control'
    BY SMTT(60), ServingIsFree DEF SourceRemoved
  <1>4. (Order /\ BackupShape /\ Clean /\ Stashed /\ Staging /\ Written /\ RollingBack /\
      RollingForward)'
    BY ServingIsFree DEF Order, BeforeCommit, Target, BackupShape, NoBack, NoBackup,
       NoParts, Clean, NoLeft, Stashed, Staging, PutOut, Written, Raw, RollingBack,
       Committed, RowMoved, Restorable, RollingForward, SourceRemoved
  <1>5. Threads'
    BY ThreadsHandedOn, NoTxFields, ServingIsFree DEF Unthreaded, Closing, NoTx
  <1> QED
    BY <1>1, <1>2, <1>3, <1>4, <1>5 DEF IInv

LEMMA FailMvInv ==
  ASSUME Scope, IInv, req.at = "fail_mv",
         env.up = "up", tx.holder = "none",
         UNCHANGED <<db, thr, env, tx>>,
         req' = [req EXCEPT !.at = "idle", !.answer = "failed"],
         disk' = StashMoved
  PROVE  IInv'
  <1> USE DEF Exists, IInv, At
  <1>1. TypeOK'
    BY ZenonT(60), NoBackupType, ServingIsFree DEF TypeOK, Disk, Tx, Ats, Req, StashMoved
  <1>2. CrashSafe'
    <2>1. /\ NoBack /\ ~disk.marker /\ Exists(disk.stash) /\ ~Exists(disk.source)
          /\ disk'.part = disk.part /\ disk'.backup = disk.backup /\ ~disk'.marker
          /\ ~Exists(disk'.stash) /\ disk'.source = disk.stash
      BY DEF Clean, StashMoved, TypeOK, Disk
    <2>2. \A p \in Parts : RecoveredParts[p] = disk.part[p]
           /\ RecoveredParts'[p] = disk.part[p]
      BY <2>1, NoBackupFields DEF NoBack, RecoveredParts
    <2>3. RecoveredSource' = RecoveredSource
      BY <2>1, NoBackupFields DEF RecoveredSource, NoBack, Committed, RowMoved
    <2> QED
      BY <2>2, <2>3 DEF CrashSafe, Intact
  <1> USE DEF TypeOK, Disk, Tx, Req, Env, Backup, Part, Row, Names, Source, Control,
          AtsOf, SettleAts, WriteAts, StageAts, UndoAts
  <1>3. Control'
    BY ServingIsFree DEF StashMoved
  <1>4. Order'
    BY ServingIsFree DEF Order, BeforeCommit, Target, StashMoved
  <1>5. BackupShape'
    BY ServingIsFree DEF BackupShape, NoBack, NoBackup, NoParts, StashMoved
  <1>6. Clean'
    BY ServingIsFree DEF Clean, NoLeft, NoBack, NoBackup, NoParts, StashMoved
  <1>7. Stashed'
    BY ServingIsFree DEF Stashed, StashMoved
  <1>8. Staging'
    BY ServingIsFree DEF Staging, PutOut, StashMoved
  <1>9. Written'
    BY ServingIsFree DEF Written, Raw, StashMoved
  <1>10. RollingBack'
    BY ServingIsFree DEF RollingBack, PutOut, NoBack, NoBackup, NoParts, Committed,
       RowMoved, Restorable, StashMoved
  <1>11. RollingForward'
    BY ServingIsFree DEF RollingForward, NoLeft, RowMoved, NoBack, NoBackup, NoParts,
       StashMoved
  <1>12. Threads'
    BY ThreadsHandedOn, NoTxFields, ServingIsFree DEF Unthreaded, Closing, NoTx
  <1> QED
    BY <1>1, <1>2, <1>3, <1>4, <1>5, <1>6, <1>7, <1>8, <1>9, <1>10, <1>11, <1>12 DEF IInv

LEMMA FailReplacementStep ==
  ASSUME Scope, IInv, FailReplacement
  PROVE  IInv'
  <1>1. CASE tx.holder = "none"
    <2>1. CASE req.at = "fail"
      BY <1>1, <2>1, FailKeptInv, FailStashedInv DEF FailReplacement, WasReplacing, Serving,
         Waiting, Request, Reply
    <2>2. CASE req.at = "fail_rm"
      BY <1>1, <2>2, FailRmInv, NoOtherFault DEF FailReplacement, Serving, Waiting, Request,
         Fault, NoFault
    <2>3. CASE req.at = "fail_mv"
      BY <1>1, <2>3, FailMvInv, NoOtherFault DEF FailReplacement, Serving, Waiting, Reply,
         Fault, NoFault
    <2> QED
      BY <2>1, <2>2, <2>3 DEF FailReplacement, Serving
  <1>2. CASE tx.holder = "summary"
    <2>1. /\ req.at = "fail" /\ ~Exists(disk.stash) /\ tx.purpose \in {"rewrite", "commit"}
      BY <1>2, BesideIs DEF FailReplacement, Serving, Beside, Closing
    <2>2. UNCHANGED <<disk, db, tx, thr, env>> /\ Reply("failed")
      BY <2>1 DEF FailReplacement, Serving, Waiting
    <2>3. /\ req' \in Req /\ req'.at = "idle" /\ req'.replacing = req.replacing
          /\ req'.gen = req.gen /\ req'.seen = req.seen
      BY <2>2 DEF Reply, IInv, TypeOK, Req
    <2>4. Order' /\ Beside'
      BY <1>2, <2>1, <2>2, <2>3 DEF IInv, Order, BeforeCommit, Exists, Beside
    <2> QED
      BY <1>2, <2>2, <2>3, <2>4, BesideInv DEF IInv, TypeOK
  <1> QED
    BY <1>1, <1>2, ServedBy DEF FailReplacement, Serving

(* FailNew: an attempt at a new document is cleared away.                     *)
LEMMA FailNewInv ==
  ASSUME Scope, IInv, req.at = "fail",
         env.up = "up", tx.holder = "none",
         ~req.replacing,
         UNCHANGED <<db, thr, env, tx>>,
         req' = [req EXCEPT !.at = "fail_row"],
         disk' = [part |-> NoParts, source |-> Absent, stash |-> Absent,
                   marker |-> FALSE, backup |-> NoBackup, failure |-> FALSE]
  PROVE  IInv'
  <1> USE DEF Exists, IInv, At
  <1>1. TypeOK'
    <2>1. disk' \in Disk
      BY NoBackupType DEF Disk, NoParts, Part
    <2>2. req' \in Req
      BY DEF TypeOK, Req
    <2> QED
      BY <2>1, <2>2 DEF TypeOK
  <1>2. CrashSafe'
    <2>1. ~Exists(db.row)
      BY DEF Order, BeforeCommit
    <2> QED
      BY <2>1 DEF CrashSafe, Intact, PartOf, SourceOf
  <1> USE DEF TypeOK, Disk, Tx, Req, Env, Backup, Part, Row, Names, Source, Control,
          AtsOf, SettleAts, WriteAts, StageAts, UndoAts
  <1>3. Control'
    BY SMTT(60), ServingIsFree, NoBackupType, NoBackupFields
  <1>4. (Order /\ BackupShape /\ Clean /\ Stashed /\ Staging /\ Written /\ RollingBack /\
      RollingForward)'
    BY ServingIsFree, NoBackupType, NoBackupFields DEF Order, BeforeCommit, Target,
       BackupShape, NoBack, NoBackup, NoParts, Clean, NoLeft, Stashed, Staging, PutOut,
       Written, Raw, RollingBack, Committed, RowMoved, Restorable, RollingForward
  <1>5. Threads'
    BY ThreadsHandedOn, NoTxFields, ServingIsFree DEF Unthreaded, Closing, NoTx
  <1> QED
    BY <1>1, <1>2, <1>3, <1>4, <1>5 DEF IInv

LEMMA FailNewKeptInv ==
  ASSUME Scope, IInv, req.at = "fail",
         env.up = "up", tx.holder = "none",
         ~req.replacing,
         UNCHANGED <<disk, db, thr, tx>>,
         env' = [env EXCEPT !.faults = @ + 1],
         req' = [req EXCEPT !.at = "idle", !.answer = "failed"]
  PROVE  IInv'
  <1> USE DEF Exists, IInv, At
  <1>1. TypeOK'
    <2>1. env' \in Env
      BY DEF TypeOK, Env
    <2>2. req' \in Req
      BY DEF TypeOK, Req
    <2> QED
      BY <2>1, <2>2 DEF TypeOK
  <1> USE DEF TypeOK, Disk, Tx, Req, Env, Backup, Part, Row, Names, Source, Control,
          AtsOf, SettleAts, WriteAts, StageAts, UndoAts
  <1>2. CrashSafe'
    BY ServingIsFree DEF CrashSafe, Intact, RecoveredParts, RecoveredSource, Committed,
       RowMoved, Restorable
  <1>3. Control'
    BY SMTT(60), ServingIsFree
  <1>4. (Order /\ BackupShape /\ Stashed /\ Staging /\ Written /\ RollingBack /\
      RollingForward)'
    BY ServingIsFree DEF Order, BeforeCommit, Target, BackupShape, NoBack, NoBackup,
       NoParts, Stashed, Staging, PutOut, Written, Raw, RollingBack, Committed, RowMoved,
       Restorable, RollingForward, NoLeft
  <1>5. Clean'
    BY ServingIsFree DEF Clean, NoLeft, NoBack, NoBackup, NoParts, Order, BeforeCommit
  <1>6. Threads'
    BY ThreadsHandedOn, NoTxFields, ServingIsFree DEF Unthreaded, Closing, NoTx
  <1> QED
    BY <1>1, <1>2, <1>3, <1>4, <1>5, <1>6 DEF IInv

LEMMA FailRowInv ==
  ASSUME Scope, IInv, req.at = "fail_row",
         env.up = "up", tx.holder = "none",
         UNCHANGED <<thr, tx>>,
         disk' = [disk EXCEPT !.failure = TRUE],
         req' = [req EXCEPT !.at = "idle", !.answer = "failed"],
         db' = [row |-> Absent, fts |-> Absent] \/ db' = db,
         env' = [env EXCEPT !.faults = env'.faults, !.textFault = env'.textFault],
         env'.faults \in Nat,
         env'.textFault \in BOOLEAN
  PROVE  IInv'
  <1> USE DEF Exists, IInv, At
  <1>1. TypeOK'
    <2>1. disk' \in Disk /\ db' \in [row : Row, fts : Row]
      <3>1. disk' \in Disk
        BY DEF TypeOK, Disk
      <3>2. [row |-> Absent, fts |-> Absent] \in [row : Row, fts : Row]
        BY NoBackupType
      <3> QED
        BY <3>1, <3>2 DEF TypeOK
    <2>2. env' \in Env
      BY DEF TypeOK, Env
    <2>3. req' \in Req
      BY DEF TypeOK, Req
    <2> QED
      BY <2>1, <2>2, <2>3 DEF TypeOK
  <1>2. CrashSafe'
    <2>1. ~Exists(db.row)
      BY DEF Order, BeforeCommit, Clean
    <2>2. ~Exists(db'.row)
      BY <2>1
    <2> QED
      BY <2>2 DEF CrashSafe, Intact, PartOf, SourceOf
  <1> USE DEF TypeOK, Disk, Tx, Req, Env, Backup, Part, Row, Names, Source, Control,
          AtsOf, SettleAts, WriteAts, StageAts, UndoAts
  <1>3. Control'
    BY ZenonT(60), ServingIsFree
  <1>4. Order'
    BY ServingIsFree DEF Order, BeforeCommit, Target
  <1>5. BackupShape'
    BY ServingIsFree DEF BackupShape, NoBack, NoBackup, NoParts
  <1>6. Clean'
    BY ServingIsFree DEF Clean, NoLeft, NoBack, NoBackup, NoParts
  <1>7. Stashed'
    BY SMTT(60), ServingIsFree DEF Stashed
  <1>8. Staging'
    BY ServingIsFree DEF Staging, PutOut
  <1>9. Written'
    BY ServingIsFree DEF Written, Raw
  <1>10. RollingBack'
    BY ServingIsFree DEF RollingBack, PutOut, NoBack, NoBackup, NoParts, Committed,
       RowMoved, Restorable
  <1>11. RollingForward'
    BY ServingIsFree DEF RollingForward, NoLeft, RowMoved, NoBack, NoBackup, NoParts
  <1>12. Threads'
    <2>1. ~Exists(db.row)
      BY DEF Order, BeforeCommit, Clean
    <2>2. db'.row = db.row
      BY <2>1
    <2> QED
      BY <2>2, ThreadsHandedOn, ServingIsFree DEF Unthreaded, Closing
  <1> QED
    BY <1>1, <1>2, <1>3, <1>4, <1>5, <1>6, <1>7, <1>8, <1>9, <1>10, <1>11, <1>12 DEF IInv

LEMMA FailNewIsFree ==
  ASSUME IInv, FailNew
  PROVE  tx.holder = "none" /\ ~Exists(db.row)
  <1>1. tx.holder = "none"
    BY ServedBy, BesideIs DEF FailNew, Serving, WasReplacing, Beside, Closing
  <1> QED
    BY <1>1 DEF FailNew, Serving, WasReplacing, IInv, Clean, Order, BeforeCommit

LEMMA FailNewStep ==
  ASSUME Scope, IInv, FailNew
  PROVE  IInv'
  <1>1. tx.holder = "none"
    BY FailNewIsFree
  <1>2. CASE req.at = "fail"
    BY <1>1, <1>2, FailNewInv, FailNewKeptInv DEF FailNew, WasReplacing, Serving, Waiting,
       Request, Reply, Fault, NoFault
  <1>3. CASE req.at = "fail_row"
    <2>1. TextFault("fail_row") \/ NoFault
      BY <1>3 DEF FailNew, Serving
    <2> QED
      BY <1>1, <1>3, <2>1, FailRowInv, TextFaultType DEF FailNew, Serving, Waiting, Reply, IInv
  <1> QED
    BY <1>2, <1>3 DEF FailNew, Serving

-----------------------------------------------------------------------------
(* The summary threads.                                                       *)

(* Only what is known of the threads depends on them.                         *)
LEMMA ThreadPhaseInv ==
  ASSUME IInv, UNCHANGED <<disk, db, tx, req, env>>, thr' \in [Gens -> Phases], Threads'
  PROVE  IInv'
  BY DEF IInv, TypeOK, CrashSafe, Intact, RecoveredParts, RecoveredSource, Committed,
     RowMoved, Restorable, Control, Order, BeforeCommit, Target, BackupShape, NoBack, Clean,
     NoLeft, Stashed, Staging, PutOut, Written, Raw, RollingBack, RollingForward

(* A thread that goes on to a phase with no less to go by.                    *)
LEMMA ThreadGoesInv ==
  ASSUME IInv, NEW g \in Gens, NEW phase \in Phases, Active(g),
         UNCHANGED <<disk, db, tx, req, env>>, thr' = [thr EXCEPT ![g] = phase],
         phase # "none",
         phase # "over" => phase \in DOMAIN Left /\ Left[thr[g]] \subseteq Left[phase],
         tx.holder = "summary" => tx.target.gen # g
  PROVE  IInv'
  <1>1. /\ thr' \in [Gens -> Phases] /\ thr'[g] = phase
        /\ \A h \in Gens \ {g} : thr'[h] = thr[h]
    BY DEF IInv, TypeOK
  <1>2. Threads
    BY DEF IInv
  <1>3. \A h \in Gens : thr'[h] # "none" => Summaries
    BY <1>1, <1>2 DEF Threads, Active
  <1>4. \A h \in Gens : Active(h)' => Active(h)
    BY <1>1 DEF Active
  <1>5. ASSUME NEW h \in Gens, Active(h)', tx.purpose # "commit", db.row.gen = h
        PROVE  db.row.stage \in Left[thr'[h]]
    <2>1. db.row.stage \in Left[thr[h]]
      BY <1>2, <1>4, <1>5 DEF Threads
    <2> QED
      BY <1>1, <1>5, <2>1 DEF Active
  <1>6. tx.holder = "summary" => tx.target.gen \in Gens \ {g}
    BY <1>2 DEF Threads, Version
  <1>7. (Unthreaded' <=> Unthreaded) /\ (Beside' <=> Beside) /\ Target' = Target
    BY DEF Unthreaded, Beside, Closing, Target
  <1>8. Unthreaded => ~Active(req.gen)'
    <2>1. req.gen \in Gens
      BY DEF IInv, TypeOK, Req
    <2> QED
      BY <1>2, <1>4, <2>1 DEF Threads, Active
  <1>9. Threads'
    BY <1>1, <1>2, <1>3, <1>4, <1>5, <1>6, <1>7, <1>8 DEF Threads
  <1> QED
    BY <1>1, <1>9, ThreadPhaseInv

(* Where nobody holds the lock and a thread may write, nothing is left over,  *)
(* and no upload is on its way to a commit.                                   *)
LEMMA ThreadMayWrite ==
  ASSUME IInv, tx.holder = "none", env.up = "up", NEW g \in Gens, thr[g] \in Writing,
         ~Stale(g), ~InFlight
  PROVE  /\ NoLeft /\ Beside /\ Exists(db.row) /\ db.row.gen = g
  <1>1. /\ tx.purpose = "none" /\ tx.at = "none" /\ req.at # "locked"
        /\ Exists(db.row) /\ ~Exists(disk.stash)
    BY ServingIsFree DEF IInv, Control, Threads, Active, Writing, Stage, InFlight
  <1>2. NoBack
    BY <1>1 DEF IInv, Clean, RollingForward, NoLeft, TypeOK, Req
  <1>3. db.row.gen = g
    <2>1. RecoveredParts["manifest"] = disk.part["manifest"]
      BY <1>2, NoBackupFields DEF NoBack, RecoveredParts, Exists, Parts, Copied
    <2>2. disk.part["manifest"] = db.row
      BY <1>1, <2>1, ManifestIs
    <2> QED
      BY <2>2 DEF Stale
  <1>4. ~Unthreaded
    BY <1>3 DEF IInv, Threads, Active, Writing, Stage, Target
  <1>5. Beside
    <2>1. req.at \notin {"persist", "fail_rm", "fail_mv", "fail_row", "discard"}
      BY <1>1, <1>4 DEF IInv, Stashed, Clean, Order, BeforeCommit, Unthreaded
    <2>2. req.at = "write" => req.channel = "raw" /\ req.replacing
      BY <1>1 DEF IInv, Stashed, Order, BeforeCommit
    <2>3. Closing => req.channel = "defer"
      <3>1. Closing => req.channel \in {"sync", "defer"}
        BY ConstantsAssumption DEF IInv, Order, Closing
      <3> QED
        BY <1>4, <3>1 DEF Unthreaded
    <2> QED
      BY <1>1, <2>1, <2>2, <2>3 DEF Beside, Closing, IInv, TypeOK, Req
  <1>6. ~disk.marker
    BY <1>1, <1>5 DEF IInv, Clean, RollingForward, NoLeft, Beside, Closing
  <1> QED
    BY <1>1, <1>2, <1>3, <1>5, <1>6 DEF NoLeft

LEMMA ThreadWritesInv ==
  ASSUME Scope, IInv, tx.holder = "none", env.up = "up", NEW g \in Gens,
         thr[g] \in Writing, ~Stale(g), ~InFlight,
         tx' = [NoTx EXCEPT !.holder = "summary", !.at = "settle", !.purpose = "rewrite",
                         !.target = [gen |-> g, stage |-> Stage[thr[g]]]],
         UNCHANGED <<disk, db, req, thr, env>>
  PROVE  IInv'
  <1>1. [gen |-> g, stage |-> Stage[thr[g]]] \in Version
    BY DEF Version, Stages, Stage, Writing
  <1>2. /\ tx'.holder = "summary" /\ tx'.at = "settle" /\ tx'.purpose = "rewrite"
        /\ tx'.names = {} /\ tx' \in Tx
        /\ tx'.target = [gen |-> g, stage |-> Stage[thr[g]]]
    BY <1>1, NoBackupType DEF NoTx, Tx, Ats, Names, Row
  <1>3. /\ NoLeft /\ Beside /\ Exists(db.row) /\ db.row.gen = g
        /\ tx.purpose = "none" /\ tx.at = "none"
    BY ThreadMayWrite, ServingIsFree DEF IInv
  <1>4. TypeOK' /\ Control'
    BY <1>2, <1>3 DEF IInv, TypeOK, Control, AtsOf, SettleAts, StageAts, WriteAts, Beside,
       Closing
  <1>5. (CrashSafe /\ BackupShape)'
    BY DEF IInv, CrashSafe, Intact, RecoveredParts, RecoveredSource, Committed, RowMoved,
       Restorable, BackupShape, NoBack
  <1>6. Order'
    BY <1>2, <1>3 DEF IInv, Order, BeforeCommit, Exists
  <1>7. Clean'
    BY <1>2, <1>3 DEF IInv, Clean, NoLeft, NoBack, Beside, Closing
  <1>8. (Stashed /\ Staging /\ Written /\ RollingBack)'
    BY <1>2, <1>3 DEF IInv, Stashed, Staging, Written, RollingBack, StageAts, WriteAts,
       NoLeft, Beside, Closing
  <1>9. RollingForward'
    BY <1>2, <1>3 DEF RollingForward, Beside, Closing
  <1>10. Threads'
    <2>1. req' = req /\ ~Unthreaded'
      BY <1>2, <1>3 DEF Unthreaded, Beside, Closing
    <2>2. Beside' /\ ~Exists(disk'.stash)
      BY <1>3 DEF Beside, Closing, NoLeft, Exists
    <2> QED
      BY <1>1, <1>2, <1>3, <2>1, <2>2 DEF IInv, Threads, Active, Exists
  <1> QED
    BY <1>4, <1>5, <1>6, <1>7, <1>8, <1>9, <1>10 DEF IInv

LEMMA ThreadStep ==
  ASSUME Scope, IInv, NEW g \in Gens, Thread(g)
  PROVE  IInv'
  <1>1. thr[g] \in {"placeholder", "llm", "giveup", "result", "failure"}
    BY DEF Thread, ThreadSkips, ThreadWrites, ThreadGivesUp, ThreadSummarises, Writing, Stage
  <1>2. Active(g)
    BY <1>1 DEF Active
  <1>3. CASE ThreadSkips(g)
    <2>1. AfterWrite(thr[g], FALSE) = IF thr[g] = "placeholder" THEN "llm" ELSE "over"
      BY <1>1, <1>3 DEF ThreadSkips, Writing, Stage, AfterWrite
    <2>2. thr' = [thr EXCEPT ![g] = AfterWrite(thr[g], FALSE)]
      BY <1>3 DEF ThreadSkips
    <2>3. UNCHANGED <<disk, db, tx, req, env>> /\ tx.holder = "none"
      BY <1>3 DEF ThreadSkips
    <2>4. CASE thr[g] = "placeholder"
      <3>1. thr' = [thr EXCEPT ![g] = "llm"]
        BY <2>1, <2>2, <2>4
      <3>2. "llm" \in DOMAIN Left /\ Left[thr[g]] \subseteq Left["llm"] /\ "llm" \in Phases
        BY <2>4 DEF Left, Phases
      <3> QED
        BY <1>2, <2>3, <3>1, <3>2, ThreadGoesInv
    <2>5. CASE thr[g] # "placeholder"
      <3>1. thr' = [thr EXCEPT ![g] = "over"]
        BY <2>1, <2>2, <2>5
      <3> QED
        BY <1>2, <2>3, <3>1, ThreadGoesInv DEF Phases
    <2> QED
      BY <2>4, <2>5
  <1>4. CASE ThreadWrites(g)
    <2>1. /\ env.up = "up" /\ thr[g] \in Writing /\ ~Stale(g) /\ ~InFlight
          /\ UNCHANGED <<disk, db, req, thr, env>>
      BY <1>4 DEF ThreadWrites
    <2>2. /\ tx.holder = "none"
          /\ tx' = [NoTx EXCEPT !.holder = "summary", !.at = "settle", !.purpose = "rewrite",
                             !.target = [gen |-> g, stage |-> Stage[thr[g]]]]
      BY <1>4 DEF ThreadWrites, Acquire
    <2> QED
      BY <2>1, <2>2, ThreadWritesInv
  <1>5. CASE ThreadGivesUp(g)
    <2>1. UNCHANGED <<disk, db, tx, req, env>> /\ tx.holder = "none"
          /\ thr' = [thr EXCEPT ![g] = "over"]
      BY <1>5 DEF ThreadGivesUp
    <2> QED
      BY <1>2, <2>1, ThreadGoesInv DEF Phases
  <1>6. CASE ThreadSummarises(g)
    <2>1. tx.holder = "summary" => tx.target.gen # g
      BY <1>6 DEF ThreadSummarises, IInv, Threads, Writing, Stage
    <2>2. PICK phase \in {"result", "failure"} : thr' = [thr EXCEPT ![g] = phase]
      BY <1>6 DEF ThreadSummarises
    <2>3. UNCHANGED <<disk, db, tx, req, env>> /\ thr[g] = "llm"
      BY <1>6 DEF ThreadSummarises
    <2>4. phase \in DOMAIN Left /\ Left[thr[g]] \subseteq Left[phase] /\ phase \in Phases
          /\ phase # "none"
      BY <2>3 DEF Left, Phases
    <2> QED
      BY <1>2, <2>1, <2>2, <2>3, <2>4, ThreadGoesInv
  <1> QED
    BY <1>3, <1>4, <1>5, <1>6 DEF Thread

-----------------------------------------------------------------------------
(* Crash: the process may die while rmtree walks the backup.                  *)
LEMMA CrashInv ==
  ASSUME Scope, IInv, env.up # "down",
         UNCHANGED <<db>>,
         tx' = NoTx,
         env' = [env EXCEPT !.up = "down", !.crashes = @ + 1],
         req' = [req EXCEPT !.at = "idle", !.answer = "none", !.seen = "none"],
         thr' = [g \in Gens |-> "none"],
         UNCHANGED <<disk>>
  PROVE  IInv'
  <1> USE DEF Exists, IInv, At
  <1>1. TypeOK'
    <2>1. tx' \in Tx /\ thr' \in [Gens -> Phases]
      BY NoTxFields DEF Phases
    <2>2. env' \in Env
      <3>1. env \in Env
        BY DEF TypeOK
      <3>2. env.crashes + 1 \in Nat
        BY <3>1 DEF Env
      <3> QED
        BY <3>1, <3>2 DEF Env
    <2>3. req' \in Req
      BY DEF TypeOK, Req
    <2> QED
      BY <2>1, <2>2, <2>3 DEF TypeOK
  <1> USE DEF TypeOK, Disk, Tx, Req, Env, Backup, Part, Row, Names, Source, Control,
          AtsOf, SettleAts, WriteAts, StageAts, UndoAts
  <1>2. CrashSafe'
    BY NoTxFields DEF CrashSafe, Intact, RecoveredParts, RecoveredSource, Committed,
       RowMoved, Restorable
  <1>3. Control'
    BY NoTxFields
  <1>4. (Order /\ Stashed /\ Written)'
    BY NoTxFields DEF Order, BeforeCommit, Target, Stashed, Written, Raw
  <1>5. BackupShape'
    BY NoTxFields DEF BackupShape, NoBack, NoBackup, NoParts
  <1>6. Clean'
    BY NoTxFields DEF Clean, NoLeft, NoBack, NoBackup, NoParts
  <1>7. Staging'
    BY NoTxFields DEF Staging, PutOut
  <1>8. RollingBack'
    BY NoTxFields DEF RollingBack, PutOut, NoBack, NoBackup, NoParts, Committed, RowMoved,
       Restorable
  <1>9. RollingForward'
    BY NoTxFields DEF RollingForward, NoLeft, RowMoved, NoBack, NoBackup, NoParts
  <1>10. Threads'
    <2>1. /\ \A g \in Gens : thr'[g] = "none"
          /\ tx'.holder = "none" /\ req'.at = "idle"
      BY NoTxFields
    <2> QED
      BY <2>1 DEF Threads, Active, Unthreaded, Closing
  <1> QED
    BY <1>1, <1>2, <1>3, <1>4, <1>5, <1>6, <1>7, <1>8, <1>9, <1>10 DEF IInv

LEMMA CrashCutInv ==
  ASSUME Scope, IInv, env.up # "down", env.crashes < MaxCrashes,
         UNCHANGED <<db>>,
         tx' = NoTx,
         env' = [env EXCEPT !.up = "down", !.crashes = @ + 1],
         req' = [req EXCEPT !.at = "idle", !.answer = "none", !.seen = "none"],
         thr' = [g \in Gens |-> "none"],
         tx.at \in {"drop", "remove"},
         disk.backup.here,
         NEW b \in Remains(disk.backup),
         disk' = [disk EXCEPT !.backup = b]
  PROVE  IInv'
  <1> USE DEF Exists, IInv, At
  <1>1. TypeOK'
    <2>1. tx' \in Tx /\ thr' \in [Gens -> Phases]
      BY NoTxFields DEF Phases
    <2>2. env' \in Env
      <3>1. env \in Env
        BY DEF TypeOK
      <3>2. env.crashes + 1 \in Nat
        BY <3>1 DEF Env
      <3> QED
        BY <3>1, <3>2 DEF Env
    <2>3. req' \in Req
      BY DEF TypeOK, Req
    <2>4. disk' \in Disk
      BY BackupIsCut DEF TypeOK, Disk
    <2> QED
      BY <2>1, <2>2, <2>3, <2>4 DEF TypeOK
  <1>2. CrashSafe'
    <2>1. /\ disk'.backup = b /\ disk'.marker = disk.marker /\ disk'.part = disk.part
          /\ disk'.source = disk.source /\ disk'.stash = disk.stash
      BY DEF TypeOK, Disk
    <2>2. CASE tx.at = "drop"
      <3>1. disk.marker
        <4>1. ~Defers
          BY DEF Scope, TypeOK, Env
        <4> QED
          BY <2>2, <4>1 DEF RollingForward
      <3> QED
        BY <2>1, <3>1 DEF CrashSafe, Intact, Committed, RecoveredParts, RecoveredSource,
           Control
    <2>3. CASE tx.at = "remove"
      <3>1. /\ ~Committed /\ disk.backup.staged = NoFile /\ \A p \in Moved : PutOut(p)
        BY <2>3 DEF RollingBack, Restorable
      <3>2. ~Committed' /\ b.staged = NoFile
        BY <2>1, <3>1, BackupIsCut DEF Committed, RowMoved
      <3>3. \A p \in Moved : ~Exists(b.part[p])
        BY <3>1, BackupIsCut DEF PutOut, Parts
      <3>4. RecoveredParts' = RecoveredParts
        BY <2>1, <3>1, <3>2, <3>3 DEF RecoveredParts, Restorable, PutOut
      <3>5. RecoveredSource' = RecoveredSource
        BY <2>1, <3>1, <3>2 DEF RecoveredSource
      <3> QED
        BY <3>4, <3>5 DEF CrashSafe, Intact, Control
    <2> QED
      BY <2>2, <2>3
  <1> USE DEF TypeOK, Disk, Tx, Req, Env, Backup, Part, Row, Names, Source, Control,
          AtsOf, SettleAts, WriteAts, StageAts, UndoAts
  <1>3. Control'
    BY SMTT(60), NoTxFields, BackupIsCut
  <1>4. (Order /\ BackupShape /\ Clean /\ Stashed /\ Staging /\ Written /\ RollingBack /\
      RollingForward)'
    BY NoTxFields, BackupIsCut DEF Order, BeforeCommit, Target, BackupShape, NoBack,
       NoBackup, NoParts, Clean, NoLeft, Stashed, Staging, PutOut, Written, Raw,
       RollingBack, Committed, RowMoved, Restorable, RollingForward
  <1>5. Threads'
    <2>1. /\ \A g \in Gens : thr'[g] = "none"
          /\ tx'.holder = "none" /\ req'.at = "idle"
      BY NoTxFields
    <2> QED
      BY <2>1 DEF Threads, Active, Unthreaded, Closing
  <1> QED
    BY <1>1, <1>2, <1>3, <1>4, <1>5 DEF IInv

LEMMA CrashStep ==
  ASSUME Scope, IInv, Crash
  PROVE  IInv'
    BY CrashInv, CrashCutInv DEF Crash

(* Restart: the sweep is the first thing a start does.                        *)
LEMMA RestartInv ==
  ASSUME Scope, IInv, env.up = "down",
         Leftovers,
         UNCHANGED <<disk, db, req, thr>>,
         tx' = [NoTx EXCEPT !.holder = "sweep", !.at = "settle", !.purpose = "sweep",
                         !.target = Absent],
         env' = [env EXCEPT !.up = "starting"]
  PROVE  IInv'
  <1> USE DEF Exists, IInv, At
  <1>1. TypeOK'
    <2>1. tx' \in Tx
      BY NoBackupType DEF NoTx, Tx, Ats, Names, Row
    <2>2. env' \in Env
      <3>1. env \in Env
        BY DEF TypeOK
      <3>2. env.crashes + 1 \in Nat
        BY <3>1 DEF Env
      <3> QED
        BY <3>1, <3>2 DEF Env
    <2> QED
      BY <2>1, <2>2 DEF TypeOK
  <1> USE DEF TypeOK, Disk, Tx, Req, Env, Backup, Part, Row, Names, Source, Control,
          AtsOf, SettleAts, WriteAts, StageAts, UndoAts
  <1>2. CrashSafe'
    BY NoTxFields DEF CrashSafe, Intact, RecoveredParts, RecoveredSource, Committed,
       RowMoved, Restorable, NoTx
  <1>3. Control'
    BY SMTT(60), NoTxFields DEF NoTx
  <1>4. (Order /\ BackupShape /\ Clean /\ Stashed /\ Staging /\ Written /\ RollingBack /\
      RollingForward)'
    BY NoTxFields DEF Order, BeforeCommit, Target, BackupShape, NoBack, NoBackup, NoParts,
       Clean, NoLeft, Stashed, Staging, PutOut, Written, Raw, RollingBack, Committed,
       RowMoved, Restorable, RollingForward, NoTx
  <1>5. Threads'
    BY ThreadsHandedOn, NoTxFields, ServingIsFree DEF Unthreaded, Closing, NoTx
  <1> QED
    BY <1>1, <1>2, <1>3, <1>4, <1>5 DEF IInv

LEMMA RestartCleanInv ==
  ASSUME Scope, IInv, env.up = "down",
         ~Leftovers,
         UNCHANGED <<disk, db, req, thr, tx>>,
         env' = [env EXCEPT !.up = "up"]
  PROVE  IInv'
  <1> USE DEF Exists, IInv, At
  <1>1. TypeOK'
    BY NoBackupType DEF TypeOK, Disk, Tx, Ats, Env
  <1> USE DEF TypeOK, Disk, Tx, Req, Env, Backup, Part, Row, Names, Source, Control,
          AtsOf, SettleAts, WriteAts, StageAts, UndoAts
  <1>2. CrashSafe'
    BY DEF CrashSafe, Intact, RecoveredParts, RecoveredSource, Committed, RowMoved,
       Restorable
  <1>3. Control'
    BY SMTT(60)
  <1>4. (Order /\ BackupShape /\ Stashed /\ Staging /\ Written /\ RollingBack /\
      RollingForward)'
    BY DEF Order, BeforeCommit, Target, BackupShape, NoBack, NoBackup, NoParts, Stashed,
       Staging, PutOut, Written, Raw, RollingBack, Committed, RowMoved, Restorable,
       RollingForward, NoLeft
  <1>5. Clean'
    BY DEF Clean, NoLeft, NoBack, NoBackup, NoParts, Leftovers, BackupShape
  <1>6. Threads'
    BY ThreadsHandedOn, NoTxFields, ServingIsFree DEF Unthreaded, Closing, NoTx
  <1> QED
    BY <1>1, <1>2, <1>3, <1>4, <1>5, <1>6 DEF IInv

LEMMA RestartStep ==
  ASSUME Scope, IInv, Restart
  PROVE  IInv'
    BY SMTT(60), RestartInv, RestartCleanInv DEF Restart, Acquire

-----------------------------------------------------------------------------
(* A stuttering step.                                                         *)
LEMMA Undisturbed ==
  ASSUME IInv, UNCHANGED vars
  PROVE  IInv'
  BY DEF IInv, vars, TypeOK, CrashSafe, Intact, RecoveredParts, RecoveredSource, Committed,
     RowMoved, Restorable, Control, Order, BeforeCommit, Target, BackupShape, NoBack, Clean,
     NoLeft, Stashed, Staging, PutOut, Written, Raw, RollingBack, RollingForward, Threads,
     Active, Beside, Closing, Unthreaded

(* The process starts on a document that is wholly there, or on none.         *)
LEMMA InitInv ==
  ASSUME Scope, Init
  PROVE  IInv
  <1>1. PICK base \in Bases : Init!(base)
    BY DEF Init
  <1> DEFINE v == IF base = Absent THEN Absent ELSE [gen |-> 0, stage |-> base]
  <1>2. v \in Row /\ (v # Absent => v.gen = 0 /\ v.stage = base)
    BY ConstantsAssumption DEF Row, Version, Gens
  <1>3. /\ disk = [part |-> PartsOf(v), source |-> SourceOf(v), stash |-> Absent,
                   marker |-> FALSE, backup |-> NoBackup, failure |-> FALSE]
        /\ db = [row |-> v, fts |-> TextOf(v)] /\ tx = NoTx
        /\ req = [at |-> "idle", gen |-> 0, channel |-> "none", replacing |-> FALSE,
                  answer |-> "none", acked |-> 0, seen |-> "none"]
        /\ thr = [g \in Gens |-> IF g = 0 /\ base = "parse" THEN "placeholder" ELSE "none"]
        /\ env = [up |-> "up", crashes |-> 0, faults |-> 0, textFault |-> FALSE,
               blind |-> FALSE]
    BY <1>1
  <1> HIDE DEF v
  <1>4. TypeOK
    <2>1. SourceOf(v) \in Source /\ PartsOf(v) \in Part /\ TextOf(v) \in Row
      BY <1>2, NoBackupType DEF SourceOf, PartsOf, TextOf, PartOf, Part, Row, Version,
         Source
    <2>2. disk \in Disk
      BY <1>3, <2>1, NoBackupType DEF Disk
    <2>3. db \in [row : Row, fts : Row]
      BY <1>2, <1>3, <2>1
    <2>4. req \in Req /\ 0 \in Gens
      BY <1>3, ConstantsAssumption DEF Req, Gens
    <2>5. thr \in [Gens -> Phases] /\ env \in Env
      BY <1>3 DEF Phases, Env
    <2> QED
      BY <1>3, <2>2, <2>3, <2>4, <2>5, NoTxFields DEF TypeOK
  <1>5. CrashSafe
    <2>1. /\ RecoveredSource = SourceOf(v)
          /\ \A p \in Parts : RecoveredParts[p] = PartOf(v, p)
      BY <1>3, NoBackupFields DEF RecoveredSource, RecoveredParts, PartsOf, Exists
    <2> QED
      BY <1>3, <2>1 DEF CrashSafe, Intact
  <1>6. Control
    BY <1>3, NoTxFields DEF Control, AtsOf
  <1>7. Order
    BY <1>2, <1>3, NoTxFields DEF Order, BeforeCommit, Exists
  <1>8. BackupShape /\ Clean /\ Stashed
    BY <1>3, NoTxFields, NoBackupFields DEF BackupShape, NoBack, Clean, NoLeft, Stashed,
       Exists
  <1>9. Staging /\ Written
    BY <1>3, NoTxFields, NoBackupFields DEF Staging, Written, StageAts, WriteAts
  <1>10. RollingBack /\ RollingForward
    BY <1>3, NoTxFields DEF RollingBack, RollingForward
  <1>11. Threads
    <2>1. ASSUME NEW g \in Gens, thr[g] # "none"
          PROVE  g = 0 /\ base = "parse" /\ thr[g] = "placeholder"
      BY <1>3, <2>1
    <2>2. base = "parse" => v # Absent /\ db.row = v /\ v.gen = 0 /\ v.stage = "parse"
      BY <1>1, <1>2, <1>3, ConstantsAssumption DEF v, Stages, Version, Gens
    <2>3. tx.holder = "none" /\ req.at = "idle"
      BY <1>3, NoTxFields
    <2> QED
      BY <2>1, <2>2, <2>3 DEF Threads, Active, Summaries, Left, Exists, Unthreaded, Closing, Gens
  <1> QED
    BY <1>4, <1>5, <1>6, <1>7, <1>8, <1>9, <1>10, <1>11 DEF IInv

(* Every step keeps the invariant.                                            *)
LEMMA NextInv ==
  ASSUME Scope, IInv, [Next]_vars
  PROVE  IInv'
  <1>1. CASE Settling
    BY <1>1, SettleStep, TouchStep, DropStep, FoldStep, UnmarkStashStep, UnmarkStep,
       ReadRecordStep, PutBackStep, PutBackTextStep, ForgetStep, RemoveBackupStep,
       UnstashStep DEF Settling
  <1>2. CASE Rewriting
    BY <1>2, StashSourceStep, SnapshotStep, StageTextStep, StageRowStep, StageMoveStep,
       StageCopyStep, StageRecordStep, WriteTextsStep, WriteSectionsStep, WriteSourceStep,
       WriteTextIndexStep, WriteManifestStep, CommitRowStep DEF Rewriting
  <1>3. CASE Check \/ Refuse \/ Raise \/ Finish \/ Swept
    <2>1. ~Refuse
      BY PurposeAt DEF Refuse, At, IInv
    <2> QED
      BY <1>3, <2>1, CheckStep, RaiseStep, FinishStep, SweptStep
  <1>4. CASE Requests
    BY <1>4, ArriveStep, StartStep, SettleFirstStep, ParseStep, TakeStashStep, PersistStep,
       WriteStep, DiscardStep, CloseStep, FailReplacementStep, FailNewStep DEF Requests
  <1>5. CASE \E g \in Gens : Thread(g)
    BY <1>5, ThreadStep
  <1>6. CASE Crash \/ Restart
    BY <1>6, CrashStep, RestartStep
  <1>7. CASE Rest \/ UNCHANGED vars
    BY <1>7, Undisturbed DEF Rest
  <1> QED
    BY <1>1, <1>2, <1>3, <1>4, <1>5, <1>6, <1>7 DEF Next, Holder

(* In Scope the invariant holds in every reachable state, for every number of *)
(* uploads, failures and crashes.                                             *)
THEOREM Inductive == Scope => (Spec => []IInv)
  <1>1. SUFFICES ASSUME Scope PROVE Spec => []IInv
    OBVIOUS
  <1>2. Init => IInv
    BY <1>1, InitInv
  <1>3. IInv /\ [Next]_vars => IInv'
    BY <1>1, NextInv
  <1> QED
    BY <1>2, <1>3, PTL DEF Spec

(* Whenever the process dies, a start finds every file of the version that    *)
(* the index row names (_settle_interrupted_rewrite, _restore_on_failure).    *)
THEOREM RecoverySafe == Scope => (Spec => []CrashSafe)
  <1>1. IInv => CrashSafe
    BY DEF IInv
  <1> QED
    BY <1>1, Inductive, PTL

(* In Scope the files, the row and the bookkeeping stay of the kinds the code *)
(* writes: what was never written to .rollback/ is never taken for a version. *)
THEOREM TypeCorrect == Scope => (Spec => []TypeOK)
  <1>1. IInv => TypeOK
    BY DEF IInv
  <1> QED
    BY <1>1, Inductive, PTL

-----------------------------------------------------------------------------
(* Which steps change the row of the index, and which remove the marker.      *)
LEMMA RowSteps ==
  ASSUME TypeOK, [Next]_vars
  PROVE  db'.row = db.row \/ CommitRow \/ FailNew
  <1>1. db \in [row : Row, fts : Row]
    BY DEF TypeOK
  <1>2. ASSUME NEW t, db' = [db EXCEPT !.fts = t] PROVE db'.row = db.row
    BY <1>1, <1>2
  <1>3. CASE Settling
    <2>1. CASE PutBackText
      BY <1>2, <2>1 DEF PutBackText
    <2> QED
      BY <1>3, <2>1 DEF Settling, Settle, Touch, Drop, Fold, UnmarkStash, Unmark, ReadRecord,
         PutBack, Forget, RemoveBackup, Unstash
  <1>4. CASE Rewriting
    <2>1. CASE WriteTextIndex
      BY <1>2, <2>1 DEF WriteTextIndex
    <2> QED
      BY <1>4, <2>1 DEF Rewriting, StashSource, Snapshot, StageText, StageRow, StageMove,
         StageCopy, StageRecord, WriteTexts, WriteSections, WriteSource, WriteManifest, Undone
  <1>5. CASE Check \/ Refuse \/ Raise \/ Finish \/ Swept
    BY <1>5 DEF Check, Refuse, Raise, Finish, Swept
  <1>6. CASE Requests
    BY <1>6 DEF Requests, Arrive, Start, SettleFirst, Parse, TakeStash, Persist, Write,
       Discard, Close, FailReplacement
  <1>7. CASE \E g \in Gens : Thread(g)
    BY <1>7 DEF Thread, ThreadSkips, ThreadWrites, ThreadGivesUp, ThreadSummarises
  <1>8. CASE Crash \/ Restart \/ Rest \/ UNCHANGED vars
    BY <1>8 DEF Crash, Restart, Rest, vars
  <1> QED
    BY <1>3, <1>4, <1>5, <1>6, <1>7, <1>8 DEF Next, Holder

LEMMA MarkerSteps ==
  ASSUME TypeOK, [Next]_vars, disk.marker
  PROVE  disk'.marker \/ UnmarkStash \/ Unmark \/ Close \/ FailNew
  <1>1. disk \in Disk
    BY DEF TypeOK
  <1>2. CASE disk' = disk
    BY <1>2
  <1>3. CASE Settling
    <2>1. CASE Settle \/ ReadRecord \/ PutBackText
      BY <1>2, <2>1 DEF Settle, ReadRecord, PutBackText
    <2>2. CASE Touch \/ Drop \/ Forget \/ RemoveBackup
      BY <1>1, <1>2, <2>2 DEF Touch, Drop, Forget, RemoveBackup, Disk
    <2>3. CASE Fold \/ Unstash
      BY <1>1, <1>2, <2>3 DEF Fold, Folded, Unstash, SourceRemoved, StashMoved, Disk
    <2>4. CASE PutBack
      BY <1>1, <1>2, <2>4 DEF PutBack, Disk
    <2> QED
      BY <1>3, <2>1, <2>2, <2>3, <2>4 DEF Settling
  <1>4. CASE Rewriting
    <2>1. CASE StashSource \/ Snapshot \/ StageText \/ StageRow
      BY <1>1, <1>2, <2>1 DEF StashSource, Snapshot, StageText, StageRow, Undone, Disk
    <2>2. CASE StageMove \/ StageCopy \/ StageRecord
      BY <1>1, <1>2, <2>2 DEF StageMove, StageCopy, StageRecord, Undone, Disk
    <2>3. CASE WriteTexts \/ WriteSections \/ WriteSource
      BY <1>1, <1>2, <2>3 DEF WriteTexts, WriteSections, WriteSource, Undone, Disk
    <2>4. CASE WriteTextIndex \/ WriteManifest \/ CommitRow
      BY <1>1, <1>2, <2>4 DEF WriteTextIndex, WriteManifest, CommitRow, Undone, Disk
    <2> QED
      BY <1>4, <2>1, <2>2, <2>3, <2>4 DEF Rewriting
  <1>5. CASE Check \/ Refuse \/ Raise \/ Finish \/ Swept
    BY <1>1, <1>2, <1>5 DEF Check, Refuse, Raise, Finish, Cleared, Swept, Disk
  <1>6. CASE Requests
    BY <1>1, <1>2, <1>6 DEF Requests, Arrive, Start, SettleFirst, Parse, TakeStash, Persist,
       Write, Discard, FailReplacement, SourceRemoved, StashMoved, Disk
  <1>7. CASE \E g \in Gens : Thread(g)
    BY <1>2, <1>7 DEF Thread, ThreadSkips, ThreadWrites, ThreadGivesUp, ThreadSummarises
  <1>8. CASE Crash \/ Restart \/ Rest \/ UNCHANGED vars
    BY <1>1, <1>2, <1>8 DEF Crash, Restart, Rest, vars, Disk
  <1> QED
    BY <1>3, <1>4, <1>5, <1>6, <1>7, <1>8 DEF Next, Holder

(* From its commit to its answer a request has the row.                       *)
Carrying == \/ tx.holder = "request" /\ tx.purpose \in {"commit", "close"}
            \/ req.at \in {"discard", "close", "close_look", "close_unmark"}

(* How the row of the index changes: the rewrite of an upload brings that of  *)
(* the upload, a summary another stage of the one that is there.              *)
Uploaded == /\ CommitRow /\ tx.holder = "request" /\ req' = req
            /\ db'.row = tx.target /\ tx.target = Target /\ Exists(tx.target)
            /\ Exists(db.row) => db.row.gen < tx.target.gen
Summarised == /\ CommitRow /\ tx.holder = "summary" /\ req' = req
              /\ db'.row = tx.target /\ tx.target \in Version /\ Exists(tx.target)
              /\ Exists(db.row) /\ tx.target.gen = db.row.gen
              /\ tx.target.stage \in Carried(db.row.stage)
LEMMA RowOnwards ==
  ASSUME Scope, IInv, [Next]_vars
  PROVE  \/ db'.row = db.row /\ (CommitRow => ~Carrying' /\ req' = req)
         \/ Uploaded
         \/ Summarised
         \/ FailNew /\ ~CommitRow /\ ~Exists(db.row) /\ ~Exists(db'.row)
  <1>1. TypeOK /\ db \in [row : Row, fts : Row]
    BY DEF IInv, TypeOK
  <1>2. CASE CommitRow
    <2>1. CASE db' = [db EXCEPT !.row = tx.target]
      <3>1. db'.row = tx.target /\ req' = req /\ tx.at \in WriteAts
        BY <1>1, <1>2, <2>1 DEF CommitRow, Outside, At, WriteAts
      <3> QED
        BY <1>2, <3>1, TargetIs DEF Uploaded, Summarised
    <2>2. CASE Undone("write_row")
      <3>1. req' = req /\ db' = db /\ tx'.purpose = "undo"
        BY <1>1, <1>2, <2>2 DEF CommitRow, Undone, Undo, Outside, TypeOK, Tx
      <3>2. req.at = "locked"
        <4>1. tx.holder # "summary" /\ tx.at = "write_row"
          BY <1>2, <2>2, OnlyRequestsUndo DEF Undone, Fault, RewriteSteps, CommitRow, At
        <4> QED
          BY <1>1, <4>1, PurposeAt DEF WriteAts, IInv
      <3> QED
        BY <3>1, <3>2 DEF Carrying
    <2> QED
      BY <1>2, <2>1, <2>2 DEF CommitRow
  <1>3. CASE FailNew
    <2>1. ~Exists(db.row) /\ tx.holder = "none"
      BY <1>3, FailNewIsFree
    <2>2. ~CommitRow
      BY <1>1, <2>1, ServingIsFree DEF IInv, CommitRow, At
    <2> QED
      BY <1>3, <2>1, <2>2 DEF FailNew, Exists
  <1> QED
    BY <1>1, <1>2, <1>3, RowSteps

(* In Scope the row only ever moves on, to a later upload or to a further     *)
(* stage of its own: a roll back, a failed attempt and the summary of a       *)
(* replaced version leave it alone (_rewrite_committed,                       *)
(* _record_parse_failure, _skip_stale_generation).                            *)
THEOREM RowMovesOn == Scope => (Spec => NeverOlder)
  <1> DEFINE Kept == ~Exists(db.row) \/ db'.row = db.row
                     \/ (Exists(db'.row) /\ db'.row.gen >= db.row.gen)
  <1>1. SUFFICES ASSUME Scope PROVE Spec => NeverOlder
    OBVIOUS
  <1>2. ASSUME IInv, [Next]_vars PROVE Kept
    <2>1. Exists(db.row) => db.row.gen \in Nat
      BY <1>2 DEF IInv, TypeOK, Row, Exists, Version, Gens
    <2>2. CASE Uploaded
      <3>1. tx.target.gen \in Nat
        BY <1>2, <2>2, TargetType DEF Uploaded, IInv, TypeOK, Version, Gens
      <3> QED
        BY <2>1, <2>2, <3>1 DEF Uploaded
    <2>3. CASE Summarised
      BY <2>1, <2>3 DEF Summarised
    <2> QED
      BY <1>1, <1>2, <2>2, <2>3, RowOnwards
  <1>3. IInv /\ [Next]_vars => [Kept]_vars
    BY <1>2
  <1> QED
    BY <1>1, <1>3, Inductive, PTL DEF Spec, NeverOlder

(* In Scope no step removes the marker beside a backup where no upload defers *)
(* its summary: the one place that could, the unlocked close of a request,    *)
(* finds a backup only if the thread it started has begun one                 *)
(* (_discard_stashed_source).                                                 *)
THEOREM MarkerLast == Scope /\ ~Defers => (Spec => MarkerOutlivesBackup)
  <1> DEFINE Last == disk.marker /\ ~disk'.marker => ~disk'.backup.here
  <1>1. SUFFICES ASSUME Scope, ~Defers PROVE Spec => MarkerOutlivesBackup
    OBVIOUS
  <1>2. ASSUME IInv, [Next]_vars PROVE Last
    <2>1. SUFFICES ASSUME disk.marker, ~disk'.marker PROVE ~disk'.backup.here
      OBVIOUS
    <2>2. disk \in Disk /\ TypeOK
      BY <1>2 DEF IInv, TypeOK
    <2>3. CASE UnmarkStash
      BY <2>1, <2>2, <2>3 DEF UnmarkStash, Disk
    <2>4. CASE Unmark
      BY <2>1, <2>2, <2>4 DEF Unmark, Disk
    <2>5. CASE Close
      <3>1. CASE Serving("close_unmark")
        <4>1. tx.holder # "summary"
          BY <1>1, <1>2, <3>1, BesideIs DEF Serving, Beside, Closing, Defers
        <4>2. disk.backup = NoBackup
          BY <1>2, <3>1, <4>1 DEF Serving, IInv, RollingForward, NoBack
        <4> QED
          BY <2>1, <2>2, <2>5, <3>1, <4>2 DEF Close, Serving, NoBackup, Disk
      <3> QED
        BY <2>1, <2>2, <2>5, <3>1 DEF Close, Cleared, Folded, Serving, Disk
    <2>6. CASE FailNew
      BY <1>2, <2>1, <2>2, <2>6 DEF FailNew, NoBackup, Disk
    <2> QED
      BY <1>2, <2>1, <2>2, <2>3, <2>4, <2>5, <2>6, MarkerSteps
  <1>3. IInv /\ [Next]_vars => [Last]_vars
    BY <1>2
  <1> QED
    BY <1>1, <1>3, Inductive, PTL DEF Spec, MarkerOutlivesBackup

-----------------------------------------------------------------------------
(* In Scope nothing is left behind between requests: not by a failing writer  *)
(* nor by a start, which settle what there is before anything is served.      *)
THEOREM NothingIsLeft == Scope => (Spec => [](RestIsClean /\ (Quiet => ~Leftovers)))
  <1>1. IInv => RestIsClean /\ (Quiet => ~Leftovers)
    BY DEF IInv, Clean, NoLeft, NoBack, NoBackup, RestIsClean, Quiet, Leftovers, Exists
  <1> QED
    BY <1>1, Inductive, PTL

(* What was acknowledged is there, and what is about to be is the row.        *)
AckInv == AckedStays /\ (Carrying => Exists(db.row) /\ db.row.gen = req.gen)

(* What the holder of the lock does to the directory is no concern of others. *)
LEMMA SettlingKeeps ==
  ASSUME TypeOK, Settling
  PROVE  req' = req /\ thr' = thr /\ tx'.holder = tx.holder /\ tx'.purpose = tx.purpose
  <1>1. tx \in Tx
    BY DEF TypeOK
  <1>2. \A a : [tx EXCEPT !.at = a].purpose = tx.purpose /\ [tx EXCEPT !.at = a].holder = tx.holder
    BY <1>1 DEF Tx
  <1>3. CASE ReadRecord \/ PutBack
    BY <1>1, <1>3 DEF ReadRecord, PutBack, Goto, Outside, Tx
  <1>4. CASE Settle \/ Touch \/ Drop \/ Fold \/ UnmarkStash \/ Unmark
    BY <1>2, <1>4 DEF Settle, Touch, Drop, Fold, UnmarkStash, Unmark, Goto, Outside
  <1>5. CASE PutBackText \/ Forget \/ RemoveBackup \/ Unstash
    BY <1>2, <1>5 DEF PutBackText, Forget, RemoveBackup, Unstash, Goto, Outside
  <1> QED
    BY <1>3, <1>4, <1>5 DEF Settling

(* So does a writer, which in the end commits or undoes.                      *)
LEMMA HolderKeeps ==
  ASSUME TypeOK, Settling \/ Rewriting
  PROVE  /\ req' = req /\ thr' = thr /\ tx'.holder = tx.holder
         /\ tx'.purpose = tx.purpose \/ tx'.purpose \in {"rewrite", "undo"} \/ CommitRow
  <1>1. tx \in Tx
    BY DEF TypeOK
  <1>3. CASE Settling
    BY <1>3, SettlingKeeps
  <1>4. CASE Rewriting
    <2>1. CASE StashSource \/ Snapshot \/ StageText \/ StageRow
      BY <1>1, <2>1 DEF StashSource, Snapshot, StageText, StageRow, Undone, Undo, Goto, Outside, Tx
    <2>2. CASE StageMove \/ StageCopy \/ StageRecord \/ WriteTexts
      BY <1>1, <2>2 DEF StageMove, StageCopy, StageRecord, WriteTexts, Undone, Undo, Goto, Outside, Tx
    <2>3. CASE WriteSections \/ WriteSource \/ WriteTextIndex \/ WriteManifest \/ CommitRow
      BY <1>1, <2>3 DEF WriteSections, WriteSource, WriteTextIndex, WriteManifest, CommitRow, Undone, Undo,
         Goto, Outside, Tx
    <2> QED
      BY <1>4, <2>1, <2>2, <2>3 DEF Rewriting
  <1> QED
    BY <1>3, <1>4

(* A request comes to its commit by writing the row, and is answered after.  *)
LEMMA CarryingSteps ==
  ASSUME Scope, IInv, [Next]_vars
  PROVE  /\ Carrying' => /\ Carrying \/ (CommitRow /\ tx.holder = "request")
                        /\ req'.gen = req.gen
         /\ req'.acked # req.acked => Carrying /\ req'.acked = req.gen
  <1>1. tx \in Tx /\ req \in Req /\ Control
    BY DEF IInv, TypeOK
  <1>2. \A a : /\ [tx EXCEPT !.at = a].purpose = tx.purpose
               /\ [req EXCEPT !.at = a].gen = req.gen /\ [req EXCEPT !.at = a].at = a
               /\ [req EXCEPT !.at = a].acked = req.acked
    BY <1>1 DEF Tx, Req
  <1>3. CASE Settling \/ Rewriting
    <2>1. /\ req' = req /\ tx'.holder = tx.holder
          /\ tx'.purpose = tx.purpose \/ tx'.purpose \in {"rewrite", "undo"} \/ CommitRow
      BY <1>3, HolderKeeps DEF IInv
    <2> QED
      BY <2>1 DEF Carrying
  <1>5. /\ \A a : Request(a) => req'.gen = req.gen /\ req'.at = a /\ req'.acked = req.acked
        /\ \A answer : Reply(answer) =>
              /\ req'.gen = req.gen /\ req'.at = "idle"
              /\ req'.acked = IF answer = "ok" THEN req.gen ELSE req.acked
    BY <1>1 DEF Request, Reply, Req
  <1>6. CASE Check \/ Refuse \/ Raise \/ Finish \/ Swept
    <2>1. Release => tx'.holder = "none"
      BY DEF Release, NoTx
    <2>2. CASE Check
      BY <1>1, <2>2 DEF Check, Goto, Request, Release, NoTx, Carrying, Tx, Req
    <2>3. CASE Refuse
      BY <1>5, <2>1, <2>3 DEF Refuse, Carrying
    <2>4. CASE Raise \/ Swept
      <3>1. req' = req \/ req' = [req EXCEPT !.at = "fail"]
        BY <2>4 DEF Raise, Swept, Request
      <3>2. tx'.holder = "none"
        BY <2>1, <2>4 DEF Raise, Swept
      <3> QED
        BY <1>1, <3>1, <3>2 DEF Carrying, Req
    <2>5. CASE Finish
      <3>1. CASE tx.holder = "summary"
        BY <2>1, <2>5, <3>1 DEF Finish, Carrying
      <3>2. CASE tx.holder = "request" /\ tx.purpose = "stash"
        <4>1. req' = [req EXCEPT !.at = "persist"] /\ tx'.holder = "none"
          BY <2>1, <2>5, <3>2 DEF Finish, Request
        <4> QED
          BY <1>1, <4>1 DEF Carrying, Req
      <3>3. CASE tx.holder = "request" /\ tx.purpose \in {"commit", "close"}
        <4>1. Carrying
          BY <3>3 DEF Carrying
        <4>2. req'.gen = req.gen /\ req'.acked \in {req.acked, req.gen}
          BY <1>5, <2>5, <3>3 DEF Finish
        <4> QED
          BY <4>1, <4>2
      <3> QED
        BY <2>5, <3>1, <3>2, <3>3 DEF Finish
    <2> QED
      BY <1>6, <2>2, <2>3, <2>4, <2>5
  <1>7. CASE Requests
    <2>1. CASE Arrive
      <3>1. req'.gen = req.gen /\ req'.at = req.at /\ req'.acked = req.acked /\ tx' = tx
        BY <1>1, <2>1 DEF Arrive, Waiting, Req
      <3> QED
        BY <3>1 DEF Carrying
    <2>2. CASE Start
      <3>1. tx' = tx /\ req'.acked = req.acked /\ req'.at \in {"before", "write", "parse"}
        BY <1>1, <2>2 DEF Start, Waiting, Req
      <3>2. tx.holder # "request"
        BY <1>1, <2>2 DEF Start, Serving, Control
      <3> QED
        BY <3>1, <3>2 DEF Carrying
    <2>3. CASE SettleFirst \/ TakeStash \/ Write \/ Discard
      <3>1. CASE SettleFirst \/ TakeStash
        BY <1>1, <3>1 DEF SettleFirst, TakeStash, Acquire, Request, NoTx, Carrying, Tx, Req
      <3>2. CASE Write
        BY <1>1, <3>2 DEF Write, Acquire, Request, NoTx, Carrying, Tx, Req
      <3> QED
        <4>1. CASE Discard
          BY <1>5, <4>1 DEF Discard, Serving, Carrying
        <4> QED
          BY <2>3, <3>1, <3>2, <4>1
    <2>4. CASE Parse \/ Persist \/ FailReplacement \/ FailNew
      <3>1. tx' = tx
        BY <2>4 DEF Parse, Persist, FailReplacement, FailNew, Waiting
      <3>2. tx.holder # "request"
        BY <1>1, <2>4 DEF Parse, Persist, FailReplacement, FailNew, Serving, Control
      <3>3. /\ req'.acked = req.acked
            /\ req'.at \notin {"discard", "close", "close_look", "close_unmark"}
        BY <1>5, <2>4 DEF Parse, Persist, FailReplacement, FailNew
      <3> QED
        BY <3>1, <3>2, <3>3 DEF Carrying
    <2>5. CASE Close
      <3>1. Carrying
        BY <2>5 DEF Close, Serving, Carrying
      <3>2. req'.gen = req.gen /\ req'.acked \in {req.acked, req.gen}
        BY <1>5, <2>5 DEF Close
      <3> QED
        BY <3>1, <3>2
    <2> QED
      BY <1>7, <2>1, <2>2, <2>3, <2>4, <2>5 DEF Requests
  <1>8. CASE \E g \in Gens : Thread(g)
    <2>1. req' = req /\ (tx' = tx \/ tx'.holder = "summary")
      BY <1>8 DEF Thread, ThreadSkips, ThreadWrites, ThreadGivesUp, ThreadSummarises, Acquire, NoTx
    <2> QED
      BY <2>1 DEF Carrying
  <1>9. CASE Crash \/ Restart \/ Rest \/ UNCHANGED vars
    <2>1. CASE Crash
      BY <1>1, <2>1 DEF Crash, NoTx, Carrying, Req
    <2>2. CASE Restart
      BY <1>1, <2>2 DEF Restart, Acquire, NoTx, Carrying, Tx
    <2>3. CASE Rest \/ UNCHANGED vars
      BY <2>3 DEF Rest, vars, Carrying
    <2> QED
      BY <1>9, <2>1, <2>2, <2>3
  <1> QED
    BY <1>3, <1>6, <1>7, <1>8, <1>9 DEF Next, Holder

(* In Scope what an upload was answered with stays, or a later one takes its  *)
(* place: whatever fails, and whenever the process dies.                      *)
THEOREM AcksStay == Scope => (Spec => []AckedStays)
  <1>1. SUFFICES ASSUME Scope PROVE Spec => []AckedStays
    OBVIOUS
  <1>2. Init => AckInv
    BY DEF Init, AckInv, AckedStays, Carrying, NoTx
  <1>3. ASSUME IInv, AckInv, [Next]_vars PROVE AckInv'
    <2>1. /\ req \in Req /\ req' \in Req /\ Target.gen = req.gen /\ req.gen \in Nat /\ req.acked \in Nat
          /\ Exists(db.row) => db.row.gen \in Nat
      BY <1>1, <1>3, NextInv, TargetType DEF IInv, TypeOK, Req, Gens, Row, Version, Exists
    <2>2. /\ Carrying' => /\ Carrying \/ (CommitRow /\ tx.holder = "request")
                          /\ req'.gen = req.gen
          /\ req'.acked # req.acked => Carrying /\ req'.acked = req.gen
      BY <1>1, <1>3, CarryingSteps
    <2>3. CASE db'.row = db.row /\ (CommitRow => ~Carrying' /\ req' = req)
      BY <1>3, <2>1, <2>2, <2>3 DEF AckInv, AckedStays, Exists
    <2>4. CASE Uploaded
      <3>1. req' = req /\ db'.row = Target /\ Exists(db'.row)
            /\ (Exists(db.row) => db.row.gen < req.gen)
        BY <2>1, <2>4 DEF Uploaded
      <3> QED
        BY <1>3, <2>1, <3>1 DEF AckInv, AckedStays
    <2>6. CASE Summarised
      <3>1. Exists(db.row) /\ Exists(db'.row) /\ db'.row.gen = db.row.gen /\ req' = req
            /\ tx.holder = "summary"
        BY <2>6 DEF Summarised
      <3> QED
        BY <1>3, <2>2, <3>1 DEF AckInv, AckedStays
    <2>5. CASE FailNew /\ ~CommitRow /\ ~Exists(db.row) /\ ~Exists(db'.row)
      <3>1. ~Carrying' /\ req'.acked = req.acked
        BY <1>3, <2>2, <2>5 DEF AckInv
      <3> QED
        BY <1>3, <2>5, <3>1 DEF AckInv, AckedStays
    <2> QED
      BY <1>1, <1>3, <2>3, <2>4, <2>5, <2>6, RowOnwards
  <1>4. IInv /\ AckInv /\ [Next]_vars => AckInv'
    BY <1>3
  <1>5. AckInv => AckedStays
    BY DEF AckInv
  <1> QED
    BY <1>1, <1>2, <1>4, <1>5, Inductive, PTL DEF Spec

-----------------------------------------------------------------------------
(* At rest what a start would recover is what is there.                       *)
LEMMA RestIsRecovered ==
  ASSUME IInv, AtRest PROVE Intact(db.row, disk.part, disk.source)
  <1>1. disk.backup = NoBackup /\ ~Exists(disk.stash)
    BY DEF IInv, BackupShape, AtRest, Leftovers, NoBack
  <1>2. RecoveredSource = disk.source
    BY <1>1 DEF RecoveredSource
  <1>3. \A p \in Parts : RecoveredParts[p] = disk.part[p]
    BY <1>1 DEF RecoveredParts, NoBackup, NoParts, Exists
  <1> QED
    BY <1>2, <1>3 DEF IInv, CrashSafe, Control, Intact

(* In Scope the files of a library that held the document never mix versions. *)
THEOREM VersionsNeverMix == Scope /\ Absent \notin Bases => (Spec => []OneVersion)
  <1>1. SUFFICES ASSUME Scope, Absent \notin Bases PROVE Spec => []OneVersion
    OBVIOUS
  <1>2. Init => Exists(db.row)
    BY <1>1, ConstantsAssumption DEF Init, Exists, Version, Gens
  <1>3. IInv /\ Exists(db.row) /\ [Next]_vars => Exists(db.row)'
    <2>1. ASSUME IInv, Exists(db.row), [Next]_vars PROVE Exists(db.row)'
      BY <1>1, <2>1, RowOnwards DEF Exists, Uploaded, Summarised
    <2> QED
      BY <2>1
  <1>4. IInv /\ Exists(db.row) => OneVersion
    BY RestIsRecovered DEF OneVersion, IInv, TypeOK, Row, Exists
  <1> QED
    BY <1>1, <1>2, <1>3, <1>4, Inductive, PTL DEF Spec

(* Requests name the channel they came by, and only Start does so.            *)
LEMMA ChannelSteps ==
  ASSUME TypeOK, [Next]_vars
  PROVE  req'.channel = req.channel \/ req'.channel \in Channels
  <1>1. req \in Req
    BY DEF TypeOK
  <1>2. CASE req' = req
    BY <1>2
  <1>3. CASE Settling
    BY <1>2, <1>3 DEF Settling, Settle, Touch, Drop, Fold, UnmarkStash, Unmark, ReadRecord, PutBack, PutBackText,
       Forget, RemoveBackup, Unstash, Outside
  <1>4. CASE Rewriting
    BY <1>2, <1>4 DEF Rewriting, StashSource, Snapshot, StageText, StageRow, StageMove, StageCopy, StageRecord,
       WriteTexts, WriteSections, WriteSource, WriteTextIndex, WriteManifest, CommitRow, Outside
  <1>5. CASE Check \/ Refuse \/ Raise \/ Finish \/ Swept
    BY <1>1, <1>5 DEF Check, Refuse, Raise, Finish, Swept, Request, Reply, Req
  <1>6. CASE Requests
    BY <1>1, <1>6 DEF Requests, Arrive, Start, SettleFirst, Parse, TakeStash, Persist, Write, Discard, Close,
       FailReplacement, FailNew, Request, Reply, Req
  <1>7. CASE \E g \in Gens : Thread(g)
    BY <1>7 DEF Thread, ThreadSkips, ThreadWrites, ThreadGivesUp, ThreadSummarises
  <1>8. CASE Crash \/ Restart \/ Rest \/ UNCHANGED vars
    BY <1>1, <1>8 DEF Crash, Restart, Rest, vars, Req
  <1> QED
    BY <1>3, <1>4, <1>5, <1>6, <1>7, <1>8 DEF Next, Holder

(* Where no document is stored raw, a row is that of a parsed one.            *)
ParsedOnly == Channels \subseteq {"sync", "defer"} /\ "raw" \notin Bases
StoredParsed ==
    /\ req.channel \in {"none", "sync", "defer"}
    /\ Exists(db.row) => db.row.stage # "raw"

LEMMA ParsedStarts == ASSUME ParsedOnly, Init PROVE StoredParsed
  BY DEF ParsedOnly, Init, StoredParsed, Exists

LEMMA ParsedStep == ASSUME Scope, ParsedOnly, IInv, StoredParsed, [Next]_vars PROVE StoredParsed'
  <1>1. req'.channel \in {"none", "sync", "defer"}
    BY ChannelSteps DEF ParsedOnly, StoredParsed, IInv
  <1>2. CASE Uploaded
    <2>1. req.channel \in {"sync", "defer"}
      <3>1. req.at = "locked"
        BY <1>2 DEF Uploaded, IInv, Control
      <3> QED
        BY <3>1 DEF IInv, Order, ParsedOnly
    <2>2. db'.row.stage \in {"done", "parse"}
      BY <1>2, <2>1 DEF Uploaded, Target
    <2> QED
      BY <1>1, <2>2 DEF StoredParsed
  <1>3. CASE Summarised
    BY <1>1, <1>3 DEF StoredParsed, Summarised, Carried
  <1> QED
    BY <1>1, <1>2, <1>3, RowOnwards DEF StoredParsed, Exists

(* In Scope, and where no document is stored raw, a document at rest is       *)
(* exactly the version of its row: what a failed attempt over a raw document  *)
(* wrote would stay, as nothing of it was staged.                             *)
THEOREM WholeAtRest == Scope /\ ParsedOnly => (Spec => []WholeWhenClean)
  <1>1. SUFFICES ASSUME Scope, ParsedOnly PROVE Spec => []WholeWhenClean
    OBVIOUS
  <1>2. ASSUME IInv, StoredParsed PROVE WholeWhenClean
    <2>1. SUFFICES ASSUME AtRest, Exists(db.row)
                   PROVE  disk.part = PartsOf(db.row) /\ disk.source = SourceOf(db.row)
      BY DEF WholeWhenClean
    <2>2. Intact(db.row, disk.part, disk.source)
      BY <1>2, <2>1, RestIsRecovered
    <2>3. db.row \in Version /\ db.row # Absent /\ db.row.stage # "raw" /\ db.row.gen # Absent
          /\ disk.part \in Part
      BY <1>2, <2>1, ConstantsAssumption DEF IInv, TypeOK, Row, Exists, StoredParsed, Version, Disk
    <2>4. disk.source = SourceOf(db.row)
      BY <2>2, <2>3 DEF Intact, SourceOf
    <2>5. \A p \in Parts : disk.part[p] = PartOf(db.row, p)
      BY <2>2, <2>3 DEF Intact, PartOf
    <2> QED
      BY <2>3, <2>4, <2>5 DEF PartsOf, Part
  <1>3. Init => StoredParsed
    BY <1>1, ParsedStarts
  <1>4. IInv /\ StoredParsed /\ [Next]_vars => StoredParsed'
    BY <1>1, ParsedStep
  <1>5. IInv /\ StoredParsed => WholeWhenClean
    BY <1>2
  <1> QED
    BY <1>1, <1>3, <1>4, <1>5, Inductive, PTL DEF Spec

-----------------------------------------------------------------------------
(* The record of a failure is cleared on the way out of the commit of an      *)
(* upload, or once a deferred one has dropped its stash.                      *)
Owed == \/ tx.holder = "request" /\ (tx.purpose = "commit"
                                     \/ (tx.purpose = "close" /\ req.channel = "defer"))
        \/ req.at \in {"discard", "close"}
FailureInv == disk.failure /\ Exists(db.row) => Owed

LEMMA FailureSteps ==
  ASSUME TypeOK, [Next]_vars, disk'.failure PROVE disk.failure \/ FailNew
  <1>1. disk \in Disk
    BY DEF TypeOK
  <1>2. CASE disk' = disk
    BY <1>2
  <1>3. CASE Settling
    <2>1. CASE Settle \/ ReadRecord \/ PutBackText
      BY <1>2, <2>1 DEF Settle, ReadRecord, PutBackText
    <2>2. CASE Touch \/ Drop \/ UnmarkStash \/ Unmark \/ Forget \/ RemoveBackup
      BY <1>1, <1>2, <2>2 DEF Touch, Drop, UnmarkStash, Unmark, Forget, RemoveBackup, Disk
    <2>3. CASE Fold \/ Unstash
      BY <1>1, <1>2, <2>3 DEF Fold, Folded, Unstash, SourceRemoved, StashMoved, Disk
    <2>4. CASE PutBack
      BY <1>1, <1>2, <2>4 DEF PutBack, Disk
    <2> QED
      BY <1>3, <2>1, <2>2, <2>3, <2>4 DEF Settling
  <1>4. CASE Rewriting
    <2>1. CASE StashSource \/ Snapshot \/ StageText \/ StageRow
      BY <1>1, <1>2, <2>1 DEF StashSource, Snapshot, StageText, StageRow, Undone, Disk
    <2>2. CASE StageMove \/ StageCopy \/ StageRecord
      BY <1>1, <1>2, <2>2 DEF StageMove, StageCopy, StageRecord, Undone, Disk
    <2>3. CASE WriteTexts \/ WriteSections \/ WriteSource
      BY <1>1, <1>2, <2>3 DEF WriteTexts, WriteSections, WriteSource, Undone, Disk
    <2>4. CASE WriteTextIndex \/ WriteManifest \/ CommitRow
      BY <1>1, <1>2, <2>4 DEF WriteTextIndex, WriteManifest, CommitRow, Undone, Disk
    <2> QED
      BY <1>4, <2>1, <2>2, <2>3, <2>4 DEF Rewriting
  <1>5. CASE Check \/ Refuse \/ Raise \/ Finish \/ Swept
    BY <1>1, <1>2, <1>5 DEF Check, Refuse, Raise, Finish, Cleared, Swept, Disk
  <1>6. CASE Requests
    <2>1. CASE Close
      BY <1>1, <1>2, <2>1 DEF Close, Cleared, Folded, Disk
    <2>2. CASE ~Close
      BY <1>1, <1>2, <1>6, <2>2 DEF Requests, Arrive, Start, SettleFirst, Parse, TakeStash, Persist, Write,
         Discard, FailReplacement, SourceRemoved, StashMoved, Disk
    <2> QED
      BY <2>1, <2>2
  <1>7. CASE \E g \in Gens : Thread(g)
    BY <1>2, <1>7 DEF Thread, ThreadSkips, ThreadWrites, ThreadGivesUp, ThreadSummarises
  <1>8. CASE Crash \/ Restart \/ Rest \/ UNCHANGED vars
    BY <1>1, <1>2, <1>8 DEF Crash, Restart, Rest, vars, Disk
  <1> QED
    BY <1>3, <1>4, <1>5, <1>6, <1>7, <1>8 DEF Next, Holder

(* From a commit on the record is owed its clearing until it is cleared.      *)
LEMMA OwedSteps ==
  ASSUME Scope, IInv, Owed, [Next]_vars, ~Crash, disk'.failure PROVE Owed'
  <1>1. tx \in Tx /\ req \in Req /\ disk \in Disk /\ Control /\ TypeOK
    BY DEF IInv, TypeOK
  <1>2. CASE UNCHANGED <<tx, req>>
    BY <1>2 DEF Owed
  <1>3. \A at : [req EXCEPT !.at = at].at = at
    BY <1>1 DEF Req
  <1>4. CASE Settling
    <2>1. tx'.holder = tx.holder /\ req' = req
      BY <1>1, <1>4, SettlingKeeps
    <2>2. tx'.purpose = tx.purpose
      BY <1>1, <1>4, SettlingKeeps
    <2> QED
      BY <2>1, <2>2 DEF Owed
  <1>5. CASE Rewriting
    <2>1. tx'.holder = tx.holder /\ req' = req
      BY <1>1, <1>5, HolderKeeps
    <2>2. tx.purpose \in {"stash", "rewrite"}
      BY <1>1, <1>5, PurposeAt DEF Rewriting, StashSource, Snapshot, StageText, StageRow, StageMove,
         StageCopy, StageRecord, WriteTexts, WriteSections, WriteSource, WriteTextIndex, WriteManifest,
         CommitRow, At, StageAts, WriteAts
    <2> QED
      BY <2>1, <2>2 DEF Owed
  <1>6. CASE Check \/ Raise \/ Swept
    <2>1. tx.purpose \in {"before", "stash", "undo", "sweep"} /\ tx.holder # "summary"
      BY <1>1, <1>6, PurposeAt DEF Check, Raise, Swept, At, Control
    <2>2. tx.holder = "request" => req.at = "locked"
      BY <1>1 DEF Control
    <2>3. env.up = "up" \/ req.at = "idle"
      BY <1>1 DEF Control
    <2>4. CASE Swept
      BY <1>1, <2>1, <2>4 DEF Swept, Release, NoTx, Owed, Control
    <2>5. tx.purpose # "sweep" => tx.holder = "request"
      BY <1>1, <2>1, PurposeAt
    <2>6. CASE Check \/ Raise
      <3>1. tx.purpose # "sweep"
        BY <1>1, <2>6, PurposeAt DEF Check, Raise, At
      <3> QED
        BY <2>1, <2>2, <2>5, <3>1 DEF Owed
    <2> QED
      BY <1>6, <2>4, <2>6
  <1>7. CASE Finish
    <2>1. CASE tx.holder = "summary"
      <3>1. req' = req
        BY <1>7, <2>1 DEF Finish
      <3> QED
        BY <2>1, <3>1 DEF Owed
    <2>2. CASE tx.holder = "request"
      <3>1. req.at = "locked"
        BY <1>1, <2>2 DEF Control
      <3>2. CASE req.channel = "raw"
        <4>1. disk' = Cleared(disk)
          BY <1>7, <2>2, <3>1, <3>2 DEF Finish, Owed
        <4> QED
          BY <1>1, <4>1 DEF Cleared, Disk
      <3>3. CASE req.channel # "raw"
        <4>1. tx.purpose = "commit" \/ (tx.purpose = "close" /\ req.channel = "defer")
          BY <2>2, <3>1 DEF Owed
        <4>2. \E at \in {"close", "discard"} : req' = [req EXCEPT !.at = at]
          BY <1>7, <2>2, <3>3, <4>1 DEF Finish, Request
        <4> QED
          BY <1>3, <4>2 DEF Owed
      <3> QED
        BY <3>2, <3>3
    <2> QED
      BY <1>7, <2>1, <2>2 DEF Finish
  <1>8. CASE Requests
    <2>1. CASE Arrive
      BY <1>1, <2>1 DEF Arrive, Waiting, Owed, Req
    <2>2. CASE ~Arrive
      <3>1. tx.holder # "request" /\ req.at \in {"discard", "close"}
        BY <1>1, <1>8, <2>2 DEF Requests, Start, SettleFirst, Parse, TakeStash, Persist, Write, Discard,
           Close, FailReplacement, FailNew, Serving, Control, Owed
      <3>2. Discard \/ Close
        BY <1>8, <2>2, <3>1 DEF Requests, Start, SettleFirst, Parse, TakeStash, Persist, Write,
           FailReplacement, FailNew, Serving
      <3>3. CASE Discard
        <4>1. tx'.holder = "request" /\ tx'.purpose = "close"
          BY <3>3 DEF Discard, Acquire, NoTx
        <4>2. req.channel = "defer"
          BY <3>3 DEF Discard, Serving, IInv, Order
        <4>3. req'.channel = req.channel
          BY <1>1, <3>3 DEF Discard, Request, Req
        <4> QED
          BY <4>1, <4>2, <4>3 DEF Owed
      <3>4. CASE Close
        <4>1. req.at = "close"
          BY <3>1, <3>4 DEF Close, Serving
        <4>2. disk' = Cleared(disk) \/ disk' = Cleared(Folded)
          BY <3>4, <4>1 DEF Close, Serving
        <4>3. Cleared(disk).failure = FALSE /\ Cleared(Folded).failure = FALSE
          BY <1>1 DEF Cleared, Folded, Disk
        <4> QED
          BY <4>2, <4>3
      <3> QED
        BY <3>2, <3>3, <3>4
    <2> QED
      BY <2>1, <2>2
  <1>9. CASE \E g \in Gens : Thread(g)
    <2>1. req' = req /\ (tx' = tx \/ tx.holder = "none")
      BY <1>9 DEF Thread, ThreadSkips, ThreadWrites, ThreadGivesUp, ThreadSummarises, Acquire
    <2> QED
      BY <2>1 DEF Owed
  <1>10. CASE Restart
    BY <1>1, <1>10 DEF Restart, Owed, Control
  <1>11. CASE Rest \/ UNCHANGED vars
    BY <1>2, <1>11 DEF Rest, vars
  <1>12. ~Refuse
    BY <1>1, PurposeAt DEF Refuse, At
  <1> QED
    BY <1>4, <1>5, <1>6, <1>7, <1>8, <1>9, <1>10, <1>11, <1>12 DEF Next, Holder

(* In Scope no document of the library has a failure record beside it, where  *)
(* the process does not die between a commit and the clearing of the record.  *)
THEOREM OneRecord == Scope /\ MaxCrashes = 0 => (Spec => []OneFailureRecord)
  <1>1. SUFFICES ASSUME Scope, MaxCrashes = 0 PROVE Spec => []OneFailureRecord
    OBVIOUS
  <1>2. Init => FailureInv
    BY DEF Init, FailureInv
  <1>3. ASSUME IInv, FailureInv, [Next]_vars PROVE FailureInv'
    <2>1. SUFFICES ASSUME disk'.failure, Exists(db'.row) PROVE Owed'
      BY DEF FailureInv, Exists
    <2>2. ~Crash
      BY <1>1, <1>3 DEF Crash, IInv, TypeOK, Env
    <2>3. CASE db'.row = db.row
      <3>1. ~FailNew \/ ~Exists(db.row)
        BY <1>3, FailNewIsFree
      <3>2. disk.failure
        BY <1>3, <2>1, <2>3, <3>1, FailureSteps DEF IInv, Exists
      <3> QED
        BY <1>1, <1>3, <2>1, <2>2, <2>3, <3>2, OwedSteps DEF FailureInv, Exists
    <2>4. CASE Uploaded /\ db'.row # db.row
      <3>1. tx'.purpose = "commit" /\ tx'.holder = "request"
        BY <1>3, <2>4 DEF Uploaded, CommitRow, Undone, IInv, TypeOK, Tx
      <3> QED
        BY <3>1 DEF Owed
    <2>5. CASE Summarised
      <3>1. disk.failure
        BY <1>3, <2>1, <2>5, FailNewIsFree, FailureSteps DEF Summarised, IInv
      <3> QED
        BY <1>1, <1>3, <2>1, <2>2, <2>5, <3>1, OwedSteps DEF FailureInv, Summarised
    <2> QED
      BY <1>1, <1>3, <2>1, <2>3, <2>4, <2>5, RowOnwards DEF Exists
  <1>4. IInv /\ FailureInv /\ [Next]_vars => FailureInv'
    BY <1>3
  <1>5. IInv /\ FailureInv => OneFailureRecord
    BY DEF FailureInv, OneFailureRecord, Quiet, Owed, IInv, Control
  <1> QED
    BY <1>1, <1>2, <1>4, <1>5, Inductive, PTL DEF Spec

-----------------------------------------------------------------------------
(* The indexed text is that of the row, as a start would leave it; and what   *)
(* the holder of the lock keeps of it, in memory and in the backup, is too.   *)
TextsAgree ==
    ~env.textFault =>
    /\ RecoveredText = TextOf(db.row)
    /\ tx.at \in {"forget", "remove"} => db.fts = TextOf(db.row)
    /\ tx.at \in {"put", "text"} =>
          IF tx.purpose = "undo" THEN tx.fts = TextOf(db.row)
          ELSE tx.finished <=> disk.backup.staged # NoFile
    /\ tx.at \in StageAts \cup WriteAts => tx.fts = TextOf(db.row)
    /\ tx.at \in StageAts \ {"stage_text"} => SnapshotText = TextOf(db.row)
    /\ tx.at = "write_row" \/ (~Raw /\ tx.at = "write_manifest") => db.fts = TextOf(tx.target)

LEMMA TextsStart == ASSUME Init PROVE TextsAgree
  BY DEF Init, TextsAgree, RecoveredText, Committed, RowMoved, NoBackup, NoTx, StageAts, WriteAts

(* What the texts depend on.                                                  *)
SameTexts == /\ disk'.marker = disk.marker /\ disk'.backup.staged = disk.backup.staged
             /\ disk'.backup.fts = disk.backup.fts /\ disk'.backup.idx = disk.backup.idx
             /\ db' = db

LEMMA SameRecovered ==
  ASSUME SameTexts PROVE RecoveredText' = RecoveredText /\ SnapshotText' = SnapshotText
  BY DEF SameTexts, RecoveredText, SnapshotText, Committed, RowMoved

(* Steps between moments where the texts are not held in memory.              *)
Idle(at) == at \notin {"forget", "remove", "put", "text"} \cup StageAts \cup WriteAts

LEMMA TextsKept ==
  ASSUME TextsAgree, SameTexts, env'.textFault = env.textFault,
         tx' = tx \/ Idle(tx'.at)
  PROVE  TextsAgree'
  <1>1. RecoveredText' = RecoveredText /\ SnapshotText' = SnapshotText
    BY SameRecovered
  <1>2. CASE tx' = tx
    BY <1>1, <1>2 DEF TextsAgree, SameTexts, Raw
  <1>3. CASE Idle(tx'.at)
    BY <1>1, <1>3 DEF TextsAgree, SameTexts, Idle, StageAts, WriteAts
  <1> QED
    BY <1>2, <1>3

LEMMA SettlingTexts == ASSUME Scope, IInv, TextsAgree, Settling PROVE TextsAgree'
  <1>1. disk \in Disk /\ disk.backup \in Backup /\ tx \in Tx /\ env \in Env /\ TypeOK
        /\ db = [row |-> db.row, fts |-> db.fts]
    BY DEF IInv, TypeOK, Disk
  <1>2. /\ FaultySteps \cap {"settle", "touch", "drop", "fold", "unmark", "record", "put", "text", "forget",
                              "remove", "unstash_rm", "unstash_mv"} = {}
    BY DEF Scope, WriterSteps
  <1>3. \A a : [tx EXCEPT !.at = a].at = a /\ [tx EXCEPT !.at = a].purpose = tx.purpose
              /\ [tx EXCEPT !.at = a].fts = tx.fts /\ [tx EXCEPT !.at = a].finished = tx.finished
    BY <1>1 DEF Tx
  <1>4. \A stuck : Idle(Settled(stuck))
    BY DEF Settled, Idle, StageAts, WriteAts
  <1>5. CASE Settle
    <2>1. /\ SameTexts /\ env' = env
          /\ tx'.at \in {"drop", "touch", "record", "unstash_rm", Settled(FALSE)}
      BY <1>1, <1>2, <1>3, <1>5 DEF Settle, Goto, NoFault, BlindFault, Faulty, Outside, SameTexts
    <2> QED
      BY <1>4, <2>1, TextsKept DEF Idle, StageAts, WriteAts
  <1>6. CASE Touch
    <2>1. disk' = [disk EXCEPT !.marker = TRUE] /\ tx' = [tx EXCEPT !.at = "drop"] /\ env' = env /\ db' = db
      BY <1>2, <1>6 DEF Touch, Goto, NoFault, Fault, Faulty
    <2>2. Committed /\ Committed'
      BY <1>1, <1>6, <2>1 DEF IInv, RollingForward, Touch, At, Committed, Disk
    <2>3. RecoveredText = db.fts /\ RecoveredText' = db'.fts
      BY <2>2 DEF RecoveredText
    <2> QED
      BY <1>1, <2>1, <2>3 DEF TextsAgree, StageAts, WriteAts, Tx
  <1>7. CASE Drop
    <2>1. disk' = [disk EXCEPT !.backup = NoBackup] /\ tx'.at \in {"unmark", "fold"} /\ env' = env /\ db' = db
      BY <1>2, <1>3, <1>7 DEF Drop, Goto, NoFault, Fault, Faulty
    <2>2. Committed /\ disk'.backup.staged = NoFile
      <3>1. tx.holder = "summary" => tx.purpose = "commit"
        BY <1>7 DEF Drop, At, IInv, Control, AtsOf, StageAts, WriteAts
      <3>2. Committed
        BY <1>7, <3>1 DEF IInv, RollingForward, Drop, At, Committed
      <3>3. disk'.backup = NoBackup
        BY <1>1, <2>1 DEF Disk
      <3> QED
        BY <3>2, <3>3 DEF NoBackup
    <2>3. RecoveredText = db.fts /\ RecoveredText' = db'.fts
      BY <2>2 DEF RecoveredText
    <2> QED
      BY <2>1, <2>3 DEF TextsAgree, StageAts, WriteAts
  <1>8. CASE Fold
    <2>1. SameTexts
      BY <1>1, <1>2, <1>8 DEF Fold, Folded, Fault, Faulty, SameTexts, Disk
    <2>2. env' = env /\ tx'.at = "unmark_stash"
      BY <1>2, <1>3, <1>8 DEF Fold, Goto, NoFault, Fault, Faulty
    <2> QED
      BY <2>1, <2>2, TextsKept DEF Idle, StageAts, WriteAts
  <1>9. CASE UnmarkStash \/ Unmark
    <2>1. disk.backup = NoBackup
      BY <1>9 DEF UnmarkStash, Unmark, At, IInv, RollingForward, NoBack
    <2>2. disk'.backup = NoBackup /\ db' = db /\ env' = env
      BY <1>1, <1>2, <1>9, <2>1 DEF UnmarkStash, Unmark, NoFault, Fault, Faulty, Disk
    <2>3. RecoveredText = db.fts /\ RecoveredText' = db'.fts
      BY <2>1, <2>2 DEF RecoveredText, NoBackup
    <2>4. tx'.at = "finish" \/ \E stuck : tx'.at = Settled(stuck)
      BY <1>2, <1>3, <1>9 DEF UnmarkStash, Unmark, Goto, Fault, Faulty
    <2> QED
      BY <1>4, <2>2, <2>3, <2>4 DEF TextsAgree, Idle, StageAts, WriteAts
  <1>10. CASE ReadRecord
    <2>1. disk' = disk /\ db' = db /\ env' = env /\ tx'.at = "put" /\ tx'.purpose = tx.purpose
          /\ (tx'.finished <=> disk.backup.staged # NoFile)
      BY <1>1, <1>2, <1>10 DEF ReadRecord, NoFault, Fault, Faulty, Outside, Tx
    <2>2. tx.purpose # "undo"
      BY <1>1, <1>10 DEF ReadRecord, At, IInv, Control, AtsOf, UndoAts
    <2>3. RecoveredText' = RecoveredText
      BY <2>1, SameRecovered DEF SameTexts
    <2> QED
      BY <2>1, <2>2, <2>3 DEF TextsAgree, StageAts, WriteAts
  <1>11. CASE PutBack
    <2>1. SameTexts /\ env' = env /\ tx'.at \in {"put", "text"} /\ tx'.purpose = tx.purpose /\ tx'.fts = tx.fts
          /\ tx'.finished = tx.finished
      <3>1. tx.at = "put" /\ env' = env /\ db' = db
        BY <1>2, <1>11 DEF PutBack, At, NoFault, Fault, Faulty
      <3>2. /\ tx'.at \in {"put", "text"} /\ tx'.purpose = tx.purpose /\ tx'.fts = tx.fts
            /\ tx'.finished = tx.finished
        BY <1>1, <1>2, <1>11, <3>1 DEF PutBack, Goto, Fault, Faulty, Tx
      <3>3. \/ disk' = disk
            \/ \E p \in Parts : \/ disk' = [disk EXCEPT !.part[p] = Absent]
                               \/ disk' = [disk EXCEPT !.part[p] = disk.backup.part[p],
                                                       !.backup.part[p] = Absent]
        BY <1>1, <1>2, <1>11 DEF PutBack, Fault, Faulty, Tx, Names
      <3>4. ASSUME NEW p \in Parts,
                   disk' = [disk EXCEPT !.part[p] = disk.backup.part[p], !.backup.part[p] = Absent]
            PROVE  SameTexts
        <4>1. disk'.backup = [disk.backup EXCEPT !.part[p] = Absent] /\ disk'.marker = disk.marker
          BY <1>1, <3>4 DEF Disk
        <4> QED
          BY <1>1, <3>1, <4>1 DEF SameTexts, Backup
      <3>5. ASSUME NEW p \in Parts, disk' = [disk EXCEPT !.part[p] = Absent] PROVE SameTexts
        BY <1>1, <3>1, <3>5 DEF SameTexts, Disk
      <3> QED
        BY <3>1, <3>2, <3>3, <3>4, <3>5 DEF SameTexts
    <2>2. RecoveredText' = RecoveredText /\ tx.at = "put"
      BY <1>11, <2>1, SameRecovered DEF PutBack, At
    <2> QED
      BY <2>1, <2>2 DEF TextsAgree, SameTexts, StageAts, WriteAts
  <1>12. CASE PutBackText
    <2>1. disk' = disk /\ tx'.at = "forget" /\ tx.at = "text" /\ ~Committed /\ db'.row = db.row
      BY <1>1, <1>2, <1>3, <1>12 DEF PutBackText, At, Goto, Fault, Faulty, IInv, RollingBack
    <2>2. ASSUME env'.textFault = FALSE, ~env.textFault PROVE db'.fts = TextOf(db.row)
      <3>1. db'.fts = IF tx.purpose # "undo" /\ ~tx.finished THEN db.fts
                      ELSE IF tx.purpose = "undo" THEN tx.fts ELSE SnapshotText
        BY <1>1, <1>2, <1>12 DEF PutBackText, TextFault, Fault, Faulty
      <3> QED
        BY <2>1, <2>2, <3>1 DEF TextsAgree, RecoveredText
    <2>3. env'.textFault = env.textFault
      BY <1>1, <1>2, <1>12 DEF PutBackText, NoFault, TextFault, Fault, Faulty
    <2>4. RecoveredText' = IF disk.backup.staged = NoFile THEN db'.fts ELSE SnapshotText
      BY <2>1 DEF RecoveredText, Committed, RowMoved, SnapshotText
    <2>5. RecoveredText = IF disk.backup.staged = NoFile THEN db.fts ELSE SnapshotText
      BY <2>1 DEF RecoveredText
    <2> QED
      BY <1>1, <2>1, <2>2, <2>3, <2>4, <2>5 DEF TextsAgree, StageAts, WriteAts, Env
  <1>13. CASE Forget
    <2>1. disk' = [disk EXCEPT !.backup.staged = NoFile] /\ tx'.at = "remove" /\ tx.at = "forget" /\ env' = env
          /\ db' = db
      BY <1>2, <1>3, <1>13 DEF Forget, At, Goto, NoFault, Fault, Faulty
    <2>2. RecoveredText' = db'.fts
      BY <1>1, <2>1 DEF RecoveredText, Disk, Backup
    <2> QED
      BY <2>1, <2>2 DEF TextsAgree, StageAts, WriteAts
  <1>14. CASE RemoveBackup
    <2>1. disk' = [disk EXCEPT !.backup = NoBackup] /\ tx.at = "remove" /\ env' = env /\ db' = db
          /\ (tx'.at \in {"raise", "unstash_rm"} \/ tx'.at = Settled(FALSE))
      BY <1>2, <1>3, <1>14 DEF RemoveBackup, At, Goto, NoFault, Fault, Faulty
    <2>2. RecoveredText' = db'.fts
      BY <1>1, <2>1 DEF RecoveredText, Disk, NoBackup
    <2> QED
      BY <1>4, <2>1, <2>2 DEF TextsAgree, StageAts, WriteAts, Idle
  <1>15. CASE Unstash
    <2>1. SameTexts
      BY <1>1, <1>2, <1>15 DEF Unstash, SourceRemoved, StashMoved, Fault, Faulty, SameTexts, Disk
    <2>2. env' = env /\ (tx'.at = "unstash_mv" \/ tx'.at = Settled(FALSE))
      BY <1>2, <1>3, <1>15 DEF Unstash, Goto, NoFault, Fault, Faulty
    <2> QED
      BY <1>4, <2>1, <2>2, TextsKept DEF Idle, StageAts, WriteAts
  <1> QED
    BY <1>5, <1>6, <1>7, <1>8, <1>9, <1>10, <1>11, <1>12, <1>13, <1>14, <1>15 DEF Settling

LEMMA RewritingTexts == ASSUME Scope, IInv, TextsAgree, Rewriting PROVE TextsAgree'
  <1>1. disk \in Disk /\ disk.backup \in Backup /\ tx \in Tx /\ env \in Env /\ TypeOK
        /\ db = [row |-> db.row, fts |-> db.fts]
    BY DEF IInv, TypeOK, Disk
  <1>2. FaultySteps \cap {"clear", "read_row", "stage_copy", "stage_record"} = {}
    BY DEF Scope, WriterSteps
  <1>3. \A a : [tx EXCEPT !.at = a].at = a /\ [tx EXCEPT !.at = a].purpose = tx.purpose
              /\ [tx EXCEPT !.at = a].fts = tx.fts /\ [tx EXCEPT !.at = a].target = tx.target
    BY <1>1 DEF Tx
  <1>4. \A step : Fault(step) => env'.textFault = env.textFault
    BY <1>1 DEF Fault, Env
  <1>5. ASSUME NEW step, Undone(step), tx.at \in StageAts \cup WriteAts PROVE TextsAgree'
    <2>1. SameTexts /\ env'.textFault = env.textFault
      BY <1>4, <1>5 DEF Undone, SameTexts
    <2>2. tx'.at = "put" /\ tx'.purpose = "undo" /\ tx'.fts = tx.fts
      BY <1>1, <1>5 DEF Undone, Undo, Tx
    <2>3. RecoveredText' = RecoveredText
      BY <2>1, SameRecovered
    <2> QED
      BY <1>5, <2>1, <2>2, <2>3 DEF TextsAgree, SameTexts, StageAts, WriteAts
  <1>6. tx.at \in WriteAts => /\ ~Committed /\ disk.backup.staged # NoFile /\ ~disk.marker
                             /\ disk.backup.idx = db.row /\ tx.purpose = "rewrite"
    <2>1. tx.names \in SUBSET Parts
      BY <1>1 DEF Tx, Names
    <2> QED
      BY <1>1, <2>1, PurposeAt, ConstantsAssumption DEF IInv, Staging, Committed, RowMoved, StageAts, WriteAts
  <1>7. tx.at \in WriteAts /\ ~env.textFault => SnapshotText = TextOf(db.row)
    BY <1>6 DEF TextsAgree, RecoveredText
  <1>8. CASE StashSource
    <2>1. SameTexts /\ env'.textFault = env.textFault
      BY <1>1, <1>4, <1>8 DEF StashSource, NoFault, SameTexts, Disk
    <2>2. tx'.at \in {"settle", "finish", "raise"}
      BY <1>1, <1>8 DEF StashSource, Goto, Tx
    <2> QED
      BY <2>1, <2>2, TextsKept DEF Idle, StageAts, WriteAts
  <1>9. CASE Snapshot
    <2>1. tx.at = "clear" /\ disk.backup = NoBackup
      BY <1>1, <1>9, PurposeAt DEF Snapshot, At, IInv, Clean, NoBack
    <2>2. disk'.backup = NoBackup /\ disk'.marker = disk.marker /\ db' = db /\ tx'.at = "stage_text"
      BY <1>1, <1>2, <1>9, <2>1 DEF Snapshot, NoBackup, Fault, BlindFault, Faulty, Disk, Tx
    <2>3. ASSUME ~env'.textFault PROVE ~env.textFault /\ tx'.fts = db.fts
      BY <1>1, <1>2, <1>9, <2>3 DEF Snapshot, NoFault, Fault, TextFault, BlindFault, Faulty, Tx, Env
    <2>4. RecoveredText = db.fts /\ RecoveredText' = db'.fts
      BY <2>1, <2>2 DEF RecoveredText, NoBackup
    <2> QED
      BY <2>2, <2>3, <2>4 DEF TextsAgree, StageAts, WriteAts
  <1>10. CASE StageText
    <2>1. CASE Undone("stage_text")
      BY <1>5, <1>10, <2>1 DEF StageText, At, StageAts
    <2>2. CASE ~Undone("stage_text")
      <3>1. /\ tx.at = "stage_text" /\ tx'.at = "stage_row" /\ tx'.fts = tx.fts /\ db' = db /\ env' = env
            /\ disk' = [disk EXCEPT !.backup.here = TRUE,
                                    !.backup.fts = IF Exists(tx.fts) THEN tx.fts ELSE @]
        BY <1>3, <1>10, <2>2 DEF StageText, At, Goto, NoFault
      <3>2. disk.backup = NoBackup
        BY <1>1, <3>1, PurposeAt DEF IInv, Clean, NoBack, StageAts
      <3>3. disk'.backup = [[disk.backup EXCEPT !.here = TRUE]
                              EXCEPT !.fts = IF Exists(tx.fts) THEN tx.fts ELSE NoFile]
        BY <1>1, <3>1, <3>2 DEF Disk, NoBackup
      <3>4. disk'.backup.staged = NoFile /\ disk'.backup.fts = IF Exists(tx.fts) THEN tx.fts ELSE NoFile
        BY <1>1, <3>2, <3>3 DEF NoBackup
      <3>5. SnapshotText' = tx.fts
        <4>1. tx.fts # NoFile
          BY <1>1, ConstantsAssumption DEF Tx, Row
        <4> QED
          BY <3>4, <4>1 DEF SnapshotText, Exists
      <3>6. RecoveredText = db.fts /\ RecoveredText' = db'.fts
        BY <3>2, <3>4 DEF RecoveredText, NoBackup
      <3> QED
        BY <3>1, <3>5, <3>6 DEF TextsAgree, StageAts, WriteAts
    <2> QED
      BY <2>1, <2>2
  <1>11. ASSUME NEW a \in StageAts \ {"stage_text"}, tx.at \in StageAts \ {"stage_text"},
                disk'.backup.staged = disk.backup.staged, disk'.backup.fts = disk.backup.fts,
                db' = db, env' = env, tx'.at = a, tx'.fts = tx.fts
         PROVE  TextsAgree'
    <2>1. disk.backup.staged = NoFile
      BY <1>11 DEF IInv, Staging, StageAts
    <2>2. RecoveredText = db.fts /\ RecoveredText' = db'.fts /\ SnapshotText' = SnapshotText
      BY <1>11, <2>1 DEF RecoveredText, SnapshotText
    <2> QED
      BY <1>11, <2>2 DEF TextsAgree, StageAts, WriteAts
  <1>12. CASE StageRow
    <2>1. CASE Undone("stage_row")
      BY <1>5, <1>12, <2>1 DEF StageRow, At, StageAts
    <2>2. CASE ~Undone("stage_row")
      <3>1. /\ tx.at = "stage_row" /\ tx'.at = "stage_move" /\ tx'.fts = tx.fts /\ db' = db /\ env' = env
            /\ disk' = [disk EXCEPT !.backup.idx = tx.idx]
        BY <1>3, <1>12, <2>2 DEF StageRow, At, Goto, NoFault
      <3>2. disk'.backup.staged = disk.backup.staged /\ disk'.backup.fts = disk.backup.fts
        BY <1>1, <3>1 DEF Disk, Backup
      <3> QED
        BY <1>11, <3>1, <3>2 DEF StageAts
    <2> QED
      BY <2>1, <2>2
  <1>13. CASE StageMove \/ StageCopy
    <2>1. CASE Undone("stage_move") \/ Undone("stage_copy")
      BY <1>5, <1>13, <2>1 DEF StageMove, StageCopy, At, StageAts
    <2>2. CASE ~Undone("stage_move") /\ ~Undone("stage_copy")
      <3>1. /\ tx.at \in {"stage_move", "stage_copy"} /\ db' = db /\ env' = env
            /\ tx'.at \in {"stage_move", "stage_copy", "stage_record"} /\ tx'.fts = tx.fts
        BY <1>1, <1>3, <1>13, <2>2 DEF StageMove, StageCopy, At, Goto, NoFault, Tx
      <3>2. \/ disk' = disk
            \/ \E p \in Parts : \/ disk' = [disk EXCEPT !.backup.part[p] = disk.part[p]]
                               \/ disk' = [disk EXCEPT !.part[p] = Absent, !.backup.part[p] = disk.part[p]]
        BY <1>13, <2>2 DEF StageMove, StageCopy, Parts
      <3>3. ASSUME NEW p \in Parts,
                   \/ disk' = [disk EXCEPT !.backup.part[p] = disk.part[p]]
                   \/ disk' = [disk EXCEPT !.part[p] = Absent, !.backup.part[p] = disk.part[p]]
            PROVE  disk'.backup = [disk.backup EXCEPT !.part[p] = disk.part[p]]
        BY <1>1, <3>3 DEF Disk
      <3>4. disk'.backup.staged = disk.backup.staged /\ disk'.backup.fts = disk.backup.fts
        BY <1>1, <3>2, <3>3 DEF Backup
      <3> QED
        BY <1>11, <3>1, <3>4 DEF StageAts
    <2> QED
      BY <2>1, <2>2
  <1>14. CASE StageRecord
    <2>1. /\ tx.at = "stage_record" /\ tx'.at = "write_texts" /\ tx'.fts = tx.fts /\ db' = db /\ env' = env
          /\ disk' = [disk EXCEPT !.backup.staged = tx.names]
      BY <1>2, <1>3, <1>14 DEF StageRecord, At, Goto, NoFault, Undone, Fault, Faulty
    <2>2. disk'.backup.staged # NoFile /\ disk'.backup.fts = disk.backup.fts /\ disk'.backup.idx = disk.backup.idx
          /\ disk'.marker = disk.marker
      <3>1. tx.names # NoFile
        BY <1>1, ConstantsAssumption DEF Tx, Names
      <3> QED
        BY <1>1, <2>1, <3>1 DEF Disk, Backup
    <2>3. ~Committed'
      BY <1>1, <2>1, <2>2, PurposeAt DEF IInv, Staging, Committed, RowMoved, StageAts, WriteAts
    <2>4. RecoveredText' = SnapshotText
      BY <2>2, <2>3 DEF RecoveredText, SnapshotText
    <2> QED
      BY <2>1, <2>4 DEF TextsAgree, StageAts, WriteAts
  <1>15. CASE WriteTexts \/ WriteSections \/ WriteSource \/ WriteManifest
    <2>1. CASE \E step : Undone(step)
      BY <1>5, <1>15, <2>1 DEF WriteTexts, WriteSections, WriteSource, WriteManifest, At, WriteAts
    <2>2. CASE ~\E step : Undone(step)
      <3>1. SameTexts /\ env' = env
        <4>1. db' = db /\ env' = env
          BY <1>15, <2>2 DEF WriteTexts, WriteSections, WriteSource, WriteManifest, NoFault
        <4>2. \/ disk' = [disk EXCEPT !.source = SourceOf(tx.target)]
              \/ \E p \in Parts : \E v : disk' = [disk EXCEPT !.part[p] = v]
          BY <1>15, <2>2 DEF WriteTexts, WriteSections, WriteSource, WriteManifest, Parts, Moved, Copied
        <4> QED
          BY <1>1, <4>1, <4>2 DEF SameTexts, Disk
      <3>2. RecoveredText' = RecoveredText
        BY <3>1, SameRecovered
      <3>3. /\ tx.at \in WriteAts /\ tx'.at \in WriteAts /\ tx'.fts = tx.fts /\ tx'.target = tx.target
            /\ tx'.at = "write_row" => tx.at = "write_manifest" /\ ~Raw
            /\ tx'.at = "write_manifest" => tx.at = "write_source"
        <4>1. CASE WriteTexts
          BY <1>1, <2>2, <4>1 DEF WriteTexts, At, Goto, WriteAts, Tx
        <4>2. CASE WriteSections \/ WriteSource
          BY <1>1, <2>2, <4>2 DEF WriteSections, WriteSource, At, Goto, WriteAts, Tx
        <4>3. CASE WriteManifest
          BY <1>1, <2>2, <4>3 DEF WriteManifest, At, Goto, WriteAts, Tx
        <4> QED
          BY <1>15, <4>1, <4>2, <4>3
      <3>4. tx.at = "write_source" => Raw
        BY DEF IInv, Written, WriteAts
      <3> QED
        BY <3>1, <3>2, <3>3, <3>4 DEF TextsAgree, SameTexts, StageAts, WriteAts, Raw
    <2> QED
      BY <2>1, <2>2
  <1>16. CASE WriteTextIndex
    <2>1. /\ tx.at = "write_text_index" /\ tx'.at \in {"write_row", "write_manifest"} /\ disk' = disk
          /\ tx'.fts = tx.fts /\ tx'.target = tx.target /\ db'.row = db.row
      BY <1>1, <1>3, <1>16 DEF WriteTextIndex, At, Goto, TextFault
    <2>2. ASSUME ~env'.textFault PROVE ~env.textFault /\ db'.fts = TextOf(tx.target)
      BY <1>1, <1>16, <2>2 DEF WriteTextIndex, NoFault, TextFault, Env
    <2>3. RecoveredText' = SnapshotText
      BY <1>6, <2>1 DEF RecoveredText, SnapshotText, Committed, RowMoved, WriteAts
    <2> QED
      BY <1>7, <2>1, <2>2, <2>3 DEF TextsAgree, StageAts, WriteAts
  <1>17. CASE CommitRow
    <2>1. CASE Undone("write_row")
      BY <1>5, <1>17, <2>1 DEF CommitRow, At, WriteAts
    <2>2. CASE ~Undone("write_row")
      <3>1. /\ tx.at = "write_row" /\ tx'.at = "touch" /\ disk' = disk /\ env' = env
            /\ db'.row = tx.target /\ db'.fts = db.fts
        BY <1>1, <1>17, <2>2 DEF CommitRow, At, NoFault, Tx
      <3>2. tx.target # db.row /\ tx.target # Absent
        BY <3>1, TargetIs DEF WriteAts, Exists
      <3>3. disk.backup.idx = db.row /\ db.row \notin {NoFile, Unknown}
        BY <1>1, <1>6, <3>1, ConstantsAssumption DEF WriteAts, TypeOK, Row
      <3>4. Committed'
        BY <3>1, <3>2, <3>3 DEF Committed, RowMoved
      <3> QED
        BY <3>1, <3>4 DEF TextsAgree, RecoveredText, StageAts, WriteAts
    <2> QED
      BY <2>1, <2>2
  <1> QED
    BY <1>8, <1>9, <1>10, <1>12, <1>13, <1>14, <1>15, <1>16, <1>17 DEF Rewriting

LEMMA RequestTexts == ASSUME Scope, IInv, TextsAgree, Requests PROVE TextsAgree'
  <1>1. disk \in Disk /\ disk.backup \in Backup /\ tx \in Tx /\ req \in Req /\ env \in Env /\ TypeOK /\ Control
        /\ db = [row |-> db.row, fts |-> db.fts]
    BY DEF IInv, TypeOK, Disk
  <1>2. \A step : Fault(step) => env'.textFault = env.textFault
    BY <1>1 DEF Fault, Env
  <1>3. CASE Arrive \/ Start \/ Parse
    <2>1. SameTexts /\ env' = env /\ tx' = tx
      BY <1>3 DEF Arrive, Start, Parse, Waiting, SameTexts
    <2> QED
      BY <2>1, TextsKept
  <1>4. CASE SettleFirst \/ TakeStash \/ Write \/ Discard
    <2>1. SameTexts /\ env' = env /\ tx'.at \in {"settle", "fold"}
      BY <1>4 DEF SettleFirst, TakeStash, Write, Discard, Acquire, NoTx, SameTexts
    <2> QED
      BY <2>1, TextsKept DEF Idle, StageAts, WriteAts
  <1>5. CASE Persist \/ FailReplacement
    <2>1. SameTexts
      BY <1>1, <1>5 DEF Persist, FailReplacement, SourceRemoved, StashMoved, SameTexts, Disk
    <2>2. env'.textFault = env.textFault /\ tx' = tx
      BY <1>2, <1>5 DEF Persist, FailReplacement, NoFault, Waiting
    <2> QED
      BY <2>1, <2>2, TextsKept
  <1>6. ASSUME disk.backup = NoBackup, disk'.backup = NoBackup, db' = db, env'.textFault = env.textFault, tx' = tx
        PROVE  TextsAgree'
    <2>1. RecoveredText = db.fts /\ RecoveredText' = db'.fts /\ SnapshotText' = SnapshotText
      BY <1>6 DEF RecoveredText, SnapshotText, NoBackup
    <2> QED
      BY <1>6, <2>1 DEF TextsAgree, Raw
  <1>7. CASE Close
    <2>1. tx' = tx /\ db' = db /\ env'.textFault = env.textFault
      BY <1>2, <1>7 DEF Close, NoFault, Waiting
    <2>2. disk'.backup = disk.backup
      BY <1>1, <1>7 DEF Close, Cleared, Folded, Disk
    <2>3. CASE disk.backup = NoBackup
      BY <1>6, <2>1, <2>2, <2>3
    <2>4. CASE disk'.marker = disk.marker
      BY <2>1, <2>2, <2>4, TextsKept DEF SameTexts
    <2>5. CASE disk.backup # NoBackup /\ disk'.marker # disk.marker
      <3>1. Serving("close_unmark") /\ disk.marker
        BY <1>1, <1>7, <2>5 DEF Close, Cleared, Folded, Disk
      <3>2. tx.holder = "summary"
        BY <2>5, <3>1 DEF Serving, IInv, RollingForward, NoBack
      <3>3. RowMoved
        BY <2>5, <3>1, <3>2, MarkerBeside DEF NoBack
      <3>4. RowMoved' /\ SnapshotText' = SnapshotText
        BY <2>1, <2>2, <3>3 DEF RowMoved, SnapshotText
      <3>5. RecoveredText = db.fts /\ RecoveredText' = db'.fts
        BY <3>3, <3>4 DEF RecoveredText, Committed
      <3> QED
        BY <2>1, <2>2, <3>4, <3>5 DEF TextsAgree, Raw
    <2> QED
      BY <2>3, <2>4, <2>5
  <1>8. CASE FailNew
    <2>1. tx' = tx /\ env.up = "up" /\ ~Exists(db.row) /\ tx.holder = "none"
      BY <1>8, FailNewIsFree DEF FailNew, Waiting, Serving
    <2>2. disk.backup = NoBackup
      BY <1>8, <2>1 DEF FailNew, Serving, IInv, Clean, NoLeft, NoBack
    <2>3. disk'.backup = NoBackup
      BY <1>1, <1>8, <2>2 DEF FailNew, Disk
    <2>4. CASE db' = db
      <3>1. env'.textFault = env.textFault \/ env'.textFault
        BY <1>1, <1>2, <1>8 DEF FailNew, NoFault, TextFault, Env
      <3> QED
        BY <1>6, <2>1, <2>2, <2>3, <2>4, <3>1 DEF TextsAgree
    <2>5. CASE db' = [row |-> Absent, fts |-> Absent] /\ env' = env
      <3>1. RecoveredText' = db'.fts /\ db'.fts = TextOf(db'.row)
        BY <2>3, <2>5 DEF RecoveredText, NoBackup, TextOf, PartOf
      <3>2. tx.at = "none"
        BY <1>1, <2>1, ServingIsFree
      <3> QED
        BY <2>1, <3>1, <3>2 DEF TextsAgree, StageAts, WriteAts
    <2> QED
      BY <1>8, <2>4, <2>5 DEF FailNew, NoFault
  <1> QED
    BY <1>3, <1>4, <1>5, <1>7, <1>8 DEF Requests

LEMMA TextsStep == ASSUME Scope, IInv, TextsAgree, [Next]_vars PROVE TextsAgree'
  <1>1. disk \in Disk /\ disk.backup \in Backup /\ tx \in Tx /\ TypeOK /\ Control
    BY DEF IInv, TypeOK, Disk
  <1>2. NoTx.at = "none" /\ \A who, at, purpose, target : Acquire(who, at, purpose, target) => tx'.at = at
    BY DEF Acquire, NoTx
  <1>3. CASE Check \/ Refuse \/ Raise \/ Finish \/ Swept
    <2>1. SameTexts
      BY <1>1, <1>3 DEF Check, Refuse, Raise, Finish, Swept, Cleared, SameTexts, Disk
    <2>2. env'.textFault = env.textFault
      BY <1>1, <1>3 DEF Check, Refuse, Raise, Finish, Swept, NoFault, TypeOK, Env
    <2>3. tx'.at \in {"none", "refuse", "raise", "stash", "fold"}
      <3>1. CASE Check
        BY <1>1, <3>1 DEF Check, Release, Goto, NoTx, Tx
      <3>2. CASE tx' = NoTx
        BY <1>2, <3>2
      <3>3. CASE tx' = [tx EXCEPT !.at = "fold", !.purpose = "close"]
        BY <1>1, <3>3 DEF Tx
      <3>4. Refuse \/ Raise \/ Swept => tx' = NoTx
        BY DEF Refuse, Raise, Swept, Release
      <3>5. Finish => tx' = NoTx \/ tx' = [tx EXCEPT !.at = "fold", !.purpose = "close"]
        BY DEF Finish, Release, CloseHolding
      <3> QED
        BY <1>3, <3>1, <3>2, <3>3, <3>4, <3>5
    <2> QED
      BY <2>1, <2>2, <2>3, TextsKept DEF Idle, StageAts, WriteAts
  <1>4. CASE \E g \in Gens : Thread(g)
    <2>1. SameTexts /\ env' = env /\ (tx' = tx \/ tx'.at = "settle")
      BY <1>2, <1>4 DEF Thread, ThreadSkips, ThreadWrites, ThreadGivesUp, ThreadSummarises, SameTexts
    <2> QED
      BY <2>1, TextsKept DEF Idle, StageAts, WriteAts
  <1>5. CASE Crash
    <2>1. db' = db /\ tx'.at = "none" /\ env'.textFault = env.textFault
      BY <1>1, <1>2, <1>5 DEF Crash, TypeOK, Env
    <2>2. CASE disk' = disk
      BY <2>1, <2>2, TextsKept DEF SameTexts, Idle, StageAts, WriteAts
    <2>3. CASE tx.at \in {"drop", "remove"} /\ disk.backup.here
               /\ \E b \in Remains(disk.backup) : disk' = [disk EXCEPT !.backup = b]
      <3>1. PICK b \in Remains(disk.backup) : disk' = [disk EXCEPT !.backup = b]
        BY <2>3
      <3>2. b.staged \in {disk.backup.staged, NoFile} /\ disk'.backup = b /\ disk'.marker = disk.marker
        BY <1>1, <3>1, BackupIsCut DEF Disk
      <3>3. CASE tx.at = "drop"
        <4>1. disk.marker
          <5>1. ~Defers
            BY <1>1, <1>5 DEF Crash, Scope, TypeOK, Env
          <5> QED
            BY <3>3, <5>1 DEF IInv, RollingForward
        <4>2. RecoveredText = db.fts /\ RecoveredText' = db'.fts
          BY <3>2, <4>1 DEF RecoveredText, Committed
        <4> QED
          BY <2>1, <4>2 DEF TextsAgree, StageAts, WriteAts
      <3>4. CASE tx.at = "remove"
        <4>1. disk.backup.staged = NoFile
          BY <3>4 DEF IInv, RollingBack
        <4>2. RecoveredText = db.fts /\ RecoveredText' = db'.fts
          BY <3>2, <4>1 DEF RecoveredText
        <4> QED
          BY <2>1, <4>2 DEF TextsAgree, StageAts, WriteAts
      <3> QED
        BY <2>3, <3>3, <3>4
    <2> QED
      BY <1>5, <2>2, <2>3 DEF Crash
  <1>6. CASE Restart
    <2>1. SameTexts /\ env'.textFault = env.textFault /\ (tx' = tx \/ tx'.at = "settle")
      BY <1>1, <1>2, <1>6 DEF Restart, SameTexts, TypeOK, Env
    <2> QED
      BY <2>1, TextsKept DEF Idle, StageAts, WriteAts
  <1>7. CASE Rest \/ UNCHANGED vars
    <2>1. SameTexts /\ env'.textFault = env.textFault /\ tx' = tx
      BY <1>7 DEF Rest, vars, SameTexts
    <2> QED
      BY <2>1, TextsKept
  <1> QED
    BY <1>3, <1>4, <1>5, <1>6, <1>7, SettlingTexts, RewritingTexts, RequestTexts DEF Next, Holder

(* In Scope the search table answers with the text of the row, unless it      *)
(* failed itself: after a roll back from memory, after one a start makes from *)
(* the backup, and after any number of starts that died in between.           *)
THEOREM TextsMatch == Scope => (Spec => []TextMatches)
  <1>1. SUFFICES ASSUME Scope PROVE Spec => []TextMatches
    OBVIOUS
  <1>2. Init => TextsAgree
    BY TextsStart
  <1>3. IInv /\ TextsAgree /\ [Next]_vars => TextsAgree'
    BY <1>1, TextsStep
  <1>4. IInv /\ TextsAgree => TextMatches
    BY DEF TextMatches, TextsAgree, RecoveredText, AtRest, Leftovers, IInv, BackupShape, NoBack, NoBackup
  <1> QED
    BY <1>1, <1>2, <1>3, <1>4, Inductive, PTL DEF Spec

-----------------------------------------------------------------------------
(* The refinement: where nothing fails that the texts depend on, what a start *)
(* would make of the directory is at every moment the version of the row.     *)
TextHolds == FaultySteps \cap {"read_text", "write_text_index", "fail_row"} = {}

LEMMA NoTextFault ==
  ASSUME Scope, TextHolds, TypeOK, ~env.textFault, [Next]_vars PROVE ~env'.textFault
  <1>1. env \in Env /\ \A step \in {"text", "read_text", "write_text_index", "fail_row"} : ~TextFault(step)
    BY DEF TypeOK, TextHolds, TextFault, Faulty, Scope, WriterSteps
  <1>2. \A step : Fault(step) \/ BlindFault(step) => ~env'.textFault
    BY <1>1 DEF Fault, BlindFault, Env
  <1>3. NoFault => ~env'.textFault
    BY DEF NoFault
  <1>4. CASE Settling
    BY <1>1, <1>2, <1>3, <1>4 DEF Settling, Settle, Touch, Drop, Fold, UnmarkStash, Unmark, ReadRecord, PutBack,
       PutBackText, Forget, RemoveBackup, Unstash
  <1>5. CASE Rewriting
    BY <1>1, <1>2, <1>3, <1>5 DEF Rewriting, StashSource, Snapshot, StageText, StageRow, StageMove, StageCopy,
       StageRecord, WriteTexts, WriteSections, WriteSource, WriteTextIndex, WriteManifest, CommitRow, Undone
  <1>6. CASE Check \/ Refuse \/ Raise \/ Finish \/ Swept
    BY <1>1, <1>3, <1>6 DEF Check, Refuse, Raise, Finish, Swept, Env
  <1>7. CASE Requests
    BY <1>1, <1>2, <1>3, <1>7 DEF Requests, Arrive, Start, SettleFirst, Parse, TakeStash, Persist, Write, Discard,
       Close, FailReplacement, FailNew
  <1>8. CASE \E g \in Gens : Thread(g)
    BY <1>8 DEF Thread, ThreadSkips, ThreadWrites, ThreadGivesUp, ThreadSummarises
  <1>9. CASE Crash \/ Restart \/ Rest \/ UNCHANGED vars
    BY <1>1, <1>9 DEF Crash, Restart, Rest, vars, Env
  <1> QED
    BY <1>4, <1>5, <1>6, <1>7, <1>8, <1>9 DEF Next, Holder

Whole == IInv /\ StoredParsed /\ TextsAgree /\ ~env.textFault /\ Exists(db.row)

LEMMA WholeIsRecovered == Whole => Recovered = ContentOf(db.row)
  <1>1. SUFFICES ASSUME Whole PROVE Recovered = ContentOf(db.row)
    OBVIOUS
  <1>2. /\ db.row \in Version /\ db.row # Absent /\ db.row.stage # "raw" /\ db.row.gen # Absent
        /\ Intact(db.row, RecoveredParts, RecoveredSource) /\ RecoveredText = TextOf(db.row)
    BY <1>1, ConstantsAssumption DEF Whole, IInv, TypeOK, Row, Exists, StoredParsed, Version, TextsAgree, CrashSafe,
       Control
  <1>3. RecoveredSource = SourceOf(db.row)
    BY <1>2 DEF Intact, SourceOf
  <1>4. \A p \in Parts : RecoveredParts[p] = PartOf(db.row, p)
    BY <1>2 DEF Intact, PartOf
  <1>5. RecoveredParts = PartsOf(db.row)
    BY <1>4 DEF RecoveredParts, PartsOf
  <1> QED
    BY <1>2, <1>3, <1>5 DEF Recovered, ContentOf

(* The contents of both specifications are the same.                          *)
LEMMA SameContents ==
  Atomic!Version = Version /\ \A v : Atomic!ContentOf(v) = ContentOf(v)
  BY DEF Atomic!Version, Atomic!Gens, Atomic!Stages, Atomic!ContentOf, Atomic!PartsOf, Atomic!PartOf,
     Atomic!SourceOf, Atomic!TextOf, Atomic!Parts, Atomic!Moved, Atomic!Copied, Version, Gens, Stages,
     ContentOf, PartsOf, PartOf, SourceOf, TextOf, Parts, Moved, Copied

(* What a start would recover changes in the step that commits the row only,  *)
(* and then to the version of a later upload.                                 *)
LEMMA AtomicStep ==
  ASSUME Scope, IInv, StoredParsed, Exists(db.row), [Next]_vars,
         Recovered = ContentOf(db.row), Recovered' = ContentOf(db'.row)
  PROVE  [Atomic!Next]_Recovered
  <1>1. CASE db'.row = db.row
    BY <1>1
  <1>2. Recovered.row = db.row /\ db.row \in Version /\ db.row.gen \in Nat
    BY DEF Recovered, IInv, TypeOK, Row, Exists, Version, Gens
  <1>3. CASE Uploaded
    <2>1. req.channel \in {"none", "sync", "defer"} /\ req.channel \in Channels /\ tx.target \in Version
      <3>1. req.at = "locked" /\ tx.at \in WriteAts
        BY <1>3 DEF Uploaded, IInv, Control, CommitRow, At, WriteAts
      <3> QED
        BY <3>1, TargetIs DEF IInv, Order, StoredParsed
    <2>2. tx.target.stage \in {"done", "parse"}
      BY <1>3, <2>1, ConstantsAssumption DEF Uploaded, Target
    <2>3. tx.target.gen > Recovered.row.gen /\ Recovered' = ContentOf(tx.target)
      BY <1>2, <1>3, <2>1 DEF Uploaded, Version, Gens
    <2>4. Atomic!Replace
      BY <2>1, <2>2, <2>3, SameContents DEF Atomic!Replace
    <2> QED
      BY <2>4 DEF Atomic!Next
  <1>4. CASE Summarised
    <2>1. /\ tx.target \in Version /\ tx.target.gen = db.row.gen
          /\ tx.target.stage \in Carried(db.row.stage) /\ Recovered' = ContentOf(tx.target)
      BY <1>4 DEF Summarised
    <2>2. tx.target.stage \in Atomic!Carried[db.row.stage]
      BY <1>2, <2>1 DEF Carried, Atomic!Carried, Version, Stages
    <2>3. tx.target = [db.row EXCEPT !.stage = tx.target.stage]
      BY <1>2, <2>1 DEF Version
    <2>4. Atomic!Summarise
      BY <1>2, <2>1, <2>2, <2>3, SameContents DEF Atomic!Summarise
    <2> QED
      BY <2>4 DEF Atomic!Next
  <1> QED
    BY <1>1, <1>3, <1>4, RowOnwards

(* In Scope, where documents are parsed and the search table does not fail, a *)
(* rewrite seen through the recovery is one step from the whole of a version  *)
(* to the whole of a later one (_reversible_rewrite): whatever operation of   *)
(* the writer fails, and whenever the process dies.                           *)
THEOREM RewriteIsAtomic ==
    Scope /\ ParsedOnly /\ TextHolds /\ Absent \notin Bases => (Spec => RefinesAtomic)
  <1> DEFINE Agree == StoredParsed /\ TextsAgree /\ ~env.textFault /\ Exists(db.row)
             Same == Recovered = ContentOf(db.row)
  <1>1. SUFFICES ASSUME Scope, ParsedOnly, TextHolds, Absent \notin Bases PROVE Spec => RefinesAtomic
    OBVIOUS
  <1>2. Init => Agree
    <2>1. SUFFICES ASSUME Init PROVE Agree
      OBVIOUS
    <2>2. Exists(db.row) /\ ~env.textFault
      BY <1>1, <2>1, ConstantsAssumption DEF Init, Exists, Version, Gens
    <2> QED
      BY <1>1, <2>1, <2>2, ParsedStarts, TextsStart
  <1>3. Init /\ Same => Atomic!Init
    <2>1. SUFFICES ASSUME Init, Same PROVE Atomic!Init
      OBVIOUS
    <2>2. PICK base \in Bases : db.row = IF base = Absent THEN Absent ELSE [gen |-> 0, stage |-> base]
      BY <2>1 DEF Init
    <2> QED
      BY <1>1, <2>1, <2>2, SameContents DEF Atomic!Init
  <1>4. IInv /\ Agree /\ [Next]_vars => Agree'
    <2>1. SUFFICES ASSUME IInv, Agree, [Next]_vars PROVE Agree'
      OBVIOUS
    <2>2. StoredParsed' /\ TextsAgree'
      BY <1>1, <2>1, ParsedStep, TextsStep
    <2>3. ~env'.textFault
      BY <1>1, <2>1, NoTextFault DEF IInv
    <2>4. Exists(db'.row)
      BY <1>1, <2>1, RowOnwards DEF Exists, Uploaded, Summarised
    <2> QED
      BY <2>2, <2>3, <2>4 DEF Exists
  <1>5. IInv /\ Agree => Same
    BY WholeIsRecovered DEF Whole
  <1>6. IInv /\ Agree /\ Same /\ Same' /\ [Next]_vars => [Atomic!Next]_Recovered
    BY <1>1, AtomicStep
  <1> QED
    BY <1>1, <1>2, <1>3, <1>4, <1>5, <1>6, Inductive, PTL DEF Spec, RefinesAtomic, Atomic!Spec
===============================================================================
