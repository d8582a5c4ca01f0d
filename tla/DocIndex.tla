------------------------------ MODULE DocIndex ------------------------------
(***************************************************************************)
(* The index of the library: one SQLite file written over connections that *)
(* are cached per thread, and doc-index.json, its export.                  *)
(*                                                                         *)
(*   db        rows, search text and the migration flag, as committed      *)
(*   json      doc-index.json                                              *)
(*   manifest  what the manifest of each document says                     *)
(*   conn      the transaction left open on the connection of a thread     *)
(*   thr       what the thread is doing                                    *)
(*   locks     the writer lock of each document, and _doc_index_lock       *)
(*   env       failures, crashes, whether the last export failed, and the  *)
(*             documents whose change of the flag died half-way            *)
(***************************************************************************)
EXTENDS Integers, FiniteSets

CONSTANTS
    Docs, Threads,
    Legacy,        \* the documents an older release left in doc-index.json only
    MaxOps,        \* operations in a behaviour
    MaxFaults,     \* failing executes, commits, rollbacks and exports
    MaxCrashes,
    None           \* no row, no thread, no open transaction

(* A row, and what a transaction works on. *)
Entries  == [write : Nat, shared : BOOLEAN]
Database == [row : [Docs -> Entries \cup {None}], text : [Docs -> {0, 1}], migrated : BOOLEAN]

DocIndexAssumption ==
    /\ Legacy \subseteq Docs
    /\ MaxOps \in Nat /\ MaxFaults \in Nat /\ MaxCrashes \in Nat
    /\ None \notin Threads \cup Entries \cup Database

VARIABLES db, json, manifest, conn, thr, locks, env
vars == <<db, json, manifest, conn, thr, locks, env>>

(* What the row and the manifest carry: the write, and the discovery flag. *)
Entry(write, shared) == [write |-> write, shared |-> shared]
First == Entry(0, FALSE)

Idle == [at |-> "idle", op |-> "none", doc |-> CHOOSE d \in Docs : TRUE,
         shared |-> FALSE, before |-> First, failed |-> FALSE]

Init ==
    /\ db = [row |-> [d \in Docs |-> IF d \in Legacy THEN None ELSE First],
             text |-> [d \in Docs |-> 0], migrated |-> FALSE]
    /\ json = [d \in Docs |-> First]
    /\ manifest = [d \in Docs |-> First]
    /\ conn = [t \in Threads |-> None]
    /\ thr = [t \in Threads |-> Idle]
    /\ locks = [writer |-> [d \in Docs |-> None], index |-> None]
    /\ env = [at |-> "start", ops |-> 0, faults |-> 0, crashes |-> 0, stale |-> FALSE,
              torn |-> {}]

-----------------------------------------------------------------------------
At(t, a)   == env.at = "serve" /\ thr[t].at = a
Goto(t, a) == thr' = [thr EXCEPT ![t].at = a]
DocOf(t)   == thr[t].doc
Faulty     == env.faults < MaxFaults
Fault      == Faulty /\ env' = [env EXCEPT !.faults = @ + 1]

(* ensure_migrated_from_json, by the first reader of a start: the rows and    *)
(* the flag in one transaction.                                               *)
Migrate ==
    /\ env.at = "start"
    /\ db' = IF db.migrated THEN db
             ELSE [db EXCEPT !.row = [d \in Docs |-> IF json[d] # None THEN json[d] ELSE @[d]],
                             !.migrated = TRUE]
    /\ env' = [env EXCEPT !.at = "serve"]
    /\ UNCHANGED <<json, manifest, conn, thr, locks>>

(* A rewrite of a document or a change of its discovery flag, under the       *)
(* writer lock; the search text alone, under no lock of the index.            *)
Begin(t, d, op, shared) ==
    /\ At(t, "idle") /\ env.ops < MaxOps
    /\ op # "text" => locks.writer[d] = None
    /\ thr' = [thr EXCEPT ![t] = [Idle EXCEPT !.at = IF op = "text" THEN "execute" ELSE "manifest",
                                  !.op = op, !.doc = d, !.shared = shared,
                                  !.before = manifest[d]]]
    /\ locks' = IF op = "text" THEN locks ELSE [locks EXCEPT !.writer[d] = t]
    /\ env' = [env EXCEPT !.ops = @ + 1]
    /\ UNCHANGED <<db, json, manifest, conn>>

WriteManifest(t) ==
    /\ At(t, "manifest") /\ Goto(t, "lock")
    /\ manifest' = [manifest EXCEPT ![DocOf(t)] =
                       IF thr[t].op = "share" THEN Entry(@.write, thr[t].shared)
                       ELSE Entry(@.write + 1, @.shared)]
    /\ UNCHANGED <<db, json, conn, locks, env>>

LockNothing(t) ==                        \* variant: a patch reads its row outside the lock
    /\ At(t, "lock") /\ Goto(t, "execute")
    /\ UNCHANGED <<db, json, manifest, conn, locks, env>>
LockIndex(t) ==
    /\ At(t, "lock") /\ locks.index = None /\ Goto(t, "execute")
    /\ locks' = [locks EXCEPT !.index = t]
    /\ UNCHANGED <<db, json, manifest, conn, env>>

(* What the connection of t sees: its own open transaction over the rows. *)
Seen(t) == IF conn[t] = None THEN db ELSE conn[t]
(* _update_doc_index writes the whole entry, _patch_doc_index the row it      *)
(* finds with one field changed, upsert_fts the text.                         *)
Written(t) == LET d == DocOf(t) IN
    CASE thr[t].op = "rewrite" -> [Seen(t) EXCEPT !.row[d] = manifest[d]]
      [] thr[t].op = "share"   -> [Seen(t) EXCEPT !.row[d].shared = thr[t].shared]
      [] OTHER                 -> [Seen(t) EXCEPT !.text[d] = 1 - @]
(* One writer at a time: SQLite makes another wait, or fail when it is busy.  *)
Execute(t) ==
    /\ At(t, "execute")
    /\ \/ /\ \A u \in Threads \ {t} : conn[u] = None
          /\ conn' = [conn EXCEPT ![t] = Written(t)] /\ Goto(t, "commit") /\ UNCHANGED env
       \/ Fault /\ Goto(t, "rollback") /\ UNCHANGED conn
    /\ UNCHANGED <<db, json, manifest, locks>>

(* A COMMIT that fails leaves its transaction open. *)
Commit(t) ==
    /\ At(t, "commit")
    /\ \/ /\ db' = conn[t] /\ conn' = [conn EXCEPT ![t] = None] /\ UNCHANGED env
          /\ Goto(t, IF thr[t].op = "text" THEN "end" ELSE "export")
       \/ Fault /\ Goto(t, "rollback") /\ UNCHANGED <<db, conn>>
    /\ UNCHANGED <<json, manifest, locks>>

(* _transaction: rolled back, or the connection is discarded. *)
Rollback(t) ==
    /\ At(t, "rollback")
    /\ conn' = [conn EXCEPT ![t] = None]
    /\ thr' = [thr EXCEPT ![t].at = "unlock", ![t].failed = TRUE]
    /\ UNCHANGED <<db, json, manifest, locks, env>>

(* _export_index_json, still under the lock; a failure is logged. *)
Export(t) ==
    /\ At(t, "export") /\ Goto(t, "unlock")
    /\ \/ json' = db.row /\ env' = [env EXCEPT !.stale = FALSE]
       \/ Faulty /\ env' = [env EXCEPT !.faults = @ + 1, !.stale = TRUE] /\ UNCHANGED json
    /\ UNCHANGED <<db, manifest, conn, locks>>

UnlockIndex(t) ==
    /\ At(t, "unlock") /\ Goto(t, IF thr[t].failed /\ thr[t].op # "text" THEN "restore" ELSE "end")
    /\ locks' = [locks EXCEPT !.index = IF @ = t THEN None ELSE @]
    /\ UNCHANGED <<db, json, manifest, conn, env>>

(* The manifest goes back; a rewrite then indexes the text it restored, a     *)
(* write of its own on the same connection.                                   *)
Restore(t) ==
    /\ At(t, "restore")
    /\ manifest' = [manifest EXCEPT ![DocOf(t)] = thr[t].before]
    /\ thr' = [thr EXCEPT ![t].at = IF @ = "restore" /\ thr[t].op = "rewrite" THEN "execute"
                                    ELSE "end",
                          ![t].op = IF @ = "rewrite" THEN "text" ELSE @]
    /\ UNCHANGED <<db, json, conn, locks, env>>

End(t) ==
    /\ At(t, "end")
    /\ thr' = [thr EXCEPT ![t] = Idle]
    /\ locks' = [locks EXCEPT !.writer = [d \in Docs |-> IF @[d] = t THEN None ELSE @[d]]]
    /\ env' = [env EXCEPT !.torn = {d \in @ : locks.writer[d] = t => manifest[d] # db.row[d]}]
    /\ UNCHANGED <<db, json, manifest, conn>>

(* A crash loses every open transaction.  The start settles a rewrite it cut  *)
(* (DocRewrite); a change of the flag it cut stays half-way: the manifest is  *)
(* ahead of the row until the next write of the document.                     *)
Settled(d) ==
    IF \E t \in Threads : locks.writer[d] = t /\ thr[t].op # "share"
    THEN db.row[d] ELSE manifest[d]
Crash ==
    /\ env.at = "serve" /\ env.crashes < MaxCrashes
    /\ manifest' = [d \in Docs |-> Settled(d)]
    /\ conn' = [t \in Threads |-> None] /\ thr' = [t \in Threads |-> Idle]
    /\ locks' = [writer |-> [d \in Docs |-> None], index |-> None]
    /\ env' = [env EXCEPT !.at = "start", !.crashes = @ + 1, !.stale = (json # db.row),
                          !.torn = {d \in Docs : manifest'[d] # db.row[d]}]
    /\ UNCHANGED <<db, json>>

Next ==
    \/ Migrate \/ Crash
    \/ \E t \in Threads :
        \/ \E d \in Docs : \/ Begin(t, d, "rewrite", FALSE) \/ Begin(t, d, "text", FALSE)
                           \/ \E shared \in BOOLEAN : Begin(t, d, "share", shared)
        \/ WriteManifest(t) \/ LockIndex(t) \/ Execute(t) \/ Commit(t) \/ Rollback(t)
        \/ Export(t) \/ UnlockIndex(t) \/ Restore(t) \/ End(t)

Spec == Init /\ [][Next]_vars

-----------------------------------------------------------------------------
(* The manifest and the row of a document nobody is writing say the same, of  *)
(* the version and of the discovery flag: no operation that failed has left   *)
(* one of them behind, and none has overwritten the change of another.  Only  *)
(* a crash in a change of the flag leaves the flag of the two apart.          *)
RowIsManifest ==
    env.at = "serve" => \A d \in Docs : locks.writer[d] = None =>
        /\ db.row[d].write = manifest[d].write
        /\ d \notin env.torn => db.row[d].shared = manifest[d].shared

(* doc-index.json is what the rows are, whenever nobody is writing them and   *)
(* the last export did not fail; and no thread is idle with a transaction     *)
(* open on its connection.                                                    *)
ExportIsCurrent ==
    /\ env.at = "serve" /\ locks.index = None /\ ~env.stale => json = db.row
    /\ \A t \in Threads : thr[t].at \in {"idle", "manifest", "lock", "end"} => conn[t] = None
=============================================================================
