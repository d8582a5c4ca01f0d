------------------------------- MODULE Document -------------------------------
(***************************************************************************)
(* What one document of the library consists of.  A version is named by    *)
(* the upload that brought its source and by how far its products have     *)
(* been carried: stored raw, parsed, its summary running, done or failed.  *)
(***************************************************************************)
EXTENDS Naturals

CONSTANTS
    MaxGen,        \* uploads are numbered 1..MaxGen; 0 is the stored document
    Absent         \* no such file, or no such row

Gens     == 0 .. MaxGen
Stages   == {"raw", "parse", "running", "done", "failed"}
Version  == [gen : Gens, stage : Stages]

(* The products of a document, by how a rewrite sets them aside. *)
Moved  == {"sections"}
Copied == {"texts", "manifest"}
Parts  == Moved \cup Copied

(* A raw document is its source and a manifest; a parsed one has every part. *)
PartOf(v, p) == IF v = Absent THEN Absent
                ELSE IF v.stage = "raw" /\ p # "manifest" THEN Absent ELSE v
TextOf(v)   == PartOf(v, "texts")
SourceOf(v) == IF v = Absent THEN Absent ELSE v.gen
PartsOf(v)  == [p \in Parts |-> PartOf(v, p)]

(* A whole document: its files, its row and its indexed text agree. *)
ContentOf(v) == [row |-> v, part |-> PartsOf(v), source |-> SourceOf(v), text |-> TextOf(v)]
===============================================================================
