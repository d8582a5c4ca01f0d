------------------------------ MODULE MCPageOcr ------------------------------
(***************************************************************************)
(* A scanned page with a field of the profile, parsed fully twice: under   *)
(* one model, then under another.                                          *)
(***************************************************************************)
EXTENDS PageOcr

MCLooks == {[text |-> TRUE, tables |-> 2, strips |-> FALSE, scan |-> TRUE, sparse |-> TRUE,
             blank |-> FALSE, image |-> TRUE, fits |-> {"local", "llm"}, field |-> TRUE]}
MCRequests == {[mode |-> "full", force |-> FALSE, pages |-> {}, model |-> model, proofread |-> TRUE,
                backend |-> "paddleocr", enabled |-> TRUE, regions |-> TRUE, keep |-> TRUE,
                keepRegions |-> TRUE] : model \in {"m1", "m2"}}
=============================================================================
