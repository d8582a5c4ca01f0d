---------------------------- MODULE MCWebCapture ----------------------------
(***************************************************************************)
(* Web captures on their own: the two properties that MCParts can check    *)
(* only apart from the documents a merge or a crash has touched.           *)
(***************************************************************************)
EXTENDS WebCapture
=============================================================================
