----------------------------- MODULE MCAdmission -----------------------------
(***************************************************************************)
(* Uploads on their own, beside one that asks for the id the counter is    *)
(* about to mint.                                                          *)
(***************************************************************************)
EXTENDS Admission

MCNumbered == <<"DOC-001", "DOC-002">>
MCNamed == <<"report", "report-2">>
=============================================================================
