---------------------------- MODULE AtomicDocument ----------------------------
(***************************************************************************)
(* What the rewrite machinery promises a reader of the library: the        *)
(* document is always one whole version, and it goes from one to the next  *)
(* in a single step.  An upload brings a later source; a background        *)
(* summary carries the version it was computed from, and no other.         *)
(***************************************************************************)
EXTENDS Document

CONSTANT Base        \* the stages the document may start in
VARIABLE content

Init == \E stage \in Base : content = ContentOf([gen |-> 0, stage |-> stage])

(* A replacement commits: api_parse_doc or _store_only_ingest. *)
Replace == \E v \in Version :
    /\ v.gen > content.row.gen
    /\ v.stage \in {"raw", "parse", "done"}
    /\ content' = ContentOf(v)

(* A deferred summary commits: _generate_deferred_summary. *)
Carried == [parse |-> {"running", "done", "failed"}, running |-> {"done", "failed"},
            raw |-> {}, done |-> {}, failed |-> {}]
Summarise == \E stage \in Carried[content.row.stage] :
    content' = ContentOf([content.row EXCEPT !.stage = stage])

Next == Replace \/ Summarise
Spec == Init /\ [][Next]_content
===============================================================================
