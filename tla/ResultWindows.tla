---------------------------- MODULE ResultWindows ----------------------------
(***************************************************************************)
(* The MCP front end never sends a result its client would cut: lists and  *)
(* texts go out in windows a caller walks by next_offset, a distill loses  *)
(* its last sections by name, and whatever is still too large is refused.  *)
(* Sizes are bytes on the wire, in units of the small Budget.  A place in  *)
(* a list or text is the number of bytes before it, and the entries, lines *)
(* or rows are the places where one ends.                                  *)
(*                                                                         *)
(*   asked    the answer of the document service that is being read        *)
(*   offset   where the next window starts, None when there is none        *)
(*   windows  what was delivered                                           *)
(*   distill  the last distill: its sections, those sent, those named, and *)
(*            its size                                                     *)
(***************************************************************************)
EXTENDS Integers, Sequences, FiniteSets, FiniteSetsExt

CONSTANTS
    Budget,          \* MANTISFETCH_MCP_RESULT_BUDGET_BYTES
    Sources,         \* what is read: kind, fixed fields, name, head, size, where its units end
    Distills,        \* pages: the fixed fields, the size and ends of the sections
    None

(* Every unit has a size, and the last one ends where the list or text does.  What *)
(* a result says beside them is small against the budget, but for a header, and    *)
(* for the name of a text, which is cut with it.                                   *)
Kinds == {"entries", "json", "text", "rows"}
ResultWindowsAssumption ==
    /\ Budget \in Nat /\ Budget >= 8 /\ None \notin Nat
    /\ \A s \in Sources :
           /\ s.kind \in Kinds
           /\ s.fixed \in Nat /\ s.name \in Nat /\ s.head \in Nat /\ s.size \in Nat
           /\ s.ends \subseteq 1..s.size /\ (s.size > 0 => s.size \in s.ends)
           /\ (IF s.kind \in {"entries", "json"} THEN s.fixed + s.name ELSE s.fixed) + 8 <= Budget
    /\ None \notin Sources \cup Distills
    /\ \A d \in Distills :
           d.fixed \in Nat /\ d.size \in Nat /\ d.ends \subseteq 1..d.size

VARIABLES asked, offset, windows, distill
vars == <<asked, offset, windows, distill>>

Init == asked = None /\ offset = None /\ windows = <<>> /\ distill = None

-----------------------------------------------------------------------------
Listing == asked.kind \in {"entries", "json"}     \* _page_entries, else _window_text

(* _text_units: a line too long to share a window becomes pieces; a table keeps    *)
(* its rows whole.                                                                 *)
Piece == Budget \div 4
LineStart(p) == Max({0} \cup {e \in asked.ends : e < p})
Ends == IF asked.kind = "text"
        THEN asked.ends \cup {p \in 1..asked.size : (p - LineStart(p)) % Piece = 0}
        ELSE asked.ends
Between(from, to) == {e \in Ends : from < e /\ e <= to}
Following(from) == Min({asked.size} \cup {e \in Ends : from < e})

(* The page [from, to) as it would be sent: next_offset is a number, or null.      *)
Place(to) == CASE to = asked.size -> 4
               [] to # asked.size /\ to \in {0, Following(0)} -> 1
               [] OTHER -> 2
Page(from, to, head) == asked.fixed + asked.name + Place(to) + head + (to - from)

(* What _shrink_entry comes down to: lists and strings are halved until the entry  *)
(* fits, a string is never cut below Short, and what identifies it is the last.    *)
Short == 1
Mark == 1                        \* "<field>_truncated": true

(* What every window repeats (the header rows of a table, its metadata) is halved  *)
(* only when not even one row fits beside it.                                      *)
HeadCut(from) ==
    LET first == Following(from)
        place == IF asked.kind = "json" THEN Place(first) ELSE 0      \* measured without it
    IN  asked.head > 0 /\ Page(from, first, asked.head) - place > Budget
HeadOf(from) ==
    LET halvings == {asked.head \div n : n \in {1, 2, 4, 8, 16, 32}}
        small == {h \in halvings : Page(from, from, h + Mark) <= Budget \div 2}
    IN  IF HeadCut(from) THEN Max({Short} \cup small) + Mark ELSE asked.head

(* The page grows by each unit's own cost (an entry's is over-counted) as far as   *)
(* the caller's limit, the first unit whatever it costs, then backs off to what    *)
(* really fits.                                                                    *)
Estimate(from, to) == (to - from) + (IF Listing THEN Cardinality(Between(from, to)) ELSE 0)
Grown(from, limit, head) ==
    Max({Following(from)} \cup
        {to \in Between(from, asked.size) :
            /\ limit = None \/ Cardinality(Between(from, to)) <= limit
            /\ Page(from, from, head) + Estimate(from, to) <= Budget})
NoBackOff(from, grown, head) == grown                                       \* the estimate is trusted
BackOff(from, grown, head) ==
    Max({Following(from)} \cup {to \in Between(from, grown) : Page(from, to, head) <= Budget})
Fill(from, limit, head) == BackOff(from, Grown(from, limit, head), head)

(* A unit too large for a window of its own is cut down beside the rest; a text    *)
(* that is still too large is cut like an entry, its name with it.                 *)
Least(from, to, head) ==
    LET bare == Page(from, from, head) - Place(from) + Place(to)
    IN  IF Listing THEN bare + Short
        ELSE Min({bare + Mark, asked.fixed + Place(to) + 2 * (Short + Mark)})
Window(from, limit) ==
    LET head == HeadOf(from)
        to == Fill(from, limit, head)
        over == Page(from, to, head) > Budget
    IN  [from |-> from, to |-> to, cut |-> over, headCut |-> HeadCut(from),
         fits |-> ~over \/ Least(from, to, head) <= Budget]
NextOffset(w) == IF w.to = asked.size THEN None ELSE w.to

-----------------------------------------------------------------------------
(* doc_sections, doc_tables, doc_chunks ("entries"), doc_full ("text"), doc_table  *)
(* ("rows", "json"): the first window, and those next_offset leads to.  A read and *)
(* a distill share nothing: a behaviour is of one of them.                         *)
Ask(source) ==
    /\ asked = None /\ distill = None
    /\ asked' = source /\ offset' = 0
    /\ UNCHANGED <<windows, distill>>

(* _refuse_what_does_not_fit: what is over the budget is an error, not a result.   *)
Read(limit) ==
    /\ offset # None
    /\ LET w == Window(offset, limit) IN
       IF w.fits THEN windows' = Append(windows, w) /\ offset' = NextOffset(w)
       ELSE offset' = None /\ UNCHANGED windows
    /\ UNCHANGED <<asked, distill>>

(* _fit_distill: the service has taken this distill as the session's baseline, so  *)
(* its last sections are dropped and named, the names measured with the rest.      *)
Dropped(d, kept) == {e \in d.ends : e > kept}
Size(d, kept) ==
    d.fixed + kept + (IF Dropped(d, kept) = {} THEN 0 ELSE Mark + Cardinality(Dropped(d, kept)))
Kept(d) == Max({0} \cup {e \in d.ends : Size(d, e) <= Budget})
Distill(d) ==
    /\ asked = None
    /\ distill' = [of |-> d.ends, sent |-> {e \in d.ends : e <= Kept(d)},
                   named |-> Dropped(d, Kept(d)), size |-> Size(d, Kept(d))]
    /\ UNCHANGED <<asked, offset, windows>>

Next == \/ \E source \in Sources : Ask(source)
        \/ \E limit \in {None, 1, 2} : Read(limit)
        \/ \E d \in Distills : Distill(d)

Spec == Init /\ [][Next]_vars

-----------------------------------------------------------------------------
(* The windows a caller walks are the whole list or text in order, unit by unit,   *)
(* none twice and none missing, each moving it on, and no walk ends in a refusal,  *)
(* however large the header, a single row or the name of a text is (_page_entries, *)
(* _window_text).  Only a unit too large to go out alone beside the full header,   *)
(* or beside what that header was cut to, is cut.  A distill sends or names every  *)
(* section, and what it sends fits with the names (_fit_distill).  The exception   *)
(* is a json table measured without the page's own fields: where those make the    *)
(* difference, its metadata is left whole, the row cannot give enough back, and    *)
(* the read is refused.                                                            *)
Squeezed == asked.kind = "json" /\ \E from \in {0} \cup Ends :
                ~HeadCut(from) /\ Page(from, Following(from), asked.head) > Budget
WindowsFollow ==
    \A i \in DOMAIN windows :
        LET w == windows[i] IN
        /\ w.from = (IF i = 1 THEN 0 ELSE windows[i - 1].to)
        /\ w.to \in Ends \cup {0} /\ (asked.size > 0 => w.to > w.from)
        /\ w.cut => w.to = Following(w.from)
        /\ w.headCut => Page(w.from, Following(w.from), asked.head) > Budget
WalksEnd ==
    asked # None /\ offset = None /\ ~Squeezed =>
        windows # <<>> /\ windows[Len(windows)].to = asked.size
DistillsNameTheRest ==
    distill # None =>
        /\ distill.sent \cup distill.named = distill.of
        /\ distill.sent # {} => distill.size <= Budget
NothingIsMissing == WindowsFollow /\ WalksEnd /\ DistillsNameTheRest
=============================================================================
