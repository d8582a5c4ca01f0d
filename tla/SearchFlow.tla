----------------------------- MODULE SearchFlow -----------------------------
(***************************************************************************)
(* Web search: the throttle that spaces the queries of each backend, the   *)
(* fallback chain that charges a backend when it reaches it, and           *)
(* search_and_capture inside a caller's budget.  Time passes in whole      *)
(* units, and no timer that is due is overslept.                           *)
(*                                                                         *)
(*   now      the monotonic clock                                          *)
(*   allowed  _next_search_allowed: when each backend is next free         *)
(*   queried  how often, and when last, each backend was queried           *)
(*   caller   the requests                                                 *)
(***************************************************************************)
EXTENDS Integers, Sequences, FiniteSets, FiniteSetsExt

CONSTANTS
    Searchers,
    Chain,           \* _chain_names: the primary, then its fallbacks
    Interval,        \* MANTISFETCH_SEARCH_MIN_INTERVAL_SEC
    MaxWait,         \* MANTISFETCH_SEARCH_MAX_WAIT_SEC
    Timeout,         \* SEARCH_TIMEOUT_SEC
    MinShare,        \* SEARCH_CAPTURE_MIN_SECONDS
    Budgets,         \* what budget_seconds may be
    MaxHits,         \* capture_top
    MaxTime,
    None

Backends == {Chain[i] : i \in DOMAIN Chain}

(* There is a backend to ask first, and None is no time.                           *)
SearchAssumption ==
    /\ Chain \in Seq(Backends) /\ Chain # <<>>
    /\ {Interval, MaxWait, Timeout, MinShare, MaxHits} \subseteq Nat
    /\ Budgets \subseteq Nat
    /\ None \notin Nat

VARIABLES now, allowed, queried, caller
vars == <<now, allowed, queried, caller>>

(* at: idle, turn (asleep until its ticket), asking (the backend works), hits,     *)
(* capturing, done.  wake: when its timer rings, None when it set none.  ended:    *)
(* when it was answered.                                                           *)
NoCaller == [at |-> "idle", names |-> <<>>, capture |-> FALSE, deadline |-> None, wake |-> None,
             hits |-> 0, ended |-> None]

Init ==
    /\ now = 0
    /\ allowed = [b \in Backends |-> 0]
    /\ queried = [b \in Backends |-> [times |-> 0, last |-> None]]
    /\ caller = [c \in Searchers |-> NoCaller]

-----------------------------------------------------------------------------
At(c, a) == caller[c].at = a
Bounded(c) == caller[c].deadline # None
Answered(k) == [k EXCEPT !.at = "done", !.wake = None, !.ended = now]

(* _enforce_search_throttle for the first backend of names: a ticket for the      *)
(* earliest free slot of that backend, or a refusal that takes none.               *)
Slot(b) == Max({now, allowed[b]})
Refused(k) == LET slot == Slot(Head(k.names)) IN
              slot - now > MaxWait \/ (k.deadline # None /\ slot > k.deadline)
TakesTurn(c, k) ==
    IF Refused(k)
    THEN caller' = [caller EXCEPT ![c] = Answered(k)] /\ UNCHANGED allowed
    ELSE LET slot == Slot(Head(k.names)) IN
         /\ allowed' = [allowed EXCEPT ![Head(k.names)] = slot + Interval]
         /\ caller' = [caller EXCEPT ![c] = [k EXCEPT !.at = "turn", !.wake = slot]]

(* /search and /search_and_capture: the default chain or one named backend, a      *)
(* budget only for a capture.                                                      *)
Ask(c, names, capture, budget) ==
    /\ At(c, "idle") /\ (budget # None => capture)
    /\ TakesTurn(c, [NoCaller EXCEPT !.names = names, !.capture = capture,
                        !.deadline = IF budget = None THEN None ELSE now + budget])
    /\ UNCHANGED <<now, queried>>

(* The turn has come and the backend is queried.  With no time left wait_for       *)
(* cancels the search before it starts: the ticket is spent.                       *)
Query(c) ==
    /\ At(c, "turn") /\ caller[c].wake <= now
    /\ Bounded(c) => now < caller[c].deadline
    /\ LET b == Head(caller[c].names) IN
       queried' = [queried EXCEPT ![b] = [times |-> @.times + 1, last |-> now]]
    /\ caller' = [caller EXCEPT ![c] = [@ EXCEPT !.at = "asking", !.wake = now + Timeout]]
    /\ UNCHANGED <<now, allowed>>

Results(c, n) ==
    /\ At(c, "asking")
    /\ caller' = [caller EXCEPT ![c] = IF @.capture /\ n > 0
                                       THEN [@ EXCEPT !.at = "hits", !.hits = n, !.wake = None]
                                       ELSE Answered(@)]
    /\ UNCHANGED <<now, allowed, queried>>

(* Unavailable: the next member of the chain, behind its own ticket; a refusal     *)
(* there is the answer.  A configuration error falls back to nobody.               *)
FallsThrough(c) ==
    /\ At(c, "asking")
    /\ LET k == [caller[c] EXCEPT !.names = Tail(@)] IN
       IF k.names = <<>> THEN caller' = [caller EXCEPT ![c] = Answered(@)] /\ UNCHANGED allowed
       ELSE TakesTurn(c, k)
    /\ UNCHANGED <<now, queried>>
Misconfigured(c) ==
    /\ At(c, "asking")
    /\ caller' = [caller EXCEPT ![c] = Answered(@)]
    /\ UNCHANGED <<now, allowed, queried>>

(* wait_for around the search *)
OutOfTime(c) ==
    /\ caller[c].at \in {"turn", "asking"} /\ Bounded(c) /\ now >= caller[c].deadline
    /\ caller' = [caller EXCEPT ![c] = Answered(@)]
    /\ UNCHANGED <<now, allowed, queried>>

(* The share of a hit, of what is left and the hits there still are. *)
ShareOfBudget(k) == Max({MinShare, (k.deadline - now) \div k.hits})
NeverCut(k) == FALSE                 \* variant: every hit gets at least its minimum
CutShort(k) == k.deadline # None /\ k.deadline - now < MinShare
NextHit(c) ==
    /\ At(c, "hits")
    /\ LET k == caller[c] IN
       caller' = [caller EXCEPT ![c] =
           IF k.hits = 0 \/ CutShort(k) THEN Answered(k)
           ELSE [k EXCEPT !.at = "capturing",
                          !.wake = IF k.deadline = None THEN None ELSE now + ShareOfBudget(k)]]
    /\ UNCHANGED <<now, allowed, queried>>

(* Captured, failed, or cut off by its share and left to finish on its own.        *)
HitEnds(c) ==
    /\ At(c, "capturing")
    /\ LET k == caller[c] IN
       caller' = [caller EXCEPT ![c] = [k EXCEPT !.at = "hits", !.hits = k.hits - 1, !.wake = None]]
    /\ UNCHANGED <<now, allowed, queried>>

Due(c) == \/ caller[c].wake # None /\ caller[c].wake <= now
          \/ caller[c].at = "hits"
          \/ caller[c].at \in {"turn", "asking"} /\ Bounded(c) /\ caller[c].deadline <= now
Tick ==
    /\ now < MaxTime /\ \A c \in Searchers : ~Due(c)
    /\ now' = now + 1
    /\ UNCHANGED <<allowed, queried, caller>>

Next ==
    \/ \E c \in Searchers :
         \/ \E names \in {Chain} \cup {<<b>> : b \in Backends}, capture \in BOOLEAN,
               budget \in Budgets \cup {None} : Ask(c, names, capture, budget)
         \/ \E n \in 0..MaxHits : Results(c, n)
         \/ Query(c) \/ FallsThrough(c) \/ Misconfigured(c) \/ OutOfTime(c)
         \/ NextHit(c) \/ HitEnds(c)
    \/ Tick
Spec == Init /\ [][Next]_vars

-----------------------------------------------------------------------------
(* Two queries of one backend are at least the interval apart, whoever sends       *)
(* them: a chain that reaches a backend after the first one hung, a caller that    *)
(* names the backend, and callers that were refused or cut off in between.         *)
QueriesSpaced ==
    [][\A b \in Backends :
          queried'[b].times # queried[b].times /\ queried[b].last # None
             => queried'[b].last >= queried[b].last + Interval]_vars

(* A call that declares a budget is answered inside it, wherever the time goes:    *)
(* in the queue of the throttle, at each backend of the chain, or in captures.     *)
AnsweredInBudget ==
    \A c \in Searchers : Bounded(c) =>
        IF At(c, "done") THEN caller[c].ended <= caller[c].deadline
        ELSE now <= caller[c].deadline
=============================================================================
