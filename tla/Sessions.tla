------------------------------ MODULE Sessions ------------------------------
(***************************************************************************)
(* Browser sessions: who owns an open browser context, and who may close   *)
(* it.  The manager's table is an OrderedDict, oldest use first: a set and *)
(* the order of its uses.  Its lock is never held over an await, so each   *)
(* use of the table is one step.  A session has a lock of its own, first   *)
(* come first served: an operation holds it while it drives the page, a    *)
(* closer while it closes the context.                                     *)
(*                                                                         *)
(*   table   the sessions a caller can name                                *)
(*   used    the pairs <<s, t>> of them with s last used before t          *)
(*   old     those of them whose time to live has passed                   *)
(*   sess    the session: its context, its lock, what it knows of its page *)
(*   call    the callers: what each asked for and how far it is            *)
(*   sweep   cleanup_loop: the expired sessions it is closing              *)
(***************************************************************************)
EXTENDS Integers, SequencesExt

CONSTANTS
    Callers, Sids,
    MaxSize,          \* SESSION_MAXSIZE
    SessionSlots,     \* MANTISFETCH_MAX_CONCURRENT_SESSIONS
    CaptureSlots,     \* MANTISFETCH_MAX_CONCURRENT_CAPTURE
    MaxFaults,        \* browser calls that fail, callers that are cancelled
    None, Sweeper

SessionsAssumption == None \notin Sids \cup Callers /\ Sweeper \notin Callers

VARIABLES table, used, old, sess, call, sweep
vars == <<table, used, old, sess, call, sweep>>

NoCall == [at |-> "idle", kind |-> None, sid |-> None, victim |-> None, bad |-> FALSE]
(* seen, tools: the page last_distill and webmcp_tools describe, this one or an  *)
(* earlier one.  lost: the caller that was to close its context was cancelled.    *)
NoSession == [ctx |-> "none", closed |-> FALSE, lost |-> FALSE, lock |-> <<>>,
              seen |-> "none", tools |-> "none"]

Init ==
    /\ table = {} /\ used = {} /\ old = {}
    /\ sess = [s \in Sids |-> NoSession]
    /\ call = [p \in Callers |-> NoCall]
    /\ sweep = [todo |-> {}, at |-> "asleep", faults |-> 0]

-----------------------------------------------------------------------------
At(p, a) == call[p].at = a
Oldest(S)  == {s \in S : \A t \in S : <<t, s>> \notin used}
Latest(s)  == {u \in used : u[1] # s} \cup ((table \ {s}) \X {s})
AtHead(s, p) == sess[s].lock # <<>> /\ Head(sess[s].lock) = p
Queued(s, p) == [sess EXCEPT ![s].lock = Append(@, p)]
(* _close_session, as far as its first await *)
Closing(s, p) == [sess EXCEPT ![s].closed = TRUE, ![s].lock = Append(@, p)]
Closed(s) == [sess EXCEPT ![s].ctx = "closed", ![s].lock = Tail(@)]
Fault == sweep.faults < MaxFaults /\ sweep' = [sweep EXCEPT !.faults = @ + 1]
Slots(kind) == IF kind = "new" THEN SessionSlots ELSE CaptureSlots
Holding(kind) == {p \in Callers : call[p].kind = kind /\ call[p].at \notin {"idle", "queue", "done"}}
Done(p) == call' = [call EXCEPT ![p].at = "done"]
Step(p, a) == call' = [call EXCEPT ![p].at = a]

-----------------------------------------------------------------------------
(* A session of one's own, by /session/new or for one capture.                  *)

Ask(p, kind) ==
    /\ At(p, "idle")
    /\ call' = [call EXCEPT ![p].at = "queue", ![p].kind = kind]
    /\ UNCHANGED <<table, used, old, sess, sweep>>

(* _acquire_or_refuse: a slot, or a 429 when none was freed in time *)
Acquire(p) ==
    /\ At(p, "queue") /\ Cardinality(Holding(call[p].kind)) < Slots(call[p].kind)
    /\ Step(p, "slot")
    /\ UNCHANGED <<table, used, old, sess, sweep>>
Refuse(p) ==
    /\ At(p, "queue") /\ Cardinality(Holding(call[p].kind)) >= Slots(call[p].kind)
    /\ Done(p)
    /\ UNCHANGED <<table, used, old, sess, sweep>>

NewContext(p) ==
    /\ At(p, "slot")
    /\ \/ \E s \in Sids :
            /\ sess[s].ctx = "none"
            /\ sess' = [sess EXCEPT ![s].ctx = "open"]
            /\ call' = [call EXCEPT ![p].at = "setup", ![p].sid = s]
            /\ UNCHANGED sweep
       \/ Fault /\ Done(p) /\ UNCHANGED sess
    /\ UNCHANGED <<table, used, old>>

LeakOnFailure(p) ==                  \* variant: a context that cannot be set up is left open
    /\ At(p, "setup") /\ Fault /\ Done(p)
    /\ UNCHANGED <<table, used, old, sess>>
SetupFails(p) ==
    /\ At(p, "setup") /\ Fault
    /\ sess' = [sess EXCEPT ![call[p].sid].ctx = "closed"]
    /\ Done(p)
    /\ UNCHANGED <<table, used, old>>

(* SessionManager.put: the oldest goes when the table is full.  With nothing to  *)
(* evict there is no await before a capture asks for the lock of its session.    *)
Put(p) ==
    /\ At(p, "setup")
    /\ LET s == call[p].sid IN
       /\ used' = Latest(s)
       /\ IF Cardinality(table) >= MaxSize
          THEN \E v \in Oldest(table) :
                 /\ table' = (table \ {v}) \cup {s} /\ old' = old \ {v}
                 /\ sess' = Closing(v, p)
                 /\ call' = [call EXCEPT ![p].at = "evict", ![p].victim = v]
          ELSE /\ table' = table \cup {s} /\ UNCHANGED old
               /\ IF call[p].kind = "new" THEN Done(p) /\ UNCHANGED sess
                  ELSE Step(p, "work") /\ sess' = Queued(s, p)
    /\ UNCHANGED sweep

Evict(p) ==
    /\ At(p, "evict") /\ AtHead(call[p].victim, p)
    /\ LET shut == Closed(call[p].victim) IN
       IF call[p].kind = "new" THEN Done(p) /\ sess' = shut
       ELSE /\ Step(p, "work")
            /\ sess' = [shut EXCEPT ![call[p].sid].lock = Append(@, p)]
    /\ UNCHANGED <<table, used, old, sweep>>

(* SessionManager.remove, at the end of a capture and in /session/close *)
RemoveSession(p, s) ==
    IF s \in table
    THEN /\ table' = table \ {s} /\ old' = old \ {s} /\ UNCHANGED used
         /\ sess' = Closing(s, p)
         /\ call' = [call EXCEPT ![p].at = "close", ![p].sid = s]
    ELSE Done(p) /\ UNCHANGED <<table, used, old, sess>>


(* The work of a capture: goto, then a distill without actions; either may fail,  *)
(* and fails on a closed context.  The lock is let go before anything is stored.  *)
Capture(p) ==
    /\ At(p, "work") /\ call[p].kind = "capture" /\ AtHead(call[p].sid, p)
    /\ sess' = [sess EXCEPT ![call[p].sid].lock = Tail(@)]
    /\ call' = [call EXCEPT ![p].at = "drop", ![p].bad = sess[call[p].sid].ctx # "open"]
    /\ UNCHANGED <<table, used, old, sweep>>

Drop(p) ==
    /\ At(p, "drop") /\ RemoveSession(p, call[p].sid) /\ UNCHANGED sweep
CloseSession(p, s) ==
    /\ At(p, "idle") /\ sess[s].ctx # "none"
    /\ RemoveSession(p, s) /\ UNCHANGED sweep

Close(p) ==
    /\ At(p, "close") /\ AtHead(call[p].sid, p)
    /\ sess' = Closed(call[p].sid)
    /\ Done(p) /\ UNCHANGED <<table, used, old, sweep>>

-----------------------------------------------------------------------------
(* The endpoints that use a session: _ensure_session, then the lock of it.       *)

Operations == {"goto", "distill", "read_sections", "act", "scroll", "navigate",
               "webmcp_discover", "webmcp_invoke", "export"}

Use(p, s, op) ==
    /\ At(p, "idle") /\ sess[s].ctx # "none"
    /\ CASE s \notin table -> Done(p) /\ UNCHANGED <<table, used, old, sess>>
         [] s \in table /\ s \in old ->          \* expired on access
              /\ table' = table \ {s} /\ old' = old \ {s} /\ UNCHANGED used
              /\ sess' = Closing(s, p)
              /\ call' = [call EXCEPT ![p].at = "close", ![p].sid = s]
         [] OTHER ->
              /\ used' = Latest(s) /\ UNCHANGED <<table, old>>
              /\ sess' = Queued(s, p)
              /\ call' = [call EXCEPT ![p].at = "work", ![p].kind = op, ![p].sid = s]
    /\ UNCHANGED sweep

(* What a session knows of its page.  A page that moves makes what it knew of     *)
(* earlier; only goto forgets the tools, and nothing forgets the distill.         *)
Knew(k) == IF k = "this" THEN "earlier" ELSE k
Found(t) == IF t = "none" THEN "this" ELSE t
Distilled(k) == [k EXCEPT !.seen = "this", !.tools = Found(@)]
Moved(k) == [k EXCEPT !.seen = Knew(@), !.tools = Knew(@)]
After(op, k) ==
    CASE op = "goto" -> {k, [k EXCEPT !.seen = Knew(@), !.tools = "none"]}
      [] op = "distill" -> {k, Distilled(k), [k EXCEPT !.seen = "this"]}
      [] op = "read_sections" -> {IF k.seen = "none" THEN [k EXCEPT !.seen = "this"] ELSE k}
      [] op = "act" ->                          \* refused, on this page, or off to another
           LET b == IF k.seen = "none" THEN Distilled(k) ELSE k
           IN {b, Distilled(b), Distilled(Moved(b)), Moved(b)}
      [] op = "navigate" -> {k, Moved(k)}
      [] op = "webmcp_discover" -> {[k EXCEPT !.tools = Found(@)], [k EXCEPT !.tools = "this"]}
      [] op = "webmcp_invoke" ->
           LET b == [k EXCEPT !.tools = Found(@)] IN {b, Moved(b)}
      [] OTHER -> {k}
Work(p) ==
    /\ At(p, "work") /\ call[p].kind \in Operations /\ AtHead(call[p].sid, p)
    /\ \E k \in After(call[p].kind, sess[call[p].sid]) :
          sess' = [sess EXCEPT ![call[p].sid] = [k EXCEPT !.lock = Tail(@)]]
    /\ call' = [call EXCEPT ![p].at = "done", ![p].bad = sess[call[p].sid].ctx # "open"]
    /\ UNCHANGED <<table, used, old, sweep>>

-----------------------------------------------------------------------------
(* A caller is cancelled at an await, when its client goes away or its time is    *)
(* up.  In the queue for a slot it leaves nothing behind (asyncio gives the place *)
(* back); at new_context the browser may make the context all the same; in the    *)
(* setup the context is closed, unless the cancel comes at that close.            *)

LeavesNothing(p) == At(p, "queue") /\ Done(p) /\ UNCHANGED sess
LeavesContext(p) ==
    /\ At(p, "slot") /\ Done(p)
    /\ \/ UNCHANGED sess
       \/ \E s \in Sids : /\ sess[s].ctx = "none"
                         /\ sess' = [sess EXCEPT ![s].ctx = "open", ![s].lost = TRUE]
LeavesSetup(p) ==
    /\ At(p, "setup") /\ Done(p)
    /\ LET s == call[p].sid IN
       \/ sess' = [sess EXCEPT ![s].ctx = "closed"]
       \/ sess' = [sess EXCEPT ![s].lost = TRUE]

(* A closer leaves the queue of the session wherever it stands, and the session   *)
(* is in no table any more: its context stays open, unless the browser was asked  *)
(* to close it already.                                                           *)
Others(s, p) == RemoveAt(sess[s].lock, CHOOSE i \in DOMAIN sess[s].lock : sess[s].lock[i] = p)
LeavesClose(p) ==
    /\ call[p].at \in {"evict", "close"} /\ Done(p)
    /\ LET s == IF At(p, "evict") THEN call[p].victim ELSE call[p].sid IN
       \/ sess' = [sess EXCEPT ![s].lost = TRUE, ![s].lock = Others(s, p)]
       \/ AtHead(s, p) /\ sess' = Closed(s)

(* One that works, or waits for its turn, lets go of the lock; a capture still    *)
(* removes its session.  A goto that is cut off may have moved the page.          *)
CutOff(op, k) == After(op, k) \cup IF op = "goto" THEN {Moved(k)} ELSE {}
LeavesWork(p) ==
    /\ At(p, "work")
    /\ IF call[p].kind = "capture" THEN Step(p, "drop") ELSE Done(p)
    /\ LET s == call[p].sid IN
       \E k \in {sess[s]} \cup (IF AtHead(s, p) THEN CutOff(call[p].kind, sess[s]) ELSE {}) :
          sess' = [sess EXCEPT ![s] = [k EXCEPT !.lock = Others(s, p)]]

Cancelled(p) ==
    /\ Fault
    /\ \/ LeavesNothing(p) \/ LeavesContext(p) \/ LeavesSetup(p) \/ LeavesClose(p) \/ LeavesWork(p)
    /\ UNCHANGED <<table, used, old>>

-----------------------------------------------------------------------------
(* The time to live, and the loop that looks for it.                              *)

Expire(s) ==
    /\ s \in table \ old /\ old' = old \cup {s}
    /\ UNCHANGED <<table, used, sess, call, sweep>>

(* SessionManager.cleanup pops all that expired, and closes one after the other;  *)
(* close_all does so with every session, when the service stops.                  *)
Sweep ==
    /\ sweep.at = "asleep" /\ old # {}
    /\ sweep' = [sweep EXCEPT !.todo = old, !.at = "next"]
    /\ table' = table \ old /\ old' = {}
    /\ UNCHANGED <<used, sess, call>>
CloseAll ==
    /\ sweep.at = "asleep" /\ \A p \in Callers : At(p, "done")
    /\ sweep' = [sweep EXCEPT !.todo = table, !.at = "next"]
    /\ table' = {} /\ old' = {}
    /\ UNCHANGED <<used, sess, call>>
SweepNext ==
    /\ sweep.at = "next"
    /\ \/ sweep.todo = {} /\ sweep' = [sweep EXCEPT !.at = "asleep"] /\ UNCHANGED sess
       \/ \E s \in Oldest(sweep.todo) :
             sess' = Closing(s, Sweeper) /\ sweep' = [sweep EXCEPT !.at = "close"]
    /\ UNCHANGED <<table, used, old, call>>
SweepClose ==
    /\ sweep.at = "close"
    /\ \E s \in sweep.todo :
         /\ AtHead(s, Sweeper) /\ sess' = Closed(s)
         /\ sweep' = [sweep EXCEPT !.todo = @ \ {s}, !.at = "next"]
    /\ UNCHANGED <<table, used, old, call>>

Next ==
    \/ \E p \in Callers :
         \/ Acquire(p) \/ Refuse(p) \/ NewContext(p) \/ SetupFails(p) \/ Put(p) \/ Evict(p)
         \/ Capture(p) \/ Drop(p) \/ Close(p) \/ Work(p) \/ Cancelled(p)
         \/ \E kind \in {"new", "capture"} : Ask(p, kind)
         \/ \E s \in Sids : CloseSession(p, s) \/ \E op \in Operations : Use(p, s, op)
    \/ Sweep \/ CloseAll \/ SweepNext \/ SweepClose
    \/ \E s \in Sids : Expire(s)
Spec == Init /\ [][Next]_vars

-----------------------------------------------------------------------------
(* An open context has an owner that will close it: the caller that is setting it *)
(* up, the table, a closer in the queue of its lock, or the sweep.  No failure on  *)
(* the way from new_context to put, and no order of evictions, expiries and        *)
(* closes, leaves a browser context behind; only the cancel of the caller that     *)
(* asks for a context or is to close it does.                                      *)
ContextsOwned ==
    \A s \in Sids : sess[s].ctx = "open" =>
        \/ sess[s].lost
        \/ s \in table \cup sweep.todo
        \/ \E p \in Callers :
             \/ call[p].sid = s /\ call[p].at \in {"setup", "close"}
             \/ call[p].victim = s /\ call[p].at = "evict"

(* An endpoint never drives a closed context: what it queued for before the       *)
(* session was evicted, expired or closed is served before the close.  (A         *)
(* capture may: it asks for its lock without a look at closed, after an eviction  *)
(* it had to wait for.)                                                           *)
EndpointsWorkOpen == \A p \in Callers : call[p].kind \in Operations => ~call[p].bad

(* Whoever holds the lock of a session, or is next for it, waits for that lock   *)
(* and for nothing else: no caller holds one session while it waits for another,   *)
(* or closes a session it is itself using, so nobody waits for good.               *)
WaitsFor(p) == IF At(p, "evict") THEN {call[p].victim}
               ELSE IF call[p].at \in {"work", "close"} THEN {call[p].sid} ELSE {}
NoHoldAndWait ==
    \A p \in Callers : \A s \in Sids :
        LET places == {i \in DOMAIN sess[s].lock : sess[s].lock[i] = p} IN
        /\ s \in WaitsFor(p) <=> places # {}
        /\ \A i, j \in places : i = j
=============================================================================
