------------------------------ MODULE Providers ------------------------------
(***************************************************************************)
(* One call of a model role (a summary, or the text of a page image): the  *)
(* provider built for the role, its retries, its proofreading pass, the    *)
(* failover to the second vendor and the sentinel the pipeline is given.   *)
(*                                                                         *)
(*   call     what was asked: the role, whether the page is proofread, and *)
(*            the chain of vendors that could be built                     *)
(*   at       idle, ask, review or done                                    *)
(*   turn     which vendor of the chain works, and on which attempt        *)
(*   draft    the transcription under review                               *)
(*   answer   what the pipeline receives                                   *)
(*   reached, rejected   the vendors that got the content, and those that  *)
(*            refused it (history)                                         *)
(***************************************************************************)
EXTENDS Integers, Sequences, FiniteSets

CONSTANTS
    MaxRetries,      \* max_retries of a summary and of a transcription
    None

VARIABLES call, at, turn, draft, answer, reached, rejected
vars == <<call, at, turn, draft, answer, reached, rejected>>

Backends == {"openai", "gemini"}

(* What one exchange can come to: an answer of some kind, an error of the          *)
(* transport, or a failure before anything is sent ("setup").  A filter that steps *)
(* in leaves no text ("filtered") or the text so far ("stopped"), the output limit *)
(* the text so far ("cut").                                                        *)
Outcomes == {"text", "blank", "marker", "cut", "stopped", "null", "filtered", "refused",
             "limited", "down", "malformed", "unusable", "setup"}

(* _build_legacy, _build_dual: one vendor, or a primary and the fallback that      *)
(* could be built.  A fallback that cannot be built leaves the primary alone, a    *)
(* primary that cannot be built leaves nothing.                                    *)
Chains == {<<>>} \cup {<<p>> : p \in Backends} \cup {<<p, f>> : p, f \in Backends}

Errors == {"Untyped", "RateLimited", "Unavailable", "Unusable", "Rejected", "Truncated"}

(* None is no text and no error.                                                   *)
ProvidersAssumption == None \notin Errors \cup {"whole", "stopped"}

Calls == [role : {"summary", "ocr"}, proofread : BOOLEAN, chain : Chains]

Init ==
    /\ call = None
    /\ at = "idle"
    /\ turn = [vendor |-> 1, attempt |-> 0]
    /\ draft = None
    /\ answer = None
    /\ reached = {}
    /\ rejected = {}

-----------------------------------------------------------------------------
Vendor == call.chain[turn.vendor]
HasPeer == turn.vendor < Len(call.chain)

(* classify_provider_error, and what each backend makes of an answer without text  *)
(* or cut at the output limit; None when the outcome is an answer.  The            *)
(* OpenAI-compatible summary turns a null answer into an empty one, nobody looks   *)
(* at the finish reason of a summary, and nobody at a filter when there is text.   *)
ErrorOf(out) ==
    CASE out = "setup" -> "Untyped"
      [] out = "limited" -> "RateLimited"
      [] out = "down" -> "Unavailable"
      [] out = "unusable" -> "Unusable"
      [] out \in {"malformed", "filtered", "refused"} -> "Rejected"
      [] out = "null" /\ (call.role = "ocr" \/ Vendor = "gemini") -> "Unavailable"
      [] out = "cut" /\ call.role = "ocr" -> "Truncated"
      [] OTHER -> None

(* Only a transport error that may pass is tried again on the same vendor.         *)
Retryable(out) == out \in {"limited", "down"}

(* ProviderError.failover; an exception of no known class fails over as well.      *)
RetryableOnly(error) == error \in {"RateLimited", "Unavailable", "Untyped"}
PeerMayServe(error) == error # "Rejected"

TextOf(out) == CASE out = "text" -> "whole"
                 [] out = "cut" -> "half"
                 [] out = "stopped" -> "stopped"
                 [] out = "marker" -> "marker"
                 [] OTHER -> "blank"

(* _summary_failed, _ocr_failed: a blank page is an answer, a blank summary not.   *)
LooksFailed(text) == text = "marker" \/ (text = "blank" /\ call.role = "summary")

-----------------------------------------------------------------------------
(* get_provider: the cached provider of the role, which answers one call.          *)
(* gemini_ocr turns the failure to build one into the sentinel of the page, the    *)
(* summary's caller sees it raise.                                                 *)
Begin(c) ==
    /\ at = "idle"
    /\ call' = c
    /\ at' = IF c.chain = <<>> THEN "done" ELSE "ask"
    /\ answer' = IF c.chain # <<>> THEN None ELSE IF c.role = "ocr" THEN "marker" ELSE "raised"
    /\ UNCHANGED <<turn, draft, reached, rejected>>

Done(text) == at' = "done" /\ answer' = text /\ UNCHANGED turn
AskPeer == at' = "ask" /\ turn' = [vendor |-> turn.vendor + 1, attempt |-> 0] /\ UNCHANGED answer

(* FailoverProvider over what its primary returned.                                *)
Return(text) == IF HasPeer /\ LooksFailed(text) THEN AskPeer ELSE Done(text)

(* FailoverProvider over what its primary raised, then SentinelBoundary and        *)
(* gemini_ocr: an error becomes the sentinel, except an unclassified one of a      *)
(* summary.                                                                        *)
Raise(error) ==
    IF HasPeer /\ PeerMayServe(error) THEN AskPeer
    ELSE Done(IF error = "Untyped" /\ call.role = "summary" THEN "raised" ELSE "marker")

Reaches(out) ==
    /\ reached' = IF out = "setup" THEN reached ELSE reached \cup {turn.vendor}
    /\ rejected' = IF ErrorOf(out) = "Rejected" THEN rejected \cup {turn.vendor} ELSE rejected

(* The first exchange fails for now, and is tried again after a pause.             *)
Retry(out) ==
    /\ at = "ask" /\ Retryable(out) /\ turn.attempt < MaxRetries
    /\ turn' = [turn EXCEPT !.attempt = @ + 1]
    /\ Reaches(out)
    /\ UNCHANGED <<call, at, draft, answer>>

Fail(out) ==
    /\ at = "ask" /\ ErrorOf(out) # None
    /\ ~(Retryable(out) /\ turn.attempt < MaxRetries)
    /\ Raise(ErrorOf(out))
    /\ Reaches(out)
    /\ UNCHANGED <<call, draft>>

(* A transcription that says something goes to review, anything else is returned.  *)
Answer(out) ==
    /\ at = "ask" /\ ErrorOf(out) = None
    /\ Reaches(out)
    /\ IF call.role = "ocr" /\ call.proofread /\ TextOf(out) \in {"whole", "stopped"}
       THEN at' = "review" /\ draft' = TextOf(out) /\ turn' = [turn EXCEPT !.attempt = 0] /\ UNCHANGED answer
       ELSE Return(TextOf(out)) /\ UNCHANGED draft
    /\ UNCHANGED call

(* The proofreading pass replaces the draft by a whole page, or by what it said    *)
(* before a filter stopped it; whatever else comes back, the draft stands.  The    *)
(* OpenAI-compatible backend asks once more after a transport error, the other     *)
(* does not.                                                                       *)
Reviewed(out) == CASE out = "text" -> "reviewed" [] out = "stopped" -> "stopped" [] OTHER -> draft
ReviewTrusted(out) ==
    /\ at = "review" /\ out # "setup"
    /\ Return(IF out = "text" THEN "reviewed" ELSE TextOf(out))
    /\ Reaches(out)
    /\ UNCHANGED <<call, draft>>
Review(out) ==
    /\ at = "review" /\ out # "setup"
    /\ ~(Vendor = "openai" /\ Retryable(out) /\ turn.attempt = 0)
    /\ Return(Reviewed(out))
    /\ Reaches(out)
    /\ UNCHANGED <<call, draft>>

ReviewAgain(out) ==
    /\ at = "review" /\ Vendor = "openai" /\ Retryable(out) /\ turn.attempt = 0
    /\ turn' = [turn EXCEPT !.attempt = 1]
    /\ Reaches(out)
    /\ UNCHANGED <<call, at, draft, answer>>

Next ==
    \/ \E c \in Calls : Begin(c)
    \/ \E out \in Outcomes :
          Retry(out) \/ Fail(out) \/ Answer(out) \/ Review(out) \/ ReviewAgain(out)

Spec == Init /\ [][Next]_vars

-----------------------------------------------------------------------------
(* The text of a page is a whole page, a blank page or the failure marker: never   *)
(* the half a vendor came to before its output limit, and never a failure or a     *)
(* blank once some vendor transcribed it, however its proofreading ended.  The one *)
(* short text that passes is what a content filter stopped partway.                *)
PageIsWhole ==
    call # None /\ call.role = "ocr" /\ at = "done" =>
        answer \in {"stopped"} \cup
            (IF draft = None THEN {"whole", "blank", "marker"} ELSE {"whole", "reviewed"})

(* The second vendor is asked when it may help and only then: content the first     *)
(* one refused goes no further, at any point of the retries, the proofreading pass  *)
(* and the failover; any other failure is final only after every vendor was tried. *)
FailoverWhereItHelps ==
    /\ \A i \in rejected, j \in reached : j <= i
    /\ at = "done" /\ answer \in {"marker", "raised"} /\ rejected = {} =>
          call.chain = <<>> \/ turn.vendor = Len(call.chain)
=============================================================================
