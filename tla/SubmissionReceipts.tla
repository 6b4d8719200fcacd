------------------------- MODULE SubmissionReceipts -------------------------
(***************************************************************************)
(* Submissions of the workbench page, submissionFetch in the browser and   *)
(* the SubmissionReceipts middleware in the service.  The page keeps a key *)
(* per content in its session storage until an answer that is ok was read. *)
(* The middleware claims the key before the endpoint runs and keeps an     *)
(* answer below 500.  Requests, answers, the page and the service may be   *)
(* lost at every step; the receipts are not.                               *)
(***************************************************************************)
EXTENDS Naturals

CONSTANTS
    Contents,       \* method, path and body of what a user can submit
    Keys,           \* idempotency keys (randomUUID)
    MaxCalls,       \* bound on HTTP calls
    Overlap,        \* the page may submit a content again while a call is open
    None

ASSUME ReceiptsAssumption ==
    /\ MaxCalls \in Nat /\ Overlap \in BOOLEAN
    /\ None \notin Keys

Calls == 1..MaxCalls
\* of the middleware: "mismatch" is 422, "uncertain" is its 409; of the endpoint:
\* "refused" is a 4xx without effect, "error" is 5xx or an exception.
Answers == {"ok", "refused", "error", "mismatch", "uncertain"}
Call == [content : Contents, key : Keys, page : BOOLEAN,
         at : {"sent", "claimed", "answered", "reply", "read", "lost"},
         answer : Answers \cup {"none"}]
Receipt == [content : Contents, status : {"dispatching", "received"},
            answer : {"none", "ok", "refused"}]

ASSUME NoneAssumption == None \notin Call \cup Receipt

VARIABLES
    slot,       \* the page's session storage: the key of a content
    drawn,      \* keys drawn so far
    calls,      \* the HTTP calls
    receipts,   \* records-v1.sqlite
    effects,    \* how often the endpoint took effect under a key
    busy        \* the thread has a run

vars == <<slot, drawn, calls, receipts, effects, busy>>

TypeOK ==
    /\ slot \in [Contents -> Keys \cup {None}]
    /\ drawn \subseteq Keys
    /\ calls \in [Calls -> Call \cup {None}]
    /\ receipts \in [Keys -> Receipt \cup {None}]
    /\ effects \in [Keys -> Nat]
    /\ busy \in BOOLEAN

Init ==
    /\ slot = [i \in Contents |-> None]
    /\ drawn = {}
    /\ calls = [c \in Calls |-> None]
    /\ receipts = [k \in Keys |-> None]
    /\ effects = [k \in Keys |-> 0]
    /\ busy = FALSE

At(c, place) == calls[c] # None /\ calls[c].at = place
\* The page waits for these calls.
Open == {c \in Calls : calls[c] # None /\ calls[c].page /\ calls[c].at \notin {"read", "lost"}}

-----------------------------------------------------------------------------
(* The page.                                                               *)

NewCall(c, i, k, page) ==
    /\ calls[c] = None /\ \A d \in Calls : d < c => calls[d] # None
    /\ calls' = [calls EXCEPT ![c] = [content |-> i, key |-> k, page |-> page, at |-> "sent",
                                      answer |-> "none"]]

\* submissionFetch: the key in the slot, or a new one.
Submit(c, i) ==
    /\ Overlap \/ Open = {}
    /\ \E k \in IF slot[i] # None THEN {slot[i]} ELSE Keys \ drawn :
           /\ NewCall(c, i, k, TRUE)
           /\ slot' = [slot EXCEPT ![i] = k]
           /\ drawn' = drawn \cup {k}
    /\ UNCHANGED <<receipts, effects, busy>>

\* Another client of the owner uses a key again, for any content.
Reuse(c, i) ==
    /\ \E k \in drawn : NewCall(c, i, k, FALSE)
    /\ UNCHANGED <<slot, drawn, receipts, effects, busy>>

\* Faulty: any answer gives the key back.
LearnedAnyAnswer(answer) == TRUE

\* response.ok, and its body could be read.
Learned(answer) == answer = "ok"

Read(c) ==
    /\ At(c, "reply")
    /\ calls' = [calls EXCEPT ![c].at = "read"]
    /\ slot' = IF calls[c].page /\ Learned(calls[c].answer)
               THEN [slot EXCEPT ![calls[c].content] = None] ELSE slot
    /\ UNCHANGED <<drawn, receipts, effects, busy>>

\* A request or an answer is lost, or nobody reads the answer.
Lose(c) ==
    /\ At(c, "sent") \/ At(c, "reply")
    /\ calls' = [calls EXCEPT ![c].at = "lost"]
    /\ UNCHANGED <<slot, drawn, receipts, effects, busy>>

\* The page is loaded again: session storage stays, its calls go on without it.
Reload ==
    /\ Open # {}
    /\ calls' = [c \in Calls |-> IF c \in Open THEN [calls[c] EXCEPT !.page = FALSE]
                                 ELSE calls[c]]
    /\ UNCHANGED <<slot, drawn, receipts, effects, busy>>

-----------------------------------------------------------------------------
(* The middleware and the endpoint.                                        *)

Replied(c, answer) == calls' = [calls EXCEPT ![c].at = "reply", ![c].answer = answer]

\* Faulty: what was claimed but not answered is claimed again.
ClaimedUnlessDispatching(k) == receipts[k] # None /\ receipts[k].status = "received"

\* claim: cache.add finds a record.
Claimed(k) == receipts[k] # None

\* Faulty: the receipt is found by its key alone.
SameFingerprintAlways(receipt, call) == TRUE

SameFingerprint(receipt, call) == receipt.content = call.content

Claim(c) ==
    /\ At(c, "sent")
    /\ LET k == calls[c].key IN
       IF Claimed(k)
       THEN /\ Replied(c, IF ~SameFingerprint(receipts[k], calls[c]) THEN "mismatch"
                          ELSE IF receipts[k].status = "received" THEN receipts[k].answer
                          ELSE "uncertain")
            /\ UNCHANGED receipts
       ELSE /\ receipts' = [receipts EXCEPT ![k] = [content |-> calls[c].content,
                                                    status |-> "dispatching",
                                                    answer |-> "none"]]
            /\ calls' = [calls EXCEPT ![c].at = "claimed"]
    /\ UNCHANGED <<slot, drawn, effects, busy>>

\* The endpoint refuses while the thread is busy.  An error may come before or
\* after the effect, an answer of more than 2 MB is one.
Execute(c) ==
    /\ At(c, "claimed")
    /\ \E answer \in {"ok", "refused", "error"}, effect \in {0, 1} :
           /\ answer = "ok" => effect = 1 /\ ~busy
           /\ answer = "refused" => effect = 0 /\ busy
           /\ calls' = [calls EXCEPT ![c].at = "answered", ![c].answer = answer]
           /\ effects' = [effects EXCEPT ![calls[c].key] = @ + effect]
    /\ UNCHANGED <<slot, drawn, receipts, busy>>

\* Faulty: an error is kept like an answer.
KeptAlways(answer) == TRUE

\* status < 500.
Kept(answer) == answer # "error"

\* capture: the answer is kept before it is sent.
Complete(c) ==
    /\ At(c, "answered")
    /\ LET call == calls[c] IN
       receipts' = IF Kept(call.answer)
                   THEN [receipts EXCEPT ![call.key] = [content |-> call.content,
                                                        status |-> "received",
                                                        answer |-> call.answer]]
                   ELSE receipts
    /\ calls' = [calls EXCEPT ![c].at = "reply"]
    /\ UNCHANGED <<slot, drawn, effects, busy>>

\* The service stops: what it was doing is lost, the receipts are not.
Stop ==
    /\ \E c \in Calls : At(c, "claimed") \/ At(c, "answered")
    /\ calls' = [c \in Calls |-> IF At(c, "claimed") \/ At(c, "answered") \/ At(c, "reply")
                                 THEN [calls[c] EXCEPT !.at = "lost"] ELSE calls[c]]
    /\ UNCHANGED <<slot, drawn, receipts, effects, busy>>

\* Runs of the thread begin and end.
Turn ==
    /\ busy' = ~busy
    /\ UNCHANGED <<slot, drawn, calls, receipts, effects>>

Serve(c) == Claim(c) \/ Execute(c) \/ Complete(c)
Next ==
    \/ \E c \in Calls : Read(c) \/ Lose(c) \/ Serve(c)
    \/ \E c \in Calls, i \in Contents : Submit(c, i) \/ Reuse(c, i)
    \/ Reload \/ Stop \/ Turn

Spec == Init /\ [][Next]_vars

-----------------------------------------------------------------------------
\* Whatever is repeated, lost or stopped, a submission takes effect at most once
\* (claim: an uncertain dispatch is never retried).
AtMostOnce == \A k \in Keys : effects[k] <= 1

\* A caller reads ok only for the content it sent, and when it took effect
\* (__call__: fingerprint, replay).
OkIsTrue ==
    \A c \in Calls : At(c, "read") /\ calls[c].answer = "ok" =>
        /\ effects[calls[c].key] = 1
        /\ receipts[calls[c].key].content = calls[c].content

\* The receipts implement the ledger of submissions: a key is open while a call
\* works under its claim, and what such a call left undone when it failed or the
\* service stopped is never done later (claim; dispatching is never retried).
InHand(k) == \E c \in Calls : At(c, "claimed") /\ calls[c].key = k
Entry(k) ==
    IF receipts[k] = None THEN "free" ELSE IF InHand(k) THEN "open" ELSE "closed"
Told ==
    {<<calls[c].key, calls[c].content>> :
        c \in {d \in Calls : At(d, "read") /\ calls[d].answer = "ok"}}
Ledger == INSTANCE SubmissionLedger WITH
    entry <- [k \in Keys |-> Entry(k)],
    content <- [k \in Keys |-> IF receipts[k] = None THEN None ELSE receipts[k].content],
    count <- effects,
    told <- Told
ImplementsLedger == Ledger!Spec

\* A repetition of a content gets a new key, and so may take effect again, only
\* when the user saw the earlier one succeed: a lost answer, a reload or an error
\* leaves the key (submissionFetch: the same intent through a lost response).
NoBlindRepeat ==
    \A k \in drawn :
        \/ \E i \in Contents : slot[i] = k
        \/ \E c \in Calls : /\ At(c, "read") /\ calls[c].page
                             /\ calls[c].key = k /\ calls[c].answer = "ok"
=============================================================================
