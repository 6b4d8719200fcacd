----------------------- MODULE SubmissionReceiptsProofs ---------------------
(***************************************************************************)
(* Proofs about SubmissionReceipts for any contents, keys and calls.  The  *)
(* claim of a key is held by one call at most, and only that call brings   *)
(* an effect and completes the receipt.                                    *)
(***************************************************************************)
EXTENDS SubmissionReceipts, TLAPS

\* A call works under a claim of its own.
ClaimsOwned ==
    \A c \in Calls : At(c, "claimed") \/ At(c, "answered") =>
        /\ receipts[calls[c].key] # None
        /\ receipts[calls[c].key].status = "dispatching"
        /\ receipts[calls[c].key].content = calls[c].content
        /\ \A d \in Calls : (At(d, "claimed") \/ At(d, "answered"))
                                /\ calls[d].key = calls[c].key => d = c

\* Effects are brought by the owner of the claim, once.
EffectsCounted ==
    /\ \A k \in Keys : effects[k] \in {0, 1} /\ (receipts[k] = None => effects[k] = 0)
    /\ \A c \in Calls : At(c, "claimed") => effects[calls[c].key] = 0

\* An answer ok, wherever it is, tells of an effect for its content.
AnswersTrue ==
    /\ \A k \in Keys : receipts[k] # None =>
           /\ receipts[k].answer = "ok" => effects[k] = 1
           /\ receipts[k].status = "received" => receipts[k].answer \in {"ok", "refused"}
    /\ \A c \in Calls : calls[c] # None /\ calls[c].answer = "ok" =>
           /\ effects[calls[c].key] = 1 /\ receipts[calls[c].key] # None
           /\ receipts[calls[c].key].content = calls[c].content
    /\ \A c \in Calls : /\ At(c, "answered") => calls[c].answer \in {"ok", "refused", "error"}
                        /\ At(c, "sent") \/ At(c, "claimed") => calls[c].answer = "none"

\* The page waits for one call, whose key is in the slot of its content.
SlotsHeld ==
    \A c \in Open : slot[calls[c].content] = calls[c].key /\ \A d \in Open : d = c

ReceiptsInv ==
    /\ TypeOK /\ ClaimsOwned /\ EffectsCounted /\ AnswersTrue
    /\ ~Overlap => SlotsHeld /\ NoBlindRepeat

-----------------------------------------------------------------------------
LEMMA InitHolds == Init => ReceiptsInv
<1> SUFFICES ASSUME Init PROVE ReceiptsInv
    OBVIOUS
<1>1. TypeOK
    BY DEF Init, TypeOK
<1>2. \A c \in Calls : calls[c] = None
    BY DEF Init
<1>3. ClaimsOwned /\ SlotsHeld
    BY <1>2 DEF ClaimsOwned, SlotsHeld, At, Open
<1>4. EffectsCounted
    BY <1>2 DEF Init, EffectsCounted, At
<1>5. AnswersTrue
    BY <1>2 DEF Init, AnswersTrue, At
<1>6. NoBlindRepeat
    BY DEF Init, NoBlindRepeat
<1> QED
    BY <1>1, <1>3, <1>4, <1>5, <1>6 DEF ReceiptsInv

\* A step of one call changes its place and its answer only.
Places == {"sent", "claimed", "answered", "reply", "read", "lost"}
Moved(c, place, answer) ==
    /\ calls' \in [Calls -> Call \cup {None}]
    /\ \A d \in Calls : d # c => calls'[d] = calls[d]
    /\ calls[c] # None /\ calls'[c] # None
    /\ calls'[c].at = place /\ calls'[c].answer = answer
    /\ calls'[c].key = calls[c].key /\ calls'[c].content = calls[c].content
    /\ calls'[c].page = calls[c].page

LEMMA MoveAt ==
    ASSUME TypeOK, NEW c \in Calls, calls[c] # None, NEW place \in Places,
           calls' = [calls EXCEPT ![c].at = place]
    PROVE  Moved(c, place, calls[c].answer)
<1>1. calls[c] \in Call
    BY DEF TypeOK
<1>2. DEFINE call == [calls[c] EXCEPT !.at = place]
<1>3. /\ call \in Call /\ call.at = place /\ call.answer = calls[c].answer
      /\ call.key = calls[c].key /\ call.content = calls[c].content
      /\ call.page = calls[c].page
    BY <1>1 DEF Call, Places
<1>4. call # None
    BY <1>3, NoneAssumption
<1>5. calls' = [calls EXCEPT ![c] = call]
    OBVIOUS
<1> HIDE DEF call
<1> QED
    BY <1>3, <1>4, <1>5 DEF Moved, TypeOK

LEMMA MoveAnswer ==
    ASSUME TypeOK, NEW c \in Calls, calls[c] # None, NEW place \in Places,
           NEW answer \in Answers,
           calls' = [calls EXCEPT ![c].at = place, ![c].answer = answer]
    PROVE  Moved(c, place, answer)
<1>1. calls[c] \in Call
    BY DEF TypeOK
<1>2. DEFINE call == [calls[c] EXCEPT !.at = place, !.answer = answer]
<1>3. /\ call \in Call /\ call.at = place /\ call.answer = answer
      /\ call.key = calls[c].key /\ call.content = calls[c].content
      /\ call.page = calls[c].page
    BY <1>1 DEF Call, Places
<1>4. call # None
    BY <1>3, NoneAssumption
<1>5. calls' = [calls EXCEPT ![c] = call]
    OBVIOUS
<1> HIDE DEF call
<1> QED
    BY <1>3, <1>4, <1>5, ZenonT(60) DEF Moved, TypeOK

\* What a call is made of.
LEMMA CallFields ==
    ASSUME TypeOK, NEW c \in Calls, calls[c] # None
    PROVE  /\ calls[c].content \in Contents /\ calls[c].key \in Keys
           /\ calls[c].page \in BOOLEAN /\ calls[c].at \in Places
           /\ calls[c].answer \in Answers \cup {"none"}
BY DEF TypeOK, Call, Places

\* A new call, or the marks of Reload, Stop and Turn.
Asked(c, i, k, page) ==
    /\ calls' \in [Calls -> Call \cup {None}]
    /\ \A d \in Calls : d # c => calls'[d] = calls[d]
    /\ calls[c] = None /\ calls'[c] # None
    /\ calls'[c].at = "sent" /\ calls'[c].answer = "none" /\ calls'[c].page = page
    /\ calls'[c].key = k /\ calls'[c].content = i

LEMMA NewCallAsked ==
    ASSUME TypeOK, NEW c \in Calls, NEW i \in Contents, NEW k \in Keys,
           NEW page \in BOOLEAN, NewCall(c, i, k, page)
    PROVE  Asked(c, i, k, page)
<1> DEFINE call == [content |-> i, key |-> k, page |-> page, at |-> "sent",
                    answer |-> "none"]
<1>1. /\ call \in Call /\ call.at = "sent" /\ call.answer = "none" /\ call.page = page
      /\ call.key = k /\ call.content = i
    BY DEF Call, TypeOK
<1>2. call # None
    BY <1>1, NoneAssumption
<1>3. calls[c] = None /\ calls' = [calls EXCEPT ![c] = call]
    BY DEF NewCall
<1> HIDE DEF call
<1> QED
    BY <1>1, <1>2, <1>3 DEF Asked, TypeOK

\* Every call is as it was, or was lost, or the page left it.
Marked ==
    /\ calls' \in [Calls -> Call \cup {None}]
    /\ \A d \in Calls :
           /\ (calls'[d] = None) <=> (calls[d] = None)
           /\ calls[d] # None =>
                  /\ calls'[d].at \in {calls[d].at, "lost"}
                  /\ calls[d].at = "read" => calls'[d] = calls[d]
                  /\ calls'[d].answer = calls[d].answer /\ calls'[d].key = calls[d].key
                  /\ calls'[d].content = calls[d].content
                  /\ calls'[d].page => calls[d].page
    /\ UNCHANGED <<slot, drawn, receipts, effects>>

LEMMA StopMarks == ASSUME TypeOK, Stop PROVE Marked /\ busy' = busy
<1>1. ASSUME NEW d \in Calls
      PROVE  /\ calls'[d] \in Call \cup {None}
             /\ (calls'[d] = None) <=> (calls[d] = None)
             /\ calls[d] # None =>
                  /\ calls'[d].at \in {calls[d].at, "lost"}
                  /\ calls[d].at = "read" => calls'[d] = calls[d]
                  /\ calls'[d].answer = calls[d].answer /\ calls'[d].key = calls[d].key
                  /\ calls'[d].content = calls[d].content
                  /\ calls'[d].page => calls[d].page
  <2>1. CASE calls'[d] = calls[d]
      BY <2>1 DEF TypeOK
  <2>2. CASE calls'[d] # calls[d]
    <3>1. calls[d] # None /\ calls[d].at # "read" /\ calls'[d] = [calls[d] EXCEPT !.at = "lost"]
        BY <2>2 DEF Stop, At
    <3>2. calls[d] \in Call
        BY <3>1 DEF TypeOK
    <3>3. calls'[d] \in Call
        BY <3>1, <3>2 DEF Call
    <3> QED
        BY <3>1, <3>2, <3>3, NoneAssumption DEF Call
  <2> QED
    BY <2>1, <2>2
<1>2. calls' \in [Calls -> Call \cup {None}]
    BY <1>1 DEF Stop
<1> QED
    BY <1>1, <1>2 DEF Marked, Stop

LEMMA ReloadMarks == ASSUME TypeOK, Reload PROVE Marked /\ busy' = busy /\ Open' = {}
<1>1. ASSUME NEW d \in Calls
      PROVE  /\ calls'[d] \in Call \cup {None}
             /\ (calls'[d] = None) <=> (calls[d] = None)
             /\ calls[d] # None =>
                  /\ calls'[d].at = calls[d].at
                  /\ calls[d].at = "read" => calls'[d] = calls[d]
                  /\ calls'[d].answer = calls[d].answer /\ calls'[d].key = calls[d].key
                  /\ calls'[d].content = calls[d].content
                  /\ calls'[d].page => calls[d].page
             /\ d \notin Open'
  <2>1. CASE calls'[d] = calls[d]
      BY <2>1 DEF TypeOK, Reload, Open
  <2>2. CASE calls'[d] # calls[d]
    <3>1. calls[d] # None /\ calls[d].at # "read" /\ calls'[d] = [calls[d] EXCEPT !.page = FALSE]
        BY <2>2 DEF Reload, Open
    <3>2. calls[d] \in Call
        BY <3>1 DEF TypeOK
    <3>3. calls'[d] \in Call
        BY <3>1, <3>2 DEF Call
    <3> QED
        BY <3>1, <3>2, <3>3, NoneAssumption DEF Call, Open
  <2> QED
    BY <2>1, <2>2
<1>2. calls' \in [Calls -> Call \cup {None}]
    BY <1>1 DEF Reload
<1>3. Open' = {}
    BY <1>1 DEF Open
<1> QED
    BY <1>1, <1>2, <1>3 DEF Marked, Reload, TypeOK

LEMMA TurnMarks ==
    ASSUME TypeOK, Turn
    PROVE  Marked /\ busy' \in BOOLEAN /\ Open' = Open
    BY DEF Turn, Marked, Open, TypeOK


-----------------------------------------------------------------------------
\* The effect of each step on the other variables.
SubmitDone(c, i) ==
    \E k \in Keys :
        /\ Asked(c, i, k, TRUE) /\ (Overlap \/ Open = {})
        /\ slot[i] = k \/ (slot[i] = None /\ k \notin drawn)
        /\ slot' = [slot EXCEPT ![i] = k] /\ drawn' = drawn \cup {k}
        /\ UNCHANGED <<receipts, effects, busy>>
ReuseDone(c, i) ==
    \E k \in Keys : Asked(c, i, k, FALSE) /\ UNCHANGED <<slot, drawn, receipts, effects, busy>>
ReadDone(c) ==
    /\ Moved(c, "read", calls[c].answer) /\ calls[c].at = "reply"
    /\ slot' = IF calls[c].page /\ calls[c].answer = "ok"
               THEN [slot EXCEPT ![calls[c].content] = None] ELSE slot
    /\ UNCHANGED <<drawn, receipts, effects, busy>>
LoseDone(c) ==
    /\ Moved(c, "lost", calls[c].answer) /\ calls[c].at \in {"sent", "reply"}
    /\ UNCHANGED <<slot, drawn, receipts, effects, busy>>
ClaimDone(c) ==
    LET k == calls[c].key IN
    /\ calls[c].at = "sent" /\ k \in Keys
    /\ \/ /\ receipts[k] # None
          /\ \E answer \in Answers :
                 /\ Moved(c, "reply", answer)
                 /\ answer = "ok" => /\ receipts[k].content = calls[c].content
                                     /\ receipts[k].answer = "ok"
          /\ UNCHANGED receipts
       \/ /\ receipts[k] = None
          /\ Moved(c, "claimed", calls[c].answer)
          /\ \E receipt \in Receipt :
                 /\ receipt # None /\ receipt.content = calls[c].content
                 /\ receipt.status = "dispatching" /\ receipt.answer = "none"
                 /\ receipts' = [receipts EXCEPT ![k] = receipt]
    /\ UNCHANGED <<slot, drawn, effects, busy>>
ExecuteDone(c) ==
    /\ calls[c].at = "claimed" /\ calls[c].key \in Keys
    /\ \E answer \in {"ok", "refused", "error"}, effect \in {0, 1} :
           /\ answer = "ok" => effect = 1
           /\ Moved(c, "answered", answer)
           /\ effects' = [effects EXCEPT ![calls[c].key] = @ + effect]
    /\ UNCHANGED <<slot, drawn, receipts, busy>>
CompleteDone(c) ==
    LET k == calls[c].key IN
    /\ calls[c].at = "answered" /\ k \in Keys /\ Moved(c, "reply", calls[c].answer)
    /\ \/ receipts' = receipts
       \/ \E receipt \in Receipt :
              /\ receipt # None /\ receipt.content = calls[c].content
              /\ receipt.status = "received" /\ receipt.answer = calls[c].answer
              /\ receipts' = [receipts EXCEPT ![k] = receipt]
    /\ UNCHANGED <<slot, drawn, effects, busy>>

LEMMA SubmitDoes ==
    ASSUME TypeOK, NEW c \in Calls, NEW i \in Contents, Submit(c, i)
    PROVE  SubmitDone(c, i)
<1>1. PICK k \in IF slot[i] # None THEN {slot[i]} ELSE Keys \ drawn :
          NewCall(c, i, k, TRUE) /\ slot' = [slot EXCEPT ![i] = k] /\ drawn' = drawn \cup {k}
    BY DEF Submit
<1>2. k \in Keys
    BY <1>1 DEF TypeOK
<1>3. Asked(c, i, k, TRUE)
    BY <1>1, <1>2, NewCallAsked
<1> QED
    BY <1>1, <1>2, <1>3 DEF Submit, SubmitDone

LEMMA ReuseDoes ==
    ASSUME TypeOK, NEW c \in Calls, NEW i \in Contents, Reuse(c, i)
    PROVE  ReuseDone(c, i)
<1>1. PICK k \in drawn : NewCall(c, i, k, FALSE)
    BY DEF Reuse
<1>2. k \in Keys
    BY DEF TypeOK
<1>3. Asked(c, i, k, FALSE)
    BY <1>1, <1>2, NewCallAsked
<1> QED
    BY <1>2, <1>3 DEF Reuse, ReuseDone

LEMMA ReadDoes == ASSUME TypeOK, NEW c \in Calls, Read(c) PROVE ReadDone(c)
<1>1. Moved(c, "read", calls[c].answer)
    BY MoveAt DEF Read, At, Places
<1> QED
    BY <1>1 DEF Read, ReadDone, At, Learned

LEMMA LoseDoes == ASSUME TypeOK, NEW c \in Calls, Lose(c) PROVE LoseDone(c)
<1>1. Moved(c, "lost", calls[c].answer)
    BY MoveAt DEF Lose, At, Places
<1> QED
    BY <1>1 DEF Lose, LoseDone, At

LEMMA ClaimDoes ==
    ASSUME TypeOK, AnswersTrue, NEW c \in Calls, Claim(c) PROVE ClaimDone(c)
<1> DEFINE k == calls[c].key
<1>1. calls[c] # None /\ calls[c].at = "sent" /\ k \in Keys /\ calls[c].content \in Contents
    BY CallFields DEF Claim, At
<1>2. CASE receipts[k] # None
  <2>1. receipts[k] \in Receipt
      BY <1>1, <1>2 DEF TypeOK
  <2>2. /\ receipts[k].status \in {"dispatching", "received"}
        /\ receipts[k].status = "received" => receipts[k].answer \in {"ok", "refused"}
      BY <1>1, <1>2, <2>1 DEF Receipt, AnswersTrue
  <2>3. PICK answer \in Answers :
            /\ Replied(c, answer) /\ UNCHANGED receipts
            /\ answer = "ok" => /\ receipts[k].content = calls[c].content
                                /\ receipts[k].answer = "ok"
    <3>1. CASE ~SameFingerprint(receipts[k], calls[c])
        BY <1>2, <3>1 DEF Claim, Claimed, Answers
    <3>2. CASE SameFingerprint(receipts[k], calls[c]) /\ receipts[k].status = "received"
        BY <1>2, <2>2, <3>2 DEF Claim, Claimed, Answers, SameFingerprint
    <3>3. CASE SameFingerprint(receipts[k], calls[c]) /\ receipts[k].status # "received"
        BY <1>2, <3>3 DEF Claim, Claimed, Answers
    <3> QED
        BY <3>1, <3>2, <3>3
  <2>4. Moved(c, "reply", answer)
      BY <1>1, <2>3, MoveAnswer DEF Replied, Places
  <2> QED
      BY <1>1, <1>2, <2>3, <2>4 DEF Claim, ClaimDone
<1>3. CASE receipts[k] = None
  <2>1. Moved(c, "claimed", calls[c].answer)
      BY <1>1, <1>3, MoveAt DEF Claim, Claimed, Places
  <2>2. receipts' = [receipts EXCEPT ![k] = [content |-> calls[c].content,
                                             status |-> "dispatching", answer |-> "none"]]
      BY <1>3 DEF Claim, Claimed
  <2>3. \E receipt \in Receipt :
            /\ receipt # None /\ receipt.content = calls[c].content
            /\ receipt.status = "dispatching" /\ receipt.answer = "none"
            /\ receipts' = [receipts EXCEPT ![k] = receipt]
    <3> DEFINE new == [content |-> calls[c].content, status |-> "dispatching",
                       answer |-> "none"]
    <3>1. /\ new \in Receipt /\ new # None /\ new.content = calls[c].content
          /\ new.status = "dispatching" /\ new.answer = "none"
        BY <1>1, NoneAssumption DEF Receipt
    <3>2. receipts' = [receipts EXCEPT ![k] = new]
        BY <2>2
    <3> QED
        BY <3>1, <3>2
  <2> QED
      BY <1>1, <1>3, <2>1, <2>3 DEF Claim, ClaimDone
<1> QED
    BY <1>2, <1>3

LEMMA ExecuteDoes == ASSUME TypeOK, NEW c \in Calls, Execute(c) PROVE ExecuteDone(c)
<1>1. calls[c] # None /\ calls[c].at = "claimed" /\ calls[c].key \in Keys
    BY CallFields DEF Execute, At
<1>2. PICK answer \in {"ok", "refused", "error"}, effect \in {0, 1} :
          /\ answer = "ok" => effect = 1
          /\ calls' = [calls EXCEPT ![c].at = "answered", ![c].answer = answer]
          /\ effects' = [effects EXCEPT ![calls[c].key] = @ + effect]
    BY DEF Execute
<1>3. Moved(c, "answered", answer)
    BY <1>1, <1>2, MoveAnswer DEF Places, Answers
<1> QED
    BY <1>1, <1>2, <1>3 DEF Execute, ExecuteDone

LEMMA CompleteDoes ==
    ASSUME TypeOK, AnswersTrue, NEW c \in Calls, Complete(c) PROVE CompleteDone(c)
<1>1. /\ calls[c] # None /\ calls[c].at = "answered" /\ calls[c].key \in Keys
      /\ calls[c].content \in Contents
    BY CallFields DEF Complete, At
<1>2. Moved(c, "reply", calls[c].answer)
    BY <1>1, MoveAt DEF Complete, Places
<1>3. CASE Kept(calls[c].answer)
  <2>1. calls[c].answer \in {"ok", "refused"}
      BY <1>1, <1>3 DEF AnswersTrue, At, Kept
  <2>2. receipts' = [receipts EXCEPT ![calls[c].key] =
                        [content |-> calls[c].content, status |-> "received",
                         answer |-> calls[c].answer]]
      BY <1>3 DEF Complete
  <2>3. \E receipt \in Receipt :
            /\ receipt # None /\ receipt.content = calls[c].content
            /\ receipt.status = "received" /\ receipt.answer = calls[c].answer
            /\ receipts' = [receipts EXCEPT ![calls[c].key] = receipt]
    <3> DEFINE new == [content |-> calls[c].content, status |-> "received",
                       answer |-> calls[c].answer]
    <3>1. /\ new \in Receipt /\ new # None /\ new.content = calls[c].content
          /\ new.status = "received" /\ new.answer = calls[c].answer
        BY <1>1, <2>1, NoneAssumption DEF Receipt
    <3>2. receipts' = [receipts EXCEPT ![calls[c].key] = new]
        BY <2>2
    <3> QED
        BY <3>1, <3>2
  <2> QED
      BY <1>1, <1>2, <2>3 DEF Complete, CompleteDone
<1>4. CASE ~Kept(calls[c].answer)
    BY <1>1, <1>2, <1>4 DEF Complete, CompleteDone
<1> QED
    BY <1>3, <1>4

\* Types.
LEMMA TypesKept ==
    ASSUME TypeOK, ClaimsOwned, EffectsCounted, AnswersTrue, [Next]_vars
    PROVE  TypeOK'
<1> USE DEF TypeOK
<1>1. ASSUME NEW c \in Calls, NEW i \in Contents, Submit(c, i) PROVE TypeOK'
  <2>1. SubmitDone(c, i)
      BY <1>1, SubmitDoes
  <2> QED
      BY <2>1, CallFields, ReceiptsAssumption DEF SubmitDone, Asked
<1>2. ASSUME NEW c \in Calls, NEW i \in Contents, Reuse(c, i) PROVE TypeOK'
  <2>1. ReuseDone(c, i)
      BY <1>2, ReuseDoes
  <2> QED
      BY <2>1, CallFields, ReceiptsAssumption DEF ReuseDone, Asked
<1>3. ASSUME NEW c \in Calls, Read(c) PROVE TypeOK'
  <2>1. ReadDone(c)
      BY <1>3, ReadDoes
  <2> QED
      BY <2>1, CallFields, ReceiptsAssumption DEF ReadDone, Moved
<1>4. ASSUME NEW c \in Calls, Lose(c) PROVE TypeOK'
  <2>1. LoseDone(c)
      BY <1>4, LoseDoes
  <2> QED
      BY <2>1, CallFields, ReceiptsAssumption DEF LoseDone, Moved
<1>5. ASSUME NEW c \in Calls, Claim(c) PROVE TypeOK'
  <2>1. ClaimDone(c)
      BY <1>5, ClaimDoes
  <2> QED
      BY <2>1, CallFields, ReceiptsAssumption DEF ClaimDone, Moved
<1>6. ASSUME NEW c \in Calls, Execute(c) PROVE TypeOK'
  <2>1. ExecuteDone(c)
      BY <1>6, ExecuteDoes
  <2> QED
      BY <2>1, CallFields, ReceiptsAssumption DEF ExecuteDone, Moved
<1>7. ASSUME NEW c \in Calls, Complete(c) PROVE TypeOK'
  <2>1. CompleteDone(c)
      BY <1>7, CompleteDoes
  <2> QED
      BY <2>1, CallFields, ReceiptsAssumption DEF CompleteDone, Moved
<1>8. ASSUME Reload PROVE TypeOK'
    BY <1>8, ReloadMarks, CallFields DEF Marked
<1>9. ASSUME Stop PROVE TypeOK'
    BY <1>9, StopMarks, CallFields DEF Marked
<1>10. ASSUME Turn PROVE TypeOK'
    BY <1>10, TurnMarks, CallFields DEF Marked
<1>11. ASSUME UNCHANGED vars PROVE TypeOK'
    BY <1>11 DEF vars
<1> QED
    BY <1>1, <1>2, <1>3, <1>4, <1>5, <1>6, <1>7, <1>8, <1>9, <1>10, <1>11 DEF Next,
       Serve

\* One owner per claim.
LEMMA ClaimsKept ==
    ASSUME TypeOK, ClaimsOwned, EffectsCounted, AnswersTrue, [Next]_vars
    PROVE  ClaimsOwned'
<1> USE DEF TypeOK, ClaimsOwned, AnswersTrue, At
<1>1. ASSUME NEW c \in Calls, NEW i \in Contents, Submit(c, i) PROVE ClaimsOwned'
  <2>1. SubmitDone(c, i)
      BY <1>1, SubmitDoes
  <2> QED
      BY <2>1, CallFields, ReceiptsAssumption DEF SubmitDone, Asked
<1>2. ASSUME NEW c \in Calls, NEW i \in Contents, Reuse(c, i) PROVE ClaimsOwned'
  <2>1. ReuseDone(c, i)
      BY <1>2, ReuseDoes
  <2> QED
      BY <2>1, CallFields, ReceiptsAssumption DEF ReuseDone, Asked
<1>3. ASSUME NEW c \in Calls, Read(c) PROVE ClaimsOwned'
  <2>1. ReadDone(c)
      BY <1>3, ReadDoes
  <2> QED
      BY <2>1, CallFields, ReceiptsAssumption DEF ReadDone, Moved
<1>4. ASSUME NEW c \in Calls, Lose(c) PROVE ClaimsOwned'
  <2>1. LoseDone(c)
      BY <1>4, LoseDoes
  <2> QED
      BY <2>1, CallFields, ReceiptsAssumption DEF LoseDone, Moved
<1>5. ASSUME NEW c \in Calls, Claim(c) PROVE ClaimsOwned'
  <2>1. ClaimDone(c)
      BY <1>5, ClaimDoes
  <2> QED
      BY <2>1, CallFields, ReceiptsAssumption DEF ClaimDone, Moved
<1>6. ASSUME NEW c \in Calls, Execute(c) PROVE ClaimsOwned'
  <2>1. ExecuteDone(c)
      BY <1>6, ExecuteDoes
  <2> QED
      BY <2>1, CallFields, ReceiptsAssumption DEF ExecuteDone, Moved
<1>7. ASSUME NEW c \in Calls, Complete(c) PROVE ClaimsOwned'
  <2>1. CompleteDone(c)
      BY <1>7, CompleteDoes
  <2> QED
      BY <2>1, CallFields, ReceiptsAssumption DEF CompleteDone, Moved
<1>8. ASSUME Reload PROVE ClaimsOwned'
    BY <1>8, ReloadMarks, CallFields DEF Marked
<1>9. ASSUME Stop PROVE ClaimsOwned'
    BY <1>9, StopMarks, CallFields DEF Marked
<1>10. ASSUME Turn PROVE ClaimsOwned'
    BY <1>10, TurnMarks, CallFields DEF Marked
<1>11. ASSUME UNCHANGED vars PROVE ClaimsOwned'
    BY <1>11 DEF vars
<1> QED
    BY <1>1, <1>2, <1>3, <1>4, <1>5, <1>6, <1>7, <1>8, <1>9, <1>10, <1>11 DEF Next,
       Serve

\* One effect per claim.
LEMMA EffectsKept ==
    ASSUME TypeOK, ClaimsOwned, EffectsCounted, AnswersTrue, [Next]_vars
    PROVE  EffectsCounted'
<1> USE DEF TypeOK, ClaimsOwned, EffectsCounted, At
<1>1. ASSUME NEW c \in Calls, NEW i \in Contents, Submit(c, i) PROVE EffectsCounted'
  <2>1. SubmitDone(c, i)
      BY <1>1, SubmitDoes
  <2> QED
      BY <2>1, CallFields, ReceiptsAssumption DEF SubmitDone, Asked
<1>2. ASSUME NEW c \in Calls, NEW i \in Contents, Reuse(c, i) PROVE EffectsCounted'
  <2>1. ReuseDone(c, i)
      BY <1>2, ReuseDoes
  <2> QED
      BY <2>1, CallFields, ReceiptsAssumption DEF ReuseDone, Asked
<1>3. ASSUME NEW c \in Calls, Read(c) PROVE EffectsCounted'
  <2>1. ReadDone(c)
      BY <1>3, ReadDoes
  <2> QED
      BY <2>1, CallFields, ReceiptsAssumption DEF ReadDone, Moved
<1>4. ASSUME NEW c \in Calls, Lose(c) PROVE EffectsCounted'
  <2>1. LoseDone(c)
      BY <1>4, LoseDoes
  <2> QED
      BY <2>1, CallFields, ReceiptsAssumption DEF LoseDone, Moved
<1>5. ASSUME NEW c \in Calls, Claim(c) PROVE EffectsCounted'
  <2>1. ClaimDone(c)
      BY <1>5, ClaimDoes
  <2> QED
      BY <2>1, CallFields, ReceiptsAssumption DEF ClaimDone, Moved
<1>6. ASSUME NEW c \in Calls, Execute(c) PROVE EffectsCounted'
  <2>1. ExecuteDone(c)
      BY <1>6, ExecuteDoes
  <2> QED
      BY <2>1, CallFields, ReceiptsAssumption DEF ExecuteDone, Moved
<1>7. ASSUME NEW c \in Calls, Complete(c) PROVE EffectsCounted'
  <2>1. CompleteDone(c)
      BY <1>7, CompleteDoes
  <2> QED
      BY <2>1, CallFields, ReceiptsAssumption DEF CompleteDone, Moved
<1>8. ASSUME Reload PROVE EffectsCounted'
    BY <1>8, ReloadMarks, CallFields DEF Marked
<1>9. ASSUME Stop PROVE EffectsCounted'
    BY <1>9, StopMarks, CallFields DEF Marked
<1>10. ASSUME Turn PROVE EffectsCounted'
    BY <1>10, TurnMarks, CallFields DEF Marked
<1>11. ASSUME UNCHANGED vars PROVE EffectsCounted'
    BY <1>11 DEF vars
<1> QED
    BY <1>1, <1>2, <1>3, <1>4, <1>5, <1>6, <1>7, <1>8, <1>9, <1>10, <1>11 DEF Next,
       Serve

\* Answers tell the truth.
LEMMA AnswersKept ==
    ASSUME TypeOK, ClaimsOwned, EffectsCounted, AnswersTrue, [Next]_vars
    PROVE  AnswersTrue'
<1> USE DEF TypeOK, ClaimsOwned, EffectsCounted, AnswersTrue, At
<1>1. ASSUME NEW c \in Calls, NEW i \in Contents, Submit(c, i) PROVE AnswersTrue'
  <2>1. SubmitDone(c, i)
      BY <1>1, SubmitDoes
  <2> QED
      BY <2>1, CallFields, ReceiptsAssumption DEF SubmitDone, Asked
<1>2. ASSUME NEW c \in Calls, NEW i \in Contents, Reuse(c, i) PROVE AnswersTrue'
  <2>1. ReuseDone(c, i)
      BY <1>2, ReuseDoes
  <2> QED
      BY <2>1, CallFields, ReceiptsAssumption DEF ReuseDone, Asked
<1>3. ASSUME NEW c \in Calls, Read(c) PROVE AnswersTrue'
  <2>1. ReadDone(c)
      BY <1>3, ReadDoes
  <2> QED
      BY <2>1, CallFields, ReceiptsAssumption DEF ReadDone, Moved
<1>4. ASSUME NEW c \in Calls, Lose(c) PROVE AnswersTrue'
  <2>1. LoseDone(c)
      BY <1>4, LoseDoes
  <2> QED
      BY <2>1, CallFields, ReceiptsAssumption DEF LoseDone, Moved
<1>5. ASSUME NEW c \in Calls, Claim(c) PROVE AnswersTrue'
  <2>1. ClaimDone(c)
      BY <1>5, ClaimDoes
  <2> QED
      BY <2>1, CallFields, ReceiptsAssumption DEF ClaimDone, Moved
<1>6. ASSUME NEW c \in Calls, Execute(c) PROVE AnswersTrue'
  <2>1. ExecuteDone(c)
      BY <1>6, ExecuteDoes
  <2> QED
      BY <2>1, CallFields, ReceiptsAssumption DEF ExecuteDone, Moved
<1>7. ASSUME NEW c \in Calls, Complete(c) PROVE AnswersTrue'
  <2>1. CompleteDone(c)
      BY <1>7, CompleteDoes
  <2> QED
      BY <2>1, CallFields, ReceiptsAssumption DEF CompleteDone, Moved, Receipt
<1>8. ASSUME Reload PROVE AnswersTrue'
    BY <1>8, ReloadMarks, CallFields DEF Marked
<1>9. ASSUME Stop PROVE AnswersTrue'
    BY <1>9, StopMarks, CallFields DEF Marked
<1>10. ASSUME Turn PROVE AnswersTrue'
    BY <1>10, TurnMarks, CallFields DEF Marked
<1>11. ASSUME UNCHANGED vars PROVE AnswersTrue'
    BY <1>11 DEF vars
<1> QED
    BY <1>1, <1>2, <1>3, <1>4, <1>5, <1>6, <1>7, <1>8, <1>9, <1>10, <1>11 DEF Next,
       Serve

\* The slot belongs to the call the page waits for.
LEMMA SlotsKept ==
    ASSUME TypeOK, ClaimsOwned, EffectsCounted, AnswersTrue, SlotsHeld, ~Overlap, [Next]_vars
    PROVE  SlotsHeld'
<1> USE DEF TypeOK, SlotsHeld, Open
<1>1. ASSUME NEW c \in Calls, NEW i \in Contents, Submit(c, i) PROVE SlotsHeld'
  <2>1. SubmitDone(c, i)
      BY <1>1, SubmitDoes
  <2> QED
      BY <2>1, CallFields, ReceiptsAssumption DEF SubmitDone, Asked
<1>2. ASSUME NEW c \in Calls, NEW i \in Contents, Reuse(c, i) PROVE SlotsHeld'
  <2>1. ReuseDone(c, i)
      BY <1>2, ReuseDoes
  <2> QED
      BY <2>1, CallFields, ReceiptsAssumption DEF ReuseDone, Asked
<1>3. ASSUME NEW c \in Calls, Read(c) PROVE SlotsHeld'
  <2>1. ReadDone(c)
      BY <1>3, ReadDoes
  <2> QED
      BY <2>1, CallFields, ReceiptsAssumption DEF ReadDone, Moved
<1>4. ASSUME NEW c \in Calls, Lose(c) PROVE SlotsHeld'
  <2>1. LoseDone(c)
      BY <1>4, LoseDoes
  <2> QED
      BY <2>1, CallFields, ReceiptsAssumption DEF LoseDone, Moved
<1>5. ASSUME NEW c \in Calls, Claim(c) PROVE SlotsHeld'
  <2>1. ClaimDone(c)
      BY <1>5, ClaimDoes
  <2> QED
      BY <2>1, CallFields, ReceiptsAssumption DEF ClaimDone, Moved
<1>6. ASSUME NEW c \in Calls, Execute(c) PROVE SlotsHeld'
  <2>1. ExecuteDone(c)
      BY <1>6, ExecuteDoes
  <2> QED
      BY <2>1, CallFields, ReceiptsAssumption DEF ExecuteDone, Moved
<1>7. ASSUME NEW c \in Calls, Complete(c) PROVE SlotsHeld'
  <2>1. CompleteDone(c)
      BY <1>7, CompleteDoes
  <2> QED
      BY <2>1, CallFields, ReceiptsAssumption DEF CompleteDone, Moved
<1>8. ASSUME Reload PROVE SlotsHeld'
    BY <1>8, ReloadMarks, CallFields DEF Marked
<1>9. ASSUME Stop PROVE SlotsHeld'
    BY <1>9, StopMarks, CallFields DEF Marked
<1>10. ASSUME Turn PROVE SlotsHeld'
    BY <1>10, TurnMarks, CallFields DEF Marked
<1>11. ASSUME UNCHANGED vars PROVE SlotsHeld'
    BY <1>11 DEF vars
<1> QED
    BY <1>1, <1>2, <1>3, <1>4, <1>5, <1>6, <1>7, <1>8, <1>9, <1>10, <1>11 DEF Next,
       Serve

\* A key is in a slot until its success was read.
LEMMA RepeatsKept ==
    ASSUME TypeOK, ClaimsOwned, EffectsCounted, AnswersTrue, SlotsHeld, NoBlindRepeat, ~Overlap, [Next]_vars
    PROVE  NoBlindRepeat'
<1> USE DEF TypeOK, SlotsHeld, NoBlindRepeat, Open, At
<1>1. ASSUME NEW c \in Calls, NEW i \in Contents, Submit(c, i) PROVE NoBlindRepeat'
  <2>1. SubmitDone(c, i)
      BY <1>1, SubmitDoes
  <2> QED
      BY <2>1, CallFields, ReceiptsAssumption DEF SubmitDone, Asked
<1>2. ASSUME NEW c \in Calls, NEW i \in Contents, Reuse(c, i) PROVE NoBlindRepeat'
  <2>1. ReuseDone(c, i)
      BY <1>2, ReuseDoes
  <2> QED
      BY <2>1, CallFields, ReceiptsAssumption DEF ReuseDone, Asked
<1>3. ASSUME NEW c \in Calls, Read(c) PROVE NoBlindRepeat'
  <2>1. ReadDone(c)
      BY <1>3, ReadDoes
  <2> QED
      BY <2>1, CallFields, ReceiptsAssumption DEF ReadDone, Moved
<1>4. ASSUME NEW c \in Calls, Lose(c) PROVE NoBlindRepeat'
  <2>1. LoseDone(c)
      BY <1>4, LoseDoes
  <2> QED
      BY <2>1, CallFields, ReceiptsAssumption DEF LoseDone, Moved
<1>5. ASSUME NEW c \in Calls, Claim(c) PROVE NoBlindRepeat'
  <2>1. ClaimDone(c)
      BY <1>5, ClaimDoes
  <2> QED
      BY <2>1, CallFields, ReceiptsAssumption DEF ClaimDone, Moved
<1>6. ASSUME NEW c \in Calls, Execute(c) PROVE NoBlindRepeat'
  <2>1. ExecuteDone(c)
      BY <1>6, ExecuteDoes
  <2> QED
      BY <2>1, CallFields, ReceiptsAssumption DEF ExecuteDone, Moved
<1>7. ASSUME NEW c \in Calls, Complete(c) PROVE NoBlindRepeat'
  <2>1. CompleteDone(c)
      BY <1>7, CompleteDoes
  <2> QED
      BY <2>1, CallFields, ReceiptsAssumption DEF CompleteDone, Moved
<1>8. ASSUME Reload PROVE NoBlindRepeat'
    BY <1>8, ReloadMarks, CallFields DEF Marked
<1>9. ASSUME Stop PROVE NoBlindRepeat'
    BY <1>9, StopMarks, CallFields DEF Marked
<1>10. ASSUME Turn PROVE NoBlindRepeat'
    BY <1>10, TurnMarks, CallFields DEF Marked
<1>11. ASSUME UNCHANGED vars PROVE NoBlindRepeat'
    BY <1>11 DEF vars
<1> QED
    BY <1>1, <1>2, <1>3, <1>4, <1>5, <1>6, <1>7, <1>8, <1>9, <1>10, <1>11 DEF Next,
       Serve

THEOREM ReceiptsInvariant == Spec => []ReceiptsInv
<1>1. ReceiptsInv /\ [Next]_vars => ReceiptsInv'
    BY TypesKept, ClaimsKept, EffectsKept, AnswersKept, SlotsKept, RepeatsKept DEF ReceiptsInv
<1> QED
    BY InitHolds, <1>1, PTL DEF Spec

\* Types, for every instance.
THEOREM ReceiptTypes == Spec => []TypeOK
<1>1. ReceiptsInv => TypeOK
    BY DEF ReceiptsInv
<1> QED
    BY ReceiptsInvariant, <1>1, PTL

\* However often and by whomever a submission is repeated, and wherever the service
\* stops, it takes effect at most once (claim).
THEOREM SubmittedOnce == Spec => []AtMostOnce
<1>1. ReceiptsInv => AtMostOnce
    BY DEF ReceiptsInv, EffectsCounted, AtMostOnce
<1> QED
    BY ReceiptsInvariant, <1>1, PTL

\* An answer ok, first or replayed, is the truth about the content it answers
\* (the fingerprint in __call__).
THEOREM OkMeansDone == Spec => []OkIsTrue
<1>1. ReceiptsInv => OkIsTrue
    BY DEF ReceiptsInv, AnswersTrue, OkIsTrue, At
<1> QED
    BY ReceiptsInvariant, <1>1, PTL

\* With one open call at a time the page repeats no content under a new key before
\* it read that the earlier one succeeded (submissionFetch).
THEOREM RepeatsKeepTheirKey == ~Overlap => (Spec => []NoBlindRepeat)
<1>1. ~Overlap /\ ReceiptsInv => NoBlindRepeat
    BY DEF ReceiptsInv
<1>2. ASSUME ~Overlap PROVE Spec => []NoBlindRepeat
  <2>1. ReceiptsInv => NoBlindRepeat
      BY <1>1, <1>2
  <2> QED
      BY ReceiptsInvariant, <2>1, PTL
<1> QED
    BY <1>2

-----------------------------------------------------------------------------
(* SubmissionReceipts implements SubmissionLedger: a claim takes a key, the *)
(* endpoint settles it, and every other step leaves the ledger alone or     *)
(* closes keys.                                                             *)

LContent == [k \in Keys |-> IF receipts[k] = None THEN None ELSE receipts[k].content]
LEntry == [k \in Keys |-> Entry(k)]

\* The state of the ledger, key by key.
LEMMA LedgerKey ==
    ASSUME NEW k \in Keys
    PROVE  /\ LEntry[k] = Entry(k)
           /\ LEntry'[k] = IF receipts'[k] = None THEN "free"
                           ELSE IF InHand(k)' THEN "open" ELSE "closed"
           /\ receipts'[k] = receipts[k] /\ (InHand(k)' <=> InHand(k)) => LEntry'[k] = LEntry[k]
           /\ receipts'[k] = receipts[k] => LContent'[k] = LContent[k]
BY DEF LEntry, Entry, LContent

\* While no claim, effect or read answer comes about, keys can only close.
LEMMA OnlyCloses ==
    ASSUME receipts' = receipts, effects' = effects, Told' = Told,
           \A k \in Keys : InHand(k)' => InHand(k)
    PROVE  Ledger!Next
<1> DEFINE S == {k \in Keys : receipts[k] # None /\ InHand(k) /\ ~InHand(k)'}
<1>1. \A k \in S : LEntry[k] = "open"
  BY DEF LEntry, Entry
<1>2. ASSUME NEW k \in Keys
      PROVE  LEntry'[k] = IF k \in S THEN "closed" ELSE LEntry[k]
  <2>1. CASE k \in S
    BY <1>2, <2>1, LedgerKey
  <2>2. CASE k \notin S
    <3>1. receipts[k] = None \/ (InHand(k)' <=> InHand(k))
      BY <1>2, <2>2
    <3> QED BY <1>2, <2>2, <3>1, LedgerKey DEF Entry
  <2> QED BY <2>1, <2>2
<1>3. LEntry' = [k \in Keys |-> IF k \in S THEN "closed" ELSE LEntry[k]]
  BY <1>2 DEF LEntry
<1>4. LContent' = LContent
  BY DEF LContent
<1>5. S \in SUBSET Keys
  OBVIOUS
<1> HIDE DEF S
<1>6. Ledger!Close(S)
  BY <1>1, <1>3, <1>4 DEF Ledger!Close, LEntry, LContent
<1> QED BY <1>5, <1>6 DEF Ledger!Next

\* What a call that moves makes of the keys in hand and of the answers read.
LEMMA MovedHands ==
    ASSUME TypeOK, NEW c \in Calls, NEW place \in Places, NEW answer,
           Moved(c, place, answer), calls[c].at # "read"
    PROVE  /\ \A k \in Keys : k # calls[c].key => (InHand(k)' <=> InHand(k))
           /\ place # "claimed" => \A k \in Keys : InHand(k)' => InHand(k)
           /\ place = "claimed" => \A k \in Keys : k = calls[c].key => InHand(k)'
           /\ ~(place = "read" /\ answer = "ok") => Told' = Told
           /\ place = "read" /\ answer = "ok"
                => Told' = Told \cup {<<calls[c].key, calls[c].content>>}
<1>1. \A d \in Calls : /\ calls'[d] # None => calls[d] # None
                       /\ calls'[d] # None => /\ calls'[d].key = calls[d].key
                                              /\ calls'[d].content = calls[d].content
  BY DEF Moved
<1>2. \A k \in Keys : k # calls[c].key => (InHand(k)' <=> InHand(k))
  <2> SUFFICES ASSUME NEW k \in Keys, k # calls[c].key PROVE InHand(k)' <=> InHand(k)
    OBVIOUS
  <2>1. \A d \in Calls : calls'[d] # calls[d] => calls[d].key # k /\ calls'[d].key # k
    BY DEF Moved
  <2> QED BY <2>1 DEF InHand, At
<1>3. place # "claimed" => \A k \in Keys : InHand(k)' => InHand(k)
  <2> SUFFICES ASSUME place # "claimed", NEW k \in Keys,
                      NEW d \in Calls, calls'[d] # None, calls'[d].at = "claimed",
                      calls'[d].key = k
               PROVE  InHand(k)
    BY DEF InHand, At
  <2>1. d # c
    BY DEF Moved
  <2>2. calls'[d] = calls[d]
    BY <2>1 DEF Moved
  <2> QED BY <2>2 DEF InHand, At
<1>4. place = "claimed" => \A k \in Keys : k = calls[c].key => InHand(k)'
  <2> SUFFICES ASSUME place = "claimed", NEW k \in Keys, k = calls[c].key
               PROVE  \E d \in Calls : /\ calls'[d] # None /\ calls'[d].at = "claimed"
                                       /\ calls'[d].key = k
    BY DEF InHand, At
  <2> QED BY DEF Moved
<1>5. ~(place = "read" /\ answer = "ok") => Told' = Told
  <2> SUFFICES ASSUME ~(place = "read" /\ answer = "ok") PROVE Told' = Told
    OBVIOUS
  <2>1. \A d \in Calls : (At(d, "read") /\ calls[d].answer = "ok")'
                           <=> At(d, "read") /\ calls[d].answer = "ok"
    BY DEF Moved, At
  <2>2. \A d \in Calls : At(d, "read") => calls'[d] = calls[d]
    BY DEF Moved, At
  <2> QED BY <2>1, <2>2 DEF Told
<1>6. place = "read" /\ answer = "ok"
        => Told' = Told \cup {<<calls[c].key, calls[c].content>>}
  <2> SUFFICES ASSUME place = "read", answer = "ok"
               PROVE  Told' = Told \cup {<<calls[c].key, calls[c].content>>}
    OBVIOUS
  <2>1. \A d \in Calls : (At(d, "read") /\ calls[d].answer = "ok")'
                           <=> d = c \/ (At(d, "read") /\ calls[d].answer = "ok")
    BY DEF Moved, At
  <2>2. \A d \in Calls : d = c \/ At(d, "read") =>
             <<calls'[d].key, calls'[d].content>> = <<calls[d].key, calls[d].content>>
    BY <1>1 DEF Moved, At
  <2> QED BY <2>1, <2>2 DEF Told
<1> QED BY <1>2, <1>3, <1>4, <1>5, <1>6

\* A step of another client's call, or of no call, leaves these as they are.
LEMMA NewHands ==
    ASSUME TypeOK, NEW c \in Calls, NEW i, NEW k, NEW page, Asked(c, i, k, page)
    PROVE  (\A l \in Keys : InHand(l)' => InHand(l)) /\ Told' = Told
<1>1. \A l \in Keys : InHand(l)' => InHand(l)
  <2> SUFFICES ASSUME NEW l \in Keys, NEW d \in Calls,
                      calls'[d] # None, calls'[d].at = "claimed", calls'[d].key = l
               PROVE  InHand(l)
    BY DEF InHand, At
  <2>1. calls'[d] = calls[d]
    BY DEF Asked
  <2> QED BY <2>1 DEF InHand, At
<1>2. \A d \in Calls : (At(d, "read") /\ calls[d].answer = "ok")'
                         <=> At(d, "read") /\ calls[d].answer = "ok"
  BY DEF Asked, At
<1>3. \A d \in Calls : At(d, "read") => calls'[d] = calls[d]
  BY DEF Asked, At
<1> QED BY <1>1, <1>2, <1>3 DEF Told

LEMMA MarkedHands ==
    ASSUME TypeOK, Marked
    PROVE  (\A l \in Keys : InHand(l)' => InHand(l)) /\ Told' = Told
<1>1. \A l \in Keys : InHand(l)' => InHand(l)
  BY DEF InHand, At, Marked
<1>2. \A d \in Calls : (At(d, "read") /\ calls[d].answer = "ok")'
                         <=> At(d, "read") /\ calls[d].answer = "ok"
  BY DEF Marked, At
<1>3. \A d \in Calls : At(d, "read") => calls'[d] = calls[d]
  BY DEF Marked, At
<1> QED BY <1>1, <1>2, <1>3 DEF Told

\* The first claim of a key takes it for the content of its call.
LEMMA ClaimTakes ==
    ASSUME ReceiptsInv, NEW c \in Calls, Claim(c)
    PROVE  Ledger!Next
<1>1. TypeOK /\ AnswersTrue /\ ClaimsOwned
  BY DEF ReceiptsInv
<1>2. ClaimDone(c)
  BY <1>1, ClaimDoes
<1>3. /\ calls[c] # None /\ calls[c].at = "sent" /\ calls[c].key \in Keys
      /\ calls[c].content \in Contents /\ calls[c].answer # "ok"
  BY <1>1, CallFields DEF Claim, At, AnswersTrue
<1> PICK k \in Keys, i \in Contents : k = calls[c].key /\ i = calls[c].content
  BY <1>3
<1>4. CASE receipts[k] # None
  <2>1. PICK answer \in Answers : Moved(c, "reply", answer)
    BY <1>2, <1>4 DEF ClaimDone
  <2>2. receipts' = receipts /\ effects' = effects
    BY <1>2, <1>4 DEF ClaimDone
  <2> QED BY <1>1, <1>3, <2>1, <2>2, MovedHands, OnlyCloses DEF Places
<1>5. CASE receipts[k] = None
  <2>1. PICK receipt \in Receipt :
           /\ receipt # None /\ receipt.content = i
           /\ receipts' = [receipts EXCEPT ![k] = receipt]
    BY <1>2, <1>5 DEF ClaimDone
  <2>2. Moved(c, "claimed", calls[c].answer) /\ effects' = effects
    BY <1>2, <1>5 DEF ClaimDone
  <2>3. /\ \A l \in Keys : l # k => (InHand(l)' <=> InHand(l))
        /\ InHand(k)' /\ Told' = Told
    BY <1>1, <1>3, <2>2, MovedHands DEF Places
  <2>4. receipts \in [Keys -> Receipt \cup {None}]
    BY <1>1 DEF TypeOK
  <2>5. receipts'[k] = receipt /\ \A l \in Keys : l # k => receipts'[l] = receipts[l]
    BY <1>3, <2>1, <2>4
  <2>6. LEntry[k] = "free" /\ LEntry'[k] = "open" /\ LContent'[k] = i
    BY <1>3, <1>5, <2>1, <2>3, <2>5, LedgerKey DEF Entry, LContent
  <2>7. \A l \in Keys : l # k => LEntry'[l] = LEntry[l] /\ LContent'[l] = LContent[l]
    BY <2>3, <2>5, LedgerKey
  <2>8. LEntry' = [LEntry EXCEPT ![k] = "open"] /\ LContent' = [LContent EXCEPT ![k] = i]
    BY <1>3, <2>6, <2>7 DEF LEntry, LContent
  <2>9. Ledger!Take(k, i)
    BY <2>2, <2>3, <2>6, <2>8 DEF Ledger!Take, LEntry, LContent
  <2> QED BY <1>3, <2>9 DEF Ledger!Next
<1> QED BY <1>4, <1>5

\* The endpoint settles the key of its call, and of no other.
LEMMA ExecuteSettles ==
    ASSUME ReceiptsInv, NEW c \in Calls, Execute(c)
    PROVE  Ledger!Next
<1>1. TypeOK /\ ClaimsOwned
  BY DEF ReceiptsInv
<1>2. calls[c] # None /\ calls[c].at = "claimed" /\ calls[c].key \in Keys
  BY <1>1, CallFields DEF Execute, At
<1> PICK k \in Keys : k = calls[c].key
  BY <1>2
<1>3. PICK answer \in {"ok", "refused", "error"}, effect \in {0, 1} :
         /\ Moved(c, "answered", answer)
         /\ effects' = [effects EXCEPT ![k] = @ + effect]
  BY <1>1, ExecuteDoes DEF ExecuteDone
<1>4. receipts' = receipts
  BY DEF Execute
<1>5. /\ \A l \in Keys : l # k => (InHand(l)' <=> InHand(l))
      /\ \A l \in Keys : InHand(l)' => InHand(l)
      /\ Told' = Told
  BY <1>1, <1>2, <1>3, MovedHands DEF Places
<1>6. CASE effect = 0
  <2>1. effects' = effects
    <3>1. effects \in [Keys -> Nat]
      BY <1>1 DEF TypeOK
    <3>2. effects[k] + 0 = effects[k]
      BY <1>2, <3>1
    <3> QED BY <1>3, <1>6, <3>1, <3>2
  <2> QED BY <1>4, <1>5, <2>1, OnlyCloses
<1>7. CASE effect = 1
  <2>1. receipts[k] # None
    BY <1>1, <1>2 DEF ClaimsOwned, At
  <2>2. InHand(k)
    BY <1>2 DEF InHand, At
  <2>3. ~InHand(k)'
    <3> SUFFICES ASSUME NEW d \in Calls, calls'[d] # None, calls'[d].at = "claimed",
                        calls'[d].key = k
                 PROVE  FALSE
      BY DEF InHand, At
    <3>1. d # c
      BY <1>3 DEF Moved
    <3>2. calls'[d] = calls[d]
      BY <1>3, <3>1 DEF Moved
    <3> QED BY <1>1, <1>2, <3>1, <3>2 DEF ClaimsOwned, At
  <2>4. LEntry[k] = "open" /\ LEntry'[k] = "closed"
    BY <1>2, <1>4, <2>1, <2>2, <2>3, LedgerKey DEF Entry
  <2>5. \A l \in Keys : l # k => LEntry'[l] = LEntry[l]
    BY <1>4, <1>5, LedgerKey
  <2>6. LEntry' = [LEntry EXCEPT ![k] = "closed"] /\ LContent' = LContent
    BY <1>2, <1>4, <2>4, <2>5 DEF LEntry, LContent
  <2>7. effects' = [effects EXCEPT ![k] = @ + 1]
    BY <1>3, <1>7
  <2>8. Ledger!Effect(k)
    BY <1>5, <2>4, <2>6, <2>7 DEF Ledger!Effect, LEntry, LContent
  <2> QED BY <1>2, <2>8 DEF Ledger!Next
<1> QED BY <1>6, <1>7

\* A receipt that is completed keeps its content, and its key stays closed.
LEMMA CompleteSilent ==
    ASSUME ReceiptsInv, NEW c \in Calls, Complete(c)
    PROVE  UNCHANGED Ledger!lvars
<1>1. TypeOK /\ AnswersTrue /\ ClaimsOwned
  BY DEF ReceiptsInv
<1>2. CompleteDone(c)
  BY <1>1, CompleteDoes
<1>3. /\ calls[c] # None /\ calls[c].at = "answered" /\ calls[c].key \in Keys
      /\ receipts[calls[c].key] # None
      /\ receipts[calls[c].key].content = calls[c].content
  BY <1>1, CallFields DEF Complete, At, ClaimsOwned
<1> DEFINE k == calls[c].key
<1>4. Moved(c, "reply", calls[c].answer) /\ effects' = effects
  BY <1>2 DEF CompleteDone
<1>5. (\A l \in Keys : InHand(l)' => InHand(l)) /\ Told' = Told
  BY <1>1, <1>3, <1>4, MovedHands DEF Places
<1>6. \A l \in Keys : InHand(l) => InHand(l)'
  <2> SUFFICES ASSUME NEW l \in Keys, NEW d \in Calls, calls[d] # None,
                      calls[d].at = "claimed", calls[d].key = l
               PROVE  \E e \in Calls : /\ calls'[e] # None /\ calls'[e].at = "claimed"
                                       /\ calls'[e].key = l
    BY DEF InHand, At
  <2>1. calls'[d] = calls[d]
    BY <1>3, <1>4 DEF Moved
  <2> QED BY <2>1
<1>7. \A l \in Keys : /\ (receipts'[l] = None) <=> (receipts[l] = None)
                      /\ receipts[l] # None => receipts'[l].content = receipts[l].content
  <2>1. receipts \in [Keys -> Receipt \cup {None}]
    BY <1>1 DEF TypeOK
  <2>2. CASE receipts' = receipts
    BY <2>2
  <2>3. CASE \E receipt \in Receipt :
               /\ receipt # None /\ receipt.content = calls[c].content
               /\ receipts' = [receipts EXCEPT ![k] = receipt]
    <3>1. PICK receipt \in Receipt :
             /\ receipt # None /\ receipt.content = calls[c].content
             /\ receipts' = [receipts EXCEPT ![k] = receipt]
      BY <2>3
    <3>2. receipts'[k] = receipt /\ \A l \in Keys : l # k => receipts'[l] = receipts[l]
      BY <1>3, <2>1, <3>1
    <3> QED BY <1>3, <3>1, <3>2
  <2> QED BY <1>2, <2>2, <2>3 DEF CompleteDone
<1>8. LEntry' = LEntry
  BY <1>5, <1>6, <1>7 DEF LEntry, Entry
<1>9. LContent' = LContent
  BY <1>7 DEF LContent
<1> QED BY <1>4, <1>5, <1>8, <1>9 DEF Ledger!lvars, LEntry, LContent

\* An answer ok that is read tells of an effect of the content it was asked for.
LEMMA ReadTells ==
    ASSUME ReceiptsInv, NEW c \in Calls, Read(c)
    PROVE  Ledger!Next
<1>1. TypeOK /\ AnswersTrue /\ ClaimsOwned /\ EffectsCounted
  BY DEF ReceiptsInv
<1>2. ReadDone(c)
  BY <1>1, ReadDoes
<1>3. /\ Moved(c, "read", calls[c].answer) /\ calls[c].at = "reply"
      /\ receipts' = receipts /\ effects' = effects
  BY <1>2 DEF ReadDone
<1>4. calls[c] # None /\ calls[c].key \in Keys /\ calls[c].content \in Contents
  BY <1>1, CallFields DEF Read, At
<1> PICK k \in Keys, i \in Contents : k = calls[c].key /\ i = calls[c].content
  BY <1>4
<1>5. CASE calls[c].answer # "ok"
  BY <1>1, <1>3, <1>5, MovedHands, OnlyCloses DEF Places
<1>6. CASE calls[c].answer = "ok"
  <2>1. effects[k] = 1 /\ receipts[k] # None /\ receipts[k].content = i
    BY <1>1, <1>4, <1>6 DEF AnswersTrue
  <2>2. ~InHand(k)
    <3> SUFFICES ASSUME NEW d \in Calls, At(d, "claimed"), calls[d].key = k PROVE FALSE
      BY DEF InHand
    <3> QED BY <1>1, <2>1 DEF EffectsCounted
  <2>3. LEntry[k] = "closed" /\ LContent[k] = i
    BY <1>4, <2>1, <2>2 DEF LEntry, Entry, LContent
  <2>4. Told' = Told \cup {<<k, i>>}
    BY <1>1, <1>3, <1>6, MovedHands DEF Places
  <2>5. \A l \in Keys : (InHand(l)' <=> InHand(l))
    <3> TAKE l \in Keys
    <3>1. \A d \in Calls : At(d, "claimed")' <=> At(d, "claimed")
      BY <1>3 DEF Moved, At
    <3>2. \A d \in Calls : At(d, "claimed") => calls'[d] = calls[d]
      BY <1>3 DEF Moved, At
    <3> QED BY <3>1, <3>2 DEF InHand
  <2>6. LEntry' = LEntry /\ LContent' = LContent
    BY <1>3, <2>5 DEF LEntry, Entry, LContent
  <2>7. Ledger!Tell(k, i)
    BY <1>3, <2>1, <2>3, <2>4, <2>6 DEF Ledger!Tell, LEntry, LContent
  <2> QED BY <1>4, <2>7 DEF Ledger!Next
<1> QED BY <1>5, <1>6

LEMMA LedgerStep == ReceiptsInv /\ [Next]_vars => [Ledger!Next]_Ledger!lvars
<1> SUFFICES ASSUME ReceiptsInv, [Next]_vars
             PROVE  Ledger!Next \/ UNCHANGED Ledger!lvars
  OBVIOUS
<1>1. TypeOK
  BY DEF ReceiptsInv
<1>2. ASSUME NEW c \in Calls, NEW i \in Contents, Submit(c, i) \/ Reuse(c, i)
      PROVE  Ledger!Next
  <2>1. \E k \in Keys, page \in BOOLEAN : Asked(c, i, k, page)
    BY <1>1, <1>2, SubmitDoes, ReuseDoes DEF SubmitDone, ReuseDone
  <2>2. receipts' = receipts /\ effects' = effects
    BY <1>2 DEF Submit, Reuse
  <2> QED BY <1>1, <2>1, <2>2, NewHands, OnlyCloses
<1>3. ASSUME NEW c \in Calls, Lose(c)
      PROVE  Ledger!Next
  <2>1. LoseDone(c)
    BY <1>1, <1>3, LoseDoes
  <2>2. /\ Moved(c, "lost", calls[c].answer) /\ calls[c].at # "read"
        /\ receipts' = receipts /\ effects' = effects
    BY <2>1 DEF LoseDone
  <2> QED BY <1>1, <2>2, MovedHands, OnlyCloses DEF Places
<1>4. CASE Reload \/ Stop \/ Turn
  <2>1. Marked
    BY <1>1, <1>4, ReloadMarks, StopMarks, TurnMarks
  <2> QED BY <1>1, <2>1, MarkedHands, OnlyCloses DEF Marked
<1>5. CASE UNCHANGED vars
  <2>1. LEntry' = LEntry /\ LContent' = LContent /\ Told' = Told
    BY <1>5 DEF vars, LEntry, Entry, InHand, At, LContent, Told
  <2> QED BY <1>5, <2>1 DEF Ledger!lvars, LEntry, LContent, vars
<1> QED BY <1>2, <1>3, <1>4, <1>5, ClaimTakes, ExecuteSettles, CompleteSilent, ReadTells
        DEF Next, Serve

\* The receipts implement the ledger: whatever is lost, repeated or stopped, a key
\* takes effect once, for one content, never after it was given up, and ok is told of
\* that effect only (claim, complete, capture).
THEOREM LedgerImplemented == Spec => ImplementsLedger
<1>1. Init => Ledger!Init
  <2> SUFFICES ASSUME Init PROVE Ledger!Init
    OBVIOUS
  <2>1. \A k \in Keys : receipts[k] = None
    BY DEF Init
  <2>2. Told = {}
    BY DEF Init, Told, At
  <2> QED BY <2>1, <2>2 DEF Init, Ledger!Init, Entry
<1> QED BY <1>1, ReceiptsInvariant, LedgerStep, PTL DEF Spec, Ledger!Spec, ImplementsLedger
=============================================================================
