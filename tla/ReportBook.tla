----------------------------- MODULE ReportBook -----------------------------
(***************************************************************************)
(* What a report session promises to its readers, without requests, runs   *)
(* and nodes: the report is a book to which pages are only added, each     *)
(* with a text of its own; the text a model wrote last, the page an        *)
(* independent reviewer read and whether anything material is open are     *)
(* kept beside it; a page a person wrote leaves these as they are; ordered *)
(* work begins once; and the book is closed by an acceptance, for good,    *)
(* while nothing is open and the review is of what the model wrote last.   *)
(***************************************************************************)
EXTENDS Naturals

CONSTANTS Texts, Ids

VARIABLES
    pages,      \* versions with their texts
    last,       \* the version of the last page
    basis,      \* the text a model wrote last, 0 while the next one is on its way
    checked,    \* the text the independent review is of, 0 without one
    open,       \* something material is open
    started,    \* the orders whose work has begun
    accepted

bvars == <<pages, last, basis, checked, open, started, accepted>>

Page(v, t) == [version |-> v, text |-> t]

Init ==
    \E t \in Texts :
        /\ pages = {Page(1, t)} /\ last = 1
        /\ basis = t /\ checked \in {0, t} /\ open \in BOOLEAN
        /\ started = {} /\ accepted = FALSE

Begin(id) ==
    /\ ~accepted /\ id \notin started
    /\ started' = started \cup {id}
    /\ UNCHANGED <<pages, last, basis, checked, open, accepted>>

\* A model writes, or its text is being reviewed.
Draft ==
    /\ ~accepted
    /\ basis' = 0 /\ checked' = 0 /\ open' \in BOOLEAN
    /\ UNCHANGED <<pages, last, started, accepted>>

Add(t) ==
    /\ ~accepted
    /\ \A p \in pages : p.text # t
    /\ last' = last + 1 /\ pages' = pages \cup {Page(last + 1, t)}
    /\ UNCHANGED <<started, accepted>>

Publish(t) ==
    /\ Add(t)
    /\ basis' = t /\ checked' \in {0, t} /\ open' \in BOOLEAN

Edit(t) == basis # 0 /\ Add(t) /\ UNCHANGED <<basis, checked, open>>

\* The last page is taken up as it is and reviewed.
Review ==
    /\ ~accepted
    /\ Page(last, basis') \in pages /\ checked' = basis' /\ open' \in BOOLEAN
    /\ UNCHANGED <<pages, last, started, accepted>>

\* Work is given up.
Stop ==
    /\ ~accepted
    /\ open' = TRUE
    /\ UNCHANGED <<pages, last, basis, checked, started, accepted>>

Accept ==
    /\ ~accepted /\ basis # 0 /\ checked = basis /\ ~open
    /\ accepted' = TRUE
    /\ UNCHANGED <<pages, last, basis, checked, open, started>>

Next ==
    \/ \E id \in Ids : Begin(id)
    \/ \E t \in Texts : Publish(t) \/ Edit(t)
    \/ Draft \/ Review \/ Stop \/ Accept

Spec == Init /\ [][Next]_bvars
=============================================================================
