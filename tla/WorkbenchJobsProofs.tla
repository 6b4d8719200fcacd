------------------------ MODULE WorkbenchJobsProofs ------------------------
(***************************************************************************)
(* Proofs about WorkbenchJobs, for any jobs, cancel requests and slots.    *)
(* The invariant says which runners hold a slot, that only such runners    *)
(* have a live process, and what the verdict and the row can be at each    *)
(* place.  UpdateKept rests on what the runners have read of the bundle.   *)
(***************************************************************************)
EXTENDS WorkbenchJobs, FiniteSetTheorems, TLAPS

\* Places of a runner that came past the semaphore.  (It may be logging or in the
\* except branch without a slot: a job cancelled before it started.)
Inside == {"acquired", "starting", "opening", "registering", "reading", "reaped",
           "deciding", "bundling", "merging", "writing"}

\* A cancel request that passed its check has a job.
Targeted ==
    \A c \in Cancels : canceller[c] \notin {"idle", "refused"} => target[c] \in Jobs

InSlot == \A j \in Jobs : runner[j] \in Inside => j \in holders

AliveInSlot ==
    \A j \in Jobs : process[j] = "alive" =>
        j \in holders /\ runner[j] \in {"registering", "reading", "raised"}

SlotsBounded == Cardinality(holders) <= MaxActive

VerdictKnown ==
    \A j \in Jobs :
        runner[j] \in {"bundling", "merging", "writing", "rewriting"} =>
            verdict[j] \in TERMINAL_RUN_STATUSES

RowSettled ==
    \A j \in Jobs :
        runner[j] \in {"logging", "finally", "ended"} => row[j] \notin ACTIVE_RUN_STATUSES

JobsInv ==
    TypeOK /\ Targeted /\ InSlot /\ AliveInSlot /\ SlotsBounded /\ VerdictKnown /\ RowSettled

\* Runners that have stored the bundle are past it.
Past == {j \in Jobs :
    runner[j] \in {"writing", "logging", "raised", "rewriting", "finally", "ended"}}

Merged(j) == j \in bundle \/ \E k \in bundle : Overlapped(j, k)

\* What UpdateKept rests on: a verdict "completed" is stored after the bundle, and
\* what is in the bundle, or was when it was read, is of runners that have stored.
BundleInv ==
    /\ bundle \subseteq Past
    /\ \A j \in Jobs :
        /\ row[j] = "completed" => j \in Past /\ Merged(j)
        /\ runner[j] = "writing" /\ verdict[j] = "completed" => Merged(j)
        /\ runner[j] = "rewriting" => verdict[j] # "completed"
        /\ seen[j] \subseteq Past

-----------------------------------------------------------------------------

LEMMA InitHolds == Init => JobsInv /\ BundleInv
<1> SUFFICES ASSUME Init PROVE JobsInv /\ BundleInv
    OBVIOUS
<1>1. TypeOK /\ Targeted /\ InSlot /\ AliveInSlot /\ VerdictKnown /\ RowSettled /\ BundleInv
    BY JobsAssumption DEF Init, TypeOK, Places, Statuses, ACTIVE_RUN_STATUSES, TERMINAL_RUN_STATUSES,
       Targeted, InSlot, Inside, AliveInSlot,
       VerdictKnown, RowSettled, BundleInv
<1>2. Cardinality(holders) = 0
    BY FS_EmptySet DEF Init
<1> QED
    BY <1>1, <1>2, JobsAssumption DEF JobsInv, SlotsBounded

\* Types are kept.
LEMMA TypeKept ==
    ASSUME TypeOK, Targeted, [Next]_vars
    PROVE  TypeOK'
<1> USE JobsAssumption DEF TypeOK, Places, Statuses, ACTIVE_RUN_STATUSES,
    TERMINAL_RUN_STATUSES, Targeted
<1>1. ASSUME NEW j \in Jobs, Start(j) PROVE TypeOK'
    BY <1>1 DEF Start, Step, Stored, memory, cancels
<1>2. ASSUME NEW j \in Jobs, Launch(j) PROVE TypeOK'
    BY <1>2 DEF Launch, Step, memory, cancels
<1>3. ASSUME NEW j \in Jobs, Acquire(j) PROVE TypeOK'
    BY <1>3 DEF Acquire, Step, memory, cancels
<1>4. ASSUME NEW j \in Jobs, CancelledBeforeStart(j) PROVE TypeOK'
    BY <1>4 DEF CancelledBeforeStart, Step, Stored, memory, cancels
<1>5. ASSUME NEW j \in Jobs, CheckSettled(j) PROVE TypeOK'
    BY <1>5 DEF CheckSettled, Step, memory, cancels
<1>6. ASSUME NEW j \in Jobs, StoreRunning(j) PROVE TypeOK'
    BY <1>6 DEF StoreRunning, Step, Stored, memory, cancels
<1>7. ASSUME NEW j \in Jobs, Open(j) PROVE TypeOK'
    BY <1>7 DEF Open, Step, memory, cancels
<1>8. ASSUME NEW j \in Jobs, Register(j) PROVE TypeOK'
    BY <1>8 DEF Register, Step, memory, cancels
<1>9. ASSUME NEW j \in Jobs, StopOnFlag(j) PROVE TypeOK'
    BY <1>9 DEF StopOnFlag, Step, Killed, memory, cancels
<1>10. ASSUME NEW j \in Jobs, Drained(j) PROVE TypeOK'
    BY <1>10 DEF Drained, Step, memory, cancels
<1>11. ASSUME NEW j \in Jobs, ReadLatest(j) PROVE TypeOK'
    BY <1>11 DEF ReadLatest, Step, memory, cancels
<1>12. ASSUME NEW j \in Jobs, Decide(j) PROVE TypeOK'
    BY <1>12 DEF Decide, Step, Decided, Verdict, memory, cancels
<1>13. ASSUME NEW j \in Jobs, ReadBundle(j) PROVE TypeOK'
    BY <1>13 DEF ReadBundle, Step, memory, cancels
<1>14. ASSUME NEW j \in Jobs, WriteBundle(j) PROVE TypeOK'
    BY <1>14 DEF WriteBundle, Step, memory, cancels
<1>15. ASSUME NEW j \in Jobs, StoreVerdict(j) PROVE TypeOK'
    BY <1>15 DEF StoreVerdict, Step, Stored, memory, cancels
<1>16. ASSUME NEW j \in Jobs, LogVerdict(j) PROVE TypeOK'
    BY <1>16 DEF LogVerdict, Step, memory, cancels
<1>17. ASSUME NEW j \in Jobs, Raised(j) PROVE TypeOK'
    BY <1>17 DEF Raised, Step, Killed, Decided, memory, cancels
<1>18. ASSUME NEW j \in Jobs, Rewrite(j) PROVE TypeOK'
    BY <1>18 DEF Rewrite, Step, Stored, memory, cancels
<1>19. ASSUME NEW j \in Jobs, Finally(j) PROVE TypeOK'
    BY <1>19 DEF Finally, Step, memory, cancels
<1>20. ASSUME NEW j \in Jobs, ReadingFails(j) PROVE TypeOK'
    BY <1>20 DEF ReadingFails, Step, memory, cancels
<1>21. ASSUME NEW j \in Jobs, Exit(j) PROVE TypeOK'
    BY <1>21 DEF Exit, thread, memory, cancels
<1>22. ASSUME NEW j \in Jobs, TimeOut(j) PROVE TypeOK'
    BY <1>22 DEF TimeOut, Step, Killed, Decided, memory, cancels
<1>23. ASSUME NEW c \in Cancels, NEW j \in Jobs, CancelRead(c, j) PROVE TypeOK'
    BY <1>23 DEF CancelRead, At, thread, memory
<1>24. ASSUME NEW c \in Cancels, CancelFlag(c) PROVE TypeOK'
    BY <1>24 DEF CancelFlag, At, thread, memory
<1>25. ASSUME NEW c \in Cancels, CancelKill(c) PROVE TypeOK'
    BY <1>25 DEF CancelKill, At, Killed, thread, memory
<1>26. ASSUME NEW c \in Cancels, CancelLog(c) PROVE TypeOK'
    BY <1>26 DEF CancelLog, At, thread, memory
<1>27. ASSUME NEW c \in Cancels, CancelWrite(c) PROVE TypeOK'
    BY <1>27 DEF CancelWrite, At, Stored, thread, memory
<1>28. ASSUME Prune PROVE TypeOK'
    BY <1>28 DEF Prune, thread, memory, cancels
<1>29. ASSUME UNCHANGED vars PROVE TypeOK'
    BY <1>29 DEF vars, thread, memory, cancels
<1> QED
    BY <1>1, <1>2, <1>3, <1>4, <1>5, <1>6, <1>7, <1>8, <1>9, <1>10, <1>11, <1>12, <1>13,
       <1>14, <1>15, <1>16, <1>17, <1>18, <1>19, <1>20, <1>21, <1>22, <1>23, <1>24, <1>25, <1>26,
       <1>27, <1>28, <1>29 DEF Next, Runner, Cancel

\* A request keeps its job.
LEMMA TargetedKept ==
    ASSUME TypeOK, Targeted, [Next]_vars
    PROVE  Targeted'
<1> USE JobsAssumption DEF TypeOK, Places, Statuses, ACTIVE_RUN_STATUSES,
    TERMINAL_RUN_STATUSES, Targeted
<1>1. ASSUME NEW j \in Jobs, Start(j) PROVE Targeted'
    BY <1>1 DEF Start, Step, Stored, memory, cancels
<1>2. ASSUME NEW j \in Jobs, Launch(j) PROVE Targeted'
    BY <1>2 DEF Launch, Step, memory, cancels
<1>3. ASSUME NEW j \in Jobs, Acquire(j) PROVE Targeted'
    BY <1>3 DEF Acquire, Step, memory, cancels
<1>4. ASSUME NEW j \in Jobs, CancelledBeforeStart(j) PROVE Targeted'
    BY <1>4 DEF CancelledBeforeStart, Step, Stored, memory, cancels
<1>5. ASSUME NEW j \in Jobs, CheckSettled(j) PROVE Targeted'
    BY <1>5 DEF CheckSettled, Step, memory, cancels
<1>6. ASSUME NEW j \in Jobs, StoreRunning(j) PROVE Targeted'
    BY <1>6 DEF StoreRunning, Step, Stored, memory, cancels
<1>7. ASSUME NEW j \in Jobs, Open(j) PROVE Targeted'
    BY <1>7 DEF Open, Step, memory, cancels
<1>8. ASSUME NEW j \in Jobs, Register(j) PROVE Targeted'
    BY <1>8 DEF Register, Step, memory, cancels
<1>9. ASSUME NEW j \in Jobs, StopOnFlag(j) PROVE Targeted'
    BY <1>9 DEF StopOnFlag, Step, Killed, memory, cancels
<1>10. ASSUME NEW j \in Jobs, Drained(j) PROVE Targeted'
    BY <1>10 DEF Drained, Step, memory, cancels
<1>11. ASSUME NEW j \in Jobs, ReadLatest(j) PROVE Targeted'
    BY <1>11 DEF ReadLatest, Step, memory, cancels
<1>12. ASSUME NEW j \in Jobs, Decide(j) PROVE Targeted'
    BY <1>12 DEF Decide, Step, Decided, Verdict, memory, cancels
<1>13. ASSUME NEW j \in Jobs, ReadBundle(j) PROVE Targeted'
    BY <1>13 DEF ReadBundle, Step, memory, cancels
<1>14. ASSUME NEW j \in Jobs, WriteBundle(j) PROVE Targeted'
    BY <1>14 DEF WriteBundle, Step, memory, cancels
<1>15. ASSUME NEW j \in Jobs, StoreVerdict(j) PROVE Targeted'
    BY <1>15 DEF StoreVerdict, Step, Stored, memory, cancels
<1>16. ASSUME NEW j \in Jobs, LogVerdict(j) PROVE Targeted'
    BY <1>16 DEF LogVerdict, Step, memory, cancels
<1>17. ASSUME NEW j \in Jobs, Raised(j) PROVE Targeted'
    BY <1>17 DEF Raised, Step, Killed, Decided, memory, cancels
<1>18. ASSUME NEW j \in Jobs, Rewrite(j) PROVE Targeted'
    BY <1>18 DEF Rewrite, Step, Stored, memory, cancels
<1>19. ASSUME NEW j \in Jobs, Finally(j) PROVE Targeted'
    BY <1>19 DEF Finally, Step, memory, cancels
<1>20. ASSUME NEW j \in Jobs, ReadingFails(j) PROVE Targeted'
    BY <1>20 DEF ReadingFails, Step, memory, cancels
<1>21. ASSUME NEW j \in Jobs, Exit(j) PROVE Targeted'
    BY <1>21 DEF Exit, thread, memory, cancels
<1>22. ASSUME NEW j \in Jobs, TimeOut(j) PROVE Targeted'
    BY <1>22 DEF TimeOut, Step, Killed, Decided, memory, cancels
<1>23. ASSUME NEW c \in Cancels, NEW j \in Jobs, CancelRead(c, j) PROVE Targeted'
    BY <1>23 DEF CancelRead, At, thread, memory
<1>24. ASSUME NEW c \in Cancels, CancelFlag(c) PROVE Targeted'
    BY <1>24 DEF CancelFlag, At, thread, memory
<1>25. ASSUME NEW c \in Cancels, CancelKill(c) PROVE Targeted'
    BY <1>25 DEF CancelKill, At, Killed, thread, memory
<1>26. ASSUME NEW c \in Cancels, CancelLog(c) PROVE Targeted'
    BY <1>26 DEF CancelLog, At, thread, memory
<1>27. ASSUME NEW c \in Cancels, CancelWrite(c) PROVE Targeted'
    BY <1>27 DEF CancelWrite, At, Stored, thread, memory
<1>28. ASSUME Prune PROVE Targeted'
    BY <1>28 DEF Prune, thread, memory, cancels
<1>29. ASSUME UNCHANGED vars PROVE Targeted'
    BY <1>29 DEF vars, thread, memory, cancels
<1> QED
    BY <1>1, <1>2, <1>3, <1>4, <1>5, <1>6, <1>7, <1>8, <1>9, <1>10, <1>11, <1>12, <1>13,
       <1>14, <1>15, <1>16, <1>17, <1>18, <1>19, <1>20, <1>21, <1>22, <1>23, <1>24, <1>25, <1>26,
       <1>27, <1>28, <1>29 DEF Next, Runner, Cancel

\* Runners inside hold a slot.
LEMMA InSlotKept ==
    ASSUME TypeOK, InSlot, [Next]_vars
    PROVE  InSlot'
<1> USE JobsAssumption DEF TypeOK, Places, Statuses, ACTIVE_RUN_STATUSES,
    TERMINAL_RUN_STATUSES, InSlot, Inside
<1>1. ASSUME NEW j \in Jobs, Start(j) PROVE InSlot'
    BY <1>1 DEF Start, Step, Stored, memory, cancels
<1>2. ASSUME NEW j \in Jobs, Launch(j) PROVE InSlot'
    BY <1>2 DEF Launch, Step, memory, cancels
<1>3. ASSUME NEW j \in Jobs, Acquire(j) PROVE InSlot'
    BY <1>3 DEF Acquire, Step, memory, cancels
<1>4. ASSUME NEW j \in Jobs, CancelledBeforeStart(j) PROVE InSlot'
    BY <1>4 DEF CancelledBeforeStart, Step, Stored, memory, cancels
<1>5. ASSUME NEW j \in Jobs, CheckSettled(j) PROVE InSlot'
    BY <1>5 DEF CheckSettled, Step, memory, cancels
<1>6. ASSUME NEW j \in Jobs, StoreRunning(j) PROVE InSlot'
    BY <1>6 DEF StoreRunning, Step, Stored, memory, cancels
<1>7. ASSUME NEW j \in Jobs, Open(j) PROVE InSlot'
    BY <1>7 DEF Open, Step, memory, cancels
<1>8. ASSUME NEW j \in Jobs, Register(j) PROVE InSlot'
    BY <1>8 DEF Register, Step, memory, cancels
<1>9. ASSUME NEW j \in Jobs, StopOnFlag(j) PROVE InSlot'
    BY <1>9 DEF StopOnFlag, Step, Killed, memory, cancels
<1>10. ASSUME NEW j \in Jobs, Drained(j) PROVE InSlot'
    BY <1>10 DEF Drained, Step, memory, cancels
<1>11. ASSUME NEW j \in Jobs, ReadLatest(j) PROVE InSlot'
    BY <1>11 DEF ReadLatest, Step, memory, cancels
<1>12. ASSUME NEW j \in Jobs, Decide(j) PROVE InSlot'
    BY <1>12 DEF Decide, Step, Decided, Verdict, memory, cancels
<1>13. ASSUME NEW j \in Jobs, ReadBundle(j) PROVE InSlot'
    BY <1>13 DEF ReadBundle, Step, memory, cancels
<1>14. ASSUME NEW j \in Jobs, WriteBundle(j) PROVE InSlot'
    BY <1>14 DEF WriteBundle, Step, memory, cancels
<1>15. ASSUME NEW j \in Jobs, StoreVerdict(j) PROVE InSlot'
    BY <1>15 DEF StoreVerdict, Step, Stored, memory, cancels
<1>16. ASSUME NEW j \in Jobs, LogVerdict(j) PROVE InSlot'
    BY <1>16 DEF LogVerdict, Step, memory, cancels
<1>17. ASSUME NEW j \in Jobs, Raised(j) PROVE InSlot'
    BY <1>17 DEF Raised, Step, Killed, Decided, memory, cancels
<1>18. ASSUME NEW j \in Jobs, Rewrite(j) PROVE InSlot'
    BY <1>18 DEF Rewrite, Step, Stored, memory, cancels
<1>19. ASSUME NEW j \in Jobs, Finally(j) PROVE InSlot'
    BY <1>19 DEF Finally, Step, memory, cancels
<1>20. ASSUME NEW j \in Jobs, ReadingFails(j) PROVE InSlot'
    BY <1>20 DEF ReadingFails, Step, memory, cancels
<1>21. ASSUME NEW j \in Jobs, Exit(j) PROVE InSlot'
    BY <1>21 DEF Exit, thread, memory, cancels
<1>22. ASSUME NEW j \in Jobs, TimeOut(j) PROVE InSlot'
    BY <1>22 DEF TimeOut, Step, Killed, Decided, memory, cancels
<1>23. ASSUME NEW c \in Cancels, NEW j \in Jobs, CancelRead(c, j) PROVE InSlot'
    BY <1>23 DEF CancelRead, At, thread, memory
<1>24. ASSUME NEW c \in Cancels, CancelFlag(c) PROVE InSlot'
    BY <1>24 DEF CancelFlag, At, thread, memory
<1>25. ASSUME NEW c \in Cancels, CancelKill(c) PROVE InSlot'
    BY <1>25 DEF CancelKill, At, Killed, thread, memory
<1>26. ASSUME NEW c \in Cancels, CancelLog(c) PROVE InSlot'
    BY <1>26 DEF CancelLog, At, thread, memory
<1>27. ASSUME NEW c \in Cancels, CancelWrite(c) PROVE InSlot'
    BY <1>27 DEF CancelWrite, At, Stored, thread, memory
<1>28. ASSUME Prune PROVE InSlot'
    BY <1>28 DEF Prune, thread, memory, cancels
<1>29. ASSUME UNCHANGED vars PROVE InSlot'
    BY <1>29 DEF vars, thread, memory, cancels
<1> QED
    BY <1>1, <1>2, <1>3, <1>4, <1>5, <1>6, <1>7, <1>8, <1>9, <1>10, <1>11, <1>12, <1>13,
       <1>14, <1>15, <1>16, <1>17, <1>18, <1>19, <1>20, <1>21, <1>22, <1>23, <1>24, <1>25, <1>26,
       <1>27, <1>28, <1>29 DEF Next, Runner, Cancel

\* Live processes belong to runners with a slot.
LEMMA AliveKept ==
    ASSUME TypeOK, InSlot, AliveInSlot, [Next]_vars
    PROVE  AliveInSlot'
<1> USE JobsAssumption DEF TypeOK, Places, Statuses, ACTIVE_RUN_STATUSES,
    TERMINAL_RUN_STATUSES, InSlot, Inside, AliveInSlot
<1>1. ASSUME NEW j \in Jobs, Start(j) PROVE AliveInSlot'
    BY <1>1 DEF Start, Step, Stored, memory, cancels
<1>2. ASSUME NEW j \in Jobs, Launch(j) PROVE AliveInSlot'
    BY <1>2 DEF Launch, Step, memory, cancels
<1>3. ASSUME NEW j \in Jobs, Acquire(j) PROVE AliveInSlot'
    BY <1>3 DEF Acquire, Step, memory, cancels
<1>4. ASSUME NEW j \in Jobs, CancelledBeforeStart(j) PROVE AliveInSlot'
    BY <1>4 DEF CancelledBeforeStart, Step, Stored, memory, cancels
<1>5. ASSUME NEW j \in Jobs, CheckSettled(j) PROVE AliveInSlot'
    BY <1>5 DEF CheckSettled, Step, memory, cancels
<1>6. ASSUME NEW j \in Jobs, StoreRunning(j) PROVE AliveInSlot'
    BY <1>6 DEF StoreRunning, Step, Stored, memory, cancels
<1>7. ASSUME NEW j \in Jobs, Open(j) PROVE AliveInSlot'
    BY <1>7 DEF Open, Step, memory, cancels
<1>8. ASSUME NEW j \in Jobs, Register(j) PROVE AliveInSlot'
    BY <1>8 DEF Register, Step, memory, cancels
<1>9. ASSUME NEW j \in Jobs, StopOnFlag(j) PROVE AliveInSlot'
    BY <1>9 DEF StopOnFlag, Step, Killed, memory, cancels
<1>10. ASSUME NEW j \in Jobs, Drained(j) PROVE AliveInSlot'
    BY <1>10 DEF Drained, Step, memory, cancels
<1>11. ASSUME NEW j \in Jobs, ReadLatest(j) PROVE AliveInSlot'
    BY <1>11 DEF ReadLatest, Step, memory, cancels
<1>12. ASSUME NEW j \in Jobs, Decide(j) PROVE AliveInSlot'
    BY <1>12 DEF Decide, Step, Decided, Verdict, memory, cancels
<1>13. ASSUME NEW j \in Jobs, ReadBundle(j) PROVE AliveInSlot'
    BY <1>13 DEF ReadBundle, Step, memory, cancels
<1>14. ASSUME NEW j \in Jobs, WriteBundle(j) PROVE AliveInSlot'
    BY <1>14 DEF WriteBundle, Step, memory, cancels
<1>15. ASSUME NEW j \in Jobs, StoreVerdict(j) PROVE AliveInSlot'
    BY <1>15 DEF StoreVerdict, Step, Stored, memory, cancels
<1>16. ASSUME NEW j \in Jobs, LogVerdict(j) PROVE AliveInSlot'
    BY <1>16 DEF LogVerdict, Step, memory, cancels
<1>17. ASSUME NEW j \in Jobs, Raised(j) PROVE AliveInSlot'
    BY <1>17 DEF Raised, Step, Killed, Decided, memory, cancels
<1>18. ASSUME NEW j \in Jobs, Rewrite(j) PROVE AliveInSlot'
    BY <1>18 DEF Rewrite, Step, Stored, memory, cancels
<1>19. ASSUME NEW j \in Jobs, Finally(j) PROVE AliveInSlot'
    BY <1>19 DEF Finally, Step, memory, cancels
<1>20. ASSUME NEW j \in Jobs, ReadingFails(j) PROVE AliveInSlot'
    BY <1>20 DEF ReadingFails, Step, memory, cancels
<1>21. ASSUME NEW j \in Jobs, Exit(j) PROVE AliveInSlot'
    BY <1>21 DEF Exit, thread, memory, cancels
<1>22. ASSUME NEW j \in Jobs, TimeOut(j) PROVE AliveInSlot'
    BY <1>22 DEF TimeOut, Step, Killed, Decided, memory, cancels
<1>23. ASSUME NEW c \in Cancels, NEW j \in Jobs, CancelRead(c, j) PROVE AliveInSlot'
    BY <1>23 DEF CancelRead, At, thread, memory
<1>24. ASSUME NEW c \in Cancels, CancelFlag(c) PROVE AliveInSlot'
    BY <1>24 DEF CancelFlag, At, thread, memory
<1>25. ASSUME NEW c \in Cancels, CancelKill(c) PROVE AliveInSlot'
    BY <1>25 DEF CancelKill, At, Killed, thread, memory
<1>26. ASSUME NEW c \in Cancels, CancelLog(c) PROVE AliveInSlot'
    BY <1>26 DEF CancelLog, At, thread, memory
<1>27. ASSUME NEW c \in Cancels, CancelWrite(c) PROVE AliveInSlot'
    BY <1>27 DEF CancelWrite, At, Stored, thread, memory
<1>28. ASSUME Prune PROVE AliveInSlot'
    BY <1>28 DEF Prune, thread, memory, cancels
<1>29. ASSUME UNCHANGED vars PROVE AliveInSlot'
    BY <1>29 DEF vars, thread, memory, cancels
<1> QED
    BY <1>1, <1>2, <1>3, <1>4, <1>5, <1>6, <1>7, <1>8, <1>9, <1>10, <1>11, <1>12, <1>13,
       <1>14, <1>15, <1>16, <1>17, <1>18, <1>19, <1>20, <1>21, <1>22, <1>23, <1>24, <1>25, <1>26,
       <1>27, <1>28, <1>29 DEF Next, Runner, Cancel

\* Verdicts that will be stored are terminal.
LEMMA VerdictKept ==
    ASSUME TypeOK, VerdictKnown, [Next]_vars
    PROVE  VerdictKnown'
<1> USE JobsAssumption DEF TypeOK, Places, Statuses, ACTIVE_RUN_STATUSES,
    TERMINAL_RUN_STATUSES, VerdictKnown
<1>1. ASSUME NEW j \in Jobs, Start(j) PROVE VerdictKnown'
    BY <1>1 DEF Start, Step, Stored, memory, cancels
<1>2. ASSUME NEW j \in Jobs, Launch(j) PROVE VerdictKnown'
    BY <1>2 DEF Launch, Step, memory, cancels
<1>3. ASSUME NEW j \in Jobs, Acquire(j) PROVE VerdictKnown'
    BY <1>3 DEF Acquire, Step, memory, cancels
<1>4. ASSUME NEW j \in Jobs, CancelledBeforeStart(j) PROVE VerdictKnown'
    BY <1>4 DEF CancelledBeforeStart, Step, Stored, memory, cancels
<1>5. ASSUME NEW j \in Jobs, CheckSettled(j) PROVE VerdictKnown'
    BY <1>5 DEF CheckSettled, Step, memory, cancels
<1>6. ASSUME NEW j \in Jobs, StoreRunning(j) PROVE VerdictKnown'
    BY <1>6 DEF StoreRunning, Step, Stored, memory, cancels
<1>7. ASSUME NEW j \in Jobs, Open(j) PROVE VerdictKnown'
    BY <1>7 DEF Open, Step, memory, cancels
<1>8. ASSUME NEW j \in Jobs, Register(j) PROVE VerdictKnown'
    BY <1>8 DEF Register, Step, memory, cancels
<1>9. ASSUME NEW j \in Jobs, StopOnFlag(j) PROVE VerdictKnown'
    BY <1>9 DEF StopOnFlag, Step, Killed, memory, cancels
<1>10. ASSUME NEW j \in Jobs, Drained(j) PROVE VerdictKnown'
    BY <1>10 DEF Drained, Step, memory, cancels
<1>11. ASSUME NEW j \in Jobs, ReadLatest(j) PROVE VerdictKnown'
    BY <1>11 DEF ReadLatest, Step, memory, cancels
<1>12. ASSUME NEW j \in Jobs, Decide(j) PROVE VerdictKnown'
    BY <1>12 DEF Decide, Step, Decided, Verdict, memory, cancels
<1>13. ASSUME NEW j \in Jobs, ReadBundle(j) PROVE VerdictKnown'
    BY <1>13 DEF ReadBundle, Step, memory, cancels
<1>14. ASSUME NEW j \in Jobs, WriteBundle(j) PROVE VerdictKnown'
    BY <1>14 DEF WriteBundle, Step, memory, cancels
<1>15. ASSUME NEW j \in Jobs, StoreVerdict(j) PROVE VerdictKnown'
    BY <1>15 DEF StoreVerdict, Step, Stored, memory, cancels
<1>16. ASSUME NEW j \in Jobs, LogVerdict(j) PROVE VerdictKnown'
    BY <1>16 DEF LogVerdict, Step, memory, cancels
<1>17. ASSUME NEW j \in Jobs, Raised(j) PROVE VerdictKnown'
    BY <1>17 DEF Raised, Step, Killed, Decided, memory, cancels
<1>18. ASSUME NEW j \in Jobs, Rewrite(j) PROVE VerdictKnown'
    BY <1>18 DEF Rewrite, Step, Stored, memory, cancels
<1>19. ASSUME NEW j \in Jobs, Finally(j) PROVE VerdictKnown'
    BY <1>19 DEF Finally, Step, memory, cancels
<1>20. ASSUME NEW j \in Jobs, ReadingFails(j) PROVE VerdictKnown'
    BY <1>20 DEF ReadingFails, Step, memory, cancels
<1>21. ASSUME NEW j \in Jobs, Exit(j) PROVE VerdictKnown'
    BY <1>21 DEF Exit, thread, memory, cancels
<1>22. ASSUME NEW j \in Jobs, TimeOut(j) PROVE VerdictKnown'
    BY <1>22 DEF TimeOut, Step, Killed, Decided, memory, cancels
<1>23. ASSUME NEW c \in Cancels, NEW j \in Jobs, CancelRead(c, j) PROVE VerdictKnown'
    BY <1>23 DEF CancelRead, At, thread, memory
<1>24. ASSUME NEW c \in Cancels, CancelFlag(c) PROVE VerdictKnown'
    BY <1>24 DEF CancelFlag, At, thread, memory
<1>25. ASSUME NEW c \in Cancels, CancelKill(c) PROVE VerdictKnown'
    BY <1>25 DEF CancelKill, At, Killed, thread, memory
<1>26. ASSUME NEW c \in Cancels, CancelLog(c) PROVE VerdictKnown'
    BY <1>26 DEF CancelLog, At, thread, memory
<1>27. ASSUME NEW c \in Cancels, CancelWrite(c) PROVE VerdictKnown'
    BY <1>27 DEF CancelWrite, At, Stored, thread, memory
<1>28. ASSUME Prune PROVE VerdictKnown'
    BY <1>28 DEF Prune, thread, memory, cancels
<1>29. ASSUME UNCHANGED vars PROVE VerdictKnown'
    BY <1>29 DEF vars, thread, memory, cancels
<1> QED
    BY <1>1, <1>2, <1>3, <1>4, <1>5, <1>6, <1>7, <1>8, <1>9, <1>10, <1>11, <1>12, <1>13,
       <1>14, <1>15, <1>16, <1>17, <1>18, <1>19, <1>20, <1>21, <1>22, <1>23, <1>24, <1>25, <1>26,
       <1>27, <1>28, <1>29 DEF Next, Runner, Cancel

\* Runners past their last write leave a settled row.
LEMMA RowKept ==
    ASSUME TypeOK, VerdictKnown, RowSettled, [Next]_vars
    PROVE  RowSettled'
<1> USE JobsAssumption DEF TypeOK, Places, Statuses, ACTIVE_RUN_STATUSES,
    TERMINAL_RUN_STATUSES, VerdictKnown, RowSettled
<1>1. ASSUME NEW j \in Jobs, Start(j) PROVE RowSettled'
    BY <1>1 DEF Start, Step, Stored, memory, cancels
<1>2. ASSUME NEW j \in Jobs, Launch(j) PROVE RowSettled'
    BY <1>2 DEF Launch, Step, memory, cancels
<1>3. ASSUME NEW j \in Jobs, Acquire(j) PROVE RowSettled'
    BY <1>3 DEF Acquire, Step, memory, cancels
<1>4. ASSUME NEW j \in Jobs, CancelledBeforeStart(j) PROVE RowSettled'
    BY <1>4 DEF CancelledBeforeStart, Step, Stored, memory, cancels
<1>5. ASSUME NEW j \in Jobs, CheckSettled(j) PROVE RowSettled'
    BY <1>5 DEF CheckSettled, Step, memory, cancels
<1>6. ASSUME NEW j \in Jobs, StoreRunning(j) PROVE RowSettled'
    BY <1>6 DEF StoreRunning, Step, Stored, memory, cancels
<1>7. ASSUME NEW j \in Jobs, Open(j) PROVE RowSettled'
    BY <1>7 DEF Open, Step, memory, cancels
<1>8. ASSUME NEW j \in Jobs, Register(j) PROVE RowSettled'
    BY <1>8 DEF Register, Step, memory, cancels
<1>9. ASSUME NEW j \in Jobs, StopOnFlag(j) PROVE RowSettled'
    BY <1>9 DEF StopOnFlag, Step, Killed, memory, cancels
<1>10. ASSUME NEW j \in Jobs, Drained(j) PROVE RowSettled'
    BY <1>10 DEF Drained, Step, memory, cancels
<1>11. ASSUME NEW j \in Jobs, ReadLatest(j) PROVE RowSettled'
    BY <1>11 DEF ReadLatest, Step, memory, cancels
<1>12. ASSUME NEW j \in Jobs, Decide(j) PROVE RowSettled'
    BY <1>12 DEF Decide, Step, Decided, Verdict, memory, cancels
<1>13. ASSUME NEW j \in Jobs, ReadBundle(j) PROVE RowSettled'
    BY <1>13 DEF ReadBundle, Step, memory, cancels
<1>14. ASSUME NEW j \in Jobs, WriteBundle(j) PROVE RowSettled'
    BY <1>14 DEF WriteBundle, Step, memory, cancels
<1>15. ASSUME NEW j \in Jobs, StoreVerdict(j) PROVE RowSettled'
    BY <1>15 DEF StoreVerdict, Step, Stored, memory, cancels
<1>16. ASSUME NEW j \in Jobs, LogVerdict(j) PROVE RowSettled'
    BY <1>16 DEF LogVerdict, Step, memory, cancels
<1>17. ASSUME NEW j \in Jobs, Raised(j) PROVE RowSettled'
    BY <1>17 DEF Raised, Step, Killed, Decided, memory, cancels
<1>18. ASSUME NEW j \in Jobs, Rewrite(j) PROVE RowSettled'
    BY <1>18 DEF Rewrite, Step, Stored, memory, cancels
<1>19. ASSUME NEW j \in Jobs, Finally(j) PROVE RowSettled'
    BY <1>19 DEF Finally, Step, memory, cancels
<1>20. ASSUME NEW j \in Jobs, ReadingFails(j) PROVE RowSettled'
    BY <1>20 DEF ReadingFails, Step, memory, cancels
<1>21. ASSUME NEW j \in Jobs, Exit(j) PROVE RowSettled'
    BY <1>21 DEF Exit, thread, memory, cancels
<1>22. ASSUME NEW j \in Jobs, TimeOut(j) PROVE RowSettled'
    BY <1>22 DEF TimeOut, Step, Killed, Decided, memory, cancels
<1>23. ASSUME NEW c \in Cancels, NEW j \in Jobs, CancelRead(c, j) PROVE RowSettled'
    BY <1>23 DEF CancelRead, At, thread, memory
<1>24. ASSUME NEW c \in Cancels, CancelFlag(c) PROVE RowSettled'
    BY <1>24 DEF CancelFlag, At, thread, memory
<1>25. ASSUME NEW c \in Cancels, CancelKill(c) PROVE RowSettled'
    BY <1>25 DEF CancelKill, At, Killed, thread, memory
<1>26. ASSUME NEW c \in Cancels, CancelLog(c) PROVE RowSettled'
    BY <1>26 DEF CancelLog, At, thread, memory
<1>27. ASSUME NEW c \in Cancels, CancelWrite(c) PROVE RowSettled'
    BY <1>27 DEF CancelWrite, At, Stored, thread, memory
<1>28. ASSUME Prune PROVE RowSettled'
    BY <1>28 DEF Prune, thread, memory, cancels
<1>29. ASSUME UNCHANGED vars PROVE RowSettled'
    BY <1>29 DEF vars, thread, memory, cancels
<1> QED
    BY <1>1, <1>2, <1>3, <1>4, <1>5, <1>6, <1>7, <1>8, <1>9, <1>10, <1>11, <1>12, <1>13,
       <1>14, <1>15, <1>16, <1>17, <1>18, <1>19, <1>20, <1>21, <1>22, <1>23, <1>24, <1>25, <1>26,
       <1>27, <1>28, <1>29 DEF Next, Runner, Cancel

\* The semaphore counts: a slot is taken only below the limit.
LEMMA SlotsKept ==
    ASSUME TypeOK, SlotsBounded, [Next]_vars
    PROVE  SlotsBounded'
<1>1. IsFiniteSet(holders)
    BY JobsAssumption, FS_Subset DEF TypeOK
<1>2. Cardinality(holders) \in Nat
    BY <1>1, FS_CardinalityType
<1>3. ASSUME NEW j \in Jobs, Acquire(j) PROVE SlotsBounded'
    <2>1. Cardinality(holders) < MaxActive /\ holders' = holders \cup {j}
        BY <1>3 DEF Acquire
    <2>2. Cardinality(holders') <= Cardinality(holders) + 1
        BY <1>1, <1>2, <2>1, FS_AddElement
    <2>3. Cardinality(holders') \in Nat
        BY <1>1, <2>1, FS_AddElement, FS_CardinalityType
    <2> QED
        BY <1>2, <2>1, <2>2, <2>3, JobsAssumption DEF SlotsBounded
<1>4. ASSUME NEW j \in Jobs, Finally(j) PROVE SlotsBounded'
    <2>1. holders' \subseteq holders
        BY <1>4 DEF Finally
    <2>2. Cardinality(holders') <= Cardinality(holders) /\ Cardinality(holders') \in Nat
        BY <1>1, <2>1, FS_Subset, FS_CardinalityType
    <2> QED
        BY <1>2, <2>2, JobsAssumption DEF SlotsBounded
<1>5. ASSUME holders' = holders PROVE SlotsBounded'
    BY <1>5 DEF SlotsBounded
<1>6. CASE \E j \in Jobs : Start(j) \/ Runner(j) \/ ReadingFails(j) \/ Exit(j) \/ TimeOut(j)
    BY <1>3, <1>4, <1>5, <1>6 DEF Runner, memory, Start, ReadingFails, Exit, TimeOut, Launch,
       CancelledBeforeStart, CheckSettled, StoreRunning, Open, Register, StopOnFlag, Drained,
       ReadLatest, Decide, ReadBundle, WriteBundle, StoreVerdict, LogVerdict, Raised, Rewrite
<1>7. CASE \E c \in Cancels : Cancel(c)
    BY <1>5, <1>7 DEF Cancel, memory, CancelRead, CancelFlag, CancelKill, CancelLog, CancelWrite
<1>8. CASE Prune \/ UNCHANGED vars
    BY <1>5, <1>8 DEF Prune, vars, memory
<1> QED
    BY <1>6, <1>7, <1>8 DEF Next

\* The bundle loses artifacts only to builds that overlapped.
LEMMA BundleKept ==
    ASSUME JobsInv, BundleInv, [Next]_vars
    PROVE  BundleInv'
<1> USE JobsAssumption DEF JobsInv, TypeOK, Places, Statuses, ACTIVE_RUN_STATUSES,
    TERMINAL_RUN_STATUSES, BundleInv, Past, Merged, Overlapped
<1>1. ASSUME NEW j \in Jobs, Start(j) PROVE BundleInv'
    BY <1>1 DEF Start, Step, Stored, memory, cancels
<1>2. ASSUME NEW j \in Jobs, Launch(j) PROVE BundleInv'
    BY <1>2 DEF Launch, Step, memory, cancels
<1>3. ASSUME NEW j \in Jobs, Acquire(j) PROVE BundleInv'
    BY <1>3 DEF Acquire, Step, memory, cancels
<1>4. ASSUME NEW j \in Jobs, CancelledBeforeStart(j) PROVE BundleInv'
    BY <1>4 DEF CancelledBeforeStart, Step, Stored, memory, cancels
<1>5. ASSUME NEW j \in Jobs, CheckSettled(j) PROVE BundleInv'
    BY <1>5 DEF CheckSettled, Step, memory, cancels
<1>6. ASSUME NEW j \in Jobs, StoreRunning(j) PROVE BundleInv'
    BY <1>6 DEF StoreRunning, Step, Stored, memory, cancels
<1>7. ASSUME NEW j \in Jobs, Open(j) PROVE BundleInv'
    BY <1>7 DEF Open, Step, memory, cancels
<1>8. ASSUME NEW j \in Jobs, Register(j) PROVE BundleInv'
    BY <1>8 DEF Register, Step, memory, cancels
<1>9. ASSUME NEW j \in Jobs, StopOnFlag(j) PROVE BundleInv'
    BY <1>9 DEF StopOnFlag, Step, Killed, memory, cancels
<1>10. ASSUME NEW j \in Jobs, Drained(j) PROVE BundleInv'
    BY <1>10 DEF Drained, Step, memory, cancels
<1>11. ASSUME NEW j \in Jobs, ReadLatest(j) PROVE BundleInv'
    BY <1>11 DEF ReadLatest, Step, memory, cancels
<1>12. ASSUME NEW j \in Jobs, Decide(j) PROVE BundleInv'
    BY <1>12 DEF Decide, Step, Decided, Verdict, memory, cancels
<1>13. ASSUME NEW j \in Jobs, ReadBundle(j) PROVE BundleInv'
    BY <1>13 DEF ReadBundle, Step, memory, cancels
<1>14. ASSUME NEW j \in Jobs, WriteBundle(j) PROVE BundleInv'
    <2>1. /\ seen' = seen /\ row' = row /\ verdict' = verdict /\ bundle' = seen[j] \cup {j}
          /\ runner[j] = "merging" /\ runner' = [runner EXCEPT ![j] = "writing"]
        BY <1>14 DEF WriteBundle, Step
    <2>2. j \notin Past /\ Past' = Past \cup {j}
        BY <2>1
    <2>3. \A k \in Jobs : k = j \/ k \in seen[j] \/ Overlapped(k, j)
        BY <2>2
    <2>4. \A k \in Jobs : Merged(k)'
        BY <2>1, <2>3
    <2> QED
        BY <2>1, <2>2, <2>4
<1>15. ASSUME NEW j \in Jobs, StoreVerdict(j) PROVE BundleInv'
    BY <1>15 DEF StoreVerdict, Step, Stored, memory, cancels
<1>16. ASSUME NEW j \in Jobs, LogVerdict(j) PROVE BundleInv'
    BY <1>16 DEF LogVerdict, Step, memory, cancels
<1>17. ASSUME NEW j \in Jobs, Raised(j) PROVE BundleInv'
    BY <1>17 DEF Raised, Step, Killed, Decided, memory, cancels
<1>18. ASSUME NEW j \in Jobs, Rewrite(j) PROVE BundleInv'
    BY <1>18 DEF Rewrite, Step, Stored, memory, cancels
<1>19. ASSUME NEW j \in Jobs, Finally(j) PROVE BundleInv'
    BY <1>19 DEF Finally, Step, memory, cancels
<1>20. ASSUME NEW j \in Jobs, ReadingFails(j) PROVE BundleInv'
    BY <1>20 DEF ReadingFails, Step, memory, cancels
<1>21. ASSUME NEW j \in Jobs, Exit(j) PROVE BundleInv'
    BY <1>21 DEF Exit, thread, memory, cancels
<1>22. ASSUME NEW j \in Jobs, TimeOut(j) PROVE BundleInv'
    BY <1>22 DEF TimeOut, Step, Killed, Decided, memory, cancels
<1>23. ASSUME NEW c \in Cancels, NEW j \in Jobs, CancelRead(c, j) PROVE BundleInv'
    BY <1>23 DEF CancelRead, At, thread, memory
<1>24. ASSUME NEW c \in Cancels, CancelFlag(c) PROVE BundleInv'
    BY <1>24 DEF CancelFlag, At, thread, memory
<1>25. ASSUME NEW c \in Cancels, CancelKill(c) PROVE BundleInv'
    BY <1>25 DEF CancelKill, At, Killed, thread, memory
<1>26. ASSUME NEW c \in Cancels, CancelLog(c) PROVE BundleInv'
    BY <1>26 DEF CancelLog, At, thread, memory
<1>27. ASSUME NEW c \in Cancels, CancelWrite(c) PROVE BundleInv'
    BY <1>27 DEF CancelWrite, At, Stored, thread, memory
<1>28. ASSUME Prune PROVE BundleInv'
    BY <1>28 DEF Prune, thread, memory, cancels
<1>29. ASSUME UNCHANGED vars PROVE BundleInv'
    BY <1>29 DEF vars, thread, memory, cancels
<1> QED
    BY <1>1, <1>2, <1>3, <1>4, <1>5, <1>6, <1>7, <1>8, <1>9, <1>10, <1>11, <1>12, <1>13,
       <1>14, <1>15, <1>16, <1>17, <1>18, <1>19, <1>20, <1>21, <1>22, <1>23, <1>24, <1>25, <1>26,
       <1>27, <1>28, <1>29 DEF Next, Runner, Cancel

-----------------------------------------------------------------------------
\* The state of the jobs keeps its invariant, whatever threads, requests and pruning do.
THEOREM JobsInductive == Spec => []JobsInv
<1>1. Init => JobsInv
    BY InitHolds
<1>2. JobsInv /\ [Next]_vars => JobsInv'
    BY TypeKept, TargetedKept, InSlotKept, AliveKept, SlotsKept, VerdictKept, RowKept DEF JobsInv
<1> QED
    BY <1>1, <1>2, PTL DEF Spec

\* No more subprocesses are alive than the semaphore has slots.
THEOREM ProcessesBounded == Spec => []BoundedProcesses
<1>1. JobsInv => BoundedProcesses
    <2> SUFFICES ASSUME JobsInv PROVE BoundedProcesses
        OBVIOUS
    <2> DEFINE Alive == {j \in Jobs : process[j] = "alive"}
    <2>1. IsFiniteSet(holders) /\ Cardinality(holders) \in Nat
        BY JobsAssumption, FS_Subset, FS_CardinalityType DEF JobsInv, TypeOK
    <2>2. Alive \subseteq holders
        BY DEF JobsInv, AliveInSlot
    <2>3. Cardinality(Alive) <= Cardinality(holders) /\ Cardinality(Alive) \in Nat
        BY <2>1, <2>2, FS_Subset, FS_CardinalityType
    <2>4. Cardinality(Alive) <= MaxActive
        BY <2>1, <2>3, JobsAssumption DEF JobsInv, SlotsBounded
    <2> QED
        BY <2>4 DEF BoundedProcesses
<1> QED
    BY <1>1, JobsInductive, PTL

\* A runner that ended leaves no row queued or running.
THEOREM RowsSettle == Spec => []SettledRow
<1>1. JobsInv => SettledRow
    BY DEF JobsInv, RowSettled, SettledRow
<1> QED
    BY <1>1, JobsInductive, PTL

\* For any number of slots, a completed build is in the bundle, or a build that
\* overlapped with it stored the bundle after it.
THEOREM UpdatesKept == Spec => []UpdateKept
<1>1. Init => JobsInv /\ BundleInv
    BY InitHolds
<1>2. JobsInv /\ BundleInv /\ [Next]_vars => BundleInv'
    BY BundleKept
<1>3. BundleInv => UpdateKept
    BY DEF BundleInv, Merged, UpdateKept
<1> QED
    BY <1>1, <1>2, <1>3, JobsInductive, PTL DEF Spec

\* Every reachable state of the jobs is well-typed.
THEOREM JobsTyped == Spec => []TypeOK
<1>1. JobsInv => TypeOK
    BY DEF JobsInv
<1> QED
    BY <1>1, JobsInductive, PTL

-----------------------------------------------------------------------------
(* WorkbenchJobs implements JobPool: a slot is a stage of its job, and each *)
(* step of a runner, a request or the pruning is one of the pool's or none. *)

\* Outside the semaphore a runner has no slot, and before Popen no process.
Entering ==
    \A j \in Jobs :
        /\ runner[j] \in {"new", "queueing", "waiting", "ended"} => j \notin holders
        /\ runner[j] \in {"new", "queueing", "waiting", "acquired", "starting", "opening"}
             => process[j] = "none"

PoolInv == JobsInv /\ Entering

\* Slots and processes come in this order, whatever runs beside.
LEMMA EnteringKept ==
    ASSUME TypeOK, Targeted, Entering, [Next]_vars
    PROVE  Entering'
<1> USE DEF TypeOK, Entering, Targeted
<1>1. ASSUME NEW j \in Jobs, Start(j) PROVE Entering'
    BY <1>1 DEF Start, Step, Stored, memory, cancels
<1>2. ASSUME NEW j \in Jobs, Launch(j) PROVE Entering'
    BY <1>2 DEF Launch, Step, memory, cancels
<1>3. ASSUME NEW j \in Jobs, Acquire(j) PROVE Entering'
    BY <1>3 DEF Acquire, Step, memory, cancels
<1>4. ASSUME NEW j \in Jobs, CancelledBeforeStart(j) PROVE Entering'
    BY <1>4 DEF CancelledBeforeStart, Step, Stored, memory, cancels
<1>5. ASSUME NEW j \in Jobs, CheckSettled(j) PROVE Entering'
    BY <1>5 DEF CheckSettled, Step, memory, cancels
<1>6. ASSUME NEW j \in Jobs, StoreRunning(j) PROVE Entering'
    BY <1>6 DEF StoreRunning, Step, Stored, memory, cancels
<1>7. ASSUME NEW j \in Jobs, Open(j) PROVE Entering'
    BY <1>7 DEF Open, Step, memory, cancels
<1>8. ASSUME NEW j \in Jobs, Register(j) PROVE Entering'
    BY <1>8 DEF Register, Step, memory, cancels
<1>9. ASSUME NEW j \in Jobs, StopOnFlag(j) PROVE Entering'
    BY <1>9 DEF StopOnFlag, Step, Killed, memory, cancels
<1>10. ASSUME NEW j \in Jobs, Drained(j) PROVE Entering'
    BY <1>10 DEF Drained, Step, memory, cancels
<1>11. ASSUME NEW j \in Jobs, ReadLatest(j) PROVE Entering'
    BY <1>11 DEF ReadLatest, Step, memory, cancels
<1>12. ASSUME NEW j \in Jobs, Decide(j) PROVE Entering'
    BY <1>12 DEF Decide, Step, Decided, memory, cancels
<1>13. ASSUME NEW j \in Jobs, ReadBundle(j) PROVE Entering'
    BY <1>13 DEF ReadBundle, Step, memory, cancels
<1>14. ASSUME NEW j \in Jobs, WriteBundle(j) PROVE Entering'
    BY <1>14 DEF WriteBundle, Step, memory, cancels
<1>15. ASSUME NEW j \in Jobs, StoreVerdict(j) PROVE Entering'
    BY <1>15 DEF StoreVerdict, Step, Stored, memory, cancels
<1>16. ASSUME NEW j \in Jobs, LogVerdict(j) PROVE Entering'
    BY <1>16 DEF LogVerdict, Step, memory, cancels
<1>17. ASSUME NEW j \in Jobs, Raised(j) PROVE Entering'
    BY <1>17 DEF Raised, Step, Killed, Decided, memory, cancels
<1>18. ASSUME NEW j \in Jobs, Rewrite(j) PROVE Entering'
    BY <1>18 DEF Rewrite, Step, Stored, memory, cancels
<1>19. ASSUME NEW j \in Jobs, Finally(j) PROVE Entering'
    BY <1>19 DEF Finally, Step, memory, cancels
<1>20. ASSUME NEW j \in Jobs, ReadingFails(j) PROVE Entering'
    BY <1>20 DEF ReadingFails, Step, memory, cancels
<1>21. ASSUME NEW j \in Jobs, Exit(j) PROVE Entering'
    BY <1>21 DEF Exit, thread, memory, cancels
<1>22. ASSUME NEW j \in Jobs, TimeOut(j) PROVE Entering'
    BY <1>22 DEF TimeOut, Step, Killed, Decided, memory, cancels
<1>23. ASSUME NEW c \in Cancels, NEW j \in Jobs, CancelRead(c, j) PROVE Entering'
    BY <1>23 DEF CancelRead, At, thread, memory
<1>24. ASSUME NEW c \in Cancels, CancelFlag(c) PROVE Entering'
    BY <1>24 DEF CancelFlag, At, thread, memory
<1>25. ASSUME NEW c \in Cancels, CancelKill(c) PROVE Entering'
    BY <1>25 DEF CancelKill, At, Killed, thread, memory
<1>26. ASSUME NEW c \in Cancels, CancelLog(c) PROVE Entering'
    BY <1>26 DEF CancelLog, At, thread, memory
<1>27. ASSUME NEW c \in Cancels, CancelWrite(c) PROVE Entering'
    BY <1>27 DEF CancelWrite, At, Stored, thread, memory
<1>28. ASSUME Prune PROVE Entering'
    BY <1>28 DEF Prune, thread, memory, cancels
<1>29. ASSUME UNCHANGED vars PROVE Entering'
    BY <1>29 DEF vars, thread, memory, cancels
<1> QED
    BY <1>1, <1>2, <1>3, <1>4, <1>5, <1>6, <1>7, <1>8, <1>9, <1>10, <1>11, <1>12, <1>13,
       <1>14, <1>15, <1>16, <1>17, <1>18, <1>19, <1>20, <1>21, <1>22, <1>23, <1>24,
       <1>25, <1>26, <1>27, <1>28, <1>29 DEF Next, Runner, Cancel

PStage == [j \in Jobs |-> Stage(j)]
PSub == [j \in Jobs |-> Sub(j)]
PReport == [j \in Jobs |-> Report(j)]

\* A runner that moves between places of one stage leaves the stages alone.
Early == {"new", "queueing"}
LEMMA StagesKept ==
    ASSUME TypeOK, holders' = holders, NEW j \in Jobs, NEW from, NEW to, Step(j, from, to),
           \/ from \in Early /\ to \in Early
           \/ from \notin Early \cup {"ended"} /\ to \notin Early \cup {"ended"}
    PROVE  PStage' = PStage
<1>1. \A k \in Jobs : Stage(k)' = Stage(k)
    <2> TAKE k \in Jobs
    <2>1. runner'[k] = IF k = j THEN to ELSE runner[k]
        BY DEF Step, TypeOK
    <2>2. (k \in holders)' <=> k \in holders
        OBVIOUS
    <2> QED
        BY <2>1, <2>2 DEF Step, Stage, Early
<1> QED
    BY <1>1 DEF PStage

\* A process that is killed, or not, dies once.
LEMMA KilledDies ==
    ASSUME TypeOK, NEW j \in Jobs, Killed(j), PStage' = PStage, PReport' = PReport
    PROVE  Pool!Next \/ UNCHANGED Pool!pvars
<1>1. process' = [process EXCEPT ![j] = IF process[j] = "alive" THEN "failed" ELSE process[j]]
    BY DEF Killed
<1>2. process \in [Jobs -> {"none", "alive", "ok", "failed"}]
    BY DEF TypeOK
<1>3. CASE process[j] = "alive"
    <2>1. PSub[j] = "alive" /\ PSub' = [PSub EXCEPT ![j] = "dead"]
        BY <1>1, <1>2, <1>3 DEF PSub, Sub
    <2>2. Pool!Die(j)
        BY <2>1 DEF Pool!Die, PStage, PSub, PReport
    <2> QED
        BY <2>2 DEF Pool!Next
<1>4. CASE process[j] # "alive"
    <2>1. process' = process
        BY <1>1, <1>2, <1>4
    <2> QED
        BY <2>1 DEF Pool!pvars, PStage, PSub, PReport, Sub
<1> QED
    BY <1>3, <1>4

\* What is stored for a job is told of it, if the job has not left.
LEMMA StoredTells ==
    ASSUME TypeOK, NEW j \in Jobs, NEW status \in Statuses, Stored(j, status),
           PStage' = PStage, PSub' = PSub,
           PStage[j] # "over" \/ status \in TERMINAL_RUN_STATUSES
    PROVE  Pool!Next
<1> DEFINE r == IF status \in ACTIVE_RUN_STATUSES THEN "active" ELSE "settled"
<1>1. row' = [row EXCEPT ![j] = status] /\ row \in [Jobs -> Statuses \cup {"none"}]
    BY DEF Stored, TypeOK
<1>2. status # "none"
    BY DEF Statuses, ACTIVE_RUN_STATUSES, TERMINAL_RUN_STATUSES
<1>3. PReport' = [PReport EXCEPT ![j] = r]
    BY <1>1, <1>2 DEF PReport, Report
<1>4. PStage[j] = "over" => r # "active"
    BY DEF ACTIVE_RUN_STATUSES, TERMINAL_RUN_STATUSES
<1>5. r \in {"active", "settled"}
    OBVIOUS
<1> HIDE DEF r
<1>6. Pool!Tell(j, r)
    BY <1>3, <1>4 DEF Pool!Tell, PStage, PSub, PReport
<1> QED
    BY <1>5, <1>6 DEF Pool!Next

LEMMA SlotsInside == ASSUME TypeOK PROVE Pool!Inside = holders
    BY DEF Pool!Inside, Stage, TypeOK

\* A job leaves the pool when its runner ends, without a process and with its row
\* settled or gone.
LEMMA EndLeaves ==
    ASSUME PoolInv, NEW j \in Jobs, runner[j] \in {"queueing", "finally"},
           runner' = [runner EXCEPT ![j] = "ended"], holders' = holders \ {j},
           row[j] \notin ACTIVE_RUN_STATUSES, row' = row, process' = process
    PROVE  Pool!Next
<1>1. TypeOK /\ Entering /\ AliveInSlot
    BY DEF PoolInv, JobsInv
<1>2. \A k \in Jobs : Stage(k)' = IF k = j THEN "over" ELSE Stage(k)
    <2> TAKE k \in Jobs
    <2>1. runner'[k] = IF k = j THEN "ended" ELSE runner[k]
        BY <1>1 DEF TypeOK
    <2>2. (k \in holders)' <=> k \in holders /\ k # j
        OBVIOUS
    <2> QED
        BY <2>1, <2>2 DEF Stage
<1>3. PStage' = [PStage EXCEPT ![j] = "over"] /\ PSub' = PSub /\ PReport' = PReport
    BY <1>2 DEF PStage, PSub, Sub, PReport, Report
<1>4. PStage[j] # "over" /\ PSub[j] # "alive" /\ PReport[j] # "active"
    <2>1. PStage[j] # "over"
        BY DEF PStage, Stage
    <2>2. process[j] # "alive"
        BY <1>1 DEF AliveInSlot
    <2> QED
        BY <2>1, <2>2 DEF PSub, Sub, PReport, Report
<1>5. Pool!Leave(j)
    BY <1>3, <1>4 DEF Pool!Leave, PStage, PSub, PReport
<1> QED
    BY <1>5 DEF Pool!Next

\* Steps of a runner that only the runner sees.
LEMMA Unseen ==
    ASSUME TypeOK, NEW j \in Jobs,
           \/ CheckSettled(j) \/ Register(j) \/ Drained(j) \/ ReadingFails(j)
           \/ ReadLatest(j) \/ Decide(j) \/ ReadBundle(j) \/ WriteBundle(j) \/ LogVerdict(j)
    PROVE  UNCHANGED Pool!pvars
<1>1. \E from, to \in Places :
          /\ Step(j, from, to)
          /\ from \notin Early \cup {"ended"} /\ to \notin Early \cup {"ended"}
    BY DEF CheckSettled, Register, Drained, ReadingFails, ReadLatest, Decide, ReadBundle,
           WriteBundle, LogVerdict, Early, Places
<1>2. holders' = holders /\ process' = process /\ row' = row
    BY DEF CheckSettled, Register, Drained, ReadingFails, ReadLatest, Decide, ReadBundle,
           WriteBundle, LogVerdict, memory
<1>3. PStage' = PStage
    BY <1>1, <1>2, StagesKept
<1> QED
    BY <1>2, <1>3 DEF Pool!pvars, PStage, PSub, Sub, PReport, Report

LEMMA PoolStep == PoolInv /\ [Next]_vars => [Pool!Next]_Pool!pvars
<1> SUFFICES ASSUME PoolInv, [Next]_vars
             PROVE  Pool!Next \/ UNCHANGED Pool!pvars
    OBVIOUS
<1>0. /\ TypeOK /\ Entering /\ InSlot /\ AliveInSlot /\ Targeted /\ VerdictKnown
      /\ RowSettled
    BY DEF PoolInv, JobsInv
<1>1. ASSUME row' = row PROVE PReport' = PReport
    BY <1>1 DEF PReport, Report
<1>2. ASSUME process' = process PROVE PSub' = PSub
    BY <1>2 DEF PSub, Sub
<1>3. ASSUME holders' = holders, runner' = runner PROVE PStage' = PStage
    BY <1>3 DEF PStage, Stage
<1>4. ASSUME NEW j \in Jobs, Start(j) PROVE Pool!Next
    <2>1. PStage' = PStage
        BY <1>0, <1>4, StagesKept DEF Start, Early, memory
    <2>2. PStage[j] # "over"
        BY <1>0, <1>4 DEF Start, Step, PStage, Stage
    <2>3. "queued" \in Statuses
        BY DEF Statuses, ACTIVE_RUN_STATUSES
    <2> QED
        BY <1>0, <1>2, <1>4, <2>1, <2>2, <2>3, StoredTells DEF Start
<1>5. ASSUME NEW j \in Jobs, Launch(j) PROVE Pool!Next
    <2>1. /\ runner[j] = "queueing" /\ row' = row /\ process' = process
          /\ holders' = holders /\ j \notin holders
          /\ runner' = [runner EXCEPT ![j] = IF row[j] = "none" THEN "ended" ELSE "waiting"]
        BY <1>0, <1>5 DEF Launch, Step, memory, Entering
    <2>2. CASE row[j] = "none"
        <3>1. row[j] \notin ACTIVE_RUN_STATUSES
            BY <2>2 DEF ACTIVE_RUN_STATUSES
        <3>2. holders' = holders \ {j}
            BY <2>1
        <3> QED
            BY <2>1, <2>2, <3>1, <3>2, EndLeaves
    <2>3. CASE row[j] # "none"
        <3>1. \A k \in Jobs : runner'[k] = IF k = j THEN "waiting" ELSE runner[k]
            BY <1>0, <2>1, <2>3 DEF TypeOK
        <3>2. \A k \in Jobs : Stage(k)' = IF k = j THEN "waiting" ELSE Stage(k)
            <4> TAKE k \in Jobs
            <4>1. (k \in holders)' <=> k \in holders
                BY <2>1
            <4> QED
                BY <2>1, <3>1, <4>1 DEF Stage
        <3>3. PStage[j] = "new" /\ PStage' = [PStage EXCEPT ![j] = "waiting"]
            BY <2>1, <3>2 DEF PStage, Stage
        <3>4. Pool!Admit(j)
            BY <1>1, <1>2, <2>1, <3>3 DEF Pool!Admit, PStage, PSub, PReport
        <3> QED
            BY <3>4 DEF Pool!Next
    <2> QED
        BY <2>2, <2>3
<1>6. ASSUME NEW j \in Jobs, Acquire(j) PROVE Pool!Next
    <2>1. /\ runner[j] = "waiting" /\ row' = row /\ process' = process
          /\ holders' = holders \cup {j} /\ j \notin holders
          /\ Cardinality(holders) < MaxActive
          /\ runner' = [runner EXCEPT ![j] = "acquired"]
        BY <1>0, <1>6 DEF Acquire, Step, Entering
    <2>2. \A k \in Jobs : runner'[k] = IF k = j THEN "acquired" ELSE runner[k]
        BY <1>0, <2>1 DEF TypeOK
    <2>3. PStage[j] = "waiting" /\ PStage' = [PStage EXCEPT ![j] = "inside"]
        BY <2>1, <2>2 DEF PStage, Stage
    <2>4. Pool!Enter(j)
        <3>1. PSub' = PSub /\ PReport' = PReport
            BY <1>1, <1>2, <2>1
        <3>2. Pool!Cardinality(holders) = Cardinality(holders)
            BY Zenon DEF Pool!Cardinality, Cardinality
        <3>3. Pool!Cardinality(Pool!Inside) < MaxActive
            BY <1>0, <2>1, <3>2, SlotsInside, Zenon
        <3> QED
            BY <2>3, <3>1, <3>3, Zenon DEF Pool!Enter, PStage, PSub, PReport
    <2> QED
        BY <2>4 DEF Pool!Next
<1>7. ASSUME NEW j \in Jobs,
             CancelledBeforeStart(j) \/ StoreRunning(j) \/ StoreVerdict(j) \/ Rewrite(j)
      PROVE  Pool!Next
    <2>1. PICK status \in Statuses : Stored(j, status)
        BY <1>0, <1>7 DEF CancelledBeforeStart, StoreRunning, StoreVerdict, Rewrite, Statuses,
           ACTIVE_RUN_STATUSES, TERMINAL_RUN_STATUSES, TypeOK
    <2>2. \E from, to \in Places :
              /\ Step(j, from, to)
              /\ from \notin Early \cup {"ended"} /\ to \notin Early \cup {"ended"}
        BY <1>7 DEF CancelledBeforeStart, StoreRunning, StoreVerdict, Rewrite, Early, Places
    <2>3. holders' = holders /\ process' = process
        BY <1>7 DEF CancelledBeforeStart, StoreRunning, StoreVerdict, Rewrite, memory
    <2>4. PStage' = PStage
        BY <1>0, <2>2, <2>3, StagesKept
    <2>5. PStage[j] # "over"
        BY <2>2 DEF Step, PStage, Stage
    <2> QED
        BY <1>0, <1>2, <2>1, <2>3, <2>4, <2>5, StoredTells
<1>8. ASSUME NEW j \in Jobs, Open(j) PROVE Pool!Next \/ UNCHANGED Pool!pvars
    <2>1. holders' = holders /\ row' = row /\ runner[j] = "opening"
        BY <1>8 DEF Open, Step, memory
    <2>2. PStage' = PStage
        <3>1. \E to \in {"raised", "registering"} : Step(j, "opening", to)
            BY <1>8 DEF Open
        <3> QED
            BY <1>0, <2>1, <3>1, StagesKept DEF Early
    <2>3. CASE process' = process
        BY <1>1, <1>2, <2>1, <2>2, <2>3 DEF Pool!pvars, PStage, PSub, PReport
    <2>4. CASE process' = [process EXCEPT ![j] = "alive"]
        <3>1. process[j] = "none" /\ j \in holders
            BY <1>0, <2>1 DEF Entering, InSlot, Inside
        <3>2. process \in [Jobs -> {"none", "alive", "ok", "failed"}]
            BY <1>0 DEF TypeOK
        <3>3. PSub[j] = "none" /\ PSub' = [PSub EXCEPT ![j] = "alive"]
            BY <2>4, <3>1, <3>2 DEF PSub, Sub
        <3>4. PStage[j] = "inside"
            BY <3>1 DEF PStage, Stage
        <3>5. Pool!Spawn(j)
            BY <1>1, <2>1, <2>2, <3>3, <3>4 DEF Pool!Spawn, PStage, PSub, PReport
        <3> QED
            BY <3>5 DEF Pool!Next
    <2> QED
        BY <1>8, <2>3, <2>4 DEF Open
<1>9. ASSUME NEW j \in Jobs, StopOnFlag(j) \/ TimeOut(j) \/ Raised(j)
      PROVE  Pool!Next \/ UNCHANGED Pool!pvars
    <2>1. holders' = holders /\ row' = row /\ Killed(j)
        BY <1>9 DEF StopOnFlag, TimeOut, Raised, memory
    <2>2. \E from, to \in Places :
              /\ Step(j, from, to)
              /\ from \notin Early \cup {"ended"} /\ to \notin Early \cup {"ended"}
        BY <1>9 DEF StopOnFlag, TimeOut, Raised, Early, Places
    <2> QED
        BY <1>0, <1>1, <2>1, <2>2, StagesKept, KilledDies
<1>10. ASSUME NEW j \in Jobs, Exit(j) PROVE Pool!Next
    <2>1. /\ process[j] = "alive" /\ row' = row /\ holders' = holders /\ runner' = runner
          /\ \E code \in {"ok", "failed"} : process' = [process EXCEPT ![j] = code]
        BY <1>10 DEF Exit, thread, memory
    <2>2. process \in [Jobs -> {"none", "alive", "ok", "failed"}]
        BY <1>0 DEF TypeOK
    <2>3. PSub[j] = "alive" /\ PSub' = [PSub EXCEPT ![j] = "dead"]
        BY <2>1, <2>2 DEF PSub, Sub
    <2>4. Pool!Die(j)
        BY <1>1, <1>3, <2>1, <2>3 DEF Pool!Die, PStage, PSub, PReport
    <2> QED
        BY <2>4 DEF Pool!Next
<1>11. ASSUME NEW j \in Jobs, Finally(j) PROVE Pool!Next
    <2>1. /\ runner[j] = "finally" /\ runner' = [runner EXCEPT ![j] = "ended"]
          /\ holders' = holders \ {j} /\ row' = row /\ process' = process
        BY <1>11 DEF Finally, Step
    <2>2. row[j] \notin ACTIVE_RUN_STATUSES
        BY <1>0, <2>1 DEF RowSettled
    <2> QED
        BY <2>1, <2>2, EndLeaves
<1>12. ASSUME NEW c \in Cancels, CancelKill(c) PROVE Pool!Next \/ UNCHANGED Pool!pvars
    <2>1. /\ holders' = holders /\ runner' = runner /\ row' = row /\ target[c] \in Jobs
          /\ Killed(target[c]) \/ process' = process
        BY <1>0, <1>12 DEF CancelKill, At, Targeted, thread, memory
    <2>2. CASE Killed(target[c])
        BY <1>0, <1>1, <1>3, <2>1, <2>2, KilledDies
    <2>3. CASE process' = process
        BY <1>1, <1>2, <1>3, <2>1, <2>3 DEF Pool!pvars, PStage, PSub, PReport
    <2> QED
        BY <2>1, <2>2, <2>3
<1>13. ASSUME NEW c \in Cancels, CancelWrite(c) PROVE Pool!Next
    <2>1. /\ holders' = holders /\ runner' = runner /\ process' = process
          /\ target[c] \in Jobs /\ Stored(target[c], "cancelled")
        BY <1>0, <1>13 DEF CancelWrite, At, Targeted, thread, memory
    <2>2. "cancelled" \in Statuses /\ "cancelled" \in TERMINAL_RUN_STATUSES
        BY DEF Statuses, TERMINAL_RUN_STATUSES
    <2> QED
        BY <1>0, <1>2, <1>3, <2>1, <2>2, StoredTells
<1>14. ASSUME NEW c \in Cancels,
              CancelFlag(c) \/ CancelLog(c) \/ \E j \in Jobs : CancelRead(c, j)
       PROVE  UNCHANGED Pool!pvars
    <2>1. holders' = holders /\ runner' = runner /\ process' = process /\ row' = row
        BY <1>14 DEF CancelFlag, CancelLog, CancelRead, thread, memory
    <2> QED
        BY <1>1, <1>2, <1>3, <2>1 DEF Pool!pvars, PStage, PSub, PReport
<1>15. CASE Prune
    <2>1. PICK old \in SUBSET Jobs :
              row' = [j \in Jobs |-> IF j \in old THEN "none" ELSE row[j]]
        BY <1>15 DEF Prune
    <2>2. holders' = holders /\ runner' = runner /\ process' = process
        BY <1>15 DEF Prune, thread, memory
    <2>3. PReport' = [j \in Jobs |-> IF j \in old THEN "none" ELSE PReport[j]]
        BY <2>1 DEF PReport, Report
    <2>4. Pool!Forget(old)
        BY <1>2, <1>3, <2>2, <2>3 DEF Pool!Forget, PStage, PSub, PReport
    <2> QED
        BY <2>4 DEF Pool!Next
<1>16. CASE UNCHANGED vars
    <2>1. holders' = holders /\ runner' = runner /\ process' = process /\ row' = row
        BY <1>16 DEF vars, thread, memory
    <2> QED
        BY <1>1, <1>2, <1>3, <2>1 DEF Pool!pvars, PStage, PSub, PReport
<1> QED
    BY <1>0, <1>4, <1>5, <1>6, <1>7, <1>8, <1>9, <1>10, <1>11, <1>12, <1>13, <1>14, <1>15,
       <1>16, Unseen DEF Next, Runner, Cancel

\* The runners implement the pool: the slot bounds the processes, each is started once
\* and gone with the slot, and a job that is over is not reported queued or running
\* (_run_command_job, cancel_command_job, prune_run_jobs).
THEOREM PoolImplemented == Spec => ImplementsPool
<1>1. Init => Pool!Init /\ Entering
    BY DEF Init, Pool!Init, Stage, Sub, Report, Entering
<1>2. PoolInv /\ JobsInv' /\ [Next]_vars => PoolInv'
    BY EnteringKept DEF PoolInv, JobsInv
<1>3. Init => PoolInv
    BY <1>1, InitHolds DEF PoolInv
<1>4. Spec => []PoolInv
    BY <1>2, <1>3, JobsInductive, PTL DEF Spec
<1> QED
    BY <1>1, <1>4, PoolStep, PTL DEF Spec, Pool!Spec, ImplementsPool
=============================================================================
