--------------------------- MODULE UploadJobsProofs ---------------------------
(***************************************************************************)
(* For any jobs, callbacks, fallbacks and number of faults: UploadJobs is  *)
(* type correct, keeps ClaimInv, and with it every safety property the     *)
(* runs check, and implements JobContract.                                 *)
(***************************************************************************)
EXTENDS UploadJobs, TLAPS

-------------------------------------------------------------------------------
(* Type correctness                                                        *)

\* What a process that ends leaves has the right types.
LEMMA DeathTypes ==
  ASSUME TypeOK, ProcessEnds("stopped") \/ ProcessEnds("asleep")
  PROVE  /\ process' \in {"up", "stopped", "asleep"}
         /\ request' \in [Jobs -> RequestSteps]
         /\ swept' \subseteq Jobs
         /\ dirty' \subseteq Jobs
         /\ pc' \in [Runners -> RunnerSteps]
         /\ task' \in [Runners -> Jobs \cup {NoJob}]
         /\ \A r \in Runners : pc'[r] = "idle" <=> task'[r] = NoJob
<1>1. request' \in [Jobs -> RequestSteps]
  BY DEF ProcessEnds, RequestSteps
<1>2. pc' \in [Runners -> RunnerSteps]
  BY DEF ProcessEnds, RunnerSteps
<1>3. task' \in [Runners -> Jobs \cup {NoJob}]
  BY DEF ProcessEnds
<1>4. \A r \in Runners : pc'[r] = "idle" <=> task'[r] = NoJob
  BY DEF ProcessEnds
<1>. QED
  BY <1>1, <1>2, <1>3, <1>4 DEF ProcessEnds

\* So does an exception nobody catches, whoever's it is.
LEMMA EscapesTypes ==
  ASSUME TypeOK, NEW r \in Runners, Escapes(r)
  PROVE  /\ process' \in {"up", "stopped", "asleep"}
         /\ request' \in [Jobs -> RequestSteps]
         /\ swept' \subseteq Jobs
         /\ dirty' \subseteq Jobs
         /\ pc' \in [Runners -> RunnerSteps]
         /\ task' \in [Runners -> Jobs \cup {NoJob}]
         /\ \A q \in Runners : pc'[q] = "idle" <=> task'[q] = NoJob
<1>1. CASE Finish(r) /\ UNCHANGED procVars
  BY <1>1 DEF Finish, procVars, TypeOK, RunnerSteps
<1>2. CASE ProcessEnds("stopped")
  BY <1>2, DeathTypes
<1>. QED
  BY <1>1, <1>2 DEF Escapes

\* Every step of every action keeps the types.
LEMMA TypeStep == TypeOK /\ [Next]_vars => TypeOK'
<1>. SUFFICES ASSUME TypeOK, [Next]_vars PROVE TypeOK'
  OBVIOUS
<1>. USE ConstantsAssumption
     DEF Runners, JobStatuses, DispatchMethods, RequestSteps, RunnerSteps, OwnerSteps
<1>1. ASSUME NEW j \in Jobs, Create(j) PROVE TypeOK'
  BY <1>1 DEF Create, SetStatus, TypeOK
<1>2. ASSUME NEW j \in Jobs, CreateFails(j) PROVE TypeOK'
  BY <1>2 DEF CreateFails, Fault, SetStatus, TypeOK
<1>3. ASSUME NEW j \in Jobs, Publish(j) PROVE TypeOK'
  BY <1>3 DEF Publish, TypeOK
<1>4. ASSUME NEW j \in Jobs, SetDispatch(j) PROVE TypeOK'
  BY <1>4 DEF SetDispatch, Start, runVars, TypeOK
<1>5. ASSUME NEW j \in Jobs, SetDispatchFails(j) PROVE TypeOK'
  BY <1>5 DEF SetDispatchFails, Fault, TypeOK
<1>6. ASSUME NEW j \in Jobs, NEW r \in Callbacks, Deliver(j, r) PROVE TypeOK'
  BY <1>6 DEF Deliver, Start, procVars, TypeOK
<1>7. ASSUME NEW j \in Jobs, Drop(j) PROVE TypeOK'
  BY <1>7 DEF Drop, procVars, TypeOK
<1>8. ASSUME NEW j \in Jobs, Age(j) PROVE TypeOK'
  BY <1>8 DEF Age, procVars, TypeOK
<1>9. ASSUME NEW j \in Jobs, SweepRun(j) PROVE TypeOK'
  BY <1>9 DEF SweepRun, Start, TypeOK
<1>10. ASSUME NEW r \in Runners, Find(r) PROVE TypeOK'
  BY <1>10 DEF Find, Goto, Finish, procVars, TypeOK
<1>11. ASSUME NEW r \in Runners, FindFails(r) PROVE TypeOK'
  BY <1>11, EscapesTypes DEF FindFails, Fault, TypeOK
<1>12. ASSUME NEW r \in Runners, Claim(r) PROVE TypeOK'
  BY <1>12 DEF Claim, Goto, Finish, SetStatus, procVars, TypeOK
<1>13. ASSUME NEW r \in Runners, ClaimFails(r) PROVE TypeOK'
  BY <1>13, EscapesTypes DEF ClaimFails, Fault, SetStatus, TypeOK
<1>14. ASSUME NEW r \in Runners, WriteCommits(r) PROVE TypeOK'
  BY <1>14 DEF WriteCommits, Goto, TypeOK
<1>15. ASSUME NEW r \in Runners, WriteRollsBack(r) PROVE TypeOK'
  BY <1>15 DEF WriteRollsBack, Goto, procVars, TypeOK
<1>16. ASSUME NEW r \in Runners, WriteAckLost(r) PROVE TypeOK'
  BY <1>16 DEF WriteAckLost, Fault, Goto, TypeOK
<1>17. ASSUME NEW r \in Runners, Invalidate(r) PROVE TypeOK'
  BY <1>17 DEF Invalidate, Goto, TypeOK
<1>18. ASSUME NEW r \in Runners, MarkCompleted(r) PROVE TypeOK'
  BY <1>18 DEF MarkCompleted, SetStatus, Finish, procVars, TypeOK
<1>19. ASSUME NEW r \in Runners, MarkCompletedFails(r) PROVE TypeOK'
  <2>1. CASE Goto(r, "fail") /\ UNCHANGED procVars
    BY <1>19, <2>1 DEF MarkCompletedFails, Fault, SetStatus, Goto, procVars, TypeOK
  <2>2. CASE ProcessEnds("stopped")
    BY <1>19, <2>2, DeathTypes DEF MarkCompletedFails, Fault, SetStatus, TypeOK
  <2>. QED
    BY <1>19, <2>1, <2>2 DEF MarkCompletedFails
<1>20. ASSUME NEW r \in Runners, MarkFailed(r) PROVE TypeOK'
  BY <1>20 DEF MarkFailed, SetStatus, Finish, procVars, TypeOK
<1>21. ASSUME NEW r \in Runners, MarkFailedFails(r) PROVE TypeOK'
  BY <1>21, EscapesTypes DEF MarkFailedFails, Fault, SetStatus, TypeOK
<1>22. ASSUME SweepRead PROVE TypeOK'
  BY <1>22 DEF SweepRead, TypeOK
<1>23. ASSUME Crash PROVE TypeOK'
  BY <1>23, DeathTypes DEF Crash, Fault, TypeOK
<1>24. ASSUME Restart PROVE TypeOK'
  BY <1>24 DEF Restart, TypeOK
<1>25. ASSUME Sleep PROVE TypeOK'
  BY <1>25, DeathTypes DEF Sleep, Fault, TypeOK
<1>26. ASSUME Wake PROVE TypeOK'
  BY <1>26 DEF Wake, TypeOK
<1>27. ASSUME Settled PROVE TypeOK'
  BY <1>27 DEF Settled, vars, TypeOK
<1>28. CASE UNCHANGED vars
  BY <1>28 DEF vars, TypeOK
<1>. QED
  BY <1>1, <1>2, <1>3, <1>4, <1>5, <1>6, <1>7, <1>8, <1>9, <1>10, <1>11, <1>12,
     <1>13, <1>14, <1>15, <1>16, <1>17, <1>18, <1>19, <1>20, <1>21, <1>22, <1>23, <1>24, <1>25,
     <1>26, <1>27, <1>28
  DEF Next, RequestStep, RunnerStep

\* No job, and an idle process.
LEMMA TypeInit == Init => TypeOK
  BY ConstantsAssumption
  DEF Init, TypeOK, Runners, JobStatuses, DispatchMethods, RequestSteps, RunnerSteps

\* TypeOK: the variables of UploadJobs keep their types, and exactly the runners
\* that are not idle have a job.
THEOREM TypeCorrect == Spec => []TypeOK
<1>1. Init => TypeOK
  BY TypeInit
<1>2. TypeOK /\ [Next]_vars => TypeOK'
  BY TypeStep
<1>. QED
  BY <1>1, <1>2, PTL DEF Spec

-------------------------------------------------------------------------------
(* The claim invariant                                                     *)

\* Every step of every action keeps ClaimInv.
LEMMA ClaimStep == TypeOK /\ TypeOK' /\ ClaimInv /\ [Next]_vars => ClaimInv'
<1>. SUFFICES ASSUME TypeOK, TypeOK', ClaimInv, [Next]_vars PROVE ClaimInv'
  OBVIOUS
<1>. USE ConstantsAssumption
     DEF OwnerSteps, OwnsTask, TypeOK, OneOwner, OwnersHoldTheClaim,
         ProgressMatchesWrites, UnclaimedUnwritten, UnbornUntilCreated,
         WrittenAtMostOnce, CompletedWasInvalidated, OrphanedOnlyByFault
<1>1. ASSUME NEW j \in Jobs, Create(j) PROVE ClaimInv'
  BY <1>1 DEF Create, SetStatus, ClaimInv
<1>2. ASSUME NEW j \in Jobs, CreateFails(j) PROVE ClaimInv'
  BY <1>2 DEF CreateFails, Fault, SetStatus, ClaimInv
<1>3. ASSUME NEW j \in Jobs, Publish(j) PROVE ClaimInv'
  BY <1>3 DEF Publish, ClaimInv
<1>4. ASSUME NEW j \in Jobs, SetDispatch(j) PROVE ClaimInv'
  BY <1>4 DEF SetDispatch, Start, runVars, ClaimInv
<1>5. ASSUME NEW j \in Jobs, SetDispatchFails(j) PROVE ClaimInv'
  BY <1>5 DEF SetDispatchFails, Fault, ClaimInv
<1>6. ASSUME NEW j \in Jobs, NEW r \in Callbacks, Deliver(j, r) PROVE ClaimInv'
  BY <1>6 DEF Deliver, Start, procVars, ClaimInv
<1>7. ASSUME NEW j \in Jobs, Drop(j) PROVE ClaimInv'
  BY <1>7 DEF Drop, procVars, ClaimInv
<1>8. ASSUME NEW j \in Jobs, Age(j) PROVE ClaimInv'
  BY <1>8 DEF Age, procVars, ClaimInv
<1>9. ASSUME NEW j \in Jobs, SweepRun(j) PROVE ClaimInv'
  BY <1>9 DEF SweepRun, Start, ClaimInv
<1>10. ASSUME NEW r \in Runners, Find(r) PROVE ClaimInv'
  BY <1>10 DEF Find, Goto, Finish, procVars, ClaimInv
<1>11. ASSUME NEW r \in Runners, FindFails(r) PROVE ClaimInv'
  <2>1. CASE Finish(r) /\ UNCHANGED procVars
    BY <1>11, <2>1 DEF FindFails, Fault, Finish, procVars, ClaimInv
  <2>2. CASE ProcessEnds("stopped")
    BY <1>11, <2>2 DEF FindFails, Fault, ProcessEnds, ClaimInv
  <2>. QED
    BY <1>11, <2>1, <2>2 DEF FindFails, Escapes
<1>12. ASSUME NEW r \in Runners, Claim(r) PROVE ClaimInv'
  BY <1>12 DEF Claim, Goto, Finish, SetStatus, procVars, ClaimInv
<1>13. ASSUME NEW r \in Runners, ClaimFails(r) PROVE ClaimInv'
  <2>1. CASE Finish(r) /\ UNCHANGED procVars
    BY <1>13, <2>1 DEF ClaimFails, Fault, SetStatus, Finish, procVars, ClaimInv
  <2>2. CASE ProcessEnds("stopped")
    BY <1>13, <2>2 DEF ClaimFails, Fault, SetStatus, ProcessEnds, ClaimInv
  <2>. QED
    BY <1>13, <2>1, <2>2 DEF ClaimFails, Escapes
<1>14. ASSUME NEW r \in Runners, WriteCommits(r) PROVE ClaimInv'
  BY <1>14 DEF WriteCommits, Goto, ClaimInv
<1>15. ASSUME NEW r \in Runners, WriteRollsBack(r) PROVE ClaimInv'
  BY <1>15 DEF WriteRollsBack, Goto, procVars, ClaimInv
<1>16. ASSUME NEW r \in Runners, WriteAckLost(r) PROVE ClaimInv'
  BY <1>16 DEF WriteAckLost, Fault, Goto, ClaimInv
<1>17. ASSUME NEW r \in Runners, Invalidate(r) PROVE ClaimInv'
  BY <1>17 DEF Invalidate, Goto, ClaimInv
<1>18. ASSUME NEW r \in Runners, MarkCompleted(r) PROVE ClaimInv'
  BY <1>18 DEF MarkCompleted, SetStatus, Finish, procVars, ClaimInv
<1>19. ASSUME NEW r \in Runners, MarkCompletedFails(r) PROVE ClaimInv'
  <2>1. CASE Goto(r, "fail") /\ UNCHANGED procVars
    BY <1>19, <2>1 DEF MarkCompletedFails, Fault, SetStatus, Goto, procVars, ClaimInv
  <2>2. CASE ProcessEnds("stopped")
    BY <1>19, <2>2 DEF MarkCompletedFails, Fault, SetStatus, ProcessEnds, ClaimInv
  <2>. QED
    BY <1>19, <2>1, <2>2 DEF MarkCompletedFails
<1>20. ASSUME NEW r \in Runners, MarkFailed(r) PROVE ClaimInv'
  BY <1>20 DEF MarkFailed, SetStatus, Finish, procVars, ClaimInv
<1>21. ASSUME NEW r \in Runners, MarkFailedFails(r) PROVE ClaimInv'
  <2>1. CASE Finish(r) /\ UNCHANGED procVars
    BY <1>21, <2>1 DEF MarkFailedFails, Fault, SetStatus, Finish, procVars, ClaimInv
  <2>2. CASE ProcessEnds("stopped")
    BY <1>21, <2>2 DEF MarkFailedFails, Fault, SetStatus, ProcessEnds, ClaimInv
  <2>. QED
    BY <1>21, <2>1, <2>2 DEF MarkFailedFails, Escapes
<1>22. ASSUME SweepRead PROVE ClaimInv'
  BY <1>22 DEF SweepRead, ClaimInv
<1>23. ASSUME Crash PROVE ClaimInv'
  BY <1>23 DEF Crash, Fault, ProcessEnds, ClaimInv
<1>24. ASSUME Restart PROVE ClaimInv'
  BY <1>24 DEF Restart, ClaimInv
<1>25. ASSUME Sleep PROVE ClaimInv'
  BY <1>25 DEF Sleep, Fault, ProcessEnds, ClaimInv
<1>26. ASSUME Wake PROVE ClaimInv'
  BY <1>26 DEF Wake, ClaimInv
<1>27. ASSUME Settled PROVE ClaimInv'
  BY <1>27 DEF Settled, vars, ClaimInv
<1>28. CASE UNCHANGED vars
  BY <1>28 DEF vars, ClaimInv
<1>. QED
  BY <1>1, <1>2, <1>3, <1>4, <1>5, <1>6, <1>7, <1>8, <1>9, <1>10, <1>11, <1>12,
     <1>13, <1>14, <1>15, <1>16, <1>17, <1>18, <1>19, <1>20, <1>21, <1>22, <1>23, <1>24, <1>25,
     <1>26, <1>27, <1>28
  DEF Next, RequestStep, RunnerStep

\* Nobody owns a job before there is one.
LEMMA ClaimInit == Init => ClaimInv
  BY DEF Init, ClaimInv, OwnsTask, OwnerSteps, OneOwner, OwnersHoldTheClaim,
         ProgressMatchesWrites, UnclaimedUnwritten, UnbornUntilCreated,
         WrittenAtMostOnce, CompletedWasInvalidated, OrphanedOnlyByFault

\* ClaimInv: at most one runner owns a job, it holds the claim, and its progress
\* says what was committed and what the analytics cache may miss.
THEOREM ClaimInvariant == Spec => []ClaimInv
<1>1. Init => ClaimInv
  BY ClaimInit
<1>2. TypeOK /\ TypeOK' /\ ClaimInv /\ [Next]_vars => ClaimInv'
  BY ClaimStep
<1>. QED
  BY <1>1, <1>2, TypeCorrect, PTL DEF Spec

\* WrittenAtMostOnce: however QStash, the fallback and the sweep race, whatever
\* call is lost, a batch is committed once at most.
THEOREM AtMostOneWrite == Spec => []WrittenAtMostOnce
<1>1. ClaimInv => WrittenAtMostOnce
  BY DEF ClaimInv
<1>. QED
  BY <1>1, ClaimInvariant, PTL

\* CompletedWasInvalidated: a completed job's rows are committed and the
\* analytics cache was cleared since.
THEOREM CompletedIsVisible == Spec => []CompletedWasInvalidated
<1>1. ClaimInv => CompletedWasInvalidated
  BY DEF ClaimInv
<1>. QED
  BY <1>1, ClaimInvariant, PTL

\* OrphanedOnlyByFault: without a lost answer or a dead process, every job in
\* 'processing' has a runner at work on it.
THEOREM ProcessingIsOwned == Spec => []OrphanedOnlyByFault
<1>1. ClaimInv => OrphanedOnlyByFault
  BY DEF ClaimInv
<1>. QED
  BY <1>1, ClaimInvariant, PTL

-------------------------------------------------------------------------------
(* Refinement of JobContract                                               *)

\* Faults are only ever counted up.
LEMMA FaultsGrow == [Next]_vars => faults' = faults \/ faults' = faults + 1
  BY DEF Next, vars, RequestStep, RunnerStep, Create, CreateFails, Publish,
         SetDispatch, SetDispatchFails, Deliver, Drop, Age, SweepRun, Find, FindFails,
         Claim, ClaimFails, WriteCommits, WriteRollsBack, WriteAckLost, Invalidate,
         MarkCompleted, MarkCompletedFails, MarkFailed, MarkFailedFails, SweepRead,
         Crash, Restart, Sleep, Wake, Settled, Fault

\* Only these steps touch a job's status or its rows, and the contract allows
\* what they do to the job they work on.
LEMMA OwnStepsKeepContract ==
  ASSUME TypeOK, ClaimInv, NEW r \in Runners, RunnerStep(r)
  PROVE  \/ UNCHANGED <<status, writes>>
         \/ task[r] \in Jobs /\ Contract!JobStep(task[r])
<1>. USE DEF TypeOK, OwnerSteps, OwnsTask
<1>. CASE pc[r] = "idle"
  BY DEF RunnerStep, Find, FindFails, Claim, ClaimFails, WriteCommits, WriteRollsBack,
         WriteAckLost, Invalidate, MarkCompleted, MarkCompletedFails, MarkFailed,
         MarkFailedFails
<1>. SUFFICES ASSUME pc[r] # "idle", task[r] \in Jobs
              PROVE  UNCHANGED <<status, writes>> \/ Contract!JobStep(task[r])
  OBVIOUS
<1>1. CASE Claim(r) \/ ClaimFails(r)
  BY <1>1 DEF Claim, ClaimFails, SetStatus,
              Contract!JobStep, Contract!Claim, Contract!Become
<1>2. CASE WriteCommits(r) \/ WriteAckLost(r)
  BY <1>2 DEF WriteCommits, WriteAckLost, ClaimInv, OwnersHoldTheClaim,
              ProgressMatchesWrites, Contract!JobStep, Contract!Apply
<1>3. CASE MarkCompleted(r) \/ MarkCompletedFails(r)
  BY <1>3 DEF MarkCompleted, MarkCompletedFails, SetStatus, ClaimInv,
              OwnersHoldTheClaim, ProgressMatchesWrites,
              Contract!JobStep, Contract!Complete, Contract!Become
<1>4. CASE MarkFailed(r) \/ MarkFailedFails(r)
  <2>1. CASE status[task[r]] = "processing"
    <3>1. writes[task[r]] = 0 \/ faults > 0
      BY <1>4 DEF MarkFailed, MarkFailedFails, ClaimInv, ProgressMatchesWrites
    <3>2. writes[task[r]] = 0 \/ faults' > 0
      BY <1>4, <3>1 DEF MarkFailed, MarkFailedFails, Fault
    <3>. QED
      BY <1>4, <2>1, <3>2 DEF MarkFailed, MarkFailedFails, SetStatus,
                              Contract!JobStep, Contract!Fail, Contract!Become
  <2>2. CASE status[task[r]] = "completed" /\ faults > 0
    BY <1>4, <2>2 DEF MarkFailed, MarkFailedFails, SetStatus,
                      Contract!JobStep, Contract!Overturn, Contract!Become
  <2>. QED
    BY <1>4, <2>1, <2>2 DEF MarkFailed, MarkFailedFails, ClaimInv, OwnersHoldTheClaim
<1>5. CASE Find(r) \/ FindFails(r) \/ WriteRollsBack(r) \/ Invalidate(r)
  BY <1>5 DEF Find, FindFails, WriteRollsBack, Invalidate
<1>. QED
  BY <1>1, <1>2, <1>3, <1>4, <1>5 DEF RunnerStep

\* Every step is a step of the contract or leaves status, writes and faulted
\* alone.
LEMMA ContractStep ==
  TypeOK /\ ClaimInv /\ [Next]_vars => [Contract!Next]_(Contract!contractVars)
<1>. SUFFICES ASSUME TypeOK, ClaimInv, [Next]_vars PROVE Contract!Next
  OBVIOUS
<1>1. (faults > 0)' \in BOOLEAN /\ (faults > 0 => faults' > 0)
  BY FaultsGrow DEF TypeOK
<1>2. ASSUME NEW r \in Runners, RunnerStep(r)
      PROVE  UNCHANGED <<status, writes>> \/ \E j \in Jobs : Contract!JobStep(j)
  BY <1>2, OwnStepsKeepContract
<1>3. ASSUME NEW j \in Jobs, Create(j) \/ CreateFails(j)
      PROVE  UNCHANGED <<status, writes>> \/ Contract!JobStep(j)
  BY <1>3 DEF Create, CreateFails, SetStatus, ClaimInv, UnbornUntilCreated,
              Contract!JobStep, Contract!Submit, Contract!Become
<1>4. ASSUME NEW j \in Jobs,
             \/ Publish(j) \/ SetDispatch(j) \/ SetDispatchFails(j)
             \/ (\E r \in Callbacks : Deliver(j, r))
             \/ Drop(j) \/ Age(j) \/ SweepRun(j)
      PROVE  UNCHANGED <<status, writes>>
  BY <1>4 DEF Publish, SetDispatch, SetDispatchFails, Deliver, Drop, Age, SweepRun
<1>5. CASE SweepRead \/ Crash \/ Restart \/ Sleep \/ Wake \/ Settled \/ UNCHANGED vars
  BY <1>1, <1>5 DEF SweepRead, Crash, Restart, Sleep, Wake, Settled, vars, Contract!Next
<1>. QED
  BY <1>1, <1>2, <1>3, <1>4, <1>5 DEF Next, RequestStep, Contract!Next

\* ImplementsContract: the dispatch paths together keep the contract of a job.
THEOREM JobsImplementContract == Spec => ImplementsContract
<1>1. Init => Contract!Init
  BY DEF Init, Contract!Init
<1>2. TypeOK /\ ClaimInv /\ [Next]_vars => [Contract!Next]_(Contract!contractVars)
  BY ContractStep
<1>. QED
  BY <1>1, <1>2, TypeCorrect, ClaimInvariant, PTL
  DEF Spec, Contract!Spec, ImplementsContract
===============================================================================
