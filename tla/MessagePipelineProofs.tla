------------------------ MODULE MessagePipelineProofs ------------------------
EXTENDS MessagePipeline, TLAPS

USE DEF Goto, At, pmVars, localVars, userVars, limitVars, delVars, clearVars

\* fetchContextMessages keeps the types, whatever it returns.
LEMMA FetchTypeOK ==
  ASSUME TypeOK, NEW r \in Runs, NEW l \in LivePcs, FetchContext(r, l)
  PROVE  TypeOK'
<1>1. PICK h \in {NoHistory, epoch[ChannelOfRun(r)]} : seen' = [seen EXCEPT ![r] = h]
  BY DEF FetchContext
<1>2. h \in Nat \cup {NoHistory}
  BY PipelineAssumption DEF TypeOK, ChannelOfRun
<1>3. pc' \in [Runs -> Pcs]
  BY DEF FetchContext, TypeOK, Pcs
<1>4. QED
  BY <1>1, <1>2, <1>3 DEF FetchContext, TypeOK

\* The limiter's counters keep their types.
LEMMA ChargeTypeOK ==
  ASSUME TypeOK, NEW r \in Runs, Charge(r) \/ UNCHANGED limitVars
  PROVE  charged' \in [Msgs -> Nat] /\ cooldown' \subseteq Authors
<1>1. CASE UNCHANGED limitVars
  BY <1>1 DEF TypeOK
<1>2. CASE Charge(r) /\ IsCreate(r)
  <2>1. MsgOf[r] \in Msgs /\ charged[MsgOf[r]] + 1 \in Nat
    BY PipelineAssumption DEF TypeOK
  <2>2. QED
    BY <1>2, <2>1 DEF Charge, TypeOK
<1>3. CASE Charge(r) /\ ~ IsCreate(r)
  BY <1>3 DEF Charge, TypeOK
<1>4. QED
  BY <1>1, <1>2, <1>3

\* Every step keeps the types.
LEMMA TypeStep == TypeOK /\ ThreadOrder /\ [Next]_vars => TypeOK'
<1> SUFFICES ASSUME TypeOK, ThreadOrder, [Next]_vars PROVE TypeOK'
  OBVIOUS
<1> USE DEF TypeOK, Pcs, LivePcs, EditPcs, DecidePcs, WorkPcs, SendPcs, Phases
<1>1. ASSUME NEW r \in Runs, CreateArrives(r) PROVE TypeOK'
  <2>1. PICK next \in {"hook", "done"} : Goto(r, next)
    BY <1>1 DEF CreateArrives
  <2>2. MsgOf[r] \in Msgs
    BY PipelineAssumption
  <2>3. QED
    BY <1>1, <2>1, <2>2 DEF CreateArrives
<1>2. ASSUME NEW r \in Runs, EditArrives(r) PROVE TypeOK'
  <2>1. PICK t \in {posted[MsgOf[r]], r} :
          /\ posted' = [posted EXCEPT ![MsgOf[r]] = t]
          /\ text' = [text EXCEPT ![r] = t]
    BY <1>2 DEF EditArrives
  <2>2. MsgOf[r] \in Msgs /\ posted[MsgOf[r]] \in Runs \cup {NoRun}
    BY PipelineAssumption
  <2>3. QED
    BY <1>2, <2>1, <2>2 DEF EditArrives
<1>3. ASSUME NEW r \in Runs, HookBlocks(r) PROVE TypeOK'
  BY <1>3, PipelineAssumption DEF HookBlocks
<1>4. ASSUME NEW r \in Runs, HookContinues(r) PROVE TypeOK'
  BY <1>4, PipelineAssumption DEF HookContinues, Register
<1>5. ASSUME NEW r \in Runs, AttachCancel(r) PROVE TypeOK'
  BY <1>5, PipelineAssumption DEF AttachCancel
<1>6. ASSUME NEW r \in Runs, FetchForDecision(r) PROVE TypeOK'
  <2>1. FetchContext(r, "reconcile") \/ FetchContext(r, "decide")
    BY <1>6 DEF FetchForDecision
  <2>2. QED
    BY <2>1, FetchTypeOK
<1>7. ASSUME NEW r \in Runs, Reconcile(r) PROVE TypeOK'
  BY <1>7, PipelineAssumption DEF Reconcile
<1>8. ASSUME NEW r \in Runs, SetDeciding(r) PROVE TypeOK'
  BY <1>8, PipelineAssumption DEF SetDeciding, SetPhase
<1>9. ASSUME NEW r \in Runs, DecideYes(r) PROVE TypeOK'
  <2>1. charged' \in [Msgs -> Nat] /\ cooldown' \subseteq Authors
    BY <1>9, ChargeTypeOK DEF DecideYes
  <2>2. QED
    BY <1>9, <2>1 DEF DecideYes
<1>10. ASSUME NEW r \in Runs, DecideNo(r) PROVE TypeOK'
  <2>1. charged' \in [Msgs -> Nat] /\ cooldown' \subseteq Authors
    BY <1>10, ChargeTypeOK DEF DecideNo
  <2>2. QED
    BY <1>10, <2>1 DEF DecideNo, Finish, RemoveIfMatch
<1>11. ASSUME NEW r \in Runs, EditLookup(r) PROVE TypeOK'
  BY <1>11, PipelineAssumption DEF EditLookup
<1>12. ASSUME NEW r \in Runs, EditInspect(r) PROVE TypeOK'
  <2>1. CASE content[old[r]] = text[r]
    BY <1>12, <2>1 DEF EditInspect
  <2>2. CASE content[old[r]] # text[r]
    <3>1. /\ old[r] \in Runs
          /\ sawPhase' = [sawPhase EXCEPT ![r] = phase[old[r]]]
          /\ pc' = [pc EXCEPT ![r] = IF phase[old[r]] = "received"
                                     THEN "updateOld" ELSE "cancelOld"]
      BY <1>12, <2>2 DEF EditInspect, ThreadOrder
    <3>2. QED
      BY <1>12, <3>1 DEF EditInspect
  <2>3. QED
    BY <2>1, <2>2
<1>13. ASSUME NEW r \in Runs, EditCancelOld(r) PROVE TypeOK'
  BY <1>13, PipelineAssumption DEF EditCancelOld, Cancel
<1>14. ASSUME NEW r \in Runs, EditUpdateOld(r) PROVE TypeOK'
  BY <1>14, PipelineAssumption DEF EditUpdateOld
<1>15. ASSUME NEW r \in Runs, EditRemoveOld(r) PROVE TypeOK'
  BY <1>15, PipelineAssumption DEF EditRemoveOld, RemoveIfMatch
<1>16. ASSUME NEW r \in Runs, EditRegister(r) PROVE TypeOK'
  BY <1>16, PipelineAssumption DEF EditRegister, Register
<1>17. ASSUME NEW r \in Runs, Abandon(r) PROVE TypeOK'
  BY <1>17, PipelineAssumption DEF Abandon, Finish, RemoveIfMatch
<1>18. ASSUME NEW r \in Runs, StartGenerating(r) PROVE TypeOK'
  BY <1>18, PipelineAssumption DEF StartGenerating, SetPhase
<1>19. ASSUME NEW r \in Runs, FetchIfEmpty(r) PROVE TypeOK'
  <2>1. CASE seen[r] = NoHistory
    BY <1>19, <2>1, FetchTypeOK DEF FetchIfEmpty
  <2>2. CASE seen[r] # NoHistory
    BY <1>19, <2>2 DEF FetchIfEmpty
  <2>3. QED
    BY <2>1, <2>2
<1>20. ASSUME NEW r \in Runs, Generated(r) PROVE TypeOK'
  BY <1>20, PipelineAssumption DEF Generated
<1>21. ASSUME NEW r \in Runs, SetSending(r) PROVE TypeOK'
  BY <1>21, PipelineAssumption DEF SetSending, SetPhase
<1>22. ASSUME NEW r \in Runs, SendCheck(r) PROVE TypeOK'
  BY <1>22, PipelineAssumption DEF SendCheck
<1>23. ASSUME NEW r \in Runs, SendStops(r) PROVE TypeOK'
  BY <1>23, PipelineAssumption DEF SendStops, Finish, RemoveIfMatch
<1>24. ASSUME NEW r \in Runs, BeforeSendPasses(r) PROVE TypeOK'
  BY <1>24, PipelineAssumption DEF BeforeSendPasses
<1>25. ASSUME NEW r \in Runs, SendPart(r) PROVE TypeOK'
  BY <1>25, PipelineAssumption DEF SendPart
<1>26. ASSUME NEW r \in Runs, ClearSent(r) PROVE TypeOK'
  BY <1>26, PipelineAssumption DEF ClearSent, RemoveIfMatch
<1>27. ASSUME NEW r \in Runs, SetCooldown(r) PROVE TypeOK'
  <2>1. AuthorOf[MsgOf[r]] \in Authors
    BY PipelineAssumption
  <2>2. cooldown' \subseteq Authors
    BY <1>27, <2>1 DEF SetCooldown
  <2>3. QED
    BY <1>27, <2>2 DEF SetCooldown
<1>28. ASSUME NEW m \in Msgs, DeleteArrives(m) PROVE TypeOK'
  BY <1>28 DEF DeleteArrives
<1>29. ASSUME NEW m \in Msgs, DeleteLookup(m) PROVE TypeOK'
  BY <1>29 DEF DeleteLookup
<1>30. ASSUME NEW m \in Msgs, DeleteCancel(m) PROVE TypeOK'
  BY <1>30 DEF DeleteCancel, Cancel
<1>31. ASSUME NEW m \in Msgs, DeleteRemove(m) PROVE TypeOK'
  BY <1>31 DEF DeleteRemove, RemoveIfMatch
<1>32. ASSUME NEW c \in Channels, ClearCutoff(c) PROVE TypeOK'
  BY <1>32 DEF ClearCutoff
<1>33. ASSUME NEW c \in Channels, ClearCollect(c) PROVE TypeOK'
  BY <1>33 DEF ClearCollect
<1>34. ASSUME NEW c \in Channels, ClearCancel(c) PROVE TypeOK'
  BY <1>34 DEF ClearCancel, Cancel
<1>35. ASSUME NEW c \in Channels, ClearDone(c) PROVE TypeOK'
  BY <1>35 DEF ClearDone
<1>36. ASSUME NEW a \in Authors, CooldownEnds(a) PROVE TypeOK'
  BY <1>36 DEF CooldownEnds
<1>37. CASE UNCHANGED vars
  BY <1>37 DEF vars
<1>38. QED
  BY <1>1, <1>2, <1>3, <1>4, <1>5, <1>6, <1>7, <1>8, <1>9, <1>10, <1>11, <1>12, <1>13, <1>14, <1>15, <1>16, <1>17, <1>18, <1>19, <1>20, <1>21, <1>22, <1>23, <1>24, <1>25, <1>26, <1>27, <1>28, <1>29, <1>30, <1>31, <1>32, <1>33, <1>34, <1>35, <1>36, <1>37 DEF Next, Step, DeleteStep, ClearStep

-----------------------------------------------------------------------------
\* Splitting a step by what it does to the threads and the registry.

\* Steps that keep the registry and move a thread inside the live part.
LiveStep(r) ==
  \/ AttachCancel(r) \/ FetchForDecision(r) \/ Reconcile(r) \/ SetDeciding(r)
  \/ DecideYes(r) \/ StartGenerating(r) \/ FetchIfEmpty(r) \/ Generated(r)
  \/ SetSending(r) \/ SendCheck(r) \/ BeforeSendPasses(r) \/ SendPart(r)

\* Steps that keep the registry and move a thread outside the live part.
OuterStep(r) ==
  \/ CreateArrives(r) \/ HookBlocks(r) \/ EditArrives(r) \/ EditLookup(r)
  \/ EditInspect(r) \/ EditCancelOld(r) \/ EditUpdateOld(r) \/ SetCooldown(r)

\* Steps that clear the run's own registration.
ClearingStep(r) == DecideNo(r) \/ Abandon(r) \/ SendStops(r) \/ ClearSent(r)

\* Steps of the delete handler, the clear command and the clock.
OtherStep ==
  \/ \E m \in Msgs : DeleteArrives(m) \/ DeleteLookup(m) \/ DeleteCancel(m)
  \/ \E c \in Channels : ClearCutoff(c) \/ ClearStep(c)
  \/ \E a \in Authors : CooldownEnds(a)
  \/ UNCHANGED vars

LEMMA StepCases ==
  ASSUME [Next]_vars
  PROVE  \/ \E r \in Runs : \/ LiveStep(r) \/ OuterStep(r) \/ ClearingStep(r)
                            \/ HookContinues(r) \/ EditRegister(r) \/ EditRemoveOld(r)
         \/ \E m \in Msgs : DeleteRemove(m)
         \/ OtherStep
BY DEF Next, Step, DeleteStep, LiveStep, OuterStep, ClearingStep, OtherStep

\* What each class of steps does to pc and reg.
LEMMA LiveStepMoves ==
  ASSUME NEW r \in Runs, LiveStep(r)
  PROVE  /\ pc[r] \in LivePcs /\ reg' = reg
         /\ \E l \in LivePcs \ {"attach"} : pc' = [pc EXCEPT ![r] = l]
<1> USE DEF LivePcs, DecidePcs, WorkPcs, SendPcs
<1>1. CASE AttachCancel(r) \/ SetDeciding(r) \/ Reconcile(r) \/ DecideYes(r)
  BY <1>1 DEF AttachCancel, SetDeciding, Reconcile, DecideYes
<1>2. CASE FetchForDecision(r) \/ FetchIfEmpty(r)
  BY <1>2 DEF FetchForDecision, FetchIfEmpty, FetchContext
<1>3. CASE StartGenerating(r) \/ Generated(r) \/ SetSending(r) \/ SendCheck(r)
           \/ BeforeSendPasses(r)
  BY <1>3 DEF StartGenerating, Generated, SetSending, SendCheck, BeforeSendPasses
<1>4. CASE SendPart(r)
  BY <1>4 DEF SendPart
<1>5. QED
  BY <1>1, <1>2, <1>3, <1>4 DEF LiveStep

LEMMA OuterStepMoves ==
  ASSUME NEW r \in Runs, OuterStep(r)
  PROVE  /\ pc[r] \notin LivePcs /\ reg' = reg
         /\ \E l \in Pcs \ LivePcs : pc' = [pc EXCEPT ![r] = l]
<1> USE DEF Pcs, LivePcs, DecidePcs, WorkPcs, SendPcs, EditPcs
<1>1. CASE CreateArrives(r) \/ HookBlocks(r) \/ EditArrives(r)
  BY <1>1 DEF CreateArrives, HookBlocks, EditArrives
<1>2. CASE EditLookup(r) \/ EditInspect(r)
  BY <1>2 DEF EditLookup, EditInspect
<1>3. CASE EditCancelOld(r) \/ EditUpdateOld(r) \/ SetCooldown(r)
  BY <1>3 DEF EditCancelOld, EditUpdateOld, SetCooldown
<1>4. QED
  BY <1>1, <1>2, <1>3 DEF OuterStep

LEMMA ClearingStepMoves ==
  ASSUME NEW r \in Runs, ClearingStep(r)
  PROVE  /\ RemoveIfMatch(MsgOf[r], r)
         /\ \E l \in {"afterSend", "done"} : pc' = [pc EXCEPT ![r] = l]
BY DEF ClearingStep, DecideNo, Abandon, SendStops, ClearSent, Finish

LEMMA OtherStepMoves ==
  ASSUME OtherStep PROVE pc' = pc /\ reg' = reg
BY DEF OtherStep, DeleteArrives, DeleteLookup, DeleteCancel, ClearCutoff, ClearStep,
       ClearCollect, ClearCancel, ClearDone, CooldownEnds, vars

-----------------------------------------------------------------------------
LEMMA RegisteredStep ==
  TypeOK /\ RegisteredIsRunning /\ [Next]_vars => RegisteredIsRunning'
<1> SUFFICES ASSUME TypeOK, RegisteredIsRunning, [Next]_vars
             PROVE  RegisteredIsRunning'
  OBVIOUS
<1> USE DEF RegisteredIsRunning
<1>1. ASSUME NEW r \in Runs, LiveStep(r) \/ OuterStep(r)
      PROVE  RegisteredIsRunning'
  BY <1>1, LiveStepMoves, OuterStepMoves DEF TypeOK
<1>2. ASSUME NEW r \in Runs, ClearingStep(r)
      PROVE  RegisteredIsRunning'
  <2>1. \A m \in Msgs : reg'[m] # NoRun => reg'[m] = reg[m] /\ reg'[m] # r
    BY <1>2, ClearingStepMoves, PipelineAssumption DEF RemoveIfMatch, TypeOK
  <2>2. QED
    BY <1>2, <2>1, ClearingStepMoves DEF TypeOK
<1>3. ASSUME NEW r \in Runs, HookContinues(r) \/ EditRegister(r)
      PROVE  RegisteredIsRunning'
  <2>1. /\ reg' = [reg EXCEPT ![MsgOf[r]] = r]
        /\ pc' = [pc EXCEPT ![r] = "attach"] /\ "attach" \in LivePcs
    BY <1>3 DEF HookContinues, EditRegister, Register, LivePcs, DecidePcs
  <2>2. QED
    BY <2>1 DEF TypeOK
<1>4. ASSUME NEW r \in Runs, EditRemoveOld(r) PROVE RegisteredIsRunning'
  <2>1. /\ \A m \in Msgs : reg'[m] # NoRun => reg'[m] = reg[m]
        /\ pc' = [pc EXCEPT ![r] = "register"] /\ pc[r] \notin LivePcs
    BY <1>4 DEF EditRemoveOld, RemoveIfMatch, TypeOK, LivePcs, DecidePcs, WorkPcs, SendPcs
  <2>2. QED
    BY <2>1 DEF TypeOK
<1>5. ASSUME NEW m \in Msgs, DeleteRemove(m) PROVE RegisteredIsRunning'
  BY <1>5 DEF DeleteRemove, RemoveIfMatch, TypeOK
<1>6. CASE OtherStep
  BY <1>6, OtherStepMoves
<1>7. QED
  BY <1>1, <1>2, <1>3, <1>4, <1>5, <1>6, StepCases

LEMMA ThreadOrderStep ==
  TypeOK /\ ThreadOrder /\ [Next]_vars => ThreadOrder'
<1> SUFFICES ASSUME TypeOK, ThreadOrder, [Next]_vars PROVE ThreadOrder'
  OBVIOUS
<1> USE DEF ThreadOrder, EditPcs, LivePcs, DecidePcs, WorkPcs, SendPcs
<1>1. ASSUME NEW r \in Runs, LiveStep(r) PROVE ThreadOrder'
  <2>1. /\ old' = old
        /\ seen \in [Runs -> Nat \cup {NoHistory}]
        /\ \A q \in Runs : q # r => seen'[q] = seen[q]
    BY <1>1 DEF LiveStep, AttachCancel, FetchForDecision, FetchContext, Reconcile,
                SetDeciding, DecideYes, StartGenerating, FetchIfEmpty, Generated,
                SetSending, SendCheck, BeforeSendPasses, SendPart, TypeOK
  <2>2. QED
    BY <1>1, <2>1, LiveStepMoves DEF TypeOK
<1>2. ASSUME NEW r \in Runs, OuterStep(r) PROVE ThreadOrder'
  <2>1. CASE CreateArrives(r) \/ HookBlocks(r) \/ EditArrives(r)
    BY <2>1 DEF CreateArrives, HookBlocks, EditArrives, TypeOK
  <2>2. CASE EditLookup(r)
    BY <2>2 DEF EditLookup, TypeOK
  <2>3. CASE EditInspect(r) \/ EditCancelOld(r) \/ EditUpdateOld(r) \/ SetCooldown(r)
    BY <2>3 DEF EditInspect, EditCancelOld, EditUpdateOld, SetCooldown, TypeOK
  <2>4. QED
    BY <1>2, <2>1, <2>2, <2>3 DEF OuterStep
<1>3. ASSUME NEW r \in Runs, ClearingStep(r) PROVE ThreadOrder'
  <2>1. old' = old /\ seen' = seen
    BY <1>3 DEF ClearingStep, DecideNo, Abandon, SendStops, ClearSent, Finish
  <2>2. QED
    BY <1>3, <2>1, ClearingStepMoves DEF TypeOK
<1>4. ASSUME NEW r \in Runs, HookContinues(r) \/ EditRegister(r) \/ EditRemoveOld(r)
      PROVE  ThreadOrder'
  BY <1>4 DEF HookContinues, EditRegister, EditRemoveOld, TypeOK
<1>5. ASSUME NEW m \in Msgs, DeleteRemove(m) PROVE ThreadOrder'
  BY <1>5 DEF DeleteRemove
<1>6. CASE OtherStep
  BY <1>6 DEF OtherStep, DeleteArrives, DeleteLookup, DeleteCancel, ClearCutoff,
     ClearStep, ClearCollect, ClearCancel, ClearDone, CooldownEnds, vars
<1>7. QED
  BY <1>1, <1>2, <1>3, <1>4, <1>5, <1>6, StepCases

\* hasCancel is only ever set, and by the run's own thread.
LEMMA CancelFuncStep ==
  TypeOK /\ ThreadOrder /\ CancelFuncBeforeUse /\ [Next]_vars => CancelFuncBeforeUse'
<1> SUFFICES ASSUME TypeOK, ThreadOrder, CancelFuncBeforeUse, [Next]_vars
             PROVE  CancelFuncBeforeUse'
  OBVIOUS
<1> USE DEF CancelFuncBeforeUse, LivePcs, DecidePcs, WorkPcs, SendPcs
<1>1. ASSUME NEW r \in Runs, LiveStep(r) PROVE CancelFuncBeforeUse'
  <2>1. CASE AttachCancel(r)
    BY <2>1 DEF AttachCancel, TypeOK
  <2>2. CASE ~ AttachCancel(r)
    <3>1. /\ pc[r] \in LivePcs \ {"attach"} /\ hasCancel' = hasCancel
          /\ \A q \in Runs : q # r => seen'[q] = seen[q] /\ phase'[q] = phase[q]
      BY <1>1, <2>2 DEF LiveStep, FetchForDecision, FetchContext, Reconcile,
         SetDeciding, SetPhase, DecideYes, StartGenerating, FetchIfEmpty, Generated,
         SetSending, SendCheck, BeforeSendPasses, SendPart, TypeOK
    <3>2. QED
      BY <1>1, <3>1, LiveStepMoves DEF TypeOK
  <2>3. QED
    BY <2>1, <2>2
<1>2. ASSUME NEW r \in Runs, OuterStep(r) PROVE CancelFuncBeforeUse'
  <2>1. hasCancel' = hasCancel /\ seen' = seen /\ phase' = phase
    BY <1>2 DEF OuterStep, CreateArrives, HookBlocks, EditArrives, EditLookup,
       EditInspect, EditCancelOld, EditUpdateOld, SetCooldown
  <2>2. QED
    BY <1>2, <2>1, OuterStepMoves DEF TypeOK, Pcs
<1>3. ASSUME NEW r \in Runs, ClearingStep(r) PROVE CancelFuncBeforeUse'
  <2>1. hasCancel' = hasCancel /\ seen' = seen /\ phase' = phase
    BY <1>3 DEF ClearingStep, DecideNo, Abandon, SendStops, ClearSent, Finish
  <2>2. QED
    BY <1>3, <2>1, ClearingStepMoves DEF TypeOK
<1>4. ASSUME NEW r \in Runs, HookContinues(r) \/ EditRegister(r) \/ EditRemoveOld(r)
      PROVE  CancelFuncBeforeUse'
  BY <1>4 DEF HookContinues, EditRegister, Register, EditRemoveOld, TypeOK
<1>5. ASSUME NEW m \in Msgs, DeleteRemove(m) PROVE CancelFuncBeforeUse'
  BY <1>5 DEF DeleteRemove
<1>6. CASE OtherStep
  BY <1>6 DEF OtherStep, DeleteArrives, DeleteLookup, DeleteCancel, ClearCutoff,
     ClearStep, ClearCollect, ClearCancel, ClearDone, CooldownEnds, vars
<1>7. QED
  BY <1>1, <1>2, <1>3, <1>4, <1>5, <1>6, StepCases

\* A context that was cancelled and a CancelFunc that was set stay so.
LEMMA CancelMonotone ==
  ASSUME TypeOK, [Next]_vars, NEW q \in Runs
  PROVE  /\ cancelled[q] => cancelled'[q]
         /\ hasCancel[q] => hasCancel'[q]
<1>1. ASSUME NEW r \in Runs, LiveStep(r)
      PROVE  cancelled' = cancelled /\ (hasCancel[q] => hasCancel'[q])
  BY <1>1 DEF LiveStep, AttachCancel, FetchForDecision, FetchContext, Reconcile,
     SetDeciding, DecideYes, StartGenerating, FetchIfEmpty, Generated,
     SetSending, SendCheck, BeforeSendPasses, SendPart, TypeOK
<1>2. ASSUME NEW r \in Runs, OuterStep(r)
      PROVE  (cancelled[q] => cancelled'[q]) /\ hasCancel' = hasCancel
  BY <1>2 DEF OuterStep, CreateArrives, HookBlocks, EditArrives, EditLookup,
     EditInspect, EditCancelOld, Cancel, EditUpdateOld, SetCooldown, TypeOK
<1>3. ASSUME NEW r \in Runs, ClearingStep(r)
      PROVE  cancelled' = cancelled /\ hasCancel' = hasCancel
  BY <1>3 DEF ClearingStep, DecideNo, Abandon, SendStops, ClearSent, Finish
<1>4. ASSUME NEW r \in Runs, HookContinues(r) \/ EditRegister(r) \/ EditRemoveOld(r)
      PROVE  cancelled' = cancelled /\ hasCancel' = hasCancel
  BY <1>4 DEF HookContinues, EditRegister, EditRemoveOld
<1>5. ASSUME NEW m \in Msgs, DeleteRemove(m)
      PROVE  cancelled' = cancelled /\ hasCancel' = hasCancel
  BY <1>5 DEF DeleteRemove
<1>6. ASSUME OtherStep
      PROVE  (cancelled[q] => cancelled'[q]) /\ hasCancel' = hasCancel
  BY <1>6 DEF OtherStep, DeleteArrives, DeleteLookup, DeleteCancel, Cancel, ClearCutoff,
     ClearStep, ClearCollect, ClearCancel, ClearDone, CooldownEnds, vars, TypeOK
<1>7. QED
  BY <1>1, <1>2, <1>3, <1>4, <1>5, <1>6, StepCases

LEMMA SupersedeStep ==
  ASSUME TypeOK, ThreadOrder, CancelFuncBeforeUse, CancelsFirst,
         SupersededIsCancelled, [Next]_vars
  PROVE  CancelsFirst' /\ SupersededIsCancelled'
<1> USE DEF CancelsFirst, SupersededIsCancelled, IsCreate,
            LivePcs, DecidePcs, WorkPcs, SendPcs
<1> DEFINE Keeps(q) == old'[q] = old[q] /\ sawPhase'[q] = sawPhase[q]
<1>1. \A q \in Runs : pc[q] \in EditPcs \ {"lookup"} => old[q] \in Runs
  BY DEF ThreadOrder, TypeOK
<1>2. \A q \in Runs : /\ cancelled[q] => cancelled'[q]
                      /\ hasCancel[q] => hasCancel'[q]
  BY CancelMonotone
<1>3. ASSUME NEW r \in Runs, LiveStep(r) PROVE CancelsFirst' /\ SupersededIsCancelled'
  <2>1. old' = old /\ sawPhase' = sawPhase
    BY <1>3 DEF LiveStep, AttachCancel, FetchForDecision, FetchContext, Reconcile,
       SetDeciding, DecideYes, StartGenerating, FetchIfEmpty, Generated,
       SetSending, SendCheck, BeforeSendPasses, SendPart
  <2>2. QED
    BY <1>1, <1>2, <1>3, <2>1, LiveStepMoves DEF TypeOK, EditPcs
<1>4. ASSUME NEW r \in Runs, ClearingStep(r)
      PROVE  CancelsFirst' /\ SupersededIsCancelled'
  <2>1. old' = old /\ sawPhase' = sawPhase
    BY <1>4 DEF ClearingStep, DecideNo, Abandon, SendStops, ClearSent, Finish
  <2>2. QED
    BY <1>1, <1>2, <1>4, <2>1, ClearingStepMoves DEF TypeOK, EditPcs
<1>5. ASSUME NEW r \in Runs, OuterStep(r) PROVE CancelsFirst' /\ SupersededIsCancelled'
  <2>1. CASE CreateArrives(r) \/ HookBlocks(r) \/ EditArrives(r) \/ SetCooldown(r)
    <3>1. old' = old /\ sawPhase' = sawPhase
      BY <2>1 DEF CreateArrives, HookBlocks, EditArrives, SetCooldown
    <3>2. pc' = [pc EXCEPT ![r] = pc'[r]] /\ pc'[r] \in {"hook", "done", "lookup"}
      BY <2>1 DEF CreateArrives, HookBlocks, EditArrives, SetCooldown, TypeOK
    <3>3. QED
      BY <1>1, <1>2, <3>1, <3>2 DEF TypeOK, EditPcs
  <2>2. CASE EditLookup(r)
    <3>1. /\ \A q \in Runs : q # r => Keeps(q)
          /\ pc' = [pc EXCEPT ![r] = pc'[r]] /\ pc'[r] \in {"done", "inspect"}
      BY <2>2 DEF EditLookup, TypeOK
    <3>2. QED
      BY <1>1, <1>2, <3>1 DEF TypeOK, EditPcs
  <2>3. CASE EditInspect(r)
    <3>1. /\ old' = old /\ old[r] \in Runs
          /\ \A q \in Runs : q # r => sawPhase'[q] = sawPhase[q] /\ pc'[q] = pc[q]
          /\ \/ pc'[r] = "done"
             \/ pc'[r] = "updateOld" /\ sawPhase'[r] = "received"
             \/ pc'[r] = "cancelOld" /\ phase[old[r]] # "received"
      BY <1>1, <2>3 DEF EditInspect, TypeOK, EditPcs
    <3>2. QED
      BY <1>1, <1>2, <3>1 DEF CancelFuncBeforeUse, TypeOK, EditPcs
  <2>4. CASE EditCancelOld(r)
    <3>1. /\ old' = old /\ sawPhase' = sawPhase /\ old[r] \in Runs
          /\ pc' = [pc EXCEPT ![r] = "updateOld"]
          /\ cancelled'[old[r]]
      BY <1>1, <2>4 DEF EditCancelOld, Cancel, TypeOK, EditPcs
    <3>2. QED
      BY <1>1, <1>2, <3>1 DEF TypeOK, EditPcs
  <2>5. CASE EditUpdateOld(r)
    <3>1. /\ old' = old /\ sawPhase' = sawPhase /\ old[r] \in Runs
          /\ \A q \in Runs : q # r => pc'[q] = pc[q]
          /\ pc'[r] = "done" \/ (pc'[r] = "removeOld" /\ cancelled[old[r]])
      BY <1>1, <2>5 DEF EditUpdateOld, TypeOK, EditPcs
    <3>2. CancelsFirst'
      BY <1>1, <1>2, <3>1 DEF TypeOK, EditPcs
    <3>3. ASSUME NEW q \in Runs, ~ IsCreate(q),
                 pc'[q] \in {"removeOld", "register"} \cup LivePcs
          PROVE  old[q] # NoRun /\ cancelled'[old[q]]
      <4>1. CASE q = r
        BY <1>2, <3>1, <3>3, <4>1, PipelineAssumption
      <4>2. CASE q # r
        BY <1>2, <3>1, <3>3, <4>2 DEF TypeOK
      <4>3. QED
        BY <4>1, <4>2
    <3>4. QED
      BY <3>1, <3>2, <3>3
  <2>6. QED
    BY <1>5, <2>1, <2>2, <2>3, <2>4, <2>5 DEF OuterStep
<1>6. ASSUME NEW r \in Runs, HookContinues(r) PROVE CancelsFirst' /\ SupersededIsCancelled'
  <2>1. /\ old' = old /\ sawPhase' = sawPhase /\ IsCreate(r)
        /\ pc' = [pc EXCEPT ![r] = "attach"]
    BY <1>6 DEF HookContinues, ThreadOrder
  <2>2. QED
    BY <1>1, <1>2, <2>1 DEF TypeOK, EditPcs
<1>7. ASSUME NEW r \in Runs, EditRegister(r) \/ EditRemoveOld(r)
      PROVE  CancelsFirst' /\ SupersededIsCancelled'
  <2>1. /\ old' = old /\ sawPhase' = sawPhase /\ old[r] \in Runs
        /\ pc[r] \in {"removeOld", "register"}
        /\ \A q \in Runs : q # r => pc'[q] = pc[q]
        /\ pc'[r] \in {"register", "attach"}
    BY <1>1, <1>7 DEF EditRegister, EditRemoveOld, TypeOK, EditPcs
  <2>2. QED
    BY <1>1, <1>2, <2>1 DEF TypeOK, EditPcs
<1>8. CASE OtherStep \/ \E m \in Msgs : DeleteRemove(m)
  <2>1. old' = old /\ sawPhase' = sawPhase /\ pc' = pc
    BY <1>8 DEF DeleteRemove, OtherStep, DeleteArrives, DeleteLookup, DeleteCancel,
       ClearCutoff, ClearStep, ClearCollect, ClearCancel, ClearDone, CooldownEnds, vars
  <2>2. QED
    BY <1>1, <1>2, <2>1 DEF TypeOK, EditPcs
<1>9. QED
  BY <1>3, <1>4, <1>5, <1>6, <1>7, <1>8, StepCases

\* The clear command's part of the invariant.  A registered run that fetched
\* history has a CancelFunc, so ClearCollect puts it on the list; only the
\* clear command removes it from there, cancelling it.
LEMMA ClearInvStep ==
  ASSUME TypeOK, ThreadOrder, CancelFuncBeforeUse, ClearInProgress,
         ClearReachesRegistered, [Next]_vars
  PROVE  ClearInProgress' /\ ClearReachesRegistered'
<1> USE DEF ClearInProgress, ClearReachesRegistered, ChannelOfRun
<1>1. \A q \in Runs : /\ cancelled[q] => cancelled'[q]
                      /\ hasCancel[q] => hasCancel'[q]
  BY CancelMonotone
<1>2. \A q \in Runs : MsgOf[q] \in Msgs /\ ChannelOf[MsgOf[q]] \in Channels /\ q # NoRun
  BY PipelineAssumption
<1>3. ASSUME NEW r \in Runs, LiveStep(r)
      PROVE  ClearInProgress' /\ ClearReachesRegistered'
  <2>1. reg' = reg /\ cancelled' = cancelled /\ UNCHANGED clearVars
    BY <1>3 DEF LiveStep, AttachCancel, FetchForDecision, FetchContext, Reconcile,
       SetDeciding, DecideYes, StartGenerating, FetchIfEmpty, Generated,
       SetSending, SendCheck, BeforeSendPasses, SendPart
  <2>2. \A q \in Runs : \/ seen'[q] = seen[q]
                        \/ seen'[q] \in {NoHistory, epoch[ChannelOf[MsgOf[q]]]}
    BY <1>3 DEF LiveStep, AttachCancel, FetchForDecision, FetchContext, Reconcile,
       SetDeciding, DecideYes, StartGenerating, FetchIfEmpty, Generated,
       SetSending, SendCheck, BeforeSendPasses, SendPart, TypeOK
  <2>3. QED
    BY <1>2, <2>1, <2>2 DEF TypeOK
<1>4. ASSUME NEW r \in Runs, OuterStep(r)
      PROVE  ClearInProgress' /\ ClearReachesRegistered'
  <2>1. reg' = reg /\ seen' = seen /\ UNCHANGED clearVars
    BY <1>4 DEF OuterStep, CreateArrives, HookBlocks, EditArrives, EditLookup,
       EditInspect, EditCancelOld, EditUpdateOld, SetCooldown
  <2>2. QED
    BY <1>1, <1>2, <2>1 DEF TypeOK
<1>5. ASSUME NEW r \in Runs, ClearingStep(r) \/ EditRemoveOld(r)
      PROVE  ClearInProgress' /\ ClearReachesRegistered'
  <2>1. /\ cancelled' = cancelled /\ seen' = seen /\ UNCHANGED clearVars
        /\ \A m \in Msgs : reg'[m] # NoRun => reg'[m] = reg[m]
    BY <1>2, <1>5 DEF ClearingStep, DecideNo, Abandon, SendStops, ClearSent, Finish,
       EditRemoveOld, RemoveIfMatch, TypeOK
  <2>2. QED
    BY <1>2, <2>1 DEF TypeOK
<1>6. ASSUME NEW r \in Runs, HookContinues(r) \/ EditRegister(r)
      PROVE  ClearInProgress' /\ ClearReachesRegistered'
  <2>1. /\ cancelled' = cancelled /\ seen' = seen /\ UNCHANGED clearVars
        /\ reg' = [reg EXCEPT ![MsgOf[r]] = r]
        /\ seen[r] = NoHistory
    BY <1>6 DEF HookContinues, EditRegister, Register, ThreadOrder, EditPcs
  <2>2. QED
    BY <1>2, <2>1 DEF TypeOK
<1>7. ASSUME NEW m \in Msgs, DeleteRemove(m)
      PROVE  ClearInProgress' /\ ClearReachesRegistered'
  <2>1. /\ cancelled' = cancelled /\ seen' = seen /\ UNCHANGED clearVars
        /\ \A n \in Msgs : reg'[n] # NoRun => reg'[n] = reg[n]
    BY <1>7 DEF DeleteRemove, RemoveIfMatch, TypeOK
  <2>2. QED
    BY <1>2, <2>1 DEF TypeOK
<1>8. CASE OtherStep
  <2>1. CASE \/ \E m \in Msgs : DeleteArrives(m) \/ DeleteLookup(m) \/ DeleteCancel(m)
             \/ \E a \in Authors : CooldownEnds(a)
             \/ UNCHANGED vars
    <3>1. reg' = reg /\ seen' = seen /\ UNCHANGED clearVars
      BY <2>1 DEF DeleteArrives, DeleteLookup, DeleteCancel, CooldownEnds, vars
    <3>2. QED
      BY <1>1, <1>2, <3>1 DEF TypeOK
  <2>2. ASSUME NEW c \in Channels, ClearCutoff(c)
        PROVE  ClearInProgress' /\ ClearReachesRegistered'
    BY <1>2, <2>2 DEF ClearCutoff, TypeOK
  <2>3. ASSUME NEW c \in Channels, ClearCollect(c)
        PROVE  ClearInProgress' /\ ClearReachesRegistered'
    BY <1>2, <2>3 DEF ClearCollect, CancelFuncBeforeUse, TypeOK
  <2>4. ASSUME NEW c \in Channels, ClearCancel(c)
        PROVE  ClearInProgress' /\ ClearReachesRegistered'
    <3>1. PICK r \in clearing[c] :
            Cancel(r) /\ clearing' = [clearing EXCEPT ![c] = @ \ {r}]
      BY <2>4 DEF ClearCancel
    <3>2. reg' = reg /\ seen' = seen /\ epoch' = epoch /\ clearPc' = clearPc
      BY <2>4 DEF ClearCancel
    <3>3. r \in Runs /\ (hasCancel[r] => cancelled'[r])
      BY <3>1 DEF Cancel, TypeOK
    <3>4. seen[r] # NoHistory => cancelled'[r]
      BY <3>3 DEF CancelFuncBeforeUse
    <3>5. QED
      BY <1>1, <1>2, <3>1, <3>2, <3>3, <3>4 DEF TypeOK
  <2>5. ASSUME NEW c \in Channels, ClearDone(c)
        PROVE  ClearInProgress' /\ ClearReachesRegistered'
    BY <1>2, <2>5 DEF ClearDone, TypeOK
  <2>6. QED
    BY <1>8, <2>1, <2>2, <2>3, <2>4, <2>5 DEF OtherStep, ClearStep
<1>9. QED
  BY <1>3, <1>4, <1>5, <1>6, <1>7, <1>8, StepCases

-----------------------------------------------------------------------------
LEMMA InitIInv == Init => IInv
<1> SUFFICES ASSUME Init PROVE IInv
  OBVIOUS
<1> USE DEF Init
<1>1. TypeOK
  BY PipelineAssumption DEF TypeOK, Phases, Pcs, NoHistory
<1>2. RegisteredIsRunning /\ SupersededIsCancelled
  BY PipelineAssumption DEF RegisteredIsRunning, SupersededIsCancelled, LivePcs,
     DecidePcs, WorkPcs, SendPcs
<1>3. ThreadOrder /\ CancelFuncBeforeUse /\ CancelsFirst
  BY DEF ThreadOrder, CancelFuncBeforeUse, CancelsFirst, EditPcs, LivePcs,
     DecidePcs, WorkPcs, SendPcs
<1>4. ClearInProgress /\ ClearReachesRegistered
  BY PipelineAssumption DEF ClearInProgress, ClearReachesRegistered
<1>5. QED
  BY <1>1, <1>2, <1>3, <1>4 DEF IInv

LEMMA NextIInv == IInv /\ [Next]_vars => IInv'
<1> SUFFICES ASSUME IInv, [Next]_vars PROVE IInv'
  OBVIOUS
<1> USE DEF IInv
<1>1. TypeOK' /\ RegisteredIsRunning' /\ ThreadOrder' /\ CancelFuncBeforeUse'
  BY TypeStep, RegisteredStep, ThreadOrderStep, CancelFuncStep
<1>2. CancelsFirst' /\ SupersededIsCancelled'
  BY SupersedeStep
<1>3. ClearInProgress' /\ ClearReachesRegistered'
  BY ClearInvStep
<1>4. QED
  BY <1>1, <1>2, <1>3

\* The inductive invariant holds of every pipeline, whatever the number of
\* messages, edits, channels and clear commands (session.go:959-1050).
THEOREM PipelineInvariant == Spec => []IInv
BY InitIInv, NextIInv, PTL DEF Spec

\* Every variable keeps its type (session.go:52-64).
THEOREM PipelineTypes == Spec => []TypeOK
<1>1. IInv => TypeOK
  BY DEF IInv
<1>2. QED
  BY <1>1, PipelineInvariant, PTL

\* No registration is ever leaked (session.go:1000, handlers_process.go:31-148).
THEOREM RegistryNeverLeaks == Spec => []RegisteredIsRunning
<1>1. IInv => RegisteredIsRunning
  BY DEF IInv
<1>2. QED
  BY <1>1, PipelineInvariant, PTL

\* An edit never starts a second run while the run it superseded goes on
\* uncancelled (session.go:1020-1036).
THEOREM SupersedeIsSafe == Spec => []SupersededIsCancelled
<1>1. IInv => SupersededIsCancelled
  BY DEF IInv
<1>2. QED
  BY <1>1, PipelineInvariant, PTL

\* After /clear-context no registered, uncancelled reply uses the history it
\* hid (clear_command.go:114-131).
THEOREM ClearIsEffective == Spec => []ClearReachesRegistered
<1>1. IInv => ClearReachesRegistered
  BY DEF IInv
<1>2. QED
  BY <1>1, PipelineInvariant, PTL

LEMMA EvictionStep ==
  ASSUME IInv, [Next]_vars, NEW m \in Msgs, reg[m] # NoRun, reg'[m] = NoRun
  PROVE  \/ pc[reg[m]] \in LivePcs /\ pc'[reg[m]] \in {"afterSend", "done"}
         \/ cancelled[reg[m]]
         \/ delRun[m] = reg[m]
<1> USE DEF IInv
<1>1. ASSUME NEW r \in Runs, LiveStep(r) \/ OuterStep(r) PROVE FALSE
  BY <1>1, LiveStepMoves, OuterStepMoves
<1>2. ASSUME NEW r \in Runs, ClearingStep(r)
      PROVE  reg[m] = r /\ pc[r] \in LivePcs /\ pc'[r] \in {"afterSend", "done"}
  BY <1>2, ClearingStepMoves DEF RemoveIfMatch, TypeOK, RegisteredIsRunning
<1>3. ASSUME NEW r \in Runs, HookContinues(r) \/ EditRegister(r) PROVE FALSE
  BY <1>3, PipelineAssumption DEF HookContinues, EditRegister, Register, TypeOK
<1>4. ASSUME NEW r \in Runs, EditRemoveOld(r) PROVE cancelled[reg[m]]
  <2>1. pc[r] = "removeOld" /\ reg[m] = old[r]
    BY <1>4 DEF EditRemoveOld, RemoveIfMatch, TypeOK
  <2>2. QED
    BY <2>1 DEF ThreadOrder, EditPcs, SupersededIsCancelled
<1>5. ASSUME NEW n \in Msgs, DeleteRemove(n) PROVE delRun[m] = reg[m]
  BY <1>5 DEF DeleteRemove, RemoveIfMatch, TypeOK
<1>6. CASE OtherStep
  BY <1>6, OtherStepMoves
<1>7. QED
  BY <1>1, <1>2, <1>3, <1>4, <1>5, <1>6, StepCases

\* removeProcessingMessageIfMatch protects newer registrations: an entry goes
\* only by its own thread, after its cancellation, or by the delete handler
\* that looked it up (session.go:984-998).
THEOREM EvictionByOwner == Spec => EvictedOnlyByOwner
<1>1. IInv /\ [Next]_vars =>
        [\A m \in Msgs : LET r == reg[m] IN
           r # NoRun /\ reg'[m] = NoRun
             => \/ pc[r] \in LivePcs /\ pc'[r] \in {"afterSend", "done"}
                \/ cancelled[r]
                \/ delRun[m] = r]_vars
  BY EvictionStep
<1>2. QED
  BY <1>1, PipelineInvariant, PTL DEF Spec, EvictedOnlyByOwner

-----------------------------------------------------------------------------
\* Once a thread has decided, it never comes back to the decision.
LEMMA NoWayBack ==
  ASSUME TypeOK, ThreadOrder, [Next]_vars, NEW m \in Msgs,
         pc[FirstRun[m]] \in WorkPcs \cup SendPcs \cup {"afterSend", "done"}
  PROVE  pc'[FirstRun[m]] \in WorkPcs \cup SendPcs \cup {"afterSend", "done"}
<1> DEFINE f == FirstRun[m]
           After == WorkPcs \cup SendPcs \cup {"afterSend", "done"}
<1>f. f \in Runs /\ IsCreate(f) /\ pc \in [Runs -> Pcs] /\ pc[f] \in After
  BY PipelineAssumption DEF IsCreate, TypeOK
<1> HIDE DEF f
<1> SUFFICES pc'[f] \in After
  BY DEF f
<1> USE <1>f DEF WorkPcs, SendPcs
<1>1. ASSUME NEW r \in Runs, LiveStep(r) PROVE pc'[f] \in After
  <2>1. CASE r # f
    BY <1>1, <2>1, LiveStepMoves
  <2>2. CASE r = f
    <3>1. CASE AttachCancel(r) \/ FetchForDecision(r) \/ Reconcile(r) \/ SetDeciding(r)
               \/ DecideYes(r)
      BY <2>2, <3>1 DEF AttachCancel, FetchForDecision, Reconcile, SetDeciding, DecideYes
    <3>2. CASE StartGenerating(r) \/ Generated(r) \/ SetSending(r) \/ SendCheck(r)
               \/ BeforeSendPasses(r)
      BY <3>2 DEF StartGenerating, Generated, SetSending, SendCheck, BeforeSendPasses
    <3>3. CASE FetchIfEmpty(r) \/ SendPart(r)
      BY <3>3 DEF FetchIfEmpty, FetchContext, SendPart
    <3>4. QED
      BY <1>1, <3>1, <3>2, <3>3 DEF LiveStep
  <2>3. QED
    BY <2>1, <2>2
<1>2. ASSUME NEW r \in Runs, OuterStep(r) PROVE pc'[f] \in After
  <2>1. CASE r # f
    BY <1>2, <2>1, OuterStepMoves
  <2>2. CASE r = f
    <3>1. SetCooldown(f)
      BY <1>2, <2>2 DEF OuterStep, CreateArrives, HookBlocks, EditArrives, EditLookup,
                        EditInspect, EditCancelOld, EditUpdateOld
    <3>2. QED
      BY <3>1 DEF SetCooldown
  <2>3. QED
    BY <2>1, <2>2
<1>3. ASSUME NEW r \in Runs, ClearingStep(r) PROVE pc'[f] \in After
  BY <1>3, ClearingStepMoves
<1>4. ASSUME NEW r \in Runs, HookContinues(r) \/ EditRegister(r) \/ EditRemoveOld(r)
      PROVE  pc'[f] \in After
  BY <1>4 DEF HookContinues, EditRegister, EditRemoveOld
<1>5. ASSUME NEW n \in Msgs, DeleteRemove(n) PROVE pc'[f] \in After
  BY <1>5 DEF DeleteRemove
<1>6. CASE OtherStep
  BY <1>6, OtherStepMoves
<1>7. QED
  BY <1>1, <1>2, <1>3, <1>4, <1>5, <1>6, StepCases

\* Only a decision on a created message moves a charge, by one.
LEMMA ChargeMoves ==
  ASSUME TypeOK, [Next]_vars, NEW m \in Msgs
  PROVE  \/ charged'[m] = charged[m]
         \/ /\ pc[FirstRun[m]] = "decide"
            /\ charged'[m] = charged[m] + 1
            /\ pc'[FirstRun[m]] \in {"start", "done"}
<1> DEFINE Goal == \/ charged'[m] = charged[m]
                   \/ /\ pc[FirstRun[m]] = "decide"
                      /\ charged'[m] = charged[m] + 1
                      /\ pc'[FirstRun[m]] \in {"start", "done"}
<1>1. ASSUME NEW r \in Runs, DecideYes(r) \/ DecideNo(r) PROVE Goal
  <2>1. /\ pc[r] = "decide"
        /\ Charge(r) \/ UNCHANGED limitVars
        /\ \E l \in {"start", "done"} : pc' = [pc EXCEPT ![r] = l]
    BY <1>1 DEF DecideYes, DecideNo, Finish
  <2>2. CASE charged' = charged
    BY <2>2
  <2>3. CASE /\ IsCreate(r)
             /\ charged' = [charged EXCEPT ![MsgOf[r]] = charged[MsgOf[r]] + 1]
    BY <2>1, <2>3, PipelineAssumption DEF IsCreate, TypeOK
  <2>4. QED
    BY <2>1, <2>2, <2>3 DEF Charge
<1>2. ASSUME NEW r \in Runs, LiveStep(r), ~ DecideYes(r) PROVE Goal
  BY <1>2 DEF LiveStep, AttachCancel, FetchForDecision, FetchContext, Reconcile, SetDeciding,
     StartGenerating, FetchIfEmpty, Generated, SetSending, SendCheck, BeforeSendPasses, SendPart
<1>3. ASSUME NEW r \in Runs, OuterStep(r) PROVE Goal
  BY <1>3 DEF OuterStep, CreateArrives, HookBlocks, EditArrives, EditLookup,
     EditInspect, EditCancelOld, EditUpdateOld, SetCooldown
<1>4. ASSUME NEW r \in Runs, ClearingStep(r), ~ DecideNo(r) PROVE Goal
  BY <1>4 DEF ClearingStep, Abandon, SendStops, ClearSent
<1>5. ASSUME NEW r \in Runs, HookContinues(r) \/ EditRegister(r) \/ EditRemoveOld(r)
      PROVE  Goal
  BY <1>5 DEF HookContinues, EditRegister, EditRemoveOld
<1>6. ASSUME NEW n \in Msgs, DeleteRemove(n) PROVE Goal
  BY <1>6 DEF DeleteRemove
<1>7. CASE OtherStep
  BY <1>7 DEF OtherStep, DeleteArrives, DeleteLookup, DeleteCancel, ClearCutoff,
     ClearStep, ClearCollect, ClearCancel, ClearDone, CooldownEnds, vars
<1>8. QED
  BY <1>1, <1>2, <1>3, <1>4, <1>5, <1>6, <1>7, StepCases

\* A message is charged to its author's limit at most once, whatever edits and
\* second decisions follow (session.go:828-836, 862).
THEOREM ChargedOnce == Spec => []ChargedAtMostOnce
<1>1. Init => ChargedWhenDecided
  BY DEF Init, ChargedWhenDecided
<1>2. ASSUME IInv, ChargedWhenDecided, [Next]_vars PROVE ChargedWhenDecided'
  <2>1. TypeOK /\ ThreadOrder
    BY <1>2 DEF IInv
  <2>2. ASSUME NEW m \in Msgs
        PROVE  \/ charged'[m] = 0
               \/ /\ charged'[m] = 1
                  /\ pc'[FirstRun[m]] \in WorkPcs \cup SendPcs \cup {"afterSend", "done"}
    <3>1. CASE charged'[m] = charged[m]
      BY <1>2, <2>1, <3>1, NoWayBack DEF ChargedWhenDecided
    <3>2. CASE charged'[m] # charged[m]
      <4>1. /\ pc[FirstRun[m]] = "decide" /\ charged'[m] = charged[m] + 1
            /\ pc'[FirstRun[m]] \in {"start", "done"}
        BY <1>2, <2>1, <3>2, ChargeMoves
      <4>2. charged[m] = 0
        BY <1>2, <4>1 DEF ChargedWhenDecided, WorkPcs, SendPcs
      <4>3. QED
        BY <4>1, <4>2 DEF WorkPcs
    <3>3. QED
      BY <3>1, <3>2
  <2>3. QED
    BY <2>2 DEF ChargedWhenDecided
<1>3. ChargedWhenDecided => ChargedAtMostOnce
  BY DEF ChargedWhenDecided, ChargedAtMostOnce
<1>4. QED
  BY <1>1, <1>2, <1>3, PipelineInvariant, PTL DEF Spec

\* Only SendCheck, which needs a live context, takes a run past its last check.
LEMMA CheckPassed ==
  ASSUME TypeOK, [Next]_vars, NEW r \in Runs, At(r, "check"), pc'[r] = "beforeSend"
  PROVE  ~ cancelled[r]
<1> USE DEF TypeOK, LivePcs, DecidePcs, WorkPcs, SendPcs
<1>1. ASSUME NEW q \in Runs, LiveStep(q) PROVE ~ cancelled[r]
  <2>1. PICK l \in LivePcs : pc' = [pc EXCEPT ![q] = l]
    BY <1>1, LiveStepMoves
  <2>2. q = r
    BY <2>1
  <2>3. SendCheck(r)
    BY <1>1, <2>2 DEF LiveStep, AttachCancel, FetchForDecision, FetchContext, Reconcile,
      SetDeciding, DecideYes, StartGenerating, FetchIfEmpty, Generated, SetSending,
      BeforeSendPasses, SendPart
  <2>4. QED
    BY <2>3 DEF SendCheck
<1>2. ASSUME NEW q \in Runs, OuterStep(q) PROVE FALSE
  BY <1>2, OuterStepMoves
<1>3. ASSUME NEW q \in Runs, ClearingStep(q) PROVE FALSE
  BY <1>3, ClearingStepMoves
<1>4. ASSUME NEW q \in Runs, HookContinues(q) \/ EditRegister(q) \/ EditRemoveOld(q)
      PROVE  FALSE
  BY <1>4 DEF HookContinues, EditRegister, EditRemoveOld
<1>5. ASSUME NEW m \in Msgs, DeleteRemove(m) PROVE FALSE
  BY <1>5 DEF DeleteRemove
<1>6. CASE OtherStep
  BY <1>6, OtherStepMoves
<1>7. QED
  BY <1>1, <1>2, <1>3, <1>4, <1>5, <1>6, StepCases

LEMMA SendStep ==
  ASSUME IInv, [Next]_vars, NEW r \in Runs, At(r, "check"), pc'[r] = "beforeSend"
  PROVE  /\ \A q \in Runs : pc[q] \in {"removeOld", "register"} \cup LivePcs
                             => old[q] # r
         /\ reg[MsgOf[r]] = r /\ clearPc[ChannelOfRun(r)] = "idle"
              => seen[r] \in {NoHistory, epoch[ChannelOfRun(r)]}
<1>1. ~ cancelled[r]
  BY CheckPassed DEF IInv
<1>2. ASSUME NEW q \in Runs, pc[q] \in {"removeOld", "register"} \cup LivePcs
      PROVE  old[q] # r
  <2>1. CASE IsCreate(q)
    BY <2>1, PipelineAssumption DEF IInv, ThreadOrder
  <2>2. CASE ~ IsCreate(q)
    BY <1>1, <1>2, <2>2 DEF IInv, SupersededIsCancelled
  <2>3. QED
    BY <2>1, <2>2
<1>3. QED
  BY <1>1, <1>2 DEF IInv, ClearReachesRegistered

\* A run that an edit superseded, or whose history a finished /clear-context
\* hid, does not pass the last check before the send
\* (handlers_process.go:117-119).
THEOREM OnlyCurrentSend == Spec => OnlyCurrentRunsSend
<1>1. IInv /\ [Next]_vars =>
        [\A r \in Runs : At(r, "check") /\ pc'[r] = "beforeSend" =>
           /\ \A q \in Runs : pc[q] \in {"removeOld", "register"} \cup LivePcs
                                => old[q] # r
           /\ reg[MsgOf[r]] = r /\ clearPc[ChannelOfRun(r)] = "idle"
                => seen[r] \in {NoHistory, epoch[ChannelOfRun(r)]}]_vars
  BY SendStep
<1>2. QED
  BY <1>1, PipelineInvariant, PTL DEF Spec, OnlyCurrentRunsSend
==============================================================================
