-------------------------- MODULE SchedulerProofs --------------------------
(***************************************************************************)
(* Theorems about the scheduler, for every pipeline, parallelism, option   *)
(* and outcome of the commands.                                            *)
(***************************************************************************)
EXTENDS Scheduler, TLAPS, FiniteSetTheorems

EventNames == {"StepQueued", "StepStart", "StepCacheHit", "StepEnd", "ChainFailed"}

LEMMA AppendLast ==
  ASSUME NEW q \in Seq(EventNames), NEW e \in EventNames
  PROVE  /\ Append(q, e) \in Seq(EventNames)
         /\ Append(q, e) # <<>>
         /\ Append(q, e)[Len(Append(q, e))] = e
<1>1. Len(Append(q, e)) = Len(q) + 1 /\ Len(q) \in Nat
  OBVIOUS
<1>2. Append(q, e)[Len(q) + 1] = e
  OBVIOUS
<1>3. QED
  BY <1>1, <1>2

-----------------------------------------------------------------------------
(* Typing.                                                                 *)

LEMMA AnswerTyped ==
  ASSUME TypeOK, NEW s \in Steps, NEW r \in RunResults, NEW events \in Seq(EventNames),
         Answer(s, r, events)
  PROVE  TypeOK'
<1>1. trace' \in [Steps -> Seq(EventNames)]
  <2>1. trace[s] \o events \in Seq(EventNames)
    BY DEF TypeOK, EventNames
  <2>2. QED
    BY <2>1 DEF TypeOK, Answer, EventNames
<1>2. result' \in [Steps -> Results \union {"none"}]
  BY DEF TypeOK, Answer, Results
<1>3. QED
  BY <1>1, <1>2 DEF TypeOK, Answer, buildVars, EventNames

\* Every variable keeps its type, in particular the semaphore never goes
\* below zero nor above the configured parallelism, given PermitsConserved.
LEMMA TypeStep ==
  ASSUME TypeOK, PermitsConserved, Next
  PROVE  TypeOK'
<1>1. ASSUME NEW s \in Steps, ShortCircuit(s) PROVE TypeOK'
  BY <1>1 DEF TypeOK, ShortCircuit, buildVars, Results
<1>2. ASSUME NEW s \in Steps, Admit(s) PROVE TypeOK'
  BY <1>2 DEF TypeOK, Admit, buildVars
<1>3. ASSUME NEW s \in Steps, Launch(s) PROVE TypeOK'
  <2>1. ParentSnapshot(s) \in Steps \union {NoImage}
    BY DEF ParentSnapshot, Lineage
  <2>2. <<"StepQueued", "StepStart">> \in Seq(EventNames)
    BY DEF EventNames
  <2>3. permits' \in 0..Parallelism
    BY <1>3, ParallelismAssumption DEF TypeOK, Launch
  <2>4. QED
    BY <1>3, <2>1, <2>2, <2>3 DEF TypeOK, Launch, buildVars, Results, RunResults, EventNames
<1>4. ASSUME NEW s \in Steps, CacheHit(s) PROVE TypeOK'
  <2>1. <<"StepCacheHit", "StepEnd">> \in Seq(EventNames) /\ "ok" \in RunResults
    BY DEF EventNames, RunResults
  <2>2. QED
    BY <1>4, <2>1, AnswerTyped DEF CacheHit
<1>5. ASSUME NEW s \in Steps, Commit(s) PROVE TypeOK'
  BY <1>5 DEF TypeOK, Commit, buildVars
<1>6. ASSUME NEW s \in Steps, Succeed(s) \/ Fail(s) \/ CutShort(s) \/ StepTimeout(s)
      PROVE  TypeOK'
  <2>1. <<"StepEnd">> \in Seq(EventNames)
    BY DEF EventNames
  <2>2. PICK r \in RunResults : Answer(s, r, <<"StepEnd">>)
    BY <1>6 DEF Succeed, Fail, CutShort, StepTimeout, RunResults
  <2>3. QED
    BY <2>1, <2>2, AnswerTyped
<1>7. ASSUME NEW s \in Steps, Publish(s) PROVE TypeOK'
  <2>1. Append(trace[s], "ChainFailed") \in Seq(EventNames) /\ trace[s] \in Seq(EventNames)
    BY DEF TypeOK, EventNames
  <2>2. trace' \in [Steps -> Seq(EventNames)]
    BY <1>7, <2>1 DEF TypeOK, Publish, CancelsBuild, EventNames
  <2>3. permits' \in 0..Parallelism
    <3>1. IsFiniteSet(PermitHolders) /\ s \in PermitHolders
      BY <1>7, StepsAssumption, FS_Subset DEF PermitHolders, Publish
    <3>2. Cardinality(PermitHolders) \in Nat \ {0}
      BY <3>1, FS_EmptySet, FS_CardinalityType
    <3>3. QED
      BY <1>7, <3>2, ParallelismAssumption DEF TypeOK, Publish, Released, PermitsConserved
  <2>4. QED
    BY <1>7, <2>2, <2>3 DEF TypeOK, Publish, buildVars, EventNames
<1>8. ASSUME NEW s \in Steps, Reap(s) PROVE TypeOK'
  BY <1>8 DEF TypeOK, Reap, stepVars
<1>9. ASSUME Deadline \/ Drained \/ Conclude \/ Interrupt \/ Returned PROVE TypeOK'
  BY <1>9 DEF TypeOK, Deadline, Drained, Conclude, Interrupt, Returned, Verdict,
              EphemeralSnapshots, stepVars, vars
<1>10. QED
  BY <1>1, <1>2, <1>3, <1>4, <1>5, <1>6, <1>7, <1>8, <1>9 DEF Next, StepNext

-----------------------------------------------------------------------------
(* The semaphore.                                                          *)

LEMMA HoldersFinite == IsFiniteSet(PermitHolders) /\ Cardinality(PermitHolders) \in Nat
<1>1. PermitHolders \subseteq Steps
  BY DEF PermitHolders
<1>2. QED
  BY <1>1, StepsAssumption, FS_Subset, FS_CardinalityType

\* Only Launch and Publish touch the semaphore, and each moves one step into
\* or out of the set of permit holders.
LEMMA PermitsStep ==
  ASSUME TypeOK, PermitsConserved, Next
  PROVE  PermitsConserved'
<1>1. ASSUME UNCHANGED permits, PermitHolders' = PermitHolders PROVE PermitsConserved'
  BY <1>1 DEF PermitsConserved
<1>2. ASSUME NEW s \in Steps, Launch(s) PROVE PermitsConserved'
  <2>1. PermitHolders' = PermitHolders \union {s} /\ s \notin PermitHolders
    BY <1>2 DEF Launch, PermitHolders, TypeOK
  <2>2. Cardinality(PermitHolders') = Cardinality(PermitHolders) + 1
    BY <2>1, HoldersFinite, FS_AddElement
  <2>3. permits \in Nat /\ permits' = permits - 1
    BY <1>2, ParallelismAssumption DEF Launch, TypeOK
  <2>4. QED
    BY <2>2, <2>3, HoldersFinite, ParallelismAssumption DEF PermitsConserved
<1>3. ASSUME NEW s \in Steps, Publish(s) PROVE PermitsConserved'
  <2>1. PermitHolders' = PermitHolders \ {s} /\ s \in PermitHolders
    BY <1>3 DEF Publish, PermitHolders, TypeOK
  <2>2. Cardinality(PermitHolders') = Cardinality(PermitHolders) - 1
    BY <2>1, HoldersFinite, FS_RemoveElement
  <2>3. permits \in Nat /\ permits' = permits + 1
    BY <1>3, ParallelismAssumption DEF Publish, Released, TypeOK
  <2>4. QED
    BY <2>2, <2>3, HoldersFinite, ParallelismAssumption DEF PermitsConserved
<1>4. ASSUME NEW s \in Steps,
             ShortCircuit(s) \/ Admit(s) \/ CacheHit(s) \/ Commit(s) \/ Succeed(s)
               \/ Fail(s) \/ CutShort(s) \/ StepTimeout(s)
      PROVE  PermitsConserved'
  <2>1. UNCHANGED permits
    BY <1>4 DEF ShortCircuit, Admit, CacheHit, Commit, Succeed, Fail, CutShort, StepTimeout, Answer
  <2>2. PermitHolders' = PermitHolders
    BY <1>4 DEF ShortCircuit, Admit, CacheHit, Commit, Succeed, Fail, CutShort, StepTimeout,
                Answer, PermitHolders, TypeOK
  <2>3. QED
    BY <1>1, <2>1, <2>2
<1>5. ASSUME NEW s \in Steps, Reap(s) PROVE PermitsConserved'
  BY <1>1, <1>5 DEF Reap, stepVars, PermitHolders
<1>6. ASSUME Deadline \/ Drained \/ Conclude \/ Interrupt \/ Returned PROVE PermitsConserved'
  BY <1>1, <1>6 DEF Deadline, Drained, Conclude, Interrupt, Returned, stepVars, vars, PermitHolders
<1>7. QED
  BY <1>2, <1>3, <1>4, <1>5, <1>6 DEF Next, StepNext

LEMMA StutterStep ==
  ASSUME IndInv, UNCHANGED vars
  PROVE  IndInv'
<1>1. TypeOK' /\ PermitsConserved'
  BY DEF IndInv, vars, TypeOK, PermitsConserved, PermitHolders
<1>2. \A s \in Steps : Coherent(s)' /\ Gated(s)' /\ SkipCause(s)'
  BY DEF IndInv, vars, Coherent, Gated, SkipCause, Done, Started
<1>3. \A s \in Steps \ Cached : ImageKept(s)'
  BY DEF IndInv, vars, ImageKept
<1>4. CancelCause'
  BY DEF IndInv, vars, CancelCause, Reported, Done, Started
<1>5. PhaseOK'
  BY DEF IndInv, vars, PhaseOK, Joined, Done, Verdict
<1>6. QED
  BY <1>1, <1>2, <1>3, <1>4, <1>5 DEF IndInv

-----------------------------------------------------------------------------
(* The life of one step.  The six ways in which an execution answers are    *)
(* one action, Answer, taken from a running or a committed step.            *)

AnyAnswer(s) == CacheHit(s) \/ Succeed(s) \/ Fail(s) \/ CutShort(s) \/ StepTimeout(s)

LEMMA Answers ==
  ASSUME NEW s \in Steps, AnyAnswer(s)
  PROVE  \E r \in RunResults, events \in Seq(EventNames) :
           /\ Answer(s, r, events) /\ events # <<>>
           /\ pc[s] \in {"running", "committed"}
           /\ r = "ok" => pc[s] = "committed" \/ s \in Cached
           /\ pc[s] = "committed" => r \in {"ok", "cut", "timeout", "error"}
           /\ r = "cut" => cancel
<1>1. <<"StepEnd">> \in Seq(EventNames) /\ <<"StepEnd">> # <<>>
      /\ <<"StepCacheHit", "StepEnd">> \in Seq(EventNames) /\ <<"StepCacheHit", "StepEnd">> # <<>>
  BY DEF EventNames
<1>2. CASE CacheHit(s)
  BY <1>1, <1>2 DEF CacheHit, RunResults
<1>3. CASE Succeed(s)
  BY <1>1, <1>3 DEF Succeed, RunResults
<1>4. CASE Fail(s)
  BY <1>1, <1>4 DEF Fail, RunResults
<1>5. CASE CutShort(s)
  BY <1>1, <1>5 DEF CutShort, RunResults
<1>6. CASE StepTimeout(s)
  BY <1>1, <1>6 DEF StepTimeout, RunResults
<1>7. QED
  BY <1>2, <1>3, <1>4, <1>5, <1>6 DEF AnyAnswer

\* The answer of a step leaves the others alone.
LEMMA AnswerEffect ==
  ASSUME TypeOK, NEW s \in Steps, AnyAnswer(s)
  PROVE  \E r \in RunResults :
           /\ pc[s] \in {"running", "committed"}
           /\ r = "ok" => pc[s] = "committed" \/ s \in Cached
           /\ pc[s] = "committed" => r \in {"ok", "cut", "timeout", "error"}
           /\ r = "cut" => cancel
           /\ pc' = [pc EXCEPT ![s] = "ending"]
           /\ result' = [result EXCEPT ![s] = r]
           /\ trace' = [trace EXCEPT ![s] = trace'[s]] /\ trace'[s] # <<>>
           /\ UNCHANGED <<base, permits, cancel, images, interrupted, timedOut,
                          toReap, unreaped, phase, verdict>>
<1>1. PICK r \in RunResults, events \in Seq(EventNames) :
        /\ Answer(s, r, events) /\ events # <<>>
        /\ pc[s] \in {"running", "committed"}
        /\ r = "ok" => pc[s] = "committed" \/ s \in Cached
        /\ pc[s] = "committed" => r \in {"ok", "cut", "timeout", "error"}
        /\ r = "cut" => cancel
  BY Answers
<1>2. trace[s] \in Seq(EventNames) /\ trace'[s] = trace[s] \o events
  BY <1>1 DEF TypeOK, EventNames, Answer
<1>3. trace'[s] # <<>>
  BY <1>1, <1>2
<1>4. QED
  BY <1>1, <1>3 DEF Answer, buildVars, TypeOK

LEMMA CoherentStep ==
  ASSUME IndInv, Next
  PROVE  \A s \in Steps : Coherent(s)'
<1> SUFFICES ASSUME NEW t \in Steps PROVE Coherent(t)'
  OBVIOUS
<1> USE DEF IndInv, Coherent, TypeOK
<1>1. ASSUME NEW s \in Steps, AnyAnswer(s) PROVE Coherent(t)'
  <2>1. PICK r \in RunResults :
           /\ pc' = [pc EXCEPT ![s] = "ending"]
           /\ result' = [result EXCEPT ![s] = r]
           /\ trace' = [trace EXCEPT ![s] = trace'[s]] /\ trace'[s] # <<>>
    BY <1>1, AnswerEffect
  <2>2. CASE t = s
    BY <2>1, <2>2
  <2>3. CASE t # s
    BY <2>1, <2>3
  <2>4. QED
    BY <2>2, <2>3
<1>2. ASSUME NEW s \in Steps, ShortCircuit(s) \/ Admit(s) \/ Commit(s) PROVE Coherent(t)'
  BY <1>2 DEF ShortCircuit, Admit, Commit
<1>3. ASSUME NEW s \in Steps, Launch(s) PROVE Coherent(t)'
  <2>1. <<"StepQueued", "StepStart">> # <<>>
    OBVIOUS
  <2>2. QED
    BY <1>3, <2>1 DEF Launch, RunResults
<1>4. ASSUME NEW s \in Steps, Publish(s) PROVE Coherent(t)'
  <2>1. trace[s] # <<>> /\ trace[s] \in Seq(EventNames)
    BY <1>4 DEF Publish, EventNames
  <2>2. trace'[s] # <<>>
    BY <1>4, <2>1, AppendLast DEF Publish, EventNames
  <2>3. trace' = [trace EXCEPT ![s] = trace'[s]]
    BY <1>4 DEF Publish
  <2>4. QED
    BY <1>4, <2>2, <2>3 DEF Publish
<1>5. ASSUME NEW s \in Steps, Reap(s) PROVE Coherent(t)'
  BY <1>5 DEF Reap, stepVars
<1>6. ASSUME Deadline \/ Drained \/ Conclude \/ Interrupt \/ Returned PROVE Coherent(t)'
  BY <1>6 DEF Deadline, Drained, Conclude, Interrupt, Returned, stepVars, vars
<1>7. QED
  BY <1>1, <1>2, <1>3, <1>4, <1>5, <1>6 DEF Next, StepNext, AnyAnswer

LEMMA GatedStep ==
  ASSUME IndInv, Next
  PROVE  \A s \in Steps : Gated(s)'
<1> SUFFICES ASSUME NEW t \in Steps PROVE Gated(t)'
  OBVIOUS
<1>0. \A s \in Steps : Coherent(s) /\ Gated(s)
  BY DEF IndInv
<1> USE DEF IndInv, Gated, Coherent, TypeOK, Done, Started
<1>1. ASSUME NEW s \in Steps, AnyAnswer(s) PROVE Gated(t)'
  <2>1. PICK r \in RunResults :
           /\ pc[s] \in {"running", "committed"}
           /\ pc' = [pc EXCEPT ![s] = "ending"]
           /\ result' = [result EXCEPT ![s] = r]
           /\ trace' = [trace EXCEPT ![s] = trace'[s]] /\ trace'[s] # <<>>
           /\ UNCHANGED base
    BY <1>1, AnswerEffect
  <2>2. QED
    BY <2>1, <1>0 DEF Preds
<1>2. ASSUME NEW s \in Steps, ShortCircuit(s) PROVE Gated(t)'
  BY <1>2, <1>0 DEF ShortCircuit, Preds
<1>3. ASSUME NEW s \in Steps, Admit(s) PROVE Gated(t)'
  <2>1. \A p \in Preds(s) : Done(p) /\ result[p] = "ok"
    <3> SUFFICES ASSUME NEW p \in Preds(s) PROVE result[p] = "ok"
      BY <1>3 DEF Admit, Ready
    <3>1. p \in Steps /\ Done(p) /\ result[p] \notin FailedOrSkipped
      BY <1>3 DEF Admit, Ready, Blocked, Preds
    <3>2. result[p] \in Results
      BY <3>1, <1>0 DEF Results
    <3>3. QED
      BY <3>1, <3>2 DEF FailedOrSkipped
  <2>2. QED
    BY <1>3, <2>1 DEF Admit, Preds
<1>4. ASSUME NEW s \in Steps, Commit(s) PROVE Gated(t)'
  BY <1>4, <1>0 DEF Commit, Preds
<1>5. ASSUME NEW s \in Steps, Launch(s) PROVE Gated(t)'
  <2>1. \A p \in Preds(s) : Done(p) /\ result[p] = "ok"
    BY <1>5, <1>0 DEF Launch
  <2>2. Lineage(s) # {} => ParentSnapshot(s) \in Lineage(s)
    <3>1. Lineage(s) \subseteq Preds(s)
      BY DEF Lineage, Preds, Edges
    <3>2. QED
      BY <2>1, <3>1 DEF ParentSnapshot, WithSnapshot
  <2>3. t # s => Gated(t)'
    BY <1>5, <1>0 DEF Launch, Preds
  <2>4. Gated(s)'
    BY <1>5, <2>1, <2>2 DEF Launch, Preds
  <2>5. QED
    BY <2>3, <2>4
<1>6. ASSUME NEW s \in Steps, Publish(s) PROVE Gated(t)'
  <2>1. trace' = [trace EXCEPT ![s] = trace'[s]] /\ trace[s] # <<>>
    BY <1>6, <1>0 DEF Publish
  <2>2. QED
    BY <1>6, <1>0, <2>1 DEF Publish, Preds
<1>7. ASSUME NEW s \in Steps, Reap(s) PROVE Gated(t)'
  BY <1>7, <1>0 DEF Reap, stepVars
<1>8. ASSUME Deadline \/ Drained \/ Conclude \/ Interrupt \/ Returned PROVE Gated(t)'
  BY <1>8, <1>0 DEF Deadline, Drained, Conclude, Interrupt, Returned, stepVars, vars
<1>9. QED
  BY <1>1, <1>2, <1>3, <1>4, <1>5, <1>6, <1>7, <1>8 DEF Next, StepNext, AnyAnswer

LEMMA SkipCauseStep ==
  ASSUME IndInv, Next
  PROVE  \A s \in Steps : SkipCause(s)'
<1> SUFFICES ASSUME NEW t \in Steps PROVE SkipCause(t)'
  OBVIOUS
<1>0. \A s \in Steps : SkipCause(s) /\ Coherent(s)
  BY DEF IndInv
<1> USE DEF IndInv, SkipCause, TypeOK
<1>1. ASSUME UNCHANGED result, cancel => cancel' PROVE SkipCause(t)'
  BY <1>0, <1>1
<1>2. ASSUME NEW s \in Steps, AnyAnswer(s) PROVE SkipCause(t)'
  <2>1. PICK r \in RunResults :
           /\ pc[s] \in {"running", "committed"}
           /\ r = "cut" => cancel
           /\ result' = [result EXCEPT ![s] = r]
           /\ UNCHANGED cancel
    BY <1>2, AnswerEffect
  <2>2. result[s] = "none" /\ "none" \notin NonZeroExit
    BY <2>1, <1>0 DEF Coherent, NonZeroExit, RunResults
  <2>3. r \notin {"skipped", "canceled"}
    BY DEF RunResults
  <2>4. \A u \in Steps : result[u] \in NonZeroExit => result'[u] \in NonZeroExit
    BY <2>1, <2>2
  <2>5. QED
    BY <1>0, <2>1, <2>3, <2>4
<1>3. ASSUME NEW s \in Steps, ShortCircuit(s) PROVE SkipCause(t)'
  <2>1. result[s] = "none" /\ "none" \notin NonZeroExit
    BY <1>3, <1>0 DEF Coherent, NonZeroExit, RunResults, ShortCircuit
  <2>2. \A u \in Steps : result[u] \in NonZeroExit => result'[u] \in NonZeroExit
    BY <1>3, <2>1 DEF ShortCircuit
  <2>3. cancel \/ \E u \in Steps : result[u] \in NonZeroExit
    <3>1. CASE cancel
      BY <3>1
    <3>2. CASE ~cancel
      <4>1. PICK p \in Steps : result[p] \in FailedOrSkipped
        BY <1>3, <3>2 DEF ShortCircuit, Blocked, Preds
      <4>2. CASE result[p] \in {"skipped", "canceled"}
        BY <4>2, <1>0
      <4>3. CASE result[p] \in NonZeroExit
        BY <4>3
      <4>4. QED
        BY <4>1, <4>2, <4>3 DEF FailedOrSkipped, Results, NonZeroExit
    <3>3. QED
      BY <3>1, <3>2
  <2>4. QED
    BY <1>0, <1>3, <2>2, <2>3 DEF ShortCircuit
<1>4. ASSUME NEW s \in Steps, Launch(s) PROVE SkipCause(t)'
  <2>1. result[s] = "none" /\ "none" \notin NonZeroExit
    BY <1>4, <1>0 DEF Coherent, NonZeroExit, RunResults, Launch
  <2>2. \A u \in Steps : result[u] \in NonZeroExit => result'[u] \in NonZeroExit
    BY <1>4, <2>1 DEF Launch
  <2>3. QED
    BY <1>0, <1>4, <2>2 DEF Launch
<1>5. ASSUME NEW s \in Steps, Admit(s) \/ Commit(s) \/ Publish(s) \/ Reap(s) PROVE SkipCause(t)'
  BY <1>1, <1>5 DEF Admit, Commit, Publish, CancelsBuild, Reap, stepVars
<1>6. ASSUME Deadline \/ Drained \/ Conclude \/ Interrupt \/ Returned PROVE SkipCause(t)'
  BY <1>1, <1>6 DEF Deadline, Drained, Conclude, Interrupt, Returned, stepVars, vars
<1>7. QED
  BY <1>2, <1>3, <1>4, <1>5, <1>6 DEF Next, StepNext, AnyAnswer

LEMMA ImageKeptStep ==
  ASSUME IndInv, Next
  PROVE  \A s \in Steps \ Cached : ImageKept(s)'
<1> SUFFICES ASSUME NEW t \in Steps \ Cached PROVE ImageKept(t)'
  OBVIOUS
<1>0. (\A s \in Steps : Coherent(s)) /\ ImageKept(t)
  BY DEF IndInv
<1> USE DEF IndInv, ImageKept, Coherent, TypeOK
<1>1. ASSUME NEW s \in Steps, AnyAnswer(s) PROVE ImageKept(t)'
  <2>1. PICK r \in RunResults :
           /\ pc[s] \in {"running", "committed"}
           /\ r = "ok" => pc[s] = "committed" \/ s \in Cached
           /\ pc[s] = "committed" => r \in {"ok", "cut", "timeout", "error"}
           /\ pc' = [pc EXCEPT ![s] = "ending"]
           /\ result' = [result EXCEPT ![s] = r]
           /\ UNCHANGED <<images, toReap, unreaped, phase>>
    BY <1>1, AnswerEffect
  <2>2. phase \notin {"reaping", "returned"}
    BY <2>1 DEF PhaseOK, Joined, Done
  <2>3. result[s] = "none"
    BY <1>0, <2>1
  <2>4. QED
    BY <1>0, <2>1, <2>2, <2>3
<1>2. ASSUME NEW s \in Steps, ShortCircuit(s) PROVE ImageKept(t)'
  BY <1>0, <1>2 DEF ShortCircuit, buildVars
<1>3. ASSUME NEW s \in Steps, Launch(s) PROVE ImageKept(t)'
  BY <1>0, <1>3 DEF Launch, buildVars
<1>4. ASSUME NEW s \in Steps, Admit(s) \/ Publish(s) PROVE ImageKept(t)'
  BY <1>0, <1>4 DEF Admit, Publish, buildVars
<1>5. ASSUME NEW s \in Steps, Commit(s) PROVE ImageKept(t)'
  <2>1. phase \notin {"reaping", "returned"}
    BY <1>5 DEF Commit, PhaseOK, Joined, Done
  <2>2. QED
    BY <1>0, <1>5, <2>1 DEF Commit, buildVars
<1>6. ASSUME NEW s \in Steps, Reap(s) PROVE ImageKept(t)'
  BY <1>0, <1>6 DEF Reap, stepVars
<1>7. ASSUME Deadline PROVE ImageKept(t)'
  BY <1>0, <1>7 DEF Deadline, stepVars
<1>8. ASSUME Drained PROVE ImageKept(t)'
  BY <1>0, <1>8 DEF Drained, stepVars, EphemeralSnapshots, WithSnapshot
<1>9. ASSUME Conclude PROVE ImageKept(t)'
  BY <1>0, <1>9 DEF Conclude, stepVars
<1>10. ASSUME Interrupt \/ Returned PROVE ImageKept(t)'
  BY <1>0, <1>10 DEF Interrupt, Returned, stepVars, vars
<1>11. QED
  BY <1>1, <1>2, <1>3, <1>4, <1>5, <1>6, <1>7, <1>8, <1>9, <1>10 DEF Next, StepNext, AnyAnswer

-----------------------------------------------------------------------------
(* The token and the build task.                                           *)

\* A report stays: nothing touches the stream of a step that is done.
LEMMA ReportStays ==
  ASSUME IndInv, Next, NEW t \in Steps, Reported(t)
  PROVE  Reported(t)'
<1>1. trace'[t] = trace[t] /\ pc'[t] = "done"
  <2>1. ASSUME NEW s \in Steps, AnyAnswer(s) PROVE trace'[t] = trace[t] /\ pc'[t] = "done"
    BY <2>1, AnswerEffect DEF Reported, Done, IndInv, TypeOK
  <2>2. ASSUME NEW s \in Steps,
               ShortCircuit(s) \/ Admit(s) \/ Launch(s) \/ Commit(s) \/ Publish(s)
        PROVE  trace'[t] = trace[t] /\ pc'[t] = "done"
    BY <2>2 DEF ShortCircuit, Admit, Launch, Commit, Publish, Reported, Done, IndInv, TypeOK
  <2>3. ASSUME NEW s \in Steps, Reap(s) PROVE trace'[t] = trace[t] /\ pc'[t] = "done"
    BY <2>3 DEF Reap, stepVars, Reported, Done
  <2>4. ASSUME Deadline \/ Drained \/ Conclude \/ Interrupt \/ Returned
        PROVE  trace'[t] = trace[t] /\ pc'[t] = "done"
    BY <2>4 DEF Deadline, Drained, Conclude, Interrupt, Returned, stepVars, vars, Reported, Done
  <2>5. QED
    BY <2>1, <2>2, <2>3, <2>4 DEF Next, StepNext, AnyAnswer
<1>2. QED
  BY <1>1 DEF Reported, Done, Started

LEMMA CancelCauseStep ==
  ASSUME IndInv, Next
  PROVE  CancelCause'
<1>0. CancelCause /\ \A s \in Steps : Coherent(s)
  BY DEF IndInv
<1>1. (\E s \in Steps : Reported(s)) => (\E s \in Steps : Reported(s)')
  BY ReportStays
<1> USE DEF IndInv, TypeOK, Done
<1>2. ASSUME UNCHANGED <<result, cancel, interrupted, timedOut>>,
             \A s \in Steps : pc'[s] = "done" => pc[s] = "done"
      PROVE  CancelCause'
  BY <1>0, <1>1, <1>2 DEF CancelCause
<1>3. ASSUME NEW s \in Steps, AnyAnswer(s) PROVE CancelCause'
  <2>1. PICK r \in RunResults :
           /\ pc[s] \in {"running", "committed"}
           /\ pc' = [pc EXCEPT ![s] = "ending"]
           /\ result' = [result EXCEPT ![s] = r]
           /\ UNCHANGED <<cancel, interrupted, timedOut>>
    BY <1>3, AnswerEffect
  <2>2. QED
    BY <1>0, <1>1, <2>1 DEF CancelCause
<1>4. ASSUME NEW s \in Steps, ShortCircuit(s) PROVE CancelCause'
  BY <1>0, <1>1, <1>4 DEF ShortCircuit, CancelCause, buildVars, ReportedByChain
<1>5. ASSUME NEW s \in Steps, Admit(s) \/ Commit(s) PROVE CancelCause'
  BY <1>2, <1>5 DEF Admit, Commit, buildVars
<1>6. ASSUME NEW s \in Steps, Launch(s) PROVE CancelCause'
  BY <1>0, <1>1, <1>6 DEF Launch, CancelCause, buildVars
<1>7. ASSUME NEW s \in Steps, Publish(s) PROVE CancelCause'
  <2>1. CASE result[s] \in ReportedByChain
    <3>1. trace[s] \in Seq(EventNames) /\ "ChainFailed" \in EventNames
      BY DEF EventNames
    <3>2. trace'[s] = Append(trace[s], "ChainFailed")
      BY <1>7, <2>1 DEF Publish
    <3>3. Reported(s)'
      BY <1>7, <3>1, <3>2, AppendLast DEF Publish, Reported, Started
    <3>4. QED
      BY <1>0, <1>7, <2>1, <3>3 DEF Publish, CancelsBuild, CancelCause, buildVars
  <2>2. CASE result[s] \notin ReportedByChain
    BY <1>0, <1>1, <1>7, <2>2 DEF Publish, CancelsBuild, CancelCause, buildVars
  <2>3. QED
    BY <2>1, <2>2
<1>8. ASSUME NEW s \in Steps, Reap(s) PROVE CancelCause'
  BY <1>2, <1>8 DEF Reap, stepVars
<1>9. ASSUME Drained \/ Conclude \/ Returned PROVE CancelCause'
  BY <1>2, <1>9 DEF Drained, Conclude, Returned, stepVars, vars
<1>10. ASSUME Deadline \/ Interrupt PROVE CancelCause'
  BY <1>0, <1>10 DEF Deadline, Interrupt, CancelCause, stepVars
<1>11. QED
  BY <1>3, <1>4, <1>5, <1>6, <1>7, <1>8, <1>9, <1>10 DEF Next, StepNext, AnyAnswer

LEMMA PhaseStep ==
  ASSUME IndInv, Next
  PROVE  PhaseOK'
<1>0. PhaseOK
  BY DEF IndInv
<1> USE DEF IndInv, TypeOK, PhaseOK, Joined, Done
<1>1. ASSUME NEW s \in Steps, pc[s] # "done",
             UNCHANGED <<phase, verdict>>
      PROVE  PhaseOK'
  BY <1>0, <1>1
<1>2. ASSUME NEW s \in Steps, AnyAnswer(s) PROVE PhaseOK'
  BY <1>1, <1>2, AnswerEffect
<1>3. ASSUME NEW s \in Steps,
             ShortCircuit(s) \/ Admit(s) \/ Launch(s) \/ Commit(s) \/ Publish(s)
      PROVE  PhaseOK'
  BY <1>1, <1>3 DEF ShortCircuit, Admit, Launch, Commit, Publish, buildVars
<1>4. ASSUME NEW s \in Steps, Reap(s) PROVE PhaseOK'
  BY <1>0, <1>4 DEF Reap, stepVars
<1>5. ASSUME Deadline \/ Drained \/ Interrupt PROVE PhaseOK'
  BY <1>0, <1>5 DEF Deadline, Drained, Interrupt, stepVars
<1>6. ASSUME Conclude PROVE PhaseOK'
  <2>1. Verdict' = Verdict
    BY <1>6 DEF Conclude, stepVars, Verdict
  <2>2. QED
    BY <1>0, <1>6, <2>1 DEF Conclude, stepVars
<1>7. ASSUME Returned PROVE PhaseOK'
  <2>1. Verdict' = Verdict
    BY <1>7 DEF Returned, vars, Verdict
  <2>2. QED
    BY <1>0, <1>7, <2>1 DEF Returned, vars
<1>8. QED
  BY <1>2, <1>3, <1>4, <1>5, <1>6, <1>7 DEF Next, StepNext, AnyAnswer

-----------------------------------------------------------------------------
(* The theorems.                                                           *)

LEMMA Initial == Init => IndInv
<1> SUFFICES ASSUME Init PROVE IndInv
  OBVIOUS
<1>1. TypeOK
  <2>1. trace \in [Steps -> Seq(EventNames)]
    BY DEF Init
  <2>2. permits \in 0..Parallelism
    BY ParallelismAssumption DEF Init
  <2>3. images \subseteq Steps
    BY SubsetsAssumption DEF Init
  <2>4. QED
    BY <2>1, <2>2, <2>3 DEF Init, TypeOK, EventNames
<1>2. PermitsConserved
  <2>1. PermitHolders = {}
    BY DEF Init, PermitHolders
  <2>2. QED
    BY <2>1, FS_EmptySet, ParallelismAssumption DEF Init, PermitsConserved
<1>3. \A s \in Steps : Coherent(s) /\ Gated(s) /\ SkipCause(s)
  BY DEF Init, Coherent, Gated, SkipCause, Started
<1>4. \A s \in Steps \ Cached : ImageKept(s)
  BY DEF Init, ImageKept
<1>5. CancelCause /\ PhaseOK
  BY DEF Init, CancelCause, PhaseOK, Done
<1>6. QED
  BY <1>1, <1>2, <1>3, <1>4, <1>5 DEF IndInv

\* The conjunction of the parts is an invariant of the scheduler.
THEOREM Invariance == Spec => []IndInv
<1>1. IndInv /\ [Next]_vars => IndInv'
  <2> SUFFICES ASSUME IndInv, [Next]_vars PROVE IndInv'
    OBVIOUS
  <2>1. CASE Next
    <3>1. TypeOK' /\ PermitsConserved'
      BY <2>1, TypeStep, PermitsStep DEF IndInv
    <3>2. \A s \in Steps : Coherent(s)' /\ Gated(s)' /\ SkipCause(s)'
      BY <2>1, CoherentStep, GatedStep, SkipCauseStep
    <3>3. (\A s \in Steps \ Cached : ImageKept(s)') /\ CancelCause' /\ PhaseOK'
      BY <2>1, ImageKeptStep, CancelCauseStep, PhaseStep
    <3>4. QED
      BY <3>1, <3>2, <3>3 DEF IndInv
  <2>2. CASE UNCHANGED vars
    BY <2>2, StutterStep
  <2>3. QED
    BY <2>1, <2>2
<1>2. QED
  BY Initial, <1>1, PTL DEF Spec

\* The type invariant.
THEOREM TypeCorrect == Spec => []TypeOK
<1>1. IndInv => TypeOK
  BY DEF IndInv
<1>2. QED
  BY <1>1, Invariance, PTL

\* No permit is ever lost or duplicated.
THEOREM PermitsAreConserved == Spec => []PermitsConserved
<1>1. IndInv => PermitsConserved
  BY DEF IndInv
<1>2. QED
  BY <1>1, Invariance, PTL

\* What a failure or a skip seals: the steps that have not been launched and
\* hold no success form a set closed under edges.
THEOREM FailureSeals == Spec => []FailureSealsDescendants
<1>1. IndInv => FailureSealsDescendants
  <2> SUFFICES ASSUME IndInv, NEW s \in Steps, result[s] \in FailedOrSkipped,
                      NEW d \in Descendants(s)
               PROVE  d \notin Started
    BY DEF FailureSealsDescendants
  <2> DEFINE Sealed == {t \in Steps : trace[t] = <<>> /\ result[t] # "ok"}
  <2>1. \A t \in Steps : Coherent(t) /\ Gated(t)
    BY DEF IndInv
  <2>2. ASSUME NEW p \in Steps, NEW t \in Steps, <<p, t>> \in Edges, result[p] # "ok"
        PROVE  t \in Sealed
    <3>1. p \in Preds(t)
      BY <2>2 DEF Preds
    <3>2. pc[t] = "waiting" \/ result[t] \in {"skipped", "canceled"}
      BY <2>1, <2>2, <3>1 DEF Gated
    <3>3. trace[t] = <<>> /\ result[t] # "ok"
      <4>1. CASE pc[t] = "waiting"
        BY <2>1, <4>1 DEF Coherent
      <4>2. CASE result[t] \in {"skipped", "canceled"}
        <5>1. pc[t] \in {"waiting", "queued", "running", "committed", "ending", "done"}
          BY DEF IndInv, TypeOK
        <5>2. QED
          BY <2>1, <4>2, <5>1 DEF Coherent, RunResults
      <4>3. QED
        BY <3>2, <4>1, <4>2
    <3>4. QED
      BY <3>3
  <2>3. Sealed \in SUBSET Steps
    OBVIOUS
  <2>4. \A e \in Edges : (e[1] = s \/ e[1] \in Sealed) => e[2] \in Sealed
    <3> SUFFICES ASSUME NEW e \in Edges, e[1] = s \/ e[1] \in Sealed
                 PROVE  e[2] \in Sealed
      OBVIOUS
    <3>1. e = <<e[1], e[2]>> /\ e[1] \in Steps /\ e[2] \in Steps
      BY EdgesAssumption DEF Edges
    <3>2. result[e[1]] # "ok"
      BY DEF FailedOrSkipped
    <3>3. QED
      BY <2>2, <3>1, <3>2
  <2>5. d \in Sealed
    BY <2>3, <2>4 DEF Descendants
  <2>6. QED
    BY <2>5 DEF Started
<1>2. QED
  BY <1>1, Invariance, PTL

\* A step never runs on the wrong image, nor on one that was reaped.
THEOREM LineageIsAlive == Spec => []LineageAlive
<1>1. IndInv => LineageAlive
  <2> SUFFICES ASSUME IndInv, NEW s \in Started, Lineage(s) # {}
               PROVE  /\ base[s] \in Lineage(s)
                      /\ pc[s] = "running" /\ base[s] \notin Cached => base[s] \in images
    BY DEF LineageAlive
  <2>1. s \in Steps /\ Gated(s) /\ Coherent(s)
    BY DEF IndInv, Started
  <2>2. base[s] \in Lineage(s)
    BY <2>1 DEF Gated
  <2>3. ASSUME pc[s] = "running", base[s] \notin Cached PROVE base[s] \in images
    <3>1. base[s] \in Preds(s) /\ base[s] \in Steps
      BY <2>2 DEF Lineage, Preds, Edges
    <3>2. result[base[s]] = "ok"
      BY <2>1, <2>3, <3>1 DEF Gated, Coherent
    <3>3. phase \in {"joining", "draining"}
      BY <2>1, <2>3 DEF IndInv, PhaseOK, Joined, Done, TypeOK
    <3>4. QED
      BY <2>3, <3>1, <3>2, <3>3 DEF IndInv, ImageKept
  <2>4. QED
    BY <2>2, <2>3
<1>2. QED
  BY <1>1, Invariance, PTL

\* Passed is an honest verdict.
THEOREM PassedIsHonest == Spec => []PassedMeansAllPassed
<1>1. IndInv => PassedMeansAllPassed
  <2> SUFFICES ASSUME IndInv, verdict = "Passed", NEW s \in Steps
               PROVE  result[s] = "ok"
    BY DEF PassedMeansAllPassed
  <2>1. phase = "returned" /\ verdict = Verdict
    BY DEF IndInv, PhaseOK
  <2>2. ~timedOut /\ ~cancel /\ \A t \in Steps : result[t] \notin NonZeroExit
    BY <2>1 DEF Verdict, IndInv, TypeOK
  <2>3. Done(s) /\ Coherent(s) /\ SkipCause(s)
    BY <2>1 DEF IndInv, PhaseOK, Joined
  <2>4. QED
    BY <2>2, <2>3 DEF Coherent, SkipCause, Done, NonZeroExit
<1>2. QED
  BY <1>1, Invariance, PTL

\* Every verdict but Passed has its cause.
THEOREM VerdictIsExplained == Spec => []VerdictExplained
<1>1. IndInv => VerdictExplained
  <2> SUFFICES ASSUME IndInv PROVE VerdictExplained
    OBVIOUS
  <2>1. /\ phase = "returned" => verdict = Verdict
        /\ phase # "returned" => verdict = "none"
        /\ CancelCause
    BY DEF IndInv, PhaseOK
  <2>2. timedOut \in BOOLEAN /\ cancel \in BOOLEAN
    BY DEF IndInv, TypeOK
  <2>3. verdict = "TimedOut" <=> (timedOut /\ phase = "returned")
    BY <2>1, <2>2 DEF Verdict
  <2>4. ASSUME verdict = "Canceled"
        PROVE  interrupted \/ (~KeepGoing /\ \E s \in Started : trace[s][Len(trace[s])] = "ChainFailed")
    <3>1. cancel /\ ~timedOut
      BY <2>1, <2>2, <2>4 DEF Verdict
    <3>2. QED
      BY <2>1, <3>1 DEF CancelCause, Reported
  <2>5. ASSUME verdict = "Failed"
        PROVE  /\ \E s \in Started : result[s] \in NonZeroExit
               /\ KeepGoing \/ \A s \in Started : result[s] \in {"ok", "error", "unresolved"}
    <3>1. ~cancel /\ phase = "returned" /\ \E s \in Steps : result[s] \in NonZeroExit
      BY <2>1, <2>2, <2>5 DEF Verdict
    <3>2. \A s \in Steps : Done(s) /\ Coherent(s)
      BY <3>1 DEF IndInv, PhaseOK, Joined
    <3>3. \E s \in Started : result[s] \in NonZeroExit
      <4>1. PICK s \in Steps : result[s] \in NonZeroExit
        BY <3>1
      <4>2. trace[s] # <<>>
        BY <3>2, <4>1 DEF Coherent, Done, NonZeroExit, RunResults
      <4>3. QED
        BY <4>1, <4>2 DEF Started
    <3>4. ASSUME ~KeepGoing, NEW s \in Started
          PROVE  result[s] \in {"ok", "error", "unresolved"}
      <4>1. result[s] # "cut"
        BY <3>1, <3>4 DEF IndInv, SkipCause, Started
      <4>2. QED
        BY <4>1, <2>1, <3>1, <3>2, <3>4 DEF CancelCause, Started, Coherent, Done, RunResults, ReportedByChain
    <3>5. QED
      BY <3>3, <3>4
  <2>6. QED
    BY <2>3, <2>4, <2>5 DEF VerdictExplained
<1>2. QED
  BY <1>1, Invariance, PTL

\* What a build leaves behind in the daemon.
THEOREM LeaksAreAccounted == Spec => []LeaksAccounted
<1>1. IndInv => LeaksAccounted
  BY DEF IndInv, LeaksAccounted, ImageKept, PhaseOK, Joined, Done, TypeOK
<1>2. QED
  BY <1>1, Invariance, PTL

-----------------------------------------------------------------------------
(* The streams the steps leave behind.                                      *)

\* A stream with its start in second place and one end, after it.
Ended(q) ==
  /\ q[2] = "StepStart"
  /\ \E n \in {3, 4} : n <= Len(q) /\ \A i \in 1..Len(q) : q[i] = "StepEnd" <=> i = n

\* The stream of a step that its runner resolved, by position.
Stream(s) ==
  /\ pc[s] \in {"running", "committed"} => trace[s] = <<"StepQueued", "StepStart">>
  /\ pc[s] = "ending" \/ (pc[s] = "done" /\ trace[s] # <<>>) => Ended(trace[s])

Closing == {<<"StepEnd">>, <<"StepCacheHit", "StepEnd">>}

LEMMA ClosingEnds ==
  ASSUME NEW q, q = <<"StepQueued", "StepStart">>, NEW events \in Closing
  PROVE  Ended(q \o events)
<1> DEFINE t == q \o events
<1>1. q \in Seq(EventNames) /\ Len(q) = 2 /\ q[1] = "StepQueued" /\ q[2] = "StepStart"
  BY DEF EventNames
<1>2. /\ events \in Seq(EventNames) /\ Len(events) \in {1, 2}
      /\ \A i \in 1..Len(events) : events[i] = "StepEnd" <=> i = Len(events)
  <2>1. CASE events = <<"StepEnd">>
    BY <2>1 DEF EventNames
  <2>2. CASE events = <<"StepCacheHit", "StepEnd">>
    BY <2>2 DEF EventNames
  <2>3. QED
    BY <2>1, <2>2 DEF Closing
<1>3. /\ Len(t) = 2 + Len(events)
      /\ \A i \in 1..Len(t) : t[i] = IF i <= 2 THEN q[i] ELSE events[i - 2]
  BY <1>1, <1>2
<1> HIDE DEF t
<1>4. t[2] = "StepStart"
  BY <1>1, <1>2, <1>3
<1>5. \A i \in 1..Len(t) : t[i] = "StepEnd" <=> i = Len(t)
  <2> SUFFICES ASSUME NEW i \in 1..Len(t) PROVE t[i] = "StepEnd" <=> i = Len(t)
    OBVIOUS
  <2>1. CASE i <= 2
    <3>1. i \in {1, 2} /\ t[i] = q[i]
      BY <1>2, <1>3, <2>1
    <3>2. QED
      BY <1>1, <1>2, <1>3, <3>1
  <2>2. CASE i > 2
    <3>1. i - 2 \in 1..Len(events) /\ t[i] = events[i - 2] /\ (i = Len(t) <=> i - 2 = Len(events))
      BY <1>2, <1>3, <2>2
    <3>2. QED
      BY <1>2, <3>1
  <2>3. QED
    BY <1>2, <1>3, <2>1, <2>2
<1>6. QED
  BY <1>2, <1>3, <1>4, <1>5 DEF Ended, t

\* The report of a chain comes after the end of its step.
LEMMA ReportAfterEnd ==
  ASSUME NEW q \in Seq(EventNames), Ended(q)
  PROVE  Ended(Append(q, "ChainFailed"))
<1> DEFINE t == Append(q, "ChainFailed")
<1>1. PICK n \in {3, 4} : n <= Len(q) /\ \A i \in 1..Len(q) : q[i] = "StepEnd" <=> i = n
  BY DEF Ended
<1>2. /\ Len(q) \in Nat /\ Len(t) = Len(q) + 1 /\ t[Len(q) + 1] = "ChainFailed"
      /\ \A i \in 1..Len(q) : t[i] = q[i]
  OBVIOUS
<1> HIDE DEF t
<1>3. t[2] = "StepStart"
  <2>1. 2 \in 1..Len(q)
    BY <1>1, <1>2
  <2>2. QED
    BY <1>2, <2>1 DEF Ended
<1>4. ASSUME NEW i \in 1..Len(t) PROVE t[i] = "StepEnd" <=> i = n
  <2>1. CASE i = Len(q) + 1
    BY <1>1, <1>2, <2>1
  <2>2. CASE i # Len(q) + 1
    <3>1. i \in 1..Len(q)
      BY <1>2, <2>2
    <3>2. QED
      BY <1>1, <1>2, <3>1
  <2>3. QED
    BY <2>1, <2>2
<1>5. n <= Len(t)
  BY <1>1, <1>2
<1>6. QED
  BY <1>3, <1>4, <1>5 DEF Ended, t

LEMMA StreamStep ==
  ASSUME IndInv, [Next]_vars, NEW t \in Steps \ Unresolved, Stream(t)
  PROVE  Stream(t)'
<1>0. TypeOK /\ \A s \in Steps : Coherent(s)
  BY DEF IndInv
<1>1. ASSUME pc'[t] = pc[t], trace'[t] = trace[t] PROVE Stream(t)'
  BY <1>1 DEF Stream
<1>2. ASSUME NEW s \in Steps, AnyAnswer(s) PROVE Stream(t)'
  <2>1. /\ pc[s] \in {"running", "committed"}
        /\ \E r \in RunResults, events \in Closing : Answer(s, r, events)
    BY <1>2 DEF AnyAnswer, CacheHit, Succeed, Fail, CutShort, StepTimeout, RunResults, Closing
  <2>2. PICK events \in Closing :
          pc' = [pc EXCEPT ![s] = "ending"] /\ trace' = [trace EXCEPT ![s] = @ \o events]
    BY <2>1 DEF Answer
  <2>3. CASE t = s
    <3>1. trace[t] = <<"StepQueued", "StepStart">>
      BY <2>1, <2>3 DEF Stream
    <3>2. Ended(trace[t] \o events)
      BY <3>1, ClosingEnds
    <3>3. pc'[t] = "ending" /\ trace'[t] = trace[t] \o events
      BY <1>0, <2>2, <2>3 DEF TypeOK
    <3>4. QED
      BY <3>2, <3>3 DEF Stream
  <2>4. CASE t # s
    BY <1>0, <1>1, <2>2, <2>4 DEF TypeOK
  <2>5. QED
    BY <2>3, <2>4
<1>3. ASSUME NEW s \in Steps, ShortCircuit(s) \/ Admit(s) \/ Commit(s) PROVE Stream(t)'
  <2>1. trace' = trace /\ \E p \in {"done", "queued", "committed"} : pc' = [pc EXCEPT ![s] = p]
    BY <1>3 DEF ShortCircuit, Admit, Commit
  <2>2. CASE t = s
    <3>1. pc[s] = "waiting" => trace[s] = <<>>
      BY <1>0 DEF Coherent
    <3>2. CASE ShortCircuit(s)
      BY <1>0, <2>2, <3>1, <3>2 DEF ShortCircuit, Stream, TypeOK
    <3>3. CASE Admit(s)
      BY <1>0, <2>2, <3>3 DEF Admit, Stream, TypeOK
    <3>4. CASE Commit(s)
      BY <1>0, <2>2, <3>4 DEF Commit, Stream, TypeOK
    <3>5. QED
      BY <1>3, <3>2, <3>3, <3>4
  <2>3. CASE t # s
    BY <1>0, <1>1, <2>1, <2>3 DEF TypeOK
  <2>4. QED
    BY <2>2, <2>3
<1>4. ASSUME NEW s \in Steps, Launch(s) PROVE Stream(t)'
  <2>1. CASE t = s
    <3>1. pc'[t] = "running" /\ trace'[t] = <<"StepQueued", "StepStart">>
      BY <1>0, <1>4, <2>1 DEF Launch, TypeOK
    <3>2. QED
      BY <3>1 DEF Stream
  <2>2. CASE t # s
    BY <1>0, <1>1, <1>4, <2>2 DEF Launch, TypeOK
  <2>3. QED
    BY <2>1, <2>2
<1>5. ASSUME NEW s \in Steps, Publish(s) PROVE Stream(t)'
  <2>1. CASE t = s
    <3>1. Ended(trace[t]) /\ trace[t] \in Seq(EventNames)
      BY <1>0, <1>5, <2>1 DEF Publish, Stream, TypeOK, EventNames
    <3>2. trace'[t] \in {trace[t], Append(trace[t], "ChainFailed")} /\ pc'[t] = "done"
      BY <1>0, <1>5, <2>1 DEF Publish, TypeOK
    <3>3. Ended(trace'[t])
      BY <3>1, <3>2, ReportAfterEnd
    <3>4. QED
      BY <3>2, <3>3 DEF Stream
  <2>2. CASE t # s
    BY <1>0, <1>1, <1>5, <2>2 DEF Publish, TypeOK
  <2>3. QED
    BY <2>1, <2>2
<1>6. ASSUME NEW s \in Steps, Reap(s) PROVE Stream(t)'
  BY <1>1, <1>6 DEF Reap, stepVars
<1>7. CASE Deadline \/ Drained \/ Conclude \/ Interrupt \/ Returned \/ UNCHANGED vars
  BY <1>1, <1>7 DEF Deadline, Drained, Conclude, Interrupt, Returned, stepVars, vars
<1>8. QED
  BY <1>2, <1>3, <1>4, <1>5, <1>6, <1>7 DEF Next, StepNext, AnyAnswer

\* When the build returns, the stream of every step that a runner took on has
\* one start and one end, however the step was answered, cut short or timed out.
THEOREM StreamsAreClosed == Spec => []StreamsClosed
<1> DEFINE Streams == \A s \in Steps \ Unresolved : Stream(s)
<1>1. Init => Streams
  BY DEF Init, Stream
<1>2. IndInv /\ Streams /\ [Next]_vars => Streams'
  <2> SUFFICES ASSUME IndInv, Streams, [Next]_vars, NEW t \in Steps \ Unresolved PROVE Stream(t)'
    OBVIOUS
  <2>1. Stream(t)
    OBVIOUS
  <2>2. QED
    BY <2>1, StreamStep
<1>3. IndInv /\ Streams => StreamsClosed
  <2> SUFFICES ASSUME IndInv, Streams, phase = "returned", NEW s \in Started \ Unresolved
               PROVE  /\ trace[s][2] = "StepStart"
                      /\ {i \in DOMAIN trace[s] : trace[s][i] = "StepEnd"} \in {{3}, {4}}
    BY DEF StreamsClosed
  <2>1. s \in Steps \ Unresolved /\ trace[s] # <<>> /\ trace[s] \in Seq(EventNames)
    BY DEF Started, IndInv, TypeOK, EventNames
  <2>2. pc[s] = "done"
    BY <2>1 DEF IndInv, PhaseOK, Joined, Done
  <2>3. Ended(trace[s])
    BY <2>1, <2>2 DEF Stream
  <2>4. PICK n \in {3, 4} : n <= Len(trace[s]) /\ \A i \in 1..Len(trace[s]) : trace[s][i] = "StepEnd" <=> i = n
    BY <2>3 DEF Ended
  <2>5. n \in 1..Len(trace[s]) /\ DOMAIN trace[s] = 1..Len(trace[s])
    BY <2>1, <2>4
  <2>6. {i \in DOMAIN trace[s] : trace[s][i] = "StepEnd"} = {n}
    BY <2>4, <2>5
  <2>7. QED
    BY <2>3, <2>6 DEF Ended
<1>4. QED
  BY <1>1, <1>2, <1>3, Invariance, PTL DEF Spec

-----------------------------------------------------------------------------
(* The scheduler implements the abstract build.                            *)

\* A step that only one task's BuildState depends on.
LEMMA BuildStateStep ==
  ASSUME NEW s \in Steps, NEW v,
         \A t \in Steps \ {s} : BuildState(t)' = BuildState(t),
         BuildState(s)' = v
  PROVE  [t \in Steps |-> BuildState(t)]' = [[t \in Steps |-> BuildState(t)] EXCEPT ![s] = v]
OBVIOUS

\* A step none of the tasks' BuildState depends on.
LEMMA BuildStateSame ==
  ASSUME \A t \in Steps : BuildState(t)' = BuildState(t)
  PROVE  [t \in Steps |-> BuildState(t)]' = [t \in Steps |-> BuildState(t)]
OBVIOUS

LEMMA SameStepVars ==
  ASSUME UNCHANGED stepVars
  PROVE  \A t \in Steps : BuildState(t)' = BuildState(t)
BY DEF stepVars, BuildState, Done, Started

\* Every step of the scheduler is a step of the abstract build or a stutter.
LEMMA BuildStep ==
  ASSUME IndInv, [Next]_vars
  PROVE  [Build!Next]_(Build!vars)
<1>0. TypeOK /\ PhaseOK /\ \A s \in Steps : Coherent(s) /\ Gated(s)
  BY DEF IndInv
<1>a. \A s \in Steps : Build!Before(s) = Preds(s)
  BY DEF Build!Before, Preds
<1>b. \A s \in Steps : Done(s) => Build!Settled(s)
  BY DEF Build!Settled, BuildState
<1>1. ASSUME NEW s \in Steps, ShortCircuit(s) PROVE Build!Next
  <2>1. \A t \in Steps \ {s} : BuildState(t)' = BuildState(t)
    BY <1>0, <1>1 DEF ShortCircuit, BuildState, Done, Started, TypeOK
  <2>2. BuildState(s) = "idle" /\ BuildState(s)' = "skipped"
    BY <1>0, <1>1 DEF ShortCircuit, BuildState, Done, Started, TypeOK, Coherent, NonZeroExit, RunResults
  <2>3. \A p \in Build!Before(s) : Build!Settled(p)
    BY <1>a, <1>b, <1>1 DEF ShortCircuit, Ready, Preds
  <2>4. cancel \/ \E p \in Build!Before(s) : BuildState(p) \in {"failed", "skipped"}
    <3>1. CASE cancel
      BY <3>1
    <3>2. CASE Blocked(s)
      <4>1. PICK p \in Preds(s) : result[p] \in FailedOrSkipped
        BY <3>2 DEF Blocked
      <4>2. BuildState(p) \in {"failed", "skipped"}
        BY <1>1, <4>1 DEF ShortCircuit, Ready, BuildState, FailedOrSkipped
      <4>3. QED
        BY <1>a, <4>1, <4>2
    <3>3. QED
      BY <1>1, <3>1, <3>2 DEF ShortCircuit
  <2>5. Build!Skip(s)
    BY <1>1, <2>1, <2>2, <2>3, <2>4, BuildStateStep DEF Build!Skip, Build!Before, ShortCircuit, buildVars
  <2>6. QED
    BY <2>5 DEF Build!Next
<1>2. ASSUME NEW s \in Steps, Launch(s) PROVE Build!Next
  <2>1. \A t \in Steps \ {s} : BuildState(t)' = BuildState(t)
    BY <1>0, <1>2 DEF Launch, BuildState, Done, Started, TypeOK
  <2>2. BuildState(s) = "idle" /\ BuildState(s)' = "active"
    <3>1. <<"StepQueued", "StepStart">> # <<>>
      OBVIOUS
    <3>2. QED
      BY <1>0, <1>2, <3>1 DEF Launch, BuildState, Done, Started, TypeOK, Coherent
  <2>3. \A p \in Build!Before(s) : BuildState(p) = "passed"
    BY <1>0, <1>a, <1>2 DEF Launch, Gated, Coherent, BuildState
  <2>4. Build!Start(s)
    BY <1>2, <2>1, <2>2, <2>3, BuildStateStep DEF Build!Start, Build!Before, Launch, buildVars
  <2>5. QED
    BY <2>4 DEF Build!Next
<1>3. ASSUME NEW s \in Steps, Publish(s) PROVE Build!Next
  <2>1. \A t \in Steps \ {s} : BuildState(t)' = BuildState(t)
    BY <1>0, <1>3 DEF Publish, BuildState, Done, Started, TypeOK
  <2>2. BuildState(s) = "active" /\ result[s] \in RunResults
    BY <1>0, <1>3 DEF Publish, CancelsBuild, BuildState, Done, Started, Coherent
  <2>3. CASE result[s] = "ok"
    <3>1. BuildState(s)' = "passed" /\ UNCHANGED <<cancel, phase>>
      BY <1>0, <1>3, <2>3 DEF Publish, CancelsBuild, BuildState, Done, TypeOK, ReportedByChain, buildVars
    <3>2. Build!Pass(s)
      BY <2>1, <2>2, <3>1, BuildStateStep DEF Build!Pass
    <3>3. QED
      BY <3>2 DEF Build!Next
  <2>4. CASE result[s] # "ok"
    <3>1. BuildState(s)' = "failed" /\ cancel' \in {cancel, TRUE} /\ UNCHANGED phase
      BY <1>0, <1>3, <2>2, <2>4 DEF Publish, CancelsBuild, BuildState, Done, TypeOK, NonZeroExit, buildVars
    <3>2. Build!Fail(s)
      BY <2>1, <2>2, <3>1, BuildStateStep DEF Build!Fail
    <3>3. QED
      BY <3>2 DEF Build!Next
  <2>5. QED
    BY <2>3, <2>4
<1>4. ASSUME NEW s \in Steps, Admit(s) \/ Commit(s) PROVE UNCHANGED Build!vars
  <2>1. \A t \in Steps : BuildState(t)' = BuildState(t)
    BY <1>0, <1>4 DEF Admit, Commit, BuildState, Done, Started, TypeOK
  <2>2. QED
    BY <1>4, <2>1, BuildStateSame DEF Build!vars, Admit, Commit, buildVars
<1>5. ASSUME NEW s \in Steps, AnyAnswer(s) PROVE UNCHANGED Build!vars
  <2>1. PICK r \in RunResults :
           /\ pc[s] \in {"running", "committed"}
           /\ pc' = [pc EXCEPT ![s] = "ending"]
           /\ result' = [result EXCEPT ![s] = r]
           /\ trace' = [trace EXCEPT ![s] = trace'[s]] /\ trace'[s] # <<>>
           /\ UNCHANGED <<cancel, phase>>
    BY <1>0, <1>5, AnswerEffect
  <2>2. \A t \in Steps : BuildState(t)' = BuildState(t)
    BY <1>0, <2>1 DEF BuildState, Done, Started, TypeOK, Coherent
  <2>3. QED
    BY <2>1, <2>2, BuildStateSame DEF Build!vars
<1>6. ASSUME NEW s \in Steps, Reap(s) PROVE UNCHANGED Build!vars
  BY <1>6, SameStepVars, BuildStateSame DEF Build!vars, Reap
<1>7. ASSUME Deadline \/ Interrupt PROVE Build!Next
  <2>1. Build!Stop
    BY <1>7, SameStepVars, BuildStateSame DEF Build!Stop, Deadline, Interrupt
  <2>2. QED
    BY <2>1 DEF Build!Next
<1>8. ASSUME Drained PROVE UNCHANGED Build!vars
  BY <1>8, SameStepVars, BuildStateSame DEF Build!vars, Drained
<1>9. ASSUME Conclude PROVE Build!Next
  <2>1. \A s \in Steps : Build!Settled(s)
    BY <1>0, <1>b, <1>9 DEF Conclude, PhaseOK, Joined
  <2>2. Build!Return
    BY <1>9, <2>1, SameStepVars, BuildStateSame DEF Build!Return, Conclude
  <2>3. QED
    BY <2>2 DEF Build!Next
<1>10. ASSUME UNCHANGED vars PROVE UNCHANGED Build!vars
  <2>1. UNCHANGED stepVars
    BY <1>10 DEF vars, stepVars
  <2>2. QED
    BY <1>10, <2>1, SameStepVars, BuildStateSame DEF Build!vars, vars
<1>11. QED
  BY <1>1, <1>2, <1>3, <1>4, <1>5, <1>6, <1>7, <1>8, <1>9, <1>10
     DEF Next, StepNext, AnyAnswer, Returned

\* The scheduler implements the abstract build: dependencies are respected,
\* nothing settles twice, and the build returns only when all is settled.
THEOREM Refinement == Spec => ImplementsBuild
<1>1. Init => Build!Init
  BY DEF Init, Build!Init, BuildState, Done, Started
<1>2. QED
  BY <1>1, Invariance, BuildStep, PTL DEF Spec, ImplementsBuild, Build!Spec

=============================================================================
