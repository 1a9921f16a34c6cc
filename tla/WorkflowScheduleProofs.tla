----------------------- MODULE WorkflowScheduleProofs -----------------------
(***************************************************************************)
(* Proofs about WorkflowSchedule: type correctness, and that no run of a   *)
(* schedule is skipped, for any number of ticks, requests and edits.       *)
(***************************************************************************)
EXTENDS WorkflowSchedule, TLAPS

USE DEF Exists, Exposed, row, tick

\* A run that is queued has the types of its fields.
LEMMA RunType ==
    ASSUME TypeOK, NEW t \in Ticks, seen[t] \in Definition
    PROVE  Run(t) \in Runs
BY DEF TypeOK, Run, Runs, Definition

\* What a tick writes back is a definition.
LEMMA CheckpointedType ==
    ASSUME TypeOK, NEW t \in Ticks, seen[t] \in Definition
    PROVE  Checkpointed(t) \in Definition
BY ConstantsOK DEF TypeOK, Checkpointed, NextRun, Definition, Time

\* What a request writes is a definition.
LEMMA EditTypes ==
    ASSUME TypeOK, NEW e \in Editors, copy[e] \in Definition, edits < MaxEdits
    PROVE  /\ [sequence |-> copy[e].sequence, plan |-> edits + 1,
               enabled |-> TRUE, next |-> time] \in Definition
           /\ [sequence |-> copy[e].sequence, plan |-> edits + 1,
               enabled |-> FALSE, next |-> 0] \in Definition
           /\ [sequence |-> edits + 1, plan |-> copy[e].plan,
               enabled |-> copy[e].enabled, next |-> copy[e].next] \in Definition
           /\ [sequence |-> edits + 1, plan |-> edits + 1,
               enabled |-> FALSE, next |-> 0] \in Definition
<1>1. edits + 1 \in Edits
    BY ConstantsOK DEF TypeOK, Edits
<1>2. 0 \in 0..(MaxTime + 1) /\ time \in 0..(MaxTime + 1)
    BY ConstantsOK DEF TypeOK, Time
<1>3. QED
    BY <1>1, <1>2 DEF Definition

-----------------------------------------------------------------------------
(* Type correctness.                                                       *)

\* A tick that is not idle has read a definition.
HasRead == \A t \in Ticks : pc[t] # "idle" => seen[t] \in Definition

TypeInv == TypeOK /\ HasRead

\* An edit that writes a definition keeps the types.
LEMMA EditKeepsTypes ==
    ASSUME TypeInv, NEW e \in Editors, NEW d \in Definition, Edit(e, d)
    PROVE  TypeInv'
<1>1. edits + 1 \in Edits
    BY ConstantsOK DEF TypeInv, TypeOK, Edit, Edits
<1>2. made' \in [Edits -> Time] /\ edits' \in Edits
    BY <1>1 DEF TypeInv, TypeOK, Edit
<1>3. QED
    BY <1>2 DEF TypeInv, TypeOK, HasRead, Edit

LEMMA TypeStep == TypeInv /\ [Next]_vars => TypeInv'
<1>. SUFFICES ASSUME TypeInv, [Next]_vars
              PROVE  TypeInv'
    OBVIOUS
<1>. USE DEF TypeInv
<1>1. ASSUME NEW t \in Ticks, Read(t)
      PROVE  TypeInv'
    BY <1>1 DEF Read, TypeOK, HasRead
<1>2. ASSUME NEW t \in Ticks, Send(t)
      PROVE  TypeInv'
    <2>1. Run(t) \in Runs
        BY <1>2, RunType DEF Send, HasRead
    <2>2. repeated' \in BOOLEAN
        BY <1>2 DEF Send, TypeOK
    <2>3. QED
        BY <1>2, <2>1, <2>2 DEF Send, TypeOK, HasRead
<1>3. ASSUME NEW t \in Ticks, Commit(t)
      PROVE  TypeInv'
    <2>1. Checkpointed(t) \in Definition
        BY <1>3, CheckpointedType DEF Commit, MayCommit, HasRead
    <2>2. 0 \in Time
        BY ConstantsOK DEF Time
    <2>3. QED
        BY <1>3, <2>1, <2>2 DEF Commit, Ends, TypeOK, HasRead
<1>4. ASSUME NEW t \in Ticks, Abort(t)
      PROVE  TypeInv'
    <2>1. 0 \in Time
        BY ConstantsOK DEF Time
    <2>2. QED
        BY <1>4, <2>1 DEF Abort, Ends, TypeOK, HasRead
<1>5. ASSUME NEW e \in Editors, Open(e) \/ Close(e)
      PROVE  TypeInv'
    BY <1>5 DEF Open, Close, TypeOK, HasRead
<1>6. ASSUME NEW e \in Editors,
             UpdateSchedule(e) \/ DisableSchedule(e) \/ UpdateWorkflow(e)
      PROVE  TypeInv'
    <2>1. copy[e] \in Definition /\ edits < MaxEdits
        BY <1>6 DEF UpdateSchedule, DisableSchedule, UpdateWorkflow, Edit, TypeOK
    <2>2. QED
        BY <1>6, <2>1, EditTypes, EditKeepsTypes
        DEF UpdateSchedule, DisableSchedule, UpdateWorkflow
<1>7. CASE Passes
    <2>1. time' \in Time
        BY <1>7, ConstantsOK DEF Passes, TypeOK, Time
    <2>2. QED
        BY <1>7, <2>1 DEF Passes, TypeOK, HasRead
<1>8. CASE Archive \/ Delete
    BY <1>8 DEF Archive, Delete, TypeOK, HasRead
<1>9. CASE UNCHANGED vars
    BY <1>9 DEF vars, TypeOK, HasRead
<1>10. QED
    BY <1>1, <1>2, <1>3, <1>4, <1>5, <1>6, <1>7, <1>8, <1>9
    DEF Next, TickStep, EditStep

LEMMA TypeInit == Init => TypeInv
<1>. SUFFICES ASSUME Init
              PROVE  TypeInv
    OBVIOUS
<1>1. 0 \in Time /\ 0 \in Edits /\ 0 \in 0..(MaxTime + 1)
    BY ConstantsOK DEF Time, Edits
<1>2. workflow \in Definition
    BY <1>1 DEF Init, Definition
<1>3. QED
    BY <1>1, <1>2 DEF Init, TypeInv, TypeOK, HasRead

\* The row, its copies and the ticks keep their types in every reachable
\* state, for any number of ticks, requests and edits and any hazards.
THEOREM TypeCorrect == Spec => []TypeOK
<1>1. TypeInv => TypeOK
    BY DEF TypeInv
<1>2. QED
    BY <1>1, TypeInit, TypeStep, PTL DEF Spec

-----------------------------------------------------------------------------
(* No run is skipped.                                                      *)

\* A definition a user or a tick has made so far.
Sound(d) == d.plan <= edits /\ Accounted(d)

\* The definition in the row and every copy of it that may be written back
\* is accounted for; a tick that may commit has queued its run.
SkipInv ==
    /\ Exists => Sound(workflow)
    /\ \A t \in Ticks : pc[t] # "idle" => Sound(seen[t])
    /\ \A t \in Ticks : pc[t] = "sent" => Run(t) \in sent
    /\ \A e \in Editors : copy[e] # None => Sound(copy[e])

\* What was sound stays sound: runs are only added, plans are not remade.
LEMMA SoundStays ==
    ASSUME TypeInv, [Next]_vars, NEW d \in Definition, Sound(d)
    PROVE  Sound(d)'
<1>1. edits' \in Nat /\ edits <= edits' /\ sent \subseteq sent'
          /\ (made' = made \/ (edits < MaxEdits /\ made' = [made EXCEPT ![edits + 1] = time]))
    <2>0. edits \in Nat
        BY ConstantsOK DEF TypeInv, TypeOK, Edits
    <2>1. CASE \E e \in Editors : UpdateSchedule(e) \/ DisableSchedule(e) \/ UpdateWorkflow(e)
        BY <2>0, <2>1 DEF UpdateSchedule, DisableSchedule, UpdateWorkflow, Edit
    <2>2. CASE \E t \in Ticks : TickStep(t)
        BY <2>0, <2>2 DEF TickStep, Read, Send, Commit, Abort
    <2>3. CASE \E e \in Editors : Open(e) \/ Close(e)
        BY <2>0, <2>3 DEF Open, Close
    <2>4. CASE Passes \/ Archive \/ Delete \/ UNCHANGED vars
        BY <2>0, <2>4 DEF Passes, Archive, Delete, vars
    <2>5. QED
        BY <2>1, <2>2, <2>3, <2>4 DEF Next, EditStep
<1>2. d.plan \in Edits /\ d.plan <= edits /\ edits \in 0..MaxEdits
    BY ConstantsOK DEF Sound, Definition, TypeInv, TypeOK, Edits
<1>3. d.plan \in Nat /\ edits \in Nat
    BY <1>2, ConstantsOK DEF Edits
<1>4. made'[d.plan] = made[d.plan]
    <2>1. d.plan # edits + 1
        BY <1>2, <1>3
    <2>2. QED
        BY <1>1, <1>2, <2>1 DEF TypeInv, TypeOK
<1>5. d.plan <= edits'
    BY <1>1, <1>2, <1>3
<1>6. Accounted(d)'
    BY <1>1, <1>4 DEF Sound, Accounted
<1>7. QED
    BY <1>5, <1>6 DEF Sound

\* A plan that a request makes is due at the time it is made.
LEMMA EditIsSound ==
    ASSUME TypeInv, NEW e \in Editors, NEW d \in Definition, d = copy[e], Sound(d)',
           UpdateSchedule(e) \/ DisableSchedule(e) \/ UpdateWorkflow(e)
    PROVE  Sound(workflow)'
<1>1. edits' = edits + 1 /\ made' = [made EXCEPT ![edits + 1] = time]
          /\ edits \in Nat /\ edits + 1 \in Edits
    BY ConstantsOK
    DEF TypeInv, TypeOK, Edits, UpdateSchedule, DisableSchedule, UpdateWorkflow, Edit
<1>2. made'[edits + 1] = time
    BY <1>1 DEF TypeInv, TypeOK
<1>3. CASE UpdateSchedule(e)
    BY <1>1, <1>2, <1>3 DEF UpdateSchedule, Edit, Sound, Accounted
<1>4. CASE DisableSchedule(e)
    BY <1>1, <1>4 DEF DisableSchedule, Edit, Sound, Accounted
<1>5. CASE UpdateWorkflow(e)
    <2>1. CASE workflow' = [sequence |-> edits + 1, plan |-> edits + 1,
                            enabled |-> FALSE, next |-> 0]
        BY <1>1, <2>1 DEF Sound, Accounted
    <2>2. CASE workflow' = [sequence |-> edits + 1, plan |-> d.plan,
                            enabled |-> d.enabled, next |-> d.next]
        BY <2>2 DEF Sound, Accounted
    <2>3. QED
        BY <1>5, <2>1, <2>2 DEF UpdateWorkflow, Edit
<1>6. QED
    BY <1>3, <1>4, <1>5

LEMMA SkipInit == Init => SkipInv
<1>. SUFFICES ASSUME Init
              PROVE  SkipInv
    OBVIOUS
<1>1. 0 \in Edits
    BY ConstantsOK DEF Edits
<1>2. Sound(workflow)
    BY <1>1 DEF Init, Sound, Accounted
<1>3. QED
    BY <1>2 DEF Init, SkipInv

LEMMA SkipStep == TypeInv /\ SkipInv /\ [Next]_vars => SkipInv'
<1>. SUFFICES ASSUME TypeInv, SkipInv, [Next]_vars
              PROVE  SkipInv'
    OBVIOUS
<1>a. TypeInv'
    BY TypeStep
<1>b. \A d \in Definition : Sound(d) => Sound(d)'
    BY SoundStays
<1>c. sent \subseteq sent'
    BY DEF Next, vars, TickStep, EditStep, Read, Send, Commit, Abort, Open, Close,
           UpdateSchedule, DisableSchedule, UpdateWorkflow, Edit, Passes, Archive, Delete
<1>d. /\ Exists => workflow \in Definition /\ Sound(workflow)
      /\ \A t \in Ticks : pc[t] # "idle" => seen[t] \in Definition /\ Sound(seen[t])
      /\ \A e \in Editors : copy[e] # None => copy[e] \in Definition /\ Sound(copy[e])
    BY DEF SkipInv, TypeInv, TypeOK, HasRead
<1>1. ASSUME workflow' = workflow \/ workflow' = None
      PROVE  (Exists => Sound(workflow))'
    BY <1>1, <1>b, <1>d
<1>2. ASSUME tick' = tick
      PROVE  (\A t \in Ticks : /\ pc[t] # "idle" => Sound(seen[t])
                               /\ pc[t] = "sent" => Run(t) \in sent)'
    BY <1>2, <1>b, <1>c, <1>d DEF SkipInv, Run
<1>3. ASSUME copy' = copy
      PROVE  (\A e \in Editors : copy[e] # None => Sound(copy[e]))'
    BY <1>3, <1>b, <1>d
<1>4. ASSUME NEW t \in Ticks, Read(t)
      PROVE  SkipInv'
    <2>1. seen'[t] = workflow /\ Sound(workflow)'
        BY <1>4, <1>b, <1>d DEF Read, TypeInv, TypeOK
    <2>2. workflow' = workflow /\ copy' = copy /\ pc'[t] = "due"
        BY <1>4 DEF Read, TypeInv, TypeOK
    <2>3. \A u \in Ticks \ {t} : pc'[u] = pc[u] /\ seen'[u] = seen[u] /\ now'[u] = now[u]
        BY <1>4 DEF Read, TypeInv, TypeOK
    <2>4. (\A u \in Ticks : pc[u] # "idle" => Sound(seen[u]))'
        <3>1. ASSUME NEW u \in Ticks, pc'[u] # "idle"
              PROVE  Sound(seen[u])'
            <4>1. CASE u = t
                BY <2>1, <2>2, <4>1 DEF Sound, Accounted
            <4>2. CASE u # t
                <5>1. PICK d \in Definition : d = seen[u] /\ Sound(d)
                    BY <1>d, <2>3, <3>1, <4>2
                <5>2. Sound(d)' /\ seen'[u] = d
                    BY <1>b, <2>3, <4>2, <5>1
                <5>3. QED
                    BY <5>2 DEF Sound, Accounted
            <4>3. QED
                BY <4>1, <4>2
        <3>2. QED
            BY <3>1
    <2>5. (\A u \in Ticks : pc[u] = "sent" => Run(u) \in sent)'
        BY <1>c, <2>2, <2>3 DEF SkipInv, Run
    <2>6. QED
        BY <1>1, <1>3, <2>2, <2>4, <2>5 DEF SkipInv
<1>5. ASSUME NEW t \in Ticks, Send(t)
      PROVE  SkipInv'
    <2>1. /\ workflow' = workflow /\ copy' = copy /\ seen' = seen /\ now' = now
          /\ Run(t) \in sent' /\ pc[t] = "due"
          /\ \A u \in Ticks \ {t} : pc'[u] = pc[u]
        BY <1>5 DEF Send, TypeInv, TypeOK
    <2>2. (\A u \in Ticks : pc[u] = "sent" => Run(u) \in sent)'
        BY <1>c, <2>1 DEF SkipInv, Run
    <2>3. (\A u \in Ticks : pc[u] # "idle" => Sound(seen[u]))'
        <3>1. ASSUME NEW u \in Ticks, pc'[u] # "idle"
              PROVE  Sound(seen[u])'
            <4>1. PICK d \in Definition : d = seen[u] /\ Sound(d)
                BY <1>d, <2>1, <3>1
            <4>2. Sound(d)' /\ seen'[u] = d
                BY <1>b, <2>1, <4>1
            <4>3. QED
                BY <4>2 DEF Sound, Accounted
        <3>2. QED
            BY <3>1
    <2>4. QED
        BY <1>1, <1>3, <2>1, <2>2, <2>3 DEF SkipInv
<1>6. ASSUME NEW t \in Ticks, Commit(t) \/ Abort(t)
      PROVE  SkipInv'
    <2>1. /\ pc[t] # "idle" /\ pc'[t] = "idle" /\ copy' = copy /\ sent' = sent
          /\ \A u \in Ticks \ {t} : pc'[u] = pc[u] /\ seen'[u] = seen[u] /\ now'[u] = now[u]
        BY <1>6 DEF Commit, MayCommit, Abort, Ends, TypeInv, TypeOK
    <2>2. (\A u \in Ticks : pc[u] = "sent" => Run(u) \in sent)'
        BY <2>1 DEF SkipInv, Run
    <2>3. (\A u \in Ticks : pc[u] # "idle" => Sound(seen[u]))'
        <3>1. ASSUME NEW u \in Ticks, pc'[u] # "idle"
              PROVE  Sound(seen[u])'
            <4>1. PICK d \in Definition : d = seen[u] /\ Sound(d)
                BY <1>d, <2>1, <3>1
            <4>2. Sound(d)' /\ seen'[u] = d
                BY <1>b, <2>1, <3>1, <4>1
            <4>3. QED
                BY <4>2 DEF Sound, Accounted
        <3>2. QED
            BY <3>1
    <2>4. (Exists => Sound(workflow))'
        <3>1. CASE Abort(t)
            BY <1>1, <3>1 DEF Abort
        <3>2. CASE Commit(t)
            <4>1. Run(t) \in sent /\ workflow' = Checkpointed(t)
                BY <3>2 DEF Commit, MayCommit, SkipInv
            <4>2. PICK d \in Definition : d = seen[t] /\ Sound(d)
                BY <1>d, <2>1
            <4>3. d.plan <= edits'
                BY <1>b, <4>2 DEF Sound
            <4>4. /\ workflow'.plan = d.plan
                  /\ workflow'.next = Run(t).start + 1
                  /\ Run(t).plan = d.plan
                BY <4>1, <4>2 DEF Checkpointed, NextRun, Run
            <4>5. QED
                BY <2>1, <4>1, <4>3, <4>4 DEF Sound, Accounted
        <3>3. QED
            BY <1>6, <3>1, <3>2
    <2>5. QED
        BY <1>3, <2>1, <2>2, <2>3, <2>4 DEF SkipInv
<1>7. ASSUME NEW e \in Editors, Open(e)
      PROVE  SkipInv'
    <2>1. /\ workflow' = workflow /\ tick' = tick /\ Exists
          /\ copy'[e] = workflow
          /\ \A f \in Editors \ {e} : copy'[f] = copy[f]
        BY <1>7 DEF Open, TypeInv, TypeOK
    <2>2. (\A f \in Editors : copy[f] # None => Sound(copy[f]))'
        <3>1. ASSUME NEW f \in Editors, copy'[f] # None
              PROVE  Sound(copy[f])'
            <4>1. PICK d \in Definition : d = copy'[f] /\ Sound(d)
                BY <1>d, <2>1, <3>1
            <4>2. Sound(d)'
                BY <1>b, <4>1
            <4>3. QED
                BY <4>1, <4>2 DEF Sound, Accounted
        <3>2. QED
            BY <3>1
    <2>3. QED
        BY <1>1, <1>2, <2>1, <2>2 DEF SkipInv
<1>8. ASSUME NEW e \in Editors,
             Close(e) \/ UpdateSchedule(e) \/ DisableSchedule(e) \/ UpdateWorkflow(e)
      PROVE  SkipInv'
    <2>1. /\ tick' = tick /\ copy[e] # None /\ copy'[e] = None
          /\ \A f \in Editors \ {e} : copy'[f] = copy[f]
        BY <1>8 DEF Close, UpdateSchedule, DisableSchedule, UpdateWorkflow, Edit,
                    TypeInv, TypeOK
    <2>2. (\A f \in Editors : copy[f] # None => Sound(copy[f]))'
        <3>1. ASSUME NEW f \in Editors, copy'[f] # None
              PROVE  Sound(copy[f])'
            <4>1. PICK d \in Definition : d = copy[f] /\ Sound(d) /\ d = copy'[f]
                BY <1>d, <2>1, <3>1
            <4>2. Sound(d)'
                BY <1>b, <4>1
            <4>3. QED
                BY <4>1, <4>2 DEF Sound, Accounted
        <3>2. QED
            BY <3>1
    <2>3. (Exists => Sound(workflow))'
        <3>1. CASE Close(e)
            BY <1>1, <3>1 DEF Close
        <3>2. PICK d \in Definition : d = copy[e] /\ Sound(d)
            BY <1>d, <2>1
        <3>3. CASE UpdateSchedule(e) \/ DisableSchedule(e) \/ UpdateWorkflow(e)
            BY <1>b, <3>2, <3>3, EditIsSound
        <3>4. QED
            BY <1>8, <3>1, <3>3
    <2>4. QED
        BY <1>2, <2>1, <2>2, <2>3 DEF SkipInv
<1>9. CASE Passes \/ Archive \/ Delete \/ UNCHANGED vars
    BY <1>1, <1>2, <1>3, <1>9 DEF Passes, Archive, Delete, vars, SkipInv
<1>10. QED
    BY <1>4, <1>5, <1>6, <1>7, <1>8, <1>9 DEF Next, TickStep, EditStep

\* No run is skipped: whatever aborts, overlaps or writes a stale copy of
\* the definition, the checkpoint never passes an occurrence of its plan for
\* which no tick has queued a run.
THEOREM RunsAreNotSkipped == Spec => []NoRunSkipped
<1>1. SkipInv => NoRunSkipped
    BY DEF SkipInv, Sound, NoRunSkipped
<1>2. QED
    BY <1>1, TypeInit, TypeStep, SkipInit, SkipStep, PTL DEF Spec

-----------------------------------------------------------------------------
(* No run is queued twice.                                                 *)

\* No run of the plan of d was queued for an occurrence at k or later.
Unqueued(d, k) == \A r \in sent : r.plan = d.plan => r.at < k

\* Without hazards one tick works at a time, on the workflow as it is, and no
\* run was queued for the checkpoint it has read.
OnceInv ==
    /\ ~ repeated
    /\ \A r \in sent : r.plan <= edits
    /\ Exists => workflow.plan <= edits
    /\ \A t, u \in Ticks : pc[t] # "idle" /\ pc[u] # "idle" => t = u
    /\ \A t \in Ticks : pc[t] # "idle" =>
        /\ Exists => workflow = seen[t]
        /\ seen[t].next <= now[t] /\ seen[t].plan <= edits
        /\ pc[t] = "due" => Unqueued(seen[t], seen[t].next)
        /\ pc[t] = "sent" => Unqueued(seen[t], now[t] + 1)
    /\ TicksIdle /\ Exists => Unqueued(workflow, workflow.next)

LEMMA OnceInit == Init => OnceInv
BY ConstantsOK DEF Init, OnceInv, TicksIdle, Unqueued

\* A tick that reads the workflow is alone.
LEMMA ReadOnce ==
    ASSUME TypeInv, OnceInv, hazards = {}, NEW t \in Ticks, Read(t) PROVE OnceInv'
<1>1. /\ TicksIdle /\ Exists /\ workflow \in Definition
      /\ workflow.next <= time /\ Unqueued(workflow, workflow.next)
    BY DEF Read, IsDue, TypeInv, TypeOK, OnceInv
<1>2. /\ workflow' = workflow /\ edits' = edits /\ sent' = sent /\ repeated' = repeated
      /\ pc' = [pc EXCEPT ![t] = "due"]
      /\ now' = [now EXCEPT ![t] = time] /\ seen' = [seen EXCEPT ![t] = workflow]
    BY DEF Read
<1>3. pc'[t] = "due" /\ now'[t] = time /\ seen'[t] = workflow
    BY <1>2 DEF TypeInv, TypeOK
<1>4. \A u \in Ticks : u # t => pc'[u] = "idle"
    BY <1>1, <1>2 DEF TicksIdle, TypeInv, TypeOK
<1> QED
    BY <1>1, <1>2, <1>3, <1>4 DEF OnceInv, TicksIdle, Unqueued

\* The run it queues is new.
LEMMA SendOnce ==
    ASSUME TypeInv, OnceInv, hazards = {}, NEW t \in Ticks, Send(t) PROVE OnceInv'
<1>1. PICK d \in Definition, n \in Time : d = seen[t] /\ n = now[t]
    BY DEF Send, TypeInv, TypeOK, HasRead
<1>2. /\ d.plan \in Nat /\ d.next \in Nat /\ n \in Nat /\ edits \in Nat
      /\ d.next <= n /\ d.plan <= edits /\ (Exists => workflow = d)
      /\ \A r \in sent : r.plan = d.plan => r.at < d.next
    <2>1. d.plan \in Nat /\ d.next \in Nat /\ n \in Nat /\ edits \in Nat
        BY ConstantsOK DEF Definition, Time, Edits, TypeInv, TypeOK
    <2>2. pc[t] = "due" /\ pc[t] # "idle"
        BY DEF Send
    <2>3. /\ d.next <= n /\ d.plan <= edits /\ (Exists => workflow = d)
          /\ Unqueued(d, d.next)
        BY <1>1, <2>2 DEF OnceInv
    <2> QED
        BY <2>1, <2>3 DEF Unqueued
<1>3. PICK run : run = Run(t)
    OBVIOUS
<1>4. run.plan = d.plan /\ run.at = d.next
    BY <1>1, <1>3 DEF Run
<1>5. /\ sent' = sent \cup {run} /\ ~ repeated'
      /\ pc' = [pc EXCEPT ![t] = "sent"]
      /\ workflow' = workflow /\ edits' = edits /\ seen' = seen /\ now' = now
    <2>1. \A r \in sent : r.at \in Nat
        BY ConstantsOK DEF TypeInv, TypeOK, Runs
    <2>2. ~ \E r \in sent : r.plan = run.plan /\ r.at = run.at
        BY <1>2, <1>4, <2>1
    <2> QED
        BY <1>3, <2>2 DEF Send, OnceInv
<1>6. \A r \in sent' : r.plan <= edits /\ (r.plan = d.plan => r.at < n + 1)
    <2>1. \A r \in sent : r.at \in Nat
        BY ConstantsOK DEF TypeInv, TypeOK, Runs
    <2> QED
        BY <1>2, <1>4, <1>5, <2>1 DEF OnceInv
<1>7. pc'[t] = "sent" /\ \A u \in Ticks : u # t => pc'[u] = "idle"
    BY <1>5 DEF Send, OnceInv, TypeInv, TypeOK
<1> QED
    BY <1>1, <1>2, <1>5, <1>6, <1>7 DEF OnceInv, TicksIdle, Unqueued

\* Its checkpoint is after the run.
LEMMA CommitOnce ==
    ASSUME TypeInv, OnceInv, hazards = {}, NEW t \in Ticks, Commit(t) PROVE OnceInv'
<1>1. PICK d \in Definition, n \in Time : d = seen[t] /\ n = now[t]
    BY DEF Commit, MayCommit, TypeInv, TypeOK, HasRead
<1>2. d.plan <= edits /\ \A r \in sent : r.plan = d.plan => r.at < n + 1
    BY <1>1 DEF Commit, MayCommit, OnceInv, Unqueued
<1>3. workflow'.plan = d.plan /\ workflow'.next = n + 1
    BY <1>1 DEF Commit, Checkpointed, NextRun
<1>4. \A u \in Ticks : pc'[u] = "idle"
    BY DEF Commit, MayCommit, Ends, OnceInv, TypeInv, TypeOK
<1>5. sent' = sent /\ edits' = edits /\ repeated' = repeated
    BY DEF Commit
<1> QED
    BY <1>2, <1>3, <1>4, <1>5 DEF OnceInv, Unqueued

\* A request edits the workflow between ticks; a new plan has no runs yet.
LEMMA EditOnce ==
    ASSUME TypeInv, OnceInv, hazards = {}, NEW e \in Editors, NEW d \in Definition, Edit(e, d),
           d.plan = edits + 1 \/ (d.plan = copy[e].plan /\ d.next = copy[e].next)
    PROVE  OnceInv'
<1>1. /\ TicksIdle /\ copy[e] = workflow /\ Exists
      /\ workflow' = d /\ edits' = edits + 1
      /\ pc' = pc /\ sent' = sent /\ repeated' = repeated
    BY DEF Edit
<1>2. edits \in Nat /\ d.plan \in Nat /\ \A r \in sent : r.plan \in Nat /\ r.plan <= edits
    BY ConstantsOK DEF TypeInv, TypeOK, Edits, Runs, Definition, OnceInv
<1>3. workflow.plan <= edits /\ Unqueued(workflow, workflow.next) /\ ~ repeated
    BY <1>1 DEF OnceInv
<1>4. d.plan <= edits + 1 /\ \A r \in sent : r.plan = d.plan => r.at < d.next
    BY <1>1, <1>2, <1>3 DEF Unqueued
<1> QED
    BY <1>1, <1>2, <1>3, <1>4 DEF OnceInv, TicksIdle, Unqueued

LEMMA OnceStep == TypeInv /\ OnceInv /\ hazards = {} /\ [Next]_vars => OnceInv'
<1> SUFFICES ASSUME TypeInv, OnceInv, hazards = {}, [Next]_vars
             PROVE  OnceInv'
    OBVIOUS
<1>1. ASSUME NEW t \in Ticks, Abort(t) PROVE OnceInv'
    <2>1. pc[t] = "sent" /\ ~ Exists /\ workflow' = workflow
        BY <1>1 DEF Abort
    <2>2. \A u \in Ticks : pc'[u] = "idle"
        BY <1>1, <2>1 DEF Abort, Ends, OnceInv, TypeInv, TypeOK
    <2>3. sent' = sent /\ edits' = edits /\ repeated' = repeated
        BY <1>1 DEF Abort
    <2> QED
        BY <2>1, <2>2, <2>3 DEF OnceInv
<1>2. ASSUME NEW e \in Editors, UpdateSchedule(e) \/ DisableSchedule(e) \/ UpdateWorkflow(e)
      PROVE  OnceInv'
    <2>1. copy[e] \in Definition /\ edits < MaxEdits
        BY <1>2 DEF UpdateSchedule, DisableSchedule, UpdateWorkflow, Edit, TypeInv, TypeOK
    <2> QED
        BY <1>2, <2>1, EditTypes, EditOnce
        DEF UpdateSchedule, DisableSchedule, UpdateWorkflow, TypeInv
<1>3. ASSUME NEW e \in Editors, Open(e) \/ Close(e) PROVE OnceInv'
    BY <1>3 DEF Open, Close, OnceInv, TicksIdle, Unqueued
<1>4. CASE Passes \/ Archive \/ UNCHANGED vars
    BY <1>4 DEF Passes, Archive, vars, OnceInv, TicksIdle, Unqueued
<1>5. CASE Delete
    BY <1>5 DEF Delete, OnceInv, TicksIdle, Unqueued
<1> QED
    BY <1>1, <1>2, <1>3, <1>4, <1>5, ReadOnce, SendOnce, CommitOnce
    DEF Next, TickStep, EditStep

\* An occurrence is queued once, as long as ticks end with their commit, do
\* not overlap, and nobody edits the workflow while one runs.
THEOREM RunsAreQueuedOnce == Spec => []QueuedOnce
<1> DEFINE Once == hazards = {} => OnceInv
<1>1. Init => Once
    BY OnceInit
<1>2. hazards' = hazards \/ ~ [Next]_vars
    BY DEF Next, TickStep, EditStep, Read, Send, Commit, Abort, Open, Close, UpdateSchedule,
       DisableSchedule, UpdateWorkflow, Edit, Passes, Archive, Delete, vars
<1>3. TypeInv /\ Once /\ [Next]_vars => Once'
    BY <1>2, OnceStep
<1>4. Once => QueuedOnce
    BY DEF OnceInv, QueuedOnce
<1> QED
    BY <1>1, <1>3, <1>4, TypeInit, TypeStep, PTL DEF Spec
=============================================================================
