-------------------------- MODULE WorkflowSchedule --------------------------
(***************************************************************************)
(* The schedule of one workflow: the beat task that queues due runs and    *)
(* advances the checkpoint (app/services/scheduler.py,                     *)
(* app/tasks/scheduler.py), and the requests that edit the workflow        *)
(* (app/api/v1/workflows/router.py).                                       *)
(*                                                                         *)
(* Schedule and steps are parts of one JSON column, Workflow.definition.   *)
(* Whoever writes the column writes all of it, with what it read before;   *)
(* nothing locks the row between the two.  A tick handles all workflows    *)
(* in one transaction, so what happens to another workflow may make it     *)
(* raise before its commit; here that is the hazard "abort".               *)
(***************************************************************************)
EXTENDS Integers, FiniteSets

CONSTANTS
    Ticks,       \* concurrent executions of run_scheduled_workflows
    Editors,     \* concurrent requests of users
    MaxTime,     \* bound: clock, in intervals of the schedule
    MaxEdits,    \* bound: edits by users
    Scenarios,   \* the sets of hazards a behaviour may be exposed to
    None         \* the workflow is deleted; nothing was read

(***************************************************************************)
(*  "abort"    a tick raises or its process dies before its commit         *)
(*  "overlap"  a tick starts before the last one has ended                 *)
(*  "race"     edits overlap ticks, and write what is no longer current    *)
(***************************************************************************)
HazardKinds == {"abort", "overlap", "race"}

Time  == 0..MaxTime
Edits == 0..MaxEdits

\* `sequence` and `plan` number the edit that wrote the steps and the
\* schedule; `next` is next_run_at.
Definition == [sequence: Edits, plan: Edits, enabled: BOOLEAN, next: 0..(MaxTime + 1)]

ASSUME ConstantsOK ==
    /\ MaxTime \in Nat /\ MaxEdits \in Nat
    /\ Scenarios \subseteq SUBSET HazardKinds
    /\ None \notin Definition

VARIABLES
    hazards,    \* what this behaviour is exposed to; never changes
    time,       \* the clock
    workflow,   \* Workflow.definition
    archived,   \* Workflow.status = "archived"
    pc,         \* how far each tick is
    now,        \* the clock when the tick started
    seen,       \* the definition each tick has read
    copy,       \* the definition each request (or its client) has read
    edits,      \* edits committed so far
    made,       \* auxiliary: when each plan was made
    sent,       \* auxiliary: messages sent by ticks
    repeated    \* auxiliary: an occurrence was sent twice

vars == <<hazards, time, workflow, archived, pc, now, seen, copy, edits,
          made, sent, repeated>>

row  == <<workflow, archived, edits, made>>
tick == <<pc, now, seen>>

Exposed(h) == h \in hazards
Exists     == workflow # None

Init ==
    /\ hazards \in Scenarios
    /\ time = 0
    /\ workflow = [sequence |-> 0, plan |-> 0, enabled |-> TRUE, next |-> 0]
    /\ archived = FALSE
    /\ pc = [t \in Ticks |-> "idle"]
    /\ now = [t \in Ticks |-> 0]
    /\ seen = [t \in Ticks |-> None]
    /\ copy = [e \in Editors |-> None]
    /\ edits = 0
    /\ made = [p \in Edits |-> 0]
    /\ sent = {}
    /\ repeated = FALSE

Passes ==
    /\ time < MaxTime
    /\ time' = time + 1
    /\ UNCHANGED <<hazards, row, tick, copy, sent, repeated>>

-----------------------------------------------------------------------------
(* The tick.                                                               *)

TicksIdle == \A t \in Ticks : pc[t] = "idle"

\* Mutant: an occurrence is due only after its time.
IsDueStrictly(d) == d.enabled /\ d.next < time

IsDue(d) == d.enabled /\ d.next <= time

\* run_pending_workflows reads the clock and the rows.  A tick that finds
\* the workflow not due, or archived, leaves it alone.
Read(t) ==
    /\ pc[t] = "idle"
    /\ Exposed("overlap") \/ TicksIdle
    /\ Exists /\ ~ archived
    /\ IsDue(workflow)
    /\ pc' = [pc EXCEPT ![t] = "due"]
    /\ now' = [now EXCEPT ![t] = time]
    /\ seen' = [seen EXCEPT ![t] = workflow]
    /\ UNCHANGED <<hazards, time, row, copy, sent, repeated>>

Run(t) == [plan |-> seen[t].plan, at |-> seen[t].next, start |-> now[t]]

\* run_workflow.delay
Send(t) ==
    /\ pc[t] = "due"
    /\ sent' = sent \cup {Run(t)}
    /\ repeated' = (repeated \/ \E r \in sent : r.plan = Run(t).plan /\ r.at = Run(t).at)
    /\ pc' = [pc EXCEPT ![t] = "sent"]
    /\ UNCHANGED <<hazards, time, row, now, seen, copy>>

\* _calculate_next_workflow_run counts from the start of the tick.
NextRun(start) == start + 1

\* Mutant: the new checkpoint is not part of the definition written.
NotCheckpointed(t) == seen[t]

\* The definition the tick writes.
Checkpointed(t) ==
    [sequence |-> seen[t].sequence, plan |-> seen[t].plan,
     enabled |-> seen[t].enabled, next |-> NextRun(now[t])]

\* Mutant: the checkpoint may be written before the run is queued.
MayCommitEarly(t) == pc[t] \in {"due", "sent"}

MayCommit(t) == pc[t] = "sent"

Ends(t) ==
    /\ pc' = [pc EXCEPT ![t] = "idle"]
    /\ now' = [now EXCEPT ![t] = 0]
    /\ seen' = [seen EXCEPT ![t] = None]

\* Flush and commit; the flush waits for a row another transaction has
\* flushed, and then writes over what that one committed.
Commit(t) ==
    /\ MayCommit(t)
    /\ Exists
    /\ workflow' = Checkpointed(t)
    /\ Ends(t)
    /\ UNCHANGED <<hazards, time, archived, edits, made, copy, sent, repeated>>

\* The row is gone (StaleDataError), the broker refuses the message, another
\* workflow of the tick raises, or the process dies.
Abort(t) ==
    /\ \/ pc[t] = "sent" /\ ~ Exists
       \/ pc[t] # "idle" /\ Exposed("abort")
    /\ Ends(t)
    /\ UNCHANGED <<hazards, time, row, copy, sent, repeated>>

-----------------------------------------------------------------------------
(* Requests of users.                                                      *)

\* The handler of a schedule, or the client that will send the whole
\* definition back, reads the workflow.
Open(e) ==
    /\ copy[e] = None
    /\ Exists
    /\ edits < MaxEdits
    /\ copy' = [copy EXCEPT ![e] = workflow]
    /\ UNCHANGED <<hazards, time, row, tick, sent, repeated>>

\* Nothing is written: the row is gone, or the user gives up.
Close(e) ==
    /\ copy[e] # None
    /\ copy' = [copy EXCEPT ![e] = None]
    /\ UNCHANGED <<hazards, time, row, tick, sent, repeated>>

Edit(e, definition) ==
    /\ copy[e] # None
    /\ Exists
    /\ edits < MaxEdits
    /\ Exposed("race") \/ (TicksIdle /\ copy[e] = workflow)
    /\ workflow' = definition
    /\ edits' = edits + 1
    /\ made' = [made EXCEPT ![edits + 1] = time]
    /\ copy' = [copy EXCEPT ![e] = None]
    /\ UNCHANGED <<hazards, time, archived, tick, sent, repeated>>

\* PUT /schedule: the first run is due at once.
UpdateSchedule(e) ==
    Edit(e, [sequence |-> copy[e].sequence, plan |-> edits + 1,
             enabled |-> TRUE, next |-> time])

\* DELETE /schedule, or PUT with enabled = false.
DisableSchedule(e) ==
    Edit(e, [sequence |-> copy[e].sequence, plan |-> edits + 1,
             enabled |-> FALSE, next |-> 0])

\* PATCH with a definition: new steps, and the schedule as the client read
\* it, or none.
UpdateWorkflow(e) ==
    \/ Edit(e, [sequence |-> edits + 1, plan |-> copy[e].plan,
                enabled |-> copy[e].enabled, next |-> copy[e].next])
    \/ Edit(e, [sequence |-> edits + 1, plan |-> edits + 1,
                enabled |-> FALSE, next |-> 0])

\* PATCH with a status touches another column.
Archive ==
    /\ Exists
    /\ archived' = ~ archived
    /\ UNCHANGED <<hazards, time, workflow, edits, made, tick, copy, sent, repeated>>

Delete ==
    /\ Exists
    /\ workflow' = None
    /\ UNCHANGED <<hazards, time, archived, edits, made, tick, copy, sent, repeated>>

-----------------------------------------------------------------------------
TickStep(t) == Read(t) \/ Send(t) \/ Commit(t) \/ Abort(t)

EditStep(e) ==
    Open(e) \/ Close(e) \/ UpdateSchedule(e) \/ DisableSchedule(e) \/ UpdateWorkflow(e)

Next ==
    \/ \E t \in Ticks : TickStep(t)
    \/ \E e \in Editors : EditStep(e)
    \/ Passes \/ Archive \/ Delete

Spec == Init /\ [][Next]_vars

\* Beat sends a tick every minute and a worker runs it to its end; requests
\* end.  Aborts stop: a broker or a row that makes every tick raise is not
\* within what the scheduler can mend.
Fairness ==
    /\ \A t \in Ticks : WF_vars(TickStep(t))
    /\ \A e \in Editors : WF_vars(EditStep(e))
    /\ <>[][\A t \in Ticks : Exists => ~ Abort(t)]_vars

FairSpec == Spec /\ Fairness

-----------------------------------------------------------------------------
(* Properties.                                                             *)

Runs == [plan: Edits, at: 0..(MaxTime + 1), start: Time]

\* The row, the copies of it and the ticks keep their types.
TypeOK ==
    /\ hazards \in Scenarios
    /\ time \in Time
    /\ workflow \in Definition \cup {None}
    /\ archived \in BOOLEAN
    /\ pc \in [Ticks -> {"idle", "due", "sent"}]
    /\ now \in [Ticks -> Time]
    /\ seen \in [Ticks -> Definition \cup {None}]
    /\ copy \in [Editors -> Definition \cup {None}]
    /\ edits \in Edits
    /\ made \in [Edits -> Time]
    /\ sent \subseteq Runs
    /\ repeated \in BOOLEAN

\* The checkpoint of a plan is the time the plan was made, or one interval
\* after a tick that queued a run of this plan.
Accounted(d) ==
    d.enabled => \/ d.next = made[d.plan]
                 \/ \E r \in sent : r.plan = d.plan /\ d.next = r.start + 1

\* No run is skipped: a checkpoint never moves past an occurrence of its
\* plan for which no tick has queued a run, whatever aborts, overlaps or
\* writes a stale copy.
NoRunSkipped == Exists => Accounted(workflow)

\* An occurrence is queued once, as long as ticks end with their commit, do
\* not overlap, and nobody edits the workflow meanwhile.
QueuedOnce == hazards = {} => ~ repeated

Scheduled(p, k) ==
    /\ Exists
    /\ ~ archived
    /\ workflow.enabled /\ workflow.plan = p /\ workflow.next = k

\* What is due is queued, unless the workflow is archived, deleted or its
\* schedule replaced, by ticks that overlap or abort for some time and by
\* edits that race with them.
DueIsQueued ==
    \A p \in Edits, k \in Time :
        Scheduled(p, k) /\ k <= time
            ~> \/ ~ Scheduled(p, k)
               \/ \E r \in sent : r.plan = p /\ r.at = k
=============================================================================
