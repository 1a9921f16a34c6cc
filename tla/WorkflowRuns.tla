---------------------------- MODULE WorkflowRuns ----------------------------
(***************************************************************************)
(* What fills the table of confirmations: runs of workflows                *)
(* (tasks/workflows.py, the /run endpoint of api/v1/workflows/router.py)   *)
(* and turns of the Runtime Assistant (services/runtime_assistant/         *)
(* service.py).  Each is a sequence of transactions: a write is held by    *)
(* committing a confirmation, long before the run or the turn itself is    *)
(* committed.  A queued run is delivered again when its worker dies; a     *)
(* turn is sent again by the client, under the same client_request_id.     *)
(***************************************************************************)
EXTENDS Confirmations, Sequences

CONSTANTS
    Attempts,   \* deliveries of one run or sendings of one turn, 1..n
    Plans       \* definitions of workflows: sequences of kinds of steps

StepKinds == {"note", "read", "write"}
Sources   == {"task", "api", "chat"}

ASSUME PlansOK ==
    /\ Plans \subseteq Seq(StepKinds)
    /\ Attempts \subseteq Nat \ {0}

VARIABLES
    source,     \* who asks for this work; never changes
    plan,       \* the steps it consists of; never changes
    at,         \* how far each attempt is
    next,       \* the step it performs next
    asked,      \* the confirmations it has committed
    outcome     \* WorkflowExecution.status of its row, or whether the answer
                \* of the turn was saved

work == <<source, plan, at, next, asked, outcome>>
vars == <<confirmationVars, work>>

Writes(p) == Cardinality({i \in DOMAIN p : p[i] = "write"})

Init ==
    /\ ConfirmationsInit
    /\ source \in Sources
    /\ plan \in {p \in Plans : Writes(p) <= Cardinality(Ids)}
    /\ source = "chat" => Writes(plan) <= 1
    /\ at = [a \in Attempts |-> IF a = 1 THEN "queued" ELSE "none"]
    /\ next = [a \in Attempts |-> 1]
    /\ asked = [a \in Attempts |-> {}]
    /\ outcome = [a \in Attempts |-> "none"]

Goes(a, from, to) ==
    /\ at[a] = from
    /\ at' = [at EXCEPT ![a] = to]
    /\ UNCHANGED <<source, plan>>

\* Bound: an attempt is made again while there are attempts and rows left.
Room(a) ==
    /\ a \in Attempts
    /\ Cardinality({c \in Ids : Exists(c)}) + Writes(plan) <= Cardinality(Ids)

IsLast(a)  == next[a] > Len(plan)
Is(a, k)   == ~ IsLast(a) /\ plan[next[a]] = k
Advance(a) == next' = [next EXCEPT ![a] = @ + 1]

-----------------------------------------------------------------------------
(* A run of a workflow.                                                    *)

\* The workflow, its project or any actor is gone; no row is written.
Refuse(a) ==
    /\ source # "chat"
    /\ Goes(a, "queued", "ended")
    /\ UNCHANGED <<confirmationVars, next, asked, outcome>>

\* The row of the execution is committed first.
Begin(a) ==
    /\ source # "chat"
    /\ Goes(a, "queued", "running")
    /\ outcome' = [outcome EXCEPT ![a] = "running"]
    /\ UNCHANGED <<confirmationVars, next, asked>>

\* A step without a provider or an action only counts; a read is performed.
\* In a turn a read that fails is a part of the answer.
Perform(a) ==
    /\ Goes(a, "running", "running")
    /\ Is(a, "note") \/ Is(a, "read")
    /\ Advance(a)
    /\ UNCHANGED <<confirmationVars, asked, outcome>>

\* The steps that follow are skipped; what was asked before stays.
Fail(a) ==
    /\ source # "chat"
    /\ Goes(a, "running", "ended")
    /\ Is(a, "read")
    /\ outcome' = [outcome EXCEPT ![a] = "failed"]
    /\ UNCHANGED <<confirmationVars, next, asked>>

\* Mutant: a run that waits for its writes to be approved stops there.
StepsHeld(a) == Len(plan) + 1

\* A write that is held does not keep the later steps back.
AfterHold(a) == next[a] + 1

\* A write is held for approval, in a transaction of its own.
Hold(a) ==
    /\ Goes(a, "running", "running")
    /\ Is(a, "write")
    /\ \E c \in Ids :
        /\ Request(c, IF source = "chat" THEN "command" ELSE "action")
        /\ asked' = [asked EXCEPT ![a] = @ \cup {c}]
    /\ next' = [next EXCEPT ![a] = AfterHold(a)]
    /\ UNCHANGED outcome

Verdict(a) == IF asked[a] = {} THEN "completed" ELSE "blocked"

Finish(a) ==
    /\ source # "chat"
    /\ Goes(a, "running", "ended")
    /\ IsLast(a)
    /\ outcome' = [outcome EXCEPT ![a] = Verdict(a)]
    /\ UNCHANGED <<confirmationVars, next, asked>>

-----------------------------------------------------------------------------
(* A turn of the assistant.                                                *)

Answered == {a \in Attempts : outcome[a] = "answered"}

\* Mutant: a turn is never found again.
FoundNever == FALSE

\* find_idempotent_response: the answer carries the identifier, the message
\* of the user and the proposal do not.
Found == Answered # {}

Replay(a) ==
    /\ source = "chat"
    /\ Goes(a, "queued", "ended")
    /\ Found
    /\ UNCHANGED <<confirmationVars, next, asked, outcome>>

Turn(a) ==
    /\ source = "chat"
    /\ Goes(a, "queued", "running")
    /\ ~ Found
    /\ UNCHANGED <<confirmationVars, next, asked, outcome>>

Answer(a) ==
    /\ source = "chat"
    /\ Goes(a, "running", "ended")
    /\ IsLast(a)
    /\ outcome' = [outcome EXCEPT ![a] = "answered"]
    /\ UNCHANGED <<confirmationVars, next, asked>>

\* The client sends the turn again: its answer was lost or is slow.
Retry(a) ==
    /\ source = "chat"
    /\ at[a] = "none"
    /\ \A b \in Attempts : b < a => at[b] # "none"
    /\ Exposed("race") \/ \A b \in Attempts : b < a => at[b] = "ended"
    /\ Room(a)
    /\ at' = [at EXCEPT ![a] = "queued"]
    /\ UNCHANGED <<confirmationVars, source, plan, next, asked, outcome>>

-----------------------------------------------------------------------------
\* Mutant: the message is acknowledged when it is received.
AckedEarly == "none"

\* Tasks are acknowledged late: a message whose worker dies is delivered
\* again.
Redelivered == "queued"

\* The worker or the process of the API dies.
Die(a) ==
    /\ Exposed("abort")
    /\ at[a] \in {"queued", "running"}
    /\ IF source = "task"
       THEN /\ Room(a + 1)
            /\ at' = [at EXCEPT ![a] = "ended", ![a + 1] = Redelivered]
       ELSE at' = [at EXCEPT ![a] = "ended"]
    /\ UNCHANGED <<confirmationVars, source, plan, next, asked, outcome>>

WorkStep(a) ==
    \/ Refuse(a) \/ Begin(a) \/ Perform(a) \/ Fail(a) \/ Hold(a)
    \/ Finish(a) \/ Replay(a) \/ Turn(a) \/ Answer(a)

Next ==
    \/ \E a \in Attempts : WorkStep(a) \/ Retry(a) \/ Die(a)
    \/ DecideNext /\ UNCHANGED work

Spec == Init /\ [][Next]_vars

\* Celery delivers a message until it is acknowledged; requests under way go
\* on.
FairSpec ==
    /\ Spec
    /\ \A a \in Attempts : WF_vars(WorkStep(a))
    /\ \A d \in Deciders : WF_vars(DecideStep(d) /\ UNCHANGED work)

-----------------------------------------------------------------------------
(* Properties.                                                             *)

\* A run reports "blocked" exactly when it asked for every one of its writes,
\* "completed" when there was none, and whatever it performed of them was
\* asked for by one attempt only: no write is performed unasked.
BlockedMeansAsked ==
    /\ \A a \in Attempts :
        /\ outcome[a] \in {"completed", "blocked"} => Cardinality(asked[a]) = Writes(plan)
        /\ outcome[a] = "completed" => Writes(plan) = 0
    /\ \A c \in Ids : effects[c] > 0 => \E a \in Attempts : c \in asked[a]
    /\ \A a, b \in Attempts : a # b => asked[a] \cap asked[b] = {}

\* Retries of a turn that do not overlap it are answered by what it saved,
\* and propose its command again only if the turn was cut off.
AnsweredOnce ==
    ~ Exposed("race") =>
        /\ Cardinality(Answered) <= 1
        /\ ~ Exposed("abort") => Cardinality(UNION {asked[a] : a \in Attempts}) <= Writes(plan)

\* Every queued run ends in an attempt that was not cut off: its row, if it
\* began, says so.
RunIsFinished ==
    source = "task" ~>
        \E a \in Attempts : at[a] = "ended" /\ outcome[a] # "running" /\ ~ (\E b \in Attempts : b > a /\ at[b] # "none")
=============================================================================
