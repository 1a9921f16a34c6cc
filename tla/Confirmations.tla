--------------------------- MODULE Confirmations ---------------------------
(***************************************************************************)
(* Writes that wait for the approval of a user: the rows of                *)
(* action_confirmations and the requests that decide them.                 *)
(*                                                                         *)
(* Two protocols share the table.  An "action" writes to an external       *)
(* service; it is approved or rejected in one transaction, and performed   *)
(* after it (services/actions/confirmations.py, services/actions/          *)
(* executor.py).  A "command" of the Runtime Assistant is confirmed,       *)
(* performed and marked in one transaction, which most commands commit     *)
(* half way (services/runtime_assistant/commands.py).  Both read the row   *)
(* without a lock; only a flush locks it.                                  *)
(***************************************************************************)
EXTENDS Naturals, FiniteSets

CONSTANTS
    Ids,         \* rows of action_confirmations, 1..n
    Deciders,    \* requests that decide a confirmation, one decision each
    Scenarios,   \* the sets of hazards a behaviour may be exposed to
    None         \* no row, no request

(***************************************************************************)
(*  "abort"  a process dies, or the database fails it, at any step         *)
(*  "race"   requests overlap                                              *)
(***************************************************************************)
HazardKinds == {"abort", "race"}

ActionVerdicts  == {"approve", "reject"}
CommandVerdicts == {"confirm", "cancel"}
Verdicts        == ActionVerdicts \cup CommandVerdicts

Kinds == {"action", "command"}

\* For an action "succeeded" says approved and "failed" says rejected.
Refusals == {"failed", "cancelled", "expired", "permission_denied"}
Statuses == {"pending", "succeeded", "confirmed", "executed"} \cup Refusals

ASSUME ConfirmationsOK ==
    /\ Scenarios \subseteq SUBSET HazardKinds
    /\ None \notin Deciders \cup Statuses
    /\ Ids \subseteq Nat

VARIABLES
    hazards,    \* what this behaviour is exposed to; never changes
    status,     \* ActionConfirmation.status, as committed
    kind,       \* which protocol the row belongs to
    overdue,    \* expires_at has passed
    holder,     \* the request whose flush holds the row
    pc,         \* how far each request is
    about,      \* the confirmation it decides
    verdict,    \* what it was asked to do
    log,        \* ActionExecution.status of the row each request adds
    effects     \* auxiliary: how often the write was performed

rows      == <<status, kind, overdue>>
requests  == <<pc, about, verdict>>
confirmationVars == <<hazards, rows, holder, requests, log, effects>>

Exposed(h) == h \in hazards
Exists(c)  == status[c] # None

ConfirmationsInit ==
    /\ hazards \in Scenarios
    /\ status = [c \in Ids |-> None]
    /\ kind = [c \in Ids |-> "action"]
    /\ overdue = [c \in Ids |-> FALSE]
    /\ holder = [c \in Ids |-> None]
    /\ pc = [d \in Deciders |-> "idle"]
    /\ about = [d \in Deciders |-> None]
    /\ verdict = [d \in Deciders |-> None]
    /\ log = [d \in Deciders |-> "none"]
    /\ effects = [c \in Ids |-> 0]

\* ConfirmationService.request, or RuntimeAssistantCommandService.propose.
Request(c, k) ==
    /\ ~ Exists(c)
    /\ \A b \in Ids : b < c => Exists(b)
    /\ status' = [status EXCEPT ![c] = "pending"]
    /\ kind' = [kind EXCEPT ![c] = k]
    /\ UNCHANGED <<hazards, overdue, holder, requests, log, effects>>

\* Ten minutes have passed.
Expire(c) ==
    /\ status[c] = "pending"
    /\ ~ overdue[c]
    /\ overdue' = [overdue EXCEPT ![c] = TRUE]
    /\ UNCHANGED <<hazards, status, kind, holder, requests, log, effects>>

-----------------------------------------------------------------------------
(* Deciding.                                                               *)

Others(d) == Deciders \ {d}
Idle(d)   == pc[d] \in {"idle", "done"}

\* Mutant: a row that has been decided may be decided again.
DecidableAgain(c) == Exists(c)

Decidable(c) == status[c] = "pending"

\* The router reads the row and then the membership of the user; the service
\* is given the same object, so the status it compares is this one.
Read(d, c, v) ==
    /\ pc[d] = "idle"
    /\ Exposed("race") \/ \A o \in Others(d) : Idle(o)
    /\ Decidable(c)
    /\ v \in CommandVerdicts => kind[c] = "command"
    /\ pc' = [pc EXCEPT ![d] = "read"]
    /\ about' = [about EXCEPT ![d] = c]
    /\ verdict' = [verdict EXCEPT ![d] = v]
    /\ UNCHANGED <<hazards, rows, holder, log, effects>>

Free(d) == holder[about[d]] \in {None, d}

\* The row is written as it is now, whatever it has become meanwhile.
Write(d, s) ==
    /\ Free(d)
    /\ status' = [status EXCEPT ![about[d]] = s]
    /\ holder' = [holder EXCEPT ![about[d]] = None]
    /\ UNCHANGED <<hazards, kind, overdue, about, verdict>>

Moves(d, from, to) ==
    /\ pc[d] = from
    /\ pc' = [pc EXCEPT ![d] = to]

InTime(d) == ~ overdue[about[d]]

Late(d) ==
    /\ Moves(d, "read", "done")
    /\ ~ InTime(d)
    /\ Write(d, IF verdict[d] \in ActionVerdicts THEN "cancelled" ELSE "expired")
    /\ UNCHANGED <<log, effects>>

Reject(d) ==
    /\ Moves(d, "read", "done")
    /\ verdict[d] = "reject" /\ InTime(d)
    /\ Write(d, "failed")
    /\ UNCHANGED <<log, effects>>

Cancel(d) ==
    /\ Moves(d, "read", "done")
    /\ verdict[d] = "cancel" /\ InTime(d)
    /\ Write(d, "cancelled")
    /\ UNCHANGED <<log, effects>>

\* The role of the user has changed since the proposal.
Deny(d) ==
    /\ Moves(d, "read", "done")
    /\ verdict[d] = "confirm" /\ InTime(d)
    /\ Write(d, "permission_denied")
    /\ UNCHANGED <<log, effects>>

Approve(d) ==
    /\ Moves(d, "read", "approved")
    /\ verdict[d] = "approve" /\ InTime(d)
    /\ Write(d, "succeeded")
    /\ UNCHANGED <<log, effects>>

-----------------------------------------------------------------------------
(* Performing an approved action (ActionExecutor.execute).                 *)

\* The row of the execution is committed before the provider is called.
Start(d) ==
    /\ Moves(d, "approved", "started")
    /\ log' = [log EXCEPT ![d] = "running"]
    /\ UNCHANGED <<hazards, rows, holder, about, verdict, effects>>

\* The result is written to an object that was never added to the session.
Settled(d) == log[d]

Performs(d) == effects' = [effects EXCEPT ![about[d]] = @ + 1]

\* A command is not an action of any provider: the call fails.
Call(d) ==
    /\ Moves(d, "started", "done")
    /\ \/ kind[about[d]] = "action" /\ Performs(d)
       \/ UNCHANGED effects
    /\ log' = [log EXCEPT ![d] = Settled(d)]
    /\ UNCHANGED <<hazards, rows, holder, about, verdict>>

-----------------------------------------------------------------------------
(* Confirming a command (RuntimeAssistantCommandService.resolve).          *)

\* "confirmed" and the row of the execution are flushed, not committed.
Confirm(d) ==
    /\ Moves(d, "read", "confirming")
    /\ verdict[d] = "confirm" /\ InTime(d)
    /\ Free(d)
    /\ holder' = [holder EXCEPT ![about[d]] = d]
    /\ UNCHANGED <<hazards, rows, about, verdict, log, effects>>

\* The handler of the command, which may commit what was flushed.
Handle(d) ==
    /\ \/ Moves(d, "confirming", "performed") /\ Performs(d)
       \/ Moves(d, "confirming", "refused") /\ UNCHANGED effects
    /\ \/ /\ Write(d, "confirmed")
          /\ log' = [log EXCEPT ![d] = "running"]
       \/ UNCHANGED <<hazards, rows, holder, about, verdict, log>>

\* Mutant: a command that failed is left as the handler committed it.
OutcomeOfSuccess(d) == IF pc[d] = "performed" THEN "executed" ELSE "confirmed"

Outcome(d) == IF pc[d] = "performed" THEN "executed" ELSE "failed"

Mark(d) ==
    /\ pc[d] \in {"performed", "refused"}
    /\ Write(d, Outcome(d))
    /\ log' = [log EXCEPT ![d] = IF pc[d] = "performed" THEN "succeeded" ELSE "failed"]
    /\ pc' = [pc EXCEPT ![d] = "done"]
    /\ UNCHANGED effects

\* The process dies or the session is lost: what was not committed is gone.
Abort(d) ==
    /\ Exposed("abort")
    /\ ~ Idle(d)
    /\ pc' = [pc EXCEPT ![d] = "done"]
    /\ holder' = [c \in Ids |-> IF holder[c] = d THEN None ELSE holder[c]]
    /\ UNCHANGED <<hazards, rows, about, verdict, log, effects>>

-----------------------------------------------------------------------------
DecideStep(d) ==
    \/ Late(d) \/ Reject(d) \/ Cancel(d) \/ Deny(d)
    \/ Approve(d) \/ Start(d) \/ Call(d)
    \/ Confirm(d) \/ Handle(d) \/ Mark(d)

DecideNext ==
    \/ \E d \in Deciders : DecideStep(d) \/ Abort(d)
    \/ \E d \in Deciders, c \in Ids, v \in Verdicts : Read(d, c, v)
    \/ \E c \in Ids : Expire(c)

ConfirmationsNext == DecideNext \/ \E c \in Ids, k \in Kinds : Request(c, k)

ConfirmationsSpec == ConfirmationsInit /\ [][ConfirmationsNext]_confirmationVars

\* Requests that are under way go on: providers and the database answer or
\* time out.
DecideFairness == \A d \in Deciders : WF_confirmationVars(DecideStep(d))

-----------------------------------------------------------------------------
(* Properties.                                                             *)

\* As long as requests do not overlap, what was refused is never performed
\* and an action is performed at most once, even if processes die; a command
\* is too, unless one does: it is performed before its row is final.
PerformedAsDecided ==
    ~ Exposed("race") =>
        \A c \in Ids :
            /\ kind[c] = "action" => effects[c] <= 1
            /\ ~ Exposed("abort") => effects[c] <= 1
            /\ status[c] \in Refusals /\ kind[c] = "action" => effects[c] = 0
            /\ status[c] \in {"expired", "permission_denied"} /\ ~ Exposed("abort") => effects[c] = 0

\* A command whose handler has committed the confirmation does not stay
\* "confirmed", although the row is free and others may write it meanwhile.
ConfirmedIsSettled ==
    \A c \in Ids :
        status[c] = "confirmed" /\ ~ Exposed("abort") ~> status[c] # "confirmed"

\* "the result is persisted with its request identifier": an execution that
\* has ended is not left as running.
ExecutionsSettle ==
    \A d \in Deciders : log[d] = "running" ~> log[d] # "running" \/ Exposed("abort")
=============================================================================
