----------------------------- MODULE Onboarding -----------------------------
(***************************************************************************)
(* The conversation in which a new user describes a runtime                *)
(* (services/onboarding/engine.py): drafts are opened, resumed, replaced   *)
(* and cancelled, each message is one turn of a language model, at most    *)
(* two questions are asked, and a confirmed draft becomes a runtime.       *)
(*                                                                         *)
(* A request loads the row of its draft, waits for the model, and then     *)
(* writes the columns it changed.  Nothing is locked: what was loaded      *)
(* before the model was called is what the new row is computed from.       *)
(***************************************************************************)
EXTENDS Naturals, FiniteSets, Sequences, SequencesExt

CONSTANTS
    Requests,     \* requests of one user that may be under way
    Sessions,     \* rows of onboarding_sessions, 1..n in order of creation
    Keys,         \* idempotency keys of messages
    Prompts,      \* initial prompts
    Names,        \* names of runtimes
    MaxRuntimes,  \* bound: rows of runtimes
    MaxDrafts,    \* bound: drafts under each set of hazards
    Extractions,  \* the sets of open questions a model may find in a text
    Scenarios,    \* the sets of hazards a behaviour may be exposed to
    Gone,         \* a request of a race that is over
    None          \* no row, no prompt, no key, no question

(***************************************************************************)
(*  "abort"  a process dies, or the model or the database fails it         *)
(*  "race"   requests of the user overlap                                  *)
(*  "stale"  a page that is still open talks about a cancelled draft       *)
(*  "late"   a failed message is tried again after later ones              *)
(***************************************************************************)
HazardKinds == {"abort", "race", "stale", "late"}

\* The questions of AdaptiveClarificationService, in the order in which they
\* are considered.
Priority == <<"primary_function", "connection_ownership", "access_and_actions",
              "tool_permissions", "external_retrieval_policy">>
Questions == ToSet(Priority)

MaxQuestions == 2

ASSUME OnboardingOK ==
    /\ Scenarios \subseteq SUBSET HazardKinds
    /\ Extractions \subseteq SUBSET Questions
    /\ Sessions \subseteq Nat /\ IsFiniteSet(Sessions)
    /\ MaxRuntimes \in Nat
    /\ MaxDrafts \in [Scenarios -> Nat]
    /\ Keys \cap Prompts = {}
    /\ None \notin Keys \cup Prompts \cup Names \cup Questions \cup Nat \cup {Gone}
    /\ Names \cap Nat = {}

Settled  == {"completed", "cancelled"}
Talking  == {"onboarding_started", "clarifying_requirements", "confirming_configuration"}
States   == Talking \cup Settled

\* A turn is a message of the user and its answer, which may be an error.  An
\* initial prompt is the first turn.
Turns   == [key: Keys \cup Prompts, ok: BOOLEAN]
Configs == [asked: SUBSET Questions, pending: Questions \cup {None}, runtime: Nat \cup {None}]
Drafts  == [state: States, turns: Seq(Turns), runtime: Nat \cup {None}, config: Configs]

\* What a request keeps between its transactions: one that opens a draft, one
\* that brings a message and one that completes a draft.
Opening    == [at: {"reset", "look", "model"}, op: {"open"},
               prompt: Prompts \cup {None}, reset: BOOLEAN]
Speaking   == [at: {"model", "search", "ensure", "closing"}, op: {"message"},
               session: Sessions, key: Keys, loaded: Drafts, found: Names \cup Nat \cup {None}]
Completing == [at: {"search", "ensure"}, op: {"complete"},
               session: Sessions, loaded: Drafts, found: Names \cup Nat \cup {None}]

ASSUME NoneOK == {None, Gone} \cap (Drafts \cup Opening \cup Speaking \cup Completing) = {}

VARIABLES
    hazards,    \* what this behaviour is exposed to; never changes
    rows,       \* committed rows of onboarding_sessions
    runtimes,   \* runtimes of the user, in order of creation
    req,        \* what each request does and has loaded, None between requests
    shown       \* auxiliary: the questions asked about each draft

vars == <<hazards, rows, runtimes, req, shown>>

Draft(state, turns, asked, pending, runtime) ==
    [state |-> state, turns |-> turns, runtime |-> runtime,
     config |-> [asked |-> asked, pending |-> pending, runtime |-> runtime]]

PromptOf(row) == IF row.turns = <<>> THEN None ELSE row.turns[1].key

Exposed(h) == h \in hazards
Exists(s)  == rows[s] # None
Active(s)  == Exists(s) /\ rows[s].state \notin Settled
Newest(S)  == CHOOSE s \in S : \A t \in S : t <= s
First(S)   == CHOOSE i \in S : \A j \in S : i <= j
Idle(r)    == req[r] = None
Busy(r)    == req[r] \notin {None, Gone}

Init ==
    /\ hazards \in Scenarios
    /\ rows = [s \in Sessions |-> None]
    /\ runtimes = <<>>
    /\ req = [r \in Requests |-> None]
    /\ shown = [s \in Sessions |-> {}]

\* The user makes one request after the other; in a race, bound: each of the
\* others is made once.
Only == CHOOSE r \in Requests : TRUE

MayStart(r) ==
    /\ Idle(r)
    /\ r = Only \/ Exposed("race")

At(r, stage)   == Busy(r) /\ req[r].at = stage
Enters(r, new) == req' = [req EXCEPT ![r] = new]
Leaves(r)      == Enters(r, IF r = Only THEN None ELSE Gone)

Goes(r, from, to) ==
    /\ At(r, from)
    /\ Enters(r, [req[r] EXCEPT !.at = to])

Ends(r, from) ==
    /\ At(r, from)
    /\ Leaves(r)

-----------------------------------------------------------------------------
(* What a turn makes of a draft.                                           *)

Counted(config) == config.asked \cup ({config.pending} \ {None})

\* Mutant: the last question allowed is not counted.
NextQuestionMore(open, counted) ==
    LET Askable == {i \in DOMAIN Priority : Priority[i] \in open \ counted}
    IN  IF Cardinality(counted) > MaxQuestions \/ Askable = {} THEN None ELSE Priority[First(Askable)]

\* Mutant: a question that was asked is asked again.
NextQuestionAgain(open, counted) ==
    LET Askable == {i \in DOMAIN Priority : Priority[i] \in open}
    IN  IF Cardinality(counted) >= MaxQuestions \/ Askable = {} THEN None ELSE Priority[First(Askable)]

\* next_conversation_question.
NextQuestion(open, counted) ==
    LET Askable == {i \in DOMAIN Priority : Priority[i] \in open \ counted}
    IN  IF Cardinality(counted) >= MaxQuestions \/ Askable = {} THEN None ELSE Priority[First(Askable)]

\* _authorize_and_transition, for the two intents a turn ends with.
StateAfter(q) == IF q = None THEN "confirming_configuration" ELSE "clarifying_requirements"

\* _is_explicit_runtime_confirmation: saying so is not enough before the review.
MayConfirm(state) == state = "confirming_configuration"

\* The state and the configuration after an answer of the model in which it
\* found the questions `open` unanswered.
Answered(config, open) ==
    LET q == NextQuestion(open, Counted(config))
    IN  [state  |-> StateAfter(q),
         config |-> [asked |-> Counted(config) \cup ({q} \ {None}), pending |-> q,
                     runtime |-> config.runtime]]

\* The same when the model could not read the requirements: nothing is
\* configured, the turn is kept as an error that may be retried.
Unread(config) ==
    [state |-> "clarifying_requirements", config |-> [config EXCEPT !.asked = Counted(config)]]

\* The last turn with this key, 0 if there is none.
TurnOf(turns, k) ==
    LET Same == {i \in DOMAIN turns : turns[i].key = k}
    IN  IF Same = {} THEN 0 ELSE Newest(Same)

\* Mutant: a turn that was answered is not recognised.
ReplaysNever(row, k) == FALSE

Replays(row, k) == TurnOf(row.turns, k) > 0 /\ row.turns[TurnOf(row.turns, k)].ok

\* A turn that failed is taken back, and all that was said after it.
Kept(turns, k) == IF TurnOf(turns, k) = 0 THEN turns ELSE SubSeq(turns, 1, TurnOf(turns, k) - 1)

-----------------------------------------------------------------------------
(* Writing.                                                                *)

\* A flush writes the columns that differ from what was loaded.
Flush(row, was, new) ==
    [c \in DOMAIN row |-> IF new[c] = was[c] THEN row[c] ELSE new[c]]

Save(r, s, new) == rows' = [rows EXCEPT ![s] = Flush(rows[s], req[r].loaded, new)]

\* Mutant: the cancelled rows are not committed.
CancelledNone == rows

\* cancel_all_active_by_user
Cancelled == [s \in Sessions |-> IF Active(s) THEN [rows[s] EXCEPT !.state = "cancelled"] ELSE rows[s]]

\* The draft has become the record of a runtime.
CompletedWith(row, id) ==
    [row EXCEPT !.state = "completed", !.runtime = id, !.config.runtime = id]

Fresh == CHOOSE s \in Sessions : ~ Exists(s) /\ \A t \in Sessions : t < s => Exists(t)
Room  == /\ \E s \in Sessions : ~ Exists(s)
         /\ Cardinality({s \in Sessions : Exists(s)}) < MaxDrafts[hazards]

-----------------------------------------------------------------------------
(* Opening a draft (get_or_create_session).                                *)

Open(r, p, reset) ==
    /\ MayStart(r)
    /\ Room
    /\ Enters(r, [at |-> IF reset THEN "reset" ELSE "look", op |-> "open",
                  prompt |-> p, reset |-> reset])
    /\ UNCHANGED <<hazards, rows, runtimes, shown>>

Reset(r) ==
    /\ Goes(r, "reset", "look")
    /\ rows' = Cancelled
    /\ UNCHANGED <<hazards, runtimes, shown>>

ActiveOnes == {s \in Sessions : Active(s)}
Current    == rows[Newest(ActiveOnes)]
Replaced(r) == req[r].prompt # None /\ PromptOf(Current) # req[r].prompt

\* Whoever has a runtime is not asked again: the draft becomes its record,
\* or, without a draft, a record is made unless the last one is.
Skip(r) ==
    /\ Ends(r, "look")
    /\ runtimes # <<>> /\ ~ req[r].reset
    /\ LET completed == Draft("completed", <<>>, {}, None, Len(runtimes))
           last      == {s \in Sessions : Exists(s)}
       IN  rows' = IF ActiveOnes # {}
                   THEN [rows EXCEPT ![Newest(ActiveOnes)] = CompletedWith(Current, Len(runtimes))]
                   ELSE IF ~ Room \/ (last # {} /\ rows[Newest(last)].state = "completed")
                        THEN rows
                        ELSE [rows EXCEPT ![Fresh] = completed]
    /\ UNCHANGED <<hazards, runtimes, shown>>

Resume(r) ==
    /\ Ends(r, "look")
    /\ runtimes = <<>> /\ ~ req[r].reset
    /\ ActiveOnes # {} /\ ~ Replaced(r)
    /\ UNCHANGED <<hazards, rows, runtimes, shown>>

\* A new prompt is a new draft; the one before is cancelled and committed
\* before the model is asked about the new one.
Replace(r) ==
    /\ Goes(r, "look", "model")
    /\ runtimes = <<>> /\ ~ req[r].reset
    /\ ActiveOnes # {} /\ Replaced(r)
    /\ rows' = Cancelled
    /\ UNCHANGED <<hazards, runtimes, shown>>

Prepare(r) ==
    /\ Goes(r, "look", "model")
    /\ req[r].reset \/ (runtimes = <<>> /\ ActiveOnes = {})
    /\ UNCHANGED <<hazards, rows, runtimes, shown>>

NewDraft(p, open) ==
    LET a == Answered([asked |-> {}, pending |-> None, runtime |-> None], open)
    IN  Draft(a.state, <<[key |-> p, ok |-> TRUE]>>, a.config.asked, a.config.pending, None)

NewUnread(p) ==
    Draft("clarifying_requirements", <<[key |-> p, ok |-> TRUE]>>, {}, None, None)

\* The draft is created after the model has answered.
Create(r) ==
    /\ Ends(r, "model")
    /\ req[r].op = "open"
    /\ Room
    /\ LET p == req[r].prompt IN
       \E new \in IF p = None
                  THEN {Draft("onboarding_started", <<>>, {}, None, None)}
                  ELSE {NewUnread(p)} \cup {NewDraft(p, open) : open \in Extractions} :
           /\ rows' = [rows EXCEPT ![Fresh] = new]
           /\ shown' = [shown EXCEPT ![Fresh] = new.config.asked]
    /\ UNCHANGED <<hazards, runtimes>>

-----------------------------------------------------------------------------
(* A message (process_message).                                            *)

\* A page talks about the draft it shows.
Addressed(s) ==
    /\ Exists(s)
    /\ rows[s].state = "cancelled" => Exposed("stale") \/ Exposed("race")

Said(r, ok) == [key |-> req[r].key, ok |-> ok]

\* A client tries a failed message again before it sends the next one.
InOrder(row, k) ==
    LET n == Len(row.turns) IN n > 0 /\ ~ row.turns[n].ok => row.turns[n].key = k

\* A completed draft and a turn that was answered before are only read.
Message(r, s, k) ==
    /\ MayStart(r)
    /\ Addressed(s)
    /\ rows[s].state # "completed"
    /\ ~ Replays(rows[s], k)
    /\ InOrder(rows[s], k) \/ Exposed("late")
    /\ Enters(r, [at |-> "model", op |-> "message", session |-> s, key |-> k,
                  loaded |-> rows[s], found |-> None])
    /\ UNCHANGED <<hazards, rows, runtimes, shown>>

\* The row after a turn, from the draft that was loaded.
Turned(r, outcome, ok) ==
    [req[r].loaded EXCEPT
        !.state  = outcome.state,
        !.turns  = Append(Kept(req[r].loaded.turns, req[r].key), Said(r, ok)),
        !.config = outcome.config]

\* The requirements could not be read: an error that may be tried again.
Misread(r) ==
    /\ Ends(r, "model")
    /\ req[r].op = "message"
    /\ Save(r, req[r].session, Turned(r, Unread(req[r].loaded.config), FALSE))
    /\ UNCHANGED <<hazards, runtimes, shown>>

Turn(r) ==
    /\ Ends(r, "model")
    /\ req[r].op = "message"
    /\ \E open \in Extractions :
          LET outcome == Answered(req[r].loaded.config, open) IN
          /\ Save(r, req[r].session, Turned(r, outcome, TRUE))
          /\ shown' = [shown EXCEPT ![req[r].session] = @ \cup ({outcome.config.pending} \ {None})]
    /\ UNCHANGED <<hazards, runtimes>>

\* An explicit confirmation completes the draft inside the turn.
Confirm(r) ==
    /\ Goes(r, "model", "search")
    /\ req[r].op = "message"
    /\ MayConfirm(req[r].loaded.state)
    /\ UNCHANGED <<hazards, rows, runtimes, shown>>

-----------------------------------------------------------------------------
(* Completing a draft (complete_onboarding, _ensure_onboarding_runtime).   *)

Complete(r, s) ==
    /\ MayStart(r)
    /\ Addressed(s)
    /\ Enters(r, [at |-> "search", op |-> "complete", session |-> s,
                  loaded |-> rows[s], found |-> None])
    /\ UNCHANGED <<hazards, rows, runtimes, shown>>

\* Mutant: names that are taken are not looked for.
NamedNever(n) == {}

Named(n) == {i \in DOMAIN runtimes : runtimes[i].name = n}

Conflict(i, s) == runtimes[i].session # s

\* The runtime of the draft is looked for by its id, then by its name; a
\* name that another draft has taken is refused.
Search(r, n) ==
    /\ At(r, "search")
    /\ LET was     == req[r].loaded
           known   == {was.runtime, was.config.runtime} \ {None}
           first   == First(Named(n))
           Uses(x) == Enters(r, [req[r] EXCEPT !.at = "ensure", !.found = x])
       IN  \/ /\ known # {}
              /\ Uses(IF was.runtime # None THEN was.runtime ELSE was.config.runtime)
           \/ /\ known = {} /\ Named(n) = {}
              /\ Uses(n)
           \/ /\ known = {} /\ Named(n) # {}
              /\ IF Conflict(first, req[r].session) THEN Leaves(r) ELSE Uses(first)
    /\ UNCHANGED <<hazards, rows, runtimes, shown>>

\* The name differs from the one that was agreed, or the owner of one of the
\* connections was not chosen.
Refuse(r) ==
    /\ Ends(r, "search")
    /\ UNCHANGED <<hazards, rows, runtimes, shown>>

\* Runtime and draft are committed together.
Ensure(r) ==
    /\ At(r, "ensure")
    /\ LET make == req[r].found \in Names
           id   == IF make THEN Len(runtimes) + 1 ELSE req[r].found
           new  == CompletedWith(req[r].loaded, id)
       IN  /\ id <= MaxRuntimes
           /\ runtimes' = IF make THEN Append(runtimes, [session |-> req[r].session, name |-> req[r].found])
                                  ELSE runtimes
           /\ Save(r, req[r].session, new)
           /\ IF req[r].op = "message"
              THEN Enters(r, [req[r] EXCEPT !.at = "closing", !.loaded = new])
              ELSE Leaves(r)
    /\ UNCHANGED <<hazards, shown>>

\* The turn that confirmed is saved in a second transaction.
Close(r) ==
    /\ Ends(r, "closing")
    /\ Save(r, req[r].session,
            [req[r].loaded EXCEPT !.turns = Append(Kept(req[r].loaded.turns, req[r].key), Said(r, TRUE))])
    /\ UNCHANGED <<hazards, runtimes, shown>>

-----------------------------------------------------------------------------
\* The process dies, the model is unavailable or the database fails: what was
\* not committed is gone.
Abort(r) ==
    /\ Exposed("abort")
    /\ Busy(r)
    /\ Leaves(r)
    /\ UNCHANGED <<hazards, rows, runtimes, shown>>

Step(r) ==
    \/ Reset(r) \/ Skip(r) \/ Resume(r) \/ Replace(r) \/ Prepare(r) \/ Create(r)
    \/ Turn(r) \/ Misread(r) \/ Confirm(r) \/ \E n \in Names : Search(r, n)
    \/ Refuse(r) \/ Ensure(r) \/ Close(r)

Next ==
    \E r \in Requests :
        \/ Step(r) \/ Abort(r)
        \/ \E p \in Prompts \cup {None}, reset \in BOOLEAN : Open(r, p, reset)
        \/ \E s \in Sessions : Complete(r, s) \/ \E k \in Keys : Message(r, s, k)

Spec == Init /\ [][Next]_vars

\* The user goes on with the conversation.
Converses ==
    \E r \in Requests, s \in ActiveOnes, k \in Keys : Message(r, s, k)

\* Requests go on, the model and the database are there again in the end, and
\* the user does not give up.
FairSpec ==
    /\ Spec
    /\ \A r \in Requests : WF_vars(Step(r))
    /\ SF_vars(Converses)
    /\ <>[][\A r \in Requests : ~ Misread(r) /\ ~ Abort(r)]_vars

-----------------------------------------------------------------------------
(* Properties.                                                             *)

\* Requests that do not overlap ask at most two different questions about a
\* draft, however often turns fail and are tried again.
TwoQuestions ==
    ~ Exposed("race") => \A s \in Sessions : Cardinality(shown[s]) <= MaxQuestions

\* A completed draft has its runtime, and, without overlap, every draft at
\* most one and every name one: retries create no other.
OneRuntimePerDraft ==
    /\ \A s \in Sessions :
        Exists(s) /\ rows[s].state = "completed" => rows[s].runtime \in DOMAIN runtimes
    /\ ~ Exposed("race") =>
        \A i, j \in DOMAIN runtimes :
            i # j => /\ runtimes[i].session # runtimes[j].session
                     /\ runtimes[i].name # runtimes[j].name

\* A user has one active draft at a time, and what was cancelled or completed
\* does not become active again, unless requests overlap or an old page
\* speaks up.
OneActiveDraft ==
    [][~ Exposed("race") /\ ~ Exposed("stale") =>
        /\ Cardinality(ActiveOnes') <= 1
        /\ \A s \in Sessions :
            Exists(s) /\ ~ Active(s) => rows'[s].state = rows[s].state]_vars

\* What was said and answered stays in the conversation.
TurnsKept ==
    [][\A s \in Sessions :
        ~ Exposed("race") /\ ~ Exposed("late") /\ Exists(s) =>
            \A i \in DOMAIN rows[s].turns :
                rows[s].turns[i].ok => rows[s].turns[i] \in ToSet(rows'[s].turns)]_vars

\* A user who is asked about a prompt and goes on answering reaches the review
\* of the draft.
ReviewIsReached ==
    \A s \in Sessions :
        /\ hazards \subseteq {"abort"}
        /\ Active(s)
        /\ PromptOf(rows[s]) \in Prompts
        /\ Len(rows[s].turns) = 1 /\ rows[s].config.pending # None
        ~> ~ Active(s) \/ rows[s].state = "confirming_configuration"

\* "A persisted retryable error removes only that failed turn".
OnlyTheFailedTurn ==
    [][\A s \in Sessions :
        Exists(s) => \A i \in DOMAIN rows[s].turns :
            rows[s].turns[i].ok => rows[s].turns[i] \in ToSet(rows'[s].turns)]_vars
=============================================================================
