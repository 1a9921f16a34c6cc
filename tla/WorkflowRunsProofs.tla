------------------------- MODULE WorkflowRunsProofs -------------------------
(***************************************************************************)
(* What runs and turns ask for is performed as it was decided, for any     *)
(* number of confirmations, of requests that decide them, of attempts and  *)
(* of steps in a plan.                                                     *)
(***************************************************************************)
EXTENDS WorkflowRuns, FiniteSetTheorems, TLAPS

-----------------------------------------------------------------------------
(* The table of confirmations.                                             *)

Stages == {"idle", "read", "approved", "started", "confirming", "performed", "refused", "done"}

DecideTypes ==
    /\ hazards \subseteq HazardKinds
    /\ status \in [Ids -> Statuses \cup {None}]
    /\ kind \in [Ids -> Kinds]
    /\ effects \in [Ids -> Nat]
    /\ pc \in [Deciders -> Stages]
    /\ about \in [Deciders -> Ids \cup {None}]
    /\ verdict \in [Deciders -> Verdicts \cup {None}]

\* A request under way decides a row that exists, and only a command is
\* confirmed; nothing is performed that was never asked for.
Deciding ==
    /\ \A c \in Ids : effects[c] > 0 => Exists(c)
    /\ \A d \in Deciders : ~ Idle(d) =>
          /\ about[d] \in Ids /\ Exists(about[d])
          /\ verdict[d] \in CommandVerdicts => kind[about[d]] = "command"
          /\ pc[d] \in {"confirming", "performed", "refused"} => verdict[d] = "confirm"

\* Without a race one request is under way, and the row is as it read it or
\* wrote it.
Where(d) ==
    LET st == status[about[d]] IN
    /\ pc[d] \in {"read", "confirming"} => st = "pending"
    /\ pc[d] \in {"approved", "started"} => st = "succeeded"
    /\ pc[d] \in {"performed", "refused"} => st \in {"pending", "confirmed"}

OneDecides ==
    /\ \A d, o \in Deciders : ~ Idle(d) /\ ~ Idle(o) => d = o
    /\ \A d \in Deciders : ~ Idle(d) => Where(d)

\* Then an action is performed once, after its approval.
ActionOnce ==
    \A c \in Ids : kind[c] = "action" =>
        /\ effects[c] <= 1
        /\ effects[c] = 1 => status[c] = "succeeded"
        /\ \A d \in Deciders :
              pc[d] \in {"approved", "started"} /\ about[d] = c => effects[c] = 0

\* And a command is performed once and marked, unless a process dies.
CommandOnce ==
    \A c \in Ids : kind[c] = "command" =>
        /\ effects[c] <= 1
        /\ effects[c] = 1 => \/ status[c] = "executed"
                             \/ \E d \in Deciders : pc[d] = "performed" /\ about[d] = c
        /\ \A d \in Deciders :
              pc[d] \in {"confirming", "refused"} /\ about[d] = c => effects[c] = 0

DecideInv ==
    /\ DecideTypes
    /\ Deciding
    /\ ~ Exposed("race") => OneDecides /\ ActionOnce
    /\ ~ Exposed("race") /\ ~ Exposed("abort") => CommandOnce

LEMMA DecideInit == ConfirmationsInit => DecideInv
BY ConfirmationsOK
   DEF ConfirmationsInit, DecideInv, DecideTypes, Deciding, OneDecides, ActionOnce, CommandOnce,
       Where, Kinds, Stages, Idle, Exists

\* A new row is pending, and nobody decides it yet.
LEMMA RequestKeeps ==
    ASSUME DecideInv, NEW c \in Ids, NEW k \in Kinds, Request(c, k)
    PROVE  DecideInv'
<1>1. /\ ~ Exists(c) /\ status' = [status EXCEPT ![c] = "pending"] /\ kind' = [kind EXCEPT ![c] = k]
      /\ UNCHANGED <<hazards, pc, about, verdict, effects>>
  BY DEF Request, requests
<1>2. "pending" # None /\ "pending" \in Statuses
  BY ConfirmationsOK DEF Statuses
<1>3. DecideTypes'
  BY <1>1, <1>2 DEF DecideInv, DecideTypes
<1>4. effects[c] = 0 /\ \A d \in Deciders : ~ Idle(d) => about[d] # c
  BY <1>1 DEF DecideInv, DecideTypes, Deciding
<1>5. /\ status'[c] = "pending" /\ kind'[c] = k
      /\ \A b \in Ids : b # c => status'[b] = status[b] /\ kind'[b] = kind[b]
  BY <1>1 DEF DecideInv, DecideTypes
<1>6. \A d \in Deciders : ~ Idle(d) => status'[about[d]] = status[about[d]] /\ kind'[about[d]] = kind[about[d]]
  BY <1>4, <1>5 DEF DecideInv, Deciding
<1>7. Deciding'
  BY <1>1, <1>2, <1>4, <1>5, <1>6 DEF DecideInv, Deciding, Exists, Idle
<1>8. OneDecides => OneDecides'
  BY <1>1, <1>6 DEF OneDecides, Where, Idle
<1>9. ActionOnce => ActionOnce'
  BY <1>1, <1>4, <1>5 DEF ActionOnce
<1>10. CommandOnce => CommandOnce'
  BY <1>1, <1>4, <1>5 DEF CommandOnce
<1> QED
  BY <1>1, <1>3, <1>7, <1>8, <1>9, <1>10 DEF DecideInv, Exposed

\* How a request, its row and the count of effects go together, without a
\* race; and for a command, if no process dies either.
Orderly(label, k, st, m) ==
    /\ label \in {"read", "confirming"} => st = "pending"
    /\ label \in {"approved", "started"} => st = "succeeded"
    /\ label \in {"performed", "refused"} => st \in {"pending", "confirmed"}
    /\ k = "action" =>
          /\ m <= 1
          /\ m = 1 => st = "succeeded"
          /\ label \in {"approved", "started"} => m = 0

Marked(label, k, st, m) ==
    k = "command" =>
        /\ m <= 1
        /\ m = 1 => st = "executed" \/ label = "performed"
        /\ label \in {"confirming", "refused"} => m = 0

LEMMA RowOf ==
    ASSUME DecideInv, NEW d \in Deciders, ~ Idle(d)
    PROVE  LET c == about[d] IN
           /\ c \in Ids /\ status[c] \in Statuses /\ effects[c] \in Nat /\ kind[c] \in Kinds
           /\ verdict[d] \in CommandVerdicts => kind[c] = "command"
           /\ pc[d] \in {"confirming", "performed", "refused"} => verdict[d] = "confirm"
           /\ ~ Exposed("race") => Orderly(pc[d], kind[c], status[c], effects[c])
           /\ ~ Exposed("race") /\ ~ Exposed("abort") => Marked(pc[d], kind[c], status[c], effects[c])
<1> DEFINE c == about[d]
<1>1. /\ c \in Ids /\ status[c] \in Statuses /\ effects[c] \in Nat /\ kind[c] \in Kinds
      /\ verdict[d] \in CommandVerdicts => kind[c] = "command"
      /\ pc[d] \in {"confirming", "performed", "refused"} => verdict[d] = "confirm"
  BY DEF DecideInv, DecideTypes, Deciding, Exists
<1>2. ~ Exposed("race") => Orderly(pc[d], kind[c], status[c], effects[c])
  BY <1>1 DEF DecideInv, OneDecides, ActionOnce, Where, Orderly
<1>3. ASSUME ~ Exposed("race"), ~ Exposed("abort"), kind[c] = "command"
      PROVE  Marked(pc[d], kind[c], status[c], effects[c])
  <2>1. \A o \in Deciders : pc[o] = "performed" => o = d
    BY <1>3 DEF DecideInv, OneDecides, Idle
  <2> QED
    BY <1>1, <1>3, <2>1 DEF DecideInv, CommandOnce, Marked
<1>4. kind[c] # "command" => Marked(pc[d], kind[c], status[c], effects[c])
  BY DEF Marked
<1> QED
  BY <1>1, <1>2, <1>3, <1>4

\* One step of one request on the row it decides keeps the invariant if what
\* it leaves is in order again.
LEMMA DecideMoves ==
    ASSUME DecideInv, NEW d \in Deciders, ~ Idle(d), NEW c \in Ids, c = about[d],
           NEW label \in Stages \ {"read"}, NEW st \in Statuses, NEW m \in Nat,
           pc' = [pc EXCEPT ![d] = label],
           status' = [status EXCEPT ![c] = st],
           effects' = [effects EXCEPT ![c] = m],
           UNCHANGED <<hazards, kind, about, verdict>>,
           label \in {"confirming", "performed", "refused"} => verdict[d] = "confirm",
           ~ Exposed("race") => Orderly(label, kind[c], st, m),
           ~ Exposed("race") /\ ~ Exposed("abort") => Marked(label, kind[c], st, m)
    PROVE  DecideInv'
<1>1. kind[c] \in Kinds
  BY RowOf
<1>3. /\ pc'[d] = label /\ status'[c] = st /\ effects'[c] = m
      /\ \A o \in Deciders : o # d => pc'[o] = pc[o]
      /\ \A b \in Ids : b # c => status'[b] = status[b] /\ effects'[b] = effects[b]
  BY DEF DecideInv, DecideTypes
<1>4. st # None
  BY ConfirmationsOK
<1>5. DecideTypes'
  BY DEF DecideInv, DecideTypes
<1>6. Deciding'
  BY <1>3, <1>4 DEF DecideInv, Deciding, Exists, Idle
<1>7. ASSUME ~ Exposed("race") PROVE OneDecides'
  <2>1. \A o \in Deciders : o # d => Idle(o) /\ Idle(o)'
    BY <1>3, <1>7 DEF DecideInv, OneDecides, Idle
  <2>2. Where(d)'
    BY <1>3, <1>7 DEF Where, Orderly
  <2> QED
    BY <2>1, <2>2 DEF OneDecides
<1>8. ASSUME ~ Exposed("race") PROVE ActionOnce'
  <2>1. \A o \in Deciders : o # d => pc'[o] \notin {"approved", "started"}
    BY <1>3, <1>7, <1>8 DEF DecideInv, OneDecides, Idle
  <2>2. kind[c] = "action" => m <= 1 /\ (m = 1 => st = "succeeded")
                              /\ (label \in {"approved", "started"} => m = 0)
    BY <1>8 DEF Orderly
  <2>3. ASSUME NEW b \in Ids, kind'[b] = "action"
        PROVE  /\ effects'[b] <= 1 /\ (effects'[b] = 1 => status'[b] = "succeeded")
               /\ \A o \in Deciders :
                     pc'[o] \in {"approved", "started"} /\ about'[o] = b => effects'[b] = 0
    <3>1. CASE b = c
      BY <1>3, <2>1, <2>2, <2>3, <3>1
    <3>2. CASE b # c
      BY <1>3, <1>8, <2>1, <2>3, <3>2 DEF DecideInv, ActionOnce
    <3> QED
      BY <3>1, <3>2
  <2> QED
    BY <2>3 DEF ActionOnce
<1>9. ASSUME ~ Exposed("race"), ~ Exposed("abort") PROVE CommandOnce'
  <2>1. \A o \in Deciders : o # d => Idle(o) /\ pc'[o] = pc[o]
    BY <1>3, <1>9 DEF DecideInv, OneDecides
  <2>2. kind[c] = "command" => m <= 1 /\ (m = 1 => st = "executed" \/ label = "performed")
                               /\ (label \in {"confirming", "refused"} => m = 0)
    BY <1>9 DEF Marked
  <2>3. ASSUME NEW b \in Ids, kind'[b] = "command"
        PROVE  /\ effects'[b] <= 1
               /\ effects'[b] = 1 => \/ status'[b] = "executed"
                                     \/ \E o \in Deciders : pc'[o] = "performed" /\ about'[o] = b
    <3>1. CASE b = c
      BY <1>3, <2>2, <2>3, <3>1
    <3>2. CASE b # c
      <4>1. \A o \in Deciders : ~ (pc[o] = "performed" /\ about[o] = b)
        BY <2>1, <3>2 DEF Idle
      <4>2. effects[b] <= 1 /\ (effects[b] = 1 => status[b] = "executed")
        BY <1>9, <2>3, <4>1 DEF DecideInv, CommandOnce
      <4> QED
        BY <1>3, <3>2, <4>2
    <3> QED
      BY <3>1, <3>2
  <2>4. ASSUME NEW o \in Deciders, pc'[o] \in {"confirming", "refused"}, kind'[about'[o]] = "command"
        PROVE  effects'[about'[o]] = 0
    BY <1>3, <2>1, <2>2, <2>4 DEF Idle
  <2> QED
    BY <2>3, <2>4 DEF CommandOnce
<1> QED
  BY <1>5, <1>6, <1>7, <1>8, <1>9 DEF DecideInv, Exposed

LEMMA DecideStepKeeps ==
    ASSUME DecideInv, NEW d \in Deciders, DecideStep(d)
    PROVE  DecideInv'
<1> USE DEF Moves
<1>0. ~ Idle(d)
  BY DEF DecideStep, Idle, Late, Reject, Cancel, Deny, Approve, Start, Call, Confirm, Handle, Mark
<1>c. PICK c \in Ids : c = about[d]
  BY <1>0, RowOf
<1>n. PICK n \in Nat : n = effects[c]
  BY <1>0, <1>c, RowOf
<1>s. PICK s \in Statuses : s = status[c]
  BY <1>0, <1>c, RowOf
<1>f. status = [status EXCEPT ![c] = s] /\ effects = [effects EXCEPT ![c] = n]
  BY <1>n, <1>s DEF DecideInv, DecideTypes
<1>k. /\ kind[c] \in Kinds
      /\ verdict[d] \in CommandVerdicts => kind[c] = "command"
      /\ pc[d] \in {"confirming", "performed", "refused"} => verdict[d] = "confirm"
  BY <1>0, <1>c, RowOf
<1>r. ~ Exposed("race") => Orderly(pc[d], kind[c], s, n)
  BY <1>0, <1>c, <1>n, <1>s, RowOf
<1>a. ~ Exposed("race") /\ ~ Exposed("abort") => Marked(pc[d], kind[c], s, n)
  BY <1>0, <1>c, <1>n, <1>s, RowOf
\* The decision.
<1>1. ASSUME NEW st \in Statuses, NEW label \in {"approved", "done"},
             Moves(d, "read", label), Write(d, st), UNCHANGED effects,
             label = "approved" => st = "succeeded" /\ verdict[d] = "approve"
      PROVE  DecideInv'
  <2>1. /\ pc[d] = "read" /\ pc' = [pc EXCEPT ![d] = label]
        /\ status' = [status EXCEPT ![c] = st] /\ effects' = [effects EXCEPT ![c] = n]
        /\ UNCHANGED <<hazards, kind, about, verdict>>
    BY <1>c, <1>f, <1>1 DEF Write
  <2>2. label \in Stages \ {"read"} /\ label \notin {"confirming", "performed", "refused"}
    BY <1>1 DEF Stages
  <2>3. ~ Exposed("race") => Orderly(label, kind[c], st, n)
    BY <1>r, <1>1, <2>1 DEF Orderly
  <2>4. ~ Exposed("race") /\ ~ Exposed("abort") => Marked(label, kind[c], st, n)
    BY <1>a, <1>r, <1>1, <2>1 DEF Marked, Orderly
  <2> QED
    BY <1>0, <1>c, <2>1, <2>2, <2>3, <2>4, DecideMoves
<1>2. CASE Late(d)
  BY <1>1, <1>2 DEF Late, Statuses, Refusals
<1>3. CASE Reject(d) \/ Cancel(d) \/ Deny(d) \/ Approve(d)
  BY <1>1, <1>3 DEF Reject, Cancel, Deny, Approve, Statuses, Refusals
\* The execution of an approved action.
<1>4. CASE Start(d)
  <2>1. /\ pc[d] = "approved" /\ pc' = [pc EXCEPT ![d] = "started"]
        /\ status' = [status EXCEPT ![c] = s] /\ effects' = [effects EXCEPT ![c] = n]
        /\ UNCHANGED <<hazards, kind, about, verdict>>
    BY <1>f, <1>4 DEF Start, rows
  <2>2. "started" \in Stages \ {"read"}
    BY DEF Stages
  <2>3. ~ Exposed("race") => Orderly("started", kind[c], s, n)
    BY <1>r, <2>1 DEF Orderly
  <2>4. ~ Exposed("race") /\ ~ Exposed("abort") => Marked("started", kind[c], s, n)
    BY <1>a, <2>1 DEF Marked
  <2> QED
    BY <1>0, <1>c, <2>1, <2>2, <2>3, <2>4, DecideMoves
<1>5. CASE Call(d)
  <2>1. /\ pc[d] = "started" /\ pc' = [pc EXCEPT ![d] = "done"]
        /\ status' = [status EXCEPT ![c] = s]
        /\ UNCHANGED <<hazards, kind, about, verdict>>
    BY <1>f, <1>5 DEF Call, rows
  <2>2. PICK m \in {n, n + 1} : /\ effects' = [effects EXCEPT ![c] = m]
                                /\ m = n + 1 => kind[c] = "action"
    BY <1>c, <1>f, <1>n, <1>5 DEF Call, Performs
  <2>3. m \in Nat /\ "done" \in Stages \ {"read"}
    BY DEF Stages
  <2>4. ~ Exposed("race") => Orderly("done", kind[c], s, m)
    BY <1>r, <2>1, <2>2 DEF Orderly
  <2>5. ~ Exposed("race") /\ ~ Exposed("abort") => Marked("done", kind[c], s, m)
    BY <1>a, <2>1, <2>2 DEF Marked
  <2> QED
    BY <1>0, <1>c, <2>1, <2>2, <2>3, <2>4, <2>5, DecideMoves
\* The confirmation of a command.
<1>6. CASE Confirm(d)
  <2>1. /\ pc[d] = "read" /\ pc' = [pc EXCEPT ![d] = "confirming"] /\ verdict[d] = "confirm"
        /\ status' = [status EXCEPT ![c] = s] /\ effects' = [effects EXCEPT ![c] = n]
        /\ UNCHANGED <<hazards, kind, about, verdict>>
    BY <1>f, <1>6 DEF Confirm, rows
  <2>2. kind[c] = "command" /\ "confirming" \in Stages \ {"read"}
    BY <1>k, <2>1 DEF CommandVerdicts, Stages
  <2>3. ~ Exposed("race") => Orderly("confirming", kind[c], s, n)
    BY <1>r, <2>1, <2>2 DEF Orderly
  <2>4. ~ Exposed("race") /\ ~ Exposed("abort") => Marked("confirming", kind[c], s, n)
    BY <1>a, <1>r, <2>1 DEF Marked, Orderly
  <2> QED
    BY <1>0, <1>c, <2>1, <2>2, <2>3, <2>4, DecideMoves
<1>7. CASE Handle(d)
  <2>1. PICK m \in {n, n + 1}, label \in {"performed", "refused"} :
           /\ pc[d] = "confirming" /\ pc' = [pc EXCEPT ![d] = label]
           /\ effects' = [effects EXCEPT ![c] = m]
           /\ m = n + 1 <=> label = "performed"
    <3>1. CASE Moves(d, "confirming", "performed") /\ Performs(d)
      BY <1>c, <1>n, <3>1 DEF Performs
    <3>2. CASE Moves(d, "confirming", "refused") /\ UNCHANGED effects
      BY <1>f, <1>n, <3>2
    <3> QED
      BY <1>7, <3>1, <3>2 DEF Handle
  <2>2. PICK st \in {s, "confirmed"} : status' = [status EXCEPT ![c] = st]
    BY <1>c, <1>f, <1>7 DEF Handle, Write, rows
  <2>3. UNCHANGED <<hazards, kind, about, verdict>>
    BY <1>7 DEF Handle, Write, rows
  <2>4. kind[c] = "command" /\ verdict[d] = "confirm"
    BY <1>k, <2>1 DEF CommandVerdicts
  <2>5. m \in Nat /\ st \in Statuses /\ label \in Stages \ {"read"}
    BY <2>1, <2>2 DEF Stages, Statuses
  <2>6. ~ Exposed("race") => Orderly(label, kind[c], st, m)
    BY <1>r, <2>1, <2>2, <2>4 DEF Orderly
  <2>7. ~ Exposed("race") /\ ~ Exposed("abort") => Marked(label, kind[c], st, m)
    BY <1>a, <2>1, <2>2, <2>4 DEF Marked
  <2> QED
    BY <1>0, <1>c, <2>1, <2>2, <2>3, <2>4, <2>5, <2>6, <2>7, DecideMoves
<1>8. CASE Mark(d)
  <2>1. PICK st \in {"executed", "failed"} :
           /\ status' = [status EXCEPT ![c] = st]
           /\ pc[d] = "performed" => st = "executed"
    BY <1>c, <1>8 DEF Mark, Write, Outcome
  <2>2. /\ pc[d] \in {"performed", "refused"} /\ pc' = [pc EXCEPT ![d] = "done"]
        /\ effects' = [effects EXCEPT ![c] = n]
        /\ UNCHANGED <<hazards, kind, about, verdict>>
    BY <1>f, <1>8 DEF Mark, Write
  <2>3. kind[c] = "command" /\ "done" \in Stages \ {"read"} /\ st \in Statuses
    BY <1>k, <2>1, <2>2 DEF CommandVerdicts, Stages, Statuses, Refusals
  <2>4. ~ Exposed("race") => Orderly("done", kind[c], st, n)
    BY <2>3 DEF Orderly
  <2>5. ~ Exposed("race") /\ ~ Exposed("abort") => Marked("done", kind[c], st, n)
    BY <1>a, <1>r, <2>1, <2>2, <2>3 DEF Marked, Orderly
  <2> QED
    BY <1>0, <1>c, <2>1, <2>2, <2>3, <2>4, <2>5, DecideMoves
<1> QED
  BY <1>2, <1>3, <1>4, <1>5, <1>6, <1>7, <1>8 DEF DecideStep

\* A request reads a pending row, or dies, or a row expires.
LEMMA ReadKeeps ==
    ASSUME DecideInv, NEW d \in Deciders, NEW c \in Ids, NEW v \in Verdicts, Read(d, c, v)
    PROVE  DecideInv'
<1>1. /\ pc[d] = "idle" /\ status[c] = "pending"
      /\ pc' = [pc EXCEPT ![d] = "read"] /\ about' = [about EXCEPT ![d] = c]
      /\ verdict' = [verdict EXCEPT ![d] = v]
      /\ UNCHANGED <<hazards, status, kind, effects>>
      /\ v \in CommandVerdicts => kind[c] = "command"
      /\ ~ Exposed("race") => \A o \in Deciders : o # d => Idle(o)
  BY DEF Read, Decidable, rows, Others
<1>2. /\ pc'[d] = "read" /\ about'[d] = c /\ verdict'[d] = v
      /\ \A o \in Deciders : o # d => pc'[o] = pc[o] /\ about'[o] = about[o] /\ verdict'[o] = verdict[o]
  BY <1>1 DEF DecideInv, DecideTypes
<1>3. DecideTypes'
  BY <1>1 DEF DecideInv, DecideTypes, Stages
<1>4. "pending" # None
  BY ConfirmationsOK DEF Statuses
<1>5. Deciding'
  BY <1>1, <1>2, <1>4 DEF DecideInv, Deciding, Exists, Idle
<1>6. ~ Exposed("race") /\ OneDecides => OneDecides'
  BY <1>1, <1>2 DEF OneDecides, Where, Idle
<1>7. ActionOnce => ActionOnce'
  BY <1>1, <1>2 DEF ActionOnce
<1>8. ASSUME CommandOnce PROVE CommandOnce'
  <2>1. \A b \in Ids : \A o \in Deciders :
          pc[o] = "performed" /\ about[o] = b => pc'[o] = "performed" /\ about'[o] = b
    BY <1>1, <1>2
  <2> QED
    BY <1>1, <1>2, <1>8, <2>1 DEF CommandOnce
<1> QED
  BY <1>1, <1>3, <1>5, <1>6, <1>7, <1>8 DEF DecideInv, Exposed

LEMMA AbortKeeps ==
    ASSUME DecideInv, NEW d \in Deciders, Abort(d)
    PROVE  DecideInv'
<1>1. /\ Exposed("abort") /\ pc' = [pc EXCEPT ![d] = "done"]
      /\ UNCHANGED <<hazards, status, kind, effects, about, verdict>>
  BY DEF Abort, rows
<1>2. pc'[d] = "done" /\ \A o \in Deciders : o # d => pc'[o] = pc[o]
  BY <1>1 DEF DecideInv, DecideTypes
<1>3. DecideTypes'
  BY <1>1 DEF DecideInv, DecideTypes, Stages
<1>4. Deciding'
  BY <1>1, <1>2 DEF DecideInv, Deciding, Exists, Idle
<1>5. OneDecides => OneDecides'
  BY <1>1, <1>2 DEF OneDecides, Where, Idle
<1>6. ActionOnce => ActionOnce'
  BY <1>1, <1>2 DEF ActionOnce
<1> QED
  BY <1>1, <1>3, <1>4, <1>5, <1>6 DEF DecideInv, Exposed

LEMMA DecideUnchanged ==
    ASSUME DecideInv, UNCHANGED <<hazards, status, kind, effects, pc, about, verdict>>
    PROVE  DecideInv'
BY DEF DecideInv, DecideTypes, Deciding, OneDecides, ActionOnce, CommandOnce, Where, Exposed, Exists, Idle

LEMMA DecideNextKeeps ==
    ASSUME DecideInv, DecideNext
    PROVE  DecideInv'
<1>1. CASE \E d \in Deciders : DecideStep(d) \/ Abort(d)
  BY <1>1, DecideStepKeeps, AbortKeeps
<1>2. CASE \E d \in Deciders, c \in Ids, v \in Verdicts : Read(d, c, v)
  BY <1>2, ReadKeeps
<1>3. CASE \E c \in Ids : Expire(c)
  BY <1>3, DecideUnchanged DEF Expire, requests
<1> QED
  BY <1>1, <1>2, <1>3 DEF DecideNext

LEMMA DecidedIsPerformed == DecideInv => PerformedAsDecided
<1> SUFFICES ASSUME DecideInv, ~ Exposed("race"), NEW c \in Ids
             PROVE  /\ kind[c] = "action" => effects[c] <= 1
                    /\ ~ Exposed("abort") => effects[c] <= 1
                    /\ status[c] \in Refusals /\ kind[c] = "action" => effects[c] = 0
                    /\ status[c] \in {"expired", "permission_denied"} /\ ~ Exposed("abort") => effects[c] = 0
  BY DEF PerformedAsDecided
<1>1. effects[c] \in Nat /\ kind[c] \in {"action", "command"}
  BY DEF DecideInv, DecideTypes, Kinds
<1>2. kind[c] = "action" => effects[c] <= 1 /\ (effects[c] = 1 => status[c] = "succeeded")
  BY DEF DecideInv, ActionOnce
<1>3. ASSUME ~ Exposed("abort"), kind[c] = "command"
      PROVE  /\ effects[c] <= 1
             /\ status[c] \in {"expired", "permission_denied"} => effects[c] = 0
  <2>1. \A d \in Deciders : pc[d] = "performed" /\ about[d] = c => status[c] \in {"pending", "confirmed"}
    BY DEF DecideInv, OneDecides, Where, Idle
  <2> QED
    BY <1>1, <1>3, <2>1 DEF DecideInv, CommandOnce
<1> QED
  BY <1>1, <1>2, <1>3 DEF Refusals

\* No row of the table goes away, or appears by a decision.
LEMMA RowsStay ==
    ASSUME DecideInv, DecideNext, NEW c \in Ids
    PROVE  Exists(c)' <=> Exists(c)
<1>1. CASE \E d \in Deciders, b \in Ids, v \in Verdicts : Read(d, b, v)
  BY <1>1 DEF Read, rows, Exists
<1>2. CASE \E b \in Ids : Expire(b)
  BY <1>2 DEF Expire, Exists
<1>3. CASE \E d \in Deciders : Abort(d)
  BY <1>3 DEF Abort, rows, Exists
<1>4. ASSUME NEW d \in Deciders, DecideStep(d) PROVE Exists(c)' <=> Exists(c)
  <2>1. ~ Idle(d)
    BY <1>4 DEF DecideStep, Idle, Moves, Late, Reject, Cancel, Deny, Approve, Start, Call, Confirm, Handle, Mark
  <2>2. Exists(about[d]) /\ None \notin Statuses
    BY <2>1, RowOf, ConfirmationsOK DEF Exists
  <2>3. ASSUME NEW st \in Statuses, Write(d, st) PROVE Exists(c)' <=> Exists(c)
    BY <2>2, <2>3 DEF Write, Exists, DecideInv, DecideTypes
  <2>4. CASE UNCHANGED status
    BY <2>4 DEF Exists
  <2>5. UNCHANGED status \/ \E st \in Statuses : Write(d, st)
    BY <1>4 DEF DecideStep, Late, Reject, Cancel, Deny, Approve, Start, Call, Confirm, Handle, Mark,
                rows, Outcome, Statuses, Refusals
  <2> QED
    BY <2>3, <2>4, <2>5
<1> QED
  BY <1>1, <1>2, <1>3, <1>4 DEF DecideNext

-----------------------------------------------------------------------------
(* Runs and turns.                                                         *)

WorkTypes ==
    /\ source \in Sources
    /\ plan \in Seq(StepKinds)
    /\ at \in [Attempts -> {"none", "queued", "running", "ended"}]
    /\ next \in [Attempts -> Nat \ {0}]
    /\ asked \in [Attempts -> SUBSET Ids]
    /\ outcome \in [Attempts -> {"none", "running", "failed", "completed", "blocked", "answered"}]

WritesBefore(n) == {i \in DOMAIN plan : i < n /\ plan[i] = "write"}

\* An attempt has asked for one row per write it has passed.
AskedPer(a) ==
    /\ \A c \in asked[a] : Exists(c)
    /\ IsFiniteSet(asked[a])
    /\ Cardinality(asked[a]) = Cardinality(WritesBefore(next[a]))

\* It says how it ended only after its last step.
Told(a) ==
    /\ outcome[a] \in {"completed", "blocked"} => IsLast(a)
    /\ outcome[a] = "completed" => asked[a] = {}
    /\ outcome[a] = "answered" => source = "chat"

\* Every row was asked for, once.
AskedOnce ==
    /\ \A c \in Ids : Exists(c) => \E a \in Attempts : c \in asked[a]
    /\ \A a, b \in Attempts : a # b => asked[a] \cap asked[b] = {}

\* Attempts follow one another, unless a client sends a turn twice.
Sequential ==
    ~ Exposed("race") \/ source # "chat" =>
        \A a, b \in Attempts : a < b /\ at[b] # "none" => at[a] = "ended"

\* One attempt answers: the others find its answer, or were cut off.
Answers(a) == at[a] = "running" \/ outcome[a] = "answered"

OneAnswer ==
    source = "chat" /\ ~ Exposed("race") =>
        \A a, b \in Attempts : Answers(a) /\ Answers(b) => a = b

NotCut ==
    ~ Exposed("abort") =>
        \A a \in Attempts :
            /\ source = "chat" /\ asked[a] # {} => Answers(a)
            /\ source # "chat" /\ (at[a] # "none" \/ asked[a] # {}) => a = 1

WorkInv ==
    /\ WorkTypes
    /\ \A a \in Attempts : AskedPer(a) /\ Told(a)
    /\ AskedOnce
    /\ Sequential
    /\ OneAnswer
    /\ NotCut

LEMMA PlanIsFinite ==
    ASSUME WorkTypes, NEW n
    PROVE  IsFiniteSet(WritesBefore(n)) /\ IsFiniteSet({i \in DOMAIN plan : plan[i] = "write"})
<1>1. DOMAIN plan = 1..Len(plan) /\ Len(plan) \in Nat
  BY DEF WorkTypes
<1>2. IsFiniteSet(DOMAIN plan)
  BY <1>1, FS_Interval
<1> QED
  BY <1>2, FS_Subset DEF WritesBefore

LEMMA WorkInit == Init => WorkInv
<1> SUFFICES ASSUME Init PROVE WorkInv
  OBVIOUS
<1>1. WorkTypes
  BY PlansOK DEF Init, WorkTypes
<1>2. \A a \in Attempts : WritesBefore(next[a]) = {}
  BY <1>1 DEF Init, WorkTypes, WritesBefore
<1>3. \A a \in Attempts : asked[a] = {} /\ outcome[a] = "none"
  BY DEF Init
<1>4. \A a \in Attempts : AskedPer(a) /\ Told(a)
  BY <1>2, <1>3, FS_EmptySet DEF AskedPer, Told
<1>5. AskedOnce
  BY <1>3 DEF AskedOnce, Init, ConfirmationsInit, Exists
<1>6. \A a \in Attempts : (at[a] = "none" <=> a # 1) /\ at[a] # "running"
  BY DEF Init
<1>7. Sequential
  BY <1>6, PlansOK DEF Sequential
<1>8. OneAnswer /\ NotCut
  BY <1>3, <1>6 DEF OneAnswer, NotCut, Answers
<1> QED
  BY <1>1, <1>4, <1>5, <1>7, <1>8 DEF WorkInv

\* A decision changes neither the work nor which rows exist.
LEMMA WorkSame ==
    ASSUME WorkInv, UNCHANGED <<hazards, work>>, \A c \in Ids : Exists(c)' <=> Exists(c)
    PROVE  WorkInv'
<1>1. WorkTypes' /\ Sequential' /\ OneAnswer' /\ NotCut'
  BY DEF WorkInv, work, WorkTypes, Sequential, OneAnswer, NotCut, Answers, Exposed
<1>2. AskedOnce'
  BY DEF WorkInv, work, AskedOnce
<1>3. ASSUME NEW a \in Attempts PROVE AskedPer(a)' /\ Told(a)'
  <2>1. WritesBefore(next[a])' = WritesBefore(next[a])
    BY DEF work, WritesBefore
  <2>2. asked[a] \subseteq Ids
    BY DEF WorkInv, WorkTypes
  <2> QED
    BY <2>1, <2>2 DEF WorkInv, work, AskedPer, Told, IsLast
<1> QED
  BY <1>1, <1>2, <1>3 DEF WorkInv

Reports == {"none", "running", "failed", "completed", "blocked", "answered"}

\* An attempt that is under way holds the others back, as long as attempts
\* follow one another.
LEMMA Sequence ==
    ASSUME WorkInv, NEW a \in Attempts, at[a] \in {"queued", "running"},
           at' \in [Attempts -> {"none", "queued", "running", "ended"}],
           at'[a] # "none",
           \A b \in Attempts : b # a => at'[b] = at[b],
           UNCHANGED <<hazards, source>>
    PROVE  Sequential'
<1> SUFFICES ASSUME ~ Exposed("race") \/ source # "chat",
                    NEW b \in Attempts, NEW c \in Attempts, b < c, at'[c] # "none"
             PROVE  at'[b] = "ended"
  BY DEF Sequential, Exposed
<1>1. \A x, y \in Attempts : x < y /\ at[y] # "none" => at[x] = "ended"
  BY DEF WorkInv, Sequential
<1>2. b # a
  BY <1>1
<1> QED
  BY <1>1, <1>2

\* One step of one attempt that asks for no row.
LEMMA WorkMoves ==
    ASSUME WorkInv, NEW a \in Attempts, at[a] \in {"queued", "running"},
           NEW to \in {"running", "ended"}, NEW o \in Reports, NEW n \in Nat \ {0},
           UNCHANGED <<hazards, status, source, plan, asked>>,
           at' = [at EXCEPT ![a] = to],
           outcome' = [outcome EXCEPT ![a] = o],
           next' = [next EXCEPT ![a] = n],
           n = next[a] \/ (n = next[a] + 1 /\ ~ IsLast(a) /\ plan[next[a]] # "write"),
           o # outcome[a] =>
              /\ o \in {"completed", "blocked"} => IsLast(a)
              /\ o = "completed" => asked[a] = {}
              /\ o = "answered" => source = "chat",
           source = "chat" =>
              /\ to = "running" \/ o = "answered" => Answers(a) \/ ~ Found
              /\ Answers(a) => to = "running" \/ o = "answered"
    PROVE  WorkInv'
<1>1. /\ at'[a] = to /\ outcome'[a] = o /\ next'[a] = n
      /\ \A b \in Attempts : b # a => at'[b] = at[b] /\ outcome'[b] = outcome[b] /\ next'[b] = next[b]
  BY DEF WorkInv, WorkTypes
<1>2. WorkTypes'
  BY DEF WorkInv, WorkTypes, Reports
<1>3. ASSUME NEW b \in Attempts PROVE AskedPer(b)' /\ Told(b)'
  <2>1. next[b] \in Nat /\ next'[b] \in Nat /\ Len(plan) \in Nat /\ plan \in Seq(StepKinds)
    BY <1>2 DEF WorkInv, WorkTypes
  <2>2. WritesBefore(next[b])' = WritesBefore(next[b])
    <3>1. CASE next'[b] = next[b]
      BY <3>1 DEF WritesBefore
    <3>2. CASE next'[b] # next[b]
      <4>1. next'[b] = next[b] + 1 /\ plan[next[b]] # "write"
        BY <1>1, <3>2
      <4>2. \A i \in Nat : i < next'[b] <=> i < next[b] \/ i = next[b]
        BY <2>1, <4>1
      <4>3. DOMAIN plan \subseteq Nat
        BY <2>1
      <4> QED
        BY <4>1, <4>2, <4>3 DEF WritesBefore
    <3> QED
      BY <3>1, <3>2
  <2>3. next'[b] >= next[b] /\ (IsLast(b) => IsLast(b)')
    BY <1>1, <2>1 DEF IsLast
  <2>4. AskedPer(b)'
    BY <2>2 DEF WorkInv, AskedPer, Exists
  <2>5. Told(b)'
    BY <1>1, <2>3 DEF WorkInv, Told
  <2> QED
    BY <2>4, <2>5
<1>4. AskedOnce'
  BY DEF WorkInv, AskedOnce, Exists
<1>5. Sequential'
  BY <1>1, <1>2, Sequence DEF WorkTypes
<1>6. OneAnswer'
  <2> SUFFICES ASSUME source = "chat", ~ Exposed("race"),
                      NEW b \in Attempts, NEW c \in Attempts, Answers(b)', Answers(c)', b # c
               PROVE  FALSE
    BY DEF OneAnswer, Exposed
  <2>1. \A x \in Attempts : x # a => at[x] # "running"
    BY PlansOK DEF WorkInv, Sequential
  <2>2. \A x \in Attempts : x # a /\ Answers(x)' => outcome[x] = "answered"
    BY <1>1, <2>1 DEF Answers
  <2>3. \A x \in Attempts : x # a /\ Answers(x)' => Found
    BY <2>2 DEF Found, Answered
  <2>4. Answers(a)' => Answers(a) \/ ~ Found
    BY <1>1 DEF Answers
  <2>5. \A x, y \in Attempts : Answers(x) /\ Answers(y) => x = y
    BY DEF WorkInv, OneAnswer
  <2> QED
    BY <2>2, <2>3, <2>4, <2>5 DEF Answers
<1>7. NotCut'
  BY <1>1 DEF WorkInv, NotCut, Answers, Exposed
<1> QED
  BY <1>2, <1>3, <1>4, <1>5, <1>6, <1>7 DEF WorkInv

\* A write that is held is one more row for the attempt that asks.
LEMMA HoldKeeps ==
    ASSUME DecideInv, WorkInv, NEW a \in Attempts, Hold(a)
    PROVE  WorkInv'
<1>1. PICK c \in Ids : /\ Request(c, IF source = "chat" THEN "command" ELSE "action")
                       /\ asked' = [asked EXCEPT ![a] = asked[a] \cup {c}]
  BY DEF Hold
<1>2. /\ at[a] = "running" /\ at' = at /\ UNCHANGED <<hazards, source, plan, outcome>>
      /\ ~ IsLast(a) /\ plan[next[a]] = "write"
      /\ next' = [next EXCEPT ![a] = next[a] + 1]
      /\ ~ Exists(c) /\ status'[c] = "pending"
      /\ \A b \in Ids : b # c => status'[b] = status[b]
  <2>1. at[a] = "running" /\ at' = [at EXCEPT ![a] = "running"] /\ UNCHANGED <<source, plan, outcome>>
    BY DEF Hold, Goes
  <2>2. at' = at
    BY <2>1 DEF WorkInv, WorkTypes
  <2>3. ~ IsLast(a) /\ plan[next[a]] = "write" /\ next' = [next EXCEPT ![a] = next[a] + 1]
    BY DEF Hold, Is, AfterHold
  <2>4. ~ Exists(c) /\ status' = [status EXCEPT ![c] = "pending"] /\ UNCHANGED hazards
    BY <1>1 DEF Request
  <2>5. status \in [Ids -> Statuses \cup {None}]
    BY DEF DecideInv, DecideTypes
  <2> QED
    BY <2>1, <2>2, <2>3, <2>4, <2>5
<1>3. /\ asked'[a] = asked[a] \cup {c} /\ next'[a] = next[a] + 1
      /\ \A b \in Attempts : b # a => asked'[b] = asked[b] /\ next'[b] = next[b]
  BY <1>1, <1>2 DEF WorkInv, WorkTypes
<1>4. WorkTypes'
  BY <1>1, <1>2 DEF WorkInv, WorkTypes
<1>5. \A b \in Ids : Exists(b)' => Exists(b) \/ b = c
  BY <1>2 DEF Exists
<1>6. \A b \in Ids : Exists(b) => Exists(b)'
  BY <1>2, ConfirmationsOK DEF Exists, Statuses
<1>7. \A b \in Attempts : c \notin asked[b] /\ \A x \in asked[b] : x \in Ids /\ Exists(x)'
  BY <1>2, <1>6 DEF WorkInv, WorkTypes, AskedPer
<1>8. ASSUME NEW b \in Attempts PROVE AskedPer(b)' /\ Told(b)'
  <2>1. Told(b)'
    BY <1>2, <1>3 DEF WorkInv, Told, IsLast
  <2>2. CASE b # a
    <3>1. WritesBefore(next[b])' = WritesBefore(next[b])
      BY <1>2, <1>3, <2>2 DEF WritesBefore
    <3> QED
      BY <1>3, <1>7, <2>1, <2>2, <3>1 DEF WorkInv, AskedPer
  <2>3. CASE b = a
    <3> DEFINE n == next[a]
    <3>1. n \in Nat /\ n # 0 /\ Len(plan) \in Nat /\ n <= Len(plan) /\ DOMAIN plan = 1..Len(plan)
      BY <1>2 DEF WorkInv, WorkTypes, IsLast
    <3>2. n \in DOMAIN plan /\ plan[n] = "write" /\ n \notin WritesBefore(n)
      BY <1>2, <3>1 DEF WritesBefore
    <3>3. \A i \in DOMAIN plan : i < n + 1 <=> i < n \/ i = n
      BY <3>1
    <3>4. WritesBefore(n + 1) = WritesBefore(n) \cup {n}
      BY <3>1, <3>2, <3>3 DEF WritesBefore
    <3>5. IsFiniteSet(WritesBefore(n))
      BY PlanIsFinite DEF WorkInv
    <3>6. Cardinality(WritesBefore(n + 1)) = Cardinality(WritesBefore(n)) + 1
      BY <3>2, <3>4, <3>5, FS_AddElement
    <3>7. WritesBefore(next[a])' = WritesBefore(n + 1)
      BY <1>2, <1>3 DEF WritesBefore
    <3>8. IsFiniteSet(asked[a]) /\ c \notin asked[a] /\ Cardinality(asked[a]) = Cardinality(WritesBefore(n))
      BY <1>7 DEF WorkInv, AskedPer
    <3>9. IsFiniteSet(asked'[a]) /\ Cardinality(asked'[a]) = Cardinality(asked[a]) + 1
      <4>1. IsFiniteSet(asked[a] \cup {c}) /\ Cardinality(asked[a] \cup {c}) = Cardinality(asked[a]) + 1
        BY <3>8, FS_AddElement
      <4> QED
        BY <1>3, <4>1
    <3>10. \A x \in asked'[a] : Exists(x)'
      <4>1. Exists(c)'
        BY <1>2, ConfirmationsOK DEF Exists, Statuses
      <4> QED
        BY <1>3, <1>7, <4>1
    <3> QED
      BY <2>1, <2>3, <3>6, <3>7, <3>8, <3>9, <3>10 DEF AskedPer
  <2> QED
    BY <2>2, <2>3
<1>9. AskedOnce'
  <2>1. \A b \in Ids : Exists(b)' => \E x \in Attempts : b \in asked'[x]
    BY <1>3, <1>5 DEF WorkInv, AskedOnce
  <2>2. ASSUME NEW x \in Attempts, NEW y \in Attempts, x # y PROVE asked'[x] \cap asked'[y] = {}
    <3>1. asked[x] \cap asked[y] = {} /\ c \notin asked[x] /\ c \notin asked[y]
      BY <1>7, <2>2 DEF WorkInv, AskedOnce
    <3>2. asked'[x] = asked[x] \/ asked'[y] = asked[y]
      BY <1>3, <2>2
    <3>3. /\ asked'[x] \in {asked[x], asked[x] \cup {c}}
          /\ asked'[y] \in {asked[y], asked[y] \cup {c}}
      BY <1>3
    <3> QED
      BY <3>1, <3>2, <3>3
  <2> QED
    BY <2>1, <2>2 DEF AskedOnce
<1>10. Sequential'
  BY <1>2, <1>4, Sequence DEF WorkTypes
<1>11. OneAnswer'
  BY <1>2 DEF WorkInv, OneAnswer, Answers, Exposed
<1>12. NotCut'
  BY <1>2, <1>3 DEF WorkInv, NotCut, Answers, Exposed
<1> QED
  BY <1>4, <1>8, <1>9, <1>10, <1>11, <1>12 DEF WorkInv

\* Attempts that are made again, or end, without a word.
LEMMA AttemptsMove ==
    ASSUME WorkInv, UNCHANGED <<hazards, status, source, plan, next, asked, outcome>>,
           at' \in [Attempts -> {"none", "queued", "running", "ended"}],
           \A b \in Attempts : at'[b] = "running" => at[b] = "running",
           Exposed("abort") \/ (source = "chat" /\ \A b \in Attempts : at[b] = "running" => at'[b] = "running"),
           Sequential'
    PROVE  WorkInv'
<1>1. WorkTypes'
  BY DEF WorkInv, WorkTypes
<1>2. ASSUME NEW b \in Attempts PROVE AskedPer(b)' /\ Told(b)'
  <2>1. WritesBefore(next[b])' = WritesBefore(next[b])
    BY DEF WritesBefore
  <2> QED
    BY <2>1 DEF WorkInv, AskedPer, Told, Exists, IsLast
<1>3. AskedOnce'
  BY DEF WorkInv, AskedOnce, Exists
<1>4. OneAnswer'
  BY DEF WorkInv, OneAnswer, Answers, Exposed
<1>5. NotCut'
  BY DEF WorkInv, NotCut, Answers, Exposed
<1> QED
  BY <1>1, <1>2, <1>3, <1>4, <1>5 DEF WorkInv

LEMMA RetryKeeps ==
    ASSUME WorkInv, NEW a \in Attempts, Retry(a)
    PROVE  WorkInv'
<1>1. /\ UNCHANGED <<hazards, status, source, plan, next, asked, outcome>>
      /\ source = "chat" /\ at[a] = "none" /\ at' = [at EXCEPT ![a] = "queued"]
      /\ ~ Exposed("race") => \A b \in Attempts : b < a => at[b] = "ended"
  BY DEF Retry, confirmationVars, rows
<1>2. /\ at' \in [Attempts -> {"none", "queued", "running", "ended"}]
      /\ at'[a] = "queued" /\ \A b \in Attempts : b # a => at'[b] = at[b]
  BY <1>1 DEF WorkInv, WorkTypes
<1>3. Sequential'
  <2> SUFFICES ASSUME ~ Exposed("race"), NEW b \in Attempts, NEW c \in Attempts, b < c, at'[c] # "none"
               PROVE  at'[b] = "ended"
    BY <1>1 DEF Sequential, Exposed
  <2>1. \A x, y \in Attempts : x < y /\ at[y] # "none" => at[x] = "ended"
    BY DEF WorkInv, Sequential
  <2>2. CASE c = a
    BY <1>1, <1>2, <2>2, PlansOK
  <2>3. CASE c # a
    BY <1>1, <1>2, <2>1, <2>3
  <2> QED
    BY <2>2, <2>3
<1> QED
  BY <1>1, <1>2, <1>3, AttemptsMove

LEMMA DieKeeps ==
    ASSUME WorkInv, NEW a \in Attempts, Die(a)
    PROVE  WorkInv'
<1>1. /\ UNCHANGED <<hazards, status, source, plan, next, asked, outcome>>
      /\ Exposed("abort") /\ at[a] \in {"queued", "running"}
  BY DEF Die, confirmationVars, rows
<1>2. CASE source = "task"
  <2>1. a + 1 \in Attempts /\ at' = [at EXCEPT ![a] = "ended", ![a + 1] = "queued"]
    BY <1>2 DEF Die, Room, Redelivered
  <2>2. a \in Nat /\ a + 1 # a
    BY PlansOK
  <2>3. /\ at'[a] = "ended" /\ at'[a + 1] = "queued"
        /\ \A b \in Attempts : b # a /\ b # a + 1 => at'[b] = at[b]
        /\ at' \in [Attempts -> {"none", "queued", "running", "ended"}]
    BY <2>1, <2>2 DEF WorkInv, WorkTypes
  <2>4. Sequential'
    <3> SUFFICES ASSUME NEW b \in Attempts, NEW c \in Attempts, b < c, at'[c] # "none"
                 PROVE  at'[b] = "ended"
      BY DEF Sequential
    <3>1. \A x, y \in Attempts : x < y /\ at[y] # "none" => at[x] = "ended"
      BY <1>2 DEF WorkInv, Sequential
    <3>2. b \in Nat /\ c \in Nat
      BY PlansOK
    <3>3. CASE c = a \/ c = a + 1
      <4>1. b = a \/ (b # a + 1 /\ b < a)
        BY <2>2, <3>2, <3>3
      <4> QED
        BY <1>1, <2>3, <3>1, <4>1
    <3>4. CASE c # a /\ c # a + 1
      <4>1. at[c] # "none" /\ at[b] = "ended"
        BY <2>3, <3>1, <3>4
      <4>2. ~ (a < c) /\ b # a
        BY <1>1, <3>1, <4>1
      <4>3. b # a + 1
        BY <2>2, <3>2, <4>2
      <4> QED
        BY <2>3, <4>1, <4>2, <4>3
    <3> QED
      BY <3>3, <3>4
  <2> QED
    BY <1>1, <2>3, <2>4, AttemptsMove
<1>3. CASE source # "task"
  <2>1. at' = [at EXCEPT ![a] = "ended"]
    BY <1>3 DEF Die
  <2>2. /\ at' \in [Attempts -> {"none", "queued", "running", "ended"}]
        /\ at'[a] = "ended" /\ \A b \in Attempts : b # a => at'[b] = at[b]
    BY <2>1 DEF WorkInv, WorkTypes
  <2>3. Sequential'
    BY <1>1, <2>2, Sequence
  <2> QED
    BY <1>1, <2>2, <2>3, AttemptsMove
<1> QED
  BY <1>2, <1>3

LEMMA WorkStepKeeps ==
    ASSUME DecideInv, WorkInv, NEW a \in Attempts, WorkStep(a)
    PROVE  WorkInv'
<1>n. PICK n \in Nat \ {0} : n = next[a]
  BY DEF WorkInv, WorkTypes
<1>o. PICK o \in Reports : o = outcome[a]
  BY DEF WorkInv, WorkTypes, Reports
<1>f. next = [next EXCEPT ![a] = n] /\ outcome = [outcome EXCEPT ![a] = o]
  BY <1>n, <1>o DEF WorkInv, WorkTypes
<1>k. UNCHANGED confirmationVars => UNCHANGED <<hazards, status>>
  BY DEF confirmationVars, rows
<1>1. CASE Refuse(a)
  <2>1. /\ at[a] = "queued" /\ at' = [at EXCEPT ![a] = "ended"] /\ source # "chat"
        /\ UNCHANGED <<hazards, status, source, plan, asked>>
        /\ next' = [next EXCEPT ![a] = n] /\ outcome' = [outcome EXCEPT ![a] = o]
    BY <1>f, <1>k, <1>1 DEF Refuse, Goes
  <2> QED
    BY <1>n, <1>o, <2>1, WorkMoves
<1>2. CASE Begin(a)
  <2>1. /\ at[a] = "queued" /\ at' = [at EXCEPT ![a] = "running"] /\ source # "chat"
        /\ UNCHANGED <<hazards, status, source, plan, asked>>
        /\ next' = [next EXCEPT ![a] = n] /\ outcome' = [outcome EXCEPT ![a] = "running"]
    BY <1>f, <1>k, <1>2 DEF Begin, Goes
  <2>2. "running" \in Reports
    BY DEF Reports
  <2> QED
    BY <1>n, <2>1, <2>2, WorkMoves
<1>3. CASE Perform(a)
  <2>1. PICK m \in Nat \ {0} : m = n + 1
    OBVIOUS
  <2>2. /\ at[a] = "running" /\ at' = [at EXCEPT ![a] = "running"]
        /\ UNCHANGED <<hazards, status, source, plan, asked>>
        /\ next' = [next EXCEPT ![a] = m] /\ outcome' = [outcome EXCEPT ![a] = o]
        /\ ~ IsLast(a) /\ plan[next[a]] # "write"
    BY <1>n, <1>f, <1>k, <1>3, <2>1 DEF Perform, Goes, Advance, Is
  <2>3. Answers(a)
    BY <2>2 DEF Answers
  <2> QED
    BY <1>n, <1>o, <2>1, <2>2, <2>3, WorkMoves
<1>4. CASE Fail(a)
  <2>1. /\ at[a] = "running" /\ at' = [at EXCEPT ![a] = "ended"] /\ source # "chat"
        /\ UNCHANGED <<hazards, status, source, plan, asked>>
        /\ next' = [next EXCEPT ![a] = n] /\ outcome' = [outcome EXCEPT ![a] = "failed"]
    BY <1>f, <1>k, <1>4 DEF Fail, Goes
  <2>2. "failed" \in Reports
    BY DEF Reports
  <2> QED
    BY <1>n, <2>1, <2>2, WorkMoves
<1>5. CASE Hold(a)
  BY <1>5, HoldKeeps
<1>6. CASE Finish(a)
  <2>1. PICK m \in {"completed", "blocked"} : m = Verdict(a)
    BY DEF Verdict
  <2>2. /\ at[a] = "running" /\ at' = [at EXCEPT ![a] = "ended"] /\ source # "chat" /\ IsLast(a)
        /\ UNCHANGED <<hazards, status, source, plan, asked>>
        /\ next' = [next EXCEPT ![a] = n] /\ outcome' = [outcome EXCEPT ![a] = m]
    BY <1>f, <1>k, <1>6, <2>1 DEF Finish, Goes
  <2>3. m \in Reports /\ (m = "completed" => asked[a] = {})
    BY <2>1 DEF Reports, Verdict
  <2> QED
    BY <1>n, <2>1, <2>2, <2>3, WorkMoves
<1>7. CASE Replay(a)
  <2>1. /\ at[a] = "queued" /\ at' = [at EXCEPT ![a] = "ended"]
        /\ UNCHANGED <<hazards, status, source, plan, asked>>
        /\ next' = [next EXCEPT ![a] = n] /\ outcome' = [outcome EXCEPT ![a] = o]
    BY <1>f, <1>k, <1>7 DEF Replay, Goes
  <2>2. Answers(a) <=> o = "answered"
    BY <1>o, <2>1 DEF Answers
  <2> QED
    BY <1>n, <1>o, <2>1, <2>2, WorkMoves
<1>8. CASE Turn(a)
  <2>1. /\ at[a] = "queued" /\ at' = [at EXCEPT ![a] = "running"] /\ ~ Found
        /\ UNCHANGED <<hazards, status, source, plan, asked>>
        /\ next' = [next EXCEPT ![a] = n] /\ outcome' = [outcome EXCEPT ![a] = o]
    BY <1>f, <1>k, <1>8 DEF Turn, Goes
  <2> QED
    BY <1>n, <1>o, <2>1, WorkMoves
<1>9. CASE Answer(a)
  <2>1. /\ at[a] = "running" /\ at' = [at EXCEPT ![a] = "ended"] /\ source = "chat"
        /\ UNCHANGED <<hazards, status, source, plan, asked>>
        /\ next' = [next EXCEPT ![a] = n] /\ outcome' = [outcome EXCEPT ![a] = "answered"]
    BY <1>f, <1>k, <1>9 DEF Answer, Goes
  <2>2. "answered" \in Reports /\ Answers(a)
    BY <2>1 DEF Reports, Answers
  <2> QED
    BY <1>n, <2>1, <2>2, WorkMoves
<1> QED
  BY <1>1, <1>2, <1>3, <1>4, <1>5, <1>6, <1>7, <1>8, <1>9 DEF WorkStep

\* What a step of the work does to the table of confirmations.
LEMMA WorkDecides ==
    ASSUME DecideInv, NEW a \in Attempts, WorkStep(a) \/ Retry(a) \/ Die(a)
    PROVE  DecideInv'
<1>1. UNCHANGED confirmationVars \/ \E c \in Ids, k \in Kinds : Request(c, k)
  BY DEF WorkStep, Retry, Die, Refuse, Begin, Perform, Fail, Hold, Finish, Replay, Turn, Answer, Kinds
<1>2. CASE UNCHANGED confirmationVars
  BY <1>2, DecideUnchanged DEF confirmationVars, rows, requests
<1> QED
  BY <1>1, <1>2, RequestKeeps

RunsInv == DecideInv /\ WorkInv

LEMMA RunsInvariant == Spec => []RunsInv
<1>1. Init => RunsInv
  BY DecideInit, WorkInit DEF Init, RunsInv
<1>2. RunsInv /\ [Next]_vars => RunsInv'
  <2> SUFFICES ASSUME RunsInv, [Next]_vars PROVE RunsInv'
    OBVIOUS
  <2> USE DEF RunsInv
  <2>1. CASE UNCHANGED vars
    BY <2>1, DecideUnchanged, WorkSame DEF vars, confirmationVars, rows, requests, Exists
  <2>2. CASE DecideNext /\ UNCHANGED work
    <3>1. UNCHANGED hazards
      BY <2>2 DEF DecideNext, DecideStep, Late, Reject, Cancel, Deny, Approve, Start, Call, Confirm,
                  Handle, Mark, Write, Abort, Read, Expire
    <3> QED
      BY <2>2, <3>1, DecideNextKeeps, RowsStay, WorkSame
  <2>3. ASSUME NEW a \in Attempts, WorkStep(a) PROVE RunsInv'
    BY <2>3, WorkDecides, WorkStepKeeps
  <2>4. ASSUME NEW a \in Attempts, Retry(a) \/ Die(a) PROVE RunsInv'
    BY <2>4, WorkDecides, RetryKeeps, DieKeeps
  <2> QED
    BY <2>1, <2>2, <2>3, <2>4 DEF Next
<1> QED
  BY <1>1, <1>2, PTL DEF Spec

-----------------------------------------------------------------------------
(* Theorems.                                                               *)

\* What was refused is never performed and nothing is performed twice, as
\* long as requests do not overlap, and for commands as long as no process
\* dies (services/actions/confirmations.py, services/actions/executor.py,
\* services/runtime_assistant/commands.py).
THEOREM RefusedIsNotPerformed == Spec => []PerformedAsDecided
<1>1. RunsInv => PerformedAsDecided
  BY DecidedIsPerformed DEF RunsInv
<1> QED
  BY <1>1, RunsInvariant, PTL

\* A run that reports "blocked" or "completed" asked for all of its writes,
\* and a write that was performed was asked for by exactly one attempt
\* (tasks/workflows.py).
THEOREM NothingIsPerformedUnasked == Spec => []BlockedMeansAsked
<1>1. ASSUME RunsInv PROVE BlockedMeansAsked
  <2>1. ASSUME NEW a \in Attempts
        PROVE  /\ outcome[a] \in {"completed", "blocked"} => Cardinality(asked[a]) = Writes(plan)
               /\ outcome[a] = "completed" => Writes(plan) = 0
    <3>1. /\ Cardinality(asked[a]) = Cardinality(WritesBefore(next[a]))
          /\ outcome[a] \in {"completed", "blocked"} => IsLast(a)
          /\ outcome[a] = "completed" => asked[a] = {}
      BY <1>1 DEF RunsInv, WorkInv, AskedPer, Told
    <3>2. next[a] \in Nat /\ Len(plan) \in Nat /\ DOMAIN plan = 1..Len(plan)
      BY <1>1 DEF RunsInv, WorkInv, WorkTypes
    <3>3. IsLast(a) => \A i \in DOMAIN plan : i < next[a]
      BY <3>2 DEF IsLast
    <3>4. IsLast(a) => WritesBefore(next[a]) = {i \in DOMAIN plan : plan[i] = "write"}
      BY <3>3 DEF WritesBefore
    <3> QED
      BY <3>1, <3>4, FS_EmptySet DEF Writes
  <2>2. \A c \in Ids : effects[c] > 0 => \E a \in Attempts : c \in asked[a]
    BY <1>1 DEF RunsInv, DecideInv, Deciding, WorkInv, AskedOnce
  <2>3. \A a, b \in Attempts : a # b => asked[a] \cap asked[b] = {}
    BY <1>1 DEF RunsInv, WorkInv, AskedOnce
  <2> QED
    BY <2>1, <2>2, <2>3 DEF BlockedMeansAsked
<1> QED
  BY <1>1, RunsInvariant, PTL

\* A turn that is sent again is answered by what the first one saved, and
\* does not propose its command again unless it was cut off
\* (services/runtime_assistant/service.py).
THEOREM TurnsAreAnsweredOnce == Spec => []AnsweredOnce
<1>1. ASSUME RunsInv, ~ Exposed("race") PROVE Cardinality(Answered) <= 1
  <2>1. \A a, b \in Answered : a = b
    BY <1>1 DEF RunsInv, WorkInv, Told, OneAnswer, Answers, Answered
  <2>2. CASE Answered = {}
    BY <2>2, FS_EmptySet
  <2>3. CASE Answered # {}
    <3>1. PICK a \in Answered : TRUE
      BY <2>3
    <3>2. Answered = {a}
      BY <2>1
    <3> QED
      <4>1. Cardinality({a}) = 1
        BY FS_Singleton
      <4> QED
        BY <3>2, <4>1
  <2> QED
    BY <2>2, <2>3
<1>2. ASSUME RunsInv, ~ Exposed("race"), ~ Exposed("abort")
      PROVE  Cardinality(UNION {asked[a] : a \in Attempts}) <= Writes(plan)
  <2> DEFINE writes == {i \in DOMAIN plan : plan[i] = "write"}
  <2>1. ASSUME NEW a \in Attempts
        PROVE  Cardinality(asked[a]) <= Writes(plan) /\ Writes(plan) \in Nat
    <3>1. IsFiniteSet(writes) /\ WritesBefore(next[a]) \subseteq writes
      BY <1>2, PlanIsFinite DEF RunsInv, WorkInv, WritesBefore
    <3>2. Cardinality(WritesBefore(next[a])) <= Cardinality(writes) /\ Cardinality(writes) \in Nat
      BY <3>1, FS_Subset, FS_CardinalityType
    <3> QED
      BY <1>2, <3>2 DEF RunsInv, WorkInv, AskedPer, Writes
  <2>2. \A a, b \in Attempts : asked[a] # {} /\ asked[b] # {} => a = b
    BY <1>2 DEF RunsInv, WorkInv, NotCut, OneAnswer
  <2>3. CASE \E a \in Attempts : asked[a] # {}
    <3>1. PICK a \in Attempts : asked[a] # {}
      BY <2>3
    <3>2. \A b \in Attempts : asked[b] = asked[a] \/ asked[b] = {}
      BY <2>2, <3>1
    <3>3. UNION {asked[b] : b \in Attempts} = asked[a]
      BY <3>2
    <3> QED
      BY <2>1, <3>3
  <2>4. CASE \A a \in Attempts : asked[a] = {}
    <3>1. UNION {asked[b] : b \in Attempts} = {}
      BY <2>4
    <3>2. IsFiniteSet(writes)
      BY <1>2, PlanIsFinite DEF RunsInv, WorkInv
    <3>3. Cardinality(writes) \in Nat
      BY <3>2, FS_CardinalityType
    <3> QED
      BY <3>1, <3>3, FS_EmptySet DEF Writes
  <2> QED
    BY <2>3, <2>4
<1>3. RunsInv => AnsweredOnce
  BY <1>1, <1>2 DEF AnsweredOnce
<1> QED
  BY <1>3, RunsInvariant, PTL
=============================================================================
