-------------------------- MODULE OnboardingProofs --------------------------
(***************************************************************************)
(* What is proved of the onboarding conversation, for any sets of          *)
(* requests, drafts, keys and names and any bounds.                        *)
(*                                                                         *)
(* The actions are first brought into the form in which the invariants     *)
(* see them (Steps).  DraftsInv holds whatever overlaps; SerialInv says    *)
(* that, without overlap, what a request loaded is what the row still is.  *)
(* ActiveInv and TurnsInv are two invariants on top of these.              *)
(***************************************************************************)
EXTENDS Onboarding, TotalsProofs, SequenceTheorems

\* A flush writes the columns that a request changed; those of a row that is
\* still as it was loaded become those of the new one.
Columns == {"state", "turns", "runtime", "config"}

LEMMA FlushFields ==
    ASSUME NEW row \in Drafts, NEW was \in Drafts, NEW new \in Drafts
    PROVE  /\ Flush(row, was, new) \in Drafts
           /\ Flush(row, was, new).state = IF new.state = was.state THEN row.state ELSE new.state
           /\ Flush(row, was, new).turns = IF new.turns = was.turns THEN row.turns ELSE new.turns
           /\ Flush(row, was, new).runtime = IF new.runtime = was.runtime THEN row.runtime ELSE new.runtime
           /\ Flush(row, was, new).config = IF new.config = was.config THEN row.config ELSE new.config
<1>1. DOMAIN row = Columns
  BY DEF Drafts, Columns
<1>2. Flush(row, was, new) = [c \in Columns |-> IF new[c] = was[c] THEN row[c] ELSE new[c]]
  BY <1>1 DEF Flush
<1>3. Flush(row, was, new) = [state   |-> IF new.state = was.state THEN row.state ELSE new.state,
                              turns   |-> IF new.turns = was.turns THEN row.turns ELSE new.turns,
                              runtime |-> IF new.runtime = was.runtime THEN row.runtime ELSE new.runtime,
                              config  |-> IF new.config = was.config THEN row.config ELSE new.config]
  BY <1>2 DEF Columns
<1> QED
  BY <1>3 DEF Drafts

LEMMA FlushSame ==
    ASSUME NEW row \in Drafts, NEW new \in Drafts
    PROVE  Flush(row, row, new) = new
<1>1. DOMAIN row = Columns /\ DOMAIN new = Columns
  BY DEF Drafts, Columns
<1>2. Flush(row, row, new) = [c \in Columns |-> new[c]]
  BY <1>1 DEF Flush
<1>3. new = [c \in Columns |-> new[c]]
  BY DEF Drafts, Columns
<1> QED
  BY <1>2, <1>3

-----------------------------------------------------------------------------
(* What a turn makes of a configuration.                                   *)

\* The questions, in their order, are finitely many.
LEMMA PriorityRange ==
    /\ DOMAIN Priority = 1 .. 5
    /\ \A i \in 1 .. 5 : Priority[i] \in Questions
<1>1. DOMAIN Priority = 1 .. 5
  BY DEF Priority
<1>2. Questions = {Priority[i] : i \in DOMAIN Priority}
  BY DEF Questions, ToSet
<1>3. \A i \in DOMAIN Priority : Priority[i] \in Questions
  BY <1>2, Zenon
<1>4. \A i \in 1 .. 5 : Priority[i] \in Questions
  BY <1>1, <1>3, Zenon
<1> QED
  BY <1>1, <1>4, Zenon

LEMMA QuestionsFinite == IsFiniteSet(Questions)
<1>1. DOMAIN Priority = 1 .. 5
  BY PriorityRange
<1>2. Questions = {Priority[i] : i \in DOMAIN Priority}
  BY DEF Questions, ToSet
<1>3. IsFiniteSet(1 .. 5)
  <2>1. 1 \in Int /\ 5 \in Int
    OBVIOUS
  <2> QED
    BY <2>1, FS_Interval
<1> DEFINE f == [i \in 1 .. 5 |-> Priority[i]]
<1>4. f \in Surjection(1 .. 5, Questions)
  BY <1>1, <1>2 DEF Surjection
<1> HIDE DEF f
<1> QED
  BY <1>3, <1>4, FS_Surjection

\* The next question was not counted before, and is asked only while there is
\* room for one more.
LEMMA NextIsNew ==
    ASSUME NEW open, NEW counted
    PROVE  LET q == NextQuestion(open, counted) IN
           q # None => /\ q \in Questions /\ q \notin counted
                       /\ ~ (Cardinality(counted) >= MaxQuestions)
<1> DEFINE A == {i \in DOMAIN Priority : Priority[i] \in open \ counted}
<1>1. SUFFICES ASSUME NextQuestion(open, counted) # None
               PROVE  /\ NextQuestion(open, counted) \in Questions
                      /\ NextQuestion(open, counted) \notin counted
                      /\ ~ (Cardinality(counted) >= MaxQuestions)
  OBVIOUS
<1>2. /\ A # {} /\ ~ (Cardinality(counted) >= MaxQuestions)
      /\ NextQuestion(open, counted) = Priority[First(A)]
  BY <1>1, Zenon DEF NextQuestion
<1>3. A \subseteq 1 .. 5
  BY PriorityRange
<1>4. PICK i \in A : \A j \in A : i <= j
  <2>1. A \subseteq Nat
    BY <1>3
  <2> HIDE DEF A
  <2> QED
    BY <1>2, <2>1, LeastNat
<1>5. First(A) \in A
  BY <1>4, Zenon DEF First
<1> QED
  BY <1>2, <1>3, <1>5, PriorityRange

\* What was counted are questions.
LEMMA CountedFinite ==
    ASSUME NEW c \in Configs
    PROVE  /\ Counted(c) \subseteq Questions /\ IsFiniteSet(Counted(c))
           /\ Cardinality(Counted(c)) \in Nat
<1>1. Counted(c) \subseteq Questions
  BY DEF Counted, Configs
<1>2. IsFiniteSet(Counted(c))
  BY <1>1, QuestionsFinite, FS_Subset
<1> QED
  BY <1>1, <1>2, FS_CardinalityType

\* The limit on questions, of a draft.
Within(c) == Cardinality(Counted(c)) <= MaxQuestions

\* An answer keeps what was counted and adds the question it asks.
LEMMA AnsweredFields ==
    ASSUME NEW c \in Configs, Within(c), NEW open
    PROVE  LET a == Answered(c, open) IN
           /\ a.state \in Talking /\ a.config \in Configs
           /\ a.config.runtime = c.runtime
           /\ Counted(a.config) = Counted(c) \cup ({a.config.pending} \ {None})
           /\ Within(a.config)
           /\ a.config.asked = Counted(a.config)
<1> DEFINE q == NextQuestion(open, Counted(c))
           n == [asked |-> Counted(c) \cup ({q} \ {None}), pending |-> q, runtime |-> c.runtime]
<1>1. Answered(c, open) = [state |-> StateAfter(q), config |-> n]
  BY Zenon DEF Answered
<1>2. q # None => q \in Questions /\ q \notin Counted(c) /\ ~ (Cardinality(Counted(c)) >= MaxQuestions)
  BY NextIsNew
<1>3. StateAfter(q) \in Talking
  BY DEF StateAfter, Talking
<1> HIDE DEF q
<1>4. n \in Configs
  BY <1>2, CountedFinite DEF Configs
<1>5. Counted(n) = Counted(c) \cup ({q} \ {None}) /\ n.asked = Counted(n)
  BY DEF Counted
<1>6. Within(n)
  <2>1. CASE q = None
    <3>1. Counted(n) = Counted(c)
      BY <2>1, <1>5
    <3> QED
      BY <3>1 DEF Within
  <2>2. CASE q # None
    <3>1. Counted(n) = Counted(c) \cup {q}
      BY <2>2, <1>5
    <3>2. Cardinality(Counted(c) \cup {q}) = Cardinality(Counted(c)) + 1
      BY <2>2, <1>2, CountedFinite, FS_AddElement
    <3> QED
      BY <3>1, <3>2, <1>2, <2>2, CountedFinite DEF Within, MaxQuestions
  <2> QED
    BY <2>1, <2>2
<1>7. n.runtime = c.runtime /\ n.pending = q
  OBVIOUS
<1> HIDE DEF n
<1> QED
  BY <1>1, <1>3, <1>4, <1>5, <1>6, <1>7

\* An answer that could not be read keeps what was counted.
LEMMA UnreadFields ==
    ASSUME NEW c \in Configs, Within(c)
    PROVE  LET u == Unread(c) IN
           /\ u.state \in Talking /\ u.config \in Configs
           /\ u.config.runtime = c.runtime
           /\ Counted(u.config) = Counted(c)
           /\ Within(u.config)
<1> DEFINE n == [c EXCEPT !.asked = Counted(c)]
<1>1. Unread(c) = [state |-> "clarifying_requirements", config |-> n]
  BY DEF Unread
<1>2. n \in Configs /\ n.runtime = c.runtime /\ n.asked = Counted(c) /\ n.pending = c.pending
  BY CountedFinite DEF Configs
<1> HIDE DEF n
<1>3. Counted(n) = Counted(c)
  BY <1>2 DEF Counted
<1> QED
  BY <1>1, <1>2, <1>3 DEF Within, Talking

-----------------------------------------------------------------------------
(* Turns.                                                                  *)

\* The last turn with a key has that key, or no turn has it.
LEMMA TurnOfKey ==
    ASSUME NEW turns \in Seq(Turns), NEW k
    PROVE  /\ TurnOf(turns, k) # 0 => /\ TurnOf(turns, k) \in 1 .. Len(turns)
                                      /\ turns[TurnOf(turns, k)].key = k
           /\ TurnOf(turns, k) = 0 => \A i \in 1 .. Len(turns) : turns[i].key # k
           /\ TurnOf(turns, k) \in 0 .. Len(turns)
<1> DEFINE Same == {i \in DOMAIN turns : turns[i].key = k}
<1>1. DOMAIN turns = 1 .. Len(turns) /\ Len(turns) \in Nat
  BY LenProperties
<1>2. Same \subseteq 1 .. Len(turns) /\ Same \subseteq Nat /\ IsFiniteSet(Same)
  <2>1. Same \subseteq 1 .. Len(turns)
    BY <1>1
  <2>2. IsFiniteSet(1 .. Len(turns))
    BY <1>1, FS_Interval
  <2> QED
    BY <2>1, <2>2, FS_Subset
<1>3. TurnOf(turns, k) = IF Same = {} THEN 0 ELSE Newest(Same)
  BY Zenon DEF TurnOf
<1>4. CASE Same = {}
  <2>1. \A i \in 1 .. Len(turns) : turns[i].key # k
    BY <1>1, <1>4
  <2> QED
    BY <1>1, <1>3, <1>4, <2>1
<1>5. CASE Same # {}
  <2>1. Newest(Same) \in Same
    <3> HIDE DEF Same
    <3>1. \E s \in Same : \A t \in Same : t <= s
      BY <1>2, <1>5, GreatestOf
    <3> QED
      BY <3>1, Zenon DEF Newest
  <2>2. Newest(Same) \in 1 .. Len(turns) /\ turns[Newest(Same)].key = k
    BY <1>2, <2>1
  <2>3. TurnOf(turns, k) = Newest(Same)
    BY <1>3, <1>5
  <2> HIDE DEF Same
  <2> QED
    BY <1>1, <2>2, <2>3
<1> QED
  BY <1>4, <1>5

\* What is kept of a conversation is its beginning.
LEMMA KeptPrefix ==
    ASSUME NEW turns \in Seq(Turns), NEW k
    PROVE  /\ Kept(turns, k) \in Seq(Turns)
           /\ Len(Kept(turns, k)) = IF TurnOf(turns, k) = 0 THEN Len(turns) ELSE TurnOf(turns, k) - 1
           /\ \A i \in 1 .. Len(Kept(turns, k)) : Kept(turns, k)[i] = turns[i]
<1>1. Len(turns) \in Nat
  BY LenProperties
<1>2. CASE TurnOf(turns, k) = 0
  BY <1>1, <1>2 DEF Kept
<1>3. CASE TurnOf(turns, k) # 0
  <2> DEFINE n == TurnOf(turns, k) - 1
  <2>1. n \in 0 .. Len(turns) /\ 1 \in 1 .. Len(turns) + 1 /\ n \in 1 - 1 .. Len(turns)
    BY <1>1, <1>3, TurnOfKey
  <2>2. Kept(turns, k) = SubSeq(turns, 1, n)
    BY <1>3 DEF Kept
  <2> HIDE DEF n
  <2>3. /\ SubSeq(turns, 1, n) \in Seq(Turns)
        /\ Len(SubSeq(turns, 1, n)) = n
        /\ \A i \in 1 .. n : SubSeq(turns, 1, n)[i] = turns[i]
    BY <2>1, <1>1
  <2>4. n = TurnOf(turns, k) - 1
    BY DEF n
  <2> QED
    BY <1>3, <2>2, <2>3, <2>4
<1> QED
  BY <1>2, <1>3

\* Every turn but the last was answered.
LastMayFail(turns) == \A i \in 1 .. Len(turns) : i < Len(turns) => turns[i].ok

\* When only the last turn may have failed and the next message tries that one
\* again, an answer keeps what was answered.
LEMMA NextTurn ==
    ASSUME NEW turns \in Seq(Turns), NEW k \in Keys, NEW ok \in BOOLEAN,
           LastMayFail(turns),
           ~ (TurnOf(turns, k) > 0 /\ turns[TurnOf(turns, k)].ok),
           Len(turns) > 0 /\ ~ turns[Len(turns)].ok => turns[Len(turns)].key = k
    PROVE  LET next == Append(Kept(turns, k), [key |-> k, ok |-> ok]) IN
           /\ LastMayFail(next)
           /\ \A i \in 1 .. Len(turns) : turns[i].ok => \E j \in 1 .. Len(next) : next[j] = turns[i]
<1> DEFINE kept == Kept(turns, k)
           said == [key |-> k, ok |-> ok]
           next == Append(kept, said)
<1>0. Len(turns) \in Nat /\ \A i \in 1 .. Len(turns) : turns[i] \in Turns
  BY LenProperties
<1>1. /\ kept \in Seq(Turns) /\ Len(kept) \in Nat
      /\ Len(kept) = IF TurnOf(turns, k) = 0 THEN Len(turns) ELSE TurnOf(turns, k) - 1
      /\ \A i \in 1 .. Len(kept) : kept[i] = turns[i]
  BY KeptPrefix, LenProperties
<1>2. said \in Turns
  BY DEF Turns
<1> HIDE DEF kept, said
<1>3. /\ Len(next) = Len(kept) + 1
      /\ \A i \in 1 .. Len(kept) : next[i] = kept[i]
  BY <1>1, <1>2
<1>4. \A i \in 1 .. Len(turns) : turns[i].ok => i \in 1 .. Len(kept)
  <2> SUFFICES ASSUME NEW i \in 1 .. Len(turns), turns[i].ok PROVE i \in 1 .. Len(kept)
    OBVIOUS
  <2>1. CASE TurnOf(turns, k) = 0
    BY <1>1, <2>1
  <2>2. CASE TurnOf(turns, k) # 0
    <3>1. TurnOf(turns, k) \in 1 .. Len(turns) /\ ~ turns[TurnOf(turns, k)].ok
      BY <2>2, TurnOfKey
    <3>2. TurnOf(turns, k) = Len(turns)
      BY <1>0, <3>1 DEF LastMayFail
    <3> QED
      BY <1>0, <1>1, <3>1, <3>2
  <2> QED
    BY <2>1, <2>2
<1>5. \A i \in 1 .. Len(kept) : turns[i].ok
  <2> SUFFICES ASSUME NEW i \in 1 .. Len(kept) PROVE turns[i].ok
    OBVIOUS
  <2>1. TurnOf(turns, k) \in 0 .. Len(turns)
    BY TurnOfKey
  <2>2. CASE i < Len(turns)
    BY <1>0, <1>1, <2>1, <2>2 DEF LastMayFail
  <2>3. CASE i = Len(turns)
    <3>1. TurnOf(turns, k) = 0
      BY <1>0, <1>1, <2>1, <2>3
    <3>2. turns[i].key # k
      BY <1>0, <1>1, <3>1, TurnOfKey
    <3> QED
      BY <1>0, <1>1, <2>3, <3>2
  <2> QED
    BY <1>0, <1>1, <2>1, <2>2, <2>3
<1>6. LastMayFail(next)
  BY <1>1, <1>3, <1>5 DEF LastMayFail
<1>7. \A i \in 1 .. Len(turns) : turns[i].ok => \E j \in 1 .. Len(next) : next[j] = turns[i]
  <2> SUFFICES ASSUME NEW i \in 1 .. Len(turns), turns[i].ok
               PROVE  \E j \in 1 .. Len(next) : next[j] = turns[i]
    OBVIOUS
  <2>1. i \in 1 .. Len(kept) /\ i \in 1 .. Len(next)
    BY <1>1, <1>3, <1>4
  <2> QED
    BY <1>1, <1>3, <2>1
<1> QED
  BY <1>6, <1>7 DEF kept, said

-----------------------------------------------------------------------------
(* Types, and what becomes of a request.                                   *)

Serving == Speaking \cup Completing
Records == Opening \cup Serving

TypeOK ==
    /\ hazards \in Scenarios
    /\ rows \in [Sessions -> Drafts \cup {None}]
    /\ runtimes \in Seq([session: Sessions, name: Names])
    /\ req \in [Requests -> Records \cup {None, Gone}]
    /\ shown \in [Sessions -> SUBSET Questions]
    /\ \A r \in Requests : req[r] \in Serving => Exists(req[r].session)

\* None and Gone are nothing that a row or a request may be.
LEMMA NotRecords ==
    /\ None \notin Drafts /\ None \notin Records /\ Gone \notin Records /\ None # Gone
    /\ Serving \cap Opening = {}
<1>1. None \notin Drafts /\ None \notin Records /\ Gone \notin Records
  BY NoneOK DEF Records, Serving
<1>2. None # Gone
  BY OnboardingOK
<1>3. Serving \cap Opening = {}
  BY DEF Serving, Speaking, Completing, Opening
<1> QED
  BY <1>1, <1>2, <1>3

\* What a request does at a stage.
LEMMA Stages ==
    ASSUME NEW d \in Records
    PROVE  /\ d.at \in {"reset", "look"} => d \in Opening
           /\ d.at \in {"search", "ensure"} => d \in Serving
           /\ d.at = "closing" => d \in Speaking
           /\ d.op = "open" <=> d \in Opening
           /\ d.op = "message" <=> d \in Speaking
           /\ d \in Serving => /\ d.session \in Sessions /\ d.loaded \in Drafts
                               /\ d.op # "open"
BY DEF Records, Serving, Opening, Speaking, Completing

\* A request that opens a draft goes on.
LEMMA OpeningGoes ==
    ASSUME NEW d \in Opening, NEW to \in {"look", "model"}
    PROVE  LET e == [d EXCEPT !.at = to] IN
           e \in Opening /\ e.at = to /\ e.reset = d.reset /\ e.prompt = d.prompt
BY DEF Opening

\* One that serves a draft does, with what it found or has written.
LEMMA ServingGoes ==
    ASSUME NEW d \in Speaking
    PROVE  LET e == [d EXCEPT !.at = "search"] IN
           /\ e \in Speaking /\ e.at = "search" /\ e.session = d.session
           /\ e.loaded = d.loaded /\ e.key = d.key
BY DEF Speaking

LEMMA ServingFinds ==
    ASSUME NEW d \in Serving, NEW x \in Names \cup Nat
    PROVE  LET e == [d EXCEPT !.at = "ensure", !.found = x] IN
           /\ e \in Serving /\ e.at = "ensure" /\ e.found = x
           /\ e.session = d.session /\ e.loaded = d.loaded /\ e.op = d.op
           /\ e \in Speaking <=> d \in Speaking
           /\ d \in Speaking => e.key = d.key
BY DEF Serving, Speaking, Completing

LEMMA ServingWrote ==
    ASSUME NEW d \in Speaking, NEW new \in Drafts
    PROVE  LET e == [d EXCEPT !.at = "closing", !.loaded = new] IN
           /\ e \in Speaking /\ e.at = "closing" /\ e.loaded = new
           /\ e.session = d.session /\ e.key = d.key
BY DEF Speaking

\* How a step finds its request and leaves it.
LEMMA AtStage ==
    ASSUME TypeOK, NEW r \in Requests, NEW stage, At(r, stage)
    PROVE  req[r] \in Records /\ req[r].at = stage
BY DEF TypeOK, At, Busy

LEMMA LeavesEffect ==
    ASSUME NEW r \in Requests, Leaves(r), TypeOK
    PROVE  /\ req' = [req EXCEPT ![r] = req'[r]] /\ req'[r] \in {None, Gone}
           /\ r = Only => req'[r] = None
BY DEF Leaves, Enters, TypeOK

LEMMA EntersEffect ==
    ASSUME TypeOK, NEW r \in Requests, NEW e, Enters(r, e)
    PROVE  req' = [req EXCEPT ![r] = req'[r]] /\ req'[r] = e
BY DEF Enters, TypeOK

\* The draft that is the record of a runtime.
LEMMA CompletedFields ==
    ASSUME NEW row \in Drafts, NEW id \in Nat
    PROVE  LET new == CompletedWith(row, id) IN
           /\ new \in Drafts /\ new.state = "completed" /\ new.turns = row.turns
           /\ new.runtime = id /\ new.config.runtime = id
           /\ Counted(new.config) = Counted(row.config)
<1> DEFINE c == [row.config EXCEPT !.runtime = id]
           new == [row EXCEPT !.state = "completed", !.runtime = id, !.config = c]
<1>1. CompletedWith(row, id) = new
  BY DEF CompletedWith
<1>2. row.config \in Configs
  BY DEF Drafts
<1>3. c \in Configs /\ c.runtime = id /\ c.asked = row.config.asked /\ c.pending = row.config.pending
  BY <1>2 DEF Configs
<1> HIDE DEF c
<1>4. /\ new \in Drafts /\ new.state = "completed" /\ new.turns = row.turns
      /\ new.runtime = id /\ new.config = c
  BY <1>3 DEF Drafts, States, Settled
<1>5. Counted(c) = Counted(row.config)
  BY <1>3 DEF Counted
<1> HIDE DEF new
<1> QED
  BY <1>1, <1>3, <1>4, <1>5

-----------------------------------------------------------------------------
(* The invariant that holds whatever overlaps.                             *)

\* At most two questions were counted; ids are those of runtimes, and a
\* completed draft has one.
RowOK(row, ids) ==
    /\ Within(row.config)
    /\ row.runtime \in {None} \cup ids /\ row.config.runtime \in {None} \cup ids
    /\ row.state = "completed" => row.runtime # None

\* The same of what a request loaded, however old it is; and a draft does not
\* lose its runtime meanwhile.
CopyOK(d, table, ids) ==
    /\ RowOK(d.loaded, ids)
    /\ d.loaded.runtime # None => table[d.session].runtime # None
    /\ d.at = "ensure" => d.found \in Names \cup ids

DraftsInv ==
    /\ TypeOK
    /\ \A s \in Sessions : rows[s] # None => RowOK(rows[s], DOMAIN runtimes)
    /\ \A r \in Requests : req[r] \in Serving => CopyOK(req[r], rows, DOMAIN runtimes)

(***************************************************************************)
(* What the steps do, as far as the invariants tell them apart.            *)
(***************************************************************************)
Moves(r) == req' = [req EXCEPT ![r] = req'[r]]
Quits(r) == Moves(r) /\ req'[r] \in {None, Gone} /\ (r = Only => req'[r] = None)

\* Open, Message, Complete
Begins(r) ==
    /\ Moves(r) /\ req[r] = None /\ (r = Only \/ Exposed("race"))
    /\ UNCHANGED <<hazards, rows, runtimes, shown>>
    /\ \/ /\ req'[r] \in Opening
          /\ req'[r].at # "model" /\ (req'[r].at = "look" => ~ req'[r].reset)
       \/ /\ req'[r] \in Serving
          /\ req'[r].at \in {"model", "search"}
          /\ Exists(req'[r].session) /\ req'[r].loaded = rows[req'[r].session]
          /\ rows[req'[r].session].state = "cancelled" => Exposed("stale") \/ Exposed("race")
          /\ req'[r] \in Speaking =>
                /\ rows[req'[r].session].state # "completed"
                /\ ~ Replays(req'[r].loaded, req'[r].key)
                /\ InOrder(req'[r].loaded, req'[r].key) \/ Exposed("late")

\* Reset, Replace, Prepare
OpensOn(r) ==
    /\ Moves(r) /\ req[r] \in Opening /\ req'[r] \in Opening
    /\ UNCHANGED <<hazards, runtimes, shown>>
    /\ \/ rows' = Cancelled
       \/ /\ rows' = rows
          /\ req[r].at = "look" /\ req'[r].at = "model"
          /\ req[r].reset \/ ActiveOnes = {}

\* Confirm, Search
ServesOn(r) ==
    /\ Moves(r) /\ req[r] \in Serving /\ req'[r] \in Serving
    /\ UNCHANGED <<hazards, rows, runtimes, shown>>
    /\ req'[r].session = req[r].session /\ req'[r].loaded = req[r].loaded
    /\ req'[r] \in Speaking <=> req[r] \in Speaking
    /\ req[r] \in Speaking => req'[r].key = req[r].key
    /\ req[r].at # "closing" /\ req'[r].at \in {"search", "ensure"}
    /\ req'[r].at = "ensure" =>
          /\ req'[r].found \in Names \cup DOMAIN runtimes
          /\ req'[r].found \in Names => Named(req'[r].found) = {} /\ req[r].loaded.runtime = None

\* Resume, Refuse, Abort, Search when the name is taken
QuitsQuietly(r) == Quits(r) /\ UNCHANGED <<hazards, rows, runtimes, shown>>

Skips(r) ==
    /\ Quits(r) /\ UNCHANGED <<hazards, runtimes, shown>>
    /\ req[r] \in Opening
    /\ Len(runtimes) \in DOMAIN runtimes
    /\ \/ rows' = rows
       \/ \E s \in Sessions :
             Active(s) /\ rows' = [rows EXCEPT ![s] = CompletedWith(rows[s], Len(runtimes))]
       \/ /\ ActiveOnes = {}
          /\ \E s \in Sessions, new \in Drafts :
                /\ ~ Exists(s) /\ rows' = [rows EXCEPT ![s] = new]
                /\ new.state = "completed" /\ new.turns = <<>>
                /\ new.runtime = Len(runtimes) /\ new.config.runtime = Len(runtimes)
                /\ Counted(new.config) = {}

Creates(r) ==
    /\ Quits(r) /\ UNCHANGED <<hazards, runtimes>>
    /\ req[r] \in Opening /\ req[r].at = "model"
    /\ \E s \in Sessions, new \in Drafts :
          /\ ~ Exists(s) /\ rows' = [rows EXCEPT ![s] = new]
          /\ shown' = [shown EXCEPT ![s] = new.config.asked]
          /\ new.config.asked \subseteq Counted(new.config) /\ Within(new.config)
          /\ new.state \in Talking /\ new.runtime = None /\ new.config.runtime = None
          /\ LastMayFail(new.turns)

\* Turn, Misread
Speaks(r) ==
    /\ Quits(r) /\ UNCHANGED <<hazards, runtimes>>
    /\ req[r] \in Speaking /\ req[r].at = "model"
    /\ \E new \in Drafts, some \in SUBSET Questions, ok \in BOOLEAN :
          /\ Save(r, req[r].session, new)
          /\ new.state \in Talking /\ new.runtime = req[r].loaded.runtime
          /\ new.config.runtime = req[r].loaded.config.runtime
          /\ Counted(req[r].loaded.config) \subseteq Counted(new.config) /\ Within(new.config)
          /\ some \subseteq Counted(new.config)
          /\ shown' = [shown EXCEPT ![req[r].session] = shown[req[r].session] \cup some]
          /\ new.turns = Append(Kept(req[r].loaded.turns, req[r].key), [key |-> req[r].key, ok |-> ok])

Ensures(r) ==
    /\ UNCHANGED <<hazards, shown>>
    /\ req[r] \in Serving /\ req[r].at = "ensure"
    /\ \E id \in DOMAIN runtimes' :
          /\ Save(r, req[r].session, CompletedWith(req[r].loaded, id))
          /\ \/ /\ req[r].found \in Names
                /\ runtimes' = Append(runtimes, [session |-> req[r].session, name |-> req[r].found])
             \/ req[r].found \notin Names /\ runtimes' = runtimes
          /\ \/ Quits(r)
             \/ /\ Moves(r) /\ req[r] \in Speaking /\ req'[r] \in Speaking
                /\ req'[r].at = "closing" /\ req'[r].loaded = CompletedWith(req[r].loaded, id)
                /\ req'[r].session = req[r].session /\ req'[r].key = req[r].key

Closes(r) ==
    /\ Quits(r) /\ UNCHANGED <<hazards, runtimes, shown>>
    /\ req[r] \in Speaking /\ req[r].at = "closing"
    /\ \E new \in Drafts :
          /\ Save(r, req[r].session, new)
          /\ new.state = req[r].loaded.state /\ new.runtime = req[r].loaded.runtime
          /\ new.config = req[r].loaded.config
          /\ new.turns = Append(Kept(req[r].loaded.turns, req[r].key), [key |-> req[r].key, ok |-> TRUE])

\* Each action is a step of its class.
LEMMA OpenBegins ==
    ASSUME TypeOK, NEW r \in Requests, NEW p \in Prompts \cup {None}, NEW reset \in BOOLEAN,
           Open(r, p, reset)
    PROVE  Begins(r)
<1> DEFINE e == [at |-> IF reset THEN "reset" ELSE "look", op |-> "open",
                 prompt |-> p, reset |-> reset]
<1>1. e \in Opening /\ e.at # "model" /\ (e.at = "look" => ~ e.reset)
  BY DEF Opening
<1>2. Enters(r, e)
  BY DEF Open
<1> HIDE DEF e
<1>3. Moves(r) /\ req'[r] = e
  BY <1>2, EntersEffect DEF Moves
<1> QED
  BY <1>1, <1>3 DEF Open, Begins, MayStart, Idle

LEMMA MessageBegins ==
    ASSUME TypeOK, NEW r \in Requests, NEW s \in Sessions, NEW k \in Keys, Message(r, s, k)
    PROVE  Begins(r)
<1>1. rows[s] \in Drafts /\ Exists(s)
  BY DEF Message, Addressed, Exists, TypeOK
<1>2. PICK d \in Drafts : d = rows[s]
  BY <1>1
<1> DEFINE e == [at |-> "model", op |-> "message", session |-> s, key |-> k,
                 loaded |-> d, found |-> None]
<1>3. e \in Speaking
  BY DEF Speaking
<1>4. e.at = "model" /\ e.session = s /\ e.key = k /\ e.loaded = d
  OBVIOUS
<1>5. Enters(r, e)
  BY <1>2, Zenon DEF Message
<1> HIDE DEF e
<1>6. Moves(r) /\ req'[r] = e
  BY <1>5, EntersEffect DEF Moves
<1>7. /\ Idle(r) /\ (r = Only \/ Exposed("race")) /\ UNCHANGED <<hazards, rows, runtimes, shown>>
      /\ rows[s].state = "cancelled" => Exposed("stale") \/ Exposed("race")
      /\ rows[s].state # "completed" /\ ~ Replays(rows[s], k)
      /\ InOrder(rows[s], k) \/ Exposed("late")
  BY DEF Message, MayStart, Addressed
<1> QED
  BY <1>1, <1>2, <1>3, <1>4, <1>6, <1>7 DEF Begins, Idle, Serving

LEMMA CompleteBegins ==
    ASSUME TypeOK, NEW r \in Requests, NEW s \in Sessions, Complete(r, s)
    PROVE  Begins(r)
<1>1. rows[s] \in Drafts /\ Exists(s)
  BY DEF Complete, Addressed, Exists, TypeOK
<1>2. PICK d \in Drafts : d = rows[s]
  BY <1>1
<1> DEFINE e == [at |-> "search", op |-> "complete", session |-> s, loaded |-> d, found |-> None]
<1>3. e \in Completing /\ e \notin Speaking
  BY DEF Completing, Speaking
<1>4. e.at = "search" /\ e.session = s /\ e.loaded = d
  OBVIOUS
<1>5. Enters(r, e)
  BY <1>2, Zenon DEF Complete
<1> HIDE DEF e
<1>6. Moves(r) /\ req'[r] = e
  BY <1>5, EntersEffect DEF Moves
<1>7. /\ Idle(r) /\ (r = Only \/ Exposed("race")) /\ UNCHANGED <<hazards, rows, runtimes, shown>>
      /\ rows[s].state = "cancelled" => Exposed("stale") \/ Exposed("race")
  BY DEF Complete, MayStart, Addressed
<1> QED
  BY <1>1, <1>2, <1>3, <1>4, <1>6, <1>7 DEF Begins, Idle, Serving

LEMMA OpeningEffect ==
    ASSUME TypeOK, NEW r \in Requests, Reset(r) \/ Replace(r) \/ Prepare(r)
    PROVE  OpensOn(r)
<1>1. ASSUME NEW from \in {"reset", "look"}, NEW to \in {"look", "model"}, Goes(r, from, to)
      PROVE  /\ Moves(r) /\ req[r] \in Opening /\ req'[r] \in Opening
             /\ req[r].at = from /\ req'[r].at = to
  <2>1. req[r] \in Opening /\ req[r].at = from
    BY <1>1, AtStage, Stages DEF Goes
  <2>2. PICK d \in Opening : d = req[r]
    BY <2>1
  <2> DEFINE e == [d EXCEPT !.at = to]
  <2>3. e \in Opening /\ e.at = to
    BY <1>1, OpeningGoes
  <2>4. Enters(r, e)
    BY <1>1, <2>2, Zenon DEF Goes
  <2> HIDE DEF e
  <2> QED
    BY <2>1, <2>3, <2>4, EntersEffect DEF Moves
<1>2. CASE Reset(r)
  BY <1>1, <1>2 DEF Reset, OpensOn
<1>3. CASE Replace(r)
  BY <1>1, <1>3 DEF Replace, OpensOn
<1>4. CASE Prepare(r)
  BY <1>1, <1>4 DEF Prepare, OpensOn
<1> QED
  BY <1>2, <1>3, <1>4

LEMMA QuitsEffect ==
    ASSUME TypeOK, NEW r \in Requests, Leaves(r)
    PROVE  Quits(r)
BY LeavesEffect DEF Quits, Moves

LEMMA ConfirmServes ==
    ASSUME TypeOK, NEW r \in Requests, Confirm(r)
    PROVE  ServesOn(r)
<1>1. req[r] \in Speaking /\ req[r].at = "model"
  BY AtStage, Stages DEF Confirm, Goes
<1>2. PICK d \in Speaking : d = req[r]
  BY <1>1
<1> DEFINE e == [d EXCEPT !.at = "search"]
<1>3. e \in Speaking /\ e.at = "search" /\ e.session = d.session /\ e.loaded = d.loaded /\ e.key = d.key
  BY ServingGoes
<1>4. Enters(r, e)
  BY <1>2, Zenon DEF Confirm, Goes
<1> HIDE DEF e
<1>5. Moves(r) /\ req'[r] = e
  BY <1>4, EntersEffect DEF Moves
<1> QED
  BY <1>1, <1>2, <1>3, <1>5 DEF Confirm, ServesOn, Serving

\* Ids of runtimes are numbers and not names.
LEMMA RuntimeIds ==
    ASSUME TypeOK
    PROVE  /\ Len(runtimes) \in Nat /\ DOMAIN runtimes = 1 .. Len(runtimes)
           /\ \A i \in DOMAIN runtimes : runtimes[i] \in [session: Sessions, name: Names]
           /\ DOMAIN runtimes \subseteq Nat /\ None \notin DOMAIN runtimes
           /\ DOMAIN runtimes \cap Names = {}
<1>1. runtimes \in Seq([session: Sessions, name: Names])
  BY DEF TypeOK
<1>2. Len(runtimes) \in Nat /\ DOMAIN runtimes = 1 .. Len(runtimes)
  BY <1>1, LenProperties
<1>3. \A i \in DOMAIN runtimes : runtimes[i] \in [session: Sessions, name: Names]
  <2> DEFINE T == [session: Sessions, name: Names]
  <2>1. runtimes \in Seq(T)
    BY <1>1
  <2> HIDE DEF T
  <2>2. \A i \in DOMAIN runtimes : runtimes[i] \in T
    BY <2>1, <1>2, LenProperties
  <2> QED
    BY <2>2 DEF T
<1>4. DOMAIN runtimes \subseteq Nat
  BY <1>2
<1>5. None \notin Nat /\ Names \cap Nat = {}
  BY OnboardingOK
<1> QED
  BY <1>2, <1>3, <1>4, <1>5

LEMMA FirstNamed ==
    ASSUME TypeOK, NEW n \in Names, Named(n) # {}
    PROVE  First(Named(n)) \in DOMAIN runtimes
<1>1. Named(n) \subseteq DOMAIN runtimes
  BY DEF Named
<1>2. Named(n) \subseteq Nat
  BY <1>1, RuntimeIds
<1>3. \E i \in Named(n) : \A j \in Named(n) : i <= j
  BY <1>2, LeastNat
<1>4. First(Named(n)) \in Named(n)
  BY <1>3, Zenon DEF First
<1> QED
  BY <1>1, <1>4

LEMMA SearchEffect ==
    ASSUME DraftsInv, NEW r \in Requests, NEW n \in Names, Search(r, n)
    PROVE  ServesOn(r) \/ QuitsQuietly(r)
<1>0. TypeOK
  BY DEF DraftsInv
<1>1. req[r] \in Serving /\ req[r].at = "search"
  BY <1>0, AtStage, Stages DEF Search
<1>2. PICK d \in Serving : d = req[r]
  BY <1>1
<1>3. /\ d.loaded.runtime \in {None} \cup DOMAIN runtimes
      /\ d.loaded.config.runtime \in {None} \cup DOMAIN runtimes
  BY <1>1, <1>2 DEF DraftsInv, CopyOK, RowOK
<1>4. UNCHANGED <<hazards, rows, runtimes, shown>>
  BY DEF Search
<1>5. ASSUME NEW x \in Names \cup DOMAIN runtimes,
             Enters(r, [req[r] EXCEPT !.at = "ensure", !.found = x]),
             x \in Names => Named(x) = {} /\ d.loaded.runtime = None
      PROVE  ServesOn(r)
  <2> DEFINE e == [d EXCEPT !.at = "ensure", !.found = x]
  <2>1. x \in Names \cup Nat
    BY <1>0, RuntimeIds
  <2>2. /\ e \in Serving /\ e.at = "ensure" /\ e.found = x
        /\ e.session = d.session /\ e.loaded = d.loaded /\ e.op = d.op
        /\ e \in Speaking <=> d \in Speaking
        /\ d \in Speaking => e.key = d.key
    BY <2>1, ServingFinds
  <2>3. Enters(r, e)
    BY <1>2, <1>5, Zenon
  <2> HIDE DEF e
  <2>4. Moves(r) /\ req'[r] = e
    BY <1>0, <2>3, EntersEffect DEF Moves
  <2> QED
    BY <1>1, <1>2, <1>4, <1>5, <2>2, <2>4 DEF ServesOn
<1> DEFINE known == {d.loaded.runtime, d.loaded.config.runtime} \ {None}
           Uses(x) == Enters(r, [req[r] EXCEPT !.at = "ensure", !.found = x])
<1>6. \/ known # {} /\ Uses(IF d.loaded.runtime # None THEN d.loaded.runtime ELSE d.loaded.config.runtime)
      \/ known = {} /\ Named(n) = {} /\ Uses(n)
      \/ known = {} /\ Named(n) # {} /\ (Leaves(r) \/ Uses(First(Named(n))))
  BY <1>2, Zenon DEF Search
<1>7. CASE known # {} /\ Uses(IF d.loaded.runtime # None THEN d.loaded.runtime ELSE d.loaded.config.runtime)
  <2>1. PICK x : x = IF d.loaded.runtime # None THEN d.loaded.runtime ELSE d.loaded.config.runtime
    OBVIOUS
  <2>2. x # None /\ x \in {None} \cup DOMAIN runtimes
    BY <1>3, <1>7, <2>1
  <2>3. x \in DOMAIN runtimes /\ x \notin Names
    BY <1>0, <2>2, RuntimeIds
  <2>4. Uses(x)
    BY <1>7, <2>1
  <2> QED
    BY <1>5, <2>3, <2>4
<1>8. CASE known = {} /\ Named(n) = {} /\ Uses(n)
  <2>1. d.loaded.runtime = None
    BY <1>8
  <2> QED
    BY <1>5, <1>8, <2>1
<1>9. CASE known = {} /\ Named(n) # {} /\ (Leaves(r) \/ Uses(First(Named(n))))
  <2>1. CASE Leaves(r)
    BY <1>0, <1>4, <2>1, QuitsEffect DEF QuitsQuietly
  <2>2. CASE Uses(First(Named(n)))
    <3>1. PICK x : x = First(Named(n))
      OBVIOUS
    <3>2. x \in DOMAIN runtimes /\ x \notin Names
      BY <1>0, <1>9, <3>1, FirstNamed, RuntimeIds
    <3>3. Uses(x)
      BY <2>2, <3>1
    <3> QED
      BY <1>5, <3>2, <3>3
  <2> QED
    BY <1>9, <2>1, <2>2
<1> QED
  BY <1>6, <1>7, <1>8, <1>9

-----------------------------------------------------------------------------
(* The steps that write.                                                   *)

\* The draft that is taken up is active, and a new one is new.
LEMMA NewestActive ==
    ASSUME ActiveOnes # {}
    PROVE  Newest(ActiveOnes) \in Sessions /\ Active(Newest(ActiveOnes))
<1>1. ActiveOnes \subseteq Sessions /\ ActiveOnes \subseteq Nat /\ IsFiniteSet(ActiveOnes)
  BY OnboardingOK, FS_Subset DEF ActiveOnes
<1>2. \E s \in ActiveOnes : \A t \in ActiveOnes : t <= s
  BY <1>1, GreatestOf
<1>3. Newest(ActiveOnes) \in ActiveOnes
  BY <1>2, Zenon DEF Newest
<1> QED
  BY <1>3 DEF ActiveOnes

LEMMA FreshIsNew ==
    ASSUME Room
    PROVE  Fresh \in Sessions /\ ~ Exists(Fresh)
<1> DEFINE New == {s \in Sessions : ~ Exists(s)}
<1>1. New # {} /\ New \subseteq Nat
  BY OnboardingOK DEF Room
<1>2. \E s \in New : \A t \in New : s <= t
  <2> HIDE DEF New
  <2> QED
    BY <1>1, LeastNat
<1>3. PICK s \in Sessions : ~ Exists(s) /\ \A t \in New : s <= t
  BY <1>2
<1>4. \A t \in Sessions : t < s => Exists(t)
  <2> SUFFICES ASSUME NEW t \in Sessions, t < s, ~ Exists(t) PROVE FALSE
    OBVIOUS
  <2>1. s <= t
    BY <1>3
  <2>2. s \in Nat /\ t \in Nat
    BY OnboardingOK
  <2> QED
    BY <2>1, <2>2
<1>5. \E u \in Sessions : ~ Exists(u) /\ \A t \in Sessions : t < u => Exists(t)
  BY <1>3, <1>4
<1> QED
  BY <1>5, Zenon DEF Fresh

IsDraft(new, state, turns, asked, pending, id) ==
    /\ new \in Drafts /\ new.state = state /\ new.turns = turns /\ new.runtime = id
    /\ new.config \in Configs /\ new.config.runtime = id
    /\ new.config.asked = asked /\ new.config.pending = pending
    /\ Counted(new.config) = asked \cup ({pending} \ {None})

LEMMA DraftFields ==
    \A state \in States, turns \in Seq(Turns), asked \in SUBSET Questions,
       pending \in Questions \cup {None}, id \in Nat \cup {None} :
       IsDraft(Draft(state, turns, asked, pending, id), state, turns, asked, pending, id)
<1> SUFFICES ASSUME NEW state \in States, NEW turns \in Seq(Turns), NEW asked \in SUBSET Questions,
                    NEW pending \in Questions \cup {None}, NEW id \in Nat \cup {None}
             PROVE  IsDraft(Draft(state, turns, asked, pending, id), state, turns, asked, pending, id)
  BY Zenon
<1> QED
  BY DEF Draft, Drafts, Configs, Counted, IsDraft

LEMMA SkipEffect ==
    ASSUME TypeOK, NEW r \in Requests, Skip(r)
    PROVE  Skips(r)
<1>1. /\ Quits(r) /\ UNCHANGED <<hazards, runtimes, shown>> /\ runtimes # <<>>
      /\ req[r] \in Opening
  BY QuitsEffect, AtStage, Stages DEF Skip, Ends
<1>2. Len(runtimes) \in DOMAIN runtimes /\ Len(runtimes) \in Nat
  <2>1. runtimes \in Seq([session: Sessions, name: Names])
    BY DEF TypeOK
  <2>2. Len(runtimes) # 0
    BY <1>1, <2>1
  <2> QED
    BY <2>2, RuntimeIds
<1> DEFINE new == Draft("completed", <<>>, {}, None, Len(runtimes))
           last == {s \in Sessions : Exists(s)}
<1>3. rows' = IF ActiveOnes # {}
              THEN [rows EXCEPT ![Newest(ActiveOnes)] = CompletedWith(Current, Len(runtimes))]
              ELSE IF ~ Room \/ (last # {} /\ rows[Newest(last)].state = "completed")
                   THEN rows
                   ELSE [rows EXCEPT ![Fresh] = new]
  BY Zenon DEF Skip
<1> HIDE DEF last
<1>4. CASE ActiveOnes # {}
  <2>1. Newest(ActiveOnes) \in Sessions /\ Active(Newest(ActiveOnes))
    BY <1>4, NewestActive
  <2>2. PICK s \in Sessions : s = Newest(ActiveOnes)
    BY <2>1
  <2>3. rows' = [rows EXCEPT ![s] = CompletedWith(rows[s], Len(runtimes))]
    BY <1>3, <1>4, <2>2 DEF Current
  <2> QED
    BY <1>1, <1>2, <2>1, <2>2, <2>3 DEF Skips
<1>5. CASE ActiveOnes = {} /\ rows' = rows
  BY <1>1, <1>2, <1>5 DEF Skips
<1>6. CASE ActiveOnes = {} /\ Room /\ rows' = [rows EXCEPT ![Fresh] = new]
  <2>1. /\ "completed" \in States /\ <<>> \in Seq(Turns) /\ {} \in SUBSET Questions
        /\ None \in Questions \cup {None} /\ Len(runtimes) \in Nat \cup {None}
    BY <1>2 DEF States, Settled
  <2>2. IsDraft(new, "completed", <<>>, {}, None, Len(runtimes))
    BY <2>1, DraftFields, Zenon
  <2> HIDE DEF new
  <2>3. PICK s \in Sessions : s = Fresh /\ ~ Exists(s)
    BY <1>6, FreshIsNew
  <2>4. Counted(new.config) = {}
    BY <2>2 DEF IsDraft
  <2>5. rows' = [rows EXCEPT ![s] = new]
    BY <1>6, <2>3
  <2> QED
    BY <1>1, <1>2, <1>6, <2>2, <2>3, <2>4, <2>5 DEF Skips, IsDraft
<1> QED
  BY <1>3, <1>4, <1>5, <1>6

LEMMA EmptyConfig ==
    LET c == [asked |-> {}, pending |-> None, runtime |-> None] IN
    c \in Configs /\ Within(c) /\ c.runtime = None
<1> DEFINE c == [asked |-> {}, pending |-> None, runtime |-> None]
<1>1. c \in Configs /\ Counted(c) = {}
  BY DEF Configs, Counted
<1>2. Within(c)
  BY <1>1, FS_EmptySet DEF Within, MaxQuestions
<1> QED
  BY <1>1, <1>2

LEMMA OneTurn ==
    ASSUME NEW p \in Prompts
    PROVE  <<[key |-> p, ok |-> TRUE]>> \in Seq(Turns) /\ LastMayFail(<<[key |-> p, ok |-> TRUE]>>)
<1> DEFINE x == [key |-> p, ok |-> TRUE]
<1>1. x \in Turns
  BY DEF Turns
<1> HIDE DEF x
<1>2. <<x>> \in Seq(Turns) /\ Len(<<x>>) = 1
  BY <1>1
<1>3. LastMayFail(<<x>>)
  BY <1>2 DEF LastMayFail
<1> QED
  BY <1>2, <1>3 DEF x

\* What a new draft may be.
NewRow(new) ==
    /\ new \in Drafts
    /\ new.config.asked \subseteq Counted(new.config) /\ Within(new.config)
    /\ new.state \in Talking /\ new.runtime = None /\ new.config.runtime = None
    /\ LastMayFail(new.turns)

LEMMA NewRows ==
    /\ NewRow(Draft("onboarding_started", <<>>, {}, None, None))
    /\ \A p \in Prompts : NewRow(NewUnread(p))
    /\ \A p \in Prompts, open \in Extractions : NewRow(NewDraft(p, open))
<1>1. ASSUME NEW state \in Talking, NEW turns \in Seq(Turns), LastMayFail(turns)
      PROVE  NewRow(Draft(state, turns, {}, None, None))
  <2> DEFINE new == Draft(state, turns, {}, None, None)
  <2>1. /\ state \in States /\ turns \in Seq(Turns) /\ {} \in SUBSET Questions
        /\ None \in Questions \cup {None} /\ None \in Nat \cup {None}
    BY DEF States
  <2>2. IsDraft(new, state, turns, {}, None, None)
    BY <2>1, DraftFields, Zenon
  <2> HIDE DEF new
  <2>3. Within(new.config)
    <3>1. Counted(new.config) = {}
      BY <2>2 DEF IsDraft
    <3> QED
      BY <3>1, FS_EmptySet DEF Within, MaxQuestions
  <2>4. NewRow(new)
    BY <1>1, <2>2, <2>3 DEF NewRow, IsDraft
  <2> QED
    BY <2>4 DEF new
<1>2. NewRow(Draft("onboarding_started", <<>>, {}, None, None))
  <2>1. "onboarding_started" \in Talking /\ <<>> \in Seq(Turns) /\ Len(<<>>) = 0
    BY DEF Talking
  <2>2. LastMayFail(<<>>)
    BY <2>1 DEF LastMayFail
  <2> QED
    BY <1>1, <2>1, <2>2
<1>3. ASSUME NEW p \in Prompts PROVE NewRow(NewUnread(p))
  <2>1. "clarifying_requirements" \in Talking
    BY DEF Talking
  <2> QED
    BY <1>1, <2>1, OneTurn, Zenon DEF NewUnread
<1>4. ASSUME NEW p \in Prompts, NEW open \in Extractions PROVE NewRow(NewDraft(p, open))
  <2> DEFINE c == [asked |-> {}, pending |-> None, runtime |-> None]
             a == Answered(c, open)
             turns == <<[key |-> p, ok |-> TRUE]>>
             new == Draft(a.state, turns, a.config.asked, a.config.pending, None)
  <2>1. /\ a.state \in Talking /\ a.config \in Configs /\ a.config.runtime = c.runtime
        /\ Counted(a.config) = Counted(c) \cup ({a.config.pending} \ {None})
        /\ Within(a.config) /\ a.config.asked = Counted(a.config)
    BY EmptyConfig, AnsweredFields
  <2>2. NewDraft(p, open) = new
    BY Zenon DEF NewDraft
  <2>3. turns \in Seq(Turns) /\ LastMayFail(turns)
    BY OneTurn
  <2> HIDE DEF c, a, turns
  <2>4. /\ a.state \in States /\ a.config.asked \in SUBSET Questions
        /\ a.config.pending \in Questions \cup {None} /\ None \in Nat \cup {None}
    BY <2>1 DEF Configs, States
  <2>5. IsDraft(new, a.state, turns, a.config.asked, a.config.pending, None)
    BY <2>3, <2>4, DraftFields, Zenon
  <2> HIDE DEF new
  <2>6. Counted(new.config) = Counted(a.config)
    BY <2>1, <2>5 DEF Counted, IsDraft
  <2>7. Within(new.config)
    BY <2>1, <2>6 DEF Within
  <2>8. new.config.asked \subseteq Counted(new.config)
    BY <2>1, <2>5, <2>6 DEF IsDraft
  <2> QED
    BY <2>1, <2>2, <2>3, <2>5, <2>7, <2>8 DEF NewRow, IsDraft
<1> QED
  BY <1>2, <1>3, <1>4

LEMMA CreateEffect ==
    ASSUME TypeOK, NEW r \in Requests, Create(r)
    PROVE  Creates(r)
<1>1. /\ Quits(r) /\ UNCHANGED <<hazards, runtimes>>
      /\ req[r] \in Opening /\ req[r].at = "model" /\ Room
  BY QuitsEffect, AtStage, Stages DEF Create, Ends
<1>2. req[r].prompt \in Prompts \cup {None}
  BY <1>1 DEF Opening
<1>3. PICK p \in Prompts \cup {None} : p = req[r].prompt
  BY <1>2
<1>4. PICK new \in IF p = None
                   THEN {Draft("onboarding_started", <<>>, {}, None, None)}
                   ELSE {NewUnread(p)} \cup {NewDraft(p, open) : open \in Extractions} :
          /\ rows' = [rows EXCEPT ![Fresh] = new]
          /\ shown' = [shown EXCEPT ![Fresh] = new.config.asked]
  BY <1>3, Zenon DEF Create
<1>5. NewRow(new)
  BY <1>4, NewRows
<1>6. Fresh \in Sessions /\ ~ Exists(Fresh)
  BY <1>1, FreshIsNew
<1>7. PICK s \in Sessions : s = Fresh
  BY <1>6
<1> QED
  BY <1>1, <1>4, <1>5, <1>6, <1>7 DEF Creates, NewRow

\* What a turn and a closing make of the draft that was loaded.
LEMMA SaidFields ==
    ASSUME NEW row \in Drafts, NEW k \in Keys, NEW ok \in BOOLEAN
    PROVE  Append(Kept(row.turns, k), [key |-> k, ok |-> ok]) \in Seq(Turns)
<1> DEFINE x == [key |-> k, ok |-> ok]
<1>1. x \in Turns
  BY DEF Turns
<1>2. row.turns \in Seq(Turns)
  BY DEF Drafts
<1>3. Kept(row.turns, k) \in Seq(Turns)
  BY <1>2, KeptPrefix
<1> HIDE DEF x
<1>4. Append(Kept(row.turns, k), x) \in Seq(Turns)
  BY <1>1, <1>3
<1> QED
  BY <1>4 DEF x

LEMMA ClosedFields ==
    ASSUME NEW row \in Drafts, NEW turns \in Seq(Turns)
    PROVE  LET new == [row EXCEPT !.turns = turns] IN
           /\ new \in Drafts /\ new.state = row.state /\ new.turns = turns
           /\ new.runtime = row.runtime /\ new.config = row.config
BY DEF Drafts

\* A turn, from what the model made of the draft.
LEMMA TurnSpeaks ==
    ASSUME TypeOK, NEW r \in Requests, req[r] \in Speaking, req[r].at = "model", Leaves(r),
           UNCHANGED <<hazards, runtimes>>,
           NEW state \in Talking, NEW c \in Configs, NEW ok \in BOOLEAN, NEW some \in SUBSET Questions,
           Save(r, req[r].session,
                [req[r].loaded EXCEPT !.state = state,
                   !.turns = Append(Kept(req[r].loaded.turns, req[r].key), Said(r, ok)), !.config = c]),
           c.runtime = req[r].loaded.config.runtime, Within(c),
           Counted(req[r].loaded.config) \subseteq Counted(c), some \subseteq Counted(c),
           shown' = [shown EXCEPT ![req[r].session] = shown[req[r].session] \cup some]
    PROVE  Speaks(r)
<1>1. PICK d \in Speaking : d = req[r]
  OBVIOUS
<1>2. d.loaded \in Drafts /\ d.key \in Keys /\ state \in States
  BY DEF Speaking, States
<1>a. PICK row \in Drafts : row = d.loaded
  BY <1>2
<1> DEFINE turns == Append(Kept(row.turns, d.key), [key |-> d.key, ok |-> ok])
           new == [row EXCEPT !.state = state, !.turns = turns, !.config = c]
<1>3. turns \in Seq(Turns)
  BY <1>2, SaidFields
<1>4. Save(r, d.session, new)
  BY <1>1, <1>a, Zenon DEF Said
<1> HIDE DEF turns
<1>5. /\ new \in Drafts /\ new.state = state /\ new.turns = turns
      /\ new.runtime = row.runtime /\ new.config = c
  BY <1>2, <1>3 DEF Drafts
<1>6. Quits(r)
  BY QuitsEffect
<1> HIDE DEF new
<1>7. new.turns = Append(Kept(req[r].loaded.turns, req[r].key), [key |-> req[r].key, ok |-> ok])
  BY <1>1, <1>a, <1>5 DEF turns
<1>8. Save(r, req[r].session, new)
  BY <1>1, <1>4
<1>9. /\ new.state \in Talking /\ new.runtime = req[r].loaded.runtime
      /\ new.config.runtime = req[r].loaded.config.runtime
      /\ Counted(req[r].loaded.config) \subseteq Counted(new.config) /\ Within(new.config)
      /\ some \subseteq Counted(new.config)
  BY <1>1, <1>a, <1>5
<1> QED
  BY <1>5, <1>6, <1>7, <1>8, <1>9, Zenon DEF Speaks

LEMMA SpeakEffect ==
    ASSUME DraftsInv, NEW r \in Requests, Turn(r) \/ Misread(r)
    PROVE  Speaks(r)
<1>0. TypeOK /\ Leaves(r) /\ UNCHANGED <<hazards, runtimes>>
  BY DEF DraftsInv, Turn, Misread, Ends
<1>1. req[r] \in Speaking /\ req[r].at = "model"
  BY <1>0, AtStage, Stages DEF Turn, Misread, Ends
<1>2. PICK c \in Configs : c = req[r].loaded.config
  BY <1>1 DEF Speaking, Drafts
<1>3. Within(c)
  BY <1>1, <1>2 DEF DraftsInv, Serving, CopyOK, RowOK
<1>4. ASSUME Turn(r) PROVE Speaks(r)
  <2>1. PICK open \in Extractions :
           /\ Save(r, req[r].session, Turned(r, Answered(req[r].loaded.config, open), TRUE))
           /\ shown' = [shown EXCEPT ![req[r].session] = @ \cup ({Answered(req[r].loaded.config, open).config.pending} \ {None})]
    BY <1>4, Zenon DEF Turn
  <2> DEFINE a == Answered(c, open)
  <2>2. /\ a.state \in Talking /\ a.config \in Configs /\ a.config.runtime = c.runtime
        /\ Counted(a.config) = Counted(c) \cup ({a.config.pending} \ {None})
        /\ Within(a.config)
    BY <1>3, AnsweredFields
  <2>3. /\ Save(r, req[r].session, Turned(r, a, TRUE))
        /\ shown' = [shown EXCEPT ![req[r].session] = shown[req[r].session] \cup ({a.config.pending} \ {None})]
    BY <2>1, <1>2
  <2> HIDE DEF a
  <2>4. ({a.config.pending} \ {None}) \in SUBSET Questions
    BY <2>2 DEF Configs
  <2>5. Save(r, req[r].session,
             [req[r].loaded EXCEPT !.state = a.state,
                !.turns = Append(Kept(req[r].loaded.turns, req[r].key), Said(r, TRUE)), !.config = a.config])
    BY <2>3, Zenon DEF Turned
  <2>6. PICK some \in SUBSET Questions : some = {a.config.pending} \ {None}
    BY <2>4
  <2>7. /\ a.config.runtime = req[r].loaded.config.runtime
        /\ Counted(req[r].loaded.config) \subseteq Counted(a.config) /\ some \subseteq Counted(a.config)
        /\ shown' = [shown EXCEPT ![req[r].session] = shown[req[r].session] \cup some]
    BY <2>2, <2>3, <2>6, <1>2
  <2> QED
    BY <1>0, <1>1, <2>2, <2>5, <2>7, TurnSpeaks
<1>5. ASSUME Misread(r) PROVE Speaks(r)
  <2> DEFINE u == Unread(c)
  <2>1. /\ u.state \in Talking /\ u.config \in Configs /\ u.config.runtime = c.runtime
        /\ Counted(u.config) = Counted(c) /\ Within(u.config)
    BY <1>3, UnreadFields
  <2>2. Save(r, req[r].session, Turned(r, u, FALSE)) /\ shown' = shown
    BY <1>5, <1>2 DEF Misread
  <2> HIDE DEF u
  <2>3. Save(r, req[r].session,
             [req[r].loaded EXCEPT !.state = u.state,
                !.turns = Append(Kept(req[r].loaded.turns, req[r].key), Said(r, FALSE)), !.config = u.config])
    BY <2>2, Zenon DEF Turned
  <2>4. PICK some \in SUBSET Questions : some = {}
    OBVIOUS
  <2>5. shown' = [shown EXCEPT ![req[r].session] = shown[req[r].session] \cup some]
    BY <2>2, <2>4, <1>0 DEF TypeOK
  <2>6. /\ u.config.runtime = req[r].loaded.config.runtime
        /\ Counted(req[r].loaded.config) \subseteq Counted(u.config) /\ some \subseteq Counted(u.config)
    BY <2>1, <2>4, <1>2
  <2> QED
    BY <1>0, <1>1, <2>1, <2>3, <2>5, <2>6, TurnSpeaks
<1> QED
  BY <1>4, <1>5

LEMMA CloseEffect ==
    ASSUME TypeOK, NEW r \in Requests, Close(r)
    PROVE  Closes(r)
<1>1. Quits(r) /\ UNCHANGED <<hazards, runtimes, shown>>
  BY QuitsEffect DEF Close, Ends
<1>2. req[r] \in Speaking /\ req[r].at = "closing"
  BY AtStage, Stages DEF Close, Ends
<1>3. PICK d \in Speaking : d = req[r]
  BY <1>2
<1>4. d.loaded \in Drafts /\ d.key \in Keys
  BY DEF Speaking
<1>a. PICK row \in Drafts : row = d.loaded
  BY <1>4
<1> DEFINE turns == Append(Kept(row.turns, d.key), [key |-> d.key, ok |-> TRUE])
           new == [row EXCEPT !.turns = turns]
<1>5. turns \in Seq(Turns)
  BY <1>4, SaidFields
<1>6. Save(r, d.session, new)
  BY <1>3, <1>a, Zenon DEF Close, Said
<1> HIDE DEF turns
<1>7. /\ new \in Drafts /\ new.state = row.state /\ new.turns = turns
      /\ new.runtime = row.runtime /\ new.config = row.config
  BY <1>5, ClosedFields
<1> HIDE DEF new
<1>8. new.turns = Append(Kept(req[r].loaded.turns, req[r].key), [key |-> req[r].key, ok |-> TRUE])
  BY <1>3, <1>a, <1>7 DEF turns
<1>9. /\ new.state = req[r].loaded.state /\ new.runtime = req[r].loaded.runtime
      /\ new.config = req[r].loaded.config /\ Save(r, req[r].session, new)
  BY <1>3, <1>a, <1>6, <1>7
<1> QED
  BY <1>1, <1>2, <1>7, <1>8, <1>9, Zenon DEF Closes

LEMMA EnsureEffect ==
    ASSUME DraftsInv, NEW r \in Requests, Ensure(r)
    PROVE  Ensures(r)
<1>0. TypeOK /\ UNCHANGED <<hazards, shown>>
  BY DEF DraftsInv, Ensure
<1>1. req[r] \in Serving /\ req[r].at = "ensure"
  BY <1>0, AtStage, Stages DEF Ensure
<1>2. PICK d \in Serving : d = req[r]
  BY <1>1
<1>3. d.found \in Names \cup DOMAIN runtimes /\ d.loaded \in Drafts
  BY <1>1, <1>2, Stages DEF DraftsInv, CopyOK, Records
<1> DEFINE make == d.found \in Names
           id   == IF make THEN Len(runtimes) + 1 ELSE d.found
           more == Append(runtimes, [session |-> d.session, name |-> d.found])
           new  == CompletedWith(d.loaded, id)
<1>4. /\ runtimes' = IF make THEN more ELSE runtimes
      /\ Save(r, d.session, new)
      /\ IF d.op = "message"
         THEN Enters(r, [d EXCEPT !.at = "closing", !.loaded = new])
         ELSE Leaves(r)
  BY <1>2, Zenon DEF Ensure
<1>5. id \in DOMAIN runtimes' /\ id \in Nat
  <2>0. PICK x \in [session: Sessions, name: Names \cup DOMAIN runtimes] :
           x = [session |-> d.session, name |-> d.found]
    BY <1>3, Stages DEF Records
  <2>1. CASE make
    <3>1. runtimes' = Append(runtimes, x) /\ id = Len(runtimes) + 1
      BY <1>4, <2>0, <2>1
    <3>2. Len(runtimes) \in Nat /\ runtimes \in Seq([session: Sessions, name: Names])
      BY <1>0, RuntimeIds DEF TypeOK
    <3> DEFINE T == [session: Sessions, name: Names]
    <3>3. runtimes \in Seq(T) /\ x \in T
      BY <3>2, <2>0, <2>1, Stages DEF Records
    <3> HIDE DEF T, id
    <3>4. DOMAIN Append(runtimes, x) = 1 .. Len(runtimes) + 1
      BY <3>3
    <3> QED
      BY <3>1, <3>2, <3>4
  <2>2. CASE ~ make
    <3>1. runtimes' = runtimes /\ id = d.found /\ d.found \in DOMAIN runtimes
      BY <1>3, <1>4, <2>2
    <3> HIDE DEF id
    <3> QED
      BY <1>0, <3>1, RuntimeIds
  <2> QED
    BY <2>1, <2>2
<1>6. \/ /\ req[r].found \in Names
         /\ runtimes' = Append(runtimes, [session |-> req[r].session, name |-> req[r].found])
      \/ req[r].found \notin Names /\ runtimes' = runtimes
  BY <1>2, <1>4, Zenon
<1> HIDE DEF id
<1>7. new \in Drafts
  BY <1>3, <1>5, CompletedFields
<1>8. \/ Quits(r)
      \/ /\ Moves(r) /\ req[r] \in Speaking /\ req'[r] \in Speaking
         /\ req'[r].at = "closing" /\ req'[r].loaded = new
         /\ req'[r].session = req[r].session /\ req'[r].key = req[r].key
  <2>1. CASE d.op = "message"
    <3>1. d \in Speaking
      BY <2>1, Stages DEF Records
    <3> DEFINE e == [d EXCEPT !.at = "closing", !.loaded = new]
    <3> HIDE DEF new
    <3>2. /\ e \in Speaking /\ e.at = "closing" /\ e.loaded = new
          /\ e.session = d.session /\ e.key = d.key
      BY <3>1, <1>7, ServingWrote
    <3>3. Enters(r, e)
      BY <1>4, <2>1
    <3> HIDE DEF e
    <3>4. Moves(r) /\ req'[r] = e
      BY <1>0, <3>3, EntersEffect DEF Moves
    <3> QED
      BY <1>2, <3>1, <3>2, <3>4
  <2>2. CASE d.op # "message"
    BY <1>0, <1>4, <2>2, QuitsEffect
  <2> QED
    BY <2>1, <2>2
<1>9. /\ Save(r, req[r].session, CompletedWith(req[r].loaded, id))
      /\ new = CompletedWith(req[r].loaded, id)
  BY <1>2, <1>4
<1> HIDE DEF new
<1> QED
  BY <1>0, <1>1, <1>5, <1>6, <1>8, <1>9, Zenon DEF Ensures

\* The classes together.
Steps(r) ==
    \/ Begins(r) \/ OpensOn(r) \/ ServesOn(r) \/ QuitsQuietly(r)
    \/ Skips(r) \/ Creates(r) \/ Speaks(r) \/ Ensures(r) \/ Closes(r)

LEMMA Cases ==
    ASSUME DraftsInv, [Next]_vars
    PROVE  UNCHANGED vars \/ \E r \in Requests : Steps(r)
<1>0. TypeOK
  BY DEF DraftsInv
<1> SUFFICES ASSUME Next PROVE \E r \in Requests : Steps(r)
  OBVIOUS
<1>1. PICK r \in Requests :
        \/ Step(r) \/ Abort(r)
        \/ \E p \in Prompts \cup {None}, reset \in BOOLEAN : Open(r, p, reset)
        \/ \E s \in Sessions : Complete(r, s) \/ \E k \in Keys : Message(r, s, k)
  BY Zenon DEF Next
<1>2. CASE Abort(r)
  BY <1>0, <1>2, QuitsEffect DEF Abort, QuitsQuietly, Steps
<1>3. CASE \E p \in Prompts \cup {None}, reset \in BOOLEAN : Open(r, p, reset)
  BY <1>0, <1>3, OpenBegins, Zenon DEF Steps
<1>4. CASE \E s \in Sessions : Complete(r, s) \/ \E k \in Keys : Message(r, s, k)
  BY <1>0, <1>4, CompleteBegins, MessageBegins, Zenon DEF Steps
<1>5. CASE Step(r)
  <2>1. CASE Reset(r) \/ Replace(r) \/ Prepare(r)
    BY <1>0, <2>1, OpeningEffect, Zenon DEF Steps
  <2>2. CASE Resume(r) \/ Refuse(r)
    BY <1>0, <2>2, QuitsEffect DEF Resume, Refuse, Ends, QuitsQuietly, Steps
  <2>3. CASE Skip(r)
    BY <1>0, <2>3, SkipEffect, Zenon DEF Steps
  <2>4. CASE Create(r)
    BY <1>0, <2>4, CreateEffect, Zenon DEF Steps
  <2>5. CASE Turn(r) \/ Misread(r)
    BY <2>5, SpeakEffect, Zenon DEF Steps
  <2>6. CASE Confirm(r)
    BY <1>0, <2>6, ConfirmServes, Zenon DEF Steps
  <2>7. CASE \E n \in Names : Search(r, n)
    BY <2>7, SearchEffect, Zenon DEF Steps
  <2>8. CASE Ensure(r)
    BY <2>8, EnsureEffect, Zenon DEF Steps
  <2>9. CASE Close(r)
    BY <1>0, <2>9, CloseEffect, Zenon DEF Steps
  <2> QED
    BY <1>5, <2>1, <2>2, <2>3, <2>4, <2>5, <2>6, <2>7, <2>8, <2>9, Zenon DEF Step
<1> QED
  BY <1>1, <1>2, <1>3, <1>4, <1>5, Zenon

-----------------------------------------------------------------------------
(* The invariant holds.                                                    *)

\* A flush into a row keeps the invariant of rows.
LEMMA FlushOK ==
    ASSUME NEW row \in Drafts, NEW was \in Drafts, NEW new \in Drafts, NEW ids,
           RowOK(row, ids), RowOK(was, ids), RowOK(new, ids),
           was.runtime # None => row.runtime # None /\ new.runtime # None
    PROVE  /\ RowOK(Flush(row, was, new), ids)
           /\ row.runtime # None \/ new.runtime # None => Flush(row, was, new).runtime # None
<1>1. PICK f \in Drafts : f = Flush(row, was, new)
  BY FlushFields
<1>2. /\ f.state = IF new.state = was.state THEN row.state ELSE new.state
      /\ f.runtime = IF new.runtime = was.runtime THEN row.runtime ELSE new.runtime
      /\ f.config = IF new.config = was.config THEN row.config ELSE new.config
  BY <1>1, FlushFields
<1>3. f.config \in {row.config, new.config} /\ f.runtime \in {row.runtime, new.runtime}
  BY <1>2
<1>4. Within(f.config) /\ f.config.runtime \in {None} \cup ids /\ f.runtime \in {None} \cup ids
  BY <1>3 DEF RowOK
<1>5. row.runtime # None \/ new.runtime # None => f.runtime # None
  BY <1>2
<1>6. f.state = "completed" => f.runtime # None
  BY <1>2, <1>5 DEF RowOK
<1> QED
  BY <1>1, <1>4, <1>5, <1>6 DEF RowOK

\* What a step may make of the rows.
Grows ==
    /\ DOMAIN runtimes \subseteq DOMAIN runtimes'
    /\ rows' \in [Sessions -> Drafts \cup {None}]
    /\ \A s \in Sessions : rows[s] # None =>
          rows'[s] # None /\ (rows[s].runtime # None => rows'[s].runtime # None)
    /\ \A s \in Sessions : rows'[s] # None => RowOK(rows'[s], DOMAIN runtimes')

LEMMA RowMore ==
    ASSUME NEW row, NEW ids, NEW more, ids \subseteq more, RowOK(row, ids)
    PROVE  RowOK(row, more)
BY DEF RowOK

LEMMA GrowsKeeps ==
    ASSUME DraftsInv, NEW r \in Requests, Grows, Moves(r), hazards' = hazards,
           runtimes' \in Seq([session: Sessions, name: Names]),
           shown' \in [Sessions -> SUBSET Questions],
           req'[r] \in Records \cup {None, Gone},
           req'[r] \in Serving =>
              rows'[req'[r].session] # None /\ CopyOK(req'[r], rows', DOMAIN runtimes')
    PROVE  DraftsInv'
<1>1. \A q \in Requests : q # r => req'[q] = req[q]
  BY DEF Moves, DraftsInv, TypeOK
<1>2. req' \in [Requests -> Records \cup {None, Gone}]
  BY DEF Moves, DraftsInv, TypeOK
<1>3. \A q \in Requests : req'[q] \in Serving =>
         rows'[req'[q].session] # None /\ CopyOK(req'[q], rows', DOMAIN runtimes')
  <2> SUFFICES ASSUME NEW q \in Requests, q # r, req[q] \in Serving
               PROVE  rows'[req[q].session] # None /\ CopyOK(req[q], rows', DOMAIN runtimes')
    BY <1>1
  <2>1. CopyOK(req[q], rows, DOMAIN runtimes) /\ req[q].session \in Sessions /\ rows[req[q].session] # None
    BY Stages DEF DraftsInv, TypeOK, Records, Exists
  <2>2. RowOK(req[q].loaded, DOMAIN runtimes')
    BY <2>1, RowMore DEF CopyOK, Grows
  <2> QED
    BY <2>1, <2>2 DEF CopyOK, Grows
<1>4. TypeOK'
  BY <1>2, <1>3 DEF TypeOK, Exists, Grows, DraftsInv
<1>5. \A s \in Sessions : rows'[s] # None => RowOK(rows'[s], DOMAIN runtimes')
  BY DEF Grows
<1> QED
  BY <1>3, <1>4, <1>5 DEF DraftsInv

LEMMA SameRows ==
    ASSUME DraftsInv, UNCHANGED <<rows, runtimes>>
    PROVE  Grows
BY DEF Grows, DraftsInv, TypeOK

\* One row is written.
LEMMA OneRow ==
    ASSUME DraftsInv, NEW s \in Sessions, NEW new \in Drafts, rows' = [rows EXCEPT ![s] = new],
           DOMAIN runtimes \subseteq DOMAIN runtimes', RowOK(new, DOMAIN runtimes'),
           rows[s] # None /\ rows[s].runtime # None => new.runtime # None
    PROVE  Grows
<1>1. /\ rows' \in [Sessions -> Drafts \cup {None}]
      /\ rows'[s] = new /\ \A t \in Sessions : t # s => rows'[t] = rows[t]
  BY DEF DraftsInv, TypeOK
<1>2. new # None
  BY NotRecords
<1>3. \A t \in Sessions : rows[t] # None =>
          rows'[t] # None /\ (rows[t].runtime # None => rows'[t].runtime # None)
  BY <1>1, <1>2
<1>4. \A t \in Sessions : rows'[t] # None => RowOK(rows'[t], DOMAIN runtimes')
  BY <1>1, RowMore DEF DraftsInv
<1> QED
  BY <1>1, <1>3, <1>4 DEF Grows

\* A row is written by a request that loaded it.
LEMMA SavedRow ==
    ASSUME DraftsInv, NEW r \in Requests, req[r] \in Serving, NEW new \in Drafts,
           Save(r, req[r].session, new), DOMAIN runtimes \subseteq DOMAIN runtimes',
           RowOK(new, DOMAIN runtimes'), req[r].loaded.runtime # None => new.runtime # None
    PROVE  /\ Grows
           /\ req[r].session \in Sessions /\ rows[req[r].session] \in Drafts
           /\ req[r].loaded \in Drafts
           /\ rows' = [rows EXCEPT ![req[r].session] = Flush(rows[req[r].session], req[r].loaded, new)]
           /\ rows'[req[r].session] = Flush(rows[req[r].session], req[r].loaded, new)
           /\ new.runtime # None => rows'[req[r].session].runtime # None
<1>1. PICK s \in Sessions, was \in Drafts : s = req[r].session /\ was = req[r].loaded
  BY Stages DEF Records
<1>2. /\ rows[s] \in Drafts /\ rows[s] # None /\ CopyOK(req[r], rows, DOMAIN runtimes)
  BY <1>1 DEF DraftsInv, TypeOK, Exists
<1>3. PICK row \in Drafts : row = rows[s]
  BY <1>2
<1>4. RowOK(row, DOMAIN runtimes') /\ RowOK(was, DOMAIN runtimes')
  BY <1>1, <1>2, <1>3, RowMore DEF DraftsInv, CopyOK
<1>5. was.runtime # None => row.runtime # None /\ new.runtime # None
  BY <1>1, <1>2, <1>3 DEF CopyOK
<1>6. PICK f \in Drafts : f = Flush(row, was, new)
  BY FlushFields
<1>7. RowOK(f, DOMAIN runtimes') /\ (row.runtime # None \/ new.runtime # None => f.runtime # None)
  BY <1>4, <1>5, <1>6, FlushOK
<1>8. rows' = [rows EXCEPT ![s] = f]
  BY <1>1, <1>3, <1>6 DEF Save
<1>9. Grows
  BY <1>3, <1>7, <1>8, OneRow
<1>10. rows'[s] = f
  BY <1>8 DEF DraftsInv, TypeOK
<1> QED
  BY <1>1, <1>3, <1>6, <1>7, <1>8, <1>9, <1>10

\* Cancelling changes states only.
LEMMA CancelledRows ==
    ASSUME TypeOK, NEW s \in Sessions
    PROVE  /\ Cancelled \in [Sessions -> Drafts \cup {None}]
           /\ Cancelled[s] # None <=> rows[s] # None
           /\ rows[s] # None => /\ Cancelled[s] \in Drafts
                                /\ Cancelled[s].runtime = rows[s].runtime
                                /\ Cancelled[s].config = rows[s].config
                                /\ Cancelled[s].turns = rows[s].turns
                                /\ Cancelled[s].state = IF Active(s) THEN "cancelled" ELSE rows[s].state
<1>1. ASSUME NEW t \in Sessions
      PROVE  /\ rows[t] = None => Cancelled[t] = None
             /\ rows[t] # None => /\ Cancelled[t] \in Drafts
                                /\ Cancelled[t].runtime = rows[t].runtime
                                /\ Cancelled[t].config = rows[t].config
                                /\ Cancelled[t].turns = rows[t].turns
                                /\ Cancelled[t].state = IF Active(t) THEN "cancelled" ELSE rows[t].state
  <2>1. Cancelled[t] = IF Active(t) THEN [rows[t] EXCEPT !.state = "cancelled"] ELSE rows[t]
    BY DEF Cancelled
  <2>2. CASE rows[t] = None
    BY <2>1, <2>2 DEF Active, Exists
  <2>3. CASE rows[t] # None
    <3>1. PICK row \in Drafts : row = rows[t]
      BY <2>3 DEF TypeOK
    <3> DEFINE e == [row EXCEPT !.state = "cancelled"]
    <3>2. /\ e \in Drafts /\ e.state = "cancelled" /\ e.runtime = row.runtime
          /\ e.config = row.config /\ e.turns = row.turns
      BY DEF Drafts, States, Settled
    <3>3. Cancelled[t] = IF Active(t) THEN e ELSE row
      BY <2>1, <3>1
    <3> HIDE DEF e
    <3> QED
      BY <2>3, <3>1, <3>2, <3>3
  <2> QED
    BY <2>2, <2>3
<1>2. \A t \in Sessions : Cancelled[t] \in Drafts \cup {None}
  BY <1>1
<1>3. Cancelled \in [Sessions -> Drafts \cup {None}]
  BY <1>2 DEF Cancelled
<1>4. rows[s] # None => Cancelled[s] # None
  BY <1>1, NotRecords
<1> QED
  BY <1>1, <1>3, <1>4

LEMMA CancelledGrows ==
    ASSUME DraftsInv, rows' = Cancelled, runtimes' = runtimes
    PROVE  Grows
<1>1. TypeOK
  BY DEF DraftsInv
<1>2. rows' \in [Sessions -> Drafts \cup {None}]
  <2>1. CASE Sessions = {}
    BY <2>1 DEF Cancelled
  <2>2. CASE Sessions # {}
    BY <1>1, <2>2, CancelledRows
  <2> QED
    BY <2>1, <2>2
<1>3. ASSUME NEW s \in Sessions
      PROVE  /\ rows[s] # None => rows'[s] # None /\ (rows[s].runtime # None => rows'[s].runtime # None)
             /\ rows'[s] # None => RowOK(rows'[s], DOMAIN runtimes')
  <2>1. PICK row : row = rows'[s]
    OBVIOUS
  <2>2. /\ row # None <=> rows[s] # None
        /\ rows[s] # None => /\ row.runtime = rows[s].runtime /\ row.config = rows[s].config
                             /\ row.state = "completed" => rows[s].state = "completed"
    BY <1>1, <2>1, CancelledRows
  <2> QED
    BY <2>1, <2>2 DEF DraftsInv, RowOK
<1> QED
  BY <1>2, <1>3 DEF Grows

\* The record a runtime becomes.
LEMMA RecordOK ==
    ASSUME NEW row \in Drafts, NEW ids \in SUBSET Nat, NEW id \in ids, RowOK(row, ids)
    PROVE  CompletedWith(row, id) \in Drafts /\ RowOK(CompletedWith(row, id), ids)
           /\ CompletedWith(row, id).runtime # None
<1>1. id \in Nat /\ id # None
  BY OnboardingOK
<1>2. PICK new \in Drafts : /\ new = CompletedWith(row, id)
                            /\ new.runtime = id /\ new.config.runtime = id
                            /\ Counted(new.config) = Counted(row.config)
  BY <1>1, CompletedFields
<1> QED
  BY <1>1, <1>2 DEF RowOK, Within

\* Every step keeps the invariant, and rows only grow.
LEMMA StepKeeps ==
    ASSUME DraftsInv
    PROVE  \A r \in Requests : Steps(r) => DraftsInv' /\ Grows
<1>0. TypeOK
  BY DEF DraftsInv
<1>2. ASSUME NEW r \in Requests, Steps(r) PROVE DraftsInv' /\ Grows
  <2>1. runtimes \in Seq([session: Sessions, name: Names]) /\ shown \in [Sessions -> SUBSET Questions]
    BY <1>0 DEF TypeOK
  <2>2. \A x \in {None, Gone} : x \notin Serving
    BY NotRecords DEF Records
  <2>3. CASE Begins(r)
    <3>1. Grows
      BY <2>3, SameRows DEF Begins
    <3>2. req'[r] \in Records
      BY <2>3 DEF Begins, Records
    <3>3. ASSUME req'[r] \in Serving
          PROVE  rows'[req'[r].session] # None /\ CopyOK(req'[r], rows', DOMAIN runtimes')
      <4>1. /\ Exists(req'[r].session) /\ req'[r].loaded = rows[req'[r].session]
            /\ req'[r].at \in {"model", "search"} /\ req'[r].session \in Sessions
            /\ rows' = rows /\ runtimes' = runtimes
        BY <2>3, <3>3, NotRecords, Stages DEF Begins, Records
      <4> QED
        BY <4>1 DEF CopyOK, DraftsInv, Exists
    <3> QED
      BY <2>1, <2>3, <3>1, <3>2, <3>3, GrowsKeeps DEF Begins
  <2>4. CASE OpensOn(r)
    <3>1. Grows
      BY <2>4, SameRows, CancelledGrows DEF OpensOn
    <3>2. req'[r] \in Records /\ req'[r] \notin Serving
      BY <2>4, NotRecords DEF OpensOn, Records
    <3> QED
      BY <2>1, <2>4, <3>1, <3>2, GrowsKeeps DEF OpensOn
  <2>5. CASE ServesOn(r)
    <3>1. Grows
      BY <2>5, SameRows DEF ServesOn
    <3>2. req'[r] \in Records
      BY <2>5 DEF ServesOn, Records
    <3>3. /\ rows'[req'[r].session] # None /\ CopyOK(req'[r], rows', DOMAIN runtimes')
      BY <2>5 DEF ServesOn, CopyOK, DraftsInv, TypeOK, Exists
    <3> QED
      BY <2>1, <2>5, <3>1, <3>2, <3>3, GrowsKeeps DEF ServesOn
  <2>6. CASE QuitsQuietly(r)
    <3>1. Grows
      BY <2>6, SameRows DEF QuitsQuietly
    <3> QED
      BY <2>1, <2>2, <2>6, <3>1, GrowsKeeps DEF QuitsQuietly, Quits
  <2>7. CASE Skips(r)
    <3>1. DOMAIN runtimes \in SUBSET Nat /\ Len(runtimes) \in DOMAIN runtimes /\ runtimes' = runtimes
      BY <1>0, <2>7, RuntimeIds DEF Skips
    <3>2. PICK n \in DOMAIN runtimes : n = Len(runtimes)
      BY <3>1
    <3>3. ASSUME rows' = rows PROVE Grows
      BY <3>1, <3>3, SameRows
    <3>4. ASSUME NEW s \in Sessions, Active(s), rows' = [rows EXCEPT ![s] = CompletedWith(rows[s], Len(runtimes))]
          PROVE  Grows
      <4>1. PICK row \in Drafts : row = rows[s]
        BY <1>0, <3>4 DEF Active, Exists, TypeOK
      <4>2. RowOK(row, DOMAIN runtimes)
        BY <3>4, <4>1 DEF Active, Exists, DraftsInv
      <4>3. CompletedWith(row, n) \in Drafts /\ RowOK(CompletedWith(row, n), DOMAIN runtimes)
            /\ CompletedWith(row, n).runtime # None
        BY <3>1, <4>2, RecordOK
      <4>4. PICK new \in Drafts : new = CompletedWith(row, n)
        BY <4>3
      <4>5. rows' = [rows EXCEPT ![s] = new]
        BY <3>2, <3>4, <4>1, <4>4
      <4> QED
        BY <3>1, <4>3, <4>4, <4>5, OneRow
    <3>5. ASSUME NEW s \in Sessions, NEW new \in Drafts, ~ Exists(s), rows' = [rows EXCEPT ![s] = new],
                 new.runtime = Len(runtimes), new.config.runtime = Len(runtimes),
                 Counted(new.config) = {}
          PROVE  Grows
      <4>1. Within(new.config)
        BY <3>5, FS_EmptySet DEF Within, MaxQuestions
      <4>2. RowOK(new, DOMAIN runtimes)
        BY <1>0, <3>1, <3>5, <4>1, RuntimeIds DEF RowOK
      <4> QED
        BY <3>1, <3>5, <4>2, OneRow DEF Exists
    <3>6. Grows
      BY <2>7, <3>3, <3>4, <3>5 DEF Skips
    <3> QED
      BY <2>1, <2>2, <2>7, <3>6, GrowsKeeps DEF Skips, Quits
  <2>8. CASE Creates(r)
    <3>1. PICK s \in Sessions, new \in Drafts :
            /\ ~ Exists(s) /\ rows' = [rows EXCEPT ![s] = new]
            /\ shown' = [shown EXCEPT ![s] = new.config.asked]
            /\ Within(new.config)
            /\ new.state \in Talking /\ new.runtime = None /\ new.config.runtime = None
      BY <2>8 DEF Creates
    <3>2. RowOK(new, DOMAIN runtimes)
      BY <3>1 DEF RowOK, Talking
    <3>3. Grows
      BY <2>8, <3>1, <3>2, OneRow DEF Exists, Creates
    <3>4. new.config.asked \in SUBSET Questions
      BY DEF Drafts, Configs
    <3>5. shown' \in [Sessions -> SUBSET Questions]
      BY <2>1, <3>1, <3>4
    <3> QED
      BY <2>1, <2>2, <2>8, <3>3, <3>5, GrowsKeeps DEF Creates, Quits
  <2>9. CASE Speaks(r)
    <3>1. PICK new \in Drafts, some \in SUBSET Questions, ok \in BOOLEAN :
            /\ Save(r, req[r].session, new)
            /\ new.state \in Talking /\ new.runtime = req[r].loaded.runtime
            /\ new.config.runtime = req[r].loaded.config.runtime /\ Within(new.config)
            /\ shown' = [shown EXCEPT ![req[r].session] = shown[req[r].session] \cup some]
      BY <2>9, Zenon DEF Speaks
    <3>2. req[r] \in Serving /\ runtimes' = runtimes /\ req[r].session \in Sessions
      BY <2>9, Stages DEF Speaks, Serving, Records
    <3>3. CopyOK(req[r], rows, DOMAIN runtimes)
      BY <3>2 DEF DraftsInv
    <3>4. RowOK(new, DOMAIN runtimes)
      BY <3>1, <3>3 DEF CopyOK, RowOK, Talking
    <3>5. Grows
      BY <3>1, <3>2, <3>4, SavedRow
    <3>6. shown' \in [Sessions -> SUBSET Questions]
      BY <2>1, <3>1, <3>2
    <3> QED
      BY <2>1, <2>2, <2>9, <3>5, <3>6, GrowsKeeps DEF Speaks, Quits
  <2>10. CASE Closes(r)
    <3>1. PICK new \in Drafts :
            /\ Save(r, req[r].session, new)
            /\ new.state = req[r].loaded.state /\ new.runtime = req[r].loaded.runtime
            /\ new.config = req[r].loaded.config
      BY <2>10, Zenon DEF Closes
    <3>2. req[r] \in Serving /\ runtimes' = runtimes
      BY <2>10 DEF Closes, Serving
    <3>3. RowOK(new, DOMAIN runtimes)
      BY <3>1, <3>2 DEF CopyOK, RowOK, DraftsInv
    <3>4. Grows
      BY <3>1, <3>2, <3>3, SavedRow
    <3> QED
      BY <2>1, <2>2, <2>10, <3>4, GrowsKeeps DEF Closes, Quits
  <2>11. CASE Ensures(r)
    <3>1. req[r] \in Serving /\ hazards' = hazards /\ shown' = shown
      BY <2>11 DEF Ensures
    <3>2. PICK id \in DOMAIN runtimes' :
            /\ Save(r, req[r].session, CompletedWith(req[r].loaded, id))
            /\ \/ /\ req[r].found \in Names
                  /\ runtimes' = Append(runtimes, [session |-> req[r].session, name |-> req[r].found])
               \/ req[r].found \notin Names /\ runtimes' = runtimes
            /\ \/ Quits(r)
               \/ /\ Moves(r) /\ req[r] \in Speaking /\ req'[r] \in Speaking
                  /\ req'[r].at = "closing" /\ req'[r].loaded = CompletedWith(req[r].loaded, id)
                  /\ req'[r].session = req[r].session
      BY <2>11, Zenon DEF Ensures
    <3>3. /\ runtimes' \in Seq([session: Sessions, name: Names])
          /\ DOMAIN runtimes \subseteq DOMAIN runtimes' /\ DOMAIN runtimes' \in SUBSET Nat
      <4>1. CASE runtimes' = runtimes
        BY <1>0, <2>1, <4>1, RuntimeIds
      <4>2. CASE req[r].found \in Names /\ runtimes' = Append(runtimes, [session |-> req[r].session, name |-> req[r].found])
        <5> DEFINE T == [session: Sessions, name: Names]
        <5>1. PICK x \in T : x = [session |-> req[r].session, name |-> req[r].found]
          BY <3>1, <4>2, Stages DEF Records
        <5>2. runtimes \in Seq(T) /\ runtimes' = Append(runtimes, x)
          BY <2>1, <4>2, <5>1
        <5> HIDE DEF T
        <5>3. runtimes' \in Seq(T) /\ Len(runtimes) \in Nat
              /\ DOMAIN runtimes' = 1 .. Len(runtimes) + 1 /\ DOMAIN runtimes = 1 .. Len(runtimes)
          BY <5>2
        <5> QED
          BY <5>3 DEF T
      <4> QED
        BY <3>2, <4>1, <4>2
    <3>4. PICK was \in Drafts : was = req[r].loaded
      BY <3>1, Stages DEF Records
    <3>5. RowOK(was, DOMAIN runtimes')
      BY <3>1, <3>3, <3>4, RowMore DEF CopyOK, DraftsInv
    <3>6. PICK new \in Drafts : /\ new = CompletedWith(was, id) /\ RowOK(new, DOMAIN runtimes')
                                /\ new.runtime # None
      BY <3>3, <3>5, RecordOK
    <3>7. Save(r, req[r].session, new)
      BY <3>2, <3>4, <3>6
    <3>8. Grows /\ rows'[req[r].session].runtime # None
      BY <3>1, <3>3, <3>6, <3>7, SavedRow
    <3>9. rows'[req[r].session] # None
      BY <3>1, <3>8, Stages DEF Grows, DraftsInv, TypeOK, Exists, Records
    <3>10. CASE Quits(r)
      BY <2>2, <3>1, <3>3, <3>8, <3>10, <2>1, GrowsKeeps DEF Quits
    <3>11. CASE /\ Moves(r) /\ req'[r] \in Speaking
                /\ req'[r].at = "closing" /\ req'[r].loaded = new
                /\ req'[r].session = req[r].session
      <4>1. CopyOK(req'[r], rows', DOMAIN runtimes')
        BY <3>6, <3>8, <3>11 DEF CopyOK
      <4>2. req'[r] \in Records
        BY <3>11 DEF Records, Serving
      <4> QED
        BY <2>1, <3>1, <3>3, <3>8, <3>9, <3>11, <4>1, <4>2, GrowsKeeps
    <3> QED
      BY <3>2, <3>4, <3>6, <3>10, <3>11
  <2> QED
    BY <1>2, <2>3, <2>4, <2>5, <2>6, <2>7, <2>8, <2>9, <2>10, <2>11, Zenon DEF Steps
<1> QED
  BY <1>2

LEMMA DraftsNext ==
    ASSUME DraftsInv, [Next]_vars
    PROVE  DraftsInv'
<1>1. CASE UNCHANGED vars
  BY <1>1 DEF DraftsInv, TypeOK, vars, Exists
<1>2. CASE \E r \in Requests : Steps(r)
  BY <1>2, StepKeeps
<1> QED
  BY <1>1, <1>2, Cases

LEMMA DraftsInit ==
    ASSUME Init
    PROVE  DraftsInv
<1>1. \A r \in Requests : req[r] \notin Serving
  BY NotRecords DEF Init, Records
<1>2. runtimes \in Seq([session: Sessions, name: Names])
  BY DEF Init
<1> QED
  BY <1>1, <1>2 DEF Init, DraftsInv, TypeOK

LEMMA DraftsAlways == Spec => []DraftsInv
BY DraftsInit, DraftsNext, PTL DEF Spec

-----------------------------------------------------------------------------
(* Requests that do not overlap: what a request loaded is what the row     *)
(* still is.                                                               *)

Alone == \A r \in Requests : r # Only => req[r] \in {None, Gone}

Copies ==
    \A r \in Requests : req[r] \in Serving =>
        /\ req[r].loaded = rows[req[r].session]
        /\ req[r].at = "ensure" /\ req[r].found \in Names =>
              Named(req[r].found) = {} /\ rows[req[r].session].runtime = None

\* Every runtime is that of a draft which knows its runtime.
Owned ==
    /\ \A i \in DOMAIN runtimes :
          rows[runtimes[i].session] # None /\ rows[runtimes[i].session].runtime # None
    /\ \A i, j \in DOMAIN runtimes :
          i # j => /\ runtimes[i].session # runtimes[j].session
                   /\ runtimes[i].name # runtimes[j].name

\* What was asked is counted.
AskedInv ==
    \A s \in Sessions :
        /\ rows[s] = None => shown[s] = {}
        /\ rows[s] # None => shown[s] \subseteq Counted(rows[s].config)

SerialInv == ~ Exposed("race") => Alone /\ Copies /\ Owned /\ AskedInv

\* Without overlap a request writes what it has computed.
LEMMA SavedSerial ==
    ASSUME DraftsInv, Copies, NEW r \in Requests, req[r] \in Serving, NEW new \in Drafts,
           Save(r, req[r].session, new)
    PROVE  /\ req[r].session \in Sessions /\ rows[req[r].session] \in Drafts
           /\ rows[req[r].session] # None /\ req[r].loaded = rows[req[r].session]
           /\ rows' = [rows EXCEPT ![req[r].session] = new]
           /\ rows'[req[r].session] = new
           /\ \A t \in Sessions : t # req[r].session => rows'[t] = rows[t]
<1>1. PICK s \in Sessions : s = req[r].session
  BY Stages DEF Records
<1>2. rows[s] \in Drafts /\ rows[s] # None /\ req[r].loaded = rows[s]
  BY <1>1 DEF DraftsInv, TypeOK, Exists, Copies
<1>3. PICK row \in Drafts : row = rows[s]
  BY <1>2
<1>4. Flush(row, row, new) = new
  BY FlushSame
<1>5. rows' = [rows EXCEPT ![s] = new]
  BY <1>1, <1>2, <1>3, <1>4 DEF Save
<1>6. rows'[s] = new /\ \A t \in Sessions : t # s => rows'[t] = rows[t]
  BY <1>5 DEF DraftsInv, TypeOK
<1> QED
  BY <1>1, <1>2, <1>5, <1>6

\* Nobody else is under way.
LEMMA Lonely ==
    ASSUME TypeOK, Alone, NEW r \in Requests, Moves(r), r = Only
    PROVE  /\ Alone'
           /\ \A q \in Requests : q # r => req'[q] \notin Records /\ req[q] \notin Records
<1>1. \A q \in Requests : q # r => req'[q] = req[q] /\ req[q] \in {None, Gone}
  BY DEF Moves, TypeOK, Alone
<1>2. \A q \in Requests : q # r => req'[q] \notin Records /\ req[q] \notin Records
  BY <1>1, NotRecords
<1>3. Alone'
  BY <1>1 DEF Alone, Only
<1> QED
  BY <1>2, <1>3

\* Without overlap it is Only that steps.
LEMMA WhoSteps ==
    ASSUME Alone, ~ Exposed("race"), NEW r \in Requests, Steps(r)
    PROVE  /\ Moves(r) /\ hazards' = hazards
           /\ r = Only \/ QuitsQuietly(r)
           /\ req[r] \in Records => r = Only
<1>1. req[r] \in Records => r = Only
  BY NotRecords DEF Alone
<1>2. Moves(r) /\ hazards' = hazards
  BY DEF Steps, Begins, OpensOn, ServesOn, QuitsQuietly, Skips, Creates, Speaks, Ensures, Closes, Quits
<1>3. r = Only \/ QuitsQuietly(r)
  BY <1>1 DEF Steps, Begins, OpensOn, ServesOn, Skips, Creates, Speaks, Ensures, Closes,
              Records, Serving, Exposed
<1> QED
  BY <1>1, <1>2, <1>3

\* Runtimes keep their drafts, and a new one is that of a draft without one.
LEMMA OwnedSame ==
    ASSUME DraftsInv, Owned, Grows, runtimes' = runtimes
    PROVE  Owned'
<1>1. \A i \in DOMAIN runtimes : runtimes[i].session \in Sessions
  BY RuntimeIds DEF DraftsInv
<1>2. \A i \in DOMAIN runtimes :
         rows'[runtimes[i].session] # None /\ rows'[runtimes[i].session].runtime # None
  BY <1>1 DEF Owned, Grows
<1> QED
  BY <1>2 DEF Owned

LEMMA OwnedMore ==
    ASSUME DraftsInv, Owned, Grows, NEW s \in Sessions, NEW n \in Names, Named(n) = {},
           rows[s].runtime = None, rows'[s] # None, rows'[s].runtime # None,
           runtimes' = Append(runtimes, [session |-> s, name |-> n])
    PROVE  Owned'
<1> DEFINE T == [session: Sessions, name: Names]
<1>1. PICK x \in T : x = [session |-> s, name |-> n]
  OBVIOUS
<1>2. runtimes \in Seq(T) /\ runtimes' = Append(runtimes, x) /\ x.session = s /\ x.name = n
  BY <1>1 DEF DraftsInv, TypeOK
<1>3. \A i \in DOMAIN runtimes : runtimes[i].session \in Sessions
  BY RuntimeIds DEF DraftsInv
<1> HIDE DEF T
<1>4. PICK m \in Nat : m = Len(runtimes) + 1
  BY <1>2
<1>5. /\ DOMAIN runtimes' = DOMAIN runtimes \cup {m} /\ m \notin DOMAIN runtimes
      /\ \A i \in DOMAIN runtimes : runtimes'[i] = runtimes[i]
      /\ runtimes'[m] = x
  BY <1>2, <1>4
<1>6. \A i \in DOMAIN runtimes : runtimes[i].session # s /\ runtimes[i].name # n
  BY DEF Owned, Named
<1>7. \A i \in DOMAIN runtimes' :
         rows'[runtimes'[i].session] # None /\ rows'[runtimes'[i].session].runtime # None
  BY <1>2, <1>3, <1>5 DEF Owned, Grows
<1>8. \A i, j \in DOMAIN runtimes' :
         i # j => /\ runtimes'[i].session # runtimes'[j].session
                  /\ runtimes'[i].name # runtimes'[j].name
  BY <1>2, <1>5, <1>6 DEF Owned
<1> QED
  BY <1>7, <1>8 DEF Owned

LEMMA SerialStep ==
    ASSUME DraftsInv, Alone, Copies, Owned, AskedInv, ~ Exposed("race"), NEW r \in Requests, Steps(r)
    PROVE  Alone' /\ Copies' /\ Owned' /\ AskedInv'
<1>0. TypeOK /\ Moves(r)
  BY WhoSteps DEF DraftsInv
<1>g. Grows
  BY StepKeeps
<1>1. CASE QuitsQuietly(r)
  <2>1. \A q \in Requests : q # r => req'[q] = req[q]
    BY <1>0 DEF Moves, TypeOK
  <2>2. req'[r] \in {None, Gone} /\ req'[r] \notin Serving
    BY <1>1, NotRecords DEF QuitsQuietly, Quits, Records
  <2>3. Alone'
    BY <2>1, <2>2 DEF Alone, Only
  <2>4. Copies'
    BY <1>1, <2>1, <2>2 DEF Copies, QuitsQuietly, Named
  <2>5. Owned' /\ AskedInv'
    BY <1>1 DEF QuitsQuietly, Owned, AskedInv
  <2> QED
    BY <2>3, <2>4, <2>5
<1>2. CASE r = Only
  <2>0. Alone' /\ \A q \in Requests : q # r => req'[q] \notin Records /\ req[q] \notin Records
    BY <1>0, <1>2, Lonely
  <2>1. \A q \in Requests : req'[q] \in Serving => q = r
    BY <2>0 DEF Records
  <2>2. ASSUME Quits(r) PROVE Copies'
    <3>1. req'[r] \notin Serving
      BY <2>2, NotRecords DEF Quits, Records
    <3> QED
      BY <2>1, <3>1 DEF Copies
  <2>3. CASE Begins(r)
    <3>1. Copies'
      <4>1. req'[r] \in Serving => /\ req'[r].loaded = rows[req'[r].session]
                                   /\ req'[r].at \in {"model", "search"}
        BY <2>3, NotRecords DEF Begins
      <4> QED
        BY <2>1, <2>3, <4>1 DEF Begins, Copies
    <3>2. Owned' /\ AskedInv'
      BY <2>3 DEF Begins, Owned, AskedInv
    <3> QED
      BY <2>0, <3>1, <3>2
  <2>4. CASE OpensOn(r)
    <3>1. Copies'
      BY <2>1, <2>4, NotRecords DEF OpensOn, Copies
    <3>2. Owned'
      BY <1>g, <2>4, OwnedSame DEF OpensOn
    <3>3. AskedInv'
      <4> SUFFICES ASSUME NEW s \in Sessions
                   PROVE  /\ rows'[s] = None => shown'[s] = {}
                          /\ rows'[s] # None => shown'[s] \subseteq Counted(rows'[s].config)
        BY DEF AskedInv
      <4>1. /\ rows'[s] = None <=> rows[s] = None
            /\ rows[s] # None => rows'[s].config = rows[s].config
        BY <1>0, <2>4, CancelledRows DEF OpensOn
      <4> QED
        BY <2>4, <4>1 DEF AskedInv, OpensOn
    <3> QED
      BY <2>0, <3>1, <3>2, <3>3
  <2>5. CASE ServesOn(r)
    <3>1. Copies'
      <4>1. /\ req[r] \in Serving /\ req'[r].loaded = req[r].loaded /\ req'[r].session = req[r].session
            /\ rows' = rows /\ runtimes' = runtimes
            /\ req'[r].at = "ensure" /\ req'[r].found \in Names =>
                  Named(req'[r].found) = {} /\ req[r].loaded.runtime = None
        BY <2>5 DEF ServesOn
      <4>2. req[r].loaded = rows[req[r].session]
        BY <4>1 DEF Copies
      <4>3. \A n \in Names : Named(n)' = Named(n)
        BY <4>1 DEF Named
      <4>4. PICK d : d = req'[r]
        OBVIOUS
      <4>5. /\ d.loaded = rows[d.session]
            /\ d.at = "ensure" /\ d.found \in Names =>
                  Named(d.found) = {} /\ rows[d.session].runtime = None
        BY <4>1, <4>2, <4>4
      <4>6. \A q \in Requests : req'[q] \in Serving => req'[q] = d
        BY <2>1, <4>4
      <4> QED
        BY <4>1, <4>5, <4>6 DEF Copies, Named
    <3>2. Owned' /\ AskedInv'
      BY <2>5 DEF ServesOn, Owned, AskedInv
    <3> QED
      BY <2>0, <3>1, <3>2
  <2>6. CASE Skips(r)
    <3>1. Owned'
      BY <1>g, <2>6, OwnedSame DEF Skips
    <3>2. AskedInv'
      <4>0. shown' = shown /\ Len(runtimes) \in Nat
        BY <1>0, <2>6, RuntimeIds DEF Skips
      <4>1. CASE rows' = rows
        BY <4>0, <4>1 DEF AskedInv
      <4>2. ASSUME NEW s \in Sessions, Active(s),
                   rows' = [rows EXCEPT ![s] = CompletedWith(rows[s], Len(runtimes))]
            PROVE  AskedInv'
        <5>1. PICK row \in Drafts, new \in Drafts :
                 row = rows[s] /\ new = CompletedWith(row, Len(runtimes)) /\ Counted(new.config) = Counted(row.config)
          BY <1>0, <4>0, <4>2, CompletedFields DEF Active, Exists, TypeOK
        <5>2. rows'[s] = new /\ \A t \in Sessions : t # s => rows'[t] = rows[t]
          BY <1>0, <4>2, <5>1 DEF TypeOK
        <5> QED
          BY <4>0, <4>2, <5>1, <5>2, NotRecords DEF AskedInv, Active, Exists
      <4>3. ASSUME NEW s \in Sessions, NEW new \in Drafts, ~ Exists(s), rows' = [rows EXCEPT ![s] = new]
            PROVE  AskedInv'
        <5>1. rows'[s] = new /\ \A t \in Sessions : t # s => rows'[t] = rows[t]
          BY <1>0, <4>3 DEF TypeOK
        <5> QED
          BY <4>0, <4>3, <5>1, NotRecords DEF AskedInv, Exists
      <4> QED
        BY <2>6, <4>1, <4>2, <4>3 DEF Skips
    <3> QED
      BY <2>0, <2>2, <2>6, <3>1, <3>2 DEF Skips
  <2>7. CASE Creates(r)
    <3>1. Owned'
      BY <1>g, <2>7, OwnedSame DEF Creates
    <3>2. PICK s \in Sessions, new \in Drafts :
            /\ rows' = [rows EXCEPT ![s] = new]
            /\ shown' = [shown EXCEPT ![s] = new.config.asked]
            /\ new.config.asked \subseteq Counted(new.config)
      BY <2>7 DEF Creates
    <3>3. /\ rows'[s] = new /\ shown'[s] = new.config.asked
          /\ \A t \in Sessions : t # s => rows'[t] = rows[t] /\ shown'[t] = shown[t]
      BY <1>0, <3>2 DEF TypeOK
    <3>4. AskedInv'
      BY <3>2, <3>3, NotRecords DEF AskedInv
    <3> QED
      BY <2>0, <2>2, <2>7, <3>1, <3>4 DEF Creates
  <2>8. CASE Speaks(r)
    <3>1. Owned'
      BY <1>g, <2>8, OwnedSame DEF Speaks
    <3>2. PICK new \in Drafts, some \in SUBSET Questions :
            /\ Save(r, req[r].session, new)
            /\ Counted(req[r].loaded.config) \subseteq Counted(new.config)
            /\ some \subseteq Counted(new.config)
            /\ shown' = [shown EXCEPT ![req[r].session] = shown[req[r].session] \cup some]
      BY <2>8, Zenon DEF Speaks
    <3>3. PICK s \in Sessions : /\ s = req[r].session /\ rows[s] # None /\ req[r].loaded = rows[s]
                                /\ rows'[s] = new
                                /\ \A t \in Sessions : t # s => rows'[t] = rows[t]
      BY <2>8, <3>2, SavedSerial DEF Speaks, Serving
    <3>4. /\ shown'[s] = shown[s] \cup some
          /\ \A t \in Sessions : t # s => shown'[t] = shown[t]
      BY <1>0, <3>2, <3>3 DEF TypeOK
    <3>5. AskedInv'
      BY <3>2, <3>3, <3>4, NotRecords DEF AskedInv
    <3> QED
      BY <2>0, <2>2, <2>8, <3>1, <3>5 DEF Speaks
  <2>9. CASE Closes(r)
    <3>1. Owned'
      BY <1>g, <2>9, OwnedSame DEF Closes
    <3>2. PICK new \in Drafts : /\ Save(r, req[r].session, new)
                                /\ new.config = req[r].loaded.config
      BY <2>9, Zenon DEF Closes
    <3>3. PICK s \in Sessions : /\ s = req[r].session /\ rows[s] # None /\ req[r].loaded = rows[s]
                                /\ rows'[s] = new
                                /\ \A t \in Sessions : t # s => rows'[t] = rows[t]
      BY <2>9, <3>2, SavedSerial DEF Closes, Serving
    <3>4. AskedInv'
      BY <2>9, <3>2, <3>3, NotRecords DEF AskedInv, Closes
    <3> QED
      BY <2>0, <2>2, <2>9, <3>1, <3>4 DEF Closes
  <2>10. CASE Ensures(r)
    <3>1. req[r] \in Serving /\ req[r].at = "ensure" /\ shown' = shown
      BY <2>10 DEF Ensures
    <3>2. PICK id \in DOMAIN runtimes' :
            /\ Save(r, req[r].session, CompletedWith(req[r].loaded, id))
            /\ \/ /\ req[r].found \in Names
                  /\ runtimes' = Append(runtimes, [session |-> req[r].session, name |-> req[r].found])
               \/ req[r].found \notin Names /\ runtimes' = runtimes
            /\ \/ Quits(r)
               \/ /\ Moves(r) /\ req[r] \in Speaking /\ req'[r] \in Speaking
                  /\ req'[r].at = "closing" /\ req'[r].loaded = CompletedWith(req[r].loaded, id)
                  /\ req'[r].session = req[r].session
      BY <2>10, Zenon DEF Ensures
    <3>3. id \in Nat /\ id # None
      <4>1. runtimes' \in Seq([session: Sessions, name: Names])
        BY StepKeeps DEF DraftsInv, TypeOK
      <4>2. DOMAIN runtimes' = 1 .. Len(runtimes') /\ Len(runtimes') \in Nat
        BY <4>1, LenProperties
      <4> QED
        BY <4>2, OnboardingOK
    <3>4. PICK was \in Drafts : was = req[r].loaded
      BY <3>1, Stages DEF Records
    <3>5. PICK new \in Drafts : /\ new = CompletedWith(was, id) /\ new.runtime = id
                                /\ Counted(new.config) = Counted(was.config)
      BY <3>3, CompletedFields
    <3>6. Save(r, req[r].session, new)
      BY <3>2, <3>4, <3>5
    <3>7. PICK s \in Sessions : /\ s = req[r].session /\ rows[s] # None /\ was = rows[s]
                                /\ rows'[s] = new
                                /\ \A t \in Sessions : t # s => rows'[t] = rows[t]
      BY <3>1, <3>4, <3>6, SavedSerial
    <3>8. AskedInv'
      BY <3>1, <3>5, <3>7, NotRecords DEF AskedInv
    <3>9. Owned'
      <4>1. CASE runtimes' = runtimes
        BY <1>g, <4>1, OwnedSame
      <4>2. CASE req[r].found \in Names /\ runtimes' = Append(runtimes, [session |-> req[r].session, name |-> req[r].found])
        <5>1. PICK n \in Names : n = req[r].found
          BY <4>2
        <5>2. Named(n) = {} /\ rows[s].runtime = None
          BY <3>1, <3>7, <5>1 DEF Copies
        <5>3. runtimes' = Append(runtimes, [session |-> s, name |-> n])
          BY <3>7, <4>2, <5>1
        <5>4. rows'[s] # None /\ rows'[s].runtime # None
          BY <3>3, <3>5, <3>7, NotRecords
        <5> QED
          BY <1>g, <5>2, <5>3, <5>4, OwnedMore
      <4> QED
        BY <3>2, <4>1, <4>2
    <3>10. Copies'
      <4>1. CASE Quits(r)
        BY <2>2, <4>1
      <4>2. CASE /\ req'[r].at = "closing" /\ req'[r].loaded = new
                 /\ req'[r].session = s
        BY <2>1, <3>7, <4>2 DEF Copies
      <4> QED
        BY <3>2, <3>4, <3>5, <3>7, <4>1, <4>2
    <3> QED
      BY <2>0, <3>8, <3>9, <3>10
  <2>11. \/ Begins(r) \/ OpensOn(r) \/ ServesOn(r) \/ QuitsQuietly(r)
         \/ Skips(r) \/ Creates(r) \/ Speaks(r) \/ Ensures(r) \/ Closes(r)
    BY DEF Steps
  <2> QED
    BY <1>1, <2>3, <2>4, <2>5, <2>6, <2>7, <2>8, <2>9, <2>10, <2>11
<1> QED
  BY <1>1, <1>2, WhoSteps

LEMMA SerialNext ==
    ASSUME DraftsInv, SerialInv, [Next]_vars
    PROVE  SerialInv'
<1>1. CASE UNCHANGED vars
  BY <1>1 DEF SerialInv, Alone, Copies, Owned, AskedInv, vars, Exposed, Named, Only
<1>2. ASSUME NEW r \in Requests, Steps(r) PROVE SerialInv'
  <2>1. hazards' = hazards
    BY <1>2 DEF Steps, Begins, OpensOn, ServesOn, QuitsQuietly, Skips, Creates, Speaks, Ensures, Closes
  <2>2. SUFFICES ASSUME ~ Exposed("race") PROVE Alone' /\ Copies' /\ Owned' /\ AskedInv'
    BY <2>1 DEF SerialInv, Exposed
  <2> QED
    BY <1>2, <2>2, SerialStep DEF SerialInv
<1> QED
  BY <1>1, <1>2, Cases

LEMMA SerialInit ==
    ASSUME Init
    PROVE  SerialInv
<1>1. \A r \in Requests : req[r] = None /\ req[r] \notin Serving
  BY NotRecords DEF Init, Records
<1>2. DOMAIN runtimes = {}
  BY DEF Init
<1>3. AskedInv
  BY DEF Init, AskedInv
<1>4. Alone /\ Copies /\ Owned
  BY <1>1, <1>2 DEF Alone, Copies, Owned
<1> QED
  BY <1>3, <1>4 DEF SerialInv

LEMMA SerialAlways == Spec => [](DraftsInv /\ SerialInv)
<1>1. Init => DraftsInv /\ SerialInv
  BY DraftsInit, SerialInit
<1>2. DraftsInv /\ SerialInv /\ [Next]_vars => DraftsInv' /\ SerialInv'
  BY DraftsNext, SerialNext
<1> QED
  BY <1>1, <1>2, PTL DEF Spec

\* However often turns fail and are tried again, a draft is asked at most two
\* questions when requests do not overlap.
THEOREM TwoQuestionsAreAsked == Spec => []TwoQuestions
<1>1. DraftsInv /\ SerialInv => TwoQuestions
  <2> SUFFICES ASSUME DraftsInv, SerialInv, ~ Exposed("race"), NEW s \in Sessions
               PROVE  Cardinality(shown[s]) <= MaxQuestions
    BY DEF TwoQuestions
  <2>1. CASE rows[s] = None
    <3>1. shown[s] = {}
      BY <2>1 DEF SerialInv, AskedInv
    <3> QED
      BY <3>1, FS_EmptySet DEF MaxQuestions
  <2>2. CASE rows[s] # None
    <3>1. PICK c \in Configs : c = rows[s].config
      BY <2>2 DEF DraftsInv, TypeOK, Drafts
    <3>2. shown[s] \subseteq Counted(c) /\ Cardinality(Counted(c)) <= 2
      BY <2>2, <3>1 DEF SerialInv, AskedInv, DraftsInv, RowOK, Within, MaxQuestions
    <3>3. /\ IsFiniteSet(Counted(c)) /\ Cardinality(Counted(c)) \in Nat
      BY CountedFinite
    <3>4. Cardinality(shown[s]) <= Cardinality(Counted(c)) /\ IsFiniteSet(shown[s])
      BY <3>2, <3>3, FS_Subset
    <3>5. Cardinality(shown[s]) \in Nat
      BY <3>4, FS_CardinalityType
    <3> QED
      BY <3>2, <3>3, <3>4, <3>5 DEF MaxQuestions
  <2> QED
    BY <2>1, <2>2
<1> QED
  BY <1>1, SerialAlways, PTL

\* A completed draft has a runtime; requests that do not overlap make at most
\* one for a draft, and none under a name that is taken.
THEOREM DraftsHaveOneRuntime == Spec => []OneRuntimePerDraft
<1>1. DraftsInv /\ SerialInv => OneRuntimePerDraft
  <2> SUFFICES ASSUME DraftsInv, SerialInv PROVE OneRuntimePerDraft
    OBVIOUS
  <2>1. ASSUME NEW s \in Sessions, Exists(s), rows[s].state = "completed"
        PROVE  rows[s].runtime \in DOMAIN runtimes
    BY <2>1 DEF DraftsInv, RowOK, Exists
  <2>2. ASSUME ~ Exposed("race"), NEW i \in DOMAIN runtimes, NEW j \in DOMAIN runtimes, i # j
        PROVE  /\ runtimes[i].session # runtimes[j].session
               /\ runtimes[i].name # runtimes[j].name
    BY <2>2 DEF SerialInv, Owned
  <2> QED
    BY <2>1, <2>2, Zenon DEF OneRuntimePerDraft
<1> QED
  BY <1>1, SerialAlways, PTL

-----------------------------------------------------------------------------
(* One active draft.                                                       *)

\* One draft is active; whoever is about to create one has found none; what is
\* spoken about was neither cancelled nor, before it is closed, completed.
OnceActive ==
    /\ \A s, t \in Sessions : Active(s) /\ Active(t) => s = t
    /\ \A r \in Requests :
        /\ req[r] \in Opening =>
              /\ req[r].at = "look" /\ req[r].reset => ActiveOnes = {}
              /\ req[r].at = "model" => ActiveOnes = {}
        /\ req[r] \in Serving => req[r].loaded.state # "cancelled"
        /\ req[r] \in Speaking /\ req[r].at # "closing" => req[r].loaded.state # "completed"

ActiveInv == ~ Exposed("race") /\ ~ Exposed("stale") => OnceActive

\* What is settled keeps its state.
Settles ==
    \A s \in Sessions : Exists(s) /\ ~ Active(s) => rows'[s].state = rows[s].state

\* One row is written, and it was active or is not.
LEMMA OneWritten ==
    ASSUME TypeOK, NEW s \in Sessions, NEW new \in Drafts, rows'[s] = new,
           \A t \in Sessions : t # s => rows'[t] = rows[t],
           \A t, u \in Sessions : Active(t) /\ Active(u) => t = u,
           Active(s) \/ new.state \in Settled \/ ActiveOnes = {},
           rows[s] # None /\ ~ Active(s) => new.state = rows[s].state
    PROVE  /\ \A t, u \in Sessions : Active(t)' /\ Active(u)' => t = u
           /\ Settles
<1>1. Active(s)' <=> new.state \notin Settled
  BY NotRecords DEF Active, Exists
<1>2. \A t \in Sessions : t # s => (Active(t)' <=> Active(t))
  BY DEF Active, Exists
<1>3. ActiveOnes = {} => \A t \in Sessions : ~ Active(t)
  BY DEF ActiveOnes
<1>4. \A t, u \in Sessions : Active(t)' /\ Active(u)' => t = u
  BY <1>1, <1>2, <1>3
<1>5. Settles
  BY DEF Settles, Exists
<1> QED
  BY <1>4, <1>5

LEMMA SameActive ==
    ASSUME rows' = rows
    PROVE  /\ \A s \in Sessions : Active(s)' <=> Active(s)
           /\ ActiveOnes' = ActiveOnes
           /\ Settles
<1>1. \A s \in Sessions : Active(s)' <=> Active(s)
  BY DEF Active, Exists
<1> QED
  BY <1>1 DEF ActiveOnes, Settles

LEMMA ActiveStep ==
    ASSUME DraftsInv, Alone, Copies, OnceActive, ~ Exposed("race"), ~ Exposed("stale"),
           NEW r \in Requests, Steps(r)
    PROVE  OnceActive' /\ Settles
<1>0. TypeOK /\ Moves(r)
  BY WhoSteps DEF DraftsInv
<1>1. CASE QuitsQuietly(r)
  <2>1. \A q \in Requests : q # r => req'[q] = req[q]
    BY <1>0 DEF Moves, TypeOK
  <2>2. req'[r] \notin Serving /\ req'[r] \notin Opening /\ req'[r] \notin Speaking
    BY <1>1, NotRecords DEF QuitsQuietly, Quits, Records, Serving
  <2>3. rows' = rows
    BY <1>1 DEF QuitsQuietly
  <2> QED
    BY <2>1, <2>2, <2>3, SameActive DEF OnceActive
<1>2. CASE r = Only
  <2>0. \A q \in Requests : q # r => req'[q] \notin Serving /\ req'[q] \notin Opening /\ req'[q] \notin Speaking
    BY <1>0, <1>2, Lonely DEF Records, Serving
  <2>1. ASSUME Quits(r), \A t, u \in Sessions : Active(t)' /\ Active(u)' => t = u
        PROVE  OnceActive'
    <3>1. req'[r] \notin Serving /\ req'[r] \notin Opening /\ req'[r] \notin Speaking
      BY <2>1, NotRecords DEF Quits, Records, Serving
    <3> QED
      BY <2>0, <2>1, <3>1 DEF OnceActive
  <2>2. \A t, u \in Sessions : Active(t) /\ Active(u) => t = u
    BY DEF OnceActive
  <2>3. CASE Begins(r)
    <3>1. rows' = rows
      BY <2>3 DEF Begins
    <3>2. req'[r] \in Opening => req'[r].at # "model" /\ (req'[r].at = "look" => ~ req'[r].reset)
      BY <2>3, NotRecords DEF Begins
    <3>3. req'[r] \in Serving => req'[r].loaded.state # "cancelled"
      BY <2>3, NotRecords DEF Begins
    <3>4. req'[r] \in Speaking => req'[r].loaded.state # "completed"
      BY <2>3, NotRecords DEF Begins, Serving
    <3> QED
      BY <2>0, <2>2, <3>1, <3>2, <3>3, <3>4, SameActive DEF OnceActive
  <2>4. CASE OpensOn(r)
    <3>0. req[r] \in Opening /\ req'[r] \in Opening /\ req'[r] \notin Serving /\ req'[r] \notin Speaking
      BY <2>4, NotRecords DEF OpensOn, Serving
    <3>1. CASE rows' = Cancelled
      <4>1. ASSUME NEW s \in Sessions
            PROVE  ~ Active(s)' /\ (Exists(s) /\ ~ Active(s) => rows'[s].state = rows[s].state)
        <5>1. PICK row : row = rows'[s]
          OBVIOUS
        <5>2. /\ row # None <=> rows[s] # None
              /\ rows[s] # None => row.state = IF Active(s) THEN "cancelled" ELSE rows[s].state
          BY <1>0, <3>1, <5>1, CancelledRows
        <5> QED
          BY <5>1, <5>2 DEF Active, Exists, Settled
      <4>2. ActiveOnes' = {}
        BY <4>1 DEF ActiveOnes
      <4> QED
        BY <2>0, <3>0, <4>1, <4>2 DEF OnceActive, Settles
    <3>2. CASE /\ rows' = rows
               /\ req[r].at = "look" /\ req'[r].at = "model"
               /\ req[r].reset \/ ActiveOnes = {}
      <4>1. ActiveOnes = {}
        BY <3>0, <3>2 DEF OnceActive
      <4> QED
        BY <2>0, <2>2, <3>0, <3>2, <4>1, SameActive DEF OnceActive
    <3> QED
      BY <2>4, <3>1, <3>2 DEF OpensOn
  <2>5. CASE ServesOn(r)
    <3>1. /\ req[r] \in Serving /\ req'[r] \in Serving /\ req'[r] \notin Opening
          /\ req'[r].loaded = req[r].loaded
          /\ req'[r] \in Speaking <=> req[r] \in Speaking
          /\ req[r].at # "closing" /\ rows' = rows
      BY <2>5, NotRecords DEF ServesOn
    <3>2. /\ req'[r].loaded.state # "cancelled"
          /\ req'[r] \in Speaking => req'[r].loaded.state # "completed"
      BY <3>1 DEF OnceActive
    <3> QED
      BY <2>0, <2>2, <3>1, <3>2, SameActive DEF OnceActive
  <2>6. CASE Skips(r)
    <3>0. Quits(r) /\ Len(runtimes) \in Nat
      BY <1>0, <2>6, RuntimeIds DEF Skips
    <3>1. CASE rows' = rows
      BY <2>1, <2>2, <3>0, <3>1, SameActive
    <3>2. ASSUME NEW s \in Sessions, Active(s),
                 rows' = [rows EXCEPT ![s] = CompletedWith(rows[s], Len(runtimes))]
          PROVE  OnceActive' /\ Settles
      <4>1. PICK row \in Drafts, new \in Drafts :
               row = rows[s] /\ new = CompletedWith(row, Len(runtimes))
        BY <1>0, <3>0, <3>2, CompletedFields DEF Active, Exists, TypeOK
      <4>2. rows'[s] = new /\ \A t \in Sessions : t # s => rows'[t] = rows[t]
        BY <1>0, <3>2, <4>1 DEF TypeOK
      <4>3. /\ \A t, u \in Sessions : Active(t)' /\ Active(u)' => t = u
            /\ Settles
        BY <1>0, <2>2, <3>2, <4>2, OneWritten
      <4> QED
        BY <2>1, <3>0, <4>3
    <3>3. ASSUME NEW s \in Sessions, NEW new \in Drafts, ~ Exists(s), rows' = [rows EXCEPT ![s] = new],
                 ActiveOnes = {}
          PROVE  OnceActive' /\ Settles
      <4>1. rows'[s] = new /\ \A t \in Sessions : t # s => rows'[t] = rows[t]
        BY <1>0, <3>3 DEF TypeOK
      <4>2. /\ \A t, u \in Sessions : Active(t)' /\ Active(u)' => t = u
            /\ Settles
        BY <1>0, <2>2, <3>3, <4>1, OneWritten DEF Exists
      <4> QED
        BY <2>1, <3>0, <4>2
    <3> QED
      BY <2>6, <3>1, <3>2, <3>3 DEF Skips
  <2>7. CASE Creates(r)
    <3>1. PICK s \in Sessions, new \in Drafts : ~ Exists(s) /\ rows' = [rows EXCEPT ![s] = new]
      BY <2>7 DEF Creates
    <3>2. ActiveOnes = {} /\ Quits(r)
      BY <2>7 DEF Creates, OnceActive
    <3>3. rows'[s] = new /\ \A t \in Sessions : t # s => rows'[t] = rows[t]
      BY <1>0, <3>1 DEF TypeOK
    <3>4. /\ \A t, u \in Sessions : Active(t)' /\ Active(u)' => t = u
          /\ Settles
      BY <1>0, <2>2, <3>1, <3>2, <3>3, OneWritten DEF Exists
    <3> QED
      BY <2>1, <3>2, <3>4
  <2>8. CASE Speaks(r)
    <3>1. PICK new \in Drafts : Save(r, req[r].session, new)
      BY <2>8, Zenon DEF Speaks
    <3>2. PICK s \in Sessions : /\ s = req[r].session /\ rows[s] # None /\ req[r].loaded = rows[s]
                                /\ rows'[s] = new
                                /\ \A t \in Sessions : t # s => rows'[t] = rows[t]
      BY <2>8, <3>1, SavedSerial DEF Speaks, Serving
    <3>3. Active(s)
      BY <2>8, <3>2 DEF OnceActive, Speaks, Serving, Active, Exists, Settled
    <3>4. /\ \A t, u \in Sessions : Active(t)' /\ Active(u)' => t = u
          /\ Settles
      BY <1>0, <2>2, <3>2, <3>3, OneWritten
    <3> QED
      BY <2>1, <2>8, <3>4 DEF Speaks
  <2>9. CASE Closes(r)
    <3>1. PICK new \in Drafts : /\ Save(r, req[r].session, new)
                                /\ new.state = req[r].loaded.state
      BY <2>9, Zenon DEF Closes
    <3>2. PICK s \in Sessions : /\ s = req[r].session /\ rows[s] # None /\ req[r].loaded = rows[s]
                                /\ rows'[s] = new
                                /\ \A t \in Sessions : t # s => rows'[t] = rows[t]
      BY <2>9, <3>1, SavedSerial DEF Closes, Serving
    <3>3. Active(s) \/ new.state \in Settled
      BY <3>1, <3>2 DEF Active, Exists
    <3>4. /\ \A t, u \in Sessions : Active(t)' /\ Active(u)' => t = u
          /\ Settles
      BY <1>0, <2>2, <3>1, <3>2, <3>3, OneWritten
    <3> QED
      BY <2>1, <2>9, <3>4 DEF Closes
  <2>10. CASE Ensures(r)
    <3>1. req[r] \in Serving
      BY <2>10 DEF Ensures
    <3>2. PICK id \in DOMAIN runtimes' :
            /\ Save(r, req[r].session, CompletedWith(req[r].loaded, id))
            /\ \/ Quits(r)
               \/ /\ req'[r] \in Speaking
                  /\ req'[r].at = "closing" /\ req'[r].loaded = CompletedWith(req[r].loaded, id)
      BY <2>10, Zenon DEF Ensures
    <3>3. id \in Nat
      <4>1. runtimes' \in Seq([session: Sessions, name: Names])
        BY StepKeeps DEF DraftsInv, TypeOK
      <4>2. DOMAIN runtimes' = 1 .. Len(runtimes') /\ Len(runtimes') \in Nat
        BY <4>1, LenProperties
      <4> QED
        BY <4>2
    <3>4. PICK was \in Drafts : was = req[r].loaded
      BY <3>1, Stages DEF Records
    <3>5. PICK new \in Drafts : new = CompletedWith(was, id) /\ new.state = "completed"
      BY <3>3, CompletedFields
    <3>6. Save(r, req[r].session, new)
      BY <3>2, <3>4, <3>5
    <3>7. PICK s \in Sessions : /\ s = req[r].session /\ rows[s] # None /\ was = rows[s]
                                /\ rows'[s] = new
                                /\ \A t \in Sessions : t # s => rows'[t] = rows[t]
      BY <3>1, <3>4, <3>6, SavedSerial
    <3>8. was.state # "cancelled"
      BY <3>1, <3>4 DEF OnceActive
    <3>9. new.state \in Settled /\ (~ Active(s) => new.state = rows[s].state)
      BY <3>5, <3>7, <3>8 DEF Active, Exists, Settled
    <3>10. /\ \A t, u \in Sessions : Active(t)' /\ Active(u)' => t = u
           /\ Settles
      BY <1>0, <2>2, <3>7, <3>9, OneWritten
    <3>11. CASE Quits(r)
      BY <2>1, <3>10, <3>11
    <3>12. CASE req'[r] \in Speaking /\ req'[r].at = "closing" /\ req'[r].loaded = new
      <4>1. req'[r] \notin Opening /\ req'[r].loaded.state # "cancelled"
        BY <3>5, <3>12, NotRecords DEF Serving
      <4> QED
        BY <2>0, <3>10, <3>12, <4>1 DEF OnceActive
    <3> QED
      BY <3>2, <3>4, <3>5, <3>11, <3>12
  <2>11. \/ Begins(r) \/ OpensOn(r) \/ ServesOn(r) \/ QuitsQuietly(r)
         \/ Skips(r) \/ Creates(r) \/ Speaks(r) \/ Ensures(r) \/ Closes(r)
    BY DEF Steps
  <2> QED
    BY <1>1, <2>3, <2>4, <2>5, <2>6, <2>7, <2>8, <2>9, <2>10, <2>11
<1> QED
  BY <1>1, <1>2, WhoSteps

LEMMA ActiveNext ==
    ASSUME DraftsInv, SerialInv, ActiveInv, [Next]_vars
    PROVE  /\ ActiveInv'
           /\ ~ Exposed("race") /\ ~ Exposed("stale") => OnceActive' /\ Settles
<1>1. CASE UNCHANGED vars
  <2>1. UNCHANGED <<hazards, rows, req>>
    BY <1>1 DEF vars
  <2> QED
    BY <2>1, SameActive DEF ActiveInv, OnceActive, Exposed
<1>2. ASSUME NEW r \in Requests, Steps(r)
      PROVE  /\ ActiveInv'
             /\ ~ Exposed("race") /\ ~ Exposed("stale") => OnceActive' /\ Settles
  <2>1. hazards' = hazards
    BY <1>2 DEF Steps, Begins, OpensOn, ServesOn, QuitsQuietly, Skips, Creates, Speaks, Ensures, Closes
  <2>2. ~ Exposed("race") /\ ~ Exposed("stale") => OnceActive' /\ Settles
    BY <1>2, ActiveStep DEF SerialInv, ActiveInv
  <2> QED
    BY <2>1, <2>2 DEF ActiveInv, Exposed
<1> QED
  BY <1>1, <1>2, Cases

LEMMA ActiveInit ==
    ASSUME Init
    PROVE  ActiveInv
<1>1. \A r \in Requests : req[r] \notin Serving /\ req[r] \notin Opening /\ req[r] \notin Speaking
  BY NotRecords DEF Init, Records, Serving
<1>2. \A s \in Sessions : ~ Active(s)
  BY DEF Init, Active, Exists
<1> QED
  BY <1>1, <1>2 DEF ActiveInv, OnceActive

LEMMA AtMostOne ==
    ASSUME OnceActive'
    PROVE  Cardinality(ActiveOnes') <= 1
<1>1. CASE ActiveOnes' = {}
  BY <1>1, FS_EmptySet
<1>2. CASE ActiveOnes' # {}
  <2>1. PICK s : s \in ActiveOnes'
    BY <1>2
  <2>2. ActiveOnes' = {s}
    BY <2>1 DEF ActiveOnes, OnceActive
  <2>3. Cardinality({s}) = 1
    BY FS_Singleton
  <2> QED
    BY <2>2, <2>3
<1> QED
  BY <1>1, <1>2

\* A user has one active draft, and what was cancelled or completed is not
\* taken up again, as long as requests do not overlap and no page speaks of a
\* cancelled draft.
THEOREM OneDraftIsActive == Spec => OneActiveDraft
<1>1. Init => DraftsInv /\ SerialInv /\ ActiveInv
  BY DraftsInit, SerialInit, ActiveInit
<1>2. DraftsInv /\ SerialInv /\ ActiveInv /\ [Next]_vars => DraftsInv' /\ SerialInv' /\ ActiveInv'
  BY DraftsNext, SerialNext, ActiveNext
<1>3. DraftsInv /\ SerialInv /\ ActiveInv /\ [Next]_vars =>
        [~ Exposed("race") /\ ~ Exposed("stale") =>
            /\ Cardinality(ActiveOnes') <= 1
            /\ \A s \in Sessions :
                Exists(s) /\ ~ Active(s) => rows'[s].state = rows[s].state]_vars
  BY ActiveNext, AtMostOne DEF Settles
<1> QED
  BY <1>1, <1>2, <1>3, PTL DEF Spec, OneActiveDraft

-----------------------------------------------------------------------------
(* What was said stays said.                                               *)

\* Only the last turn of a conversation may have failed, and the message under
\* way is that one again or a new one.
InTurn ==
    /\ \A s \in Sessions : rows[s] # None => LastMayFail(rows[s].turns)
    /\ \A r \in Requests : req[r] \in Speaking =>
          /\ ~ Replays(req[r].loaded, req[r].key)
          /\ InOrder(req[r].loaded, req[r].key)

TurnsInv == ~ Exposed("race") /\ ~ Exposed("late") => InTurn

KeepsTurns(s) ==
    \A i \in DOMAIN rows[s].turns :
        rows[s].turns[i].ok => rows[s].turns[i] \in ToSet(rows'[s].turns)

LEMMA SameTurns ==
    ASSUME TypeOK, NEW s \in Sessions, rows[s] # None, rows'[s].turns = rows[s].turns
    PROVE  KeepsTurns(s)
BY DEF KeepsTurns, ToSet

\* A turn of a message that is in order.
LEMMA TurnAppended ==
    ASSUME NEW row \in Drafts, NEW k \in Keys, NEW ok \in BOOLEAN, LastMayFail(row.turns),
           ~ Replays(row, k), InOrder(row, k)
    PROVE  LET next == Append(Kept(row.turns, k), [key |-> k, ok |-> ok]) IN
           /\ LastMayFail(next)
           /\ \A i \in DOMAIN row.turns : row.turns[i].ok => row.turns[i] \in ToSet(next)
<1> DEFINE next == Append(Kept(row.turns, k), [key |-> k, ok |-> ok])
<1>1. PICK turns \in Seq(Turns) : turns = row.turns
  BY DEF Drafts
<1>2. /\ LastMayFail(turns)
      /\ ~ (TurnOf(turns, k) > 0 /\ turns[TurnOf(turns, k)].ok)
      /\ Len(turns) > 0 /\ ~ turns[Len(turns)].ok => turns[Len(turns)].key = k
  BY <1>1, Zenon DEF Replays, InOrder
<1>3. /\ LastMayFail(next)
      /\ \A i \in 1 .. Len(turns) : turns[i].ok => \E j \in 1 .. Len(next) : next[j] = turns[i]
  BY <1>1, <1>2, NextTurn
<1>4. next \in Seq(Turns)
  BY SaidFields
<1> HIDE DEF next
<1>5. DOMAIN next = 1 .. Len(next) /\ DOMAIN turns = 1 .. Len(turns)
  BY <1>4, LenProperties
<1>6. \A i \in DOMAIN turns : turns[i].ok => turns[i] \in ToSet(next)
  BY <1>3, <1>5 DEF ToSet
<1> QED
  BY <1>1, <1>3, <1>6 DEF next

LEMMA TurnsStep ==
    ASSUME DraftsInv, Alone, Copies, InTurn, ~ Exposed("race"), ~ Exposed("late"),
           NEW r \in Requests, Steps(r)
    PROVE  /\ InTurn'
           /\ \A s \in Sessions : Exists(s) => KeepsTurns(s)
<1>0. TypeOK /\ Moves(r)
  BY WhoSteps DEF DraftsInv
<1>s. ASSUME \A s \in Sessions : rows[s] # None => rows'[s].turns = rows[s].turns
      PROVE  \A s \in Sessions : Exists(s) => KeepsTurns(s)
  BY <1>0, <1>s, SameTurns DEF Exists
<1>1. CASE QuitsQuietly(r)
  <2>1. \A q \in Requests : q # r => req'[q] = req[q]
    BY <1>0 DEF Moves, TypeOK
  <2>2. req'[r] \notin Speaking
    BY <1>1, NotRecords DEF QuitsQuietly, Quits, Records, Serving
  <2>3. rows' = rows
    BY <1>1 DEF QuitsQuietly
  <2>4. InTurn'
    BY <2>1, <2>2, <2>3 DEF InTurn
  <2> QED
    BY <1>s, <2>3, <2>4
<1>2. CASE r = Only
  <2>0. \A q \in Requests : q # r => req'[q] \notin Speaking
    BY <1>0, <1>2, Lonely DEF Records, Serving
  <2>1. ASSUME req'[r] \notin Speaking, \A s \in Sessions : rows'[s] # None => LastMayFail(rows'[s].turns)
        PROVE  InTurn'
    BY <2>0, <2>1 DEF InTurn
  <2>2. \A s \in Sessions : rows[s] # None => LastMayFail(rows[s].turns)
    BY DEF InTurn
  <2>3. Quits(r) => req'[r] \notin Speaking
    BY NotRecords DEF Quits, Records, Serving
  <2>4. CASE Begins(r)
    <3>1. rows' = rows
      BY <2>4 DEF Begins
    <3>2. req'[r] \in Speaking => /\ ~ Replays(req'[r].loaded, req'[r].key)
                                  /\ InOrder(req'[r].loaded, req'[r].key)
      BY <2>4, NotRecords DEF Begins, Serving, Exposed
    <3>3. InTurn'
      BY <2>0, <2>2, <3>1, <3>2 DEF InTurn, Replays, InOrder
    <3> QED
      BY <1>s, <3>1, <3>3
  <2>5. CASE OpensOn(r)
    <3>1. req'[r] \notin Speaking
      BY <2>5, NotRecords DEF OpensOn, Serving
    <3>2. ASSUME NEW s \in Sessions
          PROVE  /\ rows'[s] # None <=> rows[s] # None
                 /\ rows[s] # None => rows'[s].turns = rows[s].turns
      BY <1>0, <2>5, CancelledRows DEF OpensOn
    <3>3. InTurn'
      BY <2>1, <2>2, <3>1, <3>2
    <3> QED
      BY <1>s, <3>2, <3>3
  <2>6. CASE ServesOn(r)
    <3>1. PICK d, e : d = req[r] /\ e = req'[r]
      OBVIOUS
    <3>2. rows' = rows /\ d.loaded = e.loaded /\ (e \in Speaking => d \in Speaking /\ d.key = e.key)
      BY <2>6, <3>1 DEF ServesOn
    <3>3. e \in Speaking => ~ Replays(e.loaded, e.key) /\ InOrder(e.loaded, e.key)
      BY <3>1, <3>2 DEF InTurn
    <3>4. InTurn'
      BY <2>0, <2>2, <3>1, <3>2, <3>3 DEF InTurn
    <3> QED
      BY <1>s, <3>2, <3>4
  <2>7. CASE Skips(r)
    <3>0. req'[r] \notin Speaking /\ Len(runtimes) \in Nat
      BY <1>0, <2>3, <2>7, RuntimeIds DEF Skips
    <3>1. CASE rows' = rows
      BY <1>s, <2>1, <2>2, <3>0, <3>1
    <3>2. ASSUME NEW s \in Sessions, Active(s),
                 rows' = [rows EXCEPT ![s] = CompletedWith(rows[s], Len(runtimes))]
          PROVE  InTurn' /\ \A t \in Sessions : Exists(t) => KeepsTurns(t)
      <4>1. PICK row \in Drafts, new \in Drafts :
               row = rows[s] /\ new = CompletedWith(row, Len(runtimes)) /\ new.turns = row.turns
        BY <1>0, <3>0, <3>2, CompletedFields DEF Active, Exists, TypeOK
      <4>2. rows'[s] = new /\ \A t \in Sessions : t # s => rows'[t] = rows[t]
        BY <1>0, <3>2, <4>1 DEF TypeOK
      <4>3. rows[s] # None
        BY <3>2 DEF Active, Exists
      <4>4. \A t \in Sessions : rows[t] # None => rows'[t].turns = rows[t].turns
        BY <4>1, <4>2
      <4>5. \A t \in Sessions : rows'[t] # None => LastMayFail(rows'[t].turns)
        BY <2>2, <4>1, <4>2, <4>3
      <4> QED
        BY <1>s, <2>1, <3>0, <4>4, <4>5
    <3>3. ASSUME NEW s \in Sessions, NEW new \in Drafts, ~ Exists(s), rows' = [rows EXCEPT ![s] = new],
                 new.turns = <<>>
          PROVE  InTurn' /\ \A t \in Sessions : Exists(t) => KeepsTurns(t)
      <4>1. rows'[s] = new /\ \A t \in Sessions : t # s => rows'[t] = rows[t]
        BY <1>0, <3>3 DEF TypeOK
      <4>2. LastMayFail(new.turns)
        <5>1. Len(<<>>) = 0
          OBVIOUS
        <5> QED
          BY <3>3, <5>1 DEF LastMayFail
      <4>3. \A t \in Sessions : rows[t] # None => rows'[t].turns = rows[t].turns
        BY <3>3, <4>1 DEF Exists
      <4>4. \A t \in Sessions : rows'[t] # None => LastMayFail(rows'[t].turns)
        BY <2>2, <4>1, <4>2
      <4> QED
        BY <1>s, <2>1, <3>0, <4>3, <4>4
    <3> QED
      BY <2>7, <3>1, <3>2, <3>3 DEF Skips
  <2>8. CASE Creates(r)
    <3>1. PICK s \in Sessions, new \in Drafts :
            ~ Exists(s) /\ rows' = [rows EXCEPT ![s] = new] /\ LastMayFail(new.turns)
      BY <2>8 DEF Creates
    <3>2. rows'[s] = new /\ \A t \in Sessions : t # s => rows'[t] = rows[t]
      BY <1>0, <3>1 DEF TypeOK
    <3>3. \A t \in Sessions : rows[t] # None => rows'[t].turns = rows[t].turns
      BY <3>1, <3>2 DEF Exists
    <3>4. \A t \in Sessions : rows'[t] # None => LastMayFail(rows'[t].turns)
      BY <2>2, <3>1, <3>2
    <3> QED
      BY <1>s, <2>1, <2>3, <2>8, <3>3, <3>4 DEF Creates
  <2>9. ASSUME Quits(r), req[r] \in Speaking, NEW new \in Drafts, NEW ok \in BOOLEAN,
               Save(r, req[r].session, new),
               new.turns = Append(Kept(req[r].loaded.turns, req[r].key), [key |-> req[r].key, ok |-> ok])
        PROVE  InTurn' /\ \A s \in Sessions : Exists(s) => KeepsTurns(s)
    <3>1. PICK s \in Sessions : /\ s = req[r].session /\ rows[s] # None /\ req[r].loaded = rows[s]
                                /\ rows'[s] = new /\ rows[s] \in Drafts
                                /\ \A t \in Sessions : t # s => rows'[t] = rows[t]
      BY <2>9, SavedSerial DEF Serving
    <3>2. PICK row \in Drafts, k \in Keys : row = rows[s] /\ k = req[r].key
      BY <2>9, <3>1 DEF Speaking
    <3>3. LastMayFail(row.turns) /\ ~ Replays(row, k) /\ InOrder(row, k)
      BY <2>2, <2>9, <3>1, <3>2 DEF InTurn
    <3>4. new.turns = Append(Kept(row.turns, k), [key |-> k, ok |-> ok])
      BY <2>9, <3>1, <3>2
    <3>5. /\ LastMayFail(new.turns)
          /\ \A i \in DOMAIN row.turns : row.turns[i].ok => row.turns[i] \in ToSet(new.turns)
      BY <3>3, <3>4, TurnAppended
    <3>6. \A t \in Sessions : rows'[t] # None => LastMayFail(rows'[t].turns)
      BY <2>2, <3>1, <3>5
    <3>7. \A t \in Sessions : Exists(t) => KeepsTurns(t)
      <4> SUFFICES ASSUME NEW t \in Sessions, Exists(t) PROVE KeepsTurns(t)
        OBVIOUS
      <4>1. CASE t = s
        BY <3>1, <3>2, <3>5, <4>1 DEF KeepsTurns
      <4>2. CASE t # s
        BY <1>0, <3>1, <4>2, SameTurns DEF Exists
      <4> QED
        BY <4>1, <4>2
    <3> QED
      BY <2>1, <2>3, <2>9, <3>6, <3>7
  <2>10. CASE Speaks(r)
    <3>1. PICK new \in Drafts, some \in SUBSET Questions, ok \in BOOLEAN :
            /\ Save(r, req[r].session, new)
            /\ new.turns = Append(Kept(req[r].loaded.turns, req[r].key), [key |-> req[r].key, ok |-> ok])
      BY <2>10, Zenon DEF Speaks
    <3>2. ok \in BOOLEAN
      BY <3>1
    <3> QED
      BY <2>9, <2>10, <3>1, <3>2 DEF Speaks
  <2>11. CASE Closes(r)
    <3>1. PICK new \in Drafts :
            /\ Save(r, req[r].session, new)
            /\ new.turns = Append(Kept(req[r].loaded.turns, req[r].key), [key |-> req[r].key, ok |-> TRUE])
      BY <2>11, Zenon DEF Closes
    <3> QED
      BY <2>9, <2>11, <3>1 DEF Closes
  <2>12. CASE Ensures(r)
    <3>1. req[r] \in Serving
      BY <2>12 DEF Ensures
    <3>2. PICK id \in DOMAIN runtimes' :
            /\ Save(r, req[r].session, CompletedWith(req[r].loaded, id))
            /\ \/ Quits(r)
               \/ /\ req[r] \in Speaking /\ req'[r].key = req[r].key
                  /\ req'[r].loaded = CompletedWith(req[r].loaded, id)
      BY <2>12, Zenon DEF Ensures
    <3>3. id \in Nat
      <4>1. runtimes' \in Seq([session: Sessions, name: Names])
        BY StepKeeps DEF DraftsInv, TypeOK
      <4>2. DOMAIN runtimes' = 1 .. Len(runtimes') /\ Len(runtimes') \in Nat
        BY <4>1, LenProperties
      <4> QED
        BY <4>2
    <3>4. PICK was \in Drafts : was = req[r].loaded
      BY <3>1, Stages DEF Records
    <3>5. PICK new \in Drafts : new = CompletedWith(was, id) /\ new.turns = was.turns
      BY <3>3, CompletedFields
    <3>6. Save(r, req[r].session, new)
      BY <3>2, <3>4, <3>5
    <3>7. PICK s \in Sessions : /\ s = req[r].session /\ rows[s] # None /\ was = rows[s]
                                /\ rows'[s] = new
                                /\ \A t \in Sessions : t # s => rows'[t] = rows[t]
      BY <3>1, <3>4, <3>6, SavedSerial
    <3>8. \A t \in Sessions : rows[t] # None => rows'[t].turns = rows[t].turns
      BY <3>5, <3>7
    <3>9. \A t \in Sessions : rows'[t] # None => LastMayFail(rows'[t].turns)
      BY <2>2, <3>5, <3>7
    <3>10. CASE Quits(r)
      BY <1>s, <2>1, <2>3, <3>8, <3>9, <3>10
    <3>11. CASE req[r] \in Speaking /\ req'[r].key = req[r].key /\ req'[r].loaded = new
      <4>1. ~ Replays(was, req[r].key) /\ InOrder(was, req[r].key)
        BY <3>4, <3>11 DEF InTurn
      <4>2. ~ Replays(new, req[r].key) /\ InOrder(new, req[r].key)
        BY <3>5, <4>1 DEF Replays, InOrder
      <4>3. PICK e : e = req'[r]
        OBVIOUS
      <4>4. ~ Replays(e.loaded, e.key) /\ InOrder(e.loaded, e.key)
        BY <3>11, <4>2, <4>3
      <4>5. InTurn'
        BY <2>0, <3>9, <4>3, <4>4 DEF InTurn
      <4> QED
        BY <1>s, <3>8, <4>5
    <3> QED
      BY <3>2, <3>4, <3>5, <3>10, <3>11
  <2>13. \/ Begins(r) \/ OpensOn(r) \/ ServesOn(r) \/ QuitsQuietly(r)
         \/ Skips(r) \/ Creates(r) \/ Speaks(r) \/ Ensures(r) \/ Closes(r)
    BY DEF Steps
  <2> QED
    BY <1>1, <2>4, <2>5, <2>6, <2>7, <2>8, <2>10, <2>11, <2>12, <2>13
<1> QED
  BY <1>1, <1>2, WhoSteps

LEMMA TurnsNext ==
    ASSUME DraftsInv, SerialInv, TurnsInv, [Next]_vars
    PROVE  /\ TurnsInv'
           /\ ~ Exposed("race") /\ ~ Exposed("late") =>
                \A s \in Sessions : Exists(s) => KeepsTurns(s)
<1>1. CASE UNCHANGED vars
  <2>1. UNCHANGED <<hazards, rows, req>>
    BY <1>1 DEF vars
  <2>2. TypeOK
    BY DEF DraftsInv
  <2> QED
    BY <2>1, <2>2, SameTurns DEF TurnsInv, InTurn, Exposed, Exists
<1>2. ASSUME NEW r \in Requests, Steps(r)
      PROVE  /\ TurnsInv'
             /\ ~ Exposed("race") /\ ~ Exposed("late") =>
                  InTurn' /\ \A s \in Sessions : Exists(s) => KeepsTurns(s)
  <2>1. hazards' = hazards
    BY <1>2 DEF Steps, Begins, OpensOn, ServesOn, QuitsQuietly, Skips, Creates, Speaks, Ensures, Closes
  <2>2. ~ Exposed("race") /\ ~ Exposed("late") =>
           InTurn' /\ \A s \in Sessions : Exists(s) => KeepsTurns(s)
    BY <1>2, TurnsStep DEF SerialInv, TurnsInv
  <2> QED
    BY <2>1, <2>2 DEF TurnsInv, Exposed
<1> QED
  BY <1>1, <1>2, Cases

LEMMA TurnsInit ==
    ASSUME Init
    PROVE  TurnsInv
<1>1. \A r \in Requests : req[r] \notin Speaking
  BY NotRecords DEF Init, Records, Serving
<1>2. \A s \in Sessions : rows[s] = None
  BY DEF Init
<1> QED
  BY <1>1, <1>2 DEF TurnsInv, InTurn

\* What was said and answered stays in the conversation, when requests do not
\* overlap and a failed message is tried again before the next one.
THEOREM AnsweredTurnsAreKept == Spec => TurnsKept
<1>1. Init => DraftsInv /\ SerialInv /\ TurnsInv
  BY DraftsInit, SerialInit, TurnsInit
<1>2. DraftsInv /\ SerialInv /\ TurnsInv /\ [Next]_vars => DraftsInv' /\ SerialInv' /\ TurnsInv'
  BY DraftsNext, SerialNext, TurnsNext
<1>3. DraftsInv /\ SerialInv /\ TurnsInv /\ [Next]_vars =>
        [\A s \in Sessions :
            ~ Exposed("race") /\ ~ Exposed("late") /\ Exists(s) =>
                \A i \in DOMAIN rows[s].turns :
                    rows[s].turns[i].ok => rows[s].turns[i] \in ToSet(rows'[s].turns)]_vars
  BY TurnsNext DEF KeepsTurns
<1> QED
  BY <1>1, <1>2, <1>3, PTL DEF Spec, TurnsKept
=============================================================================
