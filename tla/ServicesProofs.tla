--------------------------- MODULE ServicesProofs ---------------------------
(***************************************************************************)
(* What is proved of the services that share no state: the synchronization *)
(* of knowledge, the tokens of OAuth connections, the model router, the    *)
(* funding accounts, the request limits and the prices of a request.  Each *)
(* part has the specification of its component, its inductive invariant    *)
(* and its theorems.                                                       *)
(***************************************************************************)
EXTENDS KnowledgeSync, OAuthTokens, ModelRouter, ProviderFunding, Pricing, RequestLimits,
        TotalsProofs

-----------------------------------------------------------------------------
(***************************************************************************)
(* Schedules of knowledge sources: no tick passes over an occurrence.      *)
(*                                                                         *)
(* NoOccurrenceSkipped speaks of the step that moves a schedule.  The      *)
(* sources it moves are those the tick has synchronized, so the invariant  *)
(* says of every tick that these were fetched since it began, and of its   *)
(* sync under way that it began after the tick did.                        *)
(***************************************************************************)

SyncSpec == SyncInit /\ [][SyncNext]_syncVars

\* What a tick or request d knows of the sources it has fetched.
Sound(d) ==
    /\ d.now <= clock
    /\ \A s \in d.done : fetched[s] >= d.now
    /\ d.at # "pick" => d.source \in Sources
    /\ d.at = "crawl" => d.began >= d.now
    /\ d.at = "trigger" => fetched[d.source] >= d.now

SyncInv ==
    /\ SyncTypeOK
    /\ syncs \in [Syncers -> SyncRecords \cup {Nobody}]
    /\ \A p \in Syncers : InSync(p) => Sound(syncs[p])

\* Starting: there is nothing a sync could know.
LEMMA InitSound == SyncInit => SyncInv
<1> SUFFICES ASSUME SyncInit PROVE SyncInv
  OBVIOUS
<1> USE KnowledgeSyncOK DEF SyncInit
<1>1. SyncTypeOK
  BY DEF SyncTypeOK, Standings, Runtimes
<1>2. syncs \in [Syncers -> SyncRecords \cup {Nobody}]
  OBVIOUS
<1>3. \A p \in Syncers : ~ InSync(p)
  BY DEF InSync
<1> QED
  BY <1>1, <1>2, <1>3 DEF SyncInv

\* Sources fetched and the clock only move on, so that the others keep what
\* they know.
LEMMA SoundStays ==
    ASSUME SyncInv,
           clock' \in Nat, clock' >= clock,
           fetched' \in [Sources -> Nat],
           \A s \in Sources : fetched'[s] >= fetched[s],
           NEW p \in Syncers, InSync(p), syncs'[p] = syncs[p]
    PROVE  Sound(syncs[p])'
<1> DEFINE d == syncs[p]
<1>1. d \in SyncRecords /\ Sound(d)
  BY DEF SyncInv, InSync
<1>2. d.now \in Nat /\ d.began \in Nat /\ d.done \subseteq Sources /\ clock \in Nat
  BY <1>1, KnowledgeSyncOK DEF SyncRecords, SyncInv, SyncTypeOK
<1>3. fetched \in [Sources -> Nat]
  BY KnowledgeSyncOK DEF SyncInv, SyncTypeOK
<1>4. \A s \in Sources : fetched[s] \in Nat /\ fetched'[s] \in Nat
  BY <1>3
<1>5. \A s \in d.done : fetched'[s] >= d.now
  BY <1>1, <1>2, <1>4 DEF Sound
<1>6. d.at = "trigger" => fetched'[d.source] >= d.now
  BY <1>1, <1>2, <1>4 DEF Sound
<1>7. d.now <= clock'
  BY <1>1, <1>2 DEF Sound
<1> QED
  BY <1>1, <1>5, <1>6, <1>7 DEF Sound

\* One tick or request moves: what it then knows is all there is to show.
LEMMA OneMoves ==
    ASSUME SyncInv, SyncTypeOK', clock' >= clock,
           \A s \in Sources : fetched'[s] >= fetched[s],
           NEW p \in Syncers,
           syncs' = [syncs EXCEPT ![p] = syncs'[p]],
           syncs'[p] \in SyncRecords \cup {Nobody},
           syncs'[p] # Nobody => Sound(syncs[p])'
    PROVE  SyncInv'
<1>1. syncs' \in [Syncers -> SyncRecords \cup {Nobody}]
  BY DEF SyncInv
<1>2. clock' \in Nat /\ fetched' \in [Sources -> Nat]
  BY KnowledgeSyncOK DEF SyncTypeOK
<1>3. ASSUME NEW q \in Syncers, InSync(q)' PROVE Sound(syncs[q])'
  <2>1. CASE q = p
    BY <1>3, <2>1 DEF InSync
  <2>2. CASE q # p
    <3>1. syncs'[q] = syncs[q]
      BY <2>2 DEF SyncInv
    <3> QED
      BY <1>2, <1>3, <3>1, SoundStays DEF InSync
  <2> QED
    BY <2>1, <2>2
<1> QED
  BY <1>1, <1>3 DEF SyncInv

\* Nobody moves.
LEMMA NoneMoves ==
    ASSUME SyncInv, SyncTypeOK', clock' >= clock, fetched' = fetched, syncs' = syncs
    PROVE  SyncInv'
<1>1. clock' \in Nat /\ fetched' \in [Sources -> Nat]
  BY KnowledgeSyncOK DEF SyncTypeOK
<1>2. \A s \in Sources : fetched'[s] >= fetched[s]
  BY <1>1
<1>3. \A q \in Syncers : InSync(q)' => Sound(syncs[q])'
  BY <1>1, <1>2, SoundStays DEF InSync
<1> QED
  BY <1>3 DEF SyncInv

\* A commit of a tick writes schedules of the right type.
LEMMA AdvancedType ==
    ASSUME SyncInv, NEW p \in Syncers, InSync(p)
    PROVE  Advanced(p) \in [Sources -> 1 .. MaxClock + 1]
BY KnowledgeSyncOK DEF Advanced, SyncInv, SyncTypeOK, InSync, SyncRecords

\* Beginning, ending or leaving out a sync, the tick keeps what it knows.
LEMMA StartTickKeeps == ASSUME SyncInv, NEW p \in Syncers, StartTick(p) PROVE SyncInv'
<1> USE KnowledgeSyncOK DEF StartTick
<1>1. SyncTypeOK'
  BY DEF SyncInv, SyncTypeOK
<1>2. clock \in 0 .. MaxClock /\ fetched \in [Sources -> 0 .. MaxClock]
  BY DEF SyncInv, SyncTypeOK
<1>3. syncs'[p] \in SyncRecords
  BY <1>2 DEF SyncInv, SyncRecords, Stages
<1>4. Sound(syncs[p])'
  BY <1>2 DEF Sound, SyncInv
<1>5. syncs' = [syncs EXCEPT ![p] = syncs'[p]]
  BY DEF SyncInv
<1>6. clock' >= clock /\ \A s \in Sources : fetched'[s] >= fetched[s]
  BY <1>2
<1> QED
  BY <1>1, <1>3, <1>4, <1>5, <1>6, OneMoves

LEMMA StartSyncKeeps ==
    ASSUME SyncInv, NEW p \in Syncers, NEW s \in Sources, StartSync(p, s) PROVE SyncInv'
<1> USE KnowledgeSyncOK DEF StartSync
<1>1. SyncTypeOK'
  BY DEF SyncInv, SyncTypeOK
<1>2. clock \in 0 .. MaxClock /\ fetched \in [Sources -> 0 .. MaxClock]
      /\ standing \in [Sources -> Standings]
  BY DEF SyncInv, SyncTypeOK
<1>3. syncs'[p] \in SyncRecords
  BY <1>2 DEF SyncInv, SyncRecords, Stages
<1>4. Sound(syncs[p])'
  BY <1>2 DEF Sound, SyncInv
<1>5. syncs' = [syncs EXCEPT ![p] = syncs'[p]]
  BY DEF SyncInv
<1>6. clock' >= clock /\ \A t \in Sources : fetched'[t] >= fetched[t]
  BY <1>2
<1> QED
  BY <1>1, <1>3, <1>4, <1>5, <1>6, OneMoves

LEMMA PickKeeps ==
    ASSUME SyncInv, NEW p \in Syncers, NEW s \in Sources, Pick(p, s) PROVE SyncInv'
<1>1. SyncTypeOK'
  BY DEF Pick, SyncInv, SyncTypeOK
<1>2. clock \in 0 .. MaxClock /\ fetched \in [Sources -> 0 .. MaxClock]
      /\ standing \in [Sources -> Standings]
  BY DEF SyncInv, SyncTypeOK
<1>3. syncs[p] \in SyncRecords /\ Sound(syncs[p])
  BY DEF Pick, Doing, SyncInv, InSync
<1>4. PICK d \in SyncRecords, w \in Standings : d = syncs[p] /\ w = standing[s]
  BY <1>2, <1>3
<1>5. syncs'[p] = [d EXCEPT !.at = "begin", !.todo = d.todo \ {s}, !.source = s, !.was = w]
  <2>1. syncs' = [syncs EXCEPT ![p] =
                     [d EXCEPT !.at = "begin", !.todo = d.todo \ {s}, !.source = s, !.was = w]]
    BY <1>4, Zenon DEF Pick
  <2> QED
    BY <2>1 DEF SyncInv
<1>6. /\ syncs'[p] \in SyncRecords
      /\ syncs'[p].at = "begin" /\ syncs'[p].source = s
      /\ syncs'[p].now = syncs[p].now /\ syncs'[p].done = syncs[p].done
  <2> DEFINE e == [d EXCEPT !.at = "begin", !.todo = d.todo \ {s}, !.source = s, !.was = w]
  <2>1. e \in SyncRecords
    BY DEF SyncRecords, Stages
  <2>2. e.at = "begin" /\ e.source = s /\ e.now = d.now /\ e.done = d.done
    BY DEF SyncRecords
  <2> HIDE DEF e
  <2>3. syncs'[p] = e
    BY <1>5 DEF e
  <2> QED
    BY <1>4, <2>1, <2>2, <2>3
<1>7. Sound(syncs[p])'
  BY <1>2, <1>3, <1>6 DEF Pick, Sound
<1>8. syncs' = [syncs EXCEPT ![p] = syncs'[p]]
  BY DEF Pick, SyncInv
<1>9. clock' >= clock /\ \A t \in Sources : fetched'[t] >= fetched[t]
  BY <1>2 DEF Pick
<1> QED
  BY <1>1, <1>6, <1>7, <1>8, <1>9, OneMoves

\* What a sync writes of its source and its job is well typed.
LEMMA WrittenType ==
    ASSUME SyncInv, NEW p \in Syncers, NEW new \in Standings
    PROVE  Written(p, new) \in [Sources -> Standings]
BY DEF Written, SyncInv, SyncTypeOK

LEMMA JobAfterType ==
    ASSUME SyncInv, NEW p \in Syncers, NEW outcome \in JobStatuses
    PROVE  JobAfter(p, outcome) \in
               [Sources -> [status: JobStatuses \cup {Nobody}, by: Syncers \cup {Nobody}]]
BY DEF JobAfter, SyncInv, SyncTypeOK

LEMMA BeginKeeps == ASSUME SyncInv, NEW p \in Syncers, Begin(p) PROVE SyncInv'
<1>1. syncs[p] \in SyncRecords /\ Sound(syncs[p]) /\ syncs[p].source \in Sources
  BY DEF Begin, Doing, SyncInv, InSync, Sound
<1>2. clock \in 0 .. MaxClock /\ fetched \in [Sources -> 0 .. MaxClock]
  BY DEF SyncInv, SyncTypeOK
<1>3. SyncTypeOK'
  <2>1. jobs' \in [Sources -> [status: JobStatuses \cup {Nobody}, by: Syncers \cup {Nobody}]]
    BY <1>1 DEF Begin, SyncInv, SyncTypeOK, JobStatuses
  <2>2. standing' \in [Sources -> Standings]
    BY WrittenType DEF Begin, Standings
  <2>3. nextRun' \in [Sources -> 1 .. MaxClock + 1]
    BY AdvancedType DEF Begin, Doing
  <2> QED
    BY <2>1, <2>2, <2>3 DEF Begin, SyncInv, SyncTypeOK
<1>4. PICK d \in SyncRecords, c \in 0 .. MaxClock : d = syncs[p] /\ c = clock
  BY <1>1, <1>2
<1> DEFINE e == [d EXCEPT !.at = "crawl", !.was = "syncing", !.done = {}, !.began = c]
<1>5. e \in SyncRecords
  BY DEF SyncRecords, Stages, Standings
<1>6. e.at = "crawl" /\ e.source = d.source /\ e.now = d.now /\ e.done = {} /\ e.began = c
  BY DEF SyncRecords
<1>7. syncs' = [syncs EXCEPT ![p] = e]
  BY <1>4, Zenon DEF Begin
<1> HIDE DEF e
<1>8. syncs'[p] = e
  BY <1>7 DEF SyncInv
<1>9. Sound(syncs[p])'
  BY <1>1, <1>2, <1>4, <1>6, <1>8 DEF Begin, Sound
<1>10. clock' >= clock /\ \A s \in Sources : fetched'[s] >= fetched[s]
  BY <1>2, KnowledgeSyncOK DEF Begin
<1> QED
  BY <1>3, <1>5, <1>7, <1>8, <1>9, <1>10, OneMoves

\* What was fetched is as new as the sync that fetched it.
LEMMA CrawledKeeps == ASSUME SyncInv, NEW p \in Syncers, Crawled(p) PROVE SyncInv'
<1>1. /\ syncs[p] \in SyncRecords /\ Sound(syncs[p])
      /\ syncs[p].source \in Sources /\ syncs[p].began >= syncs[p].now
  BY DEF Crawled, Doing, SyncInv, InSync, Sound
<1>2. clock \in 0 .. MaxClock /\ fetched \in [Sources -> 0 .. MaxClock]
  BY DEF SyncInv, SyncTypeOK
<1>3. PICK d \in SyncRecords : d = syncs[p]
  BY <1>1
<1>4. d.began \in 0 .. MaxClock /\ d.now \in 0 .. MaxClock /\ d.done \subseteq Sources
  BY DEF SyncRecords
<1>5. fetched' = [fetched EXCEPT ![d.source] =
                     IF d.began > fetched[d.source] THEN d.began ELSE fetched[d.source]]
  BY <1>3 DEF Crawled
<1>6. /\ fetched' \in [Sources -> 0 .. MaxClock]
      /\ \A s \in Sources : fetched'[s] >= fetched[s]
      /\ fetched'[d.source] >= d.began
  BY <1>1, <1>2, <1>3, <1>4, <1>5, KnowledgeSyncOK
<1>7. SyncTypeOK'
  <2>1. jobs' \in [Sources -> [status: JobStatuses \cup {Nobody}, by: Syncers \cup {Nobody}]]
    BY JobAfterType DEF Crawled, JobStatuses
  <2>2. standing' \in [Sources -> Standings]
    BY WrittenType DEF Crawled, StandingAfter, Standings
  <2>3. built' \in Runtimes
    BY DEF Crawled, SyncInv, SyncTypeOK, Runtimes
  <2> QED
    BY <1>6, <2>1, <2>2, <2>3 DEF Crawled, SyncInv, SyncTypeOK
<1> DEFINE e == [d EXCEPT !.at = "trigger", !.was = Nobody, !.began = 0]
<1>8. e \in SyncRecords
  <2>1. 0 \in 0 .. MaxClock
    BY KnowledgeSyncOK
  <2> QED
    BY <2>1 DEF SyncRecords, Stages
<1>9. e.at = "trigger" /\ e.source = d.source /\ e.now = d.now /\ e.done = d.done
  BY DEF SyncRecords
<1>10. syncs' = [syncs EXCEPT ![p] = e]
  BY <1>3, Zenon DEF Crawled
<1> HIDE DEF e
<1>11. syncs'[p] = e
  BY <1>10 DEF SyncInv
<1>12. /\ d.now <= clock
       /\ \A s \in d.done : fetched'[s] >= d.now
       /\ fetched'[d.source] >= d.now
  <2>1. \A s \in Sources : fetched[s] \in Nat /\ fetched'[s] \in Nat
    BY <1>2, <1>6, KnowledgeSyncOK
  <2>2. d.now \in Nat /\ d.began \in Nat /\ d.began >= d.now
    BY <1>1, <1>3, <1>4, KnowledgeSyncOK
  <2> QED
    BY <1>1, <1>3, <1>4, <1>6, <2>1, <2>2 DEF Sound
<1>13. Sound(syncs[p])'
  BY <1>1, <1>3, <1>9, <1>11, <1>12 DEF Crawled, Sound
<1>14. clock' >= clock
  BY <1>2, KnowledgeSyncOK DEF Crawled
<1> QED
  BY <1>6, <1>7, <1>8, <1>10, <1>11, <1>13, <1>14, OneMoves

\* A tick that goes on knows no less than before.
LEMMA RestingSound ==
    ASSUME SyncInv, NEW p \in Syncers, InSync(p)
    PROVE  /\ NextSource(p) \in SyncRecords
           /\ NextSource(p).at = "pick"
           /\ NextSource(p).now = syncs[p].now
           /\ NextSource(p).done = syncs[p].done
<1>1. PICK d \in SyncRecords : d = syncs[p]
  BY DEF SyncInv, InSync
<1> DEFINE e == [d EXCEPT !.at = "pick", !.source = Nobody, !.was = Nobody, !.began = 0]
<1>2. e \in SyncRecords
  <2>1. 0 \in 0 .. MaxClock
    BY KnowledgeSyncOK
  <2> QED
    BY <2>1 DEF SyncRecords, Stages
<1>3. e.at = "pick" /\ e.now = d.now /\ e.done = d.done
  BY DEF SyncRecords
<1>4. NextSource(p) = e
  BY <1>1, Zenon DEF NextSource
<1> HIDE DEF e
<1> QED
  BY <1>1, <1>2, <1>3, <1>4

LEMMA CrawlFailsKeeps == ASSUME SyncInv, NEW p \in Syncers, CrawlFails(p) PROVE SyncInv'
<1>1. syncs[p] \in SyncRecords /\ Sound(syncs[p]) /\ InSync(p)
  BY DEF CrawlFails, Doing, SyncInv, InSync
<1>2. clock \in 0 .. MaxClock /\ fetched \in [Sources -> 0 .. MaxClock]
  BY DEF SyncInv, SyncTypeOK
<1>3. SyncTypeOK'
  <2>1. jobs' \in [Sources -> [status: JobStatuses \cup {Nobody}, by: Syncers \cup {Nobody}]]
    BY JobAfterType DEF CrawlFails, JobStatuses
  <2>2. standing' \in [Sources -> Standings]
    BY WrittenType DEF CrawlFails, StandingAfter, Standings
  <2> QED
    BY <2>1, <2>2 DEF CrawlFails, SyncInv, SyncTypeOK
<1>4. syncs'[p] \in {NextSource(p), Nobody} /\ syncs' = [syncs EXCEPT ![p] = syncs'[p]]
  BY DEF CrawlFails, SyncInv
<1>5. syncs'[p] \in SyncRecords \cup {Nobody}
  BY <1>1, <1>4, RestingSound
<1>6. syncs'[p] # Nobody => Sound(syncs[p])'
  BY <1>1, <1>2, <1>4, RestingSound DEF CrawlFails, Sound
<1>7. clock' >= clock /\ \A s \in Sources : fetched'[s] >= fetched[s]
  BY <1>2, KnowledgeSyncOK DEF CrawlFails
<1> QED
  BY <1>3, <1>4, <1>5, <1>6, <1>7, OneMoves

\* The source joins those whose schedule the tick will move.
LEMMA TriggerKeeps == ASSUME SyncInv, NEW p \in Syncers, Trigger(p) PROVE SyncInv'
<1>1. /\ syncs[p] \in SyncRecords /\ Sound(syncs[p]) /\ InSync(p)
      /\ syncs[p].source \in Sources
      /\ fetched[syncs[p].source] >= syncs[p].now
  BY DEF Trigger, Doing, SyncInv, InSync, Sound
<1>2. clock \in 0 .. MaxClock /\ fetched \in [Sources -> 0 .. MaxClock]
  BY DEF SyncInv, SyncTypeOK
<1>3. SyncTypeOK'
  BY DEF Trigger, SyncInv, SyncTypeOK, Runtimes
<1>4. PICK d \in SyncRecords, src \in Sources : d = NextSource(p) /\ src = syncs[p].source
  BY <1>1, RestingSound
<1> DEFINE e == [d EXCEPT !.done = d.done \cup {src}]
<1>5. e \in SyncRecords
  BY DEF SyncRecords
<1>6. e.at = d.at /\ e.now = d.now /\ e.done = d.done \cup {src}
  BY DEF SyncRecords
<1>7. syncs' = [syncs EXCEPT ![p] = IF syncs[p].tick THEN e ELSE Nobody]
  BY <1>4, Zenon DEF Trigger
<1> HIDE DEF e
<1>8. syncs'[p] \in {e, Nobody} /\ syncs' = [syncs EXCEPT ![p] = syncs'[p]]
  BY <1>7 DEF SyncInv
<1>9. syncs'[p] # Nobody => Sound(syncs[p])'
  BY <1>1, <1>2, <1>4, <1>6, <1>8, RestingSound DEF Trigger, Sound
<1>10. clock' >= clock /\ \A s \in Sources : fetched'[s] >= fetched[s]
  BY <1>2, KnowledgeSyncOK DEF Trigger
<1> QED
  BY <1>3, <1>5, <1>8, <1>9, <1>10, OneMoves

\* Ending, by itself or not, leaves nothing to know.
LEMMA EndKeeps ==
    ASSUME SyncInv, NEW p \in Syncers, EndTick(p) \/ Die(p) PROVE SyncInv'
<1>1. clock \in 0 .. MaxClock /\ fetched \in [Sources -> 0 .. MaxClock]
  BY DEF SyncInv, SyncTypeOK
<1>2. SyncTypeOK'
  <2>1. CASE EndTick(p)
    BY <2>1, AdvancedType DEF EndTick, Doing, SyncInv, SyncTypeOK
  <2>2. CASE Die(p)
    BY <2>2 DEF Die, SyncInv, SyncTypeOK
  <2> QED
    BY <2>1, <2>2
<1>3. syncs'[p] = Nobody /\ syncs' = [syncs EXCEPT ![p] = syncs'[p]]
  BY DEF EndTick, Die, SyncInv
<1>4. clock' >= clock /\ \A s \in Sources : fetched'[s] >= fetched[s]
  BY <1>1, KnowledgeSyncOK DEF EndTick, Die
<1> QED
  BY <1>2, <1>3, <1>4, OneMoves

\* Cancelled jobs, builds and time disturb no sync.
LEMMA AroundKeeps ==
    ASSUME SyncInv,
           \/ \E s \in Sources : CancelSync(s)
           \/ ReadDocuments \/ BuildEnds \/ BuildFails \/ Elapse
    PROVE  SyncInv'
<1>1. clock \in 0 .. MaxClock /\ MaxClock \in Nat
  BY KnowledgeSyncOK DEF SyncInv, SyncTypeOK
<1>2. SyncTypeOK'
  <2>1. ASSUME NEW s \in Sources, CancelSync(s) PROVE SyncTypeOK'
    BY <2>1 DEF CancelSync, SyncInv, SyncTypeOK, JobStatuses
  <2>2. CASE ReadDocuments
    BY <2>2 DEF ReadDocuments, SyncInv, SyncTypeOK, Runtimes
  <2>3. CASE BuildEnds
    BY <2>3 DEF BuildEnds, SyncInv, SyncTypeOK, Runtimes
  <2>4. CASE BuildFails
    BY <2>4 DEF BuildFails, SyncInv, SyncTypeOK, Runtimes
  <2>5. CASE Elapse
    BY <1>1, <2>5 DEF Elapse, SyncInv, SyncTypeOK
  <2> QED
    BY <2>1, <2>2, <2>3, <2>4, <2>5
<1>3. clock' >= clock /\ fetched' = fetched /\ syncs' = syncs
  BY <1>1 DEF CancelSync, ReadDocuments, BuildEnds, BuildFails, Elapse
<1> QED
  BY <1>2, <1>3, NoneMoves

LEMMA NextKeeps == SyncInv /\ [SyncNext]_syncVars => SyncInv'
<1> SUFFICES ASSUME SyncInv, [SyncNext]_syncVars PROVE SyncInv'
  OBVIOUS
<1>1. ASSUME NEW p \in Syncers, StartTick(p) \/ SyncStep(p) \/ Die(p) PROVE SyncInv'
  BY <1>1, StartTickKeeps, PickKeeps, BeginKeeps, CrawledKeeps, CrawlFailsKeeps,
     TriggerKeeps, EndKeeps DEF SyncStep
<1>2. ASSUME NEW p \in Syncers, NEW s \in Sources, StartSync(p, s) PROVE SyncInv'
  BY <1>2, StartSyncKeeps
<1>3. CASE UNCHANGED syncVars
  <2>1. clock \in 0 .. MaxClock /\ MaxClock \in Nat
    BY KnowledgeSyncOK DEF SyncInv, SyncTypeOK
  <2>2. SyncTypeOK'
    BY <1>3 DEF SyncInv, SyncTypeOK, syncVars
  <2> QED
    BY <1>3, <2>1, <2>2, NoneMoves DEF syncVars
<1> QED
  BY <1>1, <1>2, <1>3, AroundKeeps DEF SyncNext

-----------------------------------------------------------------------------
(* Theorems.                                                               *)

\* Sources, jobs, schedules and the runtime keep their types, whatever ticks,
\* requests and builds do.
THEOREM SyncTypeCorrect == SyncSpec => []SyncTypeOK
<1>1. SyncInv => SyncTypeOK
  BY DEF SyncInv
<1> QED
  BY <1>1, InitSound, NextKeeps, PTL DEF SyncSpec

\* A commit of a tick moves a schedule to the next occurrence only if the
\* source was fetched after the one it passes was due.
LEMMA AdvancedSound ==
    ASSUME SyncInv, NEW p \in Syncers, InSync(p), NEW s \in Sources, nextRun' = Advanced(p),
           nextRun'[s] > nextRun[s]
    PROVE  fetched[s] >= nextRun[s]
<1>1. syncs[p] \in SyncRecords /\ Sound(syncs[p])
  BY DEF SyncInv, InSync
<1>2. PICK d \in SyncRecords : d = syncs[p]
  BY <1>1
<1>3. d.now \in Nat /\ nextRun[s] \in Nat /\ fetched[s] \in Nat
  BY KnowledgeSyncOK DEF SyncRecords, SyncInv, SyncTypeOK
<1>4. nextRun'[s] = IF s \in d.done THEN d.now + 1 ELSE nextRun[s]
  BY <1>2 DEF Advanced
<1>5. s \in d.done
  BY <1>3, <1>4
<1>6. fetched[s] >= d.now
  BY <1>1, <1>2, <1>5 DEF Sound
<1> QED
  BY <1>3, <1>4, <1>5, <1>6

\* No tick passes over an occurrence: whatever overlaps, fails, dies or is
\* cancelled, a schedule moves on from it only after the source was fetched.
THEOREM OccurrencesAreKept == SyncSpec => NoOccurrenceSkipped
<1> DEFINE Kept == \A s \in Sources : nextRun'[s] > nextRun[s] => fetched[s] >= nextRun[s]
<1>1. SyncInv /\ [SyncNext]_syncVars => [Kept]_syncVars
  <2> SUFFICES ASSUME SyncInv, SyncNext, NEW s \in Sources, nextRun'[s] > nextRun[s]
               PROVE  fetched[s] >= nextRun[s]
    OBVIOUS
  <2>1. ASSUME NEW p \in Syncers, Begin(p) \/ EndTick(p) PROVE fetched[s] >= nextRun[s]
    BY <2>1, AdvancedSound DEF Begin, EndTick, Doing
  <2>2. nextRun[s] \in Nat
    BY KnowledgeSyncOK DEF SyncInv, SyncTypeOK
  <2>3. nextRun' # nextRun
    BY <2>2
  <2> QED
    BY <2>1, <2>3 DEF SyncNext, SyncStep, StartTick, StartSync, Pick, Crawled, CrawlFails,
       Trigger, Die, CancelSync, ReadDocuments, BuildEnds, BuildFails, Elapse
<1> QED
  BY <1>1, InitSound, NextKeeps, PTL DEF SyncSpec, NoOccurrenceSkipped

-----------------------------------------------------------------------------
(***************************************************************************)
(* Sources tell how their latest job ended, and the runtime has what was   *)
(* fetched.                                                                *)
(*                                                                         *)
(* Without overlap the one sync under way loaded the status the source     *)
(* still has, so that what it writes reaches the row.                      *)
(***************************************************************************)

Tells(s) ==
    LET job == jobs[s].status IN
    job \notin {Nobody, "cancelled"} =>
        standing[s] = IF job = "running" THEN "syncing" ELSE job

Ready(p) == Doing(p, "begin") => syncs[p].was = standing[syncs[p].source]

Crawls(p) ==
    Doing(p, "crawl") =>
        /\ syncs[p].was = "syncing" /\ standing[syncs[p].source] = "syncing"
        /\ jobs[syncs[p].source].by = p

TellingInv ==
    /\ \A p, q \in Syncers : InSync(p) /\ InSync(q) => p = q
    /\ \A s \in Sources : Tells(s)
    /\ \A p \in Syncers : Ready(p) /\ Crawls(p)

(***************************************************************************)
(* The documents are read when nobody synchronizes, and who fetches some   *)
(* asks for a build next.                                                  *)
(***************************************************************************)
BuildingInv ==
    /\ built.read => built.status = "building"
    /\ "slow" \notin exposed /\ built.read => Quiet /\ ~ built.stale
    /\ exposed \cap {"death", "slow"} = {} /\ built.stale =>
          built.status # "active" \/ \E p \in Syncers : Doing(p, "trigger")

\* What a step makes of the record of the sync that takes it.
LEMMA SyncUnderWay ==
    ASSUME SyncInv, NEW p \in Syncers, InSync(p)
    PROVE  syncs[p] \in SyncRecords /\ (syncs[p].at # "pick" => syncs[p].source \in Sources)
BY DEF SyncInv, InSync, Sound

LEMMA StartSyncFields ==
    ASSUME SyncInv, NEW p \in Syncers, NEW s \in Sources, StartSync(p, s)
    PROVE  /\ syncs' = [syncs EXCEPT ![p] = syncs'[p]]
           /\ syncs'[p].at = "begin" /\ syncs'[p].source = s /\ syncs'[p].was = standing[s]
BY DEF StartSync, SyncInv

LEMMA PickFields ==
    ASSUME SyncInv, NEW p \in Syncers, NEW s \in Sources, Pick(p, s)
    PROVE  /\ syncs' = [syncs EXCEPT ![p] = syncs'[p]]
           /\ syncs'[p].at = "begin" /\ syncs'[p].source = s /\ syncs'[p].was = standing[s]
<1>1. syncs[p] \in SyncRecords /\ standing[s] \in Standings
  BY SyncUnderWay DEF Pick, Doing, SyncInv, SyncTypeOK
<1>2. PICK d \in SyncRecords, w \in Standings : d = syncs[p] /\ w = standing[s]
  BY <1>1
<1> DEFINE e == [d EXCEPT !.at = "begin", !.todo = d.todo \ {s}, !.source = s, !.was = w]
<1>3. e.at = "begin" /\ e.source = s /\ e.was = w
  BY DEF SyncRecords
<1>4. syncs' = [syncs EXCEPT ![p] = e]
  BY <1>2, Zenon DEF Pick
<1> HIDE DEF e
<1> QED
  BY <1>2, <1>3, <1>4 DEF SyncInv

LEMMA BeginFields ==
    ASSUME SyncInv, NEW p \in Syncers, Begin(p)
    PROVE  /\ syncs' = [syncs EXCEPT ![p] = syncs'[p]]
           /\ syncs'[p].at = "crawl" /\ syncs'[p].source = syncs[p].source
           /\ syncs'[p].was = "syncing"
<1>1. syncs[p] \in SyncRecords
  BY SyncUnderWay DEF Begin, Doing
<1>2. PICK d \in SyncRecords : d = syncs[p]
  BY <1>1
<1>5. PICK c : c = clock
  OBVIOUS
<1> DEFINE e == [d EXCEPT !.at = "crawl", !.was = "syncing", !.done = {}, !.began = c]
<1>3. e.at = "crawl" /\ e.source = d.source /\ e.was = "syncing"
  BY DEF SyncRecords
<1>4. syncs' = [syncs EXCEPT ![p] = e]
  BY <1>2, <1>5, Zenon DEF Begin
<1> HIDE DEF e
<1> QED
  BY <1>2, <1>3, <1>4 DEF SyncInv

LEMMA CrawledFields ==
    ASSUME SyncInv, NEW p \in Syncers, Crawled(p)
    PROVE  /\ syncs' = [syncs EXCEPT ![p] = syncs'[p]]
           /\ syncs'[p].at = "trigger" /\ syncs'[p] # Nobody
<1>1. syncs[p] \in SyncRecords
  BY SyncUnderWay DEF Crawled, Doing
<1>2. PICK d \in SyncRecords : d = syncs[p]
  BY <1>1
<1> DEFINE e == [d EXCEPT !.at = "trigger", !.was = Nobody, !.began = 0]
<1>3. e.at = "trigger" /\ e # Nobody
  <2>1. 0 \in 0 .. MaxClock
    BY KnowledgeSyncOK
  <2>2. e \in SyncRecords
    BY <2>1 DEF SyncRecords, Stages
  <2>3. e.at = "trigger"
    BY DEF SyncRecords
  <2> QED
    BY <2>2, <2>3, NobodyOK
<1>4. syncs' = [syncs EXCEPT ![p] = e]
  BY <1>2, Zenon DEF Crawled
<1> HIDE DEF e
<1> QED
  BY <1>2, <1>3, <1>4 DEF SyncInv

LEMMA CrawlFailsFields ==
    ASSUME SyncInv, NEW p \in Syncers, CrawlFails(p)
    PROVE  /\ syncs' = [syncs EXCEPT ![p] = syncs'[p]]
           /\ InSync(p)' => syncs'[p].at = "pick"
<1>1. InSync(p)
  BY DEF CrawlFails, Doing
<1>2. syncs' = [syncs EXCEPT ![p] = IF syncs[p].tick THEN NextSource(p) ELSE Nobody]
  BY Zenon DEF CrawlFails
<1> QED
  BY <1>1, <1>2, RestingSound DEF SyncInv, InSync

LEMMA TriggerFields ==
    ASSUME SyncInv, NEW p \in Syncers, Trigger(p)
    PROVE  /\ syncs' = [syncs EXCEPT ![p] = syncs'[p]]
           /\ InSync(p)' => syncs'[p].at = "pick"
<1>1. InSync(p) /\ syncs[p].source \in Sources
  BY SyncUnderWay DEF Trigger, Doing
<1>2. PICK d \in SyncRecords, src \in Sources :
         d = NextSource(p) /\ src = syncs[p].source /\ d.at = "pick"
  BY <1>1, RestingSound
<1> DEFINE e == [d EXCEPT !.done = d.done \cup {src}]
<1>3. e.at = "pick"
  BY <1>2 DEF SyncRecords
<1>4. syncs' = [syncs EXCEPT ![p] = IF syncs[p].tick THEN e ELSE Nobody]
  BY <1>2, Zenon DEF Trigger
<1> HIDE DEF e
<1> QED
  BY <1>3, <1>4 DEF SyncInv, InSync

LEMMA LeaveFields ==
    ASSUME SyncInv, NEW p \in Syncers, EndTick(p) \/ Die(p)
    PROVE  syncs' = [syncs EXCEPT ![p] = syncs'[p]] /\ ~ InSync(p)'
BY DEF EndTick, Die, SyncInv, InSync

LEMMA StartTickFields ==
    ASSUME SyncInv, NEW p \in Syncers, StartTick(p)
    PROVE  syncs' = [syncs EXCEPT ![p] = syncs'[p]] /\ syncs'[p].at = "pick"
BY DEF StartTick, SyncInv

-----------------------------------------------------------------------------
(* Sources tell how their latest job ended.                                *)

\* Nobody else is under way, so what is told of p is told of all.
LEMMA OnlyOneSyncs ==
    ASSUME SyncInv, NEW p \in Syncers, \A q \in Syncers : InSync(q) => q = p,
           syncs' = [syncs EXCEPT ![p] = syncs'[p]],
           \A s \in Sources : Tells(s)',
           Ready(p)', Crawls(p)'
    PROVE  TellingInv'
<1>1. ASSUME NEW q \in Syncers, q # p PROVE ~ InSync(q)'
  BY <1>1 DEF InSync, SyncInv
<1> QED
  BY <1>1 DEF TellingInv, Ready, Crawls, Doing

\* What only moves the syncs leaves told what was told.
LEMMA ToldStays ==
    ASSUME TellingInv, UNCHANGED <<standing, jobs>>
    PROVE  \A s \in Sources : Tells(s)'
BY DEF TellingInv, Tells

LEMMA AloneIn ==
    ASSUME TellingInv, NEW p \in Syncers, InSync(p)
    PROVE  \A q \in Syncers : InSync(q) => q = p
BY DEF TellingInv

LEMMA TellingStart ==
    ASSUME SyncInv, TellingInv, "overlap" \notin exposed, NEW p \in Syncers,
           StartTick(p) \/ \E s \in Sources : StartSync(p, s)
    PROVE  TellingInv'
<1>1. \A q \in Syncers : ~ InSync(q)
  BY DEF StartTick, StartSync, MayBegin, Quiet
<1>2. UNCHANGED <<standing, jobs>>
  BY DEF StartTick, StartSync
<1>3. \A s \in Sources : Tells(s)'
  BY <1>2, ToldStays
<1>4. CASE StartTick(p)
  <2>1. Ready(p)' /\ Crawls(p)'
    BY <1>4, StartTickFields DEF Ready, Crawls, Doing
  <2> QED
    BY <1>1, <1>3, <1>4, <2>1, StartTickFields, OnlyOneSyncs
<1>5. ASSUME NEW s \in Sources, StartSync(p, s) PROVE TellingInv'
  <2>1. Ready(p)' /\ Crawls(p)'
    BY <1>2, <1>5, StartSyncFields DEF Ready, Crawls, Doing
  <2> QED
    BY <1>1, <1>3, <1>5, <2>1, StartSyncFields, OnlyOneSyncs
<1> QED
  BY <1>4, <1>5

LEMMA TellingQuietStep ==
    ASSUME SyncInv, TellingInv, NEW p \in Syncers,
           (\E s \in Sources : Pick(p, s)) \/ Trigger(p) \/ EndTick(p) \/ Die(p)
    PROVE  TellingInv'
<1>1. InSync(p)
  BY DEF Pick, Trigger, EndTick, Die, Doing
<1>2. UNCHANGED <<standing, jobs>>
  BY DEF Pick, Trigger, EndTick, Die
<1>3. \A s \in Sources : Tells(s)'
  BY <1>2, ToldStays
<1>4. syncs' = [syncs EXCEPT ![p] = syncs'[p]] /\ Ready(p)' /\ Crawls(p)'
  BY <1>2, PickFields, TriggerFields, LeaveFields DEF Ready, Crawls, Doing
<1> QED
  BY <1>1, <1>3, <1>4, AloneIn, OnlyOneSyncs

LEMMA TellingBegin ==
    ASSUME SyncInv, TellingInv, NEW p \in Syncers, Begin(p) PROVE TellingInv'
<1>1. /\ InSync(p) /\ syncs[p].source \in Sources
      /\ syncs[p].was = standing[syncs[p].source]
  BY SyncUnderWay DEF Begin, Doing, TellingInv, Ready
<1>2. PICK src \in Sources : src = syncs[p].source
  BY <1>1
<1>3. /\ standing' = [standing EXCEPT ![src] = standing'[src]]
      /\ standing'[src] = "syncing"
  BY <1>1, <1>2 DEF Begin, Written, SyncInv, SyncTypeOK
<1>4. jobs' = [jobs EXCEPT ![src] = [status |-> "running", by |-> p]]
  BY <1>2, Zenon DEF Begin
<1>5. jobs'[src].status = "running" /\ jobs'[src].by = p
      /\ \A s \in Sources : s # src => jobs'[s] = jobs[s] /\ standing'[s] = standing[s]
  BY <1>3, <1>4 DEF SyncInv, SyncTypeOK
<1>6. \A s \in Sources : Tells(s)'
  BY <1>3, <1>5 DEF TellingInv, Tells
<1>7. syncs' = [syncs EXCEPT ![p] = syncs'[p]] /\ Ready(p)' /\ Crawls(p)'
  BY <1>2, <1>3, <1>5, BeginFields DEF Ready, Crawls, Doing
<1> QED
  BY <1>1, <1>6, <1>7, AloneIn, OnlyOneSyncs

\* The job of the sync and its source end together.
LEMMA TellingOutcome ==
    ASSUME SyncInv, TellingInv, NEW p \in Syncers, Doing(p, "crawl"),
           NEW outcome \in {"completed", "failed"},
           jobs' = JobAfter(p, outcome), standing' = StandingAfter(p, outcome)
    PROVE  \A s \in Sources : Tells(s)'
<1>1. /\ syncs[p].source \in Sources /\ syncs[p].was = "syncing"
      /\ jobs[syncs[p].source].by = p
  BY SyncUnderWay DEF Doing, TellingInv, Crawls
<1>2. PICK src \in Sources : src = syncs[p].source
  BY <1>1
<1>3. standing' = [standing EXCEPT ![src] = outcome]
  BY <1>1, <1>2 DEF StandingAfter, Written
<1>4. jobs' = [jobs EXCEPT ![src] = [status |-> outcome, by |-> Nobody]]
  BY <1>1, <1>2 DEF JobAfter
<1>5. /\ standing'[src] = outcome /\ jobs'[src].status = outcome
      /\ \A s \in Sources : s # src => jobs'[s] = jobs[s] /\ standing'[s] = standing[s]
  BY <1>3, <1>4 DEF SyncInv, SyncTypeOK
<1> QED
  BY <1>5 DEF TellingInv, Tells

LEMMA TellingCrawl ==
    ASSUME SyncInv, TellingInv, NEW p \in Syncers, Crawled(p) \/ CrawlFails(p)
    PROVE  TellingInv'
<1>1. InSync(p) /\ Doing(p, "crawl")
  BY DEF Crawled, CrawlFails, Doing
<1>2. \A s \in Sources : Tells(s)'
  BY <1>1, TellingOutcome DEF Crawled, CrawlFails
<1>3. syncs' = [syncs EXCEPT ![p] = syncs'[p]] /\ Ready(p)' /\ Crawls(p)'
  BY CrawledFields, CrawlFailsFields DEF Ready, Crawls, Doing
<1> QED
  BY <1>1, <1>2, <1>3, AloneIn, OnlyOneSyncs

\* A cancelled job tells nothing, and stays with the sync that runs it.
LEMMA TellingCancel ==
    ASSUME SyncInv, TellingInv, NEW s \in Sources, CancelSync(s) PROVE TellingInv'
<1>1. PICK job : job = jobs[s]
  OBVIOUS
<1>2. jobs \in [Sources -> [status: JobStatuses \cup {Nobody}, by: Syncers \cup {Nobody}]]
  BY DEF SyncInv, SyncTypeOK
<1>3. jobs' = [jobs EXCEPT ![s] = [job EXCEPT !.status = "cancelled"]]
  BY <1>1 DEF CancelSync
<1>4. /\ jobs'[s].status = "cancelled" /\ jobs'[s].by = jobs[s].by
      /\ \A t \in Sources : t # s => jobs'[t] = jobs[t]
  BY <1>1, <1>2, <1>3
<1>5. UNCHANGED <<standing, syncs>>
  BY DEF CancelSync
<1>6. \A t \in Sources : Tells(t)'
  BY <1>4, <1>5 DEF TellingInv, Tells
<1>7. \A p \in Syncers : Ready(p)'
  BY <1>5 DEF TellingInv, Ready, Doing, InSync
<1>8. ASSUME NEW p \in Syncers, Doing(p, "crawl") PROVE Crawls(p)'
  BY <1>4, <1>5, <1>8, SyncUnderWay DEF TellingInv, Crawls, Doing, InSync
<1>9. \A p \in Syncers : Doing(p, "crawl")' => Doing(p, "crawl")
  BY <1>5 DEF Doing, InSync
<1> QED
  BY <1>5, <1>6, <1>7, <1>8, <1>9 DEF TellingInv, InSync, Crawls

LEMMA TellingNext ==
    ASSUME SyncInv, "overlap" \notin exposed => TellingInv, [SyncNext]_syncVars
    PROVE  "overlap" \notin exposed' => TellingInv'
<1>1. exposed' = exposed
  BY DEF SyncNext, SyncStep, StartTick, StartSync, Pick, Begin, Crawled, CrawlFails, Trigger,
     EndTick, Die, CancelSync, ReadDocuments, BuildEnds, BuildFails, Elapse, syncVars
<1> SUFFICES ASSUME "overlap" \notin exposed, TellingInv PROVE TellingInv'
  BY <1>1
<1>2. ASSUME NEW p \in Syncers, StartTick(p) \/ SyncStep(p) \/ Die(p) PROVE TellingInv'
  BY <1>2, TellingStart, TellingQuietStep, TellingBegin, TellingCrawl DEF SyncStep
<1>3. ASSUME NEW p \in Syncers, NEW s \in Sources, StartSync(p, s) PROVE TellingInv'
  BY <1>3, TellingStart
<1>4. ASSUME UNCHANGED <<standing, jobs, syncs>> PROVE TellingInv'
  BY <1>4 DEF TellingInv, Tells, Ready, Crawls, Doing, InSync
<1>5. CASE ReadDocuments \/ BuildEnds \/ BuildFails \/ Elapse \/ UNCHANGED syncVars
  BY <1>4, <1>5 DEF ReadDocuments, BuildEnds, BuildFails, Elapse, syncVars
<1> QED
  BY <1>2, <1>3, <1>5, TellingCancel DEF SyncNext

\* Without overlap, a source that nobody synchronizes shows how its latest
\* job ended, whatever dies, fails or is cancelled: what a sync writes of its
\* source and of its job always belongs together.
THEOREM SourcesTellTheirSync == SyncSpec => []SourceTellsLastSync
<1> DEFINE Told == "overlap" \notin exposed => TellingInv
<1>1. SyncInit => Told
  <2> SUFFICES ASSUME SyncInit PROVE TellingInv
    OBVIOUS
  <2>1. \A p \in Syncers : ~ InSync(p)
    BY DEF SyncInit, InSync
  <2>2. \A s \in Sources : jobs[s].status = Nobody
    BY DEF SyncInit
  <2> QED
    BY <2>1, <2>2 DEF TellingInv, Tells, Ready, Crawls, Doing
<1>2. SyncInv /\ Told /\ [SyncNext]_syncVars => Told'
  BY TellingNext
<1>3. Told => SourceTellsLastSync
  BY DEF TellingInv, Tells, SourceTellsLastSync
<1> QED
  BY <1>1, <1>2, <1>3, InitSound, NextKeeps, PTL DEF SyncSpec

-----------------------------------------------------------------------------
(* The runtime has what was fetched.                                       *)

\* A step of a sync that leaves the runtime alone and was to ask for no
\* build.  Where builds are not slow, no build has read the documents then.
LEMMA BuildingQuietStep ==
    ASSUME SyncInv, BuildingInv, NEW p \in Syncers, UNCHANGED <<exposed, built>>,
           syncs' = [syncs EXCEPT ![p] = syncs'[p]],
           ~ Doing(p, "trigger") \/ "death" \in exposed,
           "slow" \notin exposed => ~ built.read
    PROVE  BuildingInv'
<1>1. ASSUME NEW q \in Syncers, Doing(q, "trigger"), "death" \notin exposed
      PROVE  Doing(q, "trigger")'
  <2>1. syncs'[q] = syncs[q]
    BY <1>1 DEF SyncInv
  <2> QED
    BY <1>1, <2>1 DEF Doing, InSync
<1> QED
  BY <1>1 DEF BuildingInv

\* A sync under way keeps the builder from the documents, unless it is slow.
LEMMA NothingRead ==
    ASSUME BuildingInv, NEW p \in Syncers, InSync(p) \/ MayBegin(p), "slow" \notin exposed
    PROVE  ~ built.read
BY DEF BuildingInv, Quiet, MayBegin

LEMMA BuildingCrawled ==
    ASSUME SyncInv, BuildingInv, NEW p \in Syncers, Crawled(p) PROVE BuildingInv'
<1>1. Doing(p, "trigger")' /\ exposed' = exposed
  BY CrawledFields DEF Doing, InSync, Crawled
<1>2. built'.read = built.read /\ built'.status = built.status
  BY DEF Crawled, SyncInv, SyncTypeOK, Runtimes
<1>3. "slow" \notin exposed => ~ built.read
  BY NothingRead DEF Crawled, Doing
<1> QED
  BY <1>1, <1>2, <1>3 DEF BuildingInv

LEMMA BuildingTrigger ==
    ASSUME SyncInv, BuildingInv, NEW p \in Syncers, Trigger(p) PROVE BuildingInv'
<1>1. "slow" \notin exposed => ~ built.read
  BY NothingRead DEF Trigger, Doing
<1>2. built'.read = built.read /\ built'.status = "building" /\ exposed' = exposed
  BY DEF Trigger, Rebuildable, SyncInv, SyncTypeOK, Runtimes
<1> QED
  BY <1>1, <1>2 DEF BuildingInv

\* The builder: what it has read is all there is, unless it is slow.
LEMMA BuildingBuilder ==
    ASSUME SyncInv, BuildingInv, ReadDocuments \/ BuildEnds \/ BuildFails PROVE BuildingInv'
<1>1. UNCHANGED <<exposed, syncs>> /\ (Quiet' <=> Quiet)
  BY DEF ReadDocuments, BuildEnds, BuildFails, Quiet, InSync
<1>2. CASE ReadDocuments
  <2>1. built'.read /\ ~ built'.stale /\ built'.status = "building"
    BY <1>2 DEF ReadDocuments, SyncInv, SyncTypeOK, Runtimes
  <2> QED
    BY <1>1, <1>2, <2>1 DEF BuildingInv, ReadDocuments
<1>3. CASE BuildEnds
  <2>1. ~ built'.read /\ built'.stale = built.stale
    BY <1>3 DEF BuildEnds, SyncInv, SyncTypeOK, Runtimes
  <2> QED
    BY <1>1, <1>3, <2>1 DEF BuildingInv, BuildEnds
<1>4. CASE BuildFails
  BY <1>1, <1>4 DEF BuildingInv, BuildFails
<1> QED
  BY <1>2, <1>3, <1>4

LEMMA BuildingNext ==
    ASSUME SyncInv, BuildingInv, [SyncNext]_syncVars PROVE BuildingInv'
<1>1. ASSUME NEW p \in Syncers,
             \/ StartTick(p) \/ Begin(p) \/ CrawlFails(p) \/ EndTick(p) \/ Die(p)
             \/ \E s \in Sources : StartSync(p, s) \/ Pick(p, s)
      PROVE  BuildingInv'
  <2>1. UNCHANGED <<exposed, built>>
    BY <1>1 DEF StartTick, Begin, CrawlFails, EndTick, Die, StartSync, Pick
  <2>2. syncs' = [syncs EXCEPT ![p] = syncs'[p]]
    BY <1>1, StartTickFields, BeginFields, CrawlFailsFields, LeaveFields, StartSyncFields,
       PickFields
  <2>3. ~ Doing(p, "trigger") \/ "death" \in exposed
    BY <1>1 DEF StartTick, Begin, CrawlFails, EndTick, Die, StartSync, Pick, MayBegin, Doing
  <2>4. InSync(p) \/ MayBegin(p)
    BY <1>1 DEF StartTick, Begin, CrawlFails, EndTick, Die, StartSync, Pick, Doing
  <2>5. "slow" \notin exposed => ~ built.read
    BY <2>4, NothingRead
  <2> QED
    BY <2>1, <2>2, <2>3, <2>5, BuildingQuietStep
<1>2. ASSUME UNCHANGED <<exposed, built, syncs>> PROVE BuildingInv'
  BY <1>2 DEF BuildingInv, Quiet, InSync, Doing
<1>3. CASE Elapse \/ UNCHANGED syncVars \/ \E s \in Sources : CancelSync(s)
  BY <1>2, <1>3 DEF Elapse, CancelSync, syncVars
<1> QED
  BY <1>1, <1>3, BuildingCrawled, BuildingTrigger, BuildingBuilder DEF SyncNext, SyncStep

\* Once all is quiet, an active runtime has what was fetched, however many
\* ticks and requests overlap, fail or are cancelled, as long as none dies and
\* no sync runs into a build.
THEOREM RuntimesHaveTheirSyncs == SyncSpec => []RuntimeHasSyncs
<1>1. SyncInit => BuildingInv
  BY DEF SyncInit, BuildingInv
<1>2. SyncInv /\ BuildingInv /\ [SyncNext]_syncVars => BuildingInv'
  BY BuildingNext
<1>3. BuildingInv => RuntimeHasSyncs
  BY DEF BuildingInv, RuntimeHasSyncs, Quiet, Doing
<1> QED
  BY <1>1, <1>2, <1>3, InitSound, NextKeeps, PTL DEF SyncSpec

-----------------------------------------------------------------------------
(***************************************************************************)
(* Funding accounts: the balance kept at a provider is what was told last  *)
(* less what was booked since, for any number of requests, bookers and     *)
(* amounts.                                                                *)
(***************************************************************************)

FundingSpec == FundingInit /\ [][FundingNext]_fundingVars

Books == [at: {"log", "book"}, usage: Usages]

(***************************************************************************)
(* A request is booked after it was logged, and once.                      *)
(***************************************************************************)
Logs(b) ==
    under[b] # NoAccount /\ under[b].at \in {"log", "book"} =>
        /\ under[b] \in Books
        /\ under[b].at = "book" => under[b].usage \in logged

BookedOfLogged ==
    /\ booked \in [Usages -> Nat]
    /\ DOMAIN under = Bookers
    /\ \A b \in Bookers : Logs(b)
    /\ \A u \in Usages : booked[u] <= 1 /\ (booked[u] = 1 => u \in logged)
    /\ since \subseteq {u \in Usages : booked[u] > 0}
    /\ told \in Nat

(***************************************************************************)
(* Without races one booker is under way, and what it loaded still holds.  *)
(***************************************************************************)
Holds(b) ==
    Loads(b) => under[b].copy = account /\ (under[b].at # "configure" => Opened)

Balanced ==
    /\ account.estimated = Less(told, Total(CostOf, since))
    /\ account.current \in {NoAccount, account.estimated}
    /\ judged /\ account.status # "disabled" =>
        (account.status = "healthy" <=> Effective(account) > account.minimum)

BalanceKept ==
    "race" \notin perils =>
        /\ \A b, c \in Bookers : under[b] # NoAccount /\ under[c] # NoAccount => b = c
        /\ \A b \in Bookers : Holds(b)
        /\ account \in Accounts \cup {NoAccount}
        /\ Opened => Balanced

FundingInv == BookedOfLogged /\ BalanceKept

-----------------------------------------------------------------------------
(* Balances.                                                               *)

\* A balance is lowered to a balance, and costs are taken off one by one.
LEMMA LessLaws ==
    ASSUME NEW a \in Nat, NEW b \in Nat, NEW c \in Nat
    PROVE  /\ Less(a, b) \in Nat
           /\ Less(a, 0) = a
           /\ Less(Less(a, b), c) = Less(a, b + c)
BY DEF Less

\* The costs that were booked add up to a number.
LEMMA BookedTotal ==
    ASSUME NEW S, S \subseteq Usages
    PROVE  /\ IsFiniteSet(S)
           /\ Total(CostOf, S) \in Nat
           /\ Total(CostOf, {}) = 0
           /\ \A u \in Usages \ S : Total(CostOf, S \cup {u}) = Total(CostOf, S) + CostOf[u]
<1>1. IsFiniteSet(S)
    BY ProviderFundingOK, FS_Subset
<1>2. \A u \in Usages : CostOf[u] \in Nat
    BY ProviderFundingOK
<1>3. Total(CostOf, S) \in Nat
    BY <1>1, <1>2, TotalType
<1>4. ASSUME NEW u \in Usages \ S
      PROVE  Total(CostOf, S \cup {u}) = Total(CostOf, S) + CostOf[u]
    <2>1. \A i \in S \cup {u} : CostOf[i] \in Nat
        BY <1>2
    <2>2. u \notin S
        OBVIOUS
    <2>3. QED
        BY <1>1, <2>1, <2>2, TotalAdd
<1>5. QED
    BY <1>1, <1>3, <1>4, TotalEmpty

\* What is flushed when nothing changed since it was loaded is what was set.
LEMMA FlushedWhole ==
    ASSUME account \in Accounts, NEW new \in Accounts
    PROVE  Flushed(account, new) = new
<1>1. DOMAIN account = DOMAIN new /\ new = [c \in DOMAIN new |-> new[c]]
    BY DEF Accounts
<1>2. Flushed(account, new) = [c \in DOMAIN account |-> new[c]]
    BY DEF Flushed
<1>3. QED
    BY <1>1, <1>2

\* A status may be any of its values; everything else stays.
LEMMA StatusSet ==
    ASSUME NEW a \in Accounts,
           NEW s \in {"unknown", "healthy", "low", "awaiting", "unsupported", "disabled"}
    PROVE  /\ [a EXCEPT !.status = s] \in Accounts
           /\ [a EXCEPT !.status = s].status = s
           /\ [a EXCEPT !.status = s].current = a.current
           /\ [a EXCEPT !.status = s].estimated = a.estimated
           /\ [a EXCEPT !.status = s].minimum = a.minimum
           /\ Effective([a EXCEPT !.status = s]) = Effective(a)
BY DEF Accounts, Effective

\* The balances may be any balances; everything else stays.
LEMMA BalancesSet ==
    ASSUME NEW a \in Accounts, NEW n \in Nat, NEW m \in Nat \cup {NoAccount}
    PROVE  /\ LET new == [a EXCEPT !.estimated = n]
              IN  /\ new \in Accounts /\ new.estimated = n
                  /\ new.current = a.current /\ new.minimum = a.minimum
           /\ LET new == [a EXCEPT !.current = m]
              IN  /\ new \in Accounts /\ new.current = m
                  /\ new.estimated = a.estimated /\ new.minimum = a.minimum
BY DEF Accounts

\* The status that is derived from the balances tells whether they suffice.
LEMMA StandingTells ==
    ASSUME NEW a \in Accounts
    PROVE  /\ Standing(a) \in {"low", "healthy"}
           /\ Standing(a) = "healthy" <=> Effective(a) > a.minimum
BY ProviderFundingOK DEF Standing, Effective, Accounts

\* So does the status of a check, unless the account is not monitored.
LEMMA VerdictTells ==
    ASSUME NEW a \in Accounts
    PROVE  /\ Verdict(a) \in {"healthy", "low", "awaiting", "unsupported", "disabled"}
           /\ Verdict(a) # "disabled" =>
                (Verdict(a) = "healthy" <=> Effective(a) > a.minimum)
BY ProviderFundingOK DEF Verdict, Accounts

-----------------------------------------------------------------------------
(* Requests are booked once.                                               *)

\* Whatever races, no request is booked twice or before it is logged.
LEMMA BookedStep ==
    ASSUME BookedOfLogged, [FundingNext]_fundingVars
    PROVE  BookedOfLogged'
<1>. USE DEF BookedOfLogged
<1>1. ASSUME NEW b \in Bookers, NEW u \in Usages, StartUsage(b, u)
      PROVE  BookedOfLogged'
    BY <1>1 DEF StartUsage, Logs, Books
<1>2. ASSUME NEW b \in Bookers, LogUsage(b)
      PROVE  BookedOfLogged'
    BY <1>2 DEF LogUsage, Under, Logs, Books
<1>3. ASSUME NEW b \in Bookers, Book(b)
      PROVE  BookedOfLogged'
    <2>1. /\ DOMAIN under' = Bookers /\ told' = told /\ logged' = logged
          /\ \A c \in Bookers : Logs(c)'
        BY <1>3 DEF Book, Idle, Logs
    <2>2. under[b].usage \in Usages /\ under[b].usage \in logged
        BY <1>3 DEF Book, Under, Logs, Books
    <2>3. CASE UNCHANGED <<account, booked, since, judged>>
        BY <2>1, <2>3
    <2>4. CASE /\ ~ Known(under[b].usage)
               /\ booked' = [booked EXCEPT ![under[b].usage] = @ + 1]
               /\ since' = since \cup {under[b].usage}
        BY <2>1, <2>2, <2>4 DEF Known
    <2>5. QED
        BY <1>3, <2>3, <2>4 DEF Book
<1>4. ASSUME NEW b \in Bookers, CheckAccount(b) \/ Drop(b)
      PROVE  BookedOfLogged'
    BY <1>4 DEF CheckAccount, Drop, Idle, Logs
<1>5. ASSUME NEW b \in Bookers, NEW op \in {"check", "reconcile", "configure"}, Load(b, op)
      PROVE  BookedOfLogged'
    BY <1>5 DEF Load, Logs
<1>6. ASSUME NEW b \in Bookers, NEW balance \in Balances, Reconcile(b, balance)
      PROVE  BookedOfLogged'
    <2>1. told' \in Nat /\ since' = {}
        BY <1>6, ProviderFundingOK DEF Reconcile
    <2>2. QED
        BY <1>6, <2>1 DEF Reconcile, Idle, Logs
<1>7. ASSUME NEW b \in Bookers, NEW current \in Balances \cup {NoAccount},
             NEW minimum \in Minima, NEW top \in Tops, NEW monitored \in BOOLEAN,
             NEW estimated \in Guesses(current),
             Configure(b, current, estimated, minimum, top, monitored)
      PROVE  BookedOfLogged'
    <2>1. /\ DOMAIN under' = Bookers
          /\ \A c \in Bookers : Logs(c)'
          /\ UNCHANGED <<booked, logged>>
        BY <1>7 DEF Configure, Idle, Logs
    <2>2. CASE UNCHANGED <<told, since>>
        BY <2>1, <2>2
    <2>3. CASE ~ UNCHANGED <<told, since>>
        <3>1. LET copy == under[b].copy IN
              /\ copy = NoAccount \/ current # NoAccount \/ copy.current = NoAccount
              /\ told' = Settings(copy, current, estimated, minimum, top, monitored).estimated
              /\ since' = {}
            BY <1>7, <2>3 DEF Configure
        <3>2. told' = IF current # NoAccount THEN current ELSE estimated
            <4>1. CASE current # NoAccount
                BY <3>1, <4>1 DEF Settings
            <4>2. CASE current = NoAccount
                BY <3>1, <4>2 DEF Settings
            <4>3. QED
                BY <4>1, <4>2
        <3>3. told' \in Balances
            BY <3>2 DEF Guesses
        <3>4. QED
            BY <2>1, <3>1, <3>3, ProviderFundingOK
    <2>4. QED
        BY <2>2, <2>3
<1>8. CASE UNCHANGED fundingVars
    BY <1>8 DEF fundingVars, Logs
<1>9. QED
    BY <1>1, <1>2, <1>3, <1>4, <1>5, <1>6, <1>7, <1>8 DEF FundingNext

-----------------------------------------------------------------------------
(* The balance is kept.                                                    *)

\* A cost that is booked is taken off both balances, and the status follows.
LEMMA ChargedBalances ==
    ASSUME account \in Accounts, Balanced, told \in Nat, since \subseteq Usages,
           NEW u \in Usages \ since
    PROVE  LET new == Charged(u)
           IN  /\ new \in Accounts
               /\ new.estimated = Less(told, Total(CostOf, since \cup {u}))
               /\ new.current \in {NoAccount, new.estimated}
               /\ new.status = "healthy" <=> Effective(new) > new.minimum
<1>1. CostOf[u] \in Nat /\ Total(CostOf, since) \in Nat
    BY ProviderFundingOK, BookedTotal
<1>2. Less(account.estimated, CostOf[u]) = Less(told, Total(CostOf, since \cup {u}))
    <2>1. Total(CostOf, since \cup {u}) = Total(CostOf, since) + CostOf[u]
        BY BookedTotal
    <2>2. Less(Less(told, Total(CostOf, since)), CostOf[u])
            = Less(told, Total(CostOf, since) + CostOf[u])
        BY <1>1, LessLaws
    <2>3. account.estimated = Less(told, Total(CostOf, since))
        BY DEF Balanced
    <2>4. QED
        BY <2>1, <2>2, <2>3
<1>3. Less(account.estimated, CostOf[u]) \in Nat
    BY <1>1, LessLaws DEF Accounts
<1>4. PICK lower \in Accounts :
        /\ lower = [account EXCEPT !.estimated = Less(account.estimated, CostOf[u])]
        /\ lower.estimated = Less(account.estimated, CostOf[u])
        /\ lower.current = account.current
    BY <1>3, BalancesSet
<1>5. PICK current \in {NoAccount, Less(account.estimated, CostOf[u])} :
        current = IF lower.current = NoAccount THEN NoAccount ELSE Less(lower.current, CostOf[u])
    BY <1>4 DEF Balanced
<1>6. PICK less \in Accounts :
        /\ less = [lower EXCEPT !.current = current]
        /\ less.current = current /\ less.estimated = lower.estimated
    <2>1. current \in Nat \cup {NoAccount}
        BY <1>3, <1>5
    <2>2. QED
        BY <2>1, BalancesSet
<1>7. Charged(u) = [less EXCEPT !.status = Standing(less)]
    BY <1>4, <1>5, <1>6 DEF Charged
<1>8. PICK new : new = Charged(u)
    OBVIOUS
<1>9. /\ new \in Accounts /\ new.status = Standing(less)
      /\ new.current = less.current /\ new.estimated = less.estimated
      /\ new.minimum = less.minimum /\ Effective(new) = Effective(less)
    <2>1. PICK s \in {"low", "healthy"} : s = Standing(less)
        BY <1>6, StandingTells
    <2>2. new = [less EXCEPT !.status = s]
        BY <1>7, <1>8, <2>1
    <2>3. QED
        BY <1>6, <2>1, <2>2 DEF Accounts, Effective
<1>10. new.status = "healthy" <=> Effective(new) > new.minimum
    BY <1>6, <1>9, StandingTells
<1>11. new.estimated = Less(told, Total(CostOf, since \cup {u}))
    BY <1>2, <1>4, <1>6, <1>9
<1>12. new.current \in {NoAccount, new.estimated}
    BY <1>4, <1>5, <1>6, <1>9
<1>13. QED
    BY <1>8, <1>9, <1>10, <1>11, <1>12

\* What a configuration writes is an account with the balances it was told.
LEMMA SettingsBalances ==
    ASSUME NEW a \in Accounts \cup {NoAccount}, NEW current \in Balances \cup {NoAccount},
           NEW minimum \in Minima, NEW top \in Tops, NEW monitored \in BOOLEAN,
           NEW estimated \in Guesses(current)
    PROVE  LET new == Settings(a, current, estimated, minimum, top, monitored)
           IN  /\ new \in Accounts
               /\ \/ a = NoAccount \/ current # NoAccount \/ a.current = NoAccount =>
                     new.current \in {NoAccount, new.estimated}
               /\ ~ (a = NoAccount \/ current # NoAccount \/ a.current = NoAccount) =>
                     new.current = a.current /\ new.estimated = a.estimated
BY ProviderFundingOK DEF Settings, Guesses, Accounts

\* What a behaviour is exposed to does not change.
LEMMA PerilsStay ==
    ASSUME [FundingNext]_fundingVars
    PROVE  perils' = perils
<1>1. ASSUME NEW b \in Bookers
      PROVE  /\ \A u \in Usages : StartUsage(b, u) => perils' = perils
             /\ LogUsage(b) \/ Book(b) \/ CheckAccount(b) \/ Drop(b) => perils' = perils
             /\ \A op \in {"check", "reconcile", "configure"} : Load(b, op) => perils' = perils
             /\ \A balance \in Balances : Reconcile(b, balance) => perils' = perils
    BY DEF StartUsage, LogUsage, Book, CheckAccount, Drop, Load, Reconcile
<1>2. ASSUME NEW b \in Bookers, NEW current \in Balances \cup {NoAccount},
             NEW minimum \in Minima, NEW top \in Tops, NEW monitored \in BOOLEAN,
             NEW estimated \in Guesses(current),
             Configure(b, current, estimated, minimum, top, monitored)
      PROVE  perils' = perils
    BY <1>2 DEF Configure
<1>3. QED
    BY <1>1, <1>2 DEF FundingNext, fundingVars

\* Without races every step keeps the balance.
LEMMA KeptStep ==
    ASSUME FundingInv, [FundingNext]_fundingVars
    PROVE  BalanceKept'
<1>. DEFINE Kept ==
        /\ \A b, c \in Bookers : under'[b] # NoAccount /\ under'[c] # NoAccount => b = c
        /\ \A b \in Bookers : Holds(b)'
        /\ account' \in Accounts \cup {NoAccount}
        /\ Opened' => Balanced'
<1>1. SUFFICES ASSUME "race" \notin perils
               PROVE  Kept
    BY PerilsStay DEF BalanceKept
<1>2. /\ \A b, c \in Bookers : under[b] # NoAccount /\ under[c] # NoAccount => b = c
      /\ \A b \in Bookers : Holds(b)
      /\ account \in Accounts \cup {NoAccount}
      /\ Opened => Balanced
      /\ told \in Nat /\ since \subseteq Usages /\ DOMAIN under = Bookers
    BY <1>1 DEF FundingInv, BalanceKept, BookedOfLogged
<1>3. ASSUME NEW b \in Bookers, under[b] # NoAccount, Idle(b)
      PROVE  \A c \in Bookers : under'[c] = NoAccount
    BY <1>2, <1>3 DEF Idle
<1>4. ASSUME \A c \in Bookers : under'[c] = NoAccount,
             account' \in Accounts \cup {NoAccount}, Opened' => Balanced'
      PROVE  Kept
    BY <1>4 DEF Holds, Loads
<1>5. ASSUME UNCHANGED <<account, told, since, judged>>, Opened
      PROVE  account' \in Accounts \cup {NoAccount} /\ Balanced'
    BY <1>2, <1>5 DEF Balanced, Effective
<1>6. ASSUME NEW b \in Bookers, NEW u \in Usages, StartUsage(b, u)
      PROVE  Kept
    <2>1. \A c \in Bookers : under[c] = NoAccount
        BY <1>1, <1>6 DEF StartUsage, Undisturbed
    <2>2. \A c \in Bookers : under'[c] # NoAccount => c = b /\ under'[c].at = "log"
        BY <1>2, <1>6, <2>1 DEF StartUsage
    <2>3. QED
        BY <1>2, <1>5, <1>6, <2>2 DEF StartUsage, Holds, Loads, Opened
<1>7. ASSUME NEW b \in Bookers, LogUsage(b)
      PROVE  Kept
    <2>1. under[b] \in Books
        BY <1>7 DEF LogUsage, Under, FundingInv, BookedOfLogged, Logs
    <2>2. \A c \in Bookers : c # b => under'[c] = NoAccount
        BY <1>2, <1>7 DEF LogUsage, Under
    <2>3. under'[b].at = "book"
        BY <1>2, <1>7, <2>1 DEF LogUsage, Books
    <2>4. QED
        BY <1>2, <1>5, <1>7, <2>2, <2>3 DEF LogUsage, Holds, Loads, Opened
<1>8. ASSUME NEW b \in Bookers, Book(b)
      PROVE  Kept
    <2>1. \A c \in Bookers : under'[c] = NoAccount
        BY <1>3, <1>8 DEF Book, Under
    <2>2. CASE ~ Opened \/ Known(under[b].usage)
        <3>1. UNCHANGED <<account, told, since, judged>>
            BY <1>8, <2>2 DEF Book
        <3>2. QED
            BY <1>2, <1>4, <1>5, <2>1, <3>1 DEF Opened
    <2>3. CASE Opened /\ ~ Known(under[b].usage)
        <3>1. PICK u \in Usages : u = under[b].usage
            BY <1>8 DEF Book, Under, FundingInv, BookedOfLogged, Logs, Books
        <3>2. u \notin since
            BY <2>3, <3>1 DEF FundingInv, BookedOfLogged, Known
        <3>3. account \in Accounts /\ Balanced
            BY <1>2, <2>3 DEF Opened
        <3>4. account' = Charged(u) /\ since' = since \cup {u} /\ told' = told
            BY <1>8, <2>3, <3>1 DEF Book
        <3>5. /\ account' \in Accounts
              /\ account'.estimated = Less(told, Total(CostOf, since \cup {u}))
              /\ account'.current \in {NoAccount, account'.estimated}
              /\ account'.status = "healthy" <=> Effective(account') > account'.minimum
            BY <1>2, <3>2, <3>3, <3>4, ChargedBalances
        <3>6. Balanced'
            BY <3>4, <3>5 DEF Balanced, Effective
        <3>7. QED
            BY <1>4, <2>1, <3>5, <3>6
    <2>4. QED
        BY <2>2, <2>3
<1>9. ASSUME NEW b \in Bookers, CheckAccount(b)
      PROVE  Kept
    <2>1. \A c \in Bookers : under'[c] = NoAccount
        BY <1>3, <1>9 DEF CheckAccount, Under
    <2>2. under[b].copy = account /\ account \in Accounts
        BY <1>2, <1>9 DEF CheckAccount, Under, Holds, Loads, Opened
    <2>3. PICK s \in {"healthy", "low", "awaiting", "unsupported", "disabled"} :
            s = Verdict(account)
        BY <2>2, VerdictTells
    <2>4. PICK new \in Accounts : new = [account EXCEPT !.status = s]
        BY <2>2, <2>3, StatusSet
    <2>5. account' = new
        BY <1>9, <2>2, <2>3, <2>4, FlushedWhole DEF CheckAccount
    <2>6. /\ new.status = s /\ new.current = account.current
          /\ new.estimated = account.estimated /\ new.minimum = account.minimum
          /\ Effective(new) = Effective(account)
        BY <2>2, <2>4 DEF Accounts, Effective
    <2>7. UNCHANGED <<told, since>>
        BY <1>9 DEF CheckAccount
    <2>8. /\ account.estimated = Less(told, Total(CostOf, since))
          /\ account.current \in {NoAccount, account.estimated}
        BY <1>2, <1>9, <2>2 DEF Balanced, Opened, CheckAccount, Under, Holds, Loads
    <2>9. account'.status # "disabled" =>
            (account'.status = "healthy" <=> Effective(account') > account'.minimum)
        BY <2>2, <2>3, <2>5, <2>6, VerdictTells
    <2>10. Balanced'
        BY <2>5, <2>6, <2>7, <2>8, <2>9 DEF Balanced, Effective
    <2>11. QED
        BY <1>4, <2>1, <2>5, <2>10
<1>10. ASSUME NEW b \in Bookers, Drop(b)
      PROVE  Kept
    <2>1. \A c \in Bookers : under'[c] = NoAccount
        BY <1>3, <1>10 DEF Drop
    <2>2. QED
        BY <1>2, <1>4, <1>5, <1>10, <2>1 DEF Drop, Opened
<1>11. ASSUME NEW b \in Bookers, NEW op \in {"check", "reconcile", "configure"}, Load(b, op)
      PROVE  Kept
    <2>1. \A c \in Bookers : under[c] = NoAccount
        BY <1>1, <1>11 DEF Load, Undisturbed
    <2>2. \A c \in Bookers : under'[c] # NoAccount => c = b /\ under'[c].copy = account
        BY <1>2, <1>11, <2>1 DEF Load
    <2>3. QED
        BY <1>2, <1>5, <1>11, <2>2 DEF Load, Holds, Loads, Opened
<1>12. ASSUME NEW b \in Bookers, NEW balance \in Balances, Reconcile(b, balance)
      PROVE  Kept
    <2>1. \A c \in Bookers : under'[c] = NoAccount
        BY <1>3, <1>12 DEF Reconcile, Under
    <2>2. under[b].copy = account /\ account \in Accounts
        BY <1>2, <1>12 DEF Reconcile, Under, Holds, Loads, Opened
    <2>3. PICK new \in Accounts : /\ new = Corrected(account, balance)
                                  /\ new.current = balance /\ new.estimated = balance
        <3>1. balance \in Nat
            BY ProviderFundingOK
        <3>2. PICK told1 : told1 = [account EXCEPT !.current = balance]
            OBVIOUS
        <3>3. Corrected(account, balance) = [told1 EXCEPT !.estimated = balance]
            BY <3>2 DEF Corrected
        <3>4. told1 \in Accounts /\ told1.current = balance
            BY <2>2, <3>1, <3>2 DEF Accounts
        <3>5. QED
            BY <3>1, <3>3, <3>4 DEF Accounts
    <2>4. PICK s \in {"low", "healthy"} : s = Standing(new)
        BY StandingTells
    <2>5. PICK final \in Accounts : final = [new EXCEPT !.status = s]
        BY StatusSet
    <2>6. account' = final
        BY <1>12, <2>2, <2>3, <2>4, <2>5, FlushedWhole DEF Reconcile
    <2>7. /\ final.status = s /\ final.current = balance /\ final.estimated = balance
          /\ final.minimum = new.minimum /\ Effective(final) = Effective(new)
        BY <2>3, <2>5 DEF Accounts, Effective
    <2>8. told' = balance /\ since' = {} /\ balance \in Nat
        BY <1>12, ProviderFundingOK DEF Reconcile
    <2>9. account'.estimated = Less(told', Total(CostOf, since'))
        BY <2>6, <2>7, <2>8, BookedTotal, LessLaws
    <2>10. account'.status = "healthy" <=> Effective(account') > account'.minimum
        BY <2>4, <2>6, <2>7, StandingTells
    <2>11. Balanced'
        BY <2>6, <2>7, <2>9, <2>10 DEF Balanced, Effective
    <2>12. QED
        BY <1>4, <2>1, <2>6, <2>11
<1>13. ASSUME NEW b \in Bookers, NEW current \in Balances \cup {NoAccount},
             NEW minimum \in Minima, NEW top \in Tops, NEW monitored \in BOOLEAN,
             NEW estimated \in Guesses(current),
             Configure(b, current, estimated, minimum, top, monitored)
      PROVE  Kept
    <2>1. \A c \in Bookers : under'[c] = NoAccount
        BY <1>3, <1>13 DEF Configure, Under
    <2>2. under[b].copy = account
        BY <1>2, <1>13 DEF Configure, Under, Holds, Loads
    <2>3. PICK new \in Accounts :
            new = Settings(account, current, estimated, minimum, top, monitored)
        BY <1>2, SettingsBalances
    <2>4. CASE account = NoAccount /\ Opened
        BY <2>4 DEF Opened
    <2>5. CASE ~ (account = NoAccount /\ Opened)
        <3>1. account' = new
            BY <1>2, <1>13, <2>2, <2>3, <2>5, FlushedWhole DEF Configure
        <3>2. judged' = FALSE
            BY <1>13, <2>2, <2>5 DEF Configure
        <3>3. CASE account = NoAccount \/ current # NoAccount \/ account.current = NoAccount
            <4>1. told' = new.estimated /\ since' = {}
                BY <1>13, <2>2, <2>3, <2>5, <3>3 DEF Configure
            <4>2. new.current \in {NoAccount, new.estimated} /\ new.estimated \in Nat
                BY <1>2, <2>3, <3>3, SettingsBalances DEF Accounts
            <4>3. new.estimated = Less(told', Total(CostOf, since'))
                BY <4>1, <4>2, BookedTotal, LessLaws
            <4>4. Balanced'
                BY <3>1, <3>2, <4>2, <4>3 DEF Balanced
            <4>5. QED
                BY <1>4, <2>1, <3>1, <4>4
        <3>4. CASE ~ (account = NoAccount \/ current # NoAccount \/ account.current = NoAccount)
            <4>1. UNCHANGED <<told, since>>
                BY <1>13, <2>2, <2>5, <3>4 DEF Configure
            <4>2. new.current = account.current /\ new.estimated = account.estimated
                BY <1>2, <2>3, <3>4, SettingsBalances
            <4>3. Balanced
                BY <1>2, <3>4 DEF Opened
            <4>4. Balanced'
                BY <3>1, <3>2, <4>1, <4>2, <4>3 DEF Balanced
            <4>5. QED
                BY <1>4, <2>1, <3>1, <4>4
        <3>5. QED
            BY <3>3, <3>4
    <2>6. QED
        BY <2>4, <2>5
<1>14. CASE UNCHANGED fundingVars
    BY <1>2, <1>5, <1>14 DEF fundingVars, Holds, Loads, Opened
<1>15. QED
    BY <1>6, <1>7, <1>8, <1>9, <1>10, <1>11, <1>12, <1>13, <1>14 DEF FundingNext

-----------------------------------------------------------------------------
\* The cost of a request that is logged is taken off a provider's balance
\* once, and the balance is what was told last less what was booked since
\* (ProviderFundingService).
THEOREM FundingIsTold == FundingSpec => []BalanceIsTold
<1>1. FundingInit => FundingInv
    <2>1. SUFFICES ASSUME FundingInit
                   PROVE  FundingInv
        OBVIOUS
    <2>2. BookedOfLogged
        BY <2>1 DEF FundingInit, BookedOfLogged, Logs
    <2>3. BalanceKept
        BY <2>1 DEF FundingInit, BalanceKept, Holds, Loads, Opened
    <2>4. QED
        BY <2>2, <2>3 DEF FundingInv
<1>2. FundingInv /\ [FundingNext]_fundingVars => FundingInv'
    BY BookedStep, KeptStep DEF FundingInv
<1>3. FundingInv => BalanceIsTold
    BY DEF FundingInv, BookedOfLogged, BalanceKept, Balanced, BalanceIsTold
<1>4. QED
    BY <1>1, <1>2, <1>3, PTL DEF FundingSpec

-----------------------------------------------------------------------------
(***************************************************************************)
(* Request limits: limits are temporary, for any number of requests and    *)
(* any limits.                                                             *)
(***************************************************************************)

LimitsSpec == LimitsInit /\ [][LimitsNext]_limitVars

Keys == [hits: Nat, hitsLapse: BOOLEAN, strikes: Nat, strikesLapse: BOOLEAN, blocked: BOOLEAN]

LimitsTypeOK ==
    /\ keys \in Keys
    /\ visits \in [Visits -> Checked \cup {NoVisit}]
    /\ struck \in Nat

(***************************************************************************)
(* The counters lapse, or a request is about to see to it.                 *)
(***************************************************************************)
CountersLapse ==
    straits \cap {"abort", "outage"} = {} =>
        /\ keys.hits > 0 /\ ~ keys.hitsLapse => About("hitLife")
        /\ keys.strikes > 0 /\ ~ keys.strikesLapse => About("strikeLife")

(***************************************************************************)
(* Redis counts no violation that did not happen since the owner cleared   *)
(* the block, and no request has come further than they allow.             *)
(***************************************************************************)
StruckFor(v) ==
    visits[v] # NoVisit =>
        /\ visits[v].at = "ban" => struck >= ViolationLimit
        /\ visits[v].at = "strikeLife" => struck >= 1

BlocksHaveGrounds ==
    "race" \notin straits =>
        /\ keys.strikes <= struck
        /\ keys.blocked => struck >= ViolationLimit
        /\ \A v \in Visits : StruckFor(v)

LimitsInv == LimitsTypeOK /\ CountersLapse /\ BlocksHaveGrounds

-----------------------------------------------------------------------------
(* Types.                                                                  *)

\* A key may be set to any value of its type.
LEMMA KeySet ==
    ASSUME NEW k \in Keys, NEW n \in Nat, NEW b \in BOOLEAN
    PROVE  /\ [k EXCEPT !.hits = n] \in Keys /\ [k EXCEPT !.strikes = n] \in Keys
           /\ [k EXCEPT !.hitsLapse = b] \in Keys /\ [k EXCEPT !.strikesLapse = b] \in Keys
           /\ [k EXCEPT !.blocked = b] \in Keys
BY DEF Keys

\* Every command leaves the keys well typed.
LEMMA CommandedType ==
    ASSUME LimitsTypeOK, NEW v \in Visits, visits[v] # NoVisit
    PROVE  Commanded(v) \in Keys
<1>1. visits[v].at \in Commands /\ keys \in Keys
    BY DEF LimitsTypeOK, Checked
<1>2. /\ OneMore(keys.hits, RateLimit) \in Nat
      /\ OneMore(keys.strikes, ViolationLimit) \in Nat
      /\ (keys.hits > 0) \in BOOLEAN /\ (keys.strikes > 0) \in BOOLEAN
    BY <1>1, RequestLimitsOK DEF Keys, OneMore
<1>3. CASE visits[v].at = "block"
    BY <1>1, <1>3 DEF Commanded
<1>4. CASE visits[v].at \in {"hit", "strike"}
    BY <1>1, <1>2, <1>4, KeySet DEF Commanded
<1>5. CASE visits[v].at = "hitLife"
    <2>1. Commanded(v) = [keys EXCEPT !.hitsLapse = keys.hits > 0]
        BY <1>5 DEF Commanded
    <2>2. QED
        BY <1>1, <1>2, <2>1, KeySet
<1>6. CASE visits[v].at = "strikeLife"
    <2>1. Commanded(v) = [keys EXCEPT !.strikesLapse = keys.strikes > 0]
        BY <1>6 DEF Commanded
    <2>2. QED
        BY <1>1, <1>2, <2>1, KeySet
<1>7. CASE visits[v].at = "ban"
    BY <1>1, <1>7, KeySet DEF Commanded
<1>8. QED
    BY <1>1, <1>3, <1>4, <1>5, <1>6, <1>7 DEF Commands

\* A key that lapses takes its lifetime with it and leaves the others alone.
LEMMA Lapsed ==
    ASSUME LimitsTypeOK, Lapse
    PROVE  /\ keys' \in Keys
           /\ \/ keys'.hits = 0
              \/ keys'.hits = keys.hits /\ keys'.hitsLapse = keys.hitsLapse
           /\ \/ keys'.strikes = 0
              \/ keys'.strikes = keys.strikes /\ keys'.strikesLapse = keys.strikesLapse
           /\ keys'.blocked => keys.blocked
<1>1. keys \in Keys
    BY DEF LimitsTypeOK
<1>2. CASE keys' = [[keys EXCEPT !.hits = 0] EXCEPT !.hitsLapse = FALSE]
    <2>1. PICK k \in Keys : k = [keys EXCEPT !.hits = 0]
        BY <1>1, KeySet
    <2>2. keys' = [k EXCEPT !.hitsLapse = FALSE]
        BY <1>2, <2>1
    <2>3. keys' \in Keys
        BY <2>2, KeySet
    <2>4. QED
        BY <1>1, <2>1, <2>2, <2>3 DEF Keys
<1>3. CASE keys' = [[keys EXCEPT !.strikes = 0] EXCEPT !.strikesLapse = FALSE]
    <2>1. PICK k \in Keys : k = [keys EXCEPT !.strikes = 0]
        BY <1>1, KeySet
    <2>2. keys' = [k EXCEPT !.strikesLapse = FALSE]
        BY <1>3, <2>1
    <2>3. keys' \in Keys
        BY <2>2, KeySet
    <2>4. QED
        BY <1>1, <2>1, <2>2, <2>3 DEF Keys
<1>4. CASE keys' = [keys EXCEPT !.blocked = FALSE]
    <2>1. keys' \in Keys
        BY <1>1, <1>4, KeySet
    <2>2. QED
        BY <1>1, <1>4, <2>1 DEF Keys
<1>5. QED
    BY <1>2, <1>3, <1>4 DEF Lapse

\* The violations are counted.
LEMMA StruckType ==
    ASSUME LimitsTypeOK, NEW v \in Visits, NEW new
    PROVE  Struck(v, new) \in Nat
BY DEF LimitsTypeOK, Struck, OneMore

\* A request that moves on is still a request that is checked.
LEMMA LeadsType ==
    ASSUME LimitsTypeOK, NEW v \in Visits, visits[v] # NoVisit
    PROVE  /\ Answered(v) \in [Visits -> Checked \cup {NoVisit}]
           /\ Unanswered(v) \in [Visits -> Checked \cup {NoVisit}]
<1>1. visits[v] \in Checked
    BY DEF LimitsTypeOK
<1>2. ASSUME NEW at \in Commands
      PROVE  Reaches(v, at) \in [Visits -> Checked \cup {NoVisit}]
    BY <1>1 DEF LimitsTypeOK, Reaches, Checked
<1>3. Leaves(v) \in [Visits -> Checked \cup {NoVisit}]
    BY DEF LimitsTypeOK, Leaves
<1>4. WithinRate(v) \in [Visits -> Checked \cup {NoVisit}]
    BY <1>2, <1>3 DEF WithinRate, Commands
<1>5. visits[v].at \in Commands
    BY <1>1 DEF Checked
<1>6. Answered(v) \in [Visits -> Checked \cup {NoVisit}]
    BY <1>2, <1>3, <1>4, <1>5 DEF Answered, Commands
<1>7. Unanswered(v) \in [Visits -> Checked \cup {NoVisit}]
    BY <1>2, <1>3, <1>4, <1>5 DEF Unanswered, Commands
<1>8. QED
    BY <1>6, <1>7

\* Every step keeps the types.
LEMMA LimitsTypeStep ==
    ASSUME LimitsTypeOK, [LimitsNext]_limitVars
    PROVE  LimitsTypeOK'
<1>1. ASSUME NEW v \in Visits, NEW open \in BOOLEAN, NEW bad \in BOOLEAN, Arrive(v, open, bad)
      PROVE  LimitsTypeOK'
    <2>1. [at |-> "block", open |-> open, bad |-> bad] \in Checked
        BY DEF Checked, Commands
    <2>2. QED
        BY <1>1, <2>1 DEF LimitsTypeOK, Arrive
<1>2. ASSUME NEW v \in Visits, Command(v)
      PROVE  LimitsTypeOK'
    BY <1>2, CommandedType, StruckType, LeadsType DEF LimitsTypeOK, Command
<1>3. ASSUME NEW v \in Visits, Lose(v)
      PROVE  LimitsTypeOK'
    BY <1>3, CommandedType, StruckType, LeadsType DEF LimitsTypeOK, Lose
<1>4. ASSUME NEW v \in Visits, Vanish(v)
      PROVE  LimitsTypeOK'
    BY <1>4 DEF LimitsTypeOK, Vanish, Leaves
<1>5. CASE Unblock
    BY <1>5 DEF LimitsTypeOK, Unblock, Cleared, Keys
<1>6. CASE Lapse
    BY <1>6, Lapsed DEF LimitsTypeOK, Lapse
<1>7. CASE UNCHANGED limitVars
    BY <1>7 DEF LimitsTypeOK, limitVars
<1>8. QED
    BY <1>1, <1>2, <1>3, <1>4, <1>5, <1>6, <1>7 DEF LimitsNext

-----------------------------------------------------------------------------
(* Invariance.                                                             *)

\* Requests that are checked at the same time do not move one another.
LEMMA OthersStay ==
    ASSUME LimitsTypeOK, NEW v \in Visits, NEW new \in {Answered(v), Unanswered(v), Leaves(v)},
           visits[v] # NoVisit, NEW w \in Visits, w # v
    PROVE  new[w] = visits[w]
<1>1. visits[v].at \in Commands
    BY DEF LimitsTypeOK, Checked
<1>2. QED
    BY <1>1 DEF LimitsTypeOK, Answered, Unanswered, WithinRate, Reaches, Leaves, Commands

\* The first INCR of a counter leaves a request that will send its EXPIRE.
LEMMA LapseStep ==
    ASSUME LimitsInv, [LimitsNext]_limitVars
    PROVE  CountersLapse'
<1>1. SUFFICES ASSUME straits \cap {"abort", "outage"} = {}, straits' = straits
               PROVE  /\ keys'.hits > 0 /\ ~ keys'.hitsLapse => About("hitLife")'
                      /\ keys'.strikes > 0 /\ ~ keys'.strikesLapse => About("strikeLife")'
    BY DEF CountersLapse, LimitsNext, limitVars, Arrive, Command, Lose, Vanish, Unblock, Lapse
<1>2. /\ keys.hits > 0 /\ ~ keys.hitsLapse => About("hitLife")
      /\ keys.strikes > 0 /\ ~ keys.strikesLapse => About("strikeLife")
    BY <1>1 DEF LimitsInv, CountersLapse
<1>3. ASSUME NEW v \in Visits, NEW open \in BOOLEAN, NEW bad \in BOOLEAN, Arrive(v, open, bad)
      PROVE  /\ keys'.hits > 0 /\ ~ keys'.hitsLapse => About("hitLife")'
             /\ keys'.strikes > 0 /\ ~ keys'.strikesLapse => About("strikeLife")'
    BY <1>2, <1>3 DEF Arrive, About, LimitsInv, LimitsTypeOK
<1>4. ASSUME NEW v \in Visits, Command(v)
      PROVE  /\ keys'.hits > 0 /\ ~ keys'.hitsLapse => About("hitLife")'
             /\ keys'.strikes > 0 /\ ~ keys'.strikesLapse => About("strikeLife")'
    <2>. USE <1>4 DEF Command
    <2>1. visits[v] \in Checked /\ visits[v].at \in Commands
        BY DEF LimitsInv, LimitsTypeOK, Checked
    <2>2. ASSUME NEW w \in Visits, w # v
          PROVE  visits'[w] = visits[w]
        BY <2>2, OthersStay DEF LimitsInv
    <2>3. ASSUME NEW at, About(at), at # visits[v].at
          PROVE  About(at)'
        BY <2>2, <2>3 DEF About
    <2>4. CASE visits[v].at \in {"block", "ban"}
        <3>1. /\ keys'.hits = keys.hits /\ keys'.hitsLapse = keys.hitsLapse
              /\ keys'.strikes = keys.strikes /\ keys'.strikesLapse = keys.strikesLapse
            BY <2>4 DEF Commanded, LimitsInv, LimitsTypeOK, Keys
        <3>2. QED
            BY <1>2, <2>3, <2>4, <3>1
    <2>5. CASE visits[v].at = "hit"
        <3>1. /\ keys'.hitsLapse = keys.hitsLapse
              /\ keys'.strikes = keys.strikes /\ keys'.strikesLapse = keys.strikesLapse
            BY <2>5 DEF Commanded, LimitsInv, LimitsTypeOK, Keys
        <3>2. keys.hits = 0 => About("hitLife")'
            <4>1. SUFFICES ASSUME keys.hits = 0
                           PROVE  About("hitLife")'
                OBVIOUS
            <4>2. visits' = Reaches(v, "hitLife")
                BY <2>5, <4>1 DEF Answered
            <4>3. visits'[v].at = "hitLife" /\ visits'[v] \in Checked
                BY <2>1, <4>2 DEF Reaches, LimitsInv, LimitsTypeOK, Checked, Commands
            <4>4. QED
                BY <4>3, RequestLimitsOK DEF About
        <3>3. keys.hits \in Nat
            BY DEF LimitsInv, LimitsTypeOK, Keys
        <3>4. QED
            BY <1>2, <2>3, <2>5, <3>1, <3>2, <3>3
    <2>6. CASE visits[v].at = "hitLife"
        <3>1. /\ keys'.hits = keys.hits /\ keys'.hitsLapse = (keys.hits > 0)
              /\ keys'.strikes = keys.strikes /\ keys'.strikesLapse = keys.strikesLapse
            BY <2>6 DEF Commanded, LimitsInv, LimitsTypeOK, Keys
        <3>2. QED
            BY <1>2, <2>3, <2>6, <3>1
    <2>7. CASE visits[v].at = "strike"
        <3>1. /\ keys'.strikesLapse = keys.strikesLapse
              /\ keys'.hits = keys.hits /\ keys'.hitsLapse = keys.hitsLapse
            BY <2>7 DEF Commanded, LimitsInv, LimitsTypeOK, Keys
        <3>2. keys.strikes = 0 => About("strikeLife")'
            <4>1. SUFFICES ASSUME keys.strikes = 0
                           PROVE  About("strikeLife")'
                OBVIOUS
            <4>2. visits' = Reaches(v, "strikeLife")
                BY <2>7, <4>1 DEF Answered
            <4>3. visits'[v].at = "strikeLife" /\ visits'[v] \in Checked
                BY <2>1, <4>2 DEF Reaches, LimitsInv, LimitsTypeOK, Checked, Commands
            <4>4. QED
                BY <4>3, RequestLimitsOK DEF About
        <3>3. keys.strikes \in Nat
            BY DEF LimitsInv, LimitsTypeOK, Keys
        <3>4. QED
            BY <1>2, <2>3, <2>7, <3>1, <3>2, <3>3
    <2>8. CASE visits[v].at = "strikeLife"
        <3>1. /\ keys'.strikes = keys.strikes /\ keys'.strikesLapse = (keys.strikes > 0)
              /\ keys'.hits = keys.hits /\ keys'.hitsLapse = keys.hitsLapse
            BY <2>8 DEF Commanded, LimitsInv, LimitsTypeOK, Keys
        <3>2. QED
            BY <1>2, <2>3, <2>8, <3>1
    <2>9. QED
        BY <2>1, <2>4, <2>5, <2>6, <2>7, <2>8 DEF Commands
<1>5. ASSUME NEW v \in Visits, Lose(v) \/ Vanish(v)
      PROVE  FALSE
    BY <1>1, <1>5 DEF Lose, Vanish
<1>6. CASE Unblock
    BY <1>2, <1>6 DEF Unblock, Cleared, About
<1>7. CASE Lapse
    <2>1. visits' = visits
        BY <1>7 DEF Lapse
    <2>2. /\ \/ keys'.hits = 0
             \/ keys'.hits = keys.hits /\ keys'.hitsLapse = keys.hitsLapse
          /\ \/ keys'.strikes = 0
             \/ keys'.strikes = keys.strikes /\ keys'.strikesLapse = keys.strikesLapse
        BY <1>7, Lapsed DEF LimitsInv
    <2>3. QED
        BY <1>2, <2>1, <2>2 DEF About
<1>8. CASE UNCHANGED limitVars
    BY <1>2, <1>8 DEF limitVars, About
<1>9. QED
    BY <1>3, <1>4, <1>5, <1>6, <1>7, <1>8 DEF LimitsNext

\* A block, and the way to it, rest on violations that were struck.
LEMMA GroundsStep ==
    ASSUME LimitsInv, [LimitsNext]_limitVars
    PROVE  BlocksHaveGrounds'
<1>1. SUFFICES ASSUME "race" \notin straits, straits' = straits
               PROVE  /\ keys'.strikes <= struck'
                      /\ keys'.blocked => struck' >= ViolationLimit
                      /\ \A v \in Visits : StruckFor(v)'
    BY DEF BlocksHaveGrounds, LimitsNext, limitVars, Arrive, Command, Lose, Vanish, Unblock, Lapse
<1>2. /\ keys.strikes <= struck
      /\ keys.blocked => struck >= ViolationLimit
      /\ \A v \in Visits : StruckFor(v)
      /\ keys.strikes \in Nat /\ struck \in Nat /\ ViolationLimit \in Nat \ {0}
    BY <1>1, RequestLimitsOK DEF LimitsInv, BlocksHaveGrounds, LimitsTypeOK, Keys
<1>3. ASSUME NEW v \in Visits, visits[v] # NoVisit,
             \/ keys' = keys \/ keys' = Commanded(v),
             struck' = Struck(v, keys')
      PROVE  /\ struck' >= struck
             /\ keys'.strikes <= struck'
             /\ keys'.blocked => struck' >= ViolationLimit
             /\ visits[v].at = "strike" /\ keys' = Commanded(v) =>
                    /\ struck' >= 1
                    /\ keys.strikes + 1 >= ViolationLimit => struck' >= ViolationLimit
    <2>1. visits[v].at \in Commands
        BY <1>3 DEF LimitsInv, LimitsTypeOK, Checked
    <2>2. CASE visits[v].at # "strike" \/ keys' = keys
        <3>1. struck' = struck
            BY <1>3, <2>2 DEF Struck
        <3>2. keys'.strikes = keys.strikes
            BY <1>3, <2>1, <2>2 DEF Commanded, Commands, LimitsInv, LimitsTypeOK, Keys
        <3>3. keys'.blocked => keys.blocked \/ visits[v].at = "ban"
            BY <1>3, <2>1, <2>2 DEF Commanded, Commands, LimitsInv, LimitsTypeOK, Keys
        <3>4. visits[v].at = "strike" /\ keys' = Commanded(v) => keys.strikes > ViolationLimit
            <4>1. SUFFICES ASSUME visits[v].at = "strike", keys' = Commanded(v)
                           PROVE  keys.strikes > ViolationLimit
                OBVIOUS
            <4>2. keys = [keys EXCEPT !.strikes = OneMore(keys.strikes, ViolationLimit)]
                BY <2>2, <4>1 DEF Commanded
            <4>3. keys.strikes = OneMore(keys.strikes, ViolationLimit)
                BY <4>2 DEF LimitsInv, LimitsTypeOK, Keys
            <4>4. QED
                BY <1>2, <4>3 DEF OneMore
        <3>5. QED
            BY <1>2, <1>3, <3>1, <3>2, <3>3, <3>4 DEF StruckFor
    <2>3. CASE visits[v].at = "strike" /\ keys' # keys
        <3>1. /\ struck' = OneMore(struck, ViolationLimit)
              /\ keys' = [keys EXCEPT !.strikes = OneMore(keys.strikes, ViolationLimit)]
            BY <1>3, <2>3 DEF Struck, Commanded
        <3>2. /\ keys'.strikes = OneMore(keys.strikes, ViolationLimit)
              /\ keys'.blocked = keys.blocked
            BY <3>1 DEF LimitsInv, LimitsTypeOK, Keys
        <3>3. QED
            BY <1>2, <3>1, <3>2 DEF OneMore
    <2>4. QED
        BY <2>2, <2>3
<1>4. ASSUME NEW v \in Visits, NEW open \in BOOLEAN, NEW bad \in BOOLEAN, Arrive(v, open, bad)
      PROVE  /\ keys'.strikes <= struck'
             /\ keys'.blocked => struck' >= ViolationLimit
             /\ \A w \in Visits : StruckFor(w)'
    BY <1>2, <1>4 DEF Arrive, StruckFor, LimitsInv, LimitsTypeOK
<1>5. ASSUME NEW v \in Visits, Command(v)
      PROVE  /\ keys'.strikes <= struck'
             /\ keys'.blocked => struck' >= ViolationLimit
             /\ \A w \in Visits : StruckFor(w)'
    <2>. USE <1>5 DEF Command
    <2>1. /\ struck' \in Nat /\ struck' >= struck
          /\ keys'.strikes <= struck'
          /\ keys'.blocked => struck' >= ViolationLimit
          /\ visits[v].at = "strike" =>
                /\ struck' >= 1
                /\ keys.strikes + 1 >= ViolationLimit => struck' >= ViolationLimit
        BY <1>3, StruckType DEF LimitsInv
    <2>2. ASSUME NEW w \in Visits, w # v
          PROVE  StruckFor(w)'
        BY <1>2, <2>1, <2>2, OthersStay DEF StruckFor, LimitsInv
    <2>3. StruckFor(v)'
        <3>1. visits[v] \in Checked /\ visits[v].at \in Commands
            BY DEF LimitsInv, LimitsTypeOK, Checked
        <3>2. visits'[v] # NoVisit /\ visits'[v].at = "ban" =>
                 \/ visits[v].at = "strike" /\ keys.strikes + 1 >= ViolationLimit
                 \/ visits[v].at = "strikeLife" /\ ViolationLimit = 1
            BY <3>1 DEF Answered, WithinRate, Reaches, Leaves, Commands, LimitsInv, LimitsTypeOK, Checked
        <3>3. visits'[v] # NoVisit /\ visits'[v].at = "strikeLife" => visits[v].at = "strike"
            BY <3>1 DEF Answered, WithinRate, Reaches, Leaves, Commands, LimitsInv, LimitsTypeOK, Checked
        <3>4. QED
            BY <1>2, <2>1, <3>2, <3>3 DEF StruckFor
    <2>4. QED
        BY <2>1, <2>2, <2>3
<1>6. ASSUME NEW v \in Visits, Lose(v)
      PROVE  /\ keys'.strikes <= struck'
             /\ keys'.blocked => struck' >= ViolationLimit
             /\ \A w \in Visits : StruckFor(w)'
    <2>1. /\ visits[v] # NoVisit /\ visits' = Unanswered(v)
          /\ keys' = keys \/ keys' = Commanded(v)
          /\ struck' = Struck(v, keys')
        BY <1>6 DEF Lose
    <2>2. /\ struck' \in Nat /\ struck' >= struck
          /\ keys'.strikes <= struck'
          /\ keys'.blocked => struck' >= ViolationLimit
        BY <1>3, <2>1, StruckType DEF LimitsInv
    <2>3. ASSUME NEW w \in Visits, w # v
          PROVE  StruckFor(w)'
        BY <1>2, <2>1, <2>2, <2>3, OthersStay DEF StruckFor, LimitsInv
    <2>4. StruckFor(v)'
        <3>1. visits[v] \in Checked /\ visits[v].at \in Commands
            BY <2>1 DEF LimitsInv, LimitsTypeOK, Checked
        <3>2. visits'[v] = NoVisit \/ visits'[v].at \in {"hit", "strike"}
            BY <2>1, <3>1 DEF Unanswered, WithinRate, Reaches, Leaves, Commands, LimitsInv, LimitsTypeOK, Checked
        <3>3. QED
            BY <3>2 DEF StruckFor
    <2>5. QED
        BY <2>2, <2>3, <2>4
<1>7. ASSUME NEW v \in Visits, Vanish(v)
      PROVE  /\ keys'.strikes <= struck'
             /\ keys'.blocked => struck' >= ViolationLimit
             /\ \A w \in Visits : StruckFor(w)'
    BY <1>2, <1>7 DEF Vanish, Leaves, StruckFor, LimitsInv, LimitsTypeOK
<1>8. CASE Unblock
    <2>1. \A v \in Visits : visits'[v] = NoVisit
        BY <1>1, <1>8 DEF Unblock
    <2>2. keys'.strikes = 0 /\ ~ keys'.blocked /\ struck' = 0
        BY <1>8 DEF Unblock, Cleared
    <2>3. QED
        BY <2>1, <2>2 DEF StruckFor
<1>9. CASE Lapse
    <2>1. /\ keys'.strikes \in {0, keys.strikes}
          /\ keys'.blocked => keys.blocked
          /\ UNCHANGED <<visits, struck>>
        BY <1>9, Lapsed DEF Lapse, LimitsInv
    <2>2. QED
        BY <1>2, <2>1 DEF StruckFor
<1>10. CASE UNCHANGED limitVars
    BY <1>2, <1>10 DEF limitVars, StruckFor
<1>11. QED
    BY <1>4, <1>5, <1>6, <1>7, <1>8, <1>9, <1>10 DEF LimitsNext

-----------------------------------------------------------------------------
\* The rate and the violations of a client lapse, and a block has its
\* grounds, however many requests are checked at once and whatever the policy
\* allows (RuntimeSecurityService).
THEOREM LimitsLapse == LimitsSpec => []LimitsAreTemporary
<1>1. LimitsInit => LimitsInv
    BY RequestLimitsOK
    DEF LimitsInit, LimitsInv, LimitsTypeOK, Keys, CountersLapse, BlocksHaveGrounds, StruckFor
<1>2. LimitsInv /\ [LimitsNext]_limitVars => LimitsInv'
    BY LimitsTypeStep, LapseStep, GroundsStep DEF LimitsInv
<1>3. LimitsInv => LimitsAreTemporary
    BY DEF LimitsInv, CountersLapse, BlocksHaveGrounds, LimitsAreTemporary
<1>4. QED
    BY <1>1, <1>2, <1>3, PTL DEF LimitsSpec

-----------------------------------------------------------------------------
(***************************************************************************)
(* The model router: a client sees the output of one model, and a key in   *)
(* Redis stands for failures that were counted.                            *)
(*                                                                         *)
(* The key is set and removed by steps of their own, so the invariant says *)
(* of a request between two such steps which key it is about to change.    *)
(***************************************************************************)
RouterSpec == RouterInit /\ [][RouterNext]_routerVars

RouterTypes ==
    /\ failures \in [Servers -> [Providers -> Nat]]
    /\ cooling \in [Servers -> [Providers -> BOOLEAN]]
    /\ blocked \in [Providers -> BOOLEAN]
    /\ requests \in [Requests -> RequestRecords \cup {NoRequest}]

\* What a request may have shown its client.
Whole(q) ==
    /\ q.spoke \subseteq {q.model}
    /\ q.at \in {"next", "check"} => q.spoke = {}
    /\ q.at \in {"called", "clear", "block"} => q.model \in Models

AllWhole == \A r \in Requests : requests[r] # NoRequest => Whole(requests[r])

\* A server stays away from a provider that it has seen fail too often.
CoolingIsCounted ==
    \A w \in Servers, p \in Providers : cooling[w][p] => failures[w][p] >= Threshold

\* One request at a time: the key of a provider stands for a count, or is
\* about to be removed.
KeysHaveGrounds ==
    /\ \A r, s \in Requests : requests[r] # NoRequest /\ requests[s] # NoRequest => r = s
    /\ \A r \in Requests :
          InState(r, "block") => failures[requests[r].server][ProviderOf(requests[r].model)] >= Threshold
    /\ \A p \in Providers : blocked[p] =>
          \/ \E w \in Servers : failures[w][p] >= Threshold
          \/ \E r \in Requests : InState(r, "clear") /\ ProviderOf(requests[r].model) = p

RouterInv ==
    /\ RouterTypes
    /\ AllWhole
    /\ CoolingIsCounted
    /\ risks = {} => KeysHaveGrounds

LEMMA ProviderOfModel == ASSUME NEW m \in Models PROVE ProviderOf(m) \in Providers
BY DEF Models, ProviderOf

LEMMA RouterStart == RouterInit => RouterInv
<1> SUFFICES ASSUME RouterInit PROVE RouterInv
  OBVIOUS
<1>1. \A r \in Requests : requests[r] = NoRequest
  BY DEF RouterInit
<1>2. \A w \in Servers, p \in Providers : ~ cooling[w][p]
  BY DEF RouterInit
<1>3. \A p \in Providers : ~ blocked[p]
  BY DEF RouterInit
<1>4. RouterTypes
  BY DEF RouterInit, RouterTypes
<1> QED
  BY <1>1, <1>2, <1>3, <1>4 DEF RouterInv, AllWhole, CoolingIsCounted, KeysHaveGrounds, InState

\* A request under way is a record of its kind.
LEMMA UnderWay ==
    ASSUME RouterInv, NEW r \in Requests, requests[r] # NoRequest
    PROVE  requests[r] \in RequestRecords /\ Whole(requests[r])
BY DEF RouterInv, RouterTypes, AllWhole

\* What one request leaves when it moves.
LEMMA Left ==
    ASSUME RouterInv, NEW r \in Requests, NEW e \in RequestRecords \cup {NoRequest},
           requests' = [requests EXCEPT ![r] = e], e # NoRequest => Whole(e)
    PROVE  /\ requests' \in [Requests -> RequestRecords \cup {NoRequest}]
           /\ requests'[r] = e
           /\ \A s \in Requests : s # r => requests'[s] = requests[s]
           /\ AllWhole'
BY DEF RouterInv, RouterTypes, AllWhole

\* Every step of a request: it has the record d and leaves the record e.
LEMMA TryLeaves ==
    ASSUME RouterInv, NEW r \in Requests, NEW m \in Models, Try(r, m)
    PROVE  \E e \in RequestRecords : /\ requests' = [requests EXCEPT ![r] = e]
                                     /\ Whole(e) /\ e.at = "called"
<1>1. /\ requests[r] # NoRequest /\ requests[r].at = "next"
      /\ requests' = [requests EXCEPT ![r] =
                         [requests[r] EXCEPT !.at = "called", !.model = m, !.tried = requests[r].tried \cup {m}]]
  BY DEF Try, InState
<1>2. PICK d \in RequestRecords : d = requests[r] /\ Whole(d) /\ d.at = "next"
  BY <1>1, UnderWay
<1> DEFINE e == [d EXCEPT !.at = "called", !.model = m, !.tried = d.tried \cup {m}]
<1>3. e \in RequestRecords /\ e.at = "called" /\ e.model = m /\ e.spoke = d.spoke
  BY DEF RequestRecords
<1>4. requests' = [requests EXCEPT ![r] = e]
  BY <1>1, <1>2
<1> HIDE DEF e
<1> QED
  BY <1>2, <1>3, <1>4 DEF Whole

LEMMA CheckLeaves ==
    ASSUME RouterInv, NEW r \in Requests, Check(r)
    PROVE  \E e \in RequestRecords : /\ requests' = [requests EXCEPT ![r] = e]
                                     /\ Whole(e) /\ e.at = "next"
<1>1. requests[r] # NoRequest /\ requests[r].at = "check"
  BY DEF Check, InState
<1>2. PICK d \in RequestRecords : d = requests[r] /\ Whole(d) /\ d.at = "check"
  BY <1>1, UnderWay
<1>3. PICK ms \in SUBSET Models :
         ms = {m \in d.eligible : Available(requests[r].server, ProviderOf(m))}
  BY DEF RequestRecords
<1> DEFINE e == [d EXCEPT !.at = "next", !.eligible = ms]
<1>4. e \in RequestRecords /\ e.at = "next" /\ e.spoke = d.spoke /\ e.model = d.model
  BY DEF RequestRecords
<1>5. requests' = [requests EXCEPT ![r] = e]
  BY <1>2, <1>3 DEF Check
<1> HIDE DEF e
<1> QED
  BY <1>2, <1>4, <1>5 DEF Whole

LEMMA SpeakLeaves ==
    ASSUME RouterInv, NEW r \in Requests, Speak(r)
    PROVE  \E e \in RequestRecords : /\ requests' = [requests EXCEPT ![r] = e]
                                     /\ Whole(e) /\ e.at = "called"
<1>1. requests[r] # NoRequest /\ requests[r].at = "called"
  BY DEF Speak, InState
<1>2. PICK d \in RequestRecords : d = requests[r] /\ Whole(d) /\ d.at = "called"
  BY <1>1, UnderWay
<1> DEFINE e == [d EXCEPT !.spoke = d.spoke \cup {d.model}]
<1>3. d.model \in Models
  BY <1>2 DEF Whole
<1>4. e \in RequestRecords /\ e.at = "called" /\ e.spoke = d.spoke \cup {d.model} /\ e.model = d.model
  BY <1>2, <1>3 DEF RequestRecords
<1>5. requests' = [requests EXCEPT ![r] = e]
  BY <1>2 DEF Speak
<1> HIDE DEF e
<1> QED
  BY <1>2, <1>3, <1>4, <1>5 DEF Whole

LEMMA SucceedLeaves ==
    ASSUME RouterInv, NEW r \in Requests, Succeed(r)
    PROVE  \E e \in RequestRecords : /\ requests' = [requests EXCEPT ![r] = e]
                                     /\ Whole(e) /\ e.at = "clear"
                                     /\ e.model = requests[r].model
<1>1. requests[r] # NoRequest /\ requests[r].at = "called"
  BY DEF Succeed, InState
<1>2. PICK d \in RequestRecords : d = requests[r] /\ Whole(d) /\ d.at = "called"
  BY <1>1, UnderWay
<1> DEFINE e == [d EXCEPT !.at = "clear"]
<1>3. e \in RequestRecords /\ e.at = "clear" /\ e.spoke = d.spoke /\ e.model = d.model
  BY DEF RequestRecords
<1>4. requests' = [requests EXCEPT ![r] = e]
  BY <1>2 DEF Succeed
<1> HIDE DEF e
<1> QED
  BY <1>2, <1>3, <1>4 DEF Whole

\* After a failure the request goes on, or ends if its client has seen output.
LEMMA OnwardLeaves ==
    ASSUME RouterInv, NEW r \in Requests, requests[r] # NoRequest
    PROVE  /\ OnwardFrom(r) \in RequestRecords \cup {NoRequest}
           /\ OnwardFrom(r) # NoRequest => Whole(OnwardFrom(r)) /\ OnwardFrom(r).at = "next"
           /\ OnwardFrom(r) = NoRequest => requests[r].spoke # {}
<1>2. PICK d \in RequestRecords : d = requests[r] /\ Whole(d)
  BY UnderWay
<1> DEFINE e == [d EXCEPT !.at = "next", !.model = NoRequest]
<1>3. e \in RequestRecords /\ e.at = "next" /\ e.spoke = d.spoke /\ e.model = NoRequest
  BY DEF RequestRecords
<1>4. OnwardFrom(r) = IF d.spoke = {} THEN e ELSE NoRequest
  BY <1>2 DEF OnwardFrom, GoesOn
<1> HIDE DEF e
<1> QED
  BY <1>2, <1>3, <1>4, NoRequestOK DEF Whole

\* One request moves, with what its server then knows of the providers.
LEMMA RouterMoves ==
    ASSUME RouterInv, NEW r \in Requests, NEW e \in RequestRecords \cup {NoRequest},
           requests' = [requests EXCEPT ![r] = e], e # NoRequest => Whole(e),
           failures' \in [Servers -> [Providers -> Nat]],
           cooling' \in [Servers -> [Providers -> BOOLEAN]],
           blocked' \in [Providers -> BOOLEAN],
           CoolingIsCounted', risks' = risks,
           risks = {} =>
              /\ \A s \in Requests : s # r => requests[s] = NoRequest
              /\ e # NoRequest /\ e.at = "block" => failures'[e.server][ProviderOf(e.model)] >= Threshold
              /\ \A p \in Providers : blocked'[p] =>
                    \/ \E w \in Servers : failures'[w][p] >= Threshold
                    \/ e # NoRequest /\ e.at = "clear" /\ ProviderOf(e.model) = p
    PROVE  RouterInv'
<1>1. /\ requests' \in [Requests -> RequestRecords \cup {NoRequest}]
      /\ requests'[r] = e
      /\ \A s \in Requests : s # r => requests'[s] = requests[s]
      /\ AllWhole'
  BY Left
<1>2. RouterTypes'
  BY <1>1 DEF RouterTypes
<1>3. ASSUME risks = {} PROVE KeysHaveGrounds'
  BY <1>1, <1>3 DEF KeysHaveGrounds, InState
<1> QED
  BY <1>1, <1>2, <1>3 DEF RouterInv

\* Counting a failure lowers no count.
LEMMA CountedGrows ==
    ASSUME RouterInv, NEW w \in Servers, NEW ps, failures' = Counted(w, ps)
    PROVE  /\ failures' \in [Servers -> [Providers -> Nat]]
           /\ \A x \in Servers, p \in Providers : failures'[x][p] >= failures[x][p]
<1>1. failures \in [Servers -> [Providers -> Nat]] /\ failures[w] \in [Providers -> Nat]
  BY DEF RouterInv, RouterTypes
<1> DEFINE row == [p \in Providers |-> IF p \in ps /\ failures[w][p] < Threshold
                                       THEN failures[w][p] + 1 ELSE failures[w][p]]
<1>2. row \in [Providers -> Nat]
  BY <1>1
<1>3. \A p \in Providers : row[p] >= failures[w][p]
  BY <1>1
<1>4. failures' = [failures EXCEPT ![w] = row]
  BY DEF Counted
<1> HIDE DEF row
<1> QED
  BY <1>1, <1>2, <1>3, <1>4

LEMMA CooledIsCounted ==
    ASSUME RouterInv, NEW w \in Servers, NEW ps, failures' = Counted(w, ps), cooling' = Cooled(w, ps)
    PROVE  /\ cooling' \in [Servers -> [Providers -> BOOLEAN]]
           /\ CoolingIsCounted'
<1>1. /\ failures \in [Servers -> [Providers -> Nat]]
      /\ cooling \in [Servers -> [Providers -> BOOLEAN]] /\ cooling[w] \in [Providers -> BOOLEAN]
  BY DEF RouterInv, RouterTypes
<1>2. PICK row \in [Providers -> BOOLEAN] :
         row = [p \in Providers |-> cooling[w][p] \/ (p \in ps /\ failures'[w][p] >= Threshold)]
  OBVIOUS
<1>3. cooling' = [cooling EXCEPT ![w] = row]
  BY <1>2 DEF Cooled
<1>4. \A p \in Providers : row[p] => cooling[w][p] \/ failures'[w][p] >= Threshold
  BY <1>2
<1>5. \A x \in Servers, p \in Providers :
         /\ failures'[x][p] \in Nat /\ failures[x][p] \in Nat
         /\ failures'[x][p] >= failures[x][p]
  BY <1>1, CountedGrows
<1>6. \A x \in Servers, p \in Providers : cooling[x][p] => failures'[x][p] >= Threshold
  BY <1>5, ModelRouterOK DEF RouterInv, CoolingIsCounted
<1>7. \A x \in Servers : cooling'[x] = IF x = w THEN row ELSE cooling[x]
  BY <1>1, <1>3
<1>8. CoolingIsCounted'
  BY <1>4, <1>6, <1>7 DEF CoolingIsCounted
<1> QED
  BY <1>1, <1>3, <1>8

\* Between its steps a request that races with none leaves every key with a
\* count, unless it is about to remove it.
LEMMA KeysCounted ==
    ASSUME RouterInv, risks = {}, NEW r \in Requests, \A s \in Requests : s # r => requests[s] = NoRequest,
           NEW p \in Providers, blocked[p]
    PROVE  \/ \E w \in Servers : failures[w][p] >= Threshold
           \/ InState(r, "clear") /\ ProviderOf(requests[r].model) = p
BY DEF RouterInv, KeysHaveGrounds, InState

\* A request under way is alone.
LEMMA IsAlone ==
    ASSUME RouterInv, risks = {}, NEW r \in Requests, requests[r] # NoRequest
    PROVE  \A s \in Requests : s # r => requests[s] = NoRequest
BY DEF RouterInv, KeysHaveGrounds

\* A step that tells the server nothing.
LEMMA QuietStep ==
    ASSUME RouterInv, NEW r \in Requests, NEW e \in RequestRecords \cup {NoRequest},
           requests' = [requests EXCEPT ![r] = e], e # NoRequest => Whole(e) /\ e.at # "block",
           ~ InState(r, "clear"),
           risks = {} => \A s \in Requests : s # r => requests[s] = NoRequest,
           UNCHANGED <<risks, failures, cooling, blocked>>
    PROVE  RouterInv'
<1>1. /\ failures' \in [Servers -> [Providers -> Nat]]
      /\ cooling' \in [Servers -> [Providers -> BOOLEAN]]
      /\ blocked' \in [Providers -> BOOLEAN]
      /\ CoolingIsCounted'
  BY DEF RouterInv, RouterTypes, CoolingIsCounted
<1>2. risks = {} => \A p \in Providers : blocked'[p] => \E w \in Servers : failures'[w][p] >= Threshold
  BY KeysCounted
<1> QED
  BY <1>1, <1>2, RouterMoves

LEMMA QuietStepsKeep ==
    ASSUME RouterInv, NEW r \in Requests,
           \/ Check(r) \/ Speak(r) \/ GiveUp(r)
           \/ \E m \in Models : Try(r, m)
           \/ \E w \in Servers, p \in Providers : ReceiveFixed(r, w, p)
    PROVE  RouterInv'
<1>1. CASE Check(r) \/ Speak(r) \/ \E m \in Models : Try(r, m)
  <2>1. /\ requests[r] # NoRequest /\ ~ InState(r, "clear")
        /\ UNCHANGED <<risks, failures, cooling, blocked>>
    BY <1>1 DEF Check, Speak, Try, InState
  <2>2. PICK e \in RequestRecords : /\ requests' = [requests EXCEPT ![r] = e]
                                    /\ Whole(e) /\ e.at # "block"
    BY <1>1, CheckLeaves, SpeakLeaves, TryLeaves
  <2> QED
    BY <2>1, <2>2, IsAlone, QuietStep
<1>2. CASE GiveUp(r)
  <2>1. /\ requests[r] # NoRequest /\ ~ InState(r, "clear")
        /\ requests' = [requests EXCEPT ![r] = NoRequest]
        /\ UNCHANGED <<risks, failures, cooling, blocked>>
    BY <1>2 DEF GiveUp, InState
  <2> QED
    BY <2>1, IsAlone, QuietStep
<1>3. CASE \E w \in Servers, p \in Providers : ReceiveFixed(r, w, p)
  <2>1. PICK w \in Servers, p \in Providers : ReceiveFixed(r, w, p)
    BY <1>3
  <2> DEFINE e == [at |-> "next", server |-> w, eligible |-> ModelsOf[p], tried |-> {},
                   model |-> NoRequest, spoke |-> {}]
  <2>2. ModelsOf[p] \subseteq Models
    BY DEF Models
  <2>3. e \in RequestRecords /\ e.at = "next" /\ e.spoke = {}
    BY <2>2 DEF RequestRecords
  <2>4. /\ requests' = [requests EXCEPT ![r] = e]
        /\ requests[r] = NoRequest
        /\ risks = {} => \A s \in Requests : requests[s] = NoRequest
        /\ UNCHANGED <<risks, failures, cooling, blocked>>
    BY <2>1 DEF ReceiveFixed, MayArrive
  <2> HIDE DEF e
  <2> QED
    BY <2>3, <2>4, QuietStep DEF Whole, InState
<1> QED
  BY <1>1, <1>2, <1>3

\* Providers that cannot tell their models have failed once more.
LEMMA ReceiveKeeps ==
    ASSUME RouterInv, NEW r \in Requests, NEW w \in Servers, NEW silent \in SUBSET Providers,
           Receive(r, w, silent)
    PROVE  RouterInv'
<1> DEFINE ms == UNION {ModelsOf[p] : p \in Providers \ silent}
           e == [at |-> "check", server |-> w, tried |-> {}, model |-> NoRequest,
                 eligible |-> ms, spoke |-> {}]
<1>1. ms \subseteq Models
  BY DEF Models
<1>2. e \in RequestRecords /\ e.at = "check" /\ Whole(e)
  BY <1>1 DEF RequestRecords, Whole
<1>3. requests' = [requests EXCEPT ![r] = e] /\ risks' = risks
  BY DEF Receive
<1> HIDE DEF e
<1>4. /\ failures' = Counted(w, silent) /\ cooling' = Cooled(w, silent)
      /\ \A p \in Providers : blocked'[p] <=>
            blocked[p] \/ (p \in silent /\ cooling'[w][p] /\ "redis" \notin risks)
      /\ blocked' \in [Providers -> BOOLEAN]
      /\ requests[r] = NoRequest
      /\ risks = {} => \A s \in Requests : requests[s] = NoRequest
  BY DEF Receive, MayArrive, RouterInv, RouterTypes
<1>5. /\ failures' \in [Servers -> [Providers -> Nat]]
      /\ \A x \in Servers, p \in Providers : failures'[x][p] >= failures[x][p]
  BY <1>4, CountedGrows
<1>6. cooling' \in [Servers -> [Providers -> BOOLEAN]] /\ CoolingIsCounted'
  BY <1>4, CooledIsCounted
<1>7. ASSUME risks = {}, NEW p \in Providers, blocked'[p]
      PROVE  \E x \in Servers : failures'[x][p] >= Threshold
  <2>1. CASE blocked[p]
    <3>1. PICK x \in Servers : failures[x][p] >= Threshold
      BY <1>4, <1>7, <2>1, KeysCounted DEF InState
    <3>2. failures[x][p] \in Nat /\ failures'[x][p] \in Nat /\ failures'[x][p] >= failures[x][p]
      BY <1>5 DEF RouterInv, RouterTypes
    <3> QED
      BY <3>1, <3>2, ModelRouterOK
  <2>2. CASE cooling'[w][p]
    BY <1>6, <2>2 DEF CoolingIsCounted
  <2> QED
    BY <1>4, <1>7, <2>1, <2>2
<1> QED
  BY <1>2, <1>3, <1>4, <1>5, <1>6, <1>7, RouterMoves

\* A success clears the count of its server; its request goes on to the key.
LEMMA SucceedKeeps ==
    ASSUME RouterInv, NEW r \in Requests, Succeed(r)
    PROVE  RouterInv'
<1>1. requests[r] # NoRequest /\ requests[r].at = "called"
  BY DEF Succeed, InState
<1>2. PICK w \in Servers, p \in Providers : w = requests[r].server /\ p = ProviderOf(requests[r].model)
  BY <1>1, UnderWay, ProviderOfModel DEF Whole, RequestRecords
<1>3. /\ failures' = [failures EXCEPT ![w][p] = 0] /\ cooling' = [cooling EXCEPT ![w][p] = FALSE]
      /\ UNCHANGED <<risks, blocked>>
  BY <1>2 DEF Succeed
<1>4. failures \in [Servers -> [Providers -> Nat]] /\ cooling \in [Servers -> [Providers -> BOOLEAN]]
      /\ blocked \in [Providers -> BOOLEAN]
  BY DEF RouterInv, RouterTypes
<1>5. /\ failures' \in [Servers -> [Providers -> Nat]] /\ cooling' \in [Servers -> [Providers -> BOOLEAN]]
      /\ blocked' \in [Providers -> BOOLEAN]
      /\ \A x \in Servers, q \in Providers : x # w \/ q # p =>
            failures'[x][q] = failures[x][q] /\ cooling'[x][q] = cooling[x][q]
      /\ ~ cooling'[w][p]
  BY <1>3, <1>4
<1>6. CoolingIsCounted'
  BY <1>5 DEF RouterInv, CoolingIsCounted
<1>7. PICK e \in RequestRecords : /\ requests' = [requests EXCEPT ![r] = e]
                                  /\ Whole(e) /\ e.at = "clear" /\ ProviderOf(e.model) = p
  BY <1>2, SucceedLeaves
<1>8. ASSUME risks = {}, NEW q \in Providers, blocked'[q]
      PROVE  q = p \/ \E x \in Servers : failures'[x][q] >= Threshold
  BY <1>1, <1>3, <1>5, <1>8, IsAlone, KeysCounted DEF InState
<1>9. e # NoRequest
  BY NoRequestOK
<1> QED
  BY <1>1, <1>3, <1>5, <1>6, <1>7, <1>8, <1>9, IsAlone, RouterMoves

LEMMA AnswerKeeps ==
    ASSUME RouterInv, NEW r \in Requests, Answer(r)
    PROVE  RouterInv'
<1>1. /\ requests[r] # NoRequest /\ requests[r].at = "clear"
      /\ requests' = [requests EXCEPT ![r] = NoRequest]
      /\ UNCHANGED <<risks, failures, cooling>>
  BY DEF Answer, InState
<1>2. PICK p \in Providers : p = ProviderOf(requests[r].model)
  BY <1>1, UnderWay, ProviderOfModel DEF Whole
<1>3. blocked' = IF "redis" \in risks THEN blocked ELSE [blocked EXCEPT ![p] = FALSE]
  BY <1>2 DEF Answer, Unblocked
<1>4. blocked \in [Providers -> BOOLEAN]
  BY DEF RouterInv, RouterTypes
<1>5. /\ blocked' \in [Providers -> BOOLEAN]
      /\ risks = {} => \A q \in Providers : blocked'[q] => blocked[q] /\ q # p
  BY <1>3, <1>4
<1>6. /\ failures' \in [Servers -> [Providers -> Nat]] /\ cooling' \in [Servers -> [Providers -> BOOLEAN]]
      /\ CoolingIsCounted'
  BY <1>1 DEF RouterInv, RouterTypes, CoolingIsCounted
<1>7. ASSUME risks = {}, NEW q \in Providers, blocked'[q]
      PROVE  \E x \in Servers : failures'[x][q] >= Threshold
  BY <1>1, <1>2, <1>5, <1>7, IsAlone, KeysCounted
<1> QED
  BY <1>1, <1>5, <1>6, <1>7, IsAlone, RouterMoves

\* A failure counts; with too many of them the key is to be set.
LEMMA FailKeeps ==
    ASSUME RouterInv, NEW r \in Requests, Fail(r)
    PROVE  RouterInv'
<1>1. requests[r] # NoRequest /\ requests[r].at = "called"
  BY DEF Fail, InState
<1>2. PICK w \in Servers, p \in Providers : w = requests[r].server /\ p = ProviderOf(requests[r].model)
  BY <1>1, UnderWay, ProviderOfModel DEF Whole, RequestRecords
<1>3. /\ failures' = Counted(w, {p}) /\ cooling' = Cooled(w, {p}) /\ UNCHANGED <<risks, blocked>>
      /\ requests' = [requests EXCEPT ![r] =
                         IF failures'[w][p] >= Threshold THEN [requests[r] EXCEPT !.at = "block"]
                         ELSE OnwardFrom(r)]
  BY <1>2 DEF Fail
<1>4. /\ failures' \in [Servers -> [Providers -> Nat]]
      /\ \A x \in Servers, q \in Providers : failures'[x][q] >= failures[x][q]
  BY <1>3, CountedGrows
<1>5. cooling' \in [Servers -> [Providers -> BOOLEAN]] /\ CoolingIsCounted'
  BY <1>3, CooledIsCounted
<1>6. ASSUME risks = {}, NEW q \in Providers, blocked'[q]
      PROVE  \E x \in Servers : failures'[x][q] >= Threshold
  <2>1. PICK x \in Servers : failures[x][q] >= Threshold
    BY <1>1, <1>3, <1>6, IsAlone, KeysCounted DEF InState
  <2>2. failures[x][q] \in Nat /\ failures'[x][q] \in Nat /\ failures'[x][q] >= failures[x][q]
    BY <1>4 DEF RouterInv, RouterTypes
  <2> QED
    BY <2>1, <2>2, ModelRouterOK
<1>7. blocked' \in [Providers -> BOOLEAN]
  BY <1>3 DEF RouterInv, RouterTypes
<1>8. CASE failures'[w][p] >= Threshold
  <2>1. PICK d \in RequestRecords : d = requests[r] /\ Whole(d) /\ d.at = "called"
    BY <1>1, UnderWay
  <2> DEFINE e == [d EXCEPT !.at = "block"]
  <2>2. /\ e \in RequestRecords /\ e.at = "block" /\ e.model = d.model /\ e.spoke = d.spoke
        /\ e.server = d.server
    BY DEF RequestRecords
  <2>3. requests' = [requests EXCEPT ![r] = e]
    BY <1>3, <1>8, <2>1
  <2> HIDE DEF e
  <2>4. Whole(e) /\ failures'[e.server][ProviderOf(e.model)] >= Threshold
    BY <1>2, <1>8, <2>1, <2>2 DEF Whole
  <2> QED
    BY <1>1, <1>3, <1>4, <1>5, <1>6, <1>7, <2>2, <2>3, <2>4, IsAlone, RouterMoves
<1>9. CASE ~ (failures'[w][p] >= Threshold)
  <2>1. requests' = [requests EXCEPT ![r] = OnwardFrom(r)]
    BY <1>3, <1>9
  <2>2. PICK e \in RequestRecords \cup {NoRequest} : e = OnwardFrom(r)
    BY <1>1, OnwardLeaves
  <2>3. e # NoRequest => Whole(e) /\ e.at = "next"
    BY <1>1, <2>2, OnwardLeaves
  <2> QED
    BY <1>1, <1>3, <1>4, <1>5, <1>6, <1>7, <2>1, <2>2, <2>3, IsAlone, RouterMoves
<1> QED
  BY <1>8, <1>9

LEMMA BlockKeeps ==
    ASSUME RouterInv, NEW r \in Requests, Block(r)
    PROVE  RouterInv'
<1>1. /\ requests[r] # NoRequest /\ requests[r].at = "block" /\ InState(r, "block")
      /\ UNCHANGED <<risks, failures, cooling>>
      /\ requests' = [requests EXCEPT ![r] = OnwardFrom(r)]
  BY DEF Block, InState
<1>2. PICK w \in Servers, p \in Providers : w = requests[r].server /\ p = ProviderOf(requests[r].model)
  BY <1>1, UnderWay, ProviderOfModel DEF Whole, RequestRecords
<1>3. blocked \in [Providers -> BOOLEAN]
  BY DEF RouterInv, RouterTypes
<1>4. PICK b \in BOOLEAN : b = (blocked[p] \/ "redis" \notin risks)
  BY <1>3
<1>5. blocked' = [blocked EXCEPT ![p] = b]
  BY <1>2, <1>4 DEF Block
<1>6. blocked' \in [Providers -> BOOLEAN] /\ \A q \in Providers : q # p => blocked'[q] = blocked[q]
  BY <1>3, <1>5
<1>7. /\ failures' \in [Servers -> [Providers -> Nat]] /\ cooling' \in [Servers -> [Providers -> BOOLEAN]]
      /\ CoolingIsCounted'
  BY <1>1 DEF RouterInv, RouterTypes, CoolingIsCounted
<1>8. ASSUME risks = {}, NEW q \in Providers, blocked'[q]
      PROVE  \E x \in Servers : failures'[x][q] >= Threshold
  <2>1. CASE q = p
    BY <1>1, <1>2, <1>8, <2>1 DEF RouterInv, KeysHaveGrounds
  <2>2. CASE q # p
    BY <1>1, <1>6, <1>8, <2>2, IsAlone, KeysCounted DEF InState
  <2> QED
    BY <2>1, <2>2
<1>9. PICK e \in RequestRecords \cup {NoRequest} : e = OnwardFrom(r)
  BY <1>1, OnwardLeaves
<1>10. e # NoRequest => Whole(e) /\ e.at = "next"
  BY <1>1, <1>9, OnwardLeaves
<1> QED
  BY <1>1, <1>6, <1>7, <1>8, <1>9, <1>10, IsAlone, RouterMoves

\* A cooldown ends or a key expires.
LEMMA LapsesKeep ==
    ASSUME RouterInv, NEW p \in Providers, KeyExpires(p) \/ \E w \in Servers : CooldownEnds(w, p)
    PROVE  RouterInv'
<1>1. /\ UNCHANGED <<risks, failures, requests>>
      /\ cooling' \in [Servers -> [Providers -> BOOLEAN]]
      /\ \A w \in Servers, q \in Providers : cooling'[w][q] => cooling[w][q]
      /\ blocked' \in [Providers -> BOOLEAN]
      /\ \A q \in Providers : blocked'[q] => blocked[q]
  <2>1. CASE KeyExpires(p)
    BY <2>1 DEF KeyExpires, RouterInv, RouterTypes
  <2>2. CASE \E w \in Servers : CooldownEnds(w, p)
    <3>1. PICK w \in Servers : CooldownEnds(w, p)
      BY <2>2
    <3> QED
      BY <3>1 DEF CooldownEnds, RouterInv, RouterTypes
  <2> QED
    BY <2>1, <2>2
<1>2. RouterTypes' /\ AllWhole' /\ CoolingIsCounted'
  BY <1>1 DEF RouterInv, RouterTypes, AllWhole, CoolingIsCounted
<1>3. KeysHaveGrounds => KeysHaveGrounds'
  BY <1>1 DEF KeysHaveGrounds, InState
<1> QED
  BY <1>1, <1>2, <1>3 DEF RouterInv

LEMMA RouterKeeps == RouterInv /\ [RouterNext]_routerVars => RouterInv'
<1> SUFFICES ASSUME RouterInv, [RouterNext]_routerVars PROVE RouterInv'
  OBVIOUS
<1>1. CASE UNCHANGED routerVars
  BY <1>1 DEF routerVars, RouterInv, RouterTypes, AllWhole, CoolingIsCounted, KeysHaveGrounds, InState
<1> QED
  BY <1>1, QuietStepsKeep, ReceiveKeeps, SucceedKeeps, AnswerKeeps, FailKeeps, BlockKeeps, LapsesKeep
     DEF RouterNext

\* A key in Redis that keeps the servers away from a provider stands for
\* failures that one of them counted (services/provider_health.py).
THEOREM KeysMeanFailures == RouterSpec => []KeyMeansFailures
<1>1. RouterInv => KeyMeansFailures
  BY DEF RouterInv, KeysHaveGrounds, KeyMeansFailures, InState
<1> QED
  BY <1>1, RouterStart, RouterKeeps, PTL DEF RouterSpec

\* What a request has shown its client is of one model.
LEMMA OneSpoke ==
    ASSUME RouterInv, NEW r \in Requests, requests[r] # NoRequest
    PROVE  /\ Cardinality(requests[r].spoke) <= 1
           /\ requests[r].spoke \subseteq {requests[r].model}
<1>1. requests[r].spoke \subseteq {requests[r].model}
  BY UnderWay DEF Whole
<1>2. requests[r].spoke = {} \/ requests[r].spoke = {requests[r].model}
  BY <1>1
<1>3. Cardinality({requests[r].model}) = 1
  BY FS_Singleton
<1>4. Cardinality({}) = 0
  BY FS_EmptySet
<1>5. CASE requests[r].spoke = {}
  BY <1>1, <1>4, <1>5
<1>6. CASE requests[r].spoke = {requests[r].model}
  BY <1>1, <1>3, <1>6
<1> QED
  BY <1>2, <1>5, <1>6

\* The step that ends a request without an answer and without any output is
\* the one that has nothing left to try.
LEMMA EndedAfterAll ==
    ASSUME RouterInv, RouterNext, NEW r \in Requests, requests[r] # NoRequest,
           requests'[r] = NoRequest, requests[r].at # "clear", requests[r].spoke = {}
    PROVE  requests[r].tried = requests[r].eligible
<1>1. requests \in [Requests -> RequestRecords \cup {NoRequest}]
  BY DEF RouterInv, RouterTypes
\* The request that moves is r, since the others keep what they have.
<1>2. ASSUME NEW s \in Requests, NEW e, requests' = [requests EXCEPT ![s] = e]
      PROVE  s = r /\ e = NoRequest
  BY <1>1, <1>2
<1>3. ASSUME NEW s \in Requests, NEW m \in Models, Try(s, m) PROVE FALSE
  <2>1. PICK e \in RequestRecords : requests' = [requests EXCEPT ![s] = e]
    BY <1>3, TryLeaves
  <2> QED
    BY <1>2, <2>1, NoRequestOK
<1>4. ASSUME NEW s \in Requests, Check(s) \/ Speak(s) \/ Succeed(s) PROVE FALSE
  <2>1. PICK e \in RequestRecords : requests' = [requests EXCEPT ![s] = e]
    BY <1>4, CheckLeaves, SpeakLeaves, SucceedLeaves
  <2> QED
    BY <1>2, <2>1, NoRequestOK
<1>5. ASSUME NEW s \in Requests, Answer(s) PROVE FALSE
  BY <1>2, <1>5 DEF Answer, InState
<1>6. ASSUME NEW s \in Requests, Block(s) PROVE FALSE
  <2>1. requests[s] # NoRequest /\ requests' = [requests EXCEPT ![s] = OnwardFrom(s)]
    BY <1>6 DEF Block, InState
  <2>2. s = r /\ OnwardFrom(s) = NoRequest
    BY <1>2, <2>1
  <2> QED
    BY <2>2, OnwardLeaves
<1>7. ASSUME NEW s \in Requests, Fail(s) PROVE FALSE
  <2>1. requests[s] # NoRequest
        /\ \/ requests' = [requests EXCEPT ![s] = [requests[s] EXCEPT !.at = "block"]]
           \/ requests' = [requests EXCEPT ![s] = OnwardFrom(s)]
    BY <1>7 DEF Fail, InState
  <2>2. CASE requests' = [requests EXCEPT ![s] = [requests[s] EXCEPT !.at = "block"]]
    <3>1. PICK d \in RequestRecords : d = requests[s]
      BY <2>1, UnderWay
    <3>2. [d EXCEPT !.at = "block"] \in RequestRecords
      BY DEF RequestRecords
    <3> QED
      BY <1>2, <2>2, <3>1, <3>2, NoRequestOK
  <2>3. CASE requests' = [requests EXCEPT ![s] = OnwardFrom(s)]
    <3>1. s = r /\ OnwardFrom(s) = NoRequest
      BY <1>2, <2>3
    <3> QED
      BY <3>1, OnwardLeaves
  <2> QED
    BY <2>1, <2>2, <2>3
<1>8. ASSUME NEW s \in Requests, GiveUp(s) PROVE requests[r].tried = requests[r].eligible
  <2>1. requests' = [requests EXCEPT ![s] = NoRequest] /\ requests[s].eligible = requests[s].tried
    BY <1>8 DEF GiveUp
  <2>2. s = r
    BY <1>2, <2>1
  <2> QED
    BY <2>1, <2>2
<1>9. ASSUME NEW s \in Requests, requests[s] = NoRequest,
             NEW e, requests' = [requests EXCEPT ![s] = e]
      PROVE  FALSE
  BY <1>2, <1>9
<1>10. ASSUME NEW s \in Requests, NEW w \in Servers, NEW p \in Providers, ReceiveFixed(s, w, p) PROVE FALSE
  BY <1>9, <1>10 DEF ReceiveFixed, MayArrive
<1>11. ASSUME NEW s \in Requests, NEW w \in Servers, NEW silent \in SUBSET Providers, Receive(s, w, silent)
       PROVE FALSE
  BY <1>9, <1>11 DEF Receive, MayArrive
<1>12. requests' # requests
  OBVIOUS
<1> QED
  BY <1>3, <1>4, <1>5, <1>6, <1>7, <1>8, <1>10, <1>11, <1>12 DEF RouterNext, KeyExpires, CooldownEnds

\* No client sees the output of two models, and none is left without an
\* answer while a candidate is left (services/model_router.py).
THEOREM OneModelAnswers == RouterSpec => AnswersAreWhole
<1> DEFINE WholeStep ==
       \A r \in Requests :
          LET q == requests[r] IN
          q # NoRequest /\ requests'[r] # q =>
              /\ Cardinality(q.spoke) <= 1
              /\ q.at = "clear" => q.spoke \subseteq {q.model}
              /\ requests'[r] = NoRequest /\ q.at # "clear" /\ q.spoke = {} => q.tried = q.eligible
<1>1. RouterInv /\ [RouterNext]_routerVars => [WholeStep]_routerVars
  BY OneSpoke, EndedAfterAll
<1> QED
  BY <1>1, RouterStart, RouterKeeps, PTL DEF RouterSpec, AnswersAreWhole

-----------------------------------------------------------------------------
(***************************************************************************)
(* OAuth connections: a refresh token that works stays in the row, and a   *)
(* stale copy is used once, for any number of calls, processes and tokens. *)
(*                                                                         *)
(* Between the answer of the provider and the commit of the call, the row  *)
(* is behind what the provider accepts: the invariants say of a call in    *)
(* between (Pending) that its answer is the newest token there is.         *)
(***************************************************************************)
TokensSpec == TokensInit /\ [][TokensNext]_tokenVars

TokenTypes ==
    /\ threats \in TokenScenarios
    /\ provider \in [issued: Tokens, expired: Tokens, accepts: Tokens, rotates: BOOLEAN]
    /\ connection \in Rows
    /\ objects \in [ActionCalls -> Rows]
    /\ cache \in [Processes -> ActionCalls \cup {NoCall}]
    /\ calls \in [ActionCalls -> CallRecords \cup {NoCall}]

Pending(c) == At(c, "resolved") \/ At(c, "refreshed")

\* The provider replaces the refresh token: one call at most holds the new one.
NewestIsHeld ==
    /\ provider.accepts = provider.issued
    /\ connection.refresh <= provider.issued
    /\ \A c \in ActionCalls : objects[c].refresh <= provider.issued
    /\ \A c, d \in ActionCalls : Pending(c) /\ Pending(d) => c = d
    /\ \A c \in ActionCalls : Pending(c) =>
          /\ calls[c].answer = provider.issued
          /\ connection.refresh < provider.issued
          /\ \A d \in ActionCalls : objects[d].refresh < provider.issued
    /\ (\A c \in ActionCalls : ~ Pending(c)) => connection.refresh = provider.issued

\* It does not: the first one works for good.
FirstIsHeld ==
    /\ provider.accepts = 1 /\ connection.refresh = 1
    /\ \A c \in ActionCalls : Loaded(c) => objects[c].refresh = 1

Held == IF provider.rotates THEN NewestIsHeld ELSE FirstIsHeld

-----------------------------------------------------------------------------
(* The records of calls.                                                   *)

\* Call c moves, and no other.
Moves(c) ==
    /\ calls[c] \in CallRecords
    /\ calls' = [calls EXCEPT ![c] = calls'[c]]
    /\ calls'[c] \in CallRecords
    /\ calls'[c].process = calls[c].process

\* It goes on to look up the connection, has failed or has sent what it loaded.
Onward(c) ==
    \/ calls'[c].at \in {"lookup", "failed"}
    \/ calls'[c].at = "sent" /\ calls'[c].object = c

LEMMA CallUnderWay ==
    ASSUME TokenTypes, NEW c \in ActionCalls, calls[c] # NoCall
    PROVE  calls[c] \in CallRecords /\ calls[c].process \in Processes /\ calls[c].object \in ActionCalls
           /\ calls[c].answer \in Tokens
BY DEF TokenTypes, CallRecords

LEMMA SeenIsRow == ASSUME TokenTypes, NEW c \in ActionCalls PROVE Seen(c) \in Rows
BY DEF TokenTypes, Seen

LEMMA RefreshedIsRow ==
    ASSUME TokenTypes, NEW c \in ActionCalls, calls[c] # NoCall
    PROVE  /\ Refreshed(c) \in Rows
           /\ Refreshed(c).access = calls[c].answer
           /\ Refreshed(c).refresh = IF provider.rotates THEN calls[c].answer ELSE Seen(c).refresh
BY CallUnderWay, SeenIsRow DEF Refreshed, Rows

LEMMA SentMoves ==
    ASSUME TokenTypes, NEW c \in ActionCalls, calls[c] # NoCall, NEW o \in ActionCalls,
           objects' \in [ActionCalls -> Rows], calls' = Sent(c, o)
    PROVE  /\ Moves(c)
           /\ calls'[c].at = "sent" /\ calls'[c].object = o
           /\ calls'[c].answer = objects'[o].access
           /\ calls'[c].stale = Expired(calls'[c].answer)
<1>1. PICK d \in CallRecords, t \in Tokens, b \in BOOLEAN :
         d = calls[c] /\ t = objects'[o].access /\ b = Expired(t)
  <2>1. calls[c] \in CallRecords /\ objects'[o] \in Rows
    BY CallUnderWay
  <2>2. objects'[o].access \in Tokens
    BY <2>1 DEF Rows
  <2>3. Expired(objects'[o].access) \in BOOLEAN
    BY DEF Expired
  <2> QED
    BY <2>1, <2>2, <2>3, Zenon
<1> DEFINE e == [d EXCEPT !.at = "sent", !.object = o, !.answer = t, !.stale = b]
<1>2. e \in CallRecords
  BY DEF CallRecords
<1>3. e.at = "sent" /\ e.object = o /\ e.answer = t /\ e.stale = b /\ e.process = d.process
  BY DEF CallRecords
<1>4. calls' = [calls EXCEPT ![c] = e]
  BY <1>1, Zenon DEF Sent
<1> HIDE DEF e
<1>5. calls'[c] = e
  BY <1>4 DEF TokenTypes
<1> QED
  BY <1>1, <1>2, <1>3, <1>4, <1>5 DEF Moves

LEMMA PlaceMoves ==
    ASSUME TokenTypes, NEW c \in ActionCalls, calls[c] # NoCall,
           NEW a \in {"lookup", "resolving"}, calls' = [calls EXCEPT ![c].at = a]
    PROVE  Moves(c) /\ calls'[c].at = a
<1>1. PICK d \in CallRecords : d = calls[c]
  BY CallUnderWay
<1> DEFINE e == [d EXCEPT !.at = a]
<1>2. e \in CallRecords
  BY DEF CallRecords
<1>3. e.at = a /\ e.process = d.process
  BY DEF CallRecords
<1>4. calls' = [calls EXCEPT ![c] = e]
  BY <1>1
<1> HIDE DEF e
<1>5. calls'[c] = e
  BY <1>4 DEF TokenTypes
<1> QED
  BY <1>1, <1>2, <1>3, <1>4, <1>5 DEF Moves

LEMMA ResolvedMoves ==
    ASSUME TokenTypes, NEW c \in ActionCalls, calls[c] # NoCall,
           objects' \in [ActionCalls -> Rows], calls' = Resolved(c)
    PROVE  Moves(c) /\ Onward(c)
BY SentMoves, PlaceMoves DEF Resolved, Onward

LEMMA RefreshFailedMoves ==
    ASSUME TokenTypes, NEW c \in ActionCalls, calls[c] # NoCall,
           objects' \in [ActionCalls -> Rows], calls' = RefreshFailed(c)
    PROVE  Moves(c) /\ Onward(c)
<1>1. CASE At(c, "resolving")
  BY <1>1, ResolvedMoves DEF RefreshFailed
<1>2. CASE ~ At(c, "resolving")
  <2>1. PICK d \in CallRecords : d = calls[c]
    BY CallUnderWay
  <2> DEFINE e == [d EXCEPT !.at = "failed", !.object = c]
  <2>2. e \in CallRecords
    BY DEF CallRecords
  <2>3. e.at = "failed" /\ e.process = d.process
    BY DEF CallRecords
  <2>4. calls' = [calls EXCEPT ![c] = e]
    BY <1>2, <2>1, Zenon DEF RefreshFailed
  <2> HIDE DEF e
  <2>5. calls'[c] = e
    BY <2>4 DEF TokenTypes
  <2> QED
    BY <2>1, <2>2, <2>3, <2>4, <2>5 DEF Moves, Onward
<1> QED
  BY <1>1, <1>2

-----------------------------------------------------------------------------
(* What each operation of a call makes of it.                              *)

LEMMA StartCallMoves ==
    ASSUME TokenTypes, NEW c \in ActionCalls, NEW w \in Processes, NEW kind \in CallKinds,
           StartCall(c, w, kind)
    PROVE  /\ calls' = [calls EXCEPT ![c] = calls'[c]]
           /\ calls'[c] \in CallRecords
           /\ calls'[c].at \in {"lookup", "resolve"}
           /\ calls[c] = NoCall
<1>1. 0 \in Tokens
  BY OAuthTokensOK DEF Tokens
<1>2. calls'[c] = [at |-> IF kind = "registry" THEN "lookup" ELSE "resolve",
                   kind |-> kind, process |-> w, object |-> c, answer |-> 0, stale |-> FALSE]
  BY DEF StartCall, TokenTypes
<1>3. calls'[c] \in CallRecords
  BY <1>1, <1>2 DEF CallRecords
<1> QED
  BY <1>2, <1>3 DEF StartCall, TokenTypes

LEMMA ResolveMoves ==
    ASSUME TokenTypes, NEW c \in ActionCalls, Resolve(c)
    PROVE  /\ objects' = [objects EXCEPT ![c] = Seen(c)] /\ objects' \in [ActionCalls -> Rows]
           /\ Moves(c) /\ (Onward(c) \/ calls'[c].at = "resolving")
<1>1. calls[c] # NoCall
  BY DEF Resolve, At
<1>2. objects' = [objects EXCEPT ![c] = Seen(c)] /\ objects' \in [ActionCalls -> Rows]
  BY SeenIsRow DEF Resolve, TokenTypes
<1>3. calls' = [calls EXCEPT ![c].at = "resolving"] \/ calls' = Resolved(c)
  BY DEF Resolve
<1> QED
  BY <1>1, <1>2, <1>3, PlaceMoves, ResolvedMoves

\* The call takes the object that its process has cached, or its own; it
\* refreshes it, or sends a token that has not expired.
LEMMA LookUpMoves ==
    ASSUME TokenTypes, NEW c \in ActionCalls, LookUp(c)
    PROVE  \E o \in ActionCalls :
              /\ cache[calls[c].process] # NoCall => o = cache[calls[c].process]
              /\ cache[calls[c].process] = NoCall => o = c
              /\ cache' = [cache EXCEPT ![calls[c].process] = o]
              /\ objects' = IF o = c THEN [objects EXCEPT ![c] = Seen(c)] ELSE objects
              /\ objects' \in [ActionCalls -> Rows]
              /\ Moves(c)
              /\ calls'[c].object = o
              /\ \/ calls'[c].at = "refreshing"
                 \/ calls'[c].at = "sent" /\ ~ calls'[c].stale
<1>1. calls[c] # NoCall /\ calls[c] \in CallRecords /\ calls[c].process \in Processes
  BY CallUnderWay DEF LookUp, At
<1> DEFINE w == calls[c].process
           f == IF cache[w] # NoCall THEN cache[w] ELSE c
<1>2. f \in ActionCalls
  BY <1>1 DEF TokenTypes
<1>3. PICK o \in ActionCalls : o = f
  BY <1>2
<1>4. /\ cache' = [cache EXCEPT ![w] = o]
      /\ objects' = IF o = c THEN [objects EXCEPT ![c] = Seen(c)] ELSE objects
      /\ calls' = IF Expired(objects'[o].access)
                  THEN [calls EXCEPT ![c] = [@ EXCEPT !.at = "refreshing", !.object = o]]
                  ELSE Sent(c, o)
  BY <1>3 DEF LookUp
<1>5. objects' \in [ActionCalls -> Rows]
  BY <1>4, SeenIsRow DEF TokenTypes
<1>6. CASE Expired(objects'[o].access)
  <2>1. PICK d \in CallRecords : d = calls[c]
    BY <1>1
  <2> DEFINE e == [d EXCEPT !.at = "refreshing", !.object = o]
  <2>2. e \in CallRecords
    BY DEF CallRecords
  <2>3. e.at = "refreshing" /\ e.object = o /\ e.process = d.process
    BY DEF CallRecords
  <2>4. calls' = [calls EXCEPT ![c] = e]
    BY <1>4, <1>6, <2>1, Zenon
  <2> HIDE DEF e
  <2>5. calls'[c] = e
    BY <2>4 DEF TokenTypes
  <2>6. Moves(c) /\ calls'[c].object = o /\ calls'[c].at = "refreshing"
    BY <2>1, <2>2, <2>3, <2>4, <2>5 DEF Moves
  <2> QED
    BY <1>3, <1>4, <1>5, <2>6
<1>7. CASE ~ Expired(objects'[o].access)
  <2>1. calls' = Sent(c, o)
    BY <1>4, <1>7
  <2>2. /\ Moves(c) /\ calls'[c].object = o /\ calls'[c].at = "sent"
        /\ calls'[c].answer = objects'[o].access /\ calls'[c].stale = Expired(calls'[c].answer)
    BY <1>1, <1>5, <2>1, SentMoves
  <2>3. ~ calls'[c].stale
    BY <1>7, <2>2
  <2> QED
    BY <1>3, <1>4, <1>5, <2>2, <2>3
<1> QED
  BY <1>6, <1>7

LEMMA ExchangeMoves ==
    ASSUME TokenTypes, NEW c \in ActionCalls, Exchange(c)
    PROVE  /\ objects' = [objects EXCEPT ![c] = Seen(c)] /\ objects' \in [ActionCalls -> Rows]
           /\ Moves(c)
           /\ \/ "loss" \in threats /\ Onward(c)
              \/ /\ calls'[c].at = IF At(c, "resolving") THEN "resolved" ELSE "refreshed"
                 /\ calls'[c].object = calls[c].object
                 /\ calls'[c].answer = provider'.issued
           /\ provider'.issued = provider.issued + 1 /\ provider'.issued \in Tokens
           /\ provider'.expired = provider.expired /\ provider'.rotates = provider.rotates
           /\ provider'.accepts =
                 IF provider.rotates THEN provider'.issued ELSE provider.accepts
<1>1. calls[c] # NoCall /\ calls[c] \in CallRecords
  BY CallUnderWay DEF Exchange, Refreshing, At
<1>2. objects' = [objects EXCEPT ![c] = Seen(c)] /\ objects' \in [ActionCalls -> Rows]
  BY SeenIsRow DEF Exchange, TokenTypes
<1>3. /\ provider'.issued = provider.issued + 1
      /\ provider'.expired = provider.expired /\ provider'.rotates = provider.rotates
      /\ provider'.accepts =
            IF provider.rotates THEN provider'.issued ELSE provider.accepts
  BY DEF Exchange, TokenTypes
<1>4. provider'.issued \in Tokens
  BY <1>3, OAuthTokensOK DEF Exchange, TokenTypes, Tokens
<1>5. CASE "loss" \in threats /\ calls' = RefreshFailed(c)
  BY <1>1, <1>2, <1>3, <1>4, <1>5, RefreshFailedMoves
<1>6. CASE ~ ("loss" \in threats /\ calls' = RefreshFailed(c))
  <2>1. PICK d \in CallRecords, t \in Tokens,
             a \in {"resolved", "refreshed"} :
           /\ d = calls[c] /\ t = provider'.issued
           /\ a = IF At(c, "resolving") THEN "resolved" ELSE "refreshed"
    BY <1>1, <1>4
  <2> DEFINE e == [d EXCEPT !.at = a, !.answer = t]
  <2>2. e \in CallRecords
    BY DEF CallRecords
  <2>3. e.at = a /\ e.object = d.object /\ e.process = d.process /\ e.answer = t
    BY DEF CallRecords
  <2>4. calls' = [calls EXCEPT ![c] = e]
    BY <1>6, <2>1, Zenon DEF Exchange
  <2> HIDE DEF e
  <2>5. calls'[c] = e
    BY <2>4 DEF TokenTypes
  <2>6. Moves(c)
    BY <2>1, <2>2, <2>3, <2>4, <2>5 DEF Moves
  <2> QED
    BY <1>2, <1>3, <1>4, <2>1, <2>3, <2>5, <2>6
<1> QED
  BY <1>5, <1>6

LEMMA RefuseMoves ==
    ASSUME TokenTypes, NEW c \in ActionCalls, Refuse(c)
    PROVE  /\ objects' = [objects EXCEPT ![c] = Seen(c)] /\ objects' \in [ActionCalls -> Rows]
           /\ Moves(c) /\ Onward(c)
<1>1. calls[c] # NoCall
  BY DEF Refuse, Refreshing, At
<1>2. objects' = [objects EXCEPT ![c] = Seen(c)] /\ objects' \in [ActionCalls -> Rows]
  BY SeenIsRow DEF Refuse, TokenTypes
<1> QED
  BY <1>1, <1>2, RefreshFailedMoves DEF Refuse

LEMMA CommitRefreshMoves ==
    ASSUME TokenTypes, NEW c \in ActionCalls, CommitRefresh(c)
    PROVE  /\ objects' = [objects EXCEPT ![c] = Refreshed(c)]
           /\ objects' \in [ActionCalls -> Rows]
           /\ Refreshed(c) \in Rows
           /\ Moves(c)
           /\ \/ Onward(c)
              \/ /\ At(c, "refreshed") /\ calls'[c].at = "sent"
                 /\ calls'[c].object = calls[c].object
                 /\ calls'[c].answer = objects'[calls[c].object].access
<1>1. calls[c] # NoCall
  BY DEF CommitRefresh, At
<1>2. /\ objects' = [objects EXCEPT ![c] = Refreshed(c)] /\ objects' \in [ActionCalls -> Rows]
      /\ Refreshed(c) \in Rows
  BY <1>1, RefreshedIsRow DEF CommitRefresh, TokenTypes
<1>3. CASE At(c, "resolved")
  BY <1>1, <1>2, <1>3, ResolvedMoves DEF CommitRefresh
<1>4. CASE ~ At(c, "resolved")
  <2>1. calls[c].object \in ActionCalls /\ At(c, "refreshed") /\ calls' = Sent(c, calls[c].object)
    BY <1>1, <1>4, CallUnderWay DEF CommitRefresh
  <2> QED
    BY <1>1, <1>2, <2>1, SentMoves
<1> QED
  BY <1>3, <1>4

-----------------------------------------------------------------------------
(* Types.                                                                  *)

LEMMA ExpireType ==
    ASSUME TokenTypes, Expire
    PROVE  /\ provider' \in [issued: Tokens, expired: Tokens, accepts: Tokens, rotates: BOOLEAN]
           /\ provider'.issued = provider.issued /\ provider'.accepts = provider.accepts
           /\ provider'.rotates = provider.rotates
BY DEF TokenTypes, Expire

LEMMA RestartCalls ==
    ASSUME TokenTypes, NEW w \in Processes, Restart(w), NEW c \in ActionCalls
    PROVE  /\ calls'[c] \in CallRecords \cup {NoCall}
           /\ ~ (Calling(c) /\ calls[c].process = w) => calls'[c] = calls[c]
           /\ Calling(c) /\ calls[c].process = w => calls'[c].at = "failed" /\ calls'[c] # NoCall
<1>1. CASE Calling(c) /\ calls[c].process = w
  <2>1. PICK d \in CallRecords : d = calls[c]
    BY <1>1, CallUnderWay DEF Calling
  <2> DEFINE e == [d EXCEPT !.at = "failed", !.object = c, !.answer = 0]
  <2>2. e \in CallRecords
    <3>1. 0 \in Tokens
      BY OAuthTokensOK DEF Tokens
    <3> QED
      BY <3>1 DEF CallRecords
  <2>3. e.at = "failed"
    BY DEF CallRecords
  <2>4. calls'[c] = e
    BY <1>1, <2>1, Zenon DEF Restart
  <2> HIDE DEF e
  <2> QED
    BY <1>1, <2>2, <2>3, <2>4, NoCallOK
<1>2. CASE ~ (Calling(c) /\ calls[c].process = w)
  BY <1>2 DEF Restart, TokenTypes
<1> QED
  BY <1>1, <1>2

LEMMA TokenTypesStep == TokenTypes /\ [TokensNext]_tokenVars => TokenTypes'
<1> SUFFICES ASSUME TokenTypes, [TokensNext]_tokenVars PROVE TokenTypes'
  OBVIOUS
<1>1. ASSUME NEW c \in ActionCalls, NEW w \in Processes, NEW kind \in CallKinds,
             StartCall(c, w, kind)
      PROVE  TokenTypes'
  BY <1>1, StartCallMoves DEF TokenTypes, StartCall
<1>2. ASSUME NEW c \in ActionCalls, Moves(c)
      PROVE  calls' \in [ActionCalls -> CallRecords \cup {NoCall}]
  BY <1>2 DEF Moves, TokenTypes
<1>3. ASSUME NEW c \in ActionCalls, Resolve(c) PROVE TokenTypes'
  BY <1>2, <1>3, ResolveMoves DEF TokenTypes, Resolve
<1>4. ASSUME NEW c \in ActionCalls, LookUp(c) PROVE TokenTypes'
  <2>1. calls[c] # NoCall /\ calls[c].process \in Processes
    BY <1>4, CallUnderWay DEF LookUp, At
  <2>2. objects' \in [ActionCalls -> Rows] /\ Moves(c)
    BY <1>4, LookUpMoves
  <2>3. cache' \in [Processes -> ActionCalls \cup {NoCall}]
    BY <1>4, <2>1, LookUpMoves DEF TokenTypes
  <2> QED
    BY <1>2, <1>4, <2>2, <2>3 DEF TokenTypes, LookUp
<1>5. ASSUME NEW c \in ActionCalls PROVE Forgotten(c) \in [Processes -> ActionCalls \cup {NoCall}]
  BY DEF Forgotten, TokenTypes
<1>6. ASSUME NEW c \in ActionCalls, Exchange(c) PROVE TokenTypes'
  <2>1. provider' \in [issued: Tokens, expired: Tokens, accepts: Tokens, rotates: BOOLEAN]
    <3>1. provider'.issued \in Tokens
      BY <1>6, ExchangeMoves
    <3>2. PICK t \in Tokens, a \in Tokens :
             t = provider.issued + 1 /\ a = IF provider.rotates THEN t ELSE provider.accepts
      BY <1>6, <3>1, ExchangeMoves DEF TokenTypes
    <3>3. provider' = [provider EXCEPT !.issued = t, !.accepts = a]
      BY <1>6, <3>2 DEF Exchange
    <3> QED
      BY <3>2, <3>3 DEF TokenTypes
  <2>2. objects' \in [ActionCalls -> Rows] /\ Moves(c)
    BY <1>6, ExchangeMoves
  <2> QED
    BY <1>2, <1>5, <1>6, <2>1, <2>2 DEF TokenTypes, Exchange
<1>7. ASSUME NEW c \in ActionCalls, Refuse(c) PROVE TokenTypes'
  BY <1>2, <1>5, <1>7, RefuseMoves DEF TokenTypes, Refuse
<1>8. ASSUME NEW c \in ActionCalls, CommitRefresh(c) PROVE TokenTypes'
  BY <1>2, <1>8, CommitRefreshMoves DEF TokenTypes, CommitRefresh
<1>9. ASSUME NEW w \in Processes, Restart(w) PROVE TokenTypes'
  <2>1. calls' \in [ActionCalls -> CallRecords \cup {NoCall}]
    <3>1. calls' = [c \in ActionCalls |-> calls'[c]]
      BY <1>9 DEF Restart
    <3> QED
      BY <1>9, <3>1, RestartCalls
  <2> QED
    BY <1>9, <2>1 DEF TokenTypes, Restart
<1>10. CASE Expire
  BY <1>10, ExpireType DEF TokenTypes, Expire
<1>11. CASE UNCHANGED tokenVars
  BY <1>11 DEF TokenTypes, tokenVars
<1> QED
  BY <1>1, <1>3, <1>4, <1>6, <1>7, <1>8, <1>9, <1>10, <1>11 DEF TokensNext

-----------------------------------------------------------------------------
(* The refresh token.                                                      *)

\* A call that was pending is untouched, and no other becomes pending.
SamePending ==
    \A d \in ActionCalls : (Pending(d)' <=> Pending(d)) /\ (Pending(d) => calls'[d] = calls[d])

SameTokens ==
    /\ provider'.issued = provider.issued /\ provider'.accepts = provider.accepts
    /\ provider'.rotates = provider.rotates /\ connection' = connection

LEMMA HeldQuiet ==
    ASSUME TokenTypes, Held, SameTokens, SamePending,
           \/ objects' = objects
           \/ \E c \in ActionCalls : objects' = [objects EXCEPT ![c] = Seen(c)]
    PROVE  Held'
<1>1. \A d \in ActionCalls : objects'[d] = objects[d] \/ objects'[d] = Seen(d)
  BY DEF TokenTypes
<1>2. CASE provider.rotates
  <2>1. \A d \in ActionCalls : objects'[d].refresh \in {objects[d].refresh, connection.refresh}
    BY <1>1 DEF Seen
  <2> QED
    BY <1>2, <2>1 DEF Held, NewestIsHeld, SameTokens, SamePending
<1>3. CASE ~ provider.rotates
  <2>1. \A d \in ActionCalls : Loaded(d)' => objects'[d].refresh = 1
    BY <1>1, <1>3 DEF Seen, Held, FirstIsHeld, Loaded
  <2> QED
    BY <1>3, <2>1 DEF Held, FirstIsHeld, SameTokens
<1> QED
  BY <1>2, <1>3

LEMMA OthersStayPending ==
    ASSUME TokenTypes, NEW c \in ActionCalls, calls' = [calls EXCEPT ![c] = calls'[c]],
           NEW d \in ActionCalls, d # c
    PROVE  calls'[d] = calls[d] /\ (Pending(d)' <=> Pending(d))
BY DEF TokenTypes, Pending, At

LEMMA NotPendingMoves ==
    ASSUME TokenTypes, NEW c \in ActionCalls, calls' = [calls EXCEPT ![c] = calls'[c]],
           ~ Pending(c), ~ Pending(c)'
    PROVE  SamePending
BY OthersStayPending DEF SamePending

LEMMA HeldQuietStep ==
    ASSUME TokenTypes, Held, NEW c \in ActionCalls,
           \/ \E w \in Processes, kind \in CallKinds : StartCall(c, w, kind)
           \/ Resolve(c) \/ LookUp(c) \/ Refuse(c)
    PROVE  Held'
<1>1. SameTokens
  BY DEF StartCall, Resolve, LookUp, Refuse, SameTokens
<1>2. \/ objects' = objects
      \/ objects' = [objects EXCEPT ![c] = Seen(c)]
  BY LookUpMoves DEF StartCall, Resolve, Refuse
<1>3. ~ Pending(c)
  BY DEF StartCall, Resolve, LookUp, Refuse, Refreshing, Pending, At
<1>4. calls' = [calls EXCEPT ![c] = calls'[c]]
  BY StartCallMoves, ResolveMoves, LookUpMoves, RefuseMoves DEF Moves
<1>5. calls'[c].at \notin {"resolved", "refreshed"}
  BY StartCallMoves, ResolveMoves, LookUpMoves, RefuseMoves DEF Onward
<1>6. ~ Pending(c)'
  BY <1>5 DEF Pending, At
<1> QED
  BY <1>1, <1>2, <1>3, <1>4, <1>6, HeldQuiet, NotPendingMoves

\* The provider accepts the newest refresh token only: nobody else's answer
\* is on its way when it does.
LEMMA HeldExchange ==
    ASSUME TokenTypes, Held, "loss" \notin threats, NEW c \in ActionCalls, Exchange(c)
    PROVE  Held'
<1>1. /\ objects' = [objects EXCEPT ![c] = Seen(c)]
      /\ calls' = [calls EXCEPT ![c] = calls'[c]]
      /\ calls'[c].at \in {"resolved", "refreshed"} /\ calls'[c].answer = provider'.issued
      /\ provider'.issued = provider.issued + 1
      /\ provider'.rotates = provider.rotates /\ connection' = connection
      /\ provider'.accepts = IF provider.rotates THEN provider'.issued ELSE provider.accepts
      /\ calls'[c] # NoCall
  BY ExchangeMoves, NoCallOK DEF Moves, Exchange
<1>2. \A d \in ActionCalls : objects'[d] = objects[d] \/ objects'[d] = Seen(d)
  BY <1>1 DEF TokenTypes
<1>3. CASE provider.rotates
  <2>1. Seen(c).refresh = provider.issued
    BY <1>3 DEF Held, NewestIsHeld, Exchange
  <2>2. \A d \in ActionCalls : ~ Pending(d)
    <3>1. ASSUME NEW d \in ActionCalls, Pending(d) PROVE FALSE
      <4>1. Seen(c).refresh < provider.issued
        BY <1>3, <3>1 DEF Seen, Held, NewestIsHeld
      <4>2. provider.issued \in Nat
        BY DEF TokenTypes, Tokens
      <4> QED
        BY <2>1, <4>1, <4>2
    <3> QED
      BY <3>1
  <2>3. \A d \in ActionCalls : Pending(d)' <=> d = c
    BY <1>1, <2>2, OthersStayPending DEF Pending, At
  <2>4. \A d \in ActionCalls : objects'[d].refresh \in {objects[d].refresh, connection.refresh}
    BY <1>2 DEF Seen
  <2>5. /\ provider.issued \in Nat /\ connection.refresh \in Nat
        /\ \A d \in ActionCalls : objects[d].refresh \in Nat
    BY DEF TokenTypes, Tokens, Rows
  <2>6. /\ connection.refresh <= provider.issued
        /\ \A d \in ActionCalls : objects[d].refresh <= provider.issued
    BY <1>3 DEF Held, NewestIsHeld
  <2>7. /\ connection'.refresh < provider'.issued /\ connection'.refresh <= provider'.issued
        /\ \A d \in ActionCalls :
              objects'[d].refresh < provider'.issued /\ objects'[d].refresh <= provider'.issued
    BY <1>1, <2>4, <2>5, <2>6
  <2> QED
    BY <1>1, <1>3, <2>3, <2>7 DEF Held, NewestIsHeld
<1>4. CASE ~ provider.rotates
  BY <1>1, <1>2, <1>4 DEF Held, FirstIsHeld, Seen, Loaded
<1> QED
  BY <1>3, <1>4

\* The commit brings the row up to what the provider accepts.
LEMMA HeldCommit ==
    ASSUME TokenTypes, Held, NEW c \in ActionCalls, CommitRefresh(c) PROVE Held'
<1>1. calls[c] # NoCall /\ Pending(c)
  BY DEF CommitRefresh, Pending, At
<1>2. /\ objects' = [objects EXCEPT ![c] = Refreshed(c)]
      /\ calls' = [calls EXCEPT ![c] = calls'[c]]
      /\ connection' = Refreshed(c) /\ provider' = provider
      /\ calls'[c].at \in {"lookup", "failed", "sent"}
  BY CommitRefreshMoves DEF Moves, Onward, CommitRefresh
<1>3. ~ Pending(c)'
  BY <1>2 DEF Pending, At
<1>4. \A d \in ActionCalls : objects'[d] = IF d = c THEN Refreshed(c) ELSE objects[d]
  BY <1>2 DEF TokenTypes
<1>5. Refreshed(c).refresh = IF provider.rotates THEN calls[c].answer ELSE Seen(c).refresh
  BY <1>1, RefreshedIsRow
<1>6. CASE provider.rotates
  <2>1. \A d \in ActionCalls : ~ Pending(d)'
    BY <1>1, <1>2, <1>3, <1>6, OthersStayPending DEF Held, NewestIsHeld
  <2>2. Refreshed(c).refresh = provider.issued
    BY <1>1, <1>5, <1>6 DEF Held, NewestIsHeld
  <2>3. provider.issued \in Nat
    BY DEF TokenTypes, Tokens
  <2> QED
    BY <1>2, <1>4, <1>6, <2>1, <2>2, <2>3 DEF Held, NewestIsHeld
<1>7. CASE ~ provider.rotates
  <2>1. Seen(c).refresh = 1
    BY <1>7 DEF Held, FirstIsHeld, Seen
  <2> QED
    BY <1>2, <1>4, <1>5, <1>7, <2>1 DEF Held, FirstIsHeld, Loaded
<1> QED
  BY <1>6, <1>7

LEMMA HeldNext ==
    ASSUME TokenTypes, "loss" \notin threats => Held, [TokensNext]_tokenVars
    PROVE  "loss" \notin threats' => Held'
<1>1. threats' = threats
  BY DEF TokensNext, StartCall, Resolve, LookUp, Exchange, Refuse, CommitRefresh, Restart, Expire,
     tokenVars
<1> SUFFICES ASSUME "loss" \notin threats, Held PROVE Held'
  BY <1>1
<1>2. CASE Expire \/ UNCHANGED tokenVars
  <2>1. SameTokens /\ objects' = objects /\ calls' = calls
    BY <1>2, ExpireType DEF SameTokens, Expire, tokenVars
  <2>2. SamePending
    BY <2>1 DEF SamePending, Pending, At
  <2> QED
    BY <2>1, <2>2, HeldQuiet
<1> QED
  BY <1>2, HeldQuietStep, HeldExchange, HeldCommit DEF TokensNext, Restart

LEMMA TokensStart == TokensInit => TokenTypes /\ Held
<1> SUFFICES ASSUME TokensInit PROVE TokenTypes /\ Held
  OBVIOUS
<1>1. 0 \in Tokens /\ 1 \in Tokens
  BY OAuthTokensOK DEF Tokens
<1>2. PICK b \in BOOLEAN :
         provider = [issued |-> 1, expired |-> 0, accepts |-> 1, rotates |-> b]
  BY DEF TokensInit
<1>3. TokenTypes
  BY <1>1, <1>2 DEF TokensInit, TokenTypes, Rows
<1>4. \A c \in ActionCalls : ~ Pending(c) /\ objects[c].refresh = 0 /\ ~ Loaded(c)
  BY DEF TokensInit, Pending, At, Loaded
<1>5. Held
  BY <1>2, <1>4 DEF TokensInit, Held, NewestIsHeld, FirstIsHeld
<1> QED
  BY <1>3, <1>5

\* Once no call refreshes, the row holds the refresh token that the provider
\* accepts, whatever refreshes overlapped or were refused; only an answer
\* that is lost can end that.
THEOREM ConnectionsCanBeRefreshed == TokensSpec => []RefreshTokenKept
<1> DEFINE Kept == "loss" \notin threats => Held
<1>1. TokenTypes /\ Kept /\ [TokensNext]_tokenVars => Kept'
  BY HeldNext
<1>2. Kept => RefreshTokenKept
  <2> SUFFICES ASSUME Held, NoneCalling PROVE connection.refresh = provider.accepts
    BY DEF RefreshTokenKept
  <2>1. \A c \in ActionCalls : ~ Pending(c)
    BY DEF NoneCalling, Calling, Pending, At
  <2> QED
    BY <2>1 DEF Held, NewestIsHeld, FirstIsHeld
<1>3. TokensInit => TokenTypes /\ Kept
  BY TokensStart
<1> QED
  BY <1>1, <1>2, <1>3, TokenTypesStep, PTL DEF TokensSpec

-----------------------------------------------------------------------------
(***************************************************************************)
(* Stale copies.  Without overlap a call under way has the row as it is;   *)
(* its answer is newer than every token in the row and in the copies.      *)
(***************************************************************************)
SerialCalls ==
    /\ \A c, d \in ActionCalls : Calling(c) /\ Calling(d) => c = d
    /\ connection.access <= provider.issued
    /\ \A c \in ActionCalls : objects[c].access <= provider.issued
    /\ \A c \in ActionCalls : calls[c] = NoCall => ~ Loaded(c)
    /\ \A c \in ActionCalls : Calling(c) /\ Loaded(c) => objects[c] = connection
    /\ \A c \in ActionCalls : Pending(c) =>
          /\ calls[c].answer = provider.issued
          /\ connection.access < provider.issued
          /\ \A d \in ActionCalls : objects[d].access < provider.issued
          /\ cache[calls[c].process] = NoCall

\* A call that will send the token of an object it did not load.
SendsCopy(c) == (At(c, "refreshing") \/ At(c, "refreshed")) /\ calls[c].object # c

\* Token t is older than any that process w may send from a copy.
Behind(t, w) ==
    /\ t < connection.access
    /\ cache[w] # NoCall => t < objects[cache[w]].access
    /\ \A d \in ActionCalls : SendsCopy(d) /\ calls[d].process = w =>
          t < objects[calls[d].object].access

SentAreBehind == \A c \in ActionCalls : SentFromCopy(c) => Behind(calls[c].answer, calls[c].process)

SentDiffer ==
    \A c, d \in ActionCalls :
        SentFromCopy(c) /\ SentFromCopy(d) /\ calls[c].process = calls[d].process =>
            c = d \/ calls[c].answer # calls[d].answer

CopiesInv == SerialCalls /\ SentAreBehind /\ SentDiffer

LEMMA AloneCalling ==
    ASSUME SerialCalls, NEW c \in ActionCalls, Calling(c)
    PROVE  (\A d \in ActionCalls : Calling(d) => d = c) /\ Seen(c) = connection
BY DEF SerialCalls, Seen

LEMMA NoneBefore ==
    ASSUME SerialCalls, "overlap" \notin threats,
           NEW c \in ActionCalls, NEW w \in Processes, NEW kind \in CallKinds, StartCall(c, w, kind)
    PROVE  \A d \in ActionCalls : ~ Calling(d)
<1> SUFFICES ASSUME NEW d \in ActionCalls, Calling(d) PROVE FALSE
  OBVIOUS
<1>1. {e \in ActionCalls : Calling(e)} = {d}
  BY DEF SerialCalls
<1>2. Cardinality({d}) = 1
  BY FS_Singleton
<1>3. Cardinality({e \in ActionCalls : Calling(e)}) < 1
  BY DEF StartCall
<1> QED
  BY <1>1, <1>2, <1>3

-----------------------------------------------------------------------------
(* Calls one after the other.                                              *)

\* A call that reloads its object, or leaves it, and does not commit.
LEMMA SerialMoves ==
    ASSUME TokenTypes, SerialCalls, NEW c \in ActionCalls,
           \A d \in ActionCalls : Calling(d) => d = c,
           Seen(c) = connection,
           calls' = [calls EXCEPT ![c] = calls'[c]], calls'[c] \in CallRecords,
           connection' = connection, provider'.issued \in Nat, provider'.issued >= provider.issued,
           objects' = objects \/ objects' = [objects EXCEPT ![c] = Seen(c)],
           Pending(c)' => /\ calls'[c].answer = provider'.issued
                          /\ provider'.issued > provider.issued
                          /\ cache'[calls'[c].process] = NoCall
    PROVE  SerialCalls'
<1>1. \A d \in ActionCalls : d # c => calls'[d] = calls[d] /\ objects'[d] = objects[d]
  BY DEF TokenTypes
<1>2. \A d \in ActionCalls : Calling(d)' => d = c
  BY <1>1 DEF Calling
<1>3. objects'[c] = objects[c] \/ objects'[c] = connection
  BY DEF TokenTypes
<1>4. /\ provider.issued \in Nat /\ connection.access \in Nat
      /\ \A d \in ActionCalls : objects[d].access \in Nat
  BY DEF TokenTypes, Tokens, Rows
<1>5. connection'.access <= provider.issued
      /\ \A d \in ActionCalls : objects'[d].access <= provider.issued
  BY <1>1, <1>3 DEF SerialCalls
<1>6. /\ connection'.access \in Nat
      /\ \A d \in ActionCalls : objects'[d].access \in Nat
  BY <1>1, <1>3, <1>4
<1>7. connection'.access <= provider'.issued
      /\ \A d \in ActionCalls : objects'[d].access <= provider'.issued
  BY <1>4, <1>5, <1>6
<1>8. calls'[c] # NoCall
  BY NoCallOK
<1>9. \A d \in ActionCalls : calls'[d] = NoCall => ~ Loaded(d)'
  BY <1>1, <1>8 DEF SerialCalls, Loaded
<1>10. Loaded(c)' => objects'[c] = connection'
  BY <1>3 DEF Seen, Loaded
<1>11. Pending(c)' =>
          /\ connection'.access < provider'.issued
          /\ \A d \in ActionCalls : objects'[d].access < provider'.issued
  BY <1>4, <1>5, <1>6
<1>12. \A d \in ActionCalls : Pending(d)' => Calling(d)'
  BY DEF Pending, At, Calling
<1> QED
  BY <1>2, <1>7, <1>9, <1>10, <1>11, <1>12 DEF SerialCalls

\* Tokens stay behind while copies are only reloaded, forgotten or taken.
LEMMA BehindStays ==
    ASSUME TokenTypes, TokenTypes', NEW w \in Processes, NEW t, Behind(t, w),
           connection' = connection,
           \A d \in ActionCalls : objects'[d] = objects[d] \/ objects'[d] = connection,
           cache'[w] # NoCall => cache'[w] = cache[w] \/ objects'[cache'[w]] = connection,
           \A d \in ActionCalls : SendsCopy(d)' /\ calls'[d].process = w =>
              \/ SendsCopy(d) /\ calls[d].process = w /\ calls'[d].object = calls[d].object
              \/ cache[w] # NoCall /\ calls'[d].object = cache[w]
    PROVE  Behind(t, w)'
<1>1. t < connection'.access
  BY DEF Behind
<1>2. ASSUME cache'[w] # NoCall PROVE t < objects'[cache'[w]].access
  <2>1. cache'[w] \in ActionCalls
    BY <1>2 DEF TokenTypes
  <2> QED
    BY <1>2, <2>1 DEF Behind
<1>3. ASSUME NEW d \in ActionCalls, SendsCopy(d)', calls'[d].process = w
      PROVE  t < objects'[calls'[d].object].access
  <2>1. calls'[d] \in CallRecords
    BY <1>3 DEF SendsCopy, At, TokenTypes
  <2>2. calls'[d].object \in ActionCalls
    BY <2>1 DEF CallRecords
  <2>3. t < objects[calls'[d].object].access
    BY <1>3 DEF Behind
  <2> QED
    BY <2>2, <2>3 DEF Behind
<1> QED
  BY <1>1, <1>2, <1>3 DEF Behind

\* A step after which no more tokens were sent from a copy.
LEMMA CopiesStay ==
    ASSUME TokenTypes, TokenTypes', SentAreBehind, SentDiffer,
           connection' = connection,
           \A d \in ActionCalls : objects'[d] = objects[d] \/ objects'[d] = connection,
           \A w \in Processes :
              cache'[w] # NoCall => cache'[w] = cache[w] \/ objects'[cache'[w]] = connection,
           \A d \in ActionCalls : SendsCopy(d)' =>
              \/ SendsCopy(d) /\ calls[d].process = calls'[d].process
                 /\ calls'[d].object = calls[d].object
              \/ cache[calls'[d].process] # NoCall /\ calls'[d].object = cache[calls'[d].process],
           \A d \in ActionCalls : SentFromCopy(d)' => SentFromCopy(d) /\ calls'[d] = calls[d]
    PROVE  SentAreBehind' /\ SentDiffer'
<1>1. ASSUME NEW c \in ActionCalls, SentFromCopy(c)'
      PROVE  Behind(calls[c].answer, calls[c].process)'
  <2>1. SentFromCopy(c) /\ calls'[c] = calls[c]
    BY <1>1
  <2>2. calls[c].process \in Processes
    BY <2>1, CallUnderWay DEF SentFromCopy, At
  <2>3. PICK w \in Processes : w = calls[c].process
    BY <2>2
  <2>6. PICK t : t = calls[c].answer
    OBVIOUS
  <2>4. Behind(t, w)
    BY <2>1, <2>3, <2>6 DEF SentAreBehind
  <2>5. Behind(t, w)'
    BY <2>4, BehindStays
  <2> QED
    BY <2>1, <2>3, <2>5, <2>6
<1> QED
  BY <1>1 DEF SentAreBehind, SentDiffer

\* A call starts when none is under way.
LEMMA CopiesStart ==
    ASSUME TokenTypes, TokenTypes', CopiesInv, "overlap" \notin threats,
           NEW c \in ActionCalls, NEW w \in Processes, NEW kind \in CallKinds, StartCall(c, w, kind)
    PROVE  CopiesInv'
<1>1. \A d \in ActionCalls : ~ Calling(d)
  BY NoneBefore DEF CopiesInv
<1>2. /\ calls' = [calls EXCEPT ![c] = calls'[c]] /\ calls'[c] \in CallRecords
      /\ calls'[c].at \in {"lookup", "resolve"} /\ calls[c] = NoCall
  BY StartCallMoves
<1>3. UNCHANGED <<threats, provider, connection, objects, cache>>
  BY DEF StartCall
<1>4. Seen(c) = connection
  BY <1>2 DEF CopiesInv, SerialCalls, Seen
<1>5. ~ Pending(c)' /\ ~ SendsCopy(c)' /\ ~ SentFromCopy(c)'
  BY <1>2 DEF Pending, SendsCopy, SentFromCopy, At
<1>6. provider'.issued \in Nat /\ provider'.issued >= provider.issued
  BY <1>3 DEF TokenTypes, Tokens
<1>7. SerialCalls'
  BY <1>1, <1>2, <1>3, <1>4, <1>5, <1>6, SerialMoves DEF CopiesInv
<1>8. \A d \in ActionCalls : d # c => calls'[d] = calls[d]
  BY <1>2 DEF TokenTypes
<1>9. /\ \A d \in ActionCalls : SendsCopy(d)' => SendsCopy(d) /\ calls'[d] = calls[d]
      /\ \A d \in ActionCalls : SentFromCopy(d)' => SentFromCopy(d) /\ calls'[d] = calls[d]
  BY <1>5, <1>8 DEF SendsCopy, SentFromCopy, At
<1>10. SentAreBehind' /\ SentDiffer'
  BY <1>3, <1>9, CopiesStay DEF CopiesInv
<1> QED
  BY <1>7, <1>10 DEF CopiesInv

\* A call that goes on without the answer of a refresh.
LEMMA CopiesOnward ==
    ASSUME TokenTypes, TokenTypes', CopiesInv, NEW c \in ActionCalls, Calling(c),
           Moves(c), Onward(c) \/ calls'[c].at = "resolving",
           connection' = connection, provider'.issued \in Nat, provider'.issued >= provider.issued,
           objects' = [objects EXCEPT ![c] = Seen(c)],
           cache' = cache \/ cache' = Forgotten(c)
    PROVE  CopiesInv'
<1>1. (\A d \in ActionCalls : Calling(d) => d = c) /\ Seen(c) = connection
  BY AloneCalling DEF CopiesInv
<1>2. ~ Pending(c)' /\ ~ SendsCopy(c)' /\ ~ SentFromCopy(c)'
  BY DEF Onward, Pending, SendsCopy, SentFromCopy, At
<1>3. SerialCalls'
  BY <1>1, <1>2, SerialMoves DEF CopiesInv, Moves
<1>4. \A d \in ActionCalls : d # c => calls'[d] = calls[d]
  BY DEF TokenTypes, Moves
<1>5. /\ \A d \in ActionCalls : SendsCopy(d)' => SendsCopy(d) /\ calls'[d] = calls[d]
      /\ \A d \in ActionCalls : SentFromCopy(d)' => SentFromCopy(d) /\ calls'[d] = calls[d]
  BY <1>2, <1>4 DEF SendsCopy, SentFromCopy, At
<1>6. \A d \in ActionCalls : objects'[d] = objects[d] \/ objects'[d] = connection
  BY <1>1 DEF TokenTypes
<1>7. \A w \in Processes : cache'[w] # NoCall => cache'[w] = cache[w]
  BY DEF Forgotten, TokenTypes
<1>8. SentAreBehind' /\ SentDiffer'
  BY <1>5, <1>6, <1>7, CopiesStay DEF CopiesInv
<1> QED
  BY <1>3, <1>8 DEF CopiesInv

\* A call takes the copy of its process, or makes its own the copy.
LEMMA CopiesLookUp ==
    ASSUME TokenTypes, TokenTypes', CopiesInv, NEW c \in ActionCalls, LookUp(c)
    PROVE  CopiesInv'
<1>1. Calling(c)
  BY DEF LookUp, At, Calling
<1>2. (\A d \in ActionCalls : Calling(d) => d = c) /\ Seen(c) = connection
  BY <1>1, AloneCalling DEF CopiesInv
<1>3. PICK o \in ActionCalls :
              /\ cache[calls[c].process] # NoCall => o = cache[calls[c].process]
              /\ cache[calls[c].process] = NoCall => o = c
              /\ cache' = [cache EXCEPT ![calls[c].process] = o]
              /\ objects' = IF o = c THEN [objects EXCEPT ![c] = Seen(c)] ELSE objects
              /\ objects' \in [ActionCalls -> Rows]
              /\ Moves(c)
              /\ calls'[c].object = o
              /\ \/ calls'[c].at = "refreshing"
                 \/ calls'[c].at = "sent" /\ ~ calls'[c].stale
  BY LookUpMoves
<1>4. UNCHANGED <<provider, connection>>
  BY DEF LookUp
<1>5. provider'.issued \in Nat /\ provider'.issued >= provider.issued
  BY <1>4 DEF TokenTypes, Tokens
<1>6. ~ Pending(c)' /\ ~ SentFromCopy(c)'
  BY <1>3 DEF Pending, SentFromCopy, At
<1>7. SerialCalls'
  BY <1>2, <1>3, <1>4, <1>5, <1>6, SerialMoves DEF CopiesInv, Moves
<1>8. \A d \in ActionCalls : d # c => calls'[d] = calls[d]
  BY <1>3 DEF TokenTypes, Moves
<1>9. \A d \in ActionCalls : SentFromCopy(d)' => SentFromCopy(d) /\ calls'[d] = calls[d]
  BY <1>6, <1>8 DEF SentFromCopy, At
<1>10. ASSUME NEW d \in ActionCalls, SendsCopy(d)'
       PROVE  \/ SendsCopy(d) /\ calls[d].process = calls'[d].process
                 /\ calls'[d].object = calls[d].object
              \/ cache[calls'[d].process] # NoCall /\ calls'[d].object = cache[calls'[d].process]
  <2>1. CASE d = c
    <3>1. calls'[c].object # c /\ calls'[c].process = calls[c].process
      BY <1>3, <1>10, <2>1 DEF SendsCopy, Moves
    <3> QED
      BY <1>3, <2>1, <3>1
  <2>2. CASE d # c
    BY <1>8, <1>10, <2>2 DEF SendsCopy, At
  <2> QED
    BY <2>1, <2>2
<1>11. \A d \in ActionCalls : objects'[d] = objects[d] \/ objects'[d] = connection
  BY <1>2, <1>3 DEF TokenTypes
<1>12. ASSUME NEW w \in Processes, cache'[w] # NoCall
       PROVE  cache'[w] = cache[w] \/ objects'[cache'[w]] = connection
  <2>1. CASE w = calls[c].process /\ o = c
    <3>1. objects'[c] = connection /\ cache'[w] = c
      BY <1>2, <1>3, <2>1 DEF TokenTypes
    <3> QED
      BY <3>1
  <2>2. CASE ~ (w = calls[c].process /\ o = c)
    BY <1>3, <2>2 DEF TokenTypes
  <2> QED
    BY <2>1, <2>2
<1>13. SentAreBehind' /\ SentDiffer'
  BY <1>4, <1>9, <1>10, <1>11, <1>12, CopiesStay DEF CopiesInv
<1> QED
  BY <1>7, <1>13 DEF CopiesInv

\* The answer of the provider is newer than all there is.
LEMMA CopiesExchange ==
    ASSUME TokenTypes, TokenTypes', CopiesInv, NEW c \in ActionCalls, Exchange(c)
    PROVE  CopiesInv'
<1>1. Calling(c) /\ connection' = connection /\ cache' = Forgotten(c)
  BY DEF Exchange, Refreshing, At, Calling
<1>2. (\A d \in ActionCalls : Calling(d) => d = c) /\ Seen(c) = connection
  BY <1>1, AloneCalling DEF CopiesInv
<1>3. /\ objects' = [objects EXCEPT ![c] = Seen(c)] /\ Moves(c)
      /\ provider'.issued = provider.issued + 1
  BY ExchangeMoves
<1>4. /\ provider'.issued \in Nat /\ provider'.issued >= provider.issued
      /\ provider'.issued > provider.issued
  BY <1>3 DEF TokenTypes, Tokens
<1>5. CASE Onward(c)
  BY <1>1, <1>3, <1>4, <1>5, CopiesOnward
<1>6. CASE ~ Onward(c)
  <2>1. /\ calls'[c].at = IF At(c, "resolving") THEN "resolved" ELSE "refreshed"
        /\ calls'[c].object = calls[c].object /\ calls'[c].answer = provider'.issued
    BY <1>6, ExchangeMoves
  <2>2. calls[c].process \in Processes /\ calls'[c].process = calls[c].process
    BY <1>1, <1>3, CallUnderWay DEF Calling, Moves
  <2>3. cache'[calls'[c].process] = NoCall
    BY <1>1, <2>2 DEF Forgotten, TokenTypes
  <2>4. SerialCalls'
    BY <1>1, <1>2, <1>3, <1>4, <2>1, <2>3, SerialMoves DEF CopiesInv, Moves
  <2>5. \A d \in ActionCalls : d # c => calls'[d] = calls[d]
    BY <1>3 DEF TokenTypes, Moves
  <2>6. \A d \in ActionCalls : SentFromCopy(d)' => SentFromCopy(d) /\ calls'[d] = calls[d]
    BY <2>1, <2>5 DEF SentFromCopy, At
  <2>7. SendsCopy(c)' => SendsCopy(c)
    BY <2>1 DEF SendsCopy, At, Exchange, Refreshing
  <2>8. \A d \in ActionCalls : SendsCopy(d)' =>
           SendsCopy(d) /\ calls[d].process = calls'[d].process /\ calls'[d].object = calls[d].object
    BY <2>1, <2>2, <2>5, <2>7 DEF SendsCopy, At
  <2>9. \A d \in ActionCalls : objects'[d] = objects[d] \/ objects'[d] = connection
    BY <1>2, <1>3 DEF TokenTypes
  <2>10. \A w \in Processes : cache'[w] # NoCall => cache'[w] = cache[w]
    BY <1>1 DEF Forgotten, TokenTypes
  <2>11. SentAreBehind' /\ SentDiffer'
    BY <1>1, <2>6, <2>8, <2>9, <2>10, CopiesStay DEF CopiesInv
  <2> QED
    BY <2>4, <2>11 DEF CopiesInv
<1> QED
  BY <1>5, <1>6

\* The commit leaves every token that was sent from a copy behind the row.  A
\* copy that is sent now is newer than those its process sent before.
LEMMA CopiesCommit ==
    ASSUME TokenTypes, TokenTypes', CopiesInv, NEW c \in ActionCalls, CommitRefresh(c)
    PROVE  CopiesInv'
<1>1. calls[c] # NoCall /\ Calling(c) /\ Pending(c)
  BY DEF CommitRefresh, Pending, At, Calling
<1>2. \A d \in ActionCalls : Calling(d) => d = c
  BY <1>1, AloneCalling DEF CopiesInv
<1>3. /\ objects' = [objects EXCEPT ![c] = Refreshed(c)]
      /\ Moves(c)
      /\ connection' = Refreshed(c) /\ provider' = provider /\ cache' = cache
      /\ \/ Onward(c)
         \/ /\ At(c, "refreshed") /\ calls'[c].at = "sent"
            /\ calls'[c].object = calls[c].object
            /\ calls'[c].answer = objects'[calls[c].object].access
  BY CommitRefreshMoves DEF CommitRefresh
<1>4. /\ calls[c].answer = provider.issued /\ connection.access < provider.issued
      /\ \A d \in ActionCalls : objects[d].access < provider.issued
      /\ cache[calls[c].process] = NoCall
  BY <1>1 DEF CopiesInv, SerialCalls
<1>5. connection'.access = provider.issued
  BY <1>1, <1>3, <1>4, RefreshedIsRow
<1>6. \A d \in ActionCalls : objects'[d] = IF d = c THEN connection' ELSE objects[d]
  BY <1>3 DEF TokenTypes
<1>7. \A d \in ActionCalls : d # c => calls'[d] = calls[d]
  BY <1>3 DEF TokenTypes, Moves
<1>8. /\ provider.issued \in Nat /\ connection.access \in Nat
      /\ \A d \in ActionCalls : objects[d].access \in Nat
  BY DEF TokenTypes, Tokens, Rows
<1>9. ~ Pending(c)' /\ ~ SendsCopy(c)'
  BY <1>3 DEF Onward, Pending, SendsCopy, At
<1>10. \A d \in ActionCalls : ~ Pending(d)' /\ ~ SendsCopy(d)'
  BY <1>2, <1>7, <1>9 DEF Pending, SendsCopy, At, Calling
<1>11. SerialCalls'
  <2>1. \A d \in ActionCalls : Calling(d)' => d = c
    BY <1>2, <1>7 DEF Calling
  <2>2. connection'.access <= provider'.issued
        /\ \A d \in ActionCalls : objects'[d].access <= provider'.issued
    BY <1>3, <1>5, <1>6, <1>8 DEF CopiesInv, SerialCalls
  <2>3. calls'[c] # NoCall
    BY <1>3, NoCallOK DEF Moves
  <2>4. \A d \in ActionCalls : calls'[d] = NoCall => ~ Loaded(d)'
    BY <1>6, <1>7, <2>3 DEF CopiesInv, SerialCalls, Loaded
  <2> QED
    BY <1>6, <1>10, <2>1, <2>2, <2>4 DEF SerialCalls
<1>12. ASSUME NEW w \in Processes, NEW t \in Nat, t < provider.issued,
              cache[w] # NoCall => t < objects[cache[w]].access
       PROVE  Behind(t, w)'
  <2>1. ASSUME cache[w] # NoCall PROVE t < objects'[cache[w]].access
    <3>1. cache[w] \in ActionCalls
      BY <2>1 DEF TokenTypes
    <3> QED
      BY <1>5, <1>6, <1>12, <2>1, <3>1
  <2> QED
    BY <1>3, <1>5, <1>10, <1>12, <2>1 DEF Behind
<1>13. ASSUME NEW d \in ActionCalls, SentFromCopy(d), d # c
       PROVE  /\ Behind(calls[d].answer, calls[d].process)
              /\ calls[d].answer \in Nat /\ calls[d].process \in Processes
              /\ calls[d].answer < provider.issued
  <2>1. calls[d].answer \in Nat /\ calls[d].process \in Processes
    BY <1>13, CallUnderWay DEF SentFromCopy, At, Tokens
  <2>2. Behind(calls[d].answer, calls[d].process)
    BY <1>13 DEF CopiesInv, SentAreBehind
  <2> QED
    BY <1>4, <1>8, <2>1, <2>2 DEF Behind
<1>14. ASSUME SentFromCopy(c)'
       PROVE  /\ SendsCopy(c)
              /\ calls'[c].answer = objects[calls[c].object].access
              /\ calls'[c].answer \in Nat /\ calls[c].process \in Processes
              /\ calls'[c].process = calls[c].process
              /\ calls'[c].answer < provider.issued
  <2>1. /\ At(c, "refreshed") /\ calls'[c].object = calls[c].object /\ calls[c].object # c
        /\ calls'[c].answer = objects'[calls[c].object].access
    BY <1>3, <1>14 DEF SentFromCopy, Onward, At
  <2>2. calls[c].object \in ActionCalls /\ calls[c].process \in Processes
    BY <1>1, CallUnderWay
  <2> QED
    BY <1>3, <1>4, <1>6, <1>8, <2>1, <2>2 DEF SendsCopy, Moves
<1>15. SentAreBehind'
  <2>1. ASSUME NEW d \in ActionCalls, SentFromCopy(d)'
        PROVE  Behind(calls[d].answer, calls[d].process)'
    <3>1. CASE d = c
      <4>1. PICK w \in Processes, t \in Nat : w = calls'[c].process /\ t = calls'[c].answer
        BY <1>14, <2>1, <3>1
      <4>2. cache[w] = NoCall /\ t < provider.issued
        BY <1>4, <1>14, <2>1, <3>1, <4>1
      <4>3. Behind(t, w)'
        BY <1>12, <4>2
      <4> QED
        BY <3>1, <4>1, <4>3
    <3>2. CASE d # c
      <4>1. SentFromCopy(d) /\ calls'[d] = calls[d]
        BY <1>7, <2>1, <3>2 DEF SentFromCopy, At
      <4>2. PICK w \in Processes, t \in Nat : w = calls[d].process /\ t = calls[d].answer
        BY <1>13, <3>2, <4>1
      <4>3. t < provider.issued /\ Behind(t, w)
        BY <1>13, <3>2, <4>1, <4>2
      <4>4. Behind(t, w)'
        BY <1>12, <4>3 DEF Behind
      <4> QED
        BY <4>1, <4>2, <4>4
    <3> QED
      BY <3>1, <3>2
  <2> QED
    BY <2>1 DEF SentAreBehind
<1>16. SentDiffer'
  <2>1. ASSUME NEW d \in ActionCalls, d # c, SentFromCopy(d)', SentFromCopy(c)',
               calls'[d].process = calls'[c].process
        PROVE  calls'[d].answer # calls'[c].answer
    <3>1. SentFromCopy(d) /\ calls'[d] = calls[d]
      BY <1>7, <2>1 DEF SentFromCopy, At
    <3>2. Behind(calls[d].answer, calls[d].process) /\ calls[d].answer \in Nat
      BY <1>13, <2>1, <3>1
    <3>3. SendsCopy(c) /\ calls[c].process = calls[d].process
      BY <1>14, <2>1, <3>1
    <3>4. calls[d].answer < objects[calls[c].object].access
      BY <3>2, <3>3 DEF Behind
    <3> QED
      BY <1>14, <2>1, <3>1, <3>2, <3>4
  <2>2. ASSUME NEW d \in ActionCalls, NEW e \in ActionCalls, d # c, e # c,
               SentFromCopy(d)', SentFromCopy(e)', calls'[d].process = calls'[e].process
        PROVE  d = e \/ calls'[d].answer # calls'[e].answer
    BY <1>7, <2>2 DEF SentFromCopy, At, CopiesInv, SentDiffer
  <2> QED
    BY <2>1, <2>2 DEF SentDiffer
<1> QED
  BY <1>11, <1>15, <1>16 DEF CopiesInv

\* Around the calls: a process restarts, tokens expire.
LEMMA CopiesRestart ==
    ASSUME TokenTypes, TokenTypes', CopiesInv, NEW w \in Processes, Restart(w)
    PROVE  CopiesInv'
<1>1. UNCHANGED <<provider, connection, objects>> /\ cache' = [cache EXCEPT ![w] = NoCall]
  BY DEF Restart
<1>2. \A d \in ActionCalls :
         \/ calls'[d] = calls[d]
         \/ Calling(d) /\ calls'[d] # NoCall /\ calls'[d].at = "failed"
  BY RestartCalls
<1>3. \A v \in Processes : cache'[v] = cache[v] \/ cache'[v] = NoCall
  BY <1>1 DEF TokenTypes
<1>4. \A d \in ActionCalls :
         /\ Calling(d)' => Calling(d)
         /\ Pending(d)' => Pending(d) /\ calls'[d] = calls[d]
         /\ SendsCopy(d)' => SendsCopy(d) /\ calls'[d] = calls[d]
         /\ SentFromCopy(d)' => SentFromCopy(d) /\ calls'[d] = calls[d]
         /\ calls'[d] = NoCall => calls[d] = NoCall
  BY <1>2 DEF Calling, Pending, SendsCopy, SentFromCopy, At
<1>5. \A d \in ActionCalls : Pending(d) => calls[d].process \in Processes
  BY CallUnderWay DEF Pending, At
<1>6. SerialCalls'
  BY <1>1, <1>3, <1>4, <1>5 DEF CopiesInv, SerialCalls, Loaded
<1>7. SentAreBehind' /\ SentDiffer'
  BY <1>1, <1>3, <1>4, CopiesStay DEF CopiesInv
<1> QED
  BY <1>6, <1>7 DEF CopiesInv

LEMMA CopiesNext ==
    ASSUME TokenTypes, TokenTypes', "overlap" \notin threats => CopiesInv, [TokensNext]_tokenVars
    PROVE  "overlap" \notin threats' => CopiesInv'
<1>1. threats' = threats
  BY DEF TokensNext, StartCall, Resolve, LookUp, Exchange, Refuse, CommitRefresh, Restart, Expire,
     tokenVars
<1> SUFFICES ASSUME "overlap" \notin threats, CopiesInv PROVE CopiesInv'
  BY <1>1
<1>2. provider.issued \in Nat
  BY DEF TokenTypes, Tokens
<1>3. ASSUME NEW c \in ActionCalls, Resolve(c) PROVE CopiesInv'
  <2>1. Calling(c) /\ UNCHANGED <<provider, connection, cache>>
    BY <1>3 DEF Resolve, At, Calling
  <2>2. provider'.issued \in Nat /\ provider'.issued >= provider.issued
    BY <1>2, <2>1
  <2> QED
    BY <1>3, <2>1, <2>2, ResolveMoves, CopiesOnward
<1>4. ASSUME NEW c \in ActionCalls, Refuse(c) PROVE CopiesInv'
  <2>1. Calling(c) /\ UNCHANGED <<provider, connection>> /\ cache' = Forgotten(c)
    BY <1>4 DEF Refuse, Refreshing, At, Calling
  <2>2. provider'.issued \in Nat /\ provider'.issued >= provider.issued
    BY <1>2, <2>1
  <2> QED
    BY <1>4, <2>1, <2>2, RefuseMoves, CopiesOnward
<1>5. CASE Expire \/ UNCHANGED tokenVars
  <2>1. UNCHANGED <<connection, objects, cache, calls>> /\ provider'.issued = provider.issued
    BY <1>5, ExpireType DEF Expire, tokenVars
  <2>2. SerialCalls'
    BY <2>1 DEF CopiesInv, SerialCalls, Calling, Loaded, Pending, At
  <2>3. SentAreBehind' /\ SentDiffer'
    BY <2>1 DEF CopiesInv, SentAreBehind, SentDiffer, SentFromCopy, Behind, SendsCopy, At
  <2> QED
    BY <2>2, <2>3 DEF CopiesInv
<1> QED
  BY <1>3, <1>4, <1>5, CopiesStart, CopiesLookUp, CopiesExchange, CopiesCommit, CopiesRestart
  DEF TokensNext

\* Without overlap no process sends one expired token twice from a copy,
\* however many calls it makes, restarts it survives and answers it loses:
\* what it sends next from a copy is newer.
THEOREM StaleCopiesAreSentOnce == TokensSpec => []StaleCopyOnce
<1> DEFINE Copies == "overlap" \notin threats => CopiesInv
<1>1. TokensInit => TokenTypes /\ Copies
  <2> SUFFICES ASSUME TokensInit PROVE TokenTypes /\ CopiesInv
    OBVIOUS
  <2>1. TokenTypes
    BY TokensStart
  <2>2. \A c \in ActionCalls : calls[c] = NoCall /\ objects[c].access = 0
    BY DEF TokensInit
  <2>3. connection.access = 1 /\ provider.issued = 1
    BY DEF TokensInit
  <2>4. SerialCalls
    BY <2>2, <2>3 DEF SerialCalls, Calling, Loaded, Pending, At
  <2>5. SentAreBehind /\ SentDiffer
    BY <2>2 DEF SentAreBehind, SentDiffer, SentFromCopy, At
  <2> QED
    BY <2>1, <2>4, <2>5 DEF CopiesInv
<1>2. TokenTypes /\ TokenTypes' /\ Copies /\ [TokensNext]_tokenVars => Copies'
  BY CopiesNext
<1>3. Copies => StaleCopyOnce
  BY DEF CopiesInv, SentDiffer, StaleCopyOnce
<1> QED
  BY <1>1, <1>2, <1>3, TokenTypesStep, PTL DEF TokensSpec

-----------------------------------------------------------------------------
(***************************************************************************)
(* Pricing: a charge covers its cost, exceeds it by the rounding of each   *)
(* meter only, and stays within what was held for a larger use.            *)
(*                                                                         *)
(* PricingInv says that the prices of a request that was not repriced are  *)
(* still those it was estimated and charged at.  The rest is arithmetic of *)
(* one meter (MeterIsFair, MeterGrows) and a sum of four of them.          *)
(***************************************************************************)
PricingSpec == PricingInit /\ [][PricingNext]_pricingVars

\* A product is no smaller for a larger factor.
LEMMA ProductGrows ==
    ASSUME NEW a \in Nat, NEW b \in Nat, NEW c \in Nat, a <= b
    PROVE  a * c <= b * c /\ a * c \in Nat
OBVIOUS

\* money(): the next multiple of a quantum.
LEMMA RoundedUp ==
    ASSUME NEW n \in Nat, NEW d \in Nat \ {0}
    PROVE  /\ RoundUp(n, d) \in Nat
           /\ RoundUp(n, d) * d >= n /\ RoundUp(n, d) * d < n + d
BY DEF RoundUp

LEMMA RoundUpGrows ==
    ASSUME NEW n \in Nat, NEW m \in Nat, NEW d \in Nat \ {0}, n <= m
    PROVE  RoundUp(n, d) <= RoundUp(m, d)
<1>1. PICK j \in Nat, k \in Nat :
        /\ j = RoundUp(n, d) /\ j * d < n + d
        /\ k = RoundUp(m, d) /\ k * d >= m
  BY RoundedUp
<1>2. ASSUME k + 1 <= j PROVE FALSE
  <2>1. (k + 1) * d <= j * d
    BY <1>2, ProductGrows
  <2>2. (k + 1) * d = k * d + d
    OBVIOUS
  <2>3. j * d \in Nat /\ k * d \in Nat
    OBVIOUS
  <2> QED
    BY <1>1, <2>1, <2>2, <2>3
<1> QED
  BY <1>1, <1>2

LEMMA RoundUpCovers ==
    ASSUME NEW n \in Nat, NEW a \in Nat, NEW d \in Nat \ {0}, a * d <= n
    PROVE  a <= RoundUp(n, d)
<1>1. PICK j \in Nat : j = RoundUp(n, d) /\ j * d >= n
  BY RoundedUp
<1>2. ASSUME j + 1 <= a PROVE FALSE
  <2>1. (j + 1) * d <= a * d
    BY <1>2, ProductGrows
  <2>2. (j + 1) * d = j * d + d
    OBVIOUS
  <2>3. j * d \in Nat /\ a * d \in Nat
    OBVIOUS
  <2> QED
    BY <1>1, <2>1, <2>2, <2>3
<1> QED
  BY <1>1, <1>2

\* One meter: the provider's part is covered, and the customer's part is the
\* cost with its markup, but for two roundings.
LEMMA MeterIsFair ==
    ASSUME NEW rule \in Rules, NEW q \in Nat
    PROVE  LET p == ProviderPart(rule, q)
               c == CustomerPart(rule, q)
               x == rule.rate * q * (Parts + rule.markup)
               s == Unit * (2 * Parts + rule.markup)
           IN  /\ p \in Nat /\ c \in Nat /\ x \in Nat /\ s \in Nat
               /\ p <= c
               /\ x <= c * Unit * Parts /\ c * Unit * Parts < x + s
<1>1. PICK rate \in Nat, k \in Nat : rate = rule.rate /\ k = rule.markup
  BY DEF Rules
<1>2. PICK u \in Nat \ {0}, w \in Nat \ {0} : u = Unit /\ w = Parts
  BY PricingOK
<1>3. PICK n \in Nat : n = rate * q
  OBVIOUS
<1>4. PICK p \in Nat : /\ p = ProviderPart(rule, q)
                       /\ p * u >= n /\ p * u < n + u
  BY <1>1, <1>2, <1>3, RoundedUp DEF ProviderPart
<1>5. PICK y \in Nat : y = p * (w + k)
  OBVIOUS
<1>6. PICK c \in Nat : /\ c = CustomerPart(rule, q)
                       /\ c = RoundUp(y, w)
                       /\ c * w >= y /\ c * w < y + w
  BY <1>1, <1>2, <1>4, <1>5, RoundedUp DEF CustomerPart
<1>7. p <= c
  <2>1. p * w <= y
    BY <1>5
  <2> QED
    BY <1>6, <2>1, RoundUpCovers
<1>8. PICK x \in Nat, s \in Nat : x = n * (w + k) /\ s = u * (2 * w + k)
  OBVIOUS
<1>9. PICK cw \in Nat, pu \in Nat : cw = c * w /\ pu = p * u
  OBVIOUS
<1>10. c * u * w = cw * u /\ y * u = pu * (w + k)
  BY <1>5, <1>9
<1>11. x <= c * u * w
  <2>1. x <= pu * (w + k)
    BY <1>4, <1>8, <1>9, ProductGrows
  <2>2. y * u <= cw * u
    BY <1>6, <1>9, ProductGrows
  <2> QED
    BY <1>10, <2>1, <2>2
<1>12. c * u * w < x + s
  <2>1. cw + 1 <= y + w /\ pu + 1 <= n + u
    BY <1>4, <1>6, <1>9
  <2>2. (cw + 1) * u <= (y + w) * u
    BY <2>1, ProductGrows
  <2>3. (pu + 1) * (w + k) <= (n + u) * (w + k)
    BY <2>1, ProductGrows
  <2>4. (cw + 1) * u = cw * u + u /\ (y + w) * u = y * u + w * u
    OBVIOUS
  <2>5. (pu + 1) * (w + k) = pu * (w + k) + (w + k) /\ (n + u) * (w + k) = x + u * (w + k)
    BY <1>8
  <2>6. s = u * (w + k) + w * u
    BY <1>8
  <2> QED
    BY <1>10, <2>2, <2>3, <2>4, <2>5, <2>6
<1> QED
  BY <1>1, <1>2, <1>3, <1>4, <1>6, <1>7, <1>8, <1>11, <1>12

\* More of a meter costs no less.
LEMMA MeterGrows ==
    ASSUME NEW rule \in Rules, NEW q \in Nat, NEW more \in Nat, q <= more
    PROVE  CustomerPart(rule, q) <= CustomerPart(rule, more)
<1>1. PICK rate \in Nat, k \in Nat : rate = rule.rate /\ k = rule.markup
  BY DEF Rules
<1>2. PICK u \in Nat \ {0}, w \in Nat \ {0} : u = Unit /\ w = Parts
  BY PricingOK
<1>3. PICK n \in Nat, m \in Nat : n = rate * q /\ m = rate * more /\ n <= m
  <2>1. q * rate <= more * rate
    BY ProductGrows
  <2> QED
    BY <2>1
<1>4. PICK a \in Nat, b \in Nat : a = RoundUp(n, u) /\ b = RoundUp(m, u) /\ a <= b
  BY <1>3, RoundedUp, RoundUpGrows
<1>5. PICK y \in Nat, z \in Nat : y = a * (w + k) /\ z = b * (w + k) /\ y <= z
  BY <1>4, ProductGrows
<1>6. RoundUp(y, w) <= RoundUp(z, w)
  BY <1>5, RoundUpGrows
<1>7. CustomerPart(rule, q) = RoundUp(y, w) /\ CustomerPart(rule, more) = RoundUp(z, w)
  BY <1>1, <1>2, <1>3, <1>4, <1>5 DEF CustomerPart, ProviderPart
<1> QED
  BY <1>6, <1>7

\* Versions of a rule are numbered from one, up to the bound of the model.
PricesOK == \A rule \in rules : rule \in Rules /\ rule.version <= MaxVersion + 1

\* calculate finds a rule for every meter it charges: the latest of them.
LEMMA ChargedByRule ==
    ASSUME PricesOK, NEW model, NEW m, RulesFor(model, m) # {}
    PROVE  RuleOf(model, m) \in Rules
<1> DEFINE S == {rule.version : rule \in RulesFor(model, m)}
<1>1. \A rule \in RulesFor(model, m) : rule \in Rules /\ rule.version \in 0..(MaxVersion + 1)
  BY PricingOK DEF RulesFor, PricesOK, Rules
<1>2. IsFiniteSet(S) /\ S \subseteq Nat /\ S # {}
  <2>1. S \subseteq 0..(MaxVersion + 1)
    BY <1>1
  <2>2. IsFiniteSet(0..(MaxVersion + 1))
    BY PricingOK, FS_Interval
  <2>3. IsFiniteSet(S)
    BY <2>1, <2>2, FS_Subset
  <2> QED
    BY <2>1, <2>3, PricingOK
<1> HIDE DEF S
<1>3. PICK v \in S : \A n \in S : n <= v
  BY <1>2, GreatestOf
<1>4. PICK rule \in RulesFor(model, m) : v = rule.version
  BY DEF S
<1>5. \A other \in RulesFor(model, m) : other.version <= rule.version
  BY <1>3, <1>4 DEF S
<1>6. RuleOf(model, m) \in RulesFor(model, m)
  BY <1>5 DEF RuleOf, Latest
<1> QED
  BY <1>1, <1>6

\* What one meter adds to a charge, to the provider's cost, to the exact cost
\* and to what rounding may add.
Adds(model, use, m, c, p, x, s) ==
    IF m \in Metered(model, use)
    THEN /\ c = CustomerPart(RuleOf(model, m), use[m])
         /\ p = ProviderPart(RuleOf(model, m), use[m])
         /\ x = RuleOf(model, m).rate * use[m] * (Parts + RuleOf(model, m).markup)
         /\ s = Unit * (2 * Parts + RuleOf(model, m).markup)
    ELSE c = 0 /\ p = 0 /\ x = 0 /\ s = 0

LEMMA MeterAdds ==
    ASSUME PricesOK, NEW model, NEW use \in [Meters -> Nat], NEW m \in Meters
    PROVE  \E c, p, x, s \in Nat :
              /\ Adds(model, use, m, c, p, x, s)
              /\ p <= c /\ x <= c * Unit * Parts
              /\ c * Unit * Parts <= x + s
              /\ c > 0 => c * Unit * Parts < x + s
<1>1. CASE m \notin Metered(model, use)
  <2>1. Adds(model, use, m, 0, 0, 0, 0)
    BY <1>1 DEF Adds
  <2>2. 0 * Unit * Parts = 0
    BY PricingOK
  <2> QED
    BY <2>1, <2>2
<1>2. CASE m \in Metered(model, use)
  <2>1. PICK rule \in Rules : rule = RuleOf(model, m)
    BY <1>2, ChargedByRule DEF Metered
  <2>2. PICK q \in Nat : q = use[m]
    OBVIOUS
  <2> DEFINE p == ProviderPart(rule, q)
             c == CustomerPart(rule, q)
             x == rule.rate * q * (Parts + rule.markup)
             s == Unit * (2 * Parts + rule.markup)
  <2>3. /\ p \in Nat /\ c \in Nat /\ x \in Nat /\ s \in Nat
        /\ p <= c
        /\ x <= c * Unit * Parts /\ c * Unit * Parts < x + s
    BY MeterIsFair
  <2>4. Adds(model, use, m, c, p, x, s)
    BY <1>2, <2>1, <2>2 DEF Adds
  <2> HIDE DEF p, c, x, s
  <2>5. c * Unit * Parts \in Nat
    BY <2>3, PricingOK
  <2> QED
    BY <2>3, <2>4, <2>5
<1> QED
  BY <1>1, <1>2

LEMMA CostsAreFair ==
    ASSUME PricesOK, NEW model, NEW use \in [Meters -> Nat]
    PROVE  LET c == CustomerCost(model, use)
               x == Exact(model, use)
               s == Slack(model, use)
           IN  /\ c \in Nat /\ ProviderCost(model, use) \in Nat /\ x \in Nat /\ s \in Nat
               /\ ProviderCost(model, use) <= c
               /\ x <= c * Unit * Parts
               /\ c > 0 => c * Unit * Parts < x + s
<1> DEFINE Fair(m, c, p, x, s) == /\ Adds(model, use, m, c, p, x, s)
                                  /\ p <= c /\ x <= c * Unit * Parts
                                  /\ c * Unit * Parts <= x + s
                                  /\ c > 0 => c * Unit * Parts < x + s
<1>0. \A m \in Meters : \E c, p, x, s \in Nat : Fair(m, c, p, x, s)
  BY MeterAdds
<1>1. PICK c1 \in Nat, p1 \in Nat, x1 \in Nat, s1 \in Nat :
        Fair("input_tokens", c1, p1, x1, s1)
  BY <1>0 DEF Meters
<1>2. PICK c2 \in Nat, p2 \in Nat, x2 \in Nat, s2 \in Nat :
        Fair("output_tokens", c2, p2, x2, s2)
  BY <1>0 DEF Meters
<1>3. PICK c3 \in Nat, p3 \in Nat, x3 \in Nat, s3 \in Nat :
        Fair("cached_tokens", c3, p3, x3, s3)
  BY <1>0 DEF Meters
<1>4. PICK c4 \in Nat, p4 \in Nat, x4 \in Nat, s4 \in Nat :
        Fair("invoke", c4, p4, x4, s4)
  BY <1>0 DEF Meters
<1>5. /\ CustomerCost(model, use) = c1 + c2 + c3 + c4
      /\ ProviderCost(model, use) = p1 + p2 + p3 + p4
      /\ Exact(model, use) = x1 + x2 + x3 + x4
      /\ Slack(model, use) = s1 + s2 + s3 + s4
  <2>1. /\ Adds(model, use, "input_tokens", c1, p1, x1, s1)
        /\ Adds(model, use, "output_tokens", c2, p2, x2, s2)
        /\ Adds(model, use, "cached_tokens", c3, p3, x3, s3)
        /\ Adds(model, use, "invoke", c4, p4, x4, s4)
    BY <1>1, <1>2, <1>3, <1>4
  <2>2. Meters = {"input_tokens", "output_tokens", "cached_tokens", "invoke"}
    BY DEF Meters
  <2>3. CustomerCost(model, use) = c1 + c2 + c3 + c4
    BY <2>1, <2>2 DEF CustomerCost, InTotal, Adds
  <2>4. ProviderCost(model, use) = p1 + p2 + p3 + p4
    BY <2>1, <2>2 DEF ProviderCost, InTotal, Adds
  <2>5. Exact(model, use) = x1 + x2 + x3 + x4
    BY <2>1, <2>2 DEF Exact, InTotal, Adds
  <2>6. Slack(model, use) = s1 + s2 + s3 + s4
    BY <2>1, <2>2 DEF Slack, InTotal, Adds
  <2> QED
    BY <2>3, <2>4, <2>5, <2>6
<1>6. PICK u \in Nat : u = Unit * Parts
  BY PricingOK
<1>7. \A c \in Nat : c * Unit * Parts = c * u
  BY <1>6, PricingOK
<1>8. PICK z1 \in Nat, z2 \in Nat, z3 \in Nat, z4 \in Nat :
        z1 = c1 * u /\ z2 = c2 * u /\ z3 = c3 * u /\ z4 = c4 * u
  OBVIOUS
<1>9. (c1 + c2 + c3 + c4) * Unit * Parts = z1 + z2 + z3 + z4
  <2>1. (c1 + c2 + c3 + c4) * u = z1 + z2 + z3 + z4
    BY <1>8
  <2>2. c1 + c2 + c3 + c4 \in Nat
    OBVIOUS
  <2> QED
    BY <1>7, <2>1, <2>2
<1>10. /\ c1 * Unit * Parts = z1 /\ c2 * Unit * Parts = z2
       /\ c3 * Unit * Parts = z3 /\ c4 * Unit * Parts = z4
  BY <1>7, <1>8
<1>11. /\ x1 <= z1 /\ x2 <= z2 /\ x3 <= z3 /\ x4 <= z4
       /\ p1 <= c1 /\ p2 <= c2 /\ p3 <= c3 /\ p4 <= c4
       /\ z1 <= x1 + s1 /\ z2 <= x2 + s2 /\ z3 <= x3 + s3 /\ z4 <= x4 + s4
       /\ c1 > 0 => z1 < x1 + s1
       /\ c2 > 0 => z2 < x2 + s2
       /\ c3 > 0 => z3 < x3 + s3
       /\ c4 > 0 => z4 < x4 + s4
  BY <1>1, <1>2, <1>3, <1>4, <1>10
<1> QED
  BY <1>5, <1>9, <1>11

\* Nothing costs less when more of it is used.
LEMMA MeterAddsMore ==
    ASSUME PricesOK, NEW model, NEW use \in [Meters -> Nat], NEW more \in [Meters -> Nat],
           NEW m \in Meters, use[m] <= more[m]
    PROVE  \E c, p, x, s, c1, p1, x1, s1 \in Nat :
              /\ Adds(model, use, m, c, p, x, s)
              /\ Adds(model, more, m, c1, p1, x1, s1)
              /\ c <= c1
<1>1. PICK c \in Nat, p \in Nat, x \in Nat, s \in Nat : Adds(model, use, m, c, p, x, s)
  BY MeterAdds
<1>2. PICK c1 \in Nat, p1 \in Nat, x1 \in Nat, s1 \in Nat : Adds(model, more, m, c1, p1, x1, s1)
  BY MeterAdds
<1>3. c <= c1
  <2>1. CASE m \notin Metered(model, use)
    BY <1>1, <1>2, <2>1 DEF Adds
  <2>2. CASE m \in Metered(model, use)
    <3>1. m \in Metered(model, more)
      BY <2>2 DEF Metered
    <3>2. RuleOf(model, m) \in Rules
      BY <2>2, ChargedByRule DEF Metered
    <3>3. CustomerPart(RuleOf(model, m), use[m]) <= CustomerPart(RuleOf(model, m), more[m])
      BY <3>2, MeterGrows
    <3> QED
      BY <1>1, <1>2, <2>2, <3>1, <3>3 DEF Adds
  <2> QED
    BY <2>1, <2>2
<1> QED
  BY <1>1, <1>2, <1>3

LEMMA CostGrows ==
    ASSUME PricesOK, NEW model, NEW use \in [Meters -> Nat], NEW more \in [Meters -> Nat],
           \A m \in Meters : use[m] <= more[m]
    PROVE  CustomerCost(model, use) <= CustomerCost(model, more)
<1> DEFINE Grows(m, c, p, x, s, d, q, y, t) ==
               /\ Adds(model, use, m, c, p, x, s)
               /\ Adds(model, more, m, d, q, y, t)
               /\ c <= d
<1>0. \A m \in Meters : \E c, p, x, s, d, q, y, t \in Nat : Grows(m, c, p, x, s, d, q, y, t)
  BY MeterAddsMore
<1>1. PICK c1 \in Nat, p1 \in Nat, x1 \in Nat, s1 \in Nat,
           d1 \in Nat, q1 \in Nat, y1 \in Nat, t1 \in Nat :
        Grows("input_tokens", c1, p1, x1, s1, d1, q1, y1, t1)
  BY <1>0 DEF Meters
<1>2. PICK c2 \in Nat, p2 \in Nat, x2 \in Nat, s2 \in Nat,
           d2 \in Nat, q2 \in Nat, y2 \in Nat, t2 \in Nat :
        Grows("output_tokens", c2, p2, x2, s2, d2, q2, y2, t2)
  BY <1>0 DEF Meters
<1>3. PICK c3 \in Nat, p3 \in Nat, x3 \in Nat, s3 \in Nat,
           d3 \in Nat, q3 \in Nat, y3 \in Nat, t3 \in Nat :
        Grows("cached_tokens", c3, p3, x3, s3, d3, q3, y3, t3)
  BY <1>0 DEF Meters
<1>4. PICK c4 \in Nat, p4 \in Nat, x4 \in Nat, s4 \in Nat,
           d4 \in Nat, q4 \in Nat, y4 \in Nat, t4 \in Nat :
        Grows("invoke", c4, p4, x4, s4, d4, q4, y4, t4)
  BY <1>0 DEF Meters
<1>5. Meters = {"input_tokens", "output_tokens", "cached_tokens", "invoke"}
  BY DEF Meters
<1>6. CustomerCost(model, use) = c1 + c2 + c3 + c4
  <2>1. /\ Adds(model, use, "input_tokens", c1, p1, x1, s1)
        /\ Adds(model, use, "output_tokens", c2, p2, x2, s2)
        /\ Adds(model, use, "cached_tokens", c3, p3, x3, s3)
        /\ Adds(model, use, "invoke", c4, p4, x4, s4)
    BY <1>1, <1>2, <1>3, <1>4
  <2> QED
    BY <1>5, <2>1 DEF CustomerCost, InTotal, Adds
<1>7. CustomerCost(model, more) = d1 + d2 + d3 + d4
  <2>1. /\ Adds(model, more, "input_tokens", d1, q1, y1, t1)
        /\ Adds(model, more, "output_tokens", d2, q2, y2, t2)
        /\ Adds(model, more, "cached_tokens", d3, q3, y3, t3)
        /\ Adds(model, more, "invoke", d4, q4, y4, t4)
    BY <1>1, <1>2, <1>3, <1>4
  <2> QED
    BY <1>5, <2>1 DEF CustomerCost, InTotal, Adds
<1>8. c1 <= d1 /\ c2 <= d2 /\ c3 <= d3 /\ c4 <= d4
  BY <1>1, <1>2, <1>3, <1>4
<1> QED
  BY <1>6, <1>7, <1>8

\* A request: what was estimated of it and, once it is answered, charged.
Quotes == [model : PricedModels \cup {NoQuote}, use : [Meters -> Nat], held : Nat,
           answered : PricedModels \cup {NoQuote}, used : [Meters -> Nat],
           charge : Nat, cost : Nat, repriced : BOOLEAN]

Estimated(q) ==
    /\ q.use["cached_tokens"] = 0
    /\ ~ q.repriced => q.held = CustomerCost(q.model, q.use)

ChargedFor(q) ==
    q.answered # NoQuote =>
        /\ q.used["invoke"] = 0
        /\ q.cost <= q.charge
        /\ ~ q.repriced /\ CustomerCost(q.answered, q.used) > 0 =>
              q.charge = CustomerCost(q.answered, q.used)

PricingInv ==
    /\ PricesOK
    /\ quote # NoQuote => quote \in Quotes /\ Estimated(quote) /\ ChargedFor(quote)

LEMMA PricingStarts == PricingInit => PricingInv
BY DEF PricingInit, PricingInv, PricesOK

\* Until prices change, a use costs the same.
LEMMA SameCost ==
    ASSUME UNCHANGED rules, NEW model, NEW use
    PROVE  CustomerCost(model, use)' = CustomerCost(model, use)
BY DEF CustomerCost, InTotal, Metered, RuleOf, RulesFor

\* New prices leave a request as it was, but for the note that they are new.
LEMMA RepricedKeeps ==
    ASSUME PricingInv, PricesOK', quote' = Repriced
    PROVE  PricingInv'
<1>1. CASE quote = NoQuote
  BY <1>1 DEF Repriced, PricingInv
<1>2. CASE quote # NoQuote
  <2>1. PICK q \in Quotes : q = quote /\ Estimated(q) /\ ChargedFor(q)
    BY <1>2 DEF PricingInv
  <2> DEFINE r == [q EXCEPT !.repriced = TRUE]
  <2>2. quote' = r
    BY <1>2, <2>1 DEF Repriced
  <2>3. /\ r \in Quotes /\ r.repriced
        /\ r.use = q.use /\ r.answered = q.answered /\ r.used = q.used
        /\ r.cost = q.cost /\ r.charge = q.charge
    BY DEF Quotes
  <2> HIDE DEF r
  <2>4. Estimated(r)' /\ ChargedFor(r)'
    BY <2>1, <2>3 DEF Estimated, ChargedFor
  <2> QED
    BY <2>2, <2>3, <2>4 DEF PricingInv
<1> QED
  BY <1>1, <1>2

LEMMA SeedKeeps ==
    ASSUME PricingInv, Seed PROVE PricingInv'
<1>1. PricesOK'
  BY PricingOK DEF PricingInv, PricesOK, Seed
<1> QED
  BY <1>1, RepricedKeeps DEF Seed

LEMMA SupersedeKeeps ==
    ASSUME PricingInv, NEW rule \in rules, NEW rate \in NewRates, Supersede(rule, rate)
    PROVE  PricingInv'
<1>1. PICK r \in Rules : r = rule /\ r.version < MaxVersion
  BY DEF PricingInv, PricesOK, Supersede
<1> DEFINE later == [r EXCEPT !.version = @ + 1, !.rate = rate]
<1>2. later \in Rules /\ later.version = r.version + 1
  <2>1. rate \in Nat
    BY PricingOK
  <2>2. r.version \in Nat /\ r.version + 1 \in Nat
    BY DEF Rules
  <2>3. later.version = r.version + 1
    BY DEF Rules
  <2>4. later = [r EXCEPT !.version = r.version + 1, !.rate = rate]
    OBVIOUS
  <2> HIDE DEF later
  <2> QED
    BY <2>1, <2>2, <2>3, <2>4 DEF Rules
<1>3. rules' = rules \cup {later}
  BY <1>1 DEF Supersede
<1>4. later.version <= MaxVersion + 1
  BY <1>1, <1>2, PricingOK DEF Rules
<1> HIDE DEF later
<1>5. PricesOK'
  BY <1>2, <1>3, <1>4 DEF PricingInv, PricesOK
<1> QED
  BY <1>5, RepricedKeeps DEF Supersede

LEMMA UseIsUse ==
    ASSUME NEW a \in Nat, NEW b \in Nat, NEW c \in Nat, NEW n \in Nat
    PROVE  /\ Use(a, b, c, n) \in [Meters -> Nat]
           /\ Use(a, b, c, n)["cached_tokens"] = c
           /\ Use(a, b, c, n)["invoke"] = n
BY DEF Use, Meters

LEMMA EstimateKeeps ==
    ASSUME PricingInv, NEW model \in PricedModels, NEW input \in Quantities,
           NEW output \in Quantities, Estimate(model, input, output)
    PROVE  PricingInv'
<1>1. PICK use \in [Meters -> Nat] :
        use = Use(input, output, 0, 1) /\ use["cached_tokens"] = 0
  <2>1. input \in Nat /\ output \in Nat /\ 0 \in Nat /\ 1 \in Nat
    BY PricingOK
  <2>2. /\ Use(input, output, 0, 1) \in [Meters -> Nat]
        /\ Use(input, output, 0, 1)["cached_tokens"] = 0
    BY <2>1 DEF Use, Meters
  <2> QED
    BY <2>2
<1>2. PICK held \in Nat : held = CustomerCost(model, use)
  BY CostsAreFair DEF PricingInv
<1> DEFINE q == [model |-> model, use |-> use, held |-> held,
                 answered |-> NoQuote, used |-> use, charge |-> 0, cost |-> 0,
                 repriced |-> FALSE]
<1>3. quote' = q /\ UNCHANGED rules
  BY <1>1, <1>2 DEF Estimate
<1>4. /\ q \in Quotes /\ q.use = use /\ q.model = model
      /\ q.held = held /\ q.answered = NoQuote
  BY DEF Quotes
<1> HIDE DEF q
<1>5. CustomerCost(model, use)' = held
  BY <1>2, <1>3, SameCost
<1>6. Estimated(q)' /\ ChargedFor(q)'
  BY <1>1, <1>4, <1>5 DEF Estimated, ChargedFor
<1> QED
  BY <1>3, <1>4, <1>6 DEF PricingInv, PricesOK

LEMMA ChargeKeeps ==
    ASSUME PricingInv, NEW model \in PricedModels, NEW input \in Quantities,
           NEW output \in Quantities, NEW cached \in Quantities,
           Charge(model, input, output, cached)
    PROVE  PricingInv'
<1>1. PICK q \in Quotes : q = quote /\ Estimated(q)
  BY DEF PricingInv, Charge
<1>2. PICK used \in [Meters -> Nat] :
        used = Use(input, output, cached, 0) /\ used["invoke"] = 0
  BY UseIsUse, PricingOK
<1>3. PICK c \in Nat, p \in Nat :
        c = CustomerCost(model, used) /\ p = ProviderCost(model, used) /\ p <= c
  BY CostsAreFair DEF PricingInv
<1>4. PICK l \in Nat : l = Listed(model, used)
  <2>1. ListPrice[model] \in Nat /\ Unit \in Nat \ {0}
    BY PricingOK
  <2>2. PICK a \in Nat, b \in Nat : a = used["input_tokens"] /\ b = used["output_tokens"]
    BY DEF Meters
  <2>3. PICK n \in Nat : n = ListPrice[model] * (a + b)
    BY <2>1
  <2> QED
    BY <2>1, <2>2, <2>3, RoundedUp DEF Listed
<1>5. PICK charge \in Nat, cost \in Nat :
        /\ charge = (IF c <= 0 THEN l ELSE c)
        /\ cost = (IF c <= 0 THEN l ELSE p)
        /\ cost <= charge
        /\ c > 0 => charge = c
  BY <1>3
<1> DEFINE r == [q EXCEPT !.answered = model, !.used = used, !.charge = charge, !.cost = cost]
<1>6. quote' = r /\ UNCHANGED rules
  BY <1>1, <1>2, <1>3, <1>4, <1>5 DEF Charge
<1>7. /\ r \in Quotes /\ r.use = q.use /\ r.model = q.model /\ r.held = q.held
      /\ r.repriced = q.repriced /\ r.answered = model /\ r.used = used
      /\ r.charge = charge /\ r.cost = cost
  BY DEF Quotes
<1> HIDE DEF r
<1>8. CustomerCost(model, used)' = c
  BY <1>3, <1>6, SameCost
<1>9. CustomerCost(q.model, q.use)' = CustomerCost(q.model, q.use)
  BY <1>6, SameCost
<1>10. Estimated(r)'
  BY <1>1, <1>7, <1>9 DEF Estimated
<1>11. ChargedFor(r)'
  BY <1>2, <1>5, <1>7, <1>8 DEF ChargedFor
<1> QED
  BY <1>6, <1>7, <1>10, <1>11 DEF PricingInv, PricesOK

LEMMA PricingSteps ==
    ASSUME PricingInv, [PricingNext]_pricingVars PROVE PricingInv'
<1>1. CASE Seed
  BY <1>1, SeedKeeps
<1>2. CASE Forget
  BY <1>2 DEF Forget, PricingInv, PricesOK
<1>3. ASSUME NEW rule \in rules, NEW rate \in NewRates, Supersede(rule, rate)
      PROVE  PricingInv'
  BY <1>3, SupersedeKeeps
<1>4. ASSUME NEW model \in PricedModels, NEW input \in Quantities, NEW output \in Quantities,
             Estimate(model, input, output)
      PROVE  PricingInv'
  BY <1>4, EstimateKeeps
<1>5. ASSUME NEW model \in PricedModels, NEW input \in Quantities, NEW output \in Quantities,
             NEW cached \in Quantities, Charge(model, input, output, cached)
      PROVE  PricingInv'
  BY <1>5, ChargeKeeps
<1>6. CASE UNCHANGED pricingVars
  <2>1. UNCHANGED rules /\ UNCHANGED quote
    BY <1>6 DEF pricingVars
  <2>2. ASSUME quote # NoQuote PROVE quote' \in Quotes /\ Estimated(quote)' /\ ChargedFor(quote)'
    <3>1. PICK q \in Quotes : q = quote /\ Estimated(q) /\ ChargedFor(q)
      BY <2>2 DEF PricingInv
    <3>2. /\ CustomerCost(q.model, q.use)' = CustomerCost(q.model, q.use)
          /\ CustomerCost(q.answered, q.used)' = CustomerCost(q.answered, q.used)
      BY <2>1, SameCost
    <3>3. Estimated(q)' /\ ChargedFor(q)'
      BY <3>1, <3>2 DEF Estimated, ChargedFor
    <3> QED
      BY <2>1, <3>1, <3>3
  <2> QED
    BY <2>1, <2>2 DEF PricingInv, PricesOK
<1> QED
  BY <1>1, <1>2, <1>3, <1>4, <1>5, <1>6 DEF PricingNext

\* A charge covers its cost with the markup, exceeds it by less than the
\* rounding of its meters, and settles within what was held for a request
\* that used no more than was estimated (settle of metered_billing.py).
THEOREM ChargesAreFair == PricingSpec => []ChargeIsFair
<1>1. PricingInv => ChargeIsFair
  <2> SUFFICES ASSUME PricingInv, quote # NoQuote, quote.answered # NoQuote
               PROVE  ChargeIsFair
    BY DEF ChargeIsFair
  <2>1. PICK q \in Quotes : q = quote /\ Estimated(q) /\ ChargedFor(q)
    BY DEF PricingInv
  <2>2. /\ q.use \in [Meters -> Nat] /\ q.used \in [Meters -> Nat]
        /\ q.repriced \in BOOLEAN /\ q.answered # NoQuote
    BY <2>1 DEF Quotes
  <2>3. q.cost <= q.charge
    BY <2>1, <2>2 DEF ChargedFor
  <2>4. ASSUME ~ q.repriced, CustomerCost(q.answered, q.used) > 0
        PROVE  /\ q.charge * Unit * Parts >= Exact(q.answered, q.used)
               /\ q.charge * Unit * Parts < Exact(q.answered, q.used) + Slack(q.answered, q.used)
    <3>1. q.charge = CustomerCost(q.answered, q.used)
      BY <2>1, <2>2, <2>4 DEF ChargedFor
    <3>2. PricesOK
      BY DEF PricingInv
    <3>3. PICK c \in Nat, x \in Nat, s \in Nat :
            /\ c = CustomerCost(q.answered, q.used)
            /\ x = Exact(q.answered, q.used) /\ s = Slack(q.answered, q.used)
            /\ x <= c * Unit * Parts
            /\ c > 0 => c * Unit * Parts < x + s
      BY <2>2, <3>2, CostsAreFair
    <3>4. c * Unit * Parts \in Nat
      BY PricingOK
    <3> QED
      BY <2>4, <3>1, <3>3, <3>4
  <2>5. ASSUME ~ q.repriced, q.answered = q.model, CustomerCost(q.answered, q.used) > 0,
               q.used["input_tokens"] <= q.use["input_tokens"],
               q.used["output_tokens"] <= q.use["output_tokens"],
               q.used["cached_tokens"] = 0
        PROVE  q.charge <= q.held
    <3>1. q.charge = CustomerCost(q.answered, q.used) /\ q.used["invoke"] = 0
      BY <2>1, <2>2, <2>5 DEF ChargedFor
    <3>2. q.held = CustomerCost(q.answered, q.use) /\ q.use["cached_tokens"] = 0
      BY <2>1, <2>5 DEF Estimated
    <3>3. \A m \in Meters : q.used[m] <= q.use[m]
      <4>1. q.use["invoke"] \in Nat
        BY <2>2 DEF Meters
      <4> QED
        BY <2>5, <3>1, <3>2, <4>1 DEF Meters
    <3>4. CustomerCost(q.answered, q.used) <= CustomerCost(q.answered, q.use)
      BY <2>2, <3>3, CostGrows DEF PricingInv
    <3> QED
      BY <3>1, <3>2, <3>4
  <2> QED
    BY <2>1, <2>3, <2>4, <2>5 DEF ChargeIsFair
<1> QED
  BY <1>1, PricingStarts, PricingSteps, PTL DEF PricingSpec
=============================================================================
