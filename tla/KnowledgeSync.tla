--------------------------- MODULE KnowledgeSync ---------------------------
(***************************************************************************)
(* Synchronizing the knowledge of a project (services/knowledge.py) by     *)
(* hand and on schedule (services/scheduler.py), and the rebuild of its    *)
(* runtime that follows.                                                   *)
(*                                                                         *)
(* A tick of run_scheduled_syncs reads which schedules are due and then    *)
(* synchronizes one source after the other; it advances a schedule after   *)
(* the sync, with the next commit of its session.  Nothing stops a second  *)
(* tick, a user or a cancellation in between.                              *)
(***************************************************************************)
EXTENDS Naturals, FiniteSets

CONSTANTS
    Syncers,        \* ticks and requests that may be under way
    Sources,        \* knowledge sources of one project
    MaxClock,       \* bound: time, in periods of a schedule
    SyncScenarios,  \* the sets of hazards a behaviour may be exposed to
    Nobody          \* no sync, no job

(***************************************************************************)
(*  "cancel"   users cancel sync jobs                                      *)
(*  "death"    a process dies or its database fails                        *)
(*  "overlap"  ticks and requests run at the same time                     *)
(*  "slow"     the runtime is built while sources are synchronized         *)
(***************************************************************************)
SyncHazards == {"cancel", "death", "overlap", "slow"}

ASSUME KnowledgeSyncOK ==
    /\ SyncScenarios \subseteq SUBSET SyncHazards
    /\ MaxClock \in Nat

JobStatuses == {"running", "completed", "failed", "cancelled"}
Standings   == {"pending", "syncing", "completed", "failed"}
Stages      == {"pick", "begin", "crawl", "trigger"}

\* A tick or a request that is under way.
SyncRecords ==
    [at: Stages, tick: BOOLEAN, now: 0 .. MaxClock, todo: SUBSET Sources, done: SUBSET Sources,
     source: Sources \cup {Nobody}, was: Standings \cup {Nobody}, began: 0 .. MaxClock]

ASSUME NobodyOK == Nobody \notin SyncRecords

VARIABLES
    exposed,    \* what this behaviour is exposed to; never changes
    clock,
    nextRun,    \* next_run_at of the schedule of each source
    standing,   \* status of each source
    jobs,       \* the latest sync job of each source, and who runs it
    built,      \* the runtime of the project
    syncs,      \* what each tick or request is doing, Nobody in between
    fetched     \* auxiliary: the latest sync of each source began then

syncVars == <<exposed, clock, nextRun, standing, jobs, built, syncs, fetched>>

\* A runtime is stale while it lacks what a completed sync fetched; read once
\* its build has read the documents.
Runtimes == [status: {"active", "building", "failed"}, read: BOOLEAN, stale: BOOLEAN]

SyncInit ==
    /\ exposed \in SyncScenarios
    /\ clock = 0
    /\ nextRun = [s \in Sources |-> 1]
    /\ standing = [s \in Sources |-> "pending"]
    /\ jobs = [s \in Sources |-> [status |-> Nobody, by |-> Nobody]]
    /\ built = [status |-> "active", read |-> FALSE, stale |-> FALSE]
    /\ syncs = [p \in Syncers |-> Nobody]
    /\ fetched = [s \in Sources |-> 0]

Due(s)      == nextRun[s] <= clock
InSync(p)   == syncs[p] # Nobody
Quiet       == \A p \in Syncers : ~ InSync(p)
Doing(p, a) == InSync(p) /\ syncs[p].at = a

MayBegin(p) ==
    /\ ~ InSync(p)
    /\ Quiet \/ "overlap" \in exposed
    /\ built.status # "building" \/ "slow" \in exposed

-----------------------------------------------------------------------------
(* Starting.                                                               *)

\* A tick of run_pending: what is due now is decided once.
StartTick(p) ==
    /\ MayBegin(p)
    /\ \E s \in Sources : Due(s)
    /\ syncs' = [syncs EXCEPT ![p] =
                    [at |-> "pick", tick |-> TRUE, now |-> clock, todo |-> {s \in Sources : Due(s)},
                     done |-> {}, source |-> Nobody, was |-> Nobody, began |-> 0]]
    /\ UNCHANGED <<exposed, clock, nextRun, standing, jobs, built, fetched>>

\* POST /knowledge/sources/{id}/sync and priority_sync.
StartSync(p, s) ==
    /\ MayBegin(p)
    /\ syncs' = [syncs EXCEPT ![p] =
                    [at |-> "begin", tick |-> FALSE, now |-> 0, todo |-> {}, done |-> {},
                     source |-> s, was |-> standing[s], began |-> 0]]
    /\ UNCHANGED <<exposed, clock, nextRun, standing, jobs, built, fetched>>

Pick(p, s) ==
    /\ Doing(p, "pick")
    /\ s \in syncs[p].todo
    /\ syncs' = [syncs EXCEPT ![p] = [@ EXCEPT
                    !.at = "begin", !.todo = syncs[p].todo \ {s},
                    !.source = s, !.was = standing[s]]]
    /\ UNCHANGED <<exposed, clock, nextRun, standing, jobs, built, fetched>>

-----------------------------------------------------------------------------
(* Committing.                                                             *)

\* Any commit of a tick writes the schedules it has advanced so far.
Advanced(p) ==
    [s \in Sources |-> IF s \in syncs[p].done THEN syncs[p].now + 1 ELSE nextRun[s]]

\* A status is written if it differs from the one that was loaded.
Written(p, new) ==
    [standing EXCEPT ![syncs[p].source] = IF syncs[p].was = new THEN @ ELSE new]

Begin(p) ==
    /\ Doing(p, "begin")
    /\ jobs' = [jobs EXCEPT ![syncs[p].source] = [status |-> "running", by |-> p]]
    /\ standing' = Written(p, "syncing")
    /\ nextRun' = Advanced(p)
    /\ syncs' = [syncs EXCEPT ![p] = [@ EXCEPT
                    !.at = "crawl", !.was = "syncing", !.done = {}, !.began = clock]]
    /\ UNCHANGED <<exposed, clock, built, fetched>>

\* The job of this sync ends, cancelled or not; a later job of the source is
\* another row.
JobAfter(p, outcome) ==
    [jobs EXCEPT ![syncs[p].source] =
        IF @.by = p THEN [status |-> outcome, by |-> Nobody] ELSE @]

\* Mutant: the source keeps the error of an earlier sync.
StandingAfterKept(p, outcome) == IF outcome = "completed" THEN standing ELSE Written(p, outcome)

StandingAfter(p, outcome) == Written(p, outcome)

\* Job, source and documents are committed together.
Crawled(p) ==
    /\ Doing(p, "crawl")
    /\ jobs' = JobAfter(p, "completed")
    /\ fetched' = [fetched EXCEPT ![syncs[p].source] =
                      IF syncs[p].began > @ THEN syncs[p].began ELSE @]
    /\ standing' = StandingAfter(p, "completed")
    /\ built' = [built EXCEPT !.stale = TRUE]
    /\ syncs' = [syncs EXCEPT ![p] = [@ EXCEPT !.at = "trigger", !.was = Nobody, !.began = 0]]
    /\ UNCHANGED <<exposed, clock, nextRun>>

\* Mutant: a schedule advances although its sync failed.
NextSourceAdvanced(p) ==
    [syncs[p] EXCEPT !.at = "pick", !.done = @ \cup {syncs[p].source},
                     !.source = Nobody, !.was = Nobody, !.began = 0]

\* run_pending goes on with the other sources; the schedule stays due.
NextSource(p) ==
    [syncs[p] EXCEPT !.at = "pick", !.source = Nobody, !.was = Nobody, !.began = 0]

CrawlFails(p) ==
    /\ Doing(p, "crawl")
    /\ jobs' = JobAfter(p, "failed")
    /\ standing' = StandingAfter(p, "failed")
    /\ syncs' = [syncs EXCEPT ![p] = IF @.tick THEN NextSource(p) ELSE Nobody]
    /\ UNCHANGED <<exposed, clock, nextRun, built, fetched>>

\* Mutant: include_active is forgotten.
RebuildableFew == {"failed"}

\* _maybe_trigger_runtime with include_active: never while it is built.
Rebuildable == {"active", "failed"}

Trigger(p) ==
    /\ Doing(p, "trigger")
    /\ built' = IF built.status \in Rebuildable
                THEN [built EXCEPT !.status = "building"]
                ELSE built
    /\ syncs' = [syncs EXCEPT ![p] =
                    IF @.tick
                    THEN [NextSource(p) EXCEPT !.done = @ \cup {syncs[p].source}]
                    ELSE Nobody]
    /\ UNCHANGED <<exposed, clock, nextRun, standing, jobs, fetched>>

\* Mutant: the last commit of a tick is missing.
EndTickLost(p) ==
    /\ Doing(p, "pick")
    /\ syncs[p].todo = {}
    /\ syncs' = [syncs EXCEPT ![p] = Nobody]
    /\ UNCHANGED <<exposed, clock, nextRun, standing, jobs, built, fetched>>

EndTick(p) ==
    /\ Doing(p, "pick")
    /\ syncs[p].todo = {}
    /\ nextRun' = Advanced(p)
    /\ syncs' = [syncs EXCEPT ![p] = Nobody]
    /\ UNCHANGED <<exposed, clock, standing, jobs, built, fetched>>

-----------------------------------------------------------------------------
(* Around a sync.                                                          *)

\* cancel_sync looks at no status, and no sync looks at its job.
CancelSync(s) ==
    /\ "cancel" \in exposed
    /\ jobs[s].status \notin {Nobody, "cancelled"}
    /\ jobs' = [jobs EXCEPT ![s].status = "cancelled"]
    /\ UNCHANGED <<exposed, clock, nextRun, standing, built, syncs, fetched>>

Die(p) ==
    /\ "death" \in exposed
    /\ InSync(p)
    /\ syncs' = [syncs EXCEPT ![p] = Nobody]
    /\ UNCHANGED <<exposed, clock, nextRun, standing, jobs, built, fetched>>

\* The worker that builds the runtime reads the documents at some point.
ReadDocuments ==
    /\ built.status = "building" /\ ~ built.read
    /\ Quiet \/ "slow" \in exposed
    /\ built' = [built EXCEPT !.read = TRUE, !.stale = FALSE]
    /\ UNCHANGED <<exposed, clock, nextRun, standing, jobs, syncs, fetched>>

BuildEnds ==
    /\ built.read
    /\ built' = [built EXCEPT !.status = "active", !.read = FALSE]
    /\ UNCHANGED <<exposed, clock, nextRun, standing, jobs, syncs, fetched>>

BuildFails ==
    /\ built.status = "building"
    /\ built' = [status |-> "failed", read |-> FALSE, stale |-> TRUE]
    /\ UNCHANGED <<exposed, clock, nextRun, standing, jobs, syncs, fetched>>

Elapse ==
    /\ clock < MaxClock
    /\ clock' = clock + 1
    /\ UNCHANGED <<exposed, nextRun, standing, jobs, built, syncs, fetched>>

SyncStep(p) ==
    \/ \E s \in Sources : Pick(p, s)
    \/ Begin(p) \/ Crawled(p) \/ CrawlFails(p) \/ Trigger(p) \/ EndTick(p)

SyncNext ==
    \/ \E p \in Syncers :
        \/ StartTick(p) \/ SyncStep(p) \/ Die(p)
        \/ \E s \in Sources : StartSync(p, s)
    \/ \E s \in Sources : CancelSync(s)
    \/ ReadDocuments \/ BuildEnds \/ BuildFails \/ Elapse

\* The beat ticks on, syncs and builds go on, and the sources can be read in
\* the end.
SyncFairness ==
    /\ \A p \in Syncers : WF_syncVars(SyncStep(p))
    /\ \A p \in Syncers : SF_syncVars(StartTick(p))
    /\ WF_syncVars(ReadDocuments \/ BuildEnds)
    /\ <>[][\A p \in Syncers : ~ CrawlFails(p) /\ ~ Die(p)]_syncVars

-----------------------------------------------------------------------------
(* Properties.                                                             *)

\* Sources, jobs, schedules and ticks keep their types.
SyncTypeOK ==
    /\ exposed \in SyncScenarios
    /\ clock \in 0 .. MaxClock
    /\ nextRun \in [Sources -> 1 .. MaxClock + 1]
    /\ standing \in [Sources -> Standings]
    /\ jobs \in [Sources -> [status: JobStatuses \cup {Nobody}, by: Syncers \cup {Nobody}]]
    /\ built \in Runtimes
    /\ fetched \in [Sources -> 0 .. MaxClock]

\* Without overlap, a source that nobody synchronizes shows how its latest
\* job ended, and that it never ended if its process died; only a cancelled
\* job tells nothing.
SourceTellsLastSync ==
    "overlap" \notin exposed /\ Quiet =>
        \A s \in Sources :
            LET job == jobs[s].status IN
            job \notin {Nobody, "cancelled"} =>
                standing[s] = IF job = "running" THEN "syncing" ELSE job

\* A schedule moves on from an occurrence only when the source was fetched
\* after it was due, whatever overlaps, fails or dies.
NoOccurrenceSkipped ==
    [][\A s \in Sources : nextRun'[s] > nextRun[s] => fetched[s] >= nextRun[s]]_syncVars

\* Once all is quiet, an active runtime knows what was fetched, unless a sync
\* died before it could ask for a build, or ended while one was going on that
\* had read the documents.
RuntimeHasSyncs ==
    exposed \cap {"death", "slow"} = {} /\ Quiet /\ built.status = "active" => ~ built.stale

\* When a source is due, all that are due are synchronized in the end.
DueIsSynced == (\E s \in Sources : Due(s)) ~> \A s \in Sources : ~ Due(s)
=============================================================================
