---------------------------- MODULE RuntimeBuild ----------------------------
(***************************************************************************)
(* The build of one runtime: the API requests that queue, cancel and       *)
(* delete it (app/services/runtimes.py), the Celery task with its Redis    *)
(* lock (app/tasks/runtimes.py) and the twelve stages of the worker        *)
(* (app/workers/runtime_worker.py).                                        *)
(*                                                                         *)
(* A worker works on a Runtime object it loaded once; the session keeps    *)
(* it (expire_on_commit=False), so no later commit of anybody else is      *)
(* seen, and every stage writes its own status over the row.  Celery       *)
(* acknowledges a message when the task ends (acks_late) and delivers it   *)
(* again when the worker is lost or the visibility timeout is over.        *)
(***************************************************************************)
EXTENDS Integers, FiniteSets

CONSTANTS
    Workers,      \* worker processes; each runs one build attempt at a time
    MaxRequests,  \* bound: builds requested and deliveries repeated
    Scenarios,    \* the sets of hazards a behaviour may be exposed to
    Dead,         \* a lock token whose owner no longer runs
    None          \* the lock is free

(***************************************************************************)
(*  "crash"       an API or worker process may die                         *)
(*  "redis_down"  a Redis command may fail, its effect done or not         *)
(*  "slow"        a build may take longer than the TTL of the lock and     *)
(*                the visibility timeout of the broker (3600 s both)       *)
(***************************************************************************)
HazardKinds == {"crash", "redis_down", "slow"}

ASSUME ConstantsOK ==
    /\ MaxRequests \in Nat
    /\ Scenarios \subseteq SUBSET HazardKinds
    /\ Dead # None
    /\ {Dead, None} \cap Workers = {}

VARIABLES
    hazards,    \* what this behaviour is exposed to; never changes
    status,     \* Runtime.status; "gone" once the row is deleted
    apiKey,     \* whether Runtime.api_key_id is set
    chunks,     \* RuntimeBuildChunk rows, one record for those of a build
    requests,   \* builds requested and deliveries repeated so far
    sending,    \* requests between their commit and the .delay()
    queued,     \* messages waiting in the broker
    lock,       \* value of the Redis key runtime:build:<id>
    dropped,    \* auxiliary: a message was answered with already_running
    pc,         \* the stage each worker is in
    locked,     \* whether it will release the lock (redis_available)
    again,      \* whether the broker has delivered its message once more
    loaded,     \* builds whose chunks it read and is embedding
    vectors     \* builds whose vectors it has in memory

row     == <<status, apiKey, chunks>>
broker  == <<requests, sending, queued, dropped>>
attempt == <<pc, locked, again, loaded, vectors>>
vars    == <<hazards, row, broker, lock, attempt>>

-----------------------------------------------------------------------------
\* The stages that write a status, and the status each leaves behind.
StatusAfter ==
    [collect_sources     |-> "validating",
     validate_sources    |-> "discovering",
     discover_resources  |-> "extracting",
     extract_documents   |-> "cleaning",
     normalize_documents |-> "chunking",
     build_runtime       |-> "provisioning"]

\* RUNTIME_STAGES; "embed" is the second half of generate_embeddings.
NextStage ==
    [collect_sources     |-> "validate_sources",
     validate_sources    |-> "discover_resources",
     discover_resources  |-> "extract_documents",
     extract_documents   |-> "normalize_documents",
     normalize_documents |-> "clean_documents",
     clean_documents     |-> "chunk_documents",
     chunk_documents     |-> "generate_embeddings",
     generate_embeddings |-> "embed",
     embed               |-> "store_embeddings",
     store_embeddings    |-> "build_runtime",
     build_runtime       |-> "generate_api_key",
     generate_api_key    |-> "activate_runtime",
     activate_runtime    |-> "ready"]

Stages == DOMAIN NextStage \cup {"ready", "notify"}
PCs    == Stages \cup {"idle", "start", "finish"}

InProgress == {"building", "indexing"}
                  \cup {StatusAfter[s] : s \in DOMAIN StatusAfter}
Statuses   == InProgress \cup {"queued", "awaiting", "active", "failed", "cancelled", "gone"}

\* `document` is FALSE once the document of the chunk is deleted.
Chunks == [build: Workers, document: BOOLEAN, embedded: BOOLEAN, indexed: BOOLEAN]

Running(w) == pc[w] # "idle"
Exposed(h) == h \in hazards
Exists     == status # "gone"

Goto(w, label) == pc' = [pc EXCEPT ![w] = label]

Init ==
    /\ hazards \in Scenarios
    /\ status = "queued" /\ apiKey = FALSE /\ chunks = {}
    /\ requests = 0 /\ sending = 0 /\ queued = 0 /\ dropped = FALSE
    /\ lock = None
    /\ pc = [w \in Workers |-> "idle"]
    /\ locked = [w \in Workers |-> FALSE]
    /\ again = [w \in Workers |-> FALSE]
    /\ loaded = [w \in Workers |-> {}]
    /\ vectors = [w \in Workers |-> {}]

-----------------------------------------------------------------------------
(* Requests.                                                               *)

\* enqueue_build stops short when the runtime lacks a project, credentials,
\* connections or documents.
EnqueueAwaits ==
    /\ Exists /\ requests < MaxRequests
    /\ status' = "awaiting"
    /\ requests' = requests + 1
    /\ UNCHANGED <<hazards, apiKey, chunks, sending, queued, dropped, lock, attempt>>

\* The status is committed before the task is sent.
Enqueue ==
    /\ Exists /\ requests < MaxRequests
    /\ status' = "building"
    /\ requests' = requests + 1
    /\ sending' = sending + 1
    /\ UNCHANGED <<hazards, apiKey, chunks, queued, dropped, lock, attempt>>

Send ==
    /\ sending > 0
    /\ sending' = sending - 1
    /\ queued' = queued + 1
    /\ UNCHANGED <<hazards, row, requests, dropped, lock, attempt>>

\* Mutant: an error leaves the status as it is.
StatusKept == status

\* What an error writes: the row is gone, or it becomes failed.
FailedStatus == IF Exists THEN "failed" ELSE status

BrokerDown ==
    /\ sending > 0
    /\ sending' = sending - 1
    /\ status' = FailedStatus
    /\ UNCHANGED <<hazards, apiKey, chunks, requests, queued, dropped, lock, attempt>>

ApiCrash ==
    /\ Exposed("crash")
    /\ sending > 0
    /\ sending' = sending - 1
    /\ UNCHANGED <<hazards, row, requests, queued, dropped, lock, attempt>>

\* rebuild_embeddings of the runtime assistant sends the task and leaves the
\* status alone.
AssistantRebuild ==
    /\ Exists /\ requests < MaxRequests
    /\ requests' = requests + 1
    /\ queued' = queued + 1
    /\ UNCHANGED <<hazards, row, sending, dropped, lock, attempt>>

Cancel ==
    /\ Exists
    /\ status' = "cancelled"
    /\ UNCHANGED <<hazards, apiKey, chunks, broker, lock, attempt>>

\* The chunks go with the row (ON DELETE CASCADE).
Delete ==
    /\ Exists
    /\ status' = "gone"
    /\ apiKey' = FALSE
    /\ chunks' = {}
    /\ UNCHANGED <<hazards, broker, lock, attempt>>

\* Documents of the project are deleted: their chunks stay (SET NULL).
DeleteDocuments ==
    /\ \E c \in chunks : c.document
    /\ chunks' = {[c EXCEPT !.document = FALSE] : c \in chunks}
    /\ UNCHANGED <<hazards, status, apiKey, broker, lock, attempt>>

-----------------------------------------------------------------------------
(* The task and its lock.                                                  *)

\* Mutant: SET without NX.
AcquirableAlways == TRUE

Acquirable == lock = None

TakeMessage(w) ==
    /\ pc[w] = "idle"
    /\ queued > 0
    /\ queued' = queued - 1

Deliver(w) ==
    /\ TakeMessage(w)
    /\ Acquirable
    /\ lock' = w
    /\ locked' = [locked EXCEPT ![w] = TRUE]
    /\ Goto(w, "start")
    /\ UNCHANGED <<hazards, row, requests, sending, dropped, again, loaded, vectors>>

\* already_running: the task ends and its message is acknowledged.
AlreadyRunning(w) ==
    /\ TakeMessage(w)
    /\ ~ Acquirable
    /\ dropped' = TRUE
    /\ UNCHANGED <<hazards, row, requests, sending, lock, attempt>>

\* Redis fails, possibly after it has set the key: the build runs without.
DeliverUnlocked(w) ==
    /\ Exposed("redis_down")
    /\ TakeMessage(w)
    /\ lock' \in {lock, IF lock = None THEN Dead ELSE lock}
    /\ locked' = [locked EXCEPT ![w] = FALSE]
    /\ Goto(w, "start")
    /\ UNCHANGED <<hazards, row, requests, sending, dropped, again, loaded, vectors>>

\* Mutant: the key is deleted whoever holds it.
ReleasedAnyway(w) == None

\* The script that deletes the key only if it holds the token of w.
Released(w) == IF lock = w THEN None ELSE lock

\* The finally clause; the message is acknowledged.  A release that fails
\* leaves the key to its TTL.
Finish(w) ==
    /\ pc[w] = "finish"
    /\ \/ lock' = IF locked[w] THEN Released(w) ELSE lock
       \/ /\ Exposed("redis_down")
          /\ lock' = IF lock = w THEN Dead ELSE lock
    /\ Goto(w, "idle")
    /\ locked' = [locked EXCEPT ![w] = FALSE]
    /\ again' = [again EXCEPT ![w] = FALSE]
    /\ loaded' = [loaded EXCEPT ![w] = {}]
    /\ vectors' = [vectors EXCEPT ![w] = {}]
    /\ UNCHANGED <<hazards, row, broker>>

\* The process is lost: the broker requeues a message it has not yet
\* delivered again, and the lock keeps the token of the dead attempt.
Crash(w) ==
    /\ Exposed("crash")
    /\ Running(w)
    /\ lock' = IF lock = w THEN Dead ELSE lock
    /\ queued' = IF again[w] THEN queued ELSE queued + 1
    /\ Goto(w, "idle")
    /\ locked' = [locked EXCEPT ![w] = FALSE]
    /\ again' = [again EXCEPT ![w] = FALSE]
    /\ loaded' = [loaded EXCEPT ![w] = {}]
    /\ vectors' = [vectors EXCEPT ![w] = {}]
    /\ UNCHANGED <<hazards, row, requests, sending, dropped>>

\* The TTL of an abandoned lock, or of the lock of a slow build, is over.
Expires == lock = Dead \/ (lock # None /\ Exposed("slow"))

LockExpires ==
    /\ Expires
    /\ lock' = None
    /\ UNCHANGED <<hazards, row, broker, attempt>>

\* The visibility timeout of a slow build is over.
Redeliver(w) ==
    /\ Exposed("slow")
    /\ Running(w) /\ ~ again[w] /\ requests < MaxRequests
    /\ again' = [again EXCEPT ![w] = TRUE]
    /\ requests' = requests + 1
    /\ queued' = queued + 1
    /\ UNCHANGED <<hazards, row, sending, dropped, lock, pc, locked,
                   loaded, vectors>>

-----------------------------------------------------------------------------
(* RuntimeWorker.run and its stages.                                       *)

\* Load the runtime, delete its chunks, commit.  Chunks another worker is
\* embedding are gone, and so are the ids its vectors belong to.
Start(w) ==
    /\ pc[w] = "start"
    /\ \/ /\ ~ Exists
          /\ Goto(w, "finish")
          /\ UNCHANGED <<chunks, loaded, vectors>>
       \/ /\ Exists
          /\ chunks' = {}
          /\ loaded' = [v \in Workers |-> IF loaded[v] = {} THEN {} ELSE {None}]
          /\ vectors' = [v \in Workers |-> {}]
          /\ Goto(w, IF status = "cancelled" THEN "finish" ELSE "collect_sources")
    /\ UNCHANGED <<hazards, status, apiKey, broker, lock, locked, again>>

Advance(w) == Exists /\ Goto(w, NextStage[pc[w]])

StatusStage(w) ==
    /\ pc[w] \in DOMAIN StatusAfter
    /\ Advance(w)
    /\ status' = StatusAfter[pc[w]]
    /\ UNCHANGED <<hazards, apiKey, chunks, broker, lock, locked, again, loaded, vectors>>

\* clean_documents does nothing, activate_runtime writes a date.
QuietStage(w) ==
    /\ pc[w] \in {"clean_documents", "activate_runtime"}
    /\ Advance(w)
    /\ UNCHANGED <<hazards, row, broker, lock, locked, again, loaded, vectors>>

\* There may be no documents, and then there are no chunks.
ChunkDocuments(w) ==
    /\ pc[w] = "chunk_documents"
    /\ Advance(w)
    /\ \/ chunks' = chunks \cup {[build |-> w, document |-> TRUE, embedded |-> FALSE, indexed |-> FALSE]}
       \/ UNCHANGED chunks
    /\ UNCHANGED <<hazards, status, apiKey, broker, lock, locked, again, loaded, vectors>>

\* Every chunk of the runtime that is not embedded, and has a document, is
\* sent to the provider.
GenerateEmbeddings(w) ==
    /\ pc[w] = "generate_embeddings"
    /\ Advance(w)
    /\ loaded' = [loaded EXCEPT ![w] = {c.build : c \in {x \in chunks : x.document /\ ~ x.embedded}}]
    /\ UNCHANGED <<hazards, row, broker, lock, locked, again, vectors>>

Present(w) == loaded[w] \subseteq {c.build : c \in chunks}

\* The answer is flushed to the rows read before the call.
Embed(w) ==
    /\ pc[w] = "embed"
    /\ Present(w)
    /\ Advance(w)
    /\ chunks' = {IF c.build \in loaded[w] THEN [c EXCEPT !.embedded = TRUE] ELSE c : c \in chunks}
    /\ vectors' = [vectors EXCEPT ![w] = loaded[w]]
    /\ loaded' = [loaded EXCEPT ![w] = {}]
    /\ status' = "indexing"
    /\ UNCHANGED <<hazards, apiKey, broker, lock, locked, again>>

\* Mutant: chunks that are embedded already are skipped.
IndexesUnembedded(w, c) == c.build \in vectors[w] /\ ~ c.embedded

\* The chunks whose vector this worker holds.
Indexes(w, c) == c.build \in vectors[w]

StoreEmbeddings(w) ==
    /\ pc[w] = "store_embeddings"
    /\ Advance(w)
    /\ chunks' = {IF Indexes(w, c) THEN [c EXCEPT !.indexed = TRUE] ELSE c : c \in chunks}
    /\ status' = "building"
    /\ UNCHANGED <<hazards, apiKey, broker, lock, locked, again, loaded, vectors>>

GenerateApiKey(w) ==
    /\ pc[w] = "generate_api_key"
    /\ Advance(w)
    /\ apiKey' = TRUE
    /\ UNCHANGED <<hazards, status, chunks, broker, lock, locked, again, loaded, vectors>>

FinalStatus == "active"

\* The check for a cancelled runtime looks at the object loaded in Start.
Activate(w) ==
    /\ pc[w] = "ready"
    /\ Exists
    /\ status' = FinalStatus
    /\ Goto(w, "notify")
    /\ UNCHANGED <<hazards, apiKey, chunks, broker, lock, locked, again, loaded, vectors>>

\* The event and the mails that announce the runtime are sent.
Notify(w) ==
    /\ pc[w] = "notify"
    /\ Goto(w, "finish")
    /\ UNCHANGED <<hazards, row, broker, lock, locked, again, loaded, vectors>>

\* A stage or the notification raises (no credentials, a provider, database
\* or Redis error, a row that is gone): rollback, reload, status failed.
Fail(w) ==
    /\ pc[w] \in Stages \cup {"start"}
    /\ status' = FailedStatus
    /\ Goto(w, "finish")
    /\ UNCHANGED <<hazards, apiKey, chunks, broker, lock, locked, again, loaded, vectors>>

-----------------------------------------------------------------------------
Build(w) ==
    \/ Start(w) \/ StatusStage(w) \/ QuietStage(w) \/ ChunkDocuments(w)
    \/ GenerateEmbeddings(w) \/ Embed(w) \/ StoreEmbeddings(w)
    \/ GenerateApiKey(w) \/ Activate(w) \/ Notify(w) \/ Fail(w) \/ Finish(w)

Receive(w) == Deliver(w) \/ AlreadyRunning(w) \/ DeliverUnlocked(w)

Next ==
    \/ EnqueueAwaits \/ Enqueue \/ Send \/ BrokerDown \/ ApiCrash
    \/ AssistantRebuild \/ Cancel \/ Delete \/ DeleteDocuments
    \/ \E w \in Workers : Receive(w) \/ Build(w) \/ Crash(w) \/ Redeliver(w)
    \/ LockExpires

Spec == Init /\ [][Next]_vars

\* Requests send their task, Celery delivers what is queued, stages end
\* (provider and database calls have timeouts).
Fairness ==
    /\ WF_vars(Send \/ BrokerDown)
    /\ \A w \in Workers : WF_vars(Receive(w)) /\ WF_vars(Build(w))

FairSpec == Spec /\ Fairness

-----------------------------------------------------------------------------
(* Properties.                                                             *)

\* The row, the queue, the lock and the workers keep their types.
TypeOK ==
    /\ hazards \in Scenarios
    /\ status \in Statuses /\ apiKey \in BOOLEAN /\ chunks \subseteq Chunks
    /\ requests \in 0..MaxRequests /\ sending \in Nat /\ queued \in Nat
    /\ dropped \in BOOLEAN
    /\ lock \in Workers \cup {Dead, None}
    /\ pc \in [Workers -> PCs]
    /\ locked \in [Workers -> BOOLEAN] /\ again \in [Workers -> BOOLEAN]
    /\ loaded \in [Workers -> SUBSET (Workers \cup {None})]
    /\ vectors \in [Workers -> SUBSET Workers]

Reliable == ~ Exposed("redis_down") /\ ~ Exposed("slow")

\* "Build a runtime once at a time, even when a task is delivered twice":
\* true as long as Redis answers and builds end within the hour, crashes of
\* workers and redeliveries included.
OneBuildAtATime ==
    Reliable => \A v, w \in Workers : Running(v) /\ Running(w) => v = w

\* A runtime that serves requests has its key, and of no document a chunk
\* that a build left half way or that another build is still working on.
ActiveIsUsable ==
    status = "active" => /\ apiKey
                         /\ Reliable => \A c \in chunks : c.document => c.embedded /\ c.indexed

\* "A late task must never release a lock acquired by a newer build": while
\* a build runs its lock is removed by nobody but itself and the TTL.
LockIsKept ==
    [][\A w \in Workers : lock = w /\ Running(w) /\ pc'[w] = pc[w]
           => lock' = w \/ LockExpires]_vars

\* Without a crash a runtime leaves the statuses of a build, unless a
\* message was answered with already_running.
BuildEndsUnlessDropped ==
    (status \in InProgress /\ ~ Exposed("crash")) ~> (status \notin InProgress \/ dropped)
=============================================================================
