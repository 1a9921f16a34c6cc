------------------------- MODULE RuntimeBuildProofs -------------------------
(* Proofs about RuntimeBuild for every set of workers and any number of    *)
(* requests.                                                               *)
EXTENDS RuntimeBuild, TLAPS

-----------------------------------------------------------------------------
(* Types.                                                                  *)

\* The two tables of stages are closed: every stage leads to a stage, and
\* every status they write is a status of a runtime that is being built.
LEMMA StageTables ==
    /\ \A s \in DOMAIN NextStage : NextStage[s] \in PCs
    /\ \A s \in DOMAIN StatusAfter : StatusAfter[s] \in InProgress
    /\ \A s \in DOMAIN StatusAfter : StatusAfter[s] \notin {"active", "gone"}
    /\ InProgress \subseteq Statuses
BY DEF NextStage, StatusAfter, InProgress, Statuses, PCs, Stages

LEMMA TypeInit == Init => TypeOK
<1> SUFFICES ASSUME Init PROVE TypeOK
  OBVIOUS
<1>1. "queued" \in Statuses /\ "idle" \in PCs
  BY DEF Statuses, PCs
<1>2. 0 \in 0..MaxRequests
  BY ConstantsOK
<1>3. /\ pc \in [Workers -> PCs]
      /\ locked \in [Workers -> BOOLEAN] /\ again \in [Workers -> BOOLEAN]
  BY <1>1 DEF Init
<1>4. /\ loaded \in [Workers -> SUBSET (Workers \cup {None})]
      /\ vectors \in [Workers -> SUBSET Workers]
  BY DEF Init
<1> QED
  BY <1>1, <1>2, <1>3, <1>4 DEF Init, TypeOK

LEMMA RequestTypes ==
    ASSUME TypeOK,
           \/ EnqueueAwaits \/ Enqueue \/ Send \/ BrokerDown \/ ApiCrash
           \/ AssistantRebuild \/ Cancel \/ Delete \/ DeleteDocuments \/ LockExpires
    PROVE  TypeOK'
<1> USE DEF TypeOK, row, attempt, broker
<1>0. {"building", "awaiting", "cancelled", "gone", "failed"} \subseteq Statuses
  BY DEF Statuses, InProgress
<1>1. CASE EnqueueAwaits
  BY <1>0, <1>1, ConstantsOK DEF EnqueueAwaits
<1>2. CASE Enqueue
  BY <1>0, <1>2, ConstantsOK DEF Enqueue
<1>3. CASE Send
  BY <1>3 DEF Send
<1>4. CASE BrokerDown
  BY <1>0, <1>4 DEF BrokerDown, FailedStatus
<1>5. CASE ApiCrash
  BY <1>5 DEF ApiCrash
<1>6. CASE AssistantRebuild
  BY <1>6, ConstantsOK DEF AssistantRebuild
<1>7. CASE Cancel
  BY <1>0, <1>7 DEF Cancel
<1>8. CASE Delete
  BY <1>0, <1>8 DEF Delete
<1>9. CASE DeleteDocuments
  <2>1. \A c \in Chunks : [c EXCEPT !.document = FALSE] \in Chunks
    BY DEF Chunks
  <2> QED
    BY <1>9, <2>1 DEF DeleteDocuments
<1>10. CASE LockExpires
  BY <1>10 DEF LockExpires
<1> QED
  BY <1>1, <1>2, <1>3, <1>4, <1>5, <1>6, <1>7, <1>8, <1>9, <1>10

LEMMA TaskTypes ==
    ASSUME TypeOK, NEW w \in Workers,
           Receive(w) \/ Finish(w) \/ Crash(w) \/ Redeliver(w)
    PROVE  TypeOK'
<1> USE DEF TypeOK, row, attempt, broker
<1>0. {"idle", "start", "finish"} \subseteq PCs
  BY DEF PCs
<1>1. CASE Deliver(w)
  BY <1>0, <1>1 DEF Deliver, TakeMessage, Goto
<1>2. CASE AlreadyRunning(w)
  BY <1>2 DEF AlreadyRunning, TakeMessage
<1>3. CASE DeliverUnlocked(w)
  BY <1>0, <1>3 DEF DeliverUnlocked, TakeMessage, Goto
<1>4. CASE Finish(w)
  BY <1>0, <1>4 DEF Finish, Released, Goto
<1>5. CASE Crash(w)
  BY <1>0, <1>5 DEF Crash, Goto
<1>6. CASE Redeliver(w)
  BY <1>6, ConstantsOK DEF Redeliver
<1> QED
  BY <1>1, <1>2, <1>3, <1>4, <1>5, <1>6 DEF Receive

LEMMA StageTypes ==
    ASSUME TypeOK, NEW w \in Workers, Build(w), ~ Finish(w)
    PROVE  TypeOK'
<1> USE DEF TypeOK, row, attempt, broker, Goto
<1>0. /\ {"finish", "collect_sources", "notify"} \subseteq PCs
      /\ {"indexing", "building", "active", "failed"} \subseteq Statuses
  BY DEF PCs, Stages, NextStage, Statuses, InProgress
<1>a. ASSUME Advance(w), pc[w] \in DOMAIN NextStage
      PROVE  pc' \in [Workers -> PCs]
  BY <1>a, StageTables DEF Advance
<1>1. CASE Start(w)
  BY <1>0, <1>1 DEF Start
<1>2. CASE StatusStage(w)
  <2>1. pc[w] \in DOMAIN NextStage /\ StatusAfter[pc[w]] \in Statuses
    BY <1>2, StageTables DEF StatusStage, NextStage, StatusAfter
  <2> QED
    BY <1>2, <1>a, <2>1 DEF StatusStage
<1>3. CASE QuietStage(w)
  BY <1>3, <1>a DEF QuietStage, NextStage
<1>4. CASE ChunkDocuments(w)
  <2>1. [build |-> w, document |-> TRUE, embedded |-> FALSE, indexed |-> FALSE] \in Chunks
    BY DEF Chunks
  <2>2. pc' \in [Workers -> PCs]
    BY <1>4, <1>a DEF ChunkDocuments, NextStage
  <2> QED
    BY <1>4, <2>1, <2>2 DEF ChunkDocuments
<1>5. CASE GenerateEmbeddings(w)
  <2>1. {c.build : c \in {x \in chunks : x.document /\ ~ x.embedded}} \subseteq Workers
    BY DEF Chunks
  <2>2. pc' \in [Workers -> PCs]
    BY <1>5, <1>a DEF GenerateEmbeddings, NextStage
  <2> QED
    BY <1>5, <2>1, <2>2 DEF GenerateEmbeddings
<1>6. CASE Embed(w)
  <2>1. loaded[w] \subseteq Workers
    BY <1>6 DEF Embed, Present, Chunks
  <2>2. chunks' \subseteq Chunks
    BY <1>6 DEF Embed, Chunks
  <2>3. pc' \in [Workers -> PCs]
    BY <1>6, <1>a DEF Embed, NextStage
  <2> QED
    BY <1>0, <1>6, <2>1, <2>2, <2>3 DEF Embed
<1>7. CASE StoreEmbeddings(w)
  <2>1. chunks' \subseteq Chunks
    BY <1>7 DEF StoreEmbeddings, Chunks
  <2>2. pc' \in [Workers -> PCs]
    BY <1>7, <1>a DEF StoreEmbeddings, NextStage
  <2> QED
    BY <1>0, <1>7, <2>1, <2>2 DEF StoreEmbeddings
<1>8. CASE GenerateApiKey(w)
  BY <1>8, <1>a DEF GenerateApiKey, NextStage
<1>9. CASE Activate(w)
  BY <1>0, <1>9 DEF Activate, FinalStatus
<1>10. CASE Notify(w)
  BY <1>0, <1>10 DEF Notify
<1>11. CASE Fail(w)
  BY <1>0, <1>11 DEF Fail, FailedStatus
<1> QED
  BY <1>1, <1>2, <1>3, <1>4, <1>5, <1>6, <1>7, <1>8, <1>9, <1>10, <1>11 DEF Build

LEMMA TypeStep == TypeOK /\ [Next]_vars => TypeOK'
<1> SUFFICES ASSUME TypeOK, [Next]_vars PROVE TypeOK'
  OBVIOUS
<1>1. CASE UNCHANGED vars
  BY <1>1 DEF TypeOK, vars, row, broker, attempt
<1>2. ASSUME NEW w \in Workers, Receive(w) \/ Build(w) \/ Crash(w) \/ Redeliver(w)
      PROVE  TypeOK'
  BY <1>2, TaskTypes, StageTypes
<1> QED
  BY <1>1, <1>2, RequestTypes DEF Next

\* Row, queue, lock and workers stay well typed, whatever fails.
THEOREM TypeCorrect == Spec => []TypeOK
BY TypeInit, TypeStep, PTL DEF Spec

-----------------------------------------------------------------------------
(* One build at a time.                                                    *)

\* As long as Redis answers and no lock expires under a running build, who
\* runs owns the lock; it even keeps it from the grave.
LockOwned == Reliable => \A w \in Workers : Running(w) => lock = w

LEMMA LockInit == Init => LockOwned
BY DEF Init, LockOwned, Running

LEMMA LockStep == TypeOK /\ LockOwned /\ [Next]_vars => LockOwned'
<1> SUFFICES ASSUME TypeOK, LockOwned, [Next]_vars, Reliable' PROVE LockOwned'
  BY DEF LockOwned
<1>0. /\ Reliable
      /\ \A v \in Workers : pc[v] # "idle" => lock = v
      /\ pc \in [Workers -> PCs]
  <2>1. hazards' = hazards
    BY DEF Next, vars, EnqueueAwaits, Enqueue, Send, BrokerDown, ApiCrash, AssistantRebuild,
       Cancel, Delete, DeleteDocuments, Receive, Deliver, AlreadyRunning, DeliverUnlocked, Build, Start,
       StatusStage, QuietStage, ChunkDocuments, GenerateEmbeddings, Embed, StoreEmbeddings,
       GenerateApiKey, Activate, Notify, Fail, Finish, Crash, Redeliver, LockExpires
  <2>2. Reliable
    BY <2>1 DEF Reliable, Exposed
  <2> QED
    BY <2>2 DEF LockOwned, Running, TypeOK
<1>1. SUFFICES \A v \in Workers : pc'[v] # "idle" => lock' = v
  BY DEF LockOwned, Running
<1>2. CASE UNCHANGED <<lock, pc>>
  BY <1>0, <1>2
<1>3. CASE LockExpires
  BY <1>0, <1>3, ConstantsOK DEF LockExpires, Expires, Reliable, attempt
<1>4. ASSUME NEW w \in Workers, Receive(w)
      PROVE  \A v \in Workers : pc'[v] # "idle" => lock' = v
  <2>1. CASE Deliver(w)
    BY <1>0, <2>1, ConstantsOK DEF Deliver, TakeMessage, Acquirable, Goto
  <2>2. CASE AlreadyRunning(w)
    BY <1>0, <2>2 DEF AlreadyRunning, attempt
  <2>3. ~ DeliverUnlocked(w)
    BY <1>0 DEF DeliverUnlocked, Reliable
  <2> QED
    BY <1>4, <2>1, <2>2, <2>3 DEF Receive
<1>5. ASSUME NEW w \in Workers, Finish(w) \/ Crash(w)
      PROVE  \A v \in Workers : pc'[v] # "idle" => lock' = v
  <2>1. pc[w] # "idle" /\ pc' = [pc EXCEPT ![w] = "idle"]
    BY <1>5 DEF Finish, Crash, Running, Goto
  <2>2. \A v \in Workers : v # w => pc[v] = "idle"
    BY <1>0, <2>1
  <2> QED
    BY <1>0, <2>1, <2>2
<1>6. ASSUME NEW w \in Workers, Build(w), ~ Finish(w)
      PROVE  \A v \in Workers : pc'[v] # "idle" => lock' = v
  <2>1. pc[w] # "idle" /\ lock' = lock
    BY <1>6 DEF Build, Start, StatusStage, QuietStage, ChunkDocuments, GenerateEmbeddings,
       Embed, StoreEmbeddings, GenerateApiKey, Activate, Notify, Fail, StatusAfter, Stages, NextStage
  <2>2. \A v \in Workers : v # w => pc'[v] = pc[v]
    BY <1>0, <1>6 DEF Build, Start, StatusStage, QuietStage, ChunkDocuments,
       GenerateEmbeddings, Embed, StoreEmbeddings, GenerateApiKey, Activate, Notify, Fail,
       Advance, Goto
  <2> QED
    BY <1>0, <2>1, <2>2
<1>7. ASSUME NEW w \in Workers, Redeliver(w)
      PROVE  \A v \in Workers : pc'[v] # "idle" => lock' = v
  BY <1>0, <1>7 DEF Redeliver
<1> QED
  BY <1>2, <1>3, <1>4, <1>5, <1>6, <1>7
  DEF Next, vars, attempt, EnqueueAwaits, Enqueue, Send, BrokerDown, ApiCrash,
      AssistantRebuild, Cancel, Delete, DeleteDocuments

\* Builds of one runtime exclude each other, however many workers, requests,
\* redeliveries and crashes there are, as long as Redis answers in time.
THEOREM BuildsAreExclusive == Spec => []OneBuildAtATime
<1>1. LockOwned => OneBuildAtATime
  BY DEF LockOwned, OneBuildAtATime
<1> QED
  BY <1>1, TypeInit, TypeStep, LockInit, LockStep, PTL DEF Spec
-----------------------------------------------------------------------------
(* What an active runtime can rely on.                                     *)

\* The key is made two stages before the runtime becomes active, and only
\* deleting the runtime takes it away.
KeyMade ==
    /\ status = "active" => apiKey
    /\ \A w \in Workers : pc[w] \in {"activate_runtime", "ready"} /\ Exists => apiKey

Early == {"collect_sources", "validate_sources", "discover_resources",
          "extract_documents", "normalize_documents", "clean_documents",
          "chunk_documents"}
Late  == {"build_runtime", "generate_api_key", "activate_runtime", "ready"}
Whole == \A c \in chunks : c.document => c.embedded /\ c.indexed

\* How far the chunks are at each stage of the only build.
ChunkProgress ==
    \A w \in Workers :
        /\ pc[w] \in Early => chunks = {}
        /\ pc[w] = "generate_embeddings" => \A c \in chunks : ~ c.embedded
        /\ pc[w] = "embed" => \A c \in chunks : c.document => c.build \in loaded[w]
        /\ pc[w] = "store_embeddings" =>
               \A c \in chunks : c.document => c.embedded /\ c.build \in vectors[w]
        /\ pc[w] \in Late => Whole

\* The runtime is whole when it is active, and no build is past the stage
\* that gives it another status.
ActiveIsWhole ==
    status = "active" =>
        /\ Whole
        /\ \A w \in Workers : pc[w] \in {"idle", "start", "collect_sources", "notify", "finish"}

BuildInv == Reliable => ChunkProgress /\ ActiveIsWhole

Inv == TypeOK /\ LockOwned /\ KeyMade /\ BuildInv

LEMMA HazardsFixed == [Next]_vars => hazards' = hazards
BY DEF Next, vars, EnqueueAwaits, Enqueue, Send, BrokerDown, ApiCrash, AssistantRebuild,
   Cancel, Delete, DeleteDocuments, Receive, Deliver, AlreadyRunning, DeliverUnlocked, Build, Start,
   StatusStage, QuietStage, ChunkDocuments, GenerateEmbeddings, Embed, StoreEmbeddings,
   GenerateApiKey, Activate, Notify, Fail, Finish, Crash, Redeliver, LockExpires

LEMMA KeyStep == TypeOK /\ KeyMade /\ [Next]_vars => KeyMade'
<1> SUFFICES ASSUME TypeOK, KeyMade, [Next]_vars PROVE KeyMade'
  OBVIOUS
<1> USE DEF KeyMade, Exists, row, attempt
<1>0. pc \in [Workers -> PCs]
  BY DEF TypeOK
<1>1. CASE UNCHANGED vars
  BY <1>1 DEF vars
<1>2. CASE \/ EnqueueAwaits \/ Enqueue \/ Send \/ BrokerDown \/ ApiCrash
           \/ AssistantRebuild \/ Cancel \/ Delete \/ DeleteDocuments \/ LockExpires
  BY <1>2 DEF EnqueueAwaits, Enqueue, Send, BrokerDown, ApiCrash, AssistantRebuild,
     Cancel, Delete, DeleteDocuments, LockExpires, FailedStatus
<1>3. ASSUME NEW w \in Workers, Receive(w) \/ Finish(w) \/ Crash(w) \/ Redeliver(w)
      PROVE  KeyMade'
  BY <1>0, <1>3 DEF Receive, Deliver, AlreadyRunning, DeliverUnlocked, Finish, Crash,
     Redeliver, Goto
<1>4. ASSUME NEW w \in Workers, Build(w), ~ Finish(w)
      PROVE  KeyMade'
  <2>1. CASE Start(w)
    BY <1>0, <2>1 DEF Start, Goto
  <2>2. CASE StatusStage(w)
    BY <1>0, <2>2, StageTables DEF StatusStage, Advance, Goto, NextStage, StatusAfter
  <2>3. CASE QuietStage(w) \/ ChunkDocuments(w) \/ GenerateEmbeddings(w)
    BY <1>0, <2>3 DEF QuietStage, ChunkDocuments, GenerateEmbeddings, Advance, Goto, NextStage
  <2>4. CASE Embed(w) \/ StoreEmbeddings(w)
    BY <1>0, <2>4 DEF Embed, StoreEmbeddings, Advance, Goto, NextStage
  <2>5. CASE GenerateApiKey(w) \/ Activate(w)
    BY <1>0, <2>5 DEF GenerateApiKey, Activate, Advance, Goto, NextStage
  <2>6. CASE Notify(w) \/ Fail(w)
    BY <1>0, <2>6 DEF Notify, Fail, FailedStatus, Goto
  <2> QED
    BY <1>4, <2>1, <2>2, <2>3, <2>4, <2>5, <2>6 DEF Build
<1> QED
  BY <1>1, <1>2, <1>3, <1>4 DEF Next

LEMMA BuildStep == TypeOK /\ LockOwned /\ BuildInv /\ [Next]_vars => BuildInv'
<1> SUFFICES ASSUME TypeOK, LockOwned, BuildInv, [Next]_vars, Reliable'
             PROVE  (ChunkProgress /\ ActiveIsWhole)'
  BY DEF BuildInv
<1> USE DEF row, attempt, Whole, Early, Late
<1>0. /\ ChunkProgress /\ ActiveIsWhole
      /\ \A v, w \in Workers : pc[w] # "idle" /\ v # w => pc[v] = "idle"
      /\ pc \in [Workers -> PCs]
      /\ loaded \in [Workers -> SUBSET (Workers \cup {None})]
      /\ vectors \in [Workers -> SUBSET Workers]
  BY HazardsFixed DEF Reliable, Exposed, BuildInv, LockOwned, Running, TypeOK
<1>1. CASE UNCHANGED vars
  BY <1>0, <1>1 DEF vars, ChunkProgress, ActiveIsWhole
<1>2. CASE \/ EnqueueAwaits \/ Enqueue \/ Send \/ BrokerDown \/ ApiCrash
           \/ AssistantRebuild \/ Cancel \/ Delete \/ LockExpires
  BY <1>0, <1>2 DEF EnqueueAwaits, Enqueue, Send, BrokerDown, ApiCrash, AssistantRebuild,
     Cancel, Delete, LockExpires, FailedStatus, ChunkProgress, ActiveIsWhole
<1>2a. CASE DeleteDocuments
  <2>1. \A c \in Chunks : LET d == [c EXCEPT !.document = FALSE] IN
            d.document = FALSE /\ d.embedded = c.embedded
    BY DEF Chunks
  <2>2. /\ \A d \in chunks' : ~ d.document
        /\ (\A c \in chunks : ~ c.embedded) => (\A d \in chunks' : ~ d.embedded)
        /\ chunks = {} => chunks' = {}
    BY <1>2a, <2>1 DEF DeleteDocuments, TypeOK
  <2>3. UNCHANGED <<status, pc, loaded, vectors>>
    BY <1>2a DEF DeleteDocuments
  <2> QED
    BY <1>0, <2>2, <2>3 DEF ChunkProgress, ActiveIsWhole
<1>3. ASSUME NEW w \in Workers, Receive(w) \/ Redeliver(w)
      PROVE  (ChunkProgress /\ ActiveIsWhole)'
  BY <1>0, <1>3 DEF Receive, Deliver, AlreadyRunning, DeliverUnlocked, Redeliver, Goto,
     ChunkProgress, ActiveIsWhole
<1>4. ASSUME NEW w \in Workers, Finish(w) \/ Crash(w)
      PROVE  (ChunkProgress /\ ActiveIsWhole)'
  BY <1>0, <1>4 DEF Finish, Crash, Goto, ChunkProgress, ActiveIsWhole
<1>5. ASSUME NEW w \in Workers, Build(w), ~ Finish(w)
      PROVE  (ChunkProgress /\ ActiveIsWhole)'
  <2>0. /\ pc[w] # "idle"
        /\ \A v \in Workers : v # w => pc'[v] = "idle"
    <3>1. pc[w] # "idle"
      BY <1>5 DEF Build, Start, StatusStage, QuietStage, ChunkDocuments, GenerateEmbeddings,
         Embed, StoreEmbeddings, GenerateApiKey, Activate, Notify, Fail, StatusAfter, Stages, NextStage
    <3>2. \A v \in Workers : v # w => pc'[v] = pc[v]
      BY <1>0, <1>5 DEF Build, Start, StatusStage, QuietStage, ChunkDocuments,
         GenerateEmbeddings, Embed, StoreEmbeddings, GenerateApiKey, Activate, Notify, Fail,
         Advance, Goto
    <3> QED
      BY <1>0, <3>1, <3>2
  <2>1. CASE Start(w)
    BY <1>0, <2>0, <2>1 DEF Start, Goto, ChunkProgress, ActiveIsWhole
  <2>2. CASE StatusStage(w)
    <3>1. status' # "active"
      BY <2>2, StageTables DEF StatusStage
    <3>2. pc[w] \in Early \/ pc[w] = "build_runtime"
      BY <2>2 DEF StatusStage, StatusAfter
    <3>3. pc[w] \in Early => pc'[w] \in Early
      BY <1>0, <2>2, <3>2 DEF StatusStage, StatusAfter, Advance, Goto, NextStage
    <3>4. pc[w] = "build_runtime" => pc'[w] = "generate_api_key"
      BY <1>0, <2>2 DEF StatusStage, Advance, Goto, NextStage
    <3>5. UNCHANGED <<chunks, loaded, vectors>>
      BY <2>2 DEF StatusStage
    <3> QED
      BY <1>0, <2>0, <3>1, <3>2, <3>3, <3>4, <3>5 DEF ChunkProgress, ActiveIsWhole
  <2>3. CASE QuietStage(w)
    <3>1. /\ pc[w] = "clean_documents" => pc'[w] = "chunk_documents"
          /\ pc[w] = "activate_runtime" => pc'[w] = "ready"
      BY <1>0, <2>3 DEF QuietStage, Advance, Goto, NextStage
    <3> QED
      BY <1>0, <2>0, <2>3, <3>1 DEF QuietStage, ChunkProgress, ActiveIsWhole
  <2>4. CASE ChunkDocuments(w)
    <3>1. pc'[w] = "generate_embeddings"
      BY <1>0, <2>4 DEF ChunkDocuments, Advance, Goto, NextStage
    <3> QED
      BY <1>0, <2>0, <2>4, <3>1 DEF ChunkDocuments, ChunkProgress, ActiveIsWhole
  <2>5. CASE GenerateEmbeddings(w)
    <3>1. pc'[w] = "embed"
      BY <1>0, <2>5 DEF GenerateEmbeddings, Advance, Goto, NextStage
    <3> QED
      BY <1>0, <2>0, <2>5, <3>1 DEF GenerateEmbeddings, ChunkProgress, ActiveIsWhole
  <2>6. CASE Embed(w)
    <3>1. pc'[w] = "store_embeddings" /\ status' # "active"
      BY <1>0, <2>6 DEF Embed, Advance, Goto, NextStage
    <3>2. \A c \in chunks' : c.document => c.embedded /\ c.build \in vectors'[w]
      <4>1. \A c \in chunks : c.document => c.build \in loaded[w]
        BY <1>0, <2>6 DEF Embed, ChunkProgress
      <4>2. chunks' = {IF c.build \in loaded[w] THEN [c EXCEPT !.embedded = TRUE] ELSE c : c \in chunks}
        BY <2>6 DEF Embed
      <4>3. vectors'[w] = loaded[w]
        BY <1>0, <2>6 DEF Embed
      <4>4. chunks \subseteq Chunks
        BY DEF TypeOK
      <4> QED
        BY <4>1, <4>2, <4>3, <4>4 DEF Chunks
    <3> QED
      BY <1>0, <2>0, <3>1, <3>2 DEF ChunkProgress, ActiveIsWhole
  <2>7. CASE StoreEmbeddings(w)
    <3>1. pc'[w] = "build_runtime" /\ status' # "active"
      BY <1>0, <2>7 DEF StoreEmbeddings, Advance, Goto, NextStage
    <3>2. Whole'
      <4>1. \A c \in chunks : c.document => c.embedded /\ c.build \in vectors[w]
        BY <1>0, <2>7 DEF StoreEmbeddings, ChunkProgress
      <4>2. chunks' = {IF c.build \in vectors[w] THEN [c EXCEPT !.indexed = TRUE] ELSE c : c \in chunks}
        BY <2>7 DEF StoreEmbeddings, Indexes
      <4>3. chunks \subseteq Chunks
        BY DEF TypeOK
      <4> QED
        BY <4>1, <4>2, <4>3 DEF Chunks
    <3> QED
      BY <1>0, <2>0, <3>1, <3>2 DEF ChunkProgress, ActiveIsWhole
  <2>8. CASE GenerateApiKey(w)
    <3>1. pc'[w] = "activate_runtime"
      BY <1>0, <2>8 DEF GenerateApiKey, Advance, Goto, NextStage
    <3> QED
      BY <1>0, <2>0, <2>8, <3>1 DEF GenerateApiKey, ChunkProgress, ActiveIsWhole
  <2>9. CASE Activate(w)
    BY <1>0, <2>0, <2>9 DEF Activate, Goto, ChunkProgress, ActiveIsWhole
  <2>10. CASE Notify(w)
    BY <1>0, <2>0, <2>10 DEF Notify, Goto, ChunkProgress, ActiveIsWhole
  <2>11. CASE Fail(w)
    BY <1>0, <2>0, <2>11 DEF Fail, FailedStatus, Exists, Goto, ChunkProgress, ActiveIsWhole
  <2> QED
    BY <1>5, <2>1, <2>2, <2>3, <2>4, <2>5, <2>6, <2>7, <2>8, <2>9, <2>10, <2>11 DEF Build
<1> QED
  BY <1>1, <1>2, <1>2a, <1>3, <1>4, <1>5 DEF Next

LEMMA InvInit == Init => Inv
BY TypeInit, LockInit
DEF Init, Inv, KeyMade, BuildInv, ChunkProgress, ActiveIsWhole, Whole, Early, Late

\* A runtime that is active has its key and, as long as Redis answers in
\* time, only chunks that are embedded and indexed.
THEOREM ActiveRuntimesAreUsable == Spec => []ActiveIsUsable
<1>1. Inv /\ [Next]_vars => Inv'
  BY TypeStep, LockStep, KeyStep, BuildStep DEF Inv
<1>2. Inv => ActiveIsUsable
  BY DEF Inv, KeyMade, BuildInv, ActiveIsWhole, Whole, ActiveIsUsable
<1> QED
  BY InvInit, <1>1, <1>2, PTL DEF Spec

-----------------------------------------------------------------------------
(* The lock of a running build.                                            *)

\* "A late task must never release a lock acquired by a newer build": while a
\* build runs, no step of another worker takes its lock away, dead, late or
\* cut off from Redis as that worker may be; only the TTL does.
THEOREM LocksAreKept == Spec => LockIsKept
<1> DEFINE Kept == \A w \in Workers : lock = w /\ Running(w) /\ pc'[w] = pc[w]
                       => lock' = w \/ LockExpires
<1>1. TypeOK /\ [Next]_vars => [Kept]_vars
  <2> SUFFICES ASSUME TypeOK, Next, NEW w \in Workers,
                      lock = w, Running(w), pc'[w] = pc[w]
               PROVE  lock' = w \/ LockExpires
    OBVIOUS
  <2>1. lock # None
    BY ConstantsOK
  <2>2. ASSUME NEW v \in Workers, Receive(v) PROVE lock' = w
    BY <2>1, <2>2 DEF Receive, Deliver, Acquirable, AlreadyRunning, DeliverUnlocked
  <2>3. ASSUME NEW v \in Workers, Finish(v) \/ Crash(v) PROVE lock' = w
    <3>1. v # w
      BY <2>3 DEF Finish, Crash, Running, Goto, TypeOK
    <3> QED
      BY <2>3, <3>1 DEF Finish, Crash, Released
  <2>4. ASSUME NEW v \in Workers, Build(v) PROVE lock' = w
    BY <2>3, <2>4 DEF Build, Start, StatusStage, QuietStage, ChunkDocuments, GenerateEmbeddings, Embed,
       StoreEmbeddings, GenerateApiKey, Activate, Notify, Fail
  <2> QED
    BY <2>2, <2>3, <2>4 DEF Next, EnqueueAwaits, Enqueue, Send, BrokerDown, ApiCrash,
       AssistantRebuild, Cancel, Delete, DeleteDocuments, Redeliver, LockExpires
<1> QED
  BY <1>1, TypeInit, TypeStep, PTL DEF Spec, LockIsKept
=============================================================================
