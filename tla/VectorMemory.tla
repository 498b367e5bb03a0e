---------------------------- MODULE VectorMemory ----------------------------
(***************************************************************************)
(* The vector memory of one server process (src/modules/vector-db): the    *)
(* memoised connection to Qdrant, the embedding model, and the cache of    *)
(* research answers, as used by the research node, the memory-persist      *)
(* node, the vector tools and the feedback service at the same time.       *)
(*                                                                         *)
(* Time is abstracted to an order: the cache is the sequence of its        *)
(* queries, the least recently used first, and an entry runs out of its    *)
(* TTL after those before it.  Texts, vectors and scores are left out: a   *)
(* search finds something or nothing.                                      *)
(*                                                                         *)
(* A definition whose comment says "faulty variant" is not the code: it is *)
(* what the definition after it would be with a plausible bug, kept to     *)
(* show that a property tells the two apart.                               *)
(***************************************************************************)
EXTENDS Naturals, Sequences, FiniteSets

CONSTANTS
  Calls,      \* operations that can be under way at the same time
  Queries,    \* research queries, trimmed and in lower case
  NoQuery,    \* the query of any other operation
  CacheSize   \* VECTOR_CACHE_MAX_SIZE

ASSUME VectorMemoryAssumption ==
  /\ NoQuery \notin Queries
  /\ CacheSize \in Nat \ {0}
  /\ Calls \cap {"none", "ready"} = {}

VARIABLES
  collection,  \* does the collection exist in Qdrant
  dropped,     \* history: has anyone deleted it since the process started
  memo,        \* connectPromise: "none", the call that connects, or "ready"
  model,       \* pipelinePromise: the embedding model
  call,        \* the operations under way
  cache,       \* keys of vectorResearchCache, least recently used first
  expired,     \* those older than VECTOR_CACHE_TTL_MS
  lastUsed     \* history: the entry made or served last

vars == <<collection, dropped, memo, model, call, cache, expired, lastUsed>>

(* The vector_search tool goes the way of a research that is not kept.     *)
Ops == {"research", "upsert", "salience"}

(* The pc names the await an operation is at. *)
Pcs == {"idle", "ready", "wait", "list", "create", "info", "embed", "request"}

Idle == [pc |-> "idle", op |-> "research", query |-> NoQuery, on |-> "none"]

Connecting(c) == call[c].pc \in {"list", "create", "info"}

GoTo(c, pc) ==
  call' = [call EXCEPT ![c] = [pc |-> pc, op |-> @.op, query |-> @.query,
                               on |-> "none"]]

Done(c) == call' = [call EXCEPT ![c] = Idle]

Keys == {cache[i] : i \in 1..Len(cache)}

(* The order of the others; a query has one place in it at most. *)
Without(s, q) ==
  IF \E i \in DOMAIN s : s[i] = q
  THEN LET i == CHOOSE i \in DOMAIN s : s[i] = q
       IN  SubSeq(s, 1, i - 1) \o SubSeq(s, i + 1, Len(s))
  ELSE s

CacheUnchanged == UNCHANGED <<cache, expired, lastUsed>>

-----------------------------------------------------------------------------
(* How an operation begins. *)

(* Faulty variant: a hit does not touch the entry. *)
HitUntouched(c, q) ==
  /\ call[c].pc = "idle"
  /\ q \in Keys \ expired
  /\ lastUsed' = q
  /\ UNCHANGED <<collection, dropped, memo, model, call, cache, expired>>

(* buildVectorResearchContext: the answer in the cache. *)
Hit(c, q) ==
  /\ call[c].pc = "idle"
  /\ q \in Keys \ expired
  /\ cache' = Append(Without(cache, q), q)
  /\ lastUsed' = q
  /\ UNCHANGED <<collection, dropped, memo, model, call, expired>>

Miss(c, q) ==
  /\ call[c].pc = "idle"
  /\ q \in Queries \ (Keys \ expired)
  /\ call' = [call EXCEPT ![c] = [pc |-> "ready", op |-> "research",
                                  query |-> q, on |-> "none"]]
  /\ CacheUnchanged
  /\ UNCHANGED <<collection, dropped, memo, model>>

(* searchVectorMemories and updatePointSalience connect first,             *)
(* upsertVectorMemory embeds its text first.                               *)
Begin(c, op) ==
  /\ call[c].pc = "idle"
  /\ call' = [call EXCEPT ![c] =
                [pc |-> IF op = "upsert" THEN "embed" ELSE "ready",
                 op |-> op, query |-> NoQuery, on |-> "none"]]
  /\ CacheUnchanged
  /\ UNCHANGED <<collection, dropped, memo, model>>

-----------------------------------------------------------------------------
(* ensureQdrantReady and connectQdrant. *)

AfterReady(op) == IF op = "research" THEN "embed" ELSE "request"

(* Faulty variant: every call connects for itself. *)
EnsureAlways(c) ==
  /\ call[c].pc = "ready"
  /\ memo # "ready"
  /\ memo' = c
  /\ GoTo(c, "list")
  /\ CacheUnchanged
  /\ UNCHANGED <<collection, dropped, model>>

(* The first call connects, those that come meanwhile await its promise.   *)
EnsureQdrantReady(c) ==
  /\ call[c].pc = "ready"
  /\ \/ /\ memo = "ready"
        /\ GoTo(c, AfterReady(call[c].op))
        /\ memo' = memo
     \/ /\ memo = "none"
        /\ memo' = c
        /\ GoTo(c, "list")
     \/ /\ memo \in Calls
        /\ call' = [call EXCEPT ![c] = [pc |-> "wait", op |-> @.op,
                                        query |-> @.query, on |-> memo]]
        /\ memo' = memo
  /\ CacheUnchanged
  /\ UNCHANGED <<collection, dropped, model>>

(* The calls that await the promise of c. *)
Waiters(c) == {d \in Calls : call[d].pc = "wait" /\ call[d].on = c}

Connected(c) ==
  /\ memo' = "ready"
  /\ call' = [d \in Calls |->
                IF d = c \/ d \in Waiters(c)
                THEN [pc |-> AfterReady(call[d].op), op |-> call[d].op,
                      query |-> call[d].query, on |-> "none"]
                ELSE call[d]]

(* Faulty variant: only the call that connects hears of the failure. *)
ConnectFailsAlone(c) ==
  /\ Connecting(c) /\ call[c].pc # "info"
  /\ collection' \in {collection, collection \/ call[c].pc = "create"}
  /\ memo' = "none"
  /\ Done(c)
  /\ CacheUnchanged
  /\ UNCHANGED <<dropped, model>>

(* The promise is rejected and forgotten; who awaits it fails with it.  A  *)
(* failed createCollection may have had its effect.                        *)
ConnectFails(c) ==
  /\ Connecting(c) /\ call[c].pc # "info"
  /\ collection' \in {collection, collection \/ call[c].pc = "create"}
  /\ memo' = "none"
  /\ call' = [d \in Calls |-> IF d = c \/ d \in Waiters(c) THEN Idle
                              ELSE call[d]]
  /\ CacheUnchanged
  /\ UNCHANGED <<dropped, model>>

ListCollections(c) ==
  /\ call[c].pc = "list"
  /\ GoTo(c, IF collection THEN "info" ELSE "create")
  /\ CacheUnchanged
  /\ UNCHANGED <<collection, dropped, memo, model>>

(* Faulty variant: any answer of createCollection will do. *)
CreateUnchecked(c) ==
  /\ call[c].pc = "create"
  /\ collection' \in {collection, TRUE}
  /\ Connected(c)
  /\ CacheUnchanged
  /\ UNCHANGED <<dropped, model>>

(* Created, or "already exists": another instance was first. *)
CreateCollection(c) ==
  /\ call[c].pc = "create"
  /\ collection' = TRUE
  /\ Connected(c)
  /\ CacheUnchanged
  /\ UNCHANGED <<dropped, model>>

(* getCollection: its answer, and also its failure, is only logged. *)
CheckCollection(c) ==
  /\ call[c].pc = "info"
  /\ Connected(c)
  /\ CacheUnchanged
  /\ UNCHANGED <<collection, dropped, model>>

-----------------------------------------------------------------------------
(* Embedding and the request to Qdrant. *)

(* The model was loaded by warmUpEmbeddings; a failed load stays failed.   *)
ModelLoads ==
  /\ model = "loading"
  /\ model' \in {"loaded", "failed"}
  /\ CacheUnchanged
  /\ UNCHANGED <<collection, dropped, memo, call>>

AfterEmbed(op) == IF op = "upsert" THEN "ready" ELSE "request"

Embed(c) ==
  /\ call[c].pc = "embed"
  /\ model # "loading"
  /\ \/ model = "loaded" /\ GoTo(c, AfterEmbed(call[c].op))
     \/ Done(c)   \* no model, a wrong dimension, or nothing to embed
  /\ CacheUnchanged
  /\ UNCHANGED <<collection, dropped, memo, model>>

(* A full cache loses its least recently used entry, also when the query   *)
(* already has one.                                                        *)
Kept == IF Len(cache) >= CacheSize THEN Tail(cache) ELSE cache

(* Faulty variant: searches that end together each add an entry. *)
RememberTwice(q) ==
  /\ cache' = Append(Kept, q)
  /\ expired' = {k \in expired \ {q} : \E i \in 1..Len(Kept) : Kept[i] = k}
  /\ lastUsed' = q

Remember(q) ==
  /\ cache' = Append(Without(Kept, q), q)
  /\ expired' = {k \in expired \ {q} : \E i \in 1..Len(Kept) : Kept[i] = k}
  /\ lastUsed' = q

(* search, upsert or setPayload; a research that found something keeps it. *)
Request(c) ==
  /\ call[c].pc = "request"
  /\ Done(c)
  /\ \/ call[c].op = "research" /\ collection /\ Remember(call[c].query)
     \/ CacheUnchanged
  /\ UNCHANGED <<collection, dropped, memo, model>>

-----------------------------------------------------------------------------
(* What happens around the calls. *)

Expire ==
  /\ \E i \in 1..Len(cache) :
       /\ cache[i] \notin expired
       /\ \A j \in 1..(i - 1) : cache[j] \in expired
       /\ expired' = expired \cup {cache[i]}
  /\ UNCHANGED <<collection, dropped, memo, model, call, cache, lastUsed>>

(* Another instance of the server creates the collection, or an operator   *)
(* deletes it (as the size warning of connectQdrant asks for).             *)
OthersCreate ==
  /\ ~collection
  /\ collection' = TRUE
  /\ CacheUnchanged
  /\ UNCHANGED <<dropped, memo, model, call>>

OthersDrop ==
  /\ collection
  /\ collection' = FALSE
  /\ dropped' = TRUE
  /\ CacheUnchanged
  /\ UNCHANGED <<memo, model, call>>

(* The process stops, and starts again with onModuleInit, whose own        *)
(* connectQdrant creates the collection or fails.                          *)
Restart ==
  /\ collection' \in {collection, TRUE}
  /\ dropped' = FALSE
  /\ memo' = "none"
  /\ model' = "loading"
  /\ call' = [c \in Calls |-> Idle]
  /\ cache' = <<>> /\ expired' = {} /\ lastUsed' = NoQuery

Init ==
  /\ collection \in BOOLEAN
  /\ dropped = FALSE
  /\ memo = "none"
  /\ model = "loading"
  /\ call = [c \in Calls |-> Idle]
  /\ cache = <<>> /\ expired = {} /\ lastUsed = NoQuery

Work(c) ==
  \/ EnsureQdrantReady(c) \/ ConnectFails(c) \/ ListCollections(c)
  \/ CreateCollection(c) \/ CheckCollection(c)
  \/ Embed(c) \/ Request(c)

Arrive(c) ==
  \/ \E q \in Queries : Hit(c, q) \/ Miss(c, q)
  \/ \E op \in Ops \ {"research"} : Begin(c, op)

Next ==
  \/ \E c \in Calls : Arrive(c) \/ Work(c)
  \/ ModelLoads \/ Expire \/ OthersCreate \/ OthersDrop \/ Restart

Spec == Init /\ [][Next]_vars

(* Every request to Qdrant is answered or times out in its client, and the *)
(* model loads or fails to.                                                *)
FairSpec ==
  /\ Spec
  /\ \A c \in Calls : WF_vars(Work(c))
  /\ WF_vars(ModelLoads)

-----------------------------------------------------------------------------
(* Properties. *)

(* Operations, the memo and the cache keep their types; no query has two   *)
(* entries, and searches that end together never push the cache over its   *)
(* size (vector-memory.util.ts, qdrant.provider.ts).                       *)
TypeOK ==
  /\ collection \in BOOLEAN /\ dropped \in BOOLEAN
  /\ memo \in Calls \cup {"none", "ready"}
  /\ model \in {"loading", "loaded", "failed"}
  /\ call \in [Calls -> [pc : Pcs, op : Ops, query : Queries \cup {NoQuery},
                         on : Calls \cup {"none"}]]
  /\ cache \in Seq(Queries) /\ Len(cache) <= CacheSize
  /\ \A i, j \in 1..Len(cache) : cache[i] = cache[j] => i = j
  /\ expired \subseteq Keys
  /\ lastUsed \in Queries \cup {NoQuery}

(* ensureQdrantReady: however many operations come at once and however     *)
(* often connecting fails, the process connects once at a time, and the    *)
(* memo is the call that does.                                             *)
OneConnect ==
  \A c \in Calls : Connecting(c) <=> memo = c

(* An operation reaches the point of its request only with the collection  *)
(* there, even if it awaited the connection of another operation, or       *)
(* another instance created the collection at the same moment.             *)
RequestsHaveCollection ==
  \A c \in Calls :
    call[c].pc = "request" /\ ~dropped => collection

(* The research cache is an LRU cache (docs/LAYOUT.md:193): the answer     *)
(* that was used last is not the next to go.                               *)
LastUsedStays ==
  [][CacheSize > 1 /\ lastUsed # NoQuery /\ lastUsed' # NoQuery =>
       \E i \in 1..Len(cache') : cache'[i] = lastUsed]_vars

(* Every operation ends: none awaits for ever a connection that has failed *)
(* or that nobody is making.                                               *)
CallsEnd == \A c \in Calls : call[c].pc # "idle" ~> call[c].pc = "idle"
=============================================================================
