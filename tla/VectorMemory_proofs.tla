------------------------ MODULE VectorMemory_proofs ------------------------
(***************************************************************************)
(* Proofs about the connection to Qdrant, for any number of operations:    *)
(* the process connects once at a time, and whoever gets as far as its     *)
(* request finds the collection.                                           *)
(***************************************************************************)
EXTENDS VectorMemory, SequenceTheorems, TLAPS

CallType == [pc : Pcs, op : Ops, query : Queries \cup {NoQuery},
             on : Calls \cup {"none"}]

Typed ==
  /\ collection \in BOOLEAN /\ dropped \in BOOLEAN
  /\ memo \in Calls \cup {"none", "ready"}
  /\ call \in [Calls -> CallType]

(* Operations that passed ensureQdrantReady, or saw the collection. *)
Passed(c) ==
  \/ call[c].pc \in {"request", "info"}
  \/ call[c].pc = "embed" /\ call[c].op # "upsert"

(* Unless someone deletes it, the collection is there from the moment the  *)
(* memo says so, and for everyone who has passed or has seen it.           *)
CollectionThere ==
  ~dropped /\ (memo = "ready" \/ \E c \in Calls : Passed(c)) => collection

IInv == Typed /\ OneConnect /\ CollectionThere

LEMMA InitHolds ==
  ASSUME Init
  PROVE  IInv
<1> USE DEF Init
<1>1. Idle \in CallType
  BY DEF Idle, CallType, Pcs, Ops
<1>2. Typed
  BY <1>1 DEF Typed
<1>3. OneConnect
  BY VectorMemoryAssumption DEF OneConnect, Connecting, Idle
<1>4. CollectionThere
  BY DEF CollectionThere, Passed, Idle
<1> QED BY <1>2, <1>3, <1>4 DEF IInv

(* One operation goes on, without having to do with connecting. *)
LEMMA MoveStep ==
  ASSUME IInv, NEW c \in Calls, NEW r \in CallType,
         ~Connecting(c), r.pc \notin {"list", "create", "info"},
         \/ r.pc \notin {"request", "embed"}
         \/ r.pc = "embed" /\ r.op = "upsert"
         \/ Passed(c) \/ memo = "ready",
         call' = [call EXCEPT ![c] = r],
         UNCHANGED <<collection, dropped, memo>>
  PROVE  IInv'
<1> USE DEF IInv
<1>1. /\ Typed'
      /\ call'[c] = r
      /\ \A d \in Calls \ {c} : call'[d] = call[d]
  BY DEF Typed
<1>2. OneConnect'
  BY <1>1 DEF OneConnect, Connecting
<1>3. CollectionThere'
  BY <1>1 DEF CollectionThere, Passed
<1> QED BY <1>1, <1>2, <1>3

(* The promise of ensureQdrantReady is settled: c and its waiters go on to *)
(* what next says, everyone else stays.                                    *)
LEMMA SettleStep ==
  ASSUME IInv, NEW c \in Calls, Connecting(c),
         NEW next, \A d \in Calls : next[d] \in CallType,
         \A d \in Calls : next[d].pc \notin {"list", "create", "info"},
         call' = [d \in Calls |-> IF d = c \/ d \in Waiters(c) THEN next[d]
                                  ELSE call[d]],
         memo' \in {"none", "ready"},
         collection' \in BOOLEAN, collection => collection', dropped' = dropped,
         \/ collection'
         \/ ~dropped => collection
         \/ memo' = "none" /\ \A d \in Calls : next[d].pc = "idle"
  PROVE  IInv'
<1> USE VectorMemoryAssumption DEF IInv
<1>1. /\ memo = c
      /\ \A d \in Calls : d # c => ~Connecting(d)
  BY DEF OneConnect
<1>2. /\ Typed'
      /\ \A d \in Calls : \/ call'[d] = next[d]
                          \/ d # c /\ call'[d] = call[d]
  BY DEF Typed
<1>3. OneConnect'
  BY <1>1, <1>2 DEF OneConnect, Connecting
<1>4. CollectionThere'
  <2>1. CASE collection'
    BY <2>1 DEF CollectionThere
  <2>2. CASE ~dropped => collection
    BY <2>2 DEF CollectionThere
  <2>3. CASE memo' = "none" /\ \A d \in Calls : next[d].pc = "idle"
    BY <1>2, <2>3 DEF CollectionThere, Passed
  <2> QED BY <2>1, <2>2, <2>3
<1> QED BY <1>2, <1>3, <1>4

(* The same for the two ways to succeed. *)
LEMMA ConnectedStep ==
  ASSUME IInv, NEW c \in Calls, Connecting(c), Connected(c),
         collection' \in BOOLEAN, collection => collection', dropped' = dropped,
         collection' \/ (~dropped => collection)
  PROVE  IInv'
<1> DEFINE next == [d \in Calls |->
                      [pc |-> AfterReady(call[d].op), op |-> call[d].op,
                       query |-> call[d].query, on |-> "none"]]
<1>1. \A d \in Calls : /\ next[d] \in CallType
                       /\ next[d].pc \notin {"list", "create", "info"}
  BY DEF IInv, Typed, CallType, AfterReady, Pcs
<1>2. /\ call' = [d \in Calls |-> IF d = c \/ d \in Waiters(c) THEN next[d]
                                  ELSE call[d]]
      /\ memo' \in {"none", "ready"}
  BY DEF Connected
<1> HIDE DEF next
<1> QED BY <1>1, <1>2, SettleStep
-----------------------------------------------------------------------------
(* Every action keeps the invariant. *)

LEMMA ArriveStep ==
  ASSUME IInv, NEW c \in Calls, Arrive(c)
  PROVE  IInv'
<1>1. CASE \E q \in Queries : Hit(c, q)
  BY <1>1 DEF Hit, IInv, Typed, OneConnect, Connecting, CollectionThere, Passed
<1>2. ASSUME NEW q \in Queries, Miss(c, q)
      PROVE  IInv'
  <2> DEFINE r == [pc |-> "ready", op |-> "research", query |-> q,
                   on |-> "none"]
  <2>1. r \in CallType
    BY DEF CallType, Pcs, Ops
  <2>2. /\ ~Connecting(c) /\ call' = [call EXCEPT ![c] = r]
        /\ UNCHANGED <<collection, dropped, memo>>
    BY <1>2 DEF Miss, Connecting
  <2> QED BY <2>1, <2>2, MoveStep
<1>3. ASSUME NEW op \in Ops \ {"research"}, Begin(c, op)
      PROVE  IInv'
  <2> DEFINE r == [pc |-> IF op = "upsert" THEN "embed" ELSE "ready",
                   op |-> op, query |-> NoQuery, on |-> "none"]
  <2>1. /\ r \in CallType
        /\ \/ r.pc = "ready"
           \/ r.pc = "embed" /\ r.op = "upsert"
    BY DEF CallType, Pcs, Ops
  <2>2. /\ ~Connecting(c) /\ call' = [call EXCEPT ![c] = r]
        /\ UNCHANGED <<collection, dropped, memo>>
    BY <1>3 DEF Begin, Connecting
  <2> QED BY <2>1, <2>2, MoveStep
<1> QED BY <1>1, <1>2, <1>3 DEF Arrive

LEMMA EnsureQdrantReadyStep ==
  ASSUME IInv, NEW c \in Calls, EnsureQdrantReady(c)
  PROVE  IInv'
<1>1. /\ call \in [Calls -> CallType] /\ call[c] \in CallType
      /\ ~Connecting(c)
      /\ UNCHANGED <<collection, dropped>>
  BY DEF EnsureQdrantReady, IInv, Typed, Connecting
<1>2. CASE memo = "ready"
  <2> DEFINE r == [pc |-> AfterReady(call[c].op), op |-> call[c].op,
                   query |-> call[c].query, on |-> "none"]
  <2>1. r \in CallType /\ r.pc \notin {"list", "create", "info"}
    BY <1>1 DEF CallType, Pcs, AfterReady
  <2>2. call' = [call EXCEPT ![c] = r] /\ memo' = memo
    BY <1>2, VectorMemoryAssumption DEF EnsureQdrantReady, GoTo
  <2> QED BY <1>1, <1>2, <2>1, <2>2, MoveStep
<1>3. CASE memo = "none"
  <2> DEFINE r == [pc |-> "list", op |-> call[c].op,
                   query |-> call[c].query, on |-> "none"]
  <2>1. r \in CallType
    BY <1>1 DEF CallType, Pcs
  <2>2. call' = [call EXCEPT ![c] = r] /\ memo' = c
    BY <1>3, VectorMemoryAssumption DEF EnsureQdrantReady, GoTo
  <2>3. /\ Typed' /\ call'[c] = r
        /\ \A d \in Calls \ {c} : call'[d] = call[d]
    BY <1>1, <2>1, <2>2 DEF IInv, Typed
  <2>4. OneConnect'
    BY <1>3, <2>2, <2>3, VectorMemoryAssumption
    DEF IInv, OneConnect, Connecting
  <2>5. CollectionThere'
    BY <1>1, <2>2, <2>3, VectorMemoryAssumption
    DEF IInv, CollectionThere, Passed
  <2> QED BY <2>3, <2>4, <2>5 DEF IInv
<1>4. CASE memo \in Calls
  <2> DEFINE r == [pc |-> "wait", op |-> call[c].op,
                   query |-> call[c].query, on |-> memo]
  <2>1. r \in CallType
    BY <1>1, <1>4 DEF CallType, Pcs
  <2>2. call' = [call EXCEPT ![c] = r] /\ memo' = memo
    BY <1>4, VectorMemoryAssumption DEF EnsureQdrantReady
  <2> QED BY <1>1, <2>1, <2>2, MoveStep
<1> QED BY <1>2, <1>3, <1>4 DEF IInv, Typed

LEMMA ConnectFailsStep ==
  ASSUME IInv, NEW c \in Calls, ConnectFails(c)
  PROVE  IInv'
<1> DEFINE next == [d \in Calls |-> Idle]
<1>1. \A d \in Calls : next[d] \in CallType /\ next[d].pc = "idle"
  BY DEF Idle, CallType, Pcs, Ops
<1>2. /\ call' = [d \in Calls |-> IF d = c \/ d \in Waiters(c) THEN next[d]
                                  ELSE call[d]]
      /\ Connecting(c) /\ memo' = "none" /\ dropped' = dropped
  BY DEF ConnectFails
<1>3. collection' \in {collection, collection \/ call[c].pc = "create"}
  BY DEF ConnectFails
<1>4. collection \in BOOLEAN
  BY DEF IInv, Typed
<1>5. collection' \in BOOLEAN /\ (collection => collection')
  BY <1>3, <1>4, Zenon
<1> HIDE DEF next
<1> QED BY <1>1, <1>2, <1>5, SettleStep

LEMMA ListCollectionsStep ==
  ASSUME IInv, NEW c \in Calls, ListCollections(c)
  PROVE  IInv'
<1> DEFINE r == [pc |-> IF collection THEN "info" ELSE "create",
                 op |-> call[c].op, query |-> call[c].query, on |-> "none"]
<1>1. /\ call[c] \in CallType /\ Connecting(c)
      /\ UNCHANGED <<collection, dropped, memo>>
      /\ call' = [call EXCEPT ![c] = r]
  BY DEF ListCollections, GoTo, IInv, Typed, Connecting
<1>2. r \in CallType /\ r.pc \in {"info", "create"}
  BY <1>1 DEF CallType, Pcs
<1>3. r.pc = "info" => collection
  OBVIOUS
<1> HIDE DEF r
<1>4. /\ Typed' /\ call'[c] = r
      /\ \A d \in Calls \ {c} : call'[d] = call[d]
  BY <1>1, <1>2 DEF IInv, Typed
<1>5. OneConnect'
  BY <1>1, <1>2, <1>4 DEF IInv, OneConnect, Connecting
<1>6. CollectionThere'
  BY <1>1, <1>2, <1>3, <1>4 DEF IInv, CollectionThere, Passed
<1> QED BY <1>4, <1>5, <1>6 DEF IInv

LEMMA CreateCollectionStep ==
  ASSUME IInv, NEW c \in Calls, CreateCollection(c)
  PROVE  IInv'
<1>1. Connecting(c) /\ Connected(c) /\ collection' = TRUE /\ dropped' = dropped
  BY DEF CreateCollection, Connecting
<1> QED BY <1>1, ConnectedStep

LEMMA CheckCollectionStep ==
  ASSUME IInv, NEW c \in Calls, CheckCollection(c)
  PROVE  IInv'
<1>1. /\ Connecting(c) /\ Connected(c)
      /\ collection' = collection /\ dropped' = dropped
      /\ call[c].pc = "info"
  BY DEF CheckCollection, Connecting
<1>2. ~dropped => collection
  BY <1>1 DEF IInv, CollectionThere, Passed
<1>3. collection' \in BOOLEAN /\ (collection => collection')
  BY <1>1 DEF IInv, Typed
<1> QED BY <1>1, <1>2, <1>3, ConnectedStep

(* An operation ends. *)
LEMMA DoneStep ==
  ASSUME IInv, NEW c \in Calls, ~Connecting(c), Done(c),
         UNCHANGED <<collection, dropped, memo>>
  PROVE  IInv'
<1>1. Idle \in CallType /\ Idle.pc = "idle"
  BY DEF Idle, CallType, Pcs, Ops
<1> QED BY <1>1, MoveStep DEF Done

LEMMA EmbedStep ==
  ASSUME IInv, NEW c \in Calls, Embed(c)
  PROVE  IInv'
<1>1. /\ ~Connecting(c) /\ call[c].pc = "embed" /\ call[c] \in CallType
      /\ UNCHANGED <<collection, dropped, memo>>
  BY DEF Embed, Connecting, IInv, Typed
<1>2. CASE Done(c)
  BY <1>1, <1>2, DoneStep
<1>3. CASE GoTo(c, AfterEmbed(call[c].op))
  <2> DEFINE r == [pc |-> AfterEmbed(call[c].op), op |-> call[c].op,
                   query |-> call[c].query, on |-> "none"]
  <2>1. r \in CallType /\ r.pc \in {"ready", "request"}
    BY <1>1 DEF CallType, Pcs, AfterEmbed
  <2>2. call' = [call EXCEPT ![c] = r]
    BY <1>1, <1>3 DEF GoTo, IInv, Typed
  <2>3. Passed(c) \/ r.pc = "ready"
    BY <1>1 DEF Passed, AfterEmbed
  <2> QED BY <1>1, <2>1, <2>2, <2>3, MoveStep
<1> QED BY <1>2, <1>3 DEF Embed

LEMMA RequestStep ==
  ASSUME IInv, NEW c \in Calls, Request(c)
  PROVE  IInv'
<1>1. ~Connecting(c) /\ Done(c) /\ UNCHANGED <<collection, dropped, memo>>
  BY DEF Request, Connecting
<1> QED BY <1>1, DoneStep

(* What happens around the operations. *)
LEMMA AroundStep ==
  ASSUME IInv, ModelLoads \/ Expire \/ OthersCreate \/ OthersDrop \/ Restart
  PROVE  IInv'
<1> USE DEF IInv
<1>1. CASE ModelLoads \/ Expire
  BY <1>1 DEF ModelLoads, Expire, Typed, OneConnect, Connecting,
              CollectionThere, Passed
<1>2. CASE OthersCreate
  BY <1>2 DEF OthersCreate, Typed, OneConnect, Connecting, CollectionThere,
              Passed
<1>3. CASE OthersDrop
  BY <1>3 DEF OthersDrop, Typed, OneConnect, Connecting, CollectionThere,
              Passed
<1>4. CASE Restart
  <2>1. Idle \in CallType
    BY DEF Idle, CallType, Pcs, Ops
  <2>2. collection' \in BOOLEAN /\ dropped' = FALSE
    BY <1>4 DEF Restart, Typed
  <2>3. memo' = "none" /\ call' = [c \in Calls |-> Idle]
    BY <1>4 DEF Restart
  <2>4. Typed'
    BY <2>1, <2>2, <2>3 DEF Typed
  <2>5. OneConnect'
    BY <2>3, VectorMemoryAssumption DEF OneConnect, Connecting, Idle
  <2>6. CollectionThere'
    BY <2>3 DEF CollectionThere, Passed, Idle
  <2> QED BY <2>4, <2>5, <2>6
<1> QED BY <1>1, <1>2, <1>3, <1>4

LEMMA NextHolds ==
  ASSUME IInv, [Next]_vars
  PROVE  IInv'
<1>1. ASSUME NEW c \in Calls, Work(c)
      PROVE  IInv'
  BY <1>1, EnsureQdrantReadyStep, ConnectFailsStep, ListCollectionsStep,
     CreateCollectionStep, CheckCollectionStep, EmbedStep, RequestStep DEF Work
<1>2. CASE UNCHANGED vars
  BY <1>2 DEF vars, IInv, Typed, OneConnect, Connecting, CollectionThere, Passed
<1> QED BY <1>1, <1>2, ArriveStep, AroundStep DEF Next

(* What every interleaving of operations keeps true of the connection. *)
THEOREM Invariance == Spec => []IInv
BY InitHolds, NextHolds, PTL DEF Spec

(* However many operations ask for the connection and however often it     *)
(* fails, the process connects once at a time.                             *)
THEOREM ConnectsOnceAtATime == Spec => []OneConnect
<1>1. IInv => OneConnect
  BY DEF IInv
<1> QED BY <1>1, Invariance, PTL

(* An operation sends its request only when the collection is there,       *)
(* unless someone has deleted it since the process started.                *)
THEOREM RequestsFindCollection == Spec => []RequestsHaveCollection
<1>1. IInv => RequestsHaveCollection
  BY DEF IInv, CollectionThere, Passed, RequestsHaveCollection
<1> QED BY <1>1, Invariance, PTL
-----------------------------------------------------------------------------
(* The research cache. *)

Elements(s) == {s[i] : i \in 1..Len(s)}

Distinct(s) == \A i, j \in 1..Len(s) : s[i] = s[j] => i = j

(* Without leaves the other queries, and one place more if there was q.    *)
LEMMA WithoutProperties ==
  ASSUME NEW s \in Seq(Queries), NEW q, Distinct(s)
  PROVE  LET w == Without(s, q)
         IN  /\ w \in Seq(Queries)
             /\ Distinct(w)
             /\ Elements(w) = Elements(s) \ {q}
             /\ Len(w) = IF q \in Elements(s) THEN Len(s) - 1 ELSE Len(s)
<1>1. Len(s) \in Nat /\ DOMAIN s = 1..Len(s)
  BY LenProperties
<1>2. CASE q \notin Elements(s)
  <2>1. Without(s, q) = s
    BY <1>1, <1>2 DEF Without, Elements
  <2> QED BY <1>2, <2>1
<1>3. CASE q \in Elements(s)
  <2> DEFINE k == CHOOSE i \in DOMAIN s : s[i] = q
             a == SubSeq(s, 1, k - 1)
             b == SubSeq(s, k + 1, Len(s))
             w == a \o b
             n == Len(s)
  <2>1. k \in 1..n /\ s[k] = q
    BY <1>1, <1>3 DEF Elements
  <2>2. Without(s, q) = w
    BY <1>1, <1>3 DEF Without, Elements
  <2> HIDE DEF k
  <2>3. \A i \in 1..n : s[i] \in Queries
    BY <1>1, ElementOfSeq
  <2>4. n \in Nat /\ k \in Int /\ k - 1 \in Int /\ k + 1 \in Int
    BY <1>1, <2>1
  <2>5. /\ a \in Seq(Queries)
        /\ Len(a) = IF 1 <= k - 1 THEN k - 1 - 1 + 1 ELSE 0
        /\ \A i \in 1..(k - 1 - 1 + 1) : a[i] = s[1 + i - 1]
    <3>1. \A i \in 1..(k - 1) : s[i] \in Queries
      BY <2>1, <2>3, <2>4
    <3> QED BY <2>4, <3>1, SubSeqProperties
  <2>6. /\ b \in Seq(Queries)
        /\ Len(b) = IF k + 1 <= n THEN n - (k + 1) + 1 ELSE 0
        /\ \A i \in 1..(n - (k + 1) + 1) : b[i] = s[k + 1 + i - 1]
    <3>1. \A i \in (k + 1)..n : s[i] \in Queries
      BY <2>1, <2>3, <2>4
    <3> QED BY <2>4, <3>1, SubSeqProperties
  <2>7. /\ w \in Seq(Queries)
        /\ Len(w) = Len(a) + Len(b)
        /\ \A i \in 1..(Len(a) + Len(b)) :
             w[i] = IF i <= Len(a) THEN a[i] ELSE b[i - Len(a)]
    BY <2>5, <2>6, ConcatProperties
  <2> HIDE DEF a, b, w, n
  <2>8. Len(a) = k - 1 /\ Len(b) = n - k
    BY <2>1, <2>4, <2>5, <2>6
  <2>9. Len(w) = n - 1
    BY <2>1, <2>4, <2>7, <2>8
  <2>10. /\ \A i \in 1..(k - 1) : a[i] = s[i]
         /\ \A i \in 1..(n - k) : b[i] = s[k + i]
    <3>1. ASSUME NEW i \in 1..(k - 1)
          PROVE  a[i] = s[i]
      <4>1. i \in 1..(k - 1 - 1 + 1) /\ 1 + i - 1 = i
        BY <2>4
      <4> QED BY <2>5, <4>1
    <3>2. ASSUME NEW i \in 1..(n - k)
          PROVE  b[i] = s[k + i]
      <4>1. i \in 1..(n - (k + 1) + 1) /\ k + 1 + i - 1 = k + i
        BY <2>4
      <4> QED BY <2>6, <4>1
    <3> QED BY <3>1, <3>2
  <2>11. ASSUME NEW i \in 1..(n - 1)
         PROVE  w[i] = s[IF i < k THEN i ELSE i + 1]
    <3>1. CASE i < k
      <4>1. i <= Len(a) /\ i \in 1..(k - 1) /\ i \in 1..(Len(a) + Len(b))
        BY <2>1, <2>4, <2>8, <3>1
      <4> QED BY <2>7, <2>10, <3>1, <4>1
    <3>2. CASE ~(i < k)
      <4>1. ~(i <= Len(a)) /\ i \in 1..(Len(a) + Len(b))
        BY <2>1, <2>4, <2>8, <3>2
      <4>2. i - Len(a) \in 1..(n - k) /\ k + (i - Len(a)) = i + 1
        BY <2>1, <2>4, <2>8, <3>2
      <4>3. w[i] = b[i - Len(a)]
        BY <2>7, <4>1
      <4> QED BY <2>10, <3>2, <4>2, <4>3
    <3> QED BY <3>1, <3>2
  <2>12. \A i \in 1..(n - 1) : (IF i < k THEN i ELSE i + 1) \in (1..n) \ {k}
    BY <2>1, <2>4
  <2>13. Distinct(s) /\ n = Len(s)
    BY DEF n
  <2>14. Distinct(w)
    <3> SUFFICES ASSUME NEW i \in 1..(n - 1), NEW j \in 1..(n - 1), w[i] = w[j]
                 PROVE  i = j
      BY <2>9 DEF Distinct
    <3>1. (IF i < k THEN i ELSE i + 1) = (IF j < k THEN j ELSE j + 1)
      BY <2>11, <2>12, <2>13 DEF Distinct
    <3> QED BY <2>1, <2>4, <3>1
  <2>15. Elements(w) = Elements(s) \ {q}
    <3>1. ASSUME NEW i \in 1..(n - 1)
          PROVE  w[i] \in Elements(s) \ {q}
      BY <2>1, <2>11, <2>12, <2>13 DEF Elements, Distinct
    <3>2. ASSUME NEW j \in 1..n, j # k
          PROVE  s[j] \in Elements(w)
      <4>1. CASE j < k
        <5>1. j \in 1..(n - 1)
          BY <2>1, <2>4, <4>1
        <5> QED BY <2>9, <2>11, <4>1, <5>1 DEF Elements
      <4>2. CASE j > k
        <5>1. j - 1 \in 1..(n - 1) /\ ~(j - 1 < k) /\ j - 1 + 1 = j
          BY <2>1, <2>4, <4>2
        <5> QED BY <2>9, <2>11, <5>1 DEF Elements
      <4> QED BY <2>1, <2>4, <3>2, <4>1, <4>2
    <3> QED BY <2>1, <2>9, <2>13, <3>1, <3>2 DEF Elements
  <2> QED BY <1>3, <2>2, <2>7, <2>9, <2>13, <2>14, <2>15
<1> QED BY <1>2, <1>3

(* A query put at the end of a sequence that does not have it.             *)
LEMMA PutLast ==
  ASSUME NEW s \in Seq(Queries), NEW q \in Queries, Distinct(s),
         q \notin Elements(s)
  PROVE  LET t == Append(s, q)
         IN  /\ t \in Seq(Queries) /\ Distinct(t)
             /\ Len(t) = Len(s) + 1 /\ t # <<>> /\ t[Len(t)] = q
             /\ Elements(t) = Elements(s) \cup {q}
<1> DEFINE t == Append(s, q)
<1>1. /\ t \in Seq(Queries) /\ Len(t) = Len(s) + 1 /\ Len(s) \in Nat
      /\ \A i \in 1..Len(s) : t[i] = s[i]
      /\ t[Len(s) + 1] = q
  BY AppendProperties, LenProperties
<1> HIDE DEF t
<1>2. t # <<>>
  BY <1>1
<1>3. Elements(t) = Elements(s) \cup {q}
  BY <1>1 DEF Elements
<1>4. Distinct(t)
  BY <1>1 DEF Distinct, Elements
<1> QED BY <1>1, <1>2, <1>3, <1>4 DEF t

(* What is left of a full cache: all but its oldest entry.                 *)
LEMMA KeptProperties ==
  ASSUME cache \in Seq(Queries), Distinct(cache), Len(cache) <= CacheSize
  PROVE  /\ Kept \in Seq(Queries) /\ Distinct(Kept)
         /\ Len(Kept) <= CacheSize - 1
         /\ Elements(Kept) \subseteq Elements(cache)
         /\ CacheSize > 1 /\ cache # <<>> => cache[Len(cache)] \in Elements(Kept)
<1>1. Len(cache) \in Nat /\ CacheSize \in Nat \ {0}
  BY LenProperties, VectorMemoryAssumption
<1>2. CASE Len(cache) >= CacheSize
  <2>1. Kept = Tail(cache) /\ cache # <<>> /\ Len(cache) = CacheSize
    BY <1>1, <1>2 DEF Kept
  <2>2. /\ Tail(cache) \in Seq(Queries)
        /\ Len(Tail(cache)) = Len(cache) - 1
        /\ \A i \in 1..(Len(cache) - 1) : Tail(cache)[i] = cache[i + 1]
    BY <1>1, <2>1, HeadTailProperties
  <2> DEFINE t == Tail(cache)
  <2> HIDE DEF t
  <2>3. Distinct(t)
    BY <1>1, <2>2 DEF Distinct, t
  <2>4. Elements(t) \subseteq Elements(cache)
    BY <1>1, <2>2 DEF Elements, t
  <2>5. ASSUME CacheSize > 1
        PROVE  cache[Len(cache)] \in Elements(t)
    <3>1. Len(cache) - 1 \in 1..(Len(cache) - 1) /\ Len(cache) - 1 + 1 = Len(cache)
      BY <1>1, <2>1, <2>5
    <3> QED BY <2>2, <3>1 DEF Elements, t
  <2> QED BY <1>1, <2>1, <2>2, <2>3, <2>4, <2>5 DEF t
<1>3. CASE ~(Len(cache) >= CacheSize)
  <2>1. Kept = cache /\ Len(cache) <= CacheSize - 1
    BY <1>1, <1>3 DEF Kept
  <2>2. cache # <<>> => Len(cache) \in 1..Len(cache)
    BY <1>1, EmptySeq
  <2> QED BY <2>1, <2>2 DEF Elements
<1> QED BY <1>2, <1>3

(* The cache, and what is asked of it: a research has a query.             *)
CacheInv ==
  /\ model \in {"loading", "loaded", "failed"}
  /\ cache \in Seq(Queries) /\ Len(cache) <= CacheSize
  /\ Distinct(cache)
  /\ expired \subseteq Elements(cache)
  /\ lastUsed \in Queries \cup {NoQuery}
  /\ lastUsed # NoQuery => cache # <<>> /\ cache[Len(cache)] = lastUsed
  /\ \A c \in Calls : call[c].op = "research" /\ call[c].pc # "idle" =>
                        call[c].query \in Queries

(* The cache is replaced by one that ends with the query used, and still   *)
(* has the one used before.                                                *)
Reused ==
  /\ cache' \in Seq(Queries) /\ Len(cache') <= CacheSize /\ Distinct(cache')
  /\ expired' \subseteq Elements(cache')
  /\ lastUsed' \in Queries /\ cache' # <<>> /\ cache'[Len(cache')] = lastUsed'
  /\ CacheSize > 1 /\ lastUsed # NoQuery => lastUsed \in Elements(cache')

LEMMA HitReuses ==
  ASSUME CacheInv, NEW c \in Calls, NEW q \in Queries, Hit(c, q)
  PROVE  Reused
<1> DEFINE w == Without(cache, q)
<1>1. /\ cache \in Seq(Queries) /\ Distinct(cache) /\ q \in Elements(cache)
      /\ Len(cache) \in Nat /\ Len(cache) <= CacheSize
  BY LenProperties DEF CacheInv, Hit, Keys, Elements
<1>2. /\ w \in Seq(Queries) /\ Distinct(w) /\ Elements(w) = Elements(cache) \ {q}
      /\ Len(w) = Len(cache) - 1
  BY <1>1, WithoutProperties
<1>3. cache' = Append(w, q) /\ lastUsed' = q /\ expired' = expired
  BY DEF Hit
<1> HIDE DEF w
<1>4. /\ cache' \in Seq(Queries) /\ Distinct(cache')
      /\ Len(cache') = Len(w) + 1 /\ cache' # <<>> /\ cache'[Len(cache')] = q
      /\ Elements(cache') = Elements(w) \cup {q}
  BY <1>2, <1>3, PutLast
<1>5. Elements(cache') = Elements(cache) /\ Len(cache') <= CacheSize
  BY <1>1, <1>2, <1>4
<1>6. lastUsed # NoQuery => lastUsed \in Elements(cache)
  <2>1. cache # <<>> => Len(cache) \in 1..Len(cache)
    BY <1>1, EmptySeq
  <2> QED BY <2>1 DEF CacheInv, Elements
<1> QED BY <1>3, <1>4, <1>5, <1>6 DEF CacheInv, Reused

LEMMA RememberReuses ==
  ASSUME CacheInv, NEW q \in Queries, Remember(q)
  PROVE  Reused
<1> DEFINE w == Without(Kept, q)
<1>1. /\ Kept \in Seq(Queries) /\ Distinct(Kept)
      /\ Len(Kept) <= CacheSize - 1
      /\ CacheSize > 1 /\ cache # <<>> => cache[Len(cache)] \in Elements(Kept)
  BY KeptProperties DEF CacheInv
<1>2. Len(Kept) \in Nat /\ CacheSize \in Nat
  BY <1>1, LenProperties, VectorMemoryAssumption
<1>3. /\ w \in Seq(Queries) /\ Distinct(w) /\ Elements(w) = Elements(Kept) \ {q}
      /\ Len(w) \in Nat /\ Len(w) <= Len(Kept)
  BY <1>1, <1>2, WithoutProperties
<1>4. /\ cache' = Append(w, q) /\ lastUsed' = q
      /\ expired' \subseteq Elements(Kept) \ {q}
  BY DEF Remember, Elements
<1> HIDE DEF w
<1>5. /\ cache' \in Seq(Queries) /\ Distinct(cache')
      /\ Len(cache') = Len(w) + 1 /\ cache' # <<>> /\ cache'[Len(cache')] = q
      /\ Elements(cache') = Elements(w) \cup {q}
  BY <1>3, <1>4, PutLast
<1>6. Len(cache') <= CacheSize
  BY <1>1, <1>2, <1>3, <1>5
<1> QED BY <1>1, <1>3, <1>4, <1>5, <1>6 DEF CacheInv, Reused

(* No step but these two and a restart touches what is in the cache.       *)
LEMMA CacheStep ==
  ASSUME IInv, CacheInv, [Next]_vars
  PROVE  /\ CacheInv'
         /\ \/ Reused
            \/ lastUsed' = NoQuery
            \/ UNCHANGED <<cache, lastUsed>>
<1>1. CASE \E c \in Calls, q \in Queries : Hit(c, q)
  <2>1. Reused /\ UNCHANGED <<model, call>>
    BY <1>1, HitReuses DEF Hit
  <2> QED BY <2>1 DEF CacheInv, Reused
<1>2. ASSUME NEW c \in Calls, NEW q \in Queries, Miss(c, q)
      PROVE  CacheInv' /\ UNCHANGED <<cache, lastUsed>>
  BY <1>2 DEF Miss, CacheUnchanged, CacheInv, IInv, Typed
<1>3. ASSUME NEW c \in Calls, NEW op \in Ops \ {"research"}, Begin(c, op)
      PROVE  CacheInv' /\ UNCHANGED <<cache, lastUsed>>
  BY <1>3 DEF Begin, CacheUnchanged, CacheInv, IInv, Typed
<1>4. ASSUME NEW c \in Calls, Work(c), ~Request(c)
      PROVE  CacheInv' /\ UNCHANGED <<cache, lastUsed>>
  <2>1. /\ UNCHANGED <<cache, expired, lastUsed, model>>
        /\ call[c].pc # "idle"
    BY <1>4 DEF Work, EnsureQdrantReady, ConnectFails, ListCollections,
                CreateCollection, CheckCollection, Embed, CacheUnchanged,
                Connecting
  <2>2. \A d \in Calls :
          \/ call'[d] = call[d]
          \/ call'[d] = Idle
          \/ /\ call'[d].op = call[d].op /\ call'[d].query = call[d].query
             /\ call[d].pc # "idle"
    <3>1. call \in [Calls -> CallType]
      BY DEF IInv, Typed
    <3>2. CASE EnsureQdrantReady(c) \/ ListCollections(c) \/ Embed(c)
      BY <2>1, <3>1, <3>2 DEF EnsureQdrantReady, ListCollections, Embed, GoTo, Done
    <3>3. CASE ConnectFails(c)
      BY <3>3 DEF ConnectFails
    <3>4. CASE CreateCollection(c) \/ CheckCollection(c)
      BY <2>1, <3>4 DEF CreateCollection, CheckCollection, Connected, Waiters
    <3> QED BY <1>4, <3>2, <3>3, <3>4 DEF Work
  <2>3. \A d \in Calls : call'[d].op = "research" /\ call'[d].pc # "idle" =>
                           call'[d].query \in Queries
    BY <2>2 DEF CacheInv, Idle
  <2> QED BY <2>1, <2>3 DEF CacheInv
<1>5. ASSUME NEW c \in Calls, Request(c)
      PROVE  /\ CacheInv'
             /\ Reused \/ UNCHANGED <<cache, lastUsed>>
  <2>1. /\ call[c].pc = "request" /\ model' = model
        /\ \A d \in Calls : call'[d] = call[d] \/ call'[d].pc = "idle"
    BY <1>5 DEF Request, Done, IInv, Typed, Idle
  <2>2. \/ call[c].op = "research" /\ Remember(call[c].query)
        \/ UNCHANGED <<cache, expired, lastUsed>>
    BY <1>5 DEF Request, CacheUnchanged
  <2>3. CASE call[c].op = "research" /\ Remember(call[c].query)
    <3>1. call[c].query \in Queries
      BY <2>1, <2>3 DEF CacheInv
    <3>2. Reused
      BY <2>3, <3>1, RememberReuses
    <3> QED BY <2>1, <3>2 DEF CacheInv, Reused
  <2>4. CASE UNCHANGED <<cache, expired, lastUsed>>
    BY <2>1, <2>4 DEF CacheInv
  <2> QED BY <2>2, <2>3, <2>4
<1>6. CASE ModelLoads \/ OthersCreate \/ OthersDrop
  BY <1>6 DEF ModelLoads, OthersCreate, OthersDrop, CacheUnchanged, CacheInv
<1>7. CASE Expire
  <2>1. expired' \subseteq Elements(cache)
    BY <1>7 DEF Expire, CacheInv, Elements
  <2> QED BY <1>7, <2>1 DEF Expire, CacheInv
<1>8. CASE Restart
  <2>1. <<>> \in Seq(Queries) /\ Len(<<>>) = 0 /\ CacheSize \in Nat
    BY VectorMemoryAssumption
  <2> QED BY <1>8, <2>1 DEF Restart, CacheInv, Distinct, Elements, Idle
<1>9. CASE UNCHANGED vars
  BY <1>9 DEF vars, CacheInv
<1> QED BY <1>1, <1>2, <1>3, <1>4, <1>5, <1>6, <1>7, <1>8, <1>9
        DEF Next, Arrive

THEOREM CacheInvariance == Spec => [](IInv /\ CacheInv)
<1>1. Init => CacheInv
  <2> SUFFICES ASSUME Init PROVE CacheInv
    OBVIOUS
  <2>1. <<>> \in Seq(Queries) /\ Len(<<>>) = 0 /\ CacheSize \in Nat
    BY VectorMemoryAssumption
  <2> QED BY <2>1 DEF Init, CacheInv, Distinct, Elements, Idle
<1> QED BY <1>1, InitHolds, NextHolds, CacheStep, PTL DEF Spec

(* However many searches end together, the cache has one entry of a query  *)
(* and never more than CacheSize of them.                                  *)
THEOREM TypesKept == Spec => []TypeOK
<1>1. IInv /\ CacheInv => TypeOK
  BY DEF IInv, Typed, CacheInv, TypeOK, CallType, Distinct, Elements, Keys
<1> QED BY <1>1, CacheInvariance, PTL

(* The answer used last is not the one that has to go.                     *)
THEOREM LastUsedIsKept == Spec => LastUsedStays
<1>1. IInv /\ CacheInv /\ [Next]_vars =>
        [CacheSize > 1 /\ lastUsed # NoQuery /\ lastUsed' # NoQuery =>
           \E i \in 1..Len(cache') : cache'[i] = lastUsed]_vars
  <2> SUFFICES ASSUME IInv, CacheInv, [Next]_vars, CacheSize > 1,
                      lastUsed # NoQuery, lastUsed' # NoQuery
               PROVE  \E i \in 1..Len(cache') : cache'[i] = lastUsed
    OBVIOUS
  <2>1. CASE Reused
    BY <2>1 DEF Reused, Elements
  <2>2. CASE UNCHANGED <<cache, lastUsed>>
    <3>1. cache # <<>> /\ cache[Len(cache)] = lastUsed /\ cache \in Seq(Queries)
      BY DEF CacheInv
    <3>2. Len(cache) \in 1..Len(cache)
      BY <3>1, LenProperties, EmptySeq
    <3> QED BY <2>2, <3>1, <3>2
  <2> QED BY <2>1, <2>2, CacheStep
<1> QED BY <1>1, CacheInvariance, PTL DEF Spec, LastUsedStays
=============================================================================
