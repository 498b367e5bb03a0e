----------------------- MODULE CheckpointStore_proofs -----------------------
(***************************************************************************)
(* Proofs about the checkpoints of a thread, for any number of them, any   *)
(* history limit and any number of retries: the keys keep their types, the *)
(* id a run is resumed from has its record, the history of a thread at     *)
(* rest is its newest checkpoints, and a deletion leaves nothing behind.   *)
(***************************************************************************)
EXTENDS CheckpointStore, FiniteSetTheorems, WellFoundedInduction, TLAPS

(* The put and the deletion under way. *)
DelType == [pc : DelPc, ids : SUBSET Ids, quiet : BOOLEAN, tries : 0..Retries]

(* The put under way is that of the newest checkpoint.  Past its first     *)
(* command it has written its record and has met no deletion, or else its  *)
(* checkpoint is known to be astray.                                       *)
PutOnCourse ==
  PutActive =>
    /\ put.id = made
    /\ made # 0
    /\ put.id \notin astray =>
         /\ ~DelActive
         /\ put.pc # "record" => put.id \in record

(* The latest id lacks its record only while a deletion that found it is   *)
(* about to remove the id as well.                                         *)
LatestOnCourse ==
  latest # None /\ latest \notin astray =>
    latest \in record \/ (del.pc \in {"records", "keys"} /\ latest \in del.ids)

IInv == TypeOK /\ PutOnCourse /\ LatestOnCourse

USE DEF DelType

LEMMA InitHolds ==
  ASSUME Init
  PROVE  IInv
<1> USE CheckpointStoreAssumption DEF Init, None
<1>1. NoPut \in [pc : PutPc, id : Ids \cup {None}, tries : 0..Retries]
  BY DEF NoPut, PutPc
<1>2. NoDelete \in DelType
  BY CheckpointStoreAssumption DEF NoDelete, DelPc
<1>3. /\ put \in [pc : PutPc, id : Ids \cup {None}, tries : 0..Retries]
      /\ del \in DelType
  BY <1>1, <1>2
<1>4. /\ record \in SUBSET Ids /\ writes \in SUBSET Ids
      /\ history \in SUBSET Ids /\ index \in SUBSET Ids
      /\ astray \in SUBSET Ids
      /\ latest \in Ids \cup {None} /\ thread \in Ids \cup {None}
  OBVIOUS
<1>5. made \in 0..MaxId
  OBVIOUS
<1>6. memory \in BOOLEAN
  BY Zenon
<1>7. TypeOK
  BY <1>3, <1>4, <1>5, <1>6 DEF TypeOK
<1>8. PutOnCourse
  BY DEF PutOnCourse, PutActive, NoPut
<1>9. LatestOnCourse
  BY DEF LatestOnCourse
<1> QED BY <1>7, <1>8, <1>9 DEF IInv

(* The next command of put, and what becomes of the deletion it meets. *)
LEMMA AdvancedType ==
  ASSUME TypeOK, PutActive
  PROVE  /\ Advanced \in [pc : PutPc, id : Ids \cup {None}, tries : 0..Retries]
         /\ Advanced.pc # "record"
         /\ Advanced.pc # "idle" => Advanced.id = put.id
<1>1. /\ put \in [pc : PutPc, id : Ids \cup {None}, tries : 0..Retries]
      /\ put.pc \in PutPc \ {"idle"}
  BY DEF TypeOK, PutActive
<1>2. NoPut \in [pc : PutPc, id : Ids \cup {None}, tries : 0..Retries]
  BY CheckpointStoreAssumption DEF NoPut, PutPc
<1>3. put.pc # "trim" => NextPut(put.pc) \in PutPc \ {"record", "idle"}
  BY <1>1 DEF NextPut, PutPc
<1>4. CASE put.pc = "trim"
  BY <1>2, <1>4 DEF Advanced, NoPut
<1>5. CASE put.pc # "trim"
  BY <1>1, <1>3, <1>5 DEF Advanced
<1> QED BY <1>4, <1>5

LEMMA DisturbedType ==
  ASSUME TypeOK, Disturbed
  PROVE  /\ del' \in DelType
         /\ del'.pc = del.pc
         /\ del'.ids = del.ids
BY DEF TypeOK, Disturbed
-----------------------------------------------------------------------------
(* Every action keeps the invariant. *)

LEMMA BeginPutStep ==
  ASSUME IInv, BeginPut
  PROVE  IInv'
<1> USE CheckpointStoreAssumption DEF IInv, None
<1>1. /\ del' \in DelType
      /\ del'.pc = del.pc /\ del'.ids = del.ids
  BY DisturbedType DEF BeginPut, Meets
<1>2. made + 1 \in Ids /\ made \in Nat
  BY DEF BeginPut, TypeOK, Ids
<1>3. put' \in [pc : PutPc, id : Ids \cup {None}, tries : 0..Retries]
  BY <1>2 DEF BeginPut, PutPc
<1>4. TypeOK'
  BY <1>1, <1>2, <1>3 DEF BeginPut, Meets, TypeOK, Ids
<1>5. PutOnCourse'
  BY <1>1, <1>2 DEF BeginPut, Meets, PutOnCourse, DelActive
<1>6. LatestOnCourse'
  BY <1>1 DEF BeginPut, Meets, LatestOnCourse
<1> QED BY <1>4, <1>5, <1>6

LEMMA PutCommandStep ==
  ASSUME IInv, PutCommand
  PROVE  IInv'
<1> USE CheckpointStoreAssumption DEF IInv, None
<1>1. /\ del' \in DelType
      /\ del'.pc = del.pc /\ del'.ids = del.ids
  BY DisturbedType DEF PutCommand, Meets
<1>2. /\ put' = Advanced
      /\ Advanced \in [pc : PutPc, id : Ids \cup {None}, tries : 0..Retries]
      /\ Advanced.pc # "record"
      /\ Advanced.pc # "idle" => Advanced.id = put.id
  BY AdvancedType DEF PutCommand
<1>3. PutActive /\ put.id = made /\ put.id \in Ids /\ put.pc \in PutPc
  BY DEF PutCommand, PutOnCourse, TypeOK, Ids
<1>4. Trimmed \subseteq history
  BY DEF Trimmed, Newest
<1>5. /\ record' \in SUBSET Ids /\ latest' \in Ids \cup {None}
      /\ history' \in SUBSET Ids /\ thread' \in Ids \cup {None}
      /\ index' \in SUBSET Ids
  BY <1>3, <1>4 DEF PutCommand, Execute, TypeOK
<1>6. TypeOK'
  BY <1>1, <1>2, <1>3, <1>5 DEF PutCommand, Meets, TypeOK
<1>7. /\ record \subseteq record' /\ astray \subseteq astray'
      /\ put.pc = "record" => put.id \in record'
      /\ DelActive => put.id \in astray'
  BY DEF PutCommand, Execute, Meets
<1>8. PutOnCourse'
  BY <1>1, <1>2, <1>3, <1>7 DEF PutCommand, PutOnCourse, PutActive, DelActive
<1>9. LatestOnCourse'
  BY <1>1, <1>3, <1>7
  DEF PutCommand, Execute, PutOnCourse, LatestOnCourse, PutActive
<1> QED BY <1>6, <1>8, <1>9

LEMMA PutCommandFailsStep ==
  ASSUME IInv, PutCommandFails
  PROVE  IInv'
<1> USE CheckpointStoreAssumption DEF IInv, None
<1>1. /\ del' \in DelType
      /\ del'.pc = del.pc /\ del'.ids = del.ids
  BY DisturbedType DEF PutCommandFails, Strays
<1>2. /\ put' = Advanced
      /\ Advanced \in [pc : PutPc, id : Ids \cup {None}, tries : 0..Retries]
      /\ Advanced.pc # "idle" => Advanced.id = put.id
  BY AdvancedType DEF PutCommandFails
<1>3. PutActive /\ put.id = made /\ put.id \in Ids
  BY DEF PutCommandFails, PutOnCourse, TypeOK, Ids
<1>4. TypeOK'
  BY <1>1, <1>2, <1>3 DEF PutCommandFails, Strays, TypeOK
<1>5. PutOnCourse'
  BY <1>2, <1>3 DEF PutCommandFails, Strays, PutOnCourse, PutActive
<1>6. LatestOnCourse'
  BY <1>1 DEF PutCommandFails, Strays, LatestOnCourse
<1> QED BY <1>4, <1>5, <1>6

LEMMA PutAgainStep ==
  ASSUME IInv, PutAgain
  PROVE  IInv'
<1> USE CheckpointStoreAssumption DEF IInv, None
<1>1. /\ del' \in DelType
      /\ del'.pc = del.pc /\ del'.ids = del.ids
  BY DisturbedType DEF PutAgain, Meets
<1>2. /\ put \in [pc : PutPc, id : Ids \cup {None}, tries : 0..Retries]
      /\ PutActive /\ put.id = made /\ put.id \in Ids
  BY DEF PutAgain, PutOnCourse, TypeOK, Ids
<1>3. /\ put' = [pc |-> "record", id |-> put.id, tries |-> put.tries + 1]
      /\ put.tries + 1 \in 0..Retries
  BY <1>2 DEF PutAgain
<1>4. put' \in [pc : PutPc, id : Ids \cup {None}, tries : 0..Retries]
  BY <1>2, <1>3 DEF PutPc
<1>5. TypeOK'
  BY <1>1, <1>2, <1>4 DEF PutAgain, Meets, TypeOK
<1>6. PutOnCourse'
  BY <1>1, <1>2, <1>3 DEF PutAgain, Meets, PutOnCourse, DelActive
<1>7. LatestOnCourse'
  BY <1>1 DEF PutAgain, Meets, LatestOnCourse
<1> QED BY <1>5, <1>6, <1>7

LEMMA PutStopsStep ==
  ASSUME IInv, PutStops
  PROVE  IInv'
<1> USE CheckpointStoreAssumption DEF IInv, None
<1>1. /\ del' \in DelType
      /\ del'.pc = del.pc /\ del'.ids = del.ids
  BY DisturbedType DEF PutStops, Strays
<1>2. /\ NoPut \in [pc : PutPc, id : Ids \cup {None}, tries : 0..Retries]
      /\ put.id \in Ids
  BY DEF PutStops, PutOnCourse, TypeOK, Ids, NoPut, PutPc
<1>3. TypeOK'
  BY <1>1, <1>2 DEF PutStops, Strays, TypeOK
<1>4. PutOnCourse'
  BY DEF PutStops, PutOnCourse, PutActive, NoPut
<1>5. LatestOnCourse'
  BY <1>1 DEF PutStops, Strays, LatestOnCourse
<1> QED BY <1>3, <1>4, <1>5

LEMMA PutWritesStep ==
  ASSUME IInv, PutWrites
  PROVE  IInv'
<1> USE CheckpointStoreAssumption DEF IInv, None
<1>1. /\ del' \in DelType
      /\ del'.pc = del.pc /\ del'.ids = del.ids
  BY DisturbedType DEF PutWrites, Meets, Strays
<1>2. made \in Ids
  BY DEF PutWrites, TypeOK, Ids
<1>3. astray \subseteq astray' /\ astray' \subseteq astray \cup {made}
  BY DEF PutWrites, Meets, Strays
<1>4. TypeOK'
  BY <1>1, <1>2, <1>3 DEF PutWrites, TypeOK
<1>5. PutOnCourse'
  BY <1>1, <1>3 DEF PutWrites, PutOnCourse, PutActive, DelActive
<1>6. LatestOnCourse'
  BY <1>1, <1>3 DEF PutWrites, LatestOnCourse
<1> QED BY <1>4, <1>5, <1>6

LEMMA SetMemoryStep ==
  ASSUME IInv, SetMemory
  PROVE  IInv'
<1> USE DEF IInv
<1>1. /\ del' \in DelType
      /\ del'.pc = del.pc /\ del'.ids = del.ids
  BY DisturbedType DEF SetMemory
<1>2. TypeOK'
  BY <1>1 DEF SetMemory, TypeOK
<1>3. PutOnCourse'
  BY <1>1 DEF SetMemory, PutOnCourse, PutActive, DelActive
<1>4. LatestOnCourse'
  BY <1>1 DEF SetMemory, LatestOnCourse
<1> QED BY <1>2, <1>3, <1>4

LEMMA BeginDeleteStep ==
  ASSUME IInv, BeginDelete
  PROVE  IInv'
<1> USE CheckpointStoreAssumption DEF IInv, None
<1>1. put.pc # "idle" => put.id \in Ids
  BY DEF PutOnCourse, PutActive, TypeOK, Ids
<1>2. TypeOK'
  BY <1>1 DEF BeginDelete, TypeOK, DelPc, PutActive
<1>3. PutOnCourse'
  BY DEF BeginDelete, PutOnCourse, PutActive
<1>4. LatestOnCourse'
  BY DEF BeginDelete, LatestOnCourse, DelActive
<1> QED BY <1>2, <1>3, <1>4

(* One of the four reads of deleteThread. *)
LEMMA FoundStep ==
  ASSUME IInv, DelActive, del.pc \notin {"records", "keys"},
         NEW ids \in SUBSET Ids,
         NEW pc \in {"readLatest", "readIndex", "readThread", "records"},
         Found(ids, pc)
  PROVE  IInv'
<1> USE CheckpointStoreAssumption DEF IInv
<1>1. del' \in DelType /\ del'.pc = pc
  BY DEF Found, TypeOK, DelPc
<1>2. TypeOK'
  BY <1>1 DEF Found, TypeOK
<1>3. PutOnCourse'
  BY <1>1 DEF Found, PutOnCourse, PutActive, DelActive
<1>4. LatestOnCourse'
  BY <1>1 DEF Found, LatestOnCourse
<1> QED BY <1>2, <1>3, <1>4

LEMMA ReadStep ==
  ASSUME IInv, ReadHistory \/ ReadLatest \/ ReadIndex \/ ReadThread
  PROVE  IInv'
<1>1. history \in SUBSET Ids /\ {latest} \ {None} \in SUBSET Ids /\
      index \in SUBSET Ids /\ {thread} \ {None} \in SUBSET Ids
  BY DEF IInv, TypeOK
<1>2. CASE ReadHistory
  BY <1>1, <1>2, FoundStep DEF ReadHistory, DelActive
<1>3. CASE ReadLatest
  BY <1>1, <1>3, FoundStep DEF ReadLatest, DelActive
<1>4. CASE ReadIndex
  BY <1>1, <1>4, FoundStep DEF ReadIndex, DelActive
<1>5. CASE ReadThread
  <2> DEFINE ids == del.ids \cup ({thread} \ {None})
  <2>1. CASE ids = {}
    <3>1. /\ del' = NoDelete
          /\ UNCHANGED <<record, writes, latest, history, thread, index,
                         memory, put, made, astray>>
      BY <1>5, <2>1 DEF ReadThread
    <3>2. NoDelete \in DelType
      BY CheckpointStoreAssumption DEF NoDelete, DelPc
    <3>3. TypeOK'
      BY <3>1, <3>2 DEF IInv, TypeOK
    <3>4. PutOnCourse'
      BY <3>1 DEF IInv, PutOnCourse, PutActive, DelActive, NoDelete
    <3>5. LatestOnCourse'
      BY <1>5, <3>1 DEF IInv, LatestOnCourse, ReadThread
    <3> QED BY <3>3, <3>4, <3>5 DEF IInv
  <2>2. CASE ids # {}
    <3>1. ids \in SUBSET Ids
      BY <1>1 DEF IInv, TypeOK
    <3>2. Found(ids, "records") /\ del.pc = "readThread"
      BY <1>5, <2>2 DEF ReadThread
    <3> QED BY <3>1, <3>2, FoundStep DEF DelActive
  <2> QED BY <2>1, <2>2
<1> QED BY <1>2, <1>3, <1>4, <1>5

LEMMA DeleteCommandStep ==
  ASSUME IInv, DeleteCommand
  PROVE  IInv'
<1> USE DEF IInv, None
<1>1. /\ DelActive
      /\ UNCHANGED <<put, made, astray>>
      /\ record' = (IF del.pc = "records" THEN record \ del.ids ELSE record)
      /\ latest' = (IF del.pc = "keys" THEN None ELSE latest)
      /\ del.pc = "records" => del'.pc = "keys" /\ del'.ids = del.ids
  BY DEF DeleteCommand, DelKeys, DelActive, TypeOK
<1>2. NoDelete \in DelType
  BY CheckpointStoreAssumption DEF NoDelete, DelPc
<1>3. del' \in DelType
  BY <1>2 DEF DeleteCommand, DelKeys, TypeOK, DelPc
<1>4. TypeOK'
  BY <1>1, <1>3 DEF DeleteCommand, DelKeys, TypeOK
<1>5. PutOnCourse'
  BY <1>1 DEF PutOnCourse, PutActive
<1>6. LatestOnCourse'
  BY <1>1 DEF LatestOnCourse
<1> QED BY <1>4, <1>5, <1>6

LEMMA DeleteAgainStep ==
  ASSUME IInv, DeleteAgain
  PROVE  IInv'
<1> USE CheckpointStoreAssumption DEF IInv, None
<1>1. /\ del' \in DelType
      /\ del'.pc = "records" /\ del'.ids = del.ids
  BY DEF DeleteAgain, TypeOK, DelPc
<1>2. TypeOK'
  BY <1>1 DEF DeleteAgain, TypeOK
<1>3. PutOnCourse'
  BY <1>1 DEF DeleteAgain, PutOnCourse, PutActive, DelActive
<1>4. LatestOnCourse'
  BY <1>1 DEF DeleteAgain, LatestOnCourse
<1> QED BY <1>2, <1>3, <1>4

LEMMA DeleteStopsStep ==
  ASSUME IInv, DeleteStops
  PROVE  IInv'
<1> USE DEF IInv, None
<1>1. PICK gone \in SUBSET del.ids :
        /\ record' = record \ gone
        /\ writes' = writes \ gone
        /\ astray' = astray \cup (del.ids \ record')
  BY DEF DeleteStops
<1>2. del.ids \in SUBSET Ids
  BY DEF TypeOK
<1>3. NoDelete \in DelType
  BY CheckpointStoreAssumption DEF NoDelete, DelPc
<1>4. TypeOK'
  BY <1>1, <1>2, <1>3 DEF DeleteStops, TypeOK
<1>5. PutOnCourse'
  BY <1>1 DEF DeleteStops, PutOnCourse, PutActive
<1>6. LatestOnCourse'
  BY <1>1 DEF DeleteStops, LatestOnCourse
<1> QED BY <1>4, <1>5, <1>6

LEMMA ExpireStep ==
  ASSUME IInv, ExpireRecord \/ ExpireThread
  PROVE  IInv'
<1> USE DEF IInv, None
<1>1. CASE ExpireRecord
  <2>1. TypeOK'
    BY <1>1 DEF ExpireRecord, TypeOK
  <2>2. PutOnCourse'
    BY <1>1 DEF ExpireRecord, PutOnCourse, PutActive, DelActive
  <2>3. LatestOnCourse'
    BY <1>1 DEF ExpireRecord, LatestOnCourse
  <2> QED BY <2>1, <2>2, <2>3
<1>2. CASE ExpireThread
  BY <1>2 DEF ExpireThread, TypeOK, PutOnCourse, LatestOnCourse, PutActive
<1> QED BY <1>1, <1>2

LEMMA NextHolds ==
  ASSUME IInv, [Next]_vars
  PROVE  IInv'
<1>1. CASE Run
  BY <1>1, BeginPutStep, PutCommandStep, PutCommandFailsStep, PutAgainStep,
     PutStopsStep, PutWritesStep, SetMemoryStep DEF Run
<1>2. CASE Delete
  BY <1>2, BeginDeleteStep, ReadStep, DeleteCommandStep, DeleteAgainStep,
     DeleteStopsStep
  DEF Delete
<1>3. CASE UNCHANGED vars
  BY <1>3 DEF vars, IInv, TypeOK, PutOnCourse, LatestOnCourse, PutActive,
              DelActive
<1> QED BY <1>1, <1>2, <1>3, ExpireStep DEF Next

(* What puts, deletions and expiry keep true of the keys of a thread. *)
THEOREM Invariance == Spec => []IInv
BY InitHolds, NextHolds, PTL DEF Spec

(* The keys of a thread keep their types, and a pipeline is never sent     *)
(* more often than its retries allow.                                      *)
THEOREM TypeCorrect == Spec => []TypeOK
<1>1. IInv => TypeOK
  BY DEF IInv
<1> QED BY <1>1, Invariance, PTL

(* Wherever put stops or is sent again, whatever expires, and after every  *)
(* deletion, the latest id of the thread has its record, unless one of the *)
(* commands of its own put was lost or met a deletion.                     *)
THEOREM ResumePointReadable == Spec => []LatestReadable
<1>1. IInv => LatestReadable
  BY DEF IInv, LatestOnCourse, LatestReadable, DelActive
<1> QED BY <1>1, Invariance, PTL
-----------------------------------------------------------------------------
(* The newest members of a set, which zremrangebyrank leaves. *)

(* A nonempty set of numbers has a least member. *)
LEMMA LeastMember ==
  ASSUME NEW S \in SUBSET Nat, S # {}
  PROVE  \E k \in S : \A i \in S : k <= i
<1>1. PICK k \in S : \A i \in S : ~(<<i, k>> \in OpToRel(<, Nat))
  BY NatLessThanWellFounded, WFMin, Zenon
<1>2. \A i \in S : ~(i < k)
  BY <1>1 DEF OpToRel
<1> QED BY <1>2

(* The newest of all stays, what goes is older than what stays, and no     *)
(* more than the limit stay.                                               *)
LEMMA NewestKeepsTheLast ==
  ASSUME NEW m \in Nat, NEW S \in SUBSET (1..m), NEW n \in Nat \ {0}
  PROVE  /\ m \in S => m \in Newest(S, n)
         /\ \A i \in S \ Newest(S, n), j \in Newest(S, n) : i < j
         /\ Cardinality(Newest(S, n)) <= n
<1> DEFINE Above(i) == {j \in S : j > i}
           N == Newest(S, n)
<1>0. \A i \in S : i \in Nat /\ i <= m
  OBVIOUS
<1>1. IsFiniteSet(1..m)
  BY FS_Interval
<1>2. IsFiniteSet(S)
  BY <1>1, FS_Subset, Zenon
<1>3. \A i \in S : IsFiniteSet(Above(i)) /\ Cardinality(Above(i)) \in Nat
  <2>1. \A i \in S : Above(i) \in SUBSET S
    OBVIOUS
  <2>2. \A i \in S : IsFiniteSet(Above(i))
    BY <1>2, <2>1, FS_Subset, Zenon
  <2> QED BY <2>2, FS_CardinalityType, Zenon
<1>4. N = {i \in S : Cardinality(Above(i)) < n}
  BY DEF Newest
<1>5. ASSUME m \in S
      PROVE  m \in N
  <2>1. \A j \in S : ~(j > m)
    BY <1>0
  <2>2. Above(m) = {}
    BY <2>1, Zenon
  <2>3. Cardinality(Above(m)) = 0
    BY <2>2, FS_EmptySet
  <2> QED BY <1>4, <1>5, <2>3
<1>6. ASSUME NEW i \in S \ N, NEW j \in N
      PROVE  i < j
  <2>1. i \in S /\ j \in S /\ i \in Nat /\ j \in Nat
    BY <1>0, <1>4
  <2> SUFFICES ASSUME j <= i
               PROVE  FALSE
    BY <2>1
  <2>2. Above(i) \in SUBSET Above(j)
    <3>1. \A k \in S : k > i => k > j
      BY <1>0, <2>1
    <3> QED BY <3>1, Zenon
  <2>3. Cardinality(Above(i)) <= Cardinality(Above(j))
    BY <1>3, <2>1, <2>2, FS_Subset, Zenon
  <2>4. Cardinality(Above(j)) < n /\ ~(Cardinality(Above(i)) < n)
    BY <1>4
  <2>5. Cardinality(Above(i)) \in Nat /\ Cardinality(Above(j)) \in Nat
    BY <1>3, <2>1
  <2> HIDE DEF Above
  <2> QED BY <2>3, <2>4, <2>5
<1>7. Cardinality(N) <= n
  <2>1. CASE N = {}
    BY <2>1, FS_EmptySet
  <2>2. CASE N # {}
    <3>1. N \in SUBSET S /\ N \in SUBSET Nat
      BY <1>0, <1>4
    <3>2. PICK k \in N : \A i \in N : k <= i
      BY <2>2, <3>1, LeastMember
    <3>3. k \in S /\ N \ {k} \in SUBSET Above(k)
      BY <3>1, <3>2
    <3>4. IsFiniteSet(N) /\ Cardinality(N) \in Nat
      BY <1>2, <3>1, FS_Subset, FS_CardinalityType, Zenon
    <3>5. Cardinality(N \ {k}) = Cardinality(N) - 1
      BY <3>4, FS_RemoveElement
    <3>6. Cardinality(N \ {k}) <= Cardinality(Above(k))
      BY <1>3, <3>3, FS_Subset, Zenon
    <3>7. Cardinality(Above(k)) < n /\ Cardinality(Above(k)) \in Nat
      BY <1>3, <1>4, <3>3
    <3> HIDE DEF Above, N
    <3> QED BY <3>4, <3>5, <3>6, <3>7
  <2> QED BY <2>1, <2>2
<1> QED BY <1>5, <1>6, <1>7
-----------------------------------------------------------------------------
(* The history of a thread.                                                *)
(*                                                                         *)
(* HistoryIsNewest speaks of a thread at rest; what makes it true is what  *)
(* the commands of put leave on the way.                                   *)

KeysNumbered == history \cup index \subseteq 1..made

(* From its third command on, put has its checkpoint in the history.       *)
PutListed ==
  PutActive /\ put.pc \in {"thread", "index", "trim"} /\ put.id \notin astray =>
    put.id \in history

MadeListed ==
  latest # None /\ made \notin astray =>
    \/ made \in history
    \/ PutActive /\ put.pc \in {"record", "latest", "history"}

HistoryShort ==
  ~PutActive /\ made \notin astray => Cardinality(history) <= Limit

(* What the trimming took from the history is older than all it left.      *)
TrimmedOlder ==
  \A i \in index \ (history \cup astray), j \in history : i < j

HistoryInv ==
  KeysNumbered /\ PutListed /\ MadeListed /\ HistoryShort /\ TrimmedOlder

(* The deletion's keys go together, and a put they meet is astray.         *)
LEMMA KeysLeft ==
  ASSUME HistoryInv, UNCHANGED <<put, made>>, astray \subseteq astray',
         \/ UNCHANGED <<history, latest>>
         \/ /\ history' = {} /\ latest' = None
            /\ PutActive => put.id \in astray,
         index' \subseteq index
  PROVE  HistoryInv'
<1> USE DEF HistoryInv
<1>1. history' \in {history, {}} /\ latest' \in {latest, None}
  OBVIOUS
<1>2. KeysNumbered'
  BY <1>1 DEF KeysNumbered
<1>3. PutListed'
  BY DEF PutListed, PutActive
<1>4. MadeListed'
  BY DEF MadeListed, PutActive
<1>5. HistoryShort'
  <2>1. CASE history' = history
    BY <2>1 DEF HistoryShort, PutActive
  <2>2. CASE history' = {}
    <3>1. Cardinality(history') = 0
      BY <2>2, FS_EmptySet
    <3> QED BY <3>1, CheckpointStoreAssumption DEF HistoryShort
  <2> QED BY <1>1, <2>1, <2>2
<1>6. TrimmedOlder'
  BY DEF TrimmedOlder
<1> QED BY <1>2, <1>3, <1>4, <1>5, <1>6

LEMMA PutCommandHistory ==
  ASSUME IInv, HistoryInv, PutCommand
  PROVE  HistoryInv'
<1> USE DEF HistoryInv
<1>1. /\ PutActive /\ put.id = made /\ made \in Nat /\ made # 0
      /\ put.pc \in PutPc \ {"idle"}
  BY DEF PutCommand, IInv, PutOnCourse, PutActive, TypeOK
<1>2. /\ put' = (IF put.pc = "trim" THEN NoPut
                 ELSE [put EXCEPT !.pc = NextPut(put.pc)])
      /\ made' = made /\ astray \subseteq astray'
      /\ Execute(put.pc)
  BY DEF PutCommand, Advanced, Meets
<1>3. /\ put.pc = "trim" => put'.pc = "idle"
      /\ put.pc # "trim" => put'.pc = NextPut(put.pc) /\ put'.id = made
  BY <1>1, <1>2 DEF NoPut, IInv, TypeOK
<1>4. history \in SUBSET (1..made) /\ index \in SUBSET (1..made)
  BY DEF KeysNumbered
<1>5. CASE put.pc \in {"record", "latest", "thread"}
  <2>1. history' = history /\ index' = index
    BY <1>2, <1>5 DEF Execute
  <2>2. /\ put'.pc \in {"latest", "history", "index"}
        /\ put'.pc = "index" => put.pc = "thread"
        /\ put.pc = "thread" => latest' = latest
    BY <1>2, <1>3, <1>5 DEF NextPut, Execute
  <2>3. KeysNumbered' /\ HistoryShort' /\ TrimmedOlder'
    BY <1>2, <2>1, <2>2
    DEF KeysNumbered, HistoryShort, TrimmedOlder, PutActive
  <2>4. PutListed'
    BY <1>1, <1>2, <1>3, <1>5, <2>1, <2>2 DEF PutListed
  <2>5. MadeListed'
    BY <1>1, <1>2, <1>3, <1>5, <2>1, <2>2 DEF MadeListed, PutActive
  <2> QED BY <2>3, <2>4, <2>5
<1>6. CASE put.pc = "history"
  <2>1. history' = history \cup {made} /\ index' = index
    BY <1>1, <1>2, <1>6 DEF Execute
  <2>2. put'.pc = "thread" /\ put'.id = made
    BY <1>3, <1>6 DEF NextPut
  <2>3. KeysNumbered'
    BY <1>1, <1>2, <2>1 DEF KeysNumbered
  <2>4. PutListed' /\ MadeListed' /\ HistoryShort'
    BY <1>2, <2>1, <2>2 DEF PutListed, MadeListed, HistoryShort, PutActive
  <2>5. TrimmedOlder'
    <3>1. SUFFICES ASSUME NEW i \in index \ (history' \cup astray),
                          NEW j \in history'
                   PROVE  i < j
      BY <1>2, <2>1 DEF TrimmedOlder
    <3>2. CASE j \in history
      BY <2>1, <3>1, <3>2 DEF TrimmedOlder
    <3>3. CASE j = made
      BY <1>1, <1>4, <2>1, <3>1, <3>3
    <3> QED BY <2>1, <3>2, <3>3
  <2> QED BY <2>3, <2>4, <2>5
<1>7. CASE put.pc = "index"
  <2>1. history' = history /\ index' = index \cup {made} /\ latest' = latest
    BY <1>1, <1>2, <1>7 DEF Execute
  <2>2. put'.pc = "trim" /\ put'.id = made
    BY <1>3, <1>7 DEF NextPut
  <2>3. made \notin astray => made \in history
    BY <1>1, <1>7 DEF PutListed
  <2>4. KeysNumbered'
    BY <1>1, <1>2, <2>1 DEF KeysNumbered
  <2>5. PutListed' /\ MadeListed' /\ HistoryShort'
    BY <1>2, <2>1, <2>2, <2>3 DEF PutListed, MadeListed, HistoryShort, PutActive
  <2>6. TrimmedOlder'
    BY <1>2, <2>1, <2>3 DEF TrimmedOlder
  <2> QED BY <2>4, <2>5, <2>6
<1>8. CASE put.pc = "trim"
  <2>1. history' = Newest(history, Limit) /\ index' = index
    BY <1>2, <1>8 DEF Execute, Trimmed
  <2>2. put'.pc = "idle"
    BY <1>3, <1>8
  <2>3. made \notin astray => made \in history
    BY <1>1, <1>8 DEF PutListed
  <2>4. /\ made \in history => made \in history'
        /\ \A i \in history \ history', j \in history' : i < j
        /\ Cardinality(history') <= Limit
    BY <1>1, <1>4, <2>1, CheckpointStoreAssumption, NewestKeepsTheLast
  <2>5. history' \subseteq history
    BY <2>1 DEF Newest
  <2>6. KeysNumbered'
    BY <1>2, <2>1, <2>5 DEF KeysNumbered
  <2>7. PutListed' /\ MadeListed' /\ HistoryShort'
    BY <1>2, <2>2, <2>3, <2>4 DEF PutListed, MadeListed, HistoryShort, PutActive
  <2>8. TrimmedOlder'
    BY <1>2, <2>1, <2>4, <2>5 DEF TrimmedOlder
  <2> QED BY <2>6, <2>7, <2>8
<1> QED BY <1>1, <1>5, <1>6, <1>7, <1>8 DEF PutPc

LEMMA HistoryStep ==
  ASSUME IInv, HistoryInv, [Next]_vars
  PROVE  HistoryInv'
<1>1. CASE BeginPut
  <2>1. /\ made \in Nat /\ made' = made + 1
        /\ put'.pc = "record" /\ PutActive'
        /\ astray \subseteq astray'
        /\ UNCHANGED <<history, index, latest>>
    BY <1>1 DEF BeginPut, IInv, TypeOK, PutActive, Meets
  <2>2. KeysNumbered'
    BY <2>1 DEF HistoryInv, KeysNumbered
  <2>3. PutListed' /\ MadeListed' /\ HistoryShort' /\ TrimmedOlder'
    BY <2>1
    DEF HistoryInv, PutListed, MadeListed, HistoryShort, TrimmedOlder
  <2> QED BY <2>2, <2>3 DEF HistoryInv
<1>2. CASE PutCommand
  BY <1>2, PutCommandHistory
<1>3. CASE PutCommandFails \/ PutStops
  <2>1. /\ UNCHANGED <<history, index, latest, made>>
        /\ astray' = astray \cup {made}
    BY <1>3 DEF PutCommandFails, PutStops, Strays, IInv, PutOnCourse
  <2>2. PutActive' => put'.id = made
    BY <1>3, AdvancedType
    DEF PutCommandFails, PutStops, NoPut, IInv, PutOnCourse, PutActive
  <2>3. KeysNumbered' /\ TrimmedOlder'
    BY <2>1 DEF HistoryInv, KeysNumbered, TrimmedOlder
  <2>4. PutListed' /\ MadeListed' /\ HistoryShort'
    BY <2>1, <2>2 DEF PutListed, MadeListed, HistoryShort
  <2> QED BY <2>3, <2>4 DEF HistoryInv
<1>4. CASE PutAgain
  <2>1. /\ put'.pc = "record" /\ PutActive' /\ astray \subseteq astray'
        /\ UNCHANGED <<history, index, latest, made>>
    BY <1>4 DEF PutAgain, PutActive, Meets
  <2> QED
    BY <2>1
    DEF HistoryInv, KeysNumbered, PutListed, MadeListed, HistoryShort,
        TrimmedOlder
<1>5. CASE PutWrites \/ SetMemory
  BY <1>5, KeysLeft DEF PutWrites, SetMemory, Meets, Strays
<1>6. CASE BeginDelete \/ ReadHistory \/ ReadLatest \/ ReadIndex \/ ReadThread
           \/ DeleteAgain \/ DeleteStops \/ ExpireRecord \/ UNCHANGED vars
  <2>1. /\ UNCHANGED <<history, index, latest, put, made>>
        /\ astray \subseteq astray'
    BY <1>6
    DEF BeginDelete, ReadHistory, ReadLatest, ReadIndex, ReadThread, Found,
        DeleteAgain, DeleteStops, ExpireRecord, vars
  <2> QED BY <2>1, KeysLeft
<1>7. CASE DeleteCommand
  <2>1. /\ DelActive /\ UNCHANGED <<put, made, astray>>
        /\ \/ UNCHANGED <<history, latest>>
           \/ history' = {} /\ latest' = None
        /\ index' \subseteq index
    BY <1>7 DEF DeleteCommand, DelKeys, DelActive
  <2>2. PutActive => put.id \in astray
    BY <2>1 DEF IInv, PutOnCourse
  <2> QED BY <2>1, <2>2, KeysLeft
<1>8. CASE ExpireThread
  BY <1>8, KeysLeft DEF ExpireThread
<1> QED
  BY <1>1, <1>2, <1>3, <1>4, <1>5, <1>6, <1>7, <1>8 DEF Next, Run, Delete
LEMMA HistoryInit ==
  ASSUME Init
  PROVE  HistoryInv
<1>1. /\ history = {} /\ index = {} /\ latest = None /\ put.pc = "idle"
  BY DEF Init, NoPut
<1>2. Cardinality(history) = 0
  BY <1>1, FS_EmptySet
<1>3. HistoryShort
  BY <1>2, CheckpointStoreAssumption DEF HistoryShort
<1> QED
  BY <1>1, <1>3
  DEF HistoryInv, KeysNumbered, PutListed, MadeListed, TrimmedOlder, PutActive
-----------------------------------------------------------------------------
(* What a deletion finds and removes. *)

(* The checkpoints that are stored and of which no command went astray.    *)
Kept == (record \cup writes) \ astray

(* The older set names all of them, but for the put before its last        *)
(* command; this is why deleteThread reads that set.                       *)
KeptIndexed ==
  \A i \in Kept : i \in index \/ (PutActive /\ put.pc # "trim" /\ i = put.id)

KeptFound ==
  /\ del.pc \in {"readThread", "records"} => Kept \subseteq del.ids
  /\ del.pc \in {"keys", "thread", "index", "memory"} => Kept = {}

(* Undisturbed, what the commands of the deletion removed stays removed.   *)
QuietErases ==
  del.quiet =>
    /\ del.pc \in {"thread", "index", "memory"} => latest = None /\ history = {}
    /\ del.pc \in {"index", "memory"} => thread = None
    /\ del.pc = "memory" => index = {}

ErasureInv == KeptIndexed /\ KeptFound /\ QuietErases

(* A run that meets a deletion disturbs it, and adds only what is astray.  *)
LEMMA RunMeets ==
  ASSUME IInv, ErasureInv, Run
  PROVE  /\ astray \subseteq astray'
         /\ KeptFound' /\ QuietErases'
<1>1. /\ Disturbed /\ astray \subseteq astray'
      /\ DelActive => Kept' \subseteq Kept
  <2>1. CASE BeginPut
    BY <2>1 DEF BeginPut, Meets, Kept
  <2>2. CASE PutCommand
    BY <2>2 DEF PutCommand, Execute, Meets, Kept
  <2>3. CASE PutCommandFails \/ PutStops
    BY <2>3 DEF PutCommandFails, PutStops, Strays, Kept
  <2>4. CASE PutAgain
    BY <2>4 DEF PutAgain, Meets, Kept
  <2>5. CASE PutWrites
    BY <2>5 DEF PutWrites, Meets, Strays, Kept
  <2>6. CASE SetMemory
    BY <2>6 DEF SetMemory, Kept
  <2> QED BY <2>1, <2>2, <2>3, <2>4, <2>5, <2>6 DEF Run
<1>2. del'.pc = del.pc /\ del'.ids = del.ids
  BY <1>1, DisturbedType DEF IInv
<1>3. CASE DelActive
  <2>1. ~del'.quiet
    BY <1>1, <1>3 DEF Disturbed, IInv, TypeOK
  <2> QED BY <1>1, <1>2, <1>3, <2>1 DEF ErasureInv, KeptFound, QuietErases
<1>4. CASE ~DelActive
  BY <1>1, <1>2, <1>4 DEF DelActive, KeptFound, QuietErases
<1> QED BY <1>1, <1>3, <1>4

LEMMA RunErasure ==
  ASSUME IInv, ErasureInv, Run
  PROVE  ErasureInv'
<1> USE DEF ErasureInv
<1>1. /\ astray \subseteq astray' /\ KeptFound' /\ QuietErases'
  BY RunMeets
<1>2. PutActive => put.id = made
  BY DEF IInv, PutOnCourse
<1>3. CASE BeginPut
  BY <1>1, <1>3 DEF BeginPut, PutActive, KeptIndexed, Kept
<1>4. CASE PutCommand
  <2>1. /\ PutActive /\ put.pc \in PutPc
        /\ put' = (IF put.pc = "trim" THEN NoPut
                   ELSE [put EXCEPT !.pc = NextPut(put.pc)])
    BY <1>4 DEF PutCommand, Advanced, IInv, TypeOK
  <2>2. /\ put.pc = "trim" => put'.pc = "idle"
        /\ put.pc # "trim" => put'.pc = NextPut(put.pc) /\ put'.id = put.id
    BY <2>1 DEF NoPut, IInv, TypeOK
  <2>3. /\ put.pc = "record" => record' = record \cup {put.id}
        /\ put.pc # "record" => record' = record
        /\ put.pc = "index" => index' = index \cup {put.id}
        /\ put.pc # "index" => index' = index
        /\ writes' = writes
    BY <1>4, <2>1 DEF PutCommand, Execute
  <2>4. /\ put.pc \notin {"index", "trim"} => put'.pc \notin {"idle", "trim"}
    BY <2>1, <2>2 DEF NextPut, PutActive, PutPc
  <2>5. ASSUME NEW i \in Kept'
        PROVE  i \in index' \/ (PutActive' /\ put'.pc # "trim" /\ i = put'.id)
    <3>1. i \in Kept \/ (put.pc = "record" /\ i = put.id)
      BY <1>1, <2>3 DEF Kept
    <3>2. i \in index \/ (put.pc # "trim" /\ i = put.id)
      BY <3>1 DEF KeptIndexed
    <3> QED BY <2>2, <2>3, <2>4, <3>2 DEF PutActive
  <2> QED BY <1>1, <2>5 DEF KeptIndexed
<1>5. CASE PutCommandFails \/ PutStops
  <2>1. /\ UNCHANGED <<record, writes, index>>
        /\ astray' = astray \cup {put.id}
    BY <1>5 DEF PutCommandFails, PutStops, Strays
  <2> QED BY <1>1, <2>1 DEF KeptIndexed, Kept
<1>6. CASE PutAgain
  BY <1>1, <1>6 DEF PutAgain, PutActive, KeptIndexed, Kept
<1>7. CASE PutWrites
  <2>1. /\ UNCHANGED <<record, index, put>>
        /\ writes' = writes \cup {made}
        /\ (PutActive \/ made \in index) \/ made \in astray'
    BY <1>7 DEF PutWrites, Strays
  <2>2. ASSUME NEW i \in Kept'
        PROVE  i \in index \/ (PutActive /\ put.pc # "trim" /\ i = put.id)
    <3>1. CASE i \in Kept
      BY <3>1 DEF KeptIndexed
    <3>2. CASE i \notin Kept
      <4>1. i = made /\ made \notin astray' /\ made \notin astray
        BY <1>1, <2>1, <3>2 DEF Kept
      <4>2. CASE made \in index
        BY <4>1, <4>2
      <4>3. CASE PutActive
        <5>1. put.pc = "record" \/ made \in Kept
          BY <4>1, <4>3 DEF IInv, PutOnCourse, Kept
        <5> QED BY <1>2, <3>2, <4>1, <4>3, <5>1
      <4> QED BY <2>1, <4>1, <4>2, <4>3
    <3> QED BY <3>1, <3>2
  <2> QED BY <1>1, <2>1, <2>2 DEF KeptIndexed, PutActive
<1>8. CASE SetMemory
  BY <1>1, <1>8 DEF SetMemory, KeptIndexed, Kept, PutActive
<1> QED BY <1>3, <1>4, <1>5, <1>6, <1>7, <1>8 DEF Run

LEMMA DeleteErasure ==
  ASSUME IInv, ErasureInv, Delete
  PROVE  ErasureInv'
<1> USE DEF ErasureInv
<1>1. CASE BeginDelete
  BY <1>1 DEF BeginDelete, KeptIndexed, KeptFound, QuietErases, Kept, PutActive
<1>2. CASE ReadHistory \/ ReadLatest \/ ReadIndex \/ ReadThread
  <2>1. UNCHANGED <<record, writes, latest, history, thread, index, put,
                    astray>>
    BY <1>2
    DEF ReadHistory, ReadLatest, ReadIndex, ReadThread, Found
  <2>2. KeptIndexed'
    BY <2>1 DEF KeptIndexed, Kept, PutActive
  <2>3. /\ del'.pc \in {"idle", "readLatest", "readIndex", "readThread",
                        "records"}
        /\ del'.pc = "readThread" =>
             del.pc = "readIndex" /\ index \subseteq del'.ids
        /\ del'.pc = "records" =>
             del.pc = "readThread" /\ del.ids \subseteq del'.ids
    BY <1>2
    DEF ReadHistory, ReadLatest, ReadIndex, ReadThread, Found, NoDelete
  <2>4. KeptFound'
    <3>1. CASE del'.pc = "readThread"
      <4>1. PutActive => put.id \in astray
        BY <2>3, <3>1 DEF IInv, PutOnCourse, DelActive
      <4>2. Kept \subseteq index
        BY <4>1 DEF KeptIndexed, Kept
      <4> QED BY <2>1, <2>3, <3>1, <4>2 DEF KeptFound, Kept
    <3>2. CASE del'.pc # "readThread"
      BY <2>1, <2>3, <3>2 DEF KeptFound, Kept
    <3> QED BY <3>1, <3>2
  <2>5. QuietErases'
    BY <2>3 DEF QuietErases
  <2> QED BY <2>2, <2>4, <2>5
<1>3. CASE DeleteCommand
  <2>1. /\ UNCHANGED <<put, astray>>
        /\ record' \subseteq record /\ writes' \subseteq writes
        /\ del.pc = "records" => /\ record' = record \ del.ids
                                /\ writes' = writes \ del.ids
        /\ index' = (IF del.pc = "index" THEN {} ELSE index)
    BY <1>3 DEF DeleteCommand, DelKeys
  <2>2. Kept' \subseteq Kept
    BY <2>1 DEF Kept
  <2>3. del.pc = "records" => Kept' = {}
    BY <2>1 DEF KeptFound, Kept
  <2>4. KeptIndexed'
    BY <2>1, <2>2 DEF KeptIndexed, KeptFound, PutActive
  <2>5. /\ del.pc \in {"records", "keys", "thread", "index", "memory"}
        /\ del'.pc \in {"keys", "thread", "index", "memory", "idle"}
    BY <1>3 DEF DeleteCommand, DelKeys, NoDelete, IInv, TypeOK
  <2>6. KeptFound'
    BY <2>2, <2>3, <2>5 DEF KeptFound
  <2>7. QuietErases'
    <3>1. CASE DelKeys("records", "keys")
      BY <3>1 DEF DelKeys, QuietErases, IInv, TypeOK
    <3>2. CASE DelKeys("keys", "thread")
      BY <3>2 DEF DelKeys, QuietErases, IInv, TypeOK
    <3>3. CASE DelKeys("thread", "index")
      BY <3>3 DEF DelKeys, QuietErases, IInv, TypeOK
    <3>4. CASE DelKeys("index", "memory")
      BY <3>4 DEF DelKeys, QuietErases, IInv, TypeOK
    <3>5. CASE DelKeys("memory", "idle")
      BY <3>5 DEF DelKeys, QuietErases, NoDelete
    <3> QED BY <1>3, <3>1, <3>2, <3>3, <3>4, <3>5 DEF DeleteCommand
  <2> QED BY <2>4, <2>6, <2>7
<1>4. CASE DeleteAgain
  <2>1. /\ UNCHANGED <<record, writes, index, put, astray>>
        /\ del'.pc = "records" /\ Kept = {}
    BY <1>4 DEF DeleteAgain, KeptFound
  <2> QED BY <2>1 DEF KeptIndexed, KeptFound, QuietErases, Kept
<1>5. CASE DeleteStops
  <2>1. /\ UNCHANGED <<index, put>> /\ astray \subseteq astray'
        /\ record' \subseteq record /\ writes' \subseteq writes
        /\ del'.pc = "idle"
    BY <1>5 DEF DeleteStops, NoDelete
  <2> QED BY <2>1 DEF KeptIndexed, KeptFound, QuietErases, Kept, PutActive
<1> QED BY <1>1, <1>2, <1>3, <1>4, <1>5 DEF Delete

LEMMA ErasureStep ==
  ASSUME IInv, ErasureInv, [Next]_vars
  PROVE  ErasureInv'
<1> USE DEF ErasureInv
<1>1. CASE ExpireRecord
  <2>1. /\ UNCHANGED <<latest, history, thread, index, put, del, astray>>
        /\ record' \subseteq record /\ writes' \subseteq writes
    BY <1>1 DEF ExpireRecord
  <2> QED BY <2>1 DEF KeptIndexed, KeptFound, QuietErases, Kept, PutActive
<1>2. CASE ExpireThread
  BY <1>2
  DEF ExpireThread, KeptIndexed, KeptFound, QuietErases, Kept, DelActive
<1>3. CASE UNCHANGED vars
  BY <1>3 DEF vars, KeptIndexed, KeptFound, QuietErases, Kept, PutActive
<1> QED BY <1>1, <1>2, <1>3, RunErasure, DeleteErasure DEF Next

LEMMA ErasureInit ==
  ASSUME Init
  PROVE  ErasureInv
BY DEF Init, NoDelete, ErasureInv, KeptIndexed, KeptFound, QuietErases, Kept
-----------------------------------------------------------------------------
(* Puts, their retries and losses, deletions and expiry keep the history   *)
(* and what a deletion has found as they must be.                          *)
THEOREM StoreInvariance == Spec => [](HistoryInv /\ ErasureInv)
BY HistoryInit, HistoryStep, ErasureInit, ErasureStep, Invariance, PTL DEF Spec

(* The history of a thread at rest is its newest checkpoints, as many as   *)
(* the limit allows, and with the older set it names every checkpoint that *)
(* can be read, for any number of checkpoints and retries: only ids of     *)
(* which a command was lost or met a deletion are excepted.                *)
THEOREM HistoryHoldsNewest == Spec => []HistoryIsNewest
<1>1. HistoryInv /\ ErasureInv => HistoryIsNewest
  BY DEF HistoryInv, MadeListed, HistoryShort, TrimmedOlder, ErasureInv,
         KeptIndexed, Kept, HistoryIsNewest, Listed
<1> QED BY <1>1, StoreInvariance, PTL

(* The last command of a deletion that met no run leaves nothing of the    *)
(* thread but what an earlier loss had put out of its reach.               *)
THEOREM DeletionForgets == Spec => DeleteForgets
<1>1. TypeOK /\ ErasureInv /\ DeleteCommand /\ del'.pc = "idle" /\ del.quiet =>
        /\ record' \cup writes' \subseteq astray
        /\ latest' = None /\ thread' = None /\ history' = {} /\ index' = {}
        /\ ~memory'
  <2> SUFFICES ASSUME TypeOK, ErasureInv, DeleteCommand, del'.pc = "idle",
                      del.quiet
               PROVE  /\ record' \cup writes' \subseteq astray
                      /\ latest' = None /\ thread' = None
                      /\ history' = {} /\ index' = {} /\ ~memory'
    OBVIOUS
  <2>1. DelKeys("memory", "idle")
    BY DEF DeleteCommand, DelKeys, TypeOK
  <2>2. /\ Kept = {} /\ latest = None /\ thread = None /\ history = {}
        /\ index = {}
    BY <2>1 DEF DelKeys, ErasureInv, KeptFound, QuietErases
  <2> QED BY <2>1, <2>2 DEF DelKeys, Kept
<1> QED BY <1>1, StoreInvariance, TypeCorrect, PTL DEF DeleteForgets
=============================================================================
