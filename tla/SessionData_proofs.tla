------------------------- MODULE SessionData_proofs -------------------------
(***************************************************************************)
(* Proofs about what requests leave behind, for any sessions, requests,    *)
(* texts and points and any size of a memory: the state keeps its types,   *)
(* memories name nothing twice and are written one after the other, cached *)
(* answers fit, and ratings reach their points.                            *)
(***************************************************************************)
EXTENDS SessionData, SequenceTheorems, TLAPS

-----------------------------------------------------------------------------
(* Memories: what merge and the cut make of one. *)

(* Nothing twice, and what was cut is the last thing.                      *)
Tidy(m) ==
  /\ \A i, j \in DOMAIN m : m[i] = m[j] => i = j
  /\ \A i \in DOMAIN m : m[i] = Fragment => i = Len(m)

(* A beginning of a memory is a memory, and as tidy. *)
LEMMA Beginning ==
  ASSUME NEW m \in Seq(Entry), NEW k \in 0..Len(m)
  PROVE  /\ SubSeq(m, 1, k) \in Seq(Entry)
         /\ Len(SubSeq(m, 1, k)) = k
         /\ \A i \in 1..k : SubSeq(m, 1, k)[i] = m[i]
<1>1. Len(m) \in Nat /\ \A i \in 1..k : m[i] \in Entry
  BY LenProperties, ElementOfSeq
<1>2. k \in Int /\ 1 \in Int /\ k - 1 + 1 = k
  BY <1>1
<1>3. /\ SubSeq(m, 1, k) \in Seq(Entry)
      /\ Len(SubSeq(m, 1, k)) = IF 1 <= k THEN k - 1 + 1 ELSE 0
      /\ \A i \in 1..(k - 1 + 1) : SubSeq(m, 1, k)[i] = m[1 + i - 1]
  BY <1>1, <1>2, SubSeqProperties
<1> QED BY <1>1, <1>2, <1>3

(* Without leaves the others, in their order, and not e. *)
LEMMA WithoutProperties ==
  ASSUME NEW m \in Seq(Entry), NEW e \in Entry, Tidy(m), e # Fragment
  PROVE  /\ Without(m, e) \in Seq(Entry)
         /\ Len(Without(m, e)) <= Len(m)
         /\ Tidy(Without(m, e))
         /\ \A i \in DOMAIN Without(m, e) : Without(m, e)[i] # e
<1>1. Len(m) \in Nat /\ DOMAIN m = 1..Len(m)
  BY LenProperties
<1>2. CASE ~\E i \in DOMAIN m : m[i] = e
  BY <1>1, <1>2 DEF Without
<1>3. CASE \E i \in DOMAIN m : m[i] = e
  <2> DEFINE k == CHOOSE i \in DOMAIN m : m[i] = e
             a == SubSeq(m, 1, k - 1)
             b == SubSeq(m, k + 1, Len(m))
  <2>1. k \in 1..Len(m) /\ m[k] = e
    BY <1>1, <1>3
  <2> HIDE DEF k
  <2>2. k \in Int /\ k - 1 \in 0..Len(m) /\ k + 1 \in Int /\ Len(m) \in Int
    BY <2>1, <1>1
  <2>3. /\ a \in Seq(Entry)
        /\ Len(a) = k - 1
        /\ \A i \in 1..(k - 1) : a[i] = m[i]
    BY <2>2, Beginning
  <2>4. \A i \in (k + 1)..Len(m) : m[i] \in Entry
    BY <1>1, <2>1, ElementOfSeq
  <2>5. /\ b \in Seq(Entry)
        /\ Len(b) = IF k + 1 <= Len(m) THEN Len(m) - (k + 1) + 1 ELSE 0
        /\ \A i \in 1..(Len(m) - (k + 1) + 1) : b[i] = m[k + 1 + i - 1]
    BY <2>2, <2>4, SubSeqProperties
  <2> HIDE DEF a, b
  <2>6. /\ Len(b) = Len(m) - k
        /\ \A i \in 1..(Len(m) - k) : b[i] = m[k + i]
    <3>1. \A n \in Nat : \A j \in 1..n : j <= n /\ n - (j + 1) + 1 = n - j
      OBVIOUS
    <3>2. Len(m) - (k + 1) + 1 = Len(m) - k /\ k <= Len(m)
      BY <1>1, <2>1, <3>1
    <3>3. ASSUME NEW i \in 1..(Len(m) - k)
          PROVE  b[i] = m[k + i]
      <4>1. k + 1 + i - 1 = k + i
        BY <1>1, <2>1
      <4> QED BY <2>5, <3>2, <4>1
    <3>4. Len(m) \in Nat /\ k \in 1..Len(m)
      BY <1>1, <2>1
    <3>5. \A n \in Nat : \A j \in 1..n :
            (IF j + 1 <= n THEN n - (j + 1) + 1 ELSE 0) = n - j
      OBVIOUS
    <3>6. Len(b) = Len(m) - k
      BY <2>5, <3>4, <3>5, Zenon
    <3> QED BY <3>3, <3>6
  <2> DEFINE w == a \o b
  <2>7. /\ w \in Seq(Entry)
        /\ Len(w) = Len(a) + Len(b)
        /\ \A i \in 1..(Len(a) + Len(b)) :
             w[i] = IF i <= Len(a) THEN a[i] ELSE b[i - Len(a)]
    BY <2>3, <2>5, ConcatProperties
  <2>8. Without(m, e) = w
    BY <1>3 DEF Without, k, a, b
  <2> HIDE DEF w
  <2>9. DOMAIN w = 1..Len(w) /\ Len(w) = Len(m) - 1
    BY <1>1, <2>1, <2>3, <2>6, <2>7, LenProperties
  <2> DEFINE at(i) == IF i < k THEN i ELSE i + 1
  <2>10. ASSUME NEW i \in 1..Len(w)
         PROVE  /\ at(i) \in 1..Len(m) /\ at(i) # k
                /\ w[i] = m[at(i)]
    <3>1. CASE i < k
      <4>1. i <= Len(a) /\ i \in 1..(k - 1) /\ i \in 1..(Len(a) + Len(b))
        BY <1>1, <2>1, <2>3, <2>6, <2>9, <3>1
      <4>2. w[i] = m[i]
        BY <2>3, <2>7, <4>1
      <4> QED BY <1>1, <2>1, <3>1, <4>2
    <3>2. CASE ~(i < k)
      <4>1. ~(i <= Len(a)) /\ i \in 1..(Len(a) + Len(b))
        BY <1>1, <2>1, <2>3, <2>6, <2>9, <3>2
      <4>2. /\ i - Len(a) = i - k + 1
            /\ i - k + 1 \in 1..(Len(m) - k)
            /\ k + (i - k + 1) = i + 1
        BY <1>1, <2>1, <2>3, <2>9, <3>2
      <4>3. w[i] = b[i - Len(a)]
        BY <2>7, <4>1
      <4>4. w[i] = m[i + 1]
        BY <2>6, <4>2, <4>3
      <4>5. i + 1 \in 1..Len(m) /\ i + 1 # k
        BY <1>1, <2>1, <2>9, <3>2
      <4> QED BY <3>2, <4>4, <4>5
    <3> QED BY <3>1, <3>2
  <2>11. \A i, j \in 1..Len(w) : at(i) = at(j) => i = j
    BY <1>1, <2>1, <2>9
  <2>12. \A i \in 1..Len(w) : at(i) = Len(m) => i = Len(w)
    <3>1. \A n \in Nat : \A i \in 1..(n - 1) : i # n /\ (i + 1 = n => i = n - 1)
      OBVIOUS
    <3>2. ASSUME NEW i \in 1..Len(w), at(i) = Len(m)
          PROVE  i = Len(w)
      <4>1. i \in 1..(Len(m) - 1) /\ i # Len(m)
        BY <1>1, <2>9, <3>1
      <4>2. at(i) = i \/ at(i) = i + 1
        OBVIOUS
      <4>3. i + 1 = Len(m)
        BY <3>2, <4>1, <4>2, Zenon
      <4> QED BY <1>1, <2>9, <3>1, <4>1, <4>3
    <3> QED BY <3>2
  <2> HIDE DEF at
  <2>13. \A i \in 1..Len(w) : w[i] # e
    BY <1>1, <2>1, <2>10 DEF Tidy
  <2>14. Tidy(w)
    BY <1>1, <2>9, <2>10, <2>11, <2>12 DEF Tidy
  <2> QED BY <1>1, <2>7, <2>8, <2>9, <2>13, <2>14
<1> QED BY <1>2, <1>3

(* A merged memory is a memory, tidy, and begins with the new entry. *)
LEMMA MergedProperties ==
  ASSUME NEW m \in Memory, NEW e \in Entry, Tidy(m), e # Fragment
  PROVE  /\ Merged(m, e) \in Memory
         /\ Tidy(Merged(m, e))
         /\ Merged(m, e) # <<>>
         /\ Merged(m, e)[1] = e
<1> DEFINE o == Without(m, e)
           f == <<e>> \o o
<1>1. m \in Seq(Entry) /\ KeptEntries \in Nat \ {0}
  BY SessionDataAssumption DEF Memory
<1>2. /\ o \in Seq(Entry)
      /\ Tidy(o)
      /\ \A i \in DOMAIN o : o[i] # e
  BY <1>1, WithoutProperties
<1> HIDE DEF o
<1>3. <<e>> \in Seq(Entry) /\ Len(<<e>>) = 1 /\ <<e>>[1] = e
  OBVIOUS
<1>4. /\ f \in Seq(Entry)
      /\ Len(f) = 1 + Len(o)
      /\ \A i \in 1..(1 + Len(o)) : f[i] = IF i <= 1 THEN <<e>>[i] ELSE o[i - 1]
  BY <1>2, <1>3, ConcatProperties
<1>5. Len(o) \in Nat /\ DOMAIN o = 1..Len(o) /\ DOMAIN f = 1..Len(f)
  BY <1>2, <1>4, LenProperties
<1> HIDE DEF f
<1>6. f[1] = e /\ \A i \in 2..Len(f) : i - 1 \in DOMAIN o /\ f[i] = o[i - 1]
  BY <1>3, <1>4, <1>5
<1>7. Tidy(f)
  <2>1. ASSUME NEW i \in DOMAIN f, NEW j \in DOMAIN f, f[i] = f[j]
        PROVE  i = j
    <3>1. CASE i = 1 \/ j = 1
      BY <1>2, <1>5, <1>6, <2>1, <3>1
    <3>2. CASE i # 1 /\ j # 1
      <4>1. i - 1 \in DOMAIN o /\ j - 1 \in DOMAIN o /\ o[i - 1] = o[j - 1]
        BY <1>4, <1>5, <1>6, <2>1, <3>2
      <4>2. i - 1 = j - 1
        BY <4>1, <1>2 DEF Tidy
      <4> QED BY <4>2, <1>4, <1>5
    <3> QED BY <3>1, <3>2
  <2>2. ASSUME NEW i \in DOMAIN f, f[i] = Fragment
        PROVE  i = Len(f)
    <3>1. i # 1 /\ i \in 2..Len(f)
      BY <1>4, <1>5, <1>6, <2>2
    <3>2. i - 1 \in DOMAIN o /\ o[i - 1] = Fragment
      BY <1>6, <2>2, <3>1
    <3>3. i - 1 = Len(o)
      BY <3>2, <1>2 DEF Tidy
    <3> QED BY <3>1, <3>3, <1>4, <1>5
  <2> QED BY <2>1, <2>2 DEF Tidy
<1>8. CASE Len(f) <= KeptEntries
  <2>1. Merged(m, e) = f
    BY <1>8 DEF Merged, First, f, o
  <2> QED BY <1>1, <1>4, <1>5, <1>6, <1>7, <1>8, <2>1 DEF Memory
<1>9. CASE ~(Len(f) <= KeptEntries)
  <2> DEFINE g == SubSeq(f, 1, KeptEntries)
  <2>1. Merged(m, e) = g
    BY <1>9 DEF Merged, First, f, o
  <2>2. KeptEntries \in 0..Len(f)
    BY <1>1, <1>4, <1>5, <1>9
  <2>3. /\ g \in Seq(Entry) /\ Len(g) = KeptEntries
        /\ \A i \in 1..KeptEntries : g[i] = f[i]
    BY <1>4, <2>2, Beginning
  <2> HIDE DEF g
  <2>4. DOMAIN g = 1..KeptEntries
    BY <2>3, LenProperties
  <2>5. \A i \in DOMAIN g : i \in DOMAIN f /\ g[i] = f[i] /\ i # Len(f)
    BY <1>1, <1>4, <1>5, <1>9, <2>3, <2>4
  <2>6. Tidy(g)
    BY <1>7, <2>5 DEF Tidy
  <2>7. 1 \in DOMAIN g /\ g[1] = e
    BY <1>1, <1>6, <2>3, <2>4
  <2>8. g # <<>>
    BY <2>3, <1>1
  <2> QED BY <1>1, <2>1, <2>3, <2>6, <2>7, <2>8 DEF Memory
<1> QED BY <1>8, <1>9
(* What is written: the merged memory, or a beginning of it and the cut. *)
LEMMA CutProperties ==
  ASSUME NEW m \in Memory, Tidy(m), m # <<>>, NEW w \in Cuts(m)
  PROVE  /\ w \in Memory
         /\ Tidy(w)
         /\ w[1] \in {m[1], Fragment}
<1>1. m \in Seq(Entry) /\ Len(m) \in Nat /\ Len(m) <= KeptEntries
  BY LenProperties DEF Memory
<1>2. CASE w = m
  BY <1>2
<1>3. CASE w # m
  <2>1. PICK k \in 0..(Len(m) - 1) : w = Append(SubSeq(m, 1, k), Fragment)
    BY <1>3 DEF Cuts
  <2> DEFINE b == SubSeq(m, 1, k)
  <2> DEFINE n == Len(m)
  <2>12. n \in Nat /\ n <= KeptEntries /\ k \in 0..(n - 1) /\ KeptEntries \in Nat
    BY <1>1, SessionDataAssumption
  <2> HIDE DEF n
  <2>2. /\ k \in Nat /\ k \in 0..n /\ k + 1 <= n /\ k + 1 <= KeptEntries
        /\ \A i \in 1..k : i \in 1..n /\ i # n
    BY <2>12
  <2>3. /\ b \in Seq(Entry) /\ Len(b) = k
        /\ \A i \in 1..k : b[i] = m[i]
    BY <1>1, <2>2, Beginning DEF n
  <2> HIDE DEF b
  <2>4. Fragment \in Entry
    BY DEF Entry
  <2>5. /\ w \in Seq(Entry)
        /\ Len(w) = k + 1
        /\ \A i \in 1..k : w[i] = m[i]
        /\ w[k + 1] = Fragment
    BY <2>1, <2>3, <2>4, AppendProperties DEF b
  <2>6. DOMAIN w = 1..(k + 1) /\ DOMAIN m = 1..n
    BY <1>1, <2>5, LenProperties DEF n
  <2>7. ASSUME NEW i \in 1..k
        PROVE  i \in DOMAIN m /\ w[i] = m[i] /\ w[i] # Fragment
    <3>1. i \in DOMAIN m /\ i # n
      BY <2>2, <2>6
    <3> QED BY <2>5, <3>1 DEF Tidy, n
  <2>8. \A i \in DOMAIN w : i \in 1..k \/ i = k + 1
    BY <2>2, <2>6
  <2>9. Tidy(w)
    BY <2>2, <2>5, <2>7, <2>8 DEF Tidy
  <2>10. w[1] \in {m[1], Fragment}
    <3>1. k = 0 \/ 1 \in 1..k
      BY <2>2
    <3> QED BY <2>5, <3>1
  <2>11. w \in Memory
    BY <2>2, <2>5 DEF Memory
  <2> QED BY <2>9, <2>10, <2>11
<1> QED BY <1>2, <1>3

LEMMA WrittenProperties ==
  ASSUME NEW m \in Memory, NEW e \in Entry, Tidy(m), e # Fragment,
         NEW w \in Cuts(Merged(m, e))
  PROVE  /\ w \in Memory
         /\ Tidy(w)
         /\ w[1] \in {e, Fragment}
BY MergedProperties, CutProperties

LEMMA EmptyMemory ==
  <<>> \in Memory /\ Tidy(<<>>)
BY SessionDataAssumption DEF Memory, Tidy

-----------------------------------------------------------------------------
(* Types. *)

Pcs == {"idle", "locked", "loaded", "graph", "answered", "persisting",
        "keeping", "served", "releasing", "adding", "rating", "updating",
        "done"}

Whats == Prompts \cup Notes \cup Ratings \cup {None}

LEMMA RequestType ==
  ASSUME NEW op \in Ops, NEW s \in Sessions \cup {None}, NEW pc \in Pcs,
         NEW what \in Whats, NEW mem \in Memory, NEW got \in SUBSET Answer
  PROVE  Request(op, s, pc, what, mem, got) \in Call
BY DEF Request, Call, Pcs, Whats

LEMMA CallFields ==
  ASSUME TypeOK, NEW c \in Callers
  PROVE  /\ call[c] \in Call
         /\ call[c].op \in Ops /\ call[c].s \in Sessions \cup {None}
         /\ call[c].pc \in Pcs /\ call[c].what \in Whats
         /\ call[c].mem \in Memory
         /\ call[c].todo \in SUBSET Points /\ call[c].done \in SUBSET Points
         /\ call[c].got \in SUBSET Answer
BY DEF TypeOK, Call, Pcs, Whats

(* One request changes, to x. *)
Becomes(c, x) == call' = [call EXCEPT ![c] = x]

LEMMA BecomesType ==
  ASSUME TypeOK, NEW c \in Callers, NEW x \in Call, Becomes(c, x)
  PROVE  /\ call' \in [Callers -> Call]
         /\ call'[c] = x
         /\ \A d \in Callers \ {c} : call'[d] = call[d]
BY DEF TypeOK, Becomes

LEMMA GoToType ==
  ASSUME TypeOK, NEW c \in Callers, NEW pc \in Pcs, GoTo(c, pc)
  PROVE  /\ call' \in [Callers -> Call]
         /\ call'[c] = [call[c] EXCEPT !.pc = pc]
         /\ call'[c].pc = pc /\ call'[c].op = call[c].op
         /\ call'[c].s = call[c].s /\ call'[c].what = call[c].what
         /\ call'[c].mem = call[c].mem /\ call'[c].got = call[c].got
         /\ \A d \in Callers \ {c} : call'[d] = call[d]
<1>1. [call[c] EXCEPT !.pc = pc] \in Call
  BY CallFields DEF Call, Pcs
<1>2. call' = [call EXCEPT ![c] = [call[c] EXCEPT !.pc = pc]]
  BY DEF GoTo
<1>3. /\ call' \in [Callers -> Call]
      /\ call'[c] = [call[c] EXCEPT !.pc = pc]
      /\ \A d \in Callers \ {c} : call'[d] = call[d]
  BY <1>1, <1>2, BecomesType DEF Becomes
<1> QED BY <1>3, CallFields DEF Call

LEMMA LeaveType ==
  ASSUME TypeOK, NEW c \in Callers, Leave(c)
  PROVE  /\ call' \in [Callers -> Call]
         /\ call'[c] = Quiet("done")
         /\ \A d \in Callers \ {c} : call'[d] = call[d]
<1>1. Quiet("done") \in Call
  BY EmptyMemory, RequestType DEF Quiet, Ops, Locking, Pcs, Whats
<1> QED BY <1>1, BecomesType DEF Leave, Becomes

LEMMA BeginType ==
  ASSUME TypeOK, NEW c \in Callers, NEW op \in Ops, NEW s \in Sessions,
         NEW pc \in Pcs, NEW what \in Whats, NEW mem \in Memory,
         Begin(c, op, s, pc, what, mem)
  PROVE  /\ call' \in [Callers -> Call]
         /\ call'[c] = Request(op, s, pc, what, mem, {})
         /\ \A d \in Callers \ {c} : call'[d] = call[d]
<1>1. Request(op, s, pc, what, mem, {}) \in Call
  BY RequestType
<1> QED BY <1>1, BecomesType DEF Begin, Becomes
-----------------------------------------------------------------------------
(* Every request is where its kind can be. *)

Work == {"locked", "loaded", "graph", "answered", "persisting", "keeping",
         "served", "releasing"}

Sane(c) ==
  /\ call[c].pc \notin {"idle", "done"} => call[c].s \in Sessions
  /\ call[c].pc \in Work => call[c].op \in Locking /\ call[c].what \in Prompts
  /\ call[c].pc = "adding" => call[c].op = "add" /\ call[c].what \in Notes
  /\ call[c].pc \in {"rating", "updating"} =>
       call[c].op = "rate" /\ call[c].what \in Ratings
  /\ call[c].pc \in {"graph", "answered", "served"} =>
       call[c].op = "run" /\ fp # 0

TInv ==
  /\ TypeOK
  /\ fp <= head
  /\ \A c \in Callers : Sane(c)

LEMMA FingerprintType ==
  ASSUME TInv
  PROVE  Fingerprint \in 1..MaxHead /\ Fingerprint <= head
BY SessionDataAssumption DEF TInv, TypeOK, Fingerprint

(* It is enough to look at the request that moves. *)
LEMMA SaneStep ==
  ASSUME TInv, NEW c \in Callers, fp' \in {fp, Fingerprint},
         \A d \in Callers \ {c} : call'[d] = call[d],
         Sane(c)'
  PROVE  \A d \in Callers : Sane(d)'
<1>1. fp # 0 => fp' # 0
  BY FingerprintType
<1>2. ASSUME NEW d \in Callers \ {c}
      PROVE  Sane(d)'
  <2>1. Sane(d) /\ call'[d] = call[d]
    BY DEF TInv
  <2> QED BY <1>1, <2>1 DEF Sane
<1> QED BY <1>2

(* What does not touch the requests, or what they are held against. *)
LEMMA TypeFrame ==
  ASSUME TypeOK,
         lock' \in [Sessions -> Callers \cup {None}],
         memory' \in [Sessions -> Memory],
         ids' \in [Sessions -> SUBSET Points],
         stats' \in [Sessions -> Stats],
         cache' \in SUBSET [key : Key, answer : Answer],
         salience' \in [Points -> Ratings \cup {"stored"}],
         head' \in 1..MaxHead,
         fp' \in 0..MaxHead,
         call' \in [Callers -> Call],
         crossed' \in SUBSET Callers,
         muddled' \in SUBSET Sessions
  PROVE  TypeOK'
BY DEF TypeOK

(* An action of request c that leaves head alone. *)
LEMMA TInvStep ==
  ASSUME TInv, NEW c \in Callers, TypeOK', UNCHANGED head,
         fp' \in {fp, Fingerprint},
         \A d \in Callers \ {c} : call'[d] = call[d],
         Sane(c)'
  PROVE  TInv'
BY SaneStep, FingerprintType DEF TInv

LEMMA AcquireType ==
  ASSUME TInv, NEW c \in Callers, NEW s \in Sessions, NEW p \in Prompts,
         NEW op \in Locking, Acquire(c, op, s, p)
  PROVE  /\ TInv'
         /\ call[c].pc = "idle"
         /\ call'[c] = Request(op, s, "locked", p, <<>>, {})
         /\ \A d \in Callers \ {c} : call'[d] = call[d]
<1>1. TypeOK
  BY DEF TInv
<1>2. /\ op \in Ops /\ p \in Whats /\ "locked" \in Pcs /\ <<>> \in Memory
      /\ Begin(c, op, s, "locked", p, <<>>)
  BY EmptyMemory DEF Acquire, Ops, Whats, Pcs
<1>3. /\ call' \in [Callers -> Call]
      /\ call'[c] = Request(op, s, "locked", p, <<>>, {})
      /\ \A d \in Callers \ {c} : call'[d] = call[d]
  BY <1>1, <1>2, BeginType
<1>4. /\ lock' \in [Sessions -> Callers \cup {None}]
      /\ crossed' \in SUBSET Callers
  BY <1>1 DEF Acquire, TypeOK
<1>5. TypeOK'
  BY <1>1, <1>3, <1>4, TypeFrame DEF Acquire, TypeOK
<1>6. Sane(c)'
  BY <1>3 DEF Sane, Request, Work, Locking
<1> QED BY <1>1, <1>2, <1>3, <1>5, <1>6, TInvStep DEF Acquire, Begin, At

LEMMA LoadType ==
  ASSUME TInv, NEW c \in Callers, Load(c)
  PROVE  /\ TInv'
         /\ call[c].pc = "locked"
         /\ \/ /\ call'[c] = Request(call[c].op, call[c].s, "loaded",
                                     call[c].what, memory[call[c].s], {})
               /\ UNCHANGED crossed
            \/ /\ call'[c] = Request(call[c].op, call[c].s, "loaded",
                                     call[c].what, <<>>, {})
               /\ crossed' = crossed \cup {c}
         /\ \A d \in Callers \ {c} : call'[d] = call[d]
<1>1. TypeOK /\ Sane(c) /\ call[c].pc = "locked"
  BY DEF TInv, Load, At
<1>2. call[c].s \in Sessions /\ call[c].op \in Locking /\ call[c].what \in Prompts
  BY <1>1 DEF Sane, Work
<1> DEFINE Loaded(m) == Request(call[c].op, call[c].s, "loaded", call[c].what,
                                m, {})
<1>3. \A m \in Memory : Loaded(m) \in Call
  BY <1>1, <1>2, RequestType DEF Ops, Whats, Pcs
<1>4. PICK m \in Memory :
        /\ Becomes(c, Loaded(m))
        /\ \/ m = memory[call[c].s] /\ UNCHANGED crossed
           \/ m = <<>> /\ crossed' = crossed \cup {c}
  BY <1>1, <1>2, EmptyMemory DEF Load, TypeOK, Becomes
<1>5. /\ call' \in [Callers -> Call]
      /\ call'[c] = Loaded(m)
      /\ \A d \in Callers \ {c} : call'[d] = call[d]
  BY <1>1, <1>3, <1>4, BecomesType
<1>6. crossed' \in SUBSET Callers
  BY <1>1, <1>4 DEF TypeOK
<1>7. TypeOK'
  BY <1>1, <1>5, <1>6, TypeFrame DEF Load, TypeOK
<1>8. Sane(c)'
  BY <1>2, <1>5 DEF Sane, Request, Work, Locking
<1> QED BY <1>1, <1>4, <1>5, <1>7, <1>8, TInvStep DEF Load

LEMMA LookupType ==
  ASSUME TInv, NEW c \in Callers, Lookup(c)
  PROVE  /\ TInv'
         /\ call[c].pc = "loaded" /\ call[c].op = "run"
         /\ fp' = Fingerprint
         /\ cache' \subseteq cache
         /\ call'[c].s = call[c].s /\ call'[c].op = call[c].op
         /\ call'[c].mem = call[c].mem /\ call'[c].what = call[c].what
         /\ \/ call'[c].pc = "graph"
            \/ /\ call'[c].pc = "served"
               /\ call'[c].got =
                    {x.answer : x \in {y \in cache : y.key = KeyOf(fp', c)}}
         /\ \A d \in Callers \ {c} : call'[d] = call[d]
<1>1. TypeOK /\ Sane(c) /\ call[c].pc = "loaded" /\ call[c].op = "run"
  BY DEF TInv, Lookup, At
<1>2. call[c].s \in Sessions /\ call[c].what \in Prompts
  BY <1>1 DEF Sane, Work
<1>3. fp' = Fingerprint /\ fp' \in 0..MaxHead /\ fp' # 0
  BY FingerprintType DEF Lookup
<1> DEFINE hits == {y \in cache : y.key = KeyOf(fp', c)}
           got == {x.answer : x \in hits}
<1>4. got \in SUBSET Answer
  BY <1>1 DEF TypeOK
<1>5. CASE /\ call' = [call EXCEPT ![c] =
                Request("run", call[c].s, "served", call[c].what,
                        call[c].mem, got)]
           /\ UNCHANGED cache
  <2> DEFINE x == Request("run", call[c].s, "served", call[c].what,
                          call[c].mem, got)
  <2> HIDE DEF got
  <2>1. x \in Call
    BY <1>1, <1>2, <1>4, CallFields, RequestType DEF Ops, Locking, Whats, Pcs
  <2>2. /\ call' \in [Callers -> Call]
        /\ call'[c] = x
        /\ \A d \in Callers \ {c} : call'[d] = call[d]
    BY <1>1, <1>5, <2>1, BecomesType DEF Becomes
  <2>3. TypeOK'
    BY <1>1, <1>3, <1>5, <2>2, TypeFrame DEF Lookup, TypeOK
  <2>4. /\ call'[c].op = "run" /\ call'[c].s = call[c].s
        /\ call'[c].pc = "served" /\ call'[c].what = call[c].what
        /\ call'[c].mem = call[c].mem /\ call'[c].got = got
    BY <2>2 DEF Request
  <2>5. Sane(c)'
    BY <1>2, <1>3, <2>4 DEF Sane, Work, Locking
  <2>6. TInv'
    BY <1>3, <2>2, <2>3, <2>5, TInvStep DEF Lookup
  <2> QED BY <1>1, <1>3, <1>5, <2>2, <2>4, <2>6 DEF got
<1>6. CASE cache' = cache \ hits /\ GoTo(c, "graph")
  <2>1. /\ call' \in [Callers -> Call]
        /\ call'[c].pc = "graph" /\ call'[c].op = call[c].op
        /\ call'[c].s = call[c].s /\ call'[c].what = call[c].what
        /\ call'[c].mem = call[c].mem
        /\ \A d \in Callers \ {c} : call'[d] = call[d]
    BY <1>1, <1>6, GoToType DEF Pcs
  <2>2. cache' \in SUBSET [key : Key, answer : Answer] /\ cache' \subseteq cache
    BY <1>1, <1>6 DEF TypeOK
  <2>3. TypeOK'
    BY <1>1, <1>3, <2>1, <2>2, TypeFrame DEF Lookup, TypeOK
  <2>4. Sane(c)'
    BY <1>1, <1>2, <1>3, <2>1 DEF Sane, Work, Locking
  <2>5. TInv'
    BY <1>3, <2>1, <2>3, <2>4, TInvStep DEF Lookup
  <2> QED BY <1>1, <1>3, <2>1, <2>2, <2>5
<1> QED BY <1>5, <1>6 DEF Lookup
(* A locking request goes on: only pc changes of what it is. *)
Goes(c, pc) ==
  /\ call'[c].pc = pc /\ call'[c].op = call[c].op
  /\ call'[c].s = call[c].s /\ call'[c].what = call[c].what
  /\ call'[c].mem = call[c].mem /\ call'[c].got = call[c].got
  /\ \A d \in Callers \ {c} : call'[d] = call[d]

LEMMA GoesType ==
  ASSUME TInv, NEW c \in Callers, NEW pc \in Work, call[c].pc \in Work,
         GoTo(c, pc),
         pc \in {"graph", "answered", "served"} =>
           call[c].op = "run" /\ fp' # 0,
         lock' \in [Sessions -> Callers \cup {None}],
         memory' \in [Sessions -> Memory],
         ids' \in [Sessions -> SUBSET Points],
         cache' \in SUBSET [key : Key, answer : Answer],
         salience' \in [Points -> Ratings \cup {"stored"}],
         crossed' \in SUBSET Callers,
         muddled' \in SUBSET Sessions,
         UNCHANGED <<stats, head>>, fp' \in {fp, Fingerprint}
  PROVE  TInv' /\ Goes(c, pc)
<1>1. TypeOK /\ Sane(c)
  BY DEF TInv
<1>2. pc \in Pcs
  BY DEF Pcs, Work
<1>3. call' \in [Callers -> Call] /\ Goes(c, pc)
  BY <1>1, <1>2, GoToType DEF Goes
<1>4. fp' \in 0..MaxHead
  BY <1>1, FingerprintType DEF TypeOK
<1>5. TypeOK'
  BY <1>1, <1>3, <1>4, TypeFrame DEF TypeOK
<1>6. Sane(c)'
  BY <1>1, <1>3 DEF Sane, Work, Goes
<1> QED BY <1>3, <1>5, <1>6, TInvStep DEF Goes

LEMMA RatersType ==
  ASSUME NEW p, NEW s
  PROVE  Raters(p, s) \in SUBSET Sessions
BY DEF Raters

LEMMA GraphAnswersType ==
  ASSUME TInv, NEW c \in Callers, GraphAnswers(c)
  PROVE  /\ TInv'
         /\ call[c].pc \in {"loaded", "graph"}
         /\ \/ Goes(c, "answered") /\ call[c].pc = "graph"
            \/ Goes(c, "persisting")
<1>1. TypeOK /\ Sane(c) /\ call[c].pc \in {"loaded", "graph"}
  BY DEF TInv, GraphAnswers, At
<1>2. /\ salience' \in [Points -> Ratings \cup {"stored"}]
      /\ muddled' \in SUBSET Sessions
  BY <1>1, RatersType DEF GraphAnswers, TypeOK
<1>3. call[c].op = "run" => call[c].pc = "graph" /\ fp # 0
  BY <1>1 DEF GraphAnswers, At, Sane
<1>4. PICK pc \in {"answered", "persisting"} :
        /\ GoTo(c, pc)
        /\ pc = "answered" <=> call[c].op = "run"
  BY <1>1 DEF GraphAnswers
<1>5. TInv' /\ Goes(c, pc)
  BY <1>1, <1>2, <1>3, <1>4, GoesType DEF GraphAnswers, TypeOK, Work
<1> QED BY <1>1, <1>3, <1>4, <1>5

LEMMA NoAnswerType ==
  ASSUME TInv, NEW c \in Callers, NoAnswer(c)
  PROVE  TInv' /\ Goes(c, "releasing") /\ call[c].pc \in {"loaded", "graph"}
<1>1. TypeOK
  BY DEF TInv
<1> QED BY <1>1, GoesType DEF NoAnswer, TypeOK, Work

LEMMA KeyType ==
  ASSUME TInv, NEW c \in Callers, call[c].pc \in {"graph", "answered"}
  PROVE  /\ KeyOf(fp, c) \in Key
         /\ [prompt |-> call[c].what, mem |-> call[c].mem, head |-> head]
              \in Answer
<1>1. /\ fp \in 1..MaxHead /\ head \in 1..MaxHead
      /\ call[c].what \in Prompts /\ call[c].mem \in Memory
  BY SessionDataAssumption, CallFields DEF TInv, TypeOK, Sane, Work
<1> QED BY <1>1 DEF KeyOf, Key, Answer

LEMMA StoreType ==
  ASSUME TInv, NEW c \in Callers, Store(c)
  PROVE  /\ TInv'
         /\ call[c].pc = "answered"
         /\ Goes(c, "persisting") \/ Goes(c, "releasing")
<1>1. TypeOK /\ call[c].pc = "answered"
  BY DEF TInv, Store, At
<1>2. cache' \in SUBSET [key : Key, answer : Answer]
  BY <1>1, KeyType DEF Store, TypeOK
<1>3. PICK pc \in {"persisting", "releasing"} : GoTo(c, pc)
  BY DEF Store
<1>4. TInv' /\ Goes(c, pc)
  BY <1>1, <1>2, <1>3, GoesType DEF Store, TypeOK, Work
<1> QED BY <1>1, <1>4

(* Only a memory of its session, and only one that Cuts allows. *)
LEMMA WriteMemoryType ==
  ASSUME TInv, NEW c \in Callers, NEW done \in SUBSET Callers,
         call[c].mem \in Memory, Tidy(call[c].mem), call[c].s \in Sessions,
         EntryOf(c) \in Callers \cup Notes,
         WriteMemory(c, done)
  PROVE  /\ memory' \in [Sessions -> Memory]
         /\ memory'[call[c].s] \in Cuts(Merged(call[c].mem, EntryOf(c)))
         /\ Tidy(memory'[call[c].s])
         /\ memory'[call[c].s][1] \in {EntryOf(c), Fragment}
         /\ \A s \in Sessions \ {call[c].s} : memory'[s] = memory[s]
         /\ crossed' = (crossed \cup Crossing(c, call[c].s)) \ done
         /\ crossed' \in SUBSET Callers
<1>1. EntryOf(c) \in Entry /\ EntryOf(c) # Fragment
  BY SessionDataAssumption DEF Entry
<1>2. memory \in [Sessions -> Memory] /\ crossed \in SUBSET Callers
  BY DEF TInv, TypeOK
<1>3. PICK w \in Cuts(Merged(call[c].mem, EntryOf(c))) :
        memory' = [memory EXCEPT ![call[c].s] = w]
  BY DEF WriteMemory
<1>4. w \in Memory /\ Tidy(w) /\ w[1] \in {EntryOf(c), Fragment}
  BY <1>1, <1>3, WrittenProperties
<1>5. crossed' = (crossed \cup Crossing(c, call[c].s)) \ done
  BY DEF WriteMemory
<1>6. Crossing(c, call[c].s) \in SUBSET Callers
  BY DEF Crossing
<1> QED BY <1>2, <1>3, <1>4, <1>5, <1>6

(* The memories are tidy, and so are those that requests have read.        *)
TidyInv ==
  /\ \A s \in Sessions : Tidy(memory[s])
  /\ \A c \in Callers : Tidy(call[c].mem)

LEMMA PersistType ==
  ASSUME TInv, TidyInv, NEW c \in Callers, Persist(c)
  PROVE  /\ TInv'
         /\ call[c].pc = "persisting" /\ EntryOf(c) = c
         /\ call[c].s \in Sessions /\ call[c].op \in Locking
         /\ Goes(c, "keeping")
         /\ \/ /\ WriteMemory(c, {})
               /\ memory'[call[c].s] \in Cuts(Merged(call[c].mem, c))
               /\ Tidy(memory'[call[c].s])
               /\ memory'[call[c].s][1] \in {c, Fragment}
               /\ \A s \in Sessions \ {call[c].s} : memory'[s] = memory[s]
               /\ crossed' = crossed \cup Crossing(c, call[c].s)
            \/ UNCHANGED <<memory, crossed>>
<1>1. TypeOK /\ Sane(c) /\ call[c].pc = "persisting"
  BY DEF TInv, Persist, At
<1>2. call[c].s \in Sessions /\ call[c].op \in Locking /\ call[c].mem \in Memory
  BY <1>1, CallFields DEF Sane, Work
<1>3. EntryOf(c) = c
  BY <1>2 DEF EntryOf, Locking
<1>4. CASE WriteMemory(c, {})
  <2>1. /\ memory' \in [Sessions -> Memory]
        /\ memory'[call[c].s] \in Cuts(Merged(call[c].mem, c))
        /\ Tidy(memory'[call[c].s])
        /\ memory'[call[c].s][1] \in {c, Fragment}
        /\ \A s \in Sessions \ {call[c].s} : memory'[s] = memory[s]
        /\ crossed' = crossed \cup Crossing(c, call[c].s)
        /\ crossed' \in SUBSET Callers
    BY <1>2, <1>3, <1>4, WriteMemoryType DEF TidyInv
  <2>2. TInv' /\ Goes(c, "keeping")
    BY <1>1, <2>1, GoesType DEF Persist, TypeOK, Work
  <2> QED BY <1>1, <1>2, <1>3, <1>4, <2>1, <2>2
<1>5. CASE UNCHANGED <<memory, crossed>>
  <2>1. TInv' /\ Goes(c, "keeping")
    BY <1>1, <1>5, GoesType DEF Persist, TypeOK, Work
  <2> QED BY <1>1, <1>2, <1>3, <1>5, <2>1
<1> QED BY <1>4, <1>5 DEF Persist

LEMMA KeepIdsType ==
  ASSUME TInv, NEW c \in Callers, KeepIds(c)
  PROVE  TInv' /\ Goes(c, "releasing") /\ call[c].pc = "keeping"
<1>1. TypeOK /\ Sane(c) /\ call[c].pc = "keeping"
  BY DEF TInv, KeepIds, At
<1>2. ids' \in [Sessions -> SUBSET Points]
  BY <1>1 DEF KeepIds, TypeOK
<1> QED BY <1>1, <1>2, GoesType DEF KeepIds, TypeOK, Work

(* A request is over. *)
LEMMA OverType ==
  ASSUME TInv, NEW c \in Callers, Leave(c),
         lock' \in [Sessions -> Callers \cup {None}],
         memory' \in [Sessions -> Memory],
         ids' \in [Sessions -> SUBSET Points],
         stats' \in [Sessions -> Stats],
         crossed' \in SUBSET Callers,
         muddled' \in SUBSET Sessions,
         UNCHANGED <<cache, salience, head, fp>>
  PROVE  /\ TInv'
         /\ call'[c].pc = "done" /\ call'[c].mem = <<>>
         /\ \A d \in Callers \ {c} : call'[d] = call[d]
<1>1. TypeOK
  BY DEF TInv
<1>2. /\ call' \in [Callers -> Call]
      /\ call'[c] = Quiet("done")
      /\ \A d \in Callers \ {c} : call'[d] = call[d]
  BY <1>1, LeaveType
<1>3. TypeOK'
  BY <1>1, <1>2, TypeFrame DEF TypeOK
<1>4. Sane(c)' /\ call'[c].pc = "done" /\ call'[c].mem = <<>>
  BY <1>2 DEF Sane, Quiet, Request, Work
<1> QED BY <1>2, <1>3, <1>4, TInvStep

LEMMA ReleaseType ==
  ASSUME TInv, NEW c \in Callers, Release(c)
  PROVE  /\ TInv'
         /\ call'[c].pc = "done" /\ call'[c].mem = <<>>
         /\ \A d \in Callers \ {c} : call'[d] = call[d]
<1>1. TypeOK
  BY DEF TInv
<1>2. /\ lock' \in [Sessions -> Callers \cup {None}]
      /\ crossed' \in SUBSET Callers
  BY <1>1 DEF Release, TypeOK
<1> QED BY <1>1, <1>2, OverType DEF Release, TypeOK
LEMMA AddEntryType ==
  ASSUME TInv, TidyInv, NEW c \in Callers, NEW s \in Sessions, NEW n \in Notes,
         AddEntry(c, s, n)
  PROVE  /\ TInv'
         /\ call[c].pc = "idle"
         /\ \/ /\ call'[c] = Request("add", s, "adding", n, memory[s], {})
               /\ UNCHANGED crossed
            \/ /\ call'[c] = Request("add", s, "adding", n, <<>>, {})
               /\ crossed' = crossed \cup {c}
         /\ \A d \in Callers \ {c} : call'[d] = call[d]
<1>1. TypeOK
  BY DEF TInv
<1>2. /\ "add" \in Ops /\ n \in Whats /\ "adding" \in Pcs
      /\ <<>> \in Memory /\ memory[s] \in Memory
  BY <1>1, EmptyMemory DEF TypeOK, Ops, Whats, Pcs
<1>3. PICK m \in Memory :
        /\ Begin(c, "add", s, "adding", n, m)
        /\ \/ m = memory[s] /\ UNCHANGED crossed
           \/ m = <<>> /\ crossed' = crossed \cup {c}
  BY <1>2 DEF AddEntry
<1>4. /\ call' \in [Callers -> Call]
      /\ call'[c] = Request("add", s, "adding", n, m, {})
      /\ \A d \in Callers \ {c} : call'[d] = call[d]
  BY <1>1, <1>2, <1>3, BeginType
<1>5. crossed' \in SUBSET Callers
  BY <1>1, <1>3 DEF TypeOK
<1>6. TypeOK'
  BY <1>1, <1>4, <1>5, TypeFrame DEF AddEntry, TypeOK
<1>7. Sane(c)'
  BY <1>4 DEF Sane, Request, Work
<1>8. call[c].pc = "idle"
  BY <1>3 DEF Begin, At
<1> QED BY <1>3, <1>4, <1>6, <1>7, <1>8, TInvStep DEF AddEntry

LEMMA WriteEntryType ==
  ASSUME TInv, TidyInv, NEW c \in Callers, WriteEntry(c)
  PROVE  /\ TInv'
         /\ call[c].pc = "adding" /\ call[c].s \in Sessions
         /\ call[c].op = "add"
         /\ call'[c].pc = "done" /\ call'[c].mem = <<>>
         /\ \A d \in Callers \ {c} : call'[d] = call[d]
         /\ \/ /\ memory'[call[c].s] \in Cuts(Merged(call[c].mem, EntryOf(c)))
               /\ Tidy(memory'[call[c].s])
               /\ memory'[call[c].s][1] \in {EntryOf(c), Fragment}
               /\ \A s \in Sessions \ {call[c].s} : memory'[s] = memory[s]
               /\ crossed' = (crossed \cup Crossing(c, call[c].s)) \ {c}
            \/ UNCHANGED memory /\ crossed' = crossed \ {c}
<1>1. TypeOK /\ Sane(c) /\ call[c].pc = "adding"
  BY DEF TInv, WriteEntry, At
<1>2. /\ call[c].s \in Sessions /\ call[c].mem \in Memory
      /\ call[c].op = "add" /\ EntryOf(c) \in Notes
  BY <1>1, CallFields DEF Sane, EntryOf
<1>3. CASE WriteMemory(c, {c})
  <2>1. /\ memory' \in [Sessions -> Memory]
        /\ memory'[call[c].s] \in Cuts(Merged(call[c].mem, EntryOf(c)))
        /\ Tidy(memory'[call[c].s])
        /\ memory'[call[c].s][1] \in {EntryOf(c), Fragment}
        /\ \A s \in Sessions \ {call[c].s} : memory'[s] = memory[s]
        /\ crossed' = (crossed \cup Crossing(c, call[c].s)) \ {c}
        /\ crossed' \in SUBSET Callers
    BY <1>2, <1>3, WriteMemoryType DEF TidyInv
  <2> QED BY <1>1, <1>2, <2>1, OverType DEF WriteEntry, TypeOK
<1>4. CASE crossed' = crossed \ {c} /\ UNCHANGED memory
  BY <1>1, <1>2, <1>4, OverType DEF WriteEntry, TypeOK
<1> QED BY <1>3, <1>4 DEF WriteEntry

LEMMA ClearType ==
  ASSUME TInv, NEW c \in Callers, NEW s \in Sessions,
         Clear(c, s) \/ DeleteSession(c, s)
  PROVE  /\ TInv'
         /\ memory' = [memory EXCEPT ![s] = <<>>]
         /\ crossed' = crossed \cup {d \in Callers : InWindow(d, s)}
         /\ call[c].pc = "idle"
         /\ call'[c].pc = "done" /\ call'[c].mem = <<>>
         /\ \A d \in Callers \ {c} : call'[d] = call[d]
<1>1. TypeOK
  BY DEF TInv
<1>2. /\ memory' = [memory EXCEPT ![s] = <<>>]
      /\ crossed' = crossed \cup {d \in Callers : InWindow(d, s)}
      /\ Leave(c) /\ call[c].pc = "idle"
      /\ UNCHANGED <<lock, stats, cache, salience, head, fp, muddled>>
      /\ ids' = ids \/ ids' = [ids EXCEPT ![s] = {}]
  BY DEF Clear, DeleteSession, At
<1>3. memory' \in [Sessions -> Memory] /\ crossed' \in SUBSET Callers
  BY <1>1, <1>2, EmptyMemory DEF TypeOK
<1>4. ids' \in [Sessions -> SUBSET Points]
  BY <1>1, <1>2 DEF TypeOK
<1> QED BY <1>1, <1>2, <1>3, <1>4, OverType DEF TypeOK

LEMMA SubmitType ==
  ASSUME TInv, NEW c \in Callers, NEW s \in Sessions, NEW r \in Ratings,
         Submit(c, s, r)
  PROVE  /\ TInv'
         /\ call[c].pc = "idle"
         /\ call'[c] = Request("rate", s, "rating", r, <<>>, {})
         /\ \A d \in Callers \ {c} : call'[d] = call[d]
<1>1. TypeOK
  BY DEF TInv
<1>2. /\ "rate" \in Ops /\ r \in Whats /\ "rating" \in Pcs /\ <<>> \in Memory
      /\ Begin(c, "rate", s, "rating", r, <<>>)
  BY EmptyMemory DEF Submit, Ops, Whats, Pcs
<1>3. /\ call' \in [Callers -> Call]
      /\ call'[c] = Request("rate", s, "rating", r, <<>>, {})
      /\ \A d \in Callers \ {c} : call'[d] = call[d]
  BY <1>1, <1>2, BeginType
<1>4. muddled' \in SUBSET Sessions
  BY <1>1 DEF Submit, TypeOK
<1>5. TypeOK'
  BY <1>1, <1>3, <1>4, TypeFrame DEF Submit, TypeOK
<1>6. Sane(c)'
  BY <1>3 DEF Sane, Request, Work
<1> QED BY <1>2, <1>3, <1>5, <1>6, TInvStep DEF Submit, Begin, At

(* The points a rating still has to update, and those it has updated. *)
Rates(c, pc, todo, done) ==
  /\ call'[c].pc = pc /\ call'[c].s = call[c].s
  /\ call'[c].what = call[c].what /\ call'[c].op = call[c].op
  /\ call'[c].mem = call[c].mem
  /\ call'[c].todo = todo /\ call'[c].done = done
  /\ \A d \in Callers \ {c} : call'[d] = call[d]

LEMMA RatesType ==
  ASSUME TInv, NEW c \in Callers, call[c].pc \in {"rating", "updating"},
         NEW todo \in SUBSET Points, NEW done \in SUBSET Points,
         Becomes(c, [call[c] EXCEPT !.pc = "updating", !.todo = todo,
                                    !.done = done]),
         salience' \in [Points -> Ratings \cup {"stored"}],
         muddled' \in SUBSET Sessions,
         UNCHANGED <<lock, memory, ids, stats, cache, head, fp, crossed>>
  PROVE  TInv' /\ Rates(c, "updating", todo, done)
<1>1. TypeOK /\ Sane(c)
  BY DEF TInv
<1> DEFINE x == [call[c] EXCEPT !.pc = "updating", !.todo = todo, !.done = done]
<1>2. call[c] \in Call
  BY <1>1, CallFields
<1>3. x \in Call
  BY <1>2 DEF Call
<1>4. /\ x.pc = "updating" /\ x.s = call[c].s /\ x.what = call[c].what
      /\ x.op = call[c].op /\ x.mem = call[c].mem
      /\ x.todo = todo /\ x.done = done
  BY <1>2 DEF Call
<1>5. /\ call' \in [Callers -> Call]
      /\ call'[c] = x
      /\ \A d \in Callers \ {c} : call'[d] = call[d]
  BY <1>1, <1>3, BecomesType
<1> HIDE DEF x
<1>6. Rates(c, "updating", todo, done)
  BY <1>4, <1>5 DEF Rates
<1>7. TypeOK'
  BY <1>1, <1>5, TypeFrame DEF TypeOK
<1>8. Sane(c)'
  BY <1>1, <1>6 DEF Sane, Work, Rates
<1> QED BY <1>5, <1>6, <1>7, <1>8, TInvStep

LEMMA ReadIdsType ==
  ASSUME TInv, NEW c \in Callers, ReadIds(c)
  PROVE  /\ TInv'
         /\ call[c].pc = "rating"
         /\ Rates(c, "updating", ids[call[c].s], call[c].done)
<1>1. TypeOK /\ Sane(c) /\ call[c].pc = "rating"
  BY DEF TInv, ReadIds, At
<1>2. /\ call[c].s \in Sessions /\ call[c] \in Call
      /\ call[c].done \in SUBSET Points
  BY <1>1, CallFields DEF Sane
<1>3. ids[call[c].s] \in SUBSET Points
  BY <1>1, <1>2 DEF TypeOK
<1>4. [call[c] EXCEPT !.pc = "updating", !.todo = ids[call[c].s]]
        = [call[c] EXCEPT !.pc = "updating", !.todo = ids[call[c].s],
                          !.done = call[c].done]
  BY <1>2 DEF Call
<1>5. call' = [call EXCEPT ![c] = [call[c] EXCEPT !.pc = "updating",
                                                 !.todo = ids[call[c].s]]]
  BY <1>1 DEF ReadIds, TypeOK
<1>6. Becomes(c, [call[c] EXCEPT !.pc = "updating", !.todo = ids[call[c].s],
                                !.done = call[c].done])
  BY <1>4, <1>5 DEF Becomes
<1>7. /\ salience' \in [Points -> Ratings \cup {"stored"}]
      /\ muddled' \in SUBSET Sessions
      /\ UNCHANGED <<lock, memory, ids, stats, cache, head, fp, crossed>>
  BY <1>1 DEF ReadIds, TypeOK
<1>8. TInv' /\ Rates(c, "updating", ids[call[c].s], call[c].done)
  BY <1>1, <1>2, <1>3, <1>6, <1>7, RatesType
<1> QED BY <1>1, <1>8

LEMMA UpdatePointType ==
  ASSUME TInv, NEW c \in Callers, NEW p \in Points, UpdatePoint(c, p)
  PROVE  /\ TInv'
         /\ call[c].pc = "updating"
         /\ \/ /\ Rates(c, "updating", call[c].todo \ {p}, call[c].done \cup {p})
               /\ salience' = [salience EXCEPT ![p] = call[c].what]
               /\ muddled' = muddled \cup Raters(p, call[c].s)
            \/ /\ Rates(c, "updating", call[c].todo \ {p}, call[c].done)
               /\ UNCHANGED <<salience, muddled>>
<1>1. TypeOK /\ Sane(c) /\ call[c].pc = "updating"
  BY DEF TInv, UpdatePoint, At
<1>2. /\ call[c].what \in Ratings /\ call[c] \in Call
      /\ call[c].todo \in SUBSET Points /\ call[c].done \in SUBSET Points
  BY <1>1, CallFields DEF Sane
<1>3. CASE /\ salience' = [salience EXCEPT ![p] = call[c].what]
           /\ call' = [call EXCEPT ![c].todo = @ \ {p}, ![c].done = @ \cup {p}]
           /\ muddled' = muddled \cup Raters(p, call[c].s)
  <2>1. Becomes(c, [call[c] EXCEPT !.pc = "updating",
                      !.todo = call[c].todo \ {p}, !.done = call[c].done \cup {p}])
    <3>1. call' = [call EXCEPT ![c] = [call[c] EXCEPT !.todo = call[c].todo \ {p},
                                         !.done = call[c].done \cup {p}]]
      BY <1>1, <1>3 DEF TypeOK
    <3>2. [call[c] EXCEPT !.todo = call[c].todo \ {p},
                          !.done = call[c].done \cup {p}]
            = [call[c] EXCEPT !.pc = "updating", !.todo = call[c].todo \ {p},
                              !.done = call[c].done \cup {p}]
      BY <1>1, <1>2 DEF Call
    <3> QED BY <3>1, <3>2 DEF Becomes
  <2>2. /\ salience' \in [Points -> Ratings \cup {"stored"}]
        /\ muddled' \in SUBSET Sessions
    BY <1>1, <1>2, <1>3, RatersType DEF TypeOK
  <2>3. TInv' /\ Rates(c, "updating", call[c].todo \ {p}, call[c].done \cup {p})
    <3>1. /\ call[c].todo \ {p} \in SUBSET Points
          /\ call[c].done \cup {p} \in SUBSET Points
      BY <1>2
    <3> QED BY <1>1, <2>1, <2>2, <3>1, RatesType DEF UpdatePoint
  <2> QED BY <1>1, <1>3, <2>3
<1>4. CASE /\ call' = [call EXCEPT ![c].todo = @ \ {p}]
           /\ UNCHANGED <<salience, muddled>>
  <2>1. Becomes(c, [call[c] EXCEPT !.pc = "updating",
                      !.todo = call[c].todo \ {p}, !.done = call[c].done])
    <3>1. call' = [call EXCEPT ![c] = [call[c] EXCEPT !.todo = call[c].todo \ {p}]]
      BY <1>1, <1>4 DEF TypeOK
    <3>2. [call[c] EXCEPT !.todo = call[c].todo \ {p}]
            = [call[c] EXCEPT !.pc = "updating", !.todo = call[c].todo \ {p},
                              !.done = call[c].done]
      BY <1>1, <1>2 DEF Call
    <3> QED BY <3>1, <3>2 DEF Becomes
  <2>2. TInv' /\ Rates(c, "updating", call[c].todo \ {p}, call[c].done)
    <3>1. /\ call[c].todo \ {p} \in SUBSET Points
          /\ salience' \in [Points -> Ratings \cup {"stored"}]
          /\ muddled' \in SUBSET Sessions
      BY <1>1, <1>2, <1>4 DEF TypeOK
    <3> QED BY <1>1, <1>2, <2>1, <3>1, RatesType DEF UpdatePoint
  <2> QED BY <1>1, <1>4, <2>2
<1> QED BY <1>3, <1>4 DEF UpdatePoint

LEMMA StoreRatingType ==
  ASSUME TInv, NEW c \in Callers, StoreRating(c)
  PROVE  /\ TInv'
         /\ call[c].pc = "updating" /\ call[c].s \in Sessions
         /\ call'[c].pc = "done" /\ call'[c].mem = <<>>
         /\ \A d \in Callers \ {c} : call'[d] = call[d]
<1>1. TypeOK /\ Sane(c) /\ call[c].pc = "updating"
  BY DEF TInv, StoreRating, At
<1>2. /\ call[c].s \in Sessions /\ call[c].what \in Ratings
      /\ call[c].done \in SUBSET Points
  BY <1>1, CallFields DEF Sane
<1>3. stats' \in [Sessions -> Stats] /\ muddled' \in SUBSET Sessions
  BY <1>1, <1>2 DEF StoreRating, TypeOK, Stats
<1> QED BY <1>1, <1>2, <1>3, OverType DEF StoreRating, TypeOK

LEMMA CommitType ==
  ASSUME TInv, Commit
  PROVE  TInv' /\ head' > head
<1>1. TypeOK /\ head' \in 1..MaxHead /\ head' > head /\ fp <= head'
  BY SessionDataAssumption DEF TInv, TypeOK, Commit
<1>2. TypeOK'
  BY <1>1, TypeFrame DEF Commit, TypeOK
<1>3. \A c \in Callers : Sane(c)'
  BY DEF TInv, Sane, Commit
<1> QED BY <1>1, <1>2, <1>3 DEF TInv, Commit

LEMMA RestartType ==
  ASSUME TInv, Restart
  PROVE  /\ TInv'
         /\ \A c \in Callers :
              \/ call[c].pc = "idle" /\ call'[c] = call[c]
              \/ call'[c] = Quiet("done")
<1>1. TypeOK
  BY DEF TInv
<1>2. Quiet("done") \in Call
  BY EmptyMemory, RequestType DEF Quiet, Ops, Locking, Pcs, Whats
<1>3. \A c \in Callers :
        \/ call[c].pc = "idle" /\ call'[c] = call[c]
        \/ call'[c] = Quiet("done")
  BY DEF Restart, At
<1>4. call' \in [Callers -> Call]
  BY <1>1, <1>2 DEF Restart, TypeOK
<1>5. muddled' \in SUBSET Sessions /\ crossed' \in SUBSET Callers
  BY <1>1 DEF Restart, TypeOK
<1>6. fp' \in 0..MaxHead /\ fp' <= head'
  BY <1>1, SessionDataAssumption DEF Restart, TypeOK
<1>7. TypeOK'
  BY <1>1, <1>4, <1>5, <1>6, TypeFrame DEF Restart, TypeOK
<1>8. \A c \in Callers : Sane(c)'
  BY <1>3 DEF Sane, Quiet, Request, Work
<1> QED BY <1>3, <1>6, <1>7, <1>8 DEF TInv
-----------------------------------------------------------------------------
(* The inductive invariant. *)

(* What a cached answer is kept under is what it answers, and its graph    *)
(* ran no earlier than at the commit of the key.                           *)
CacheInv ==
  /\ \A x \in cache :
       /\ x.answer.prompt = x.key.prompt
       /\ x.answer.mem = x.key.mem
       /\ x.answer.head >= x.key.fp
  /\ ServedAnswerFits

(* A request that nobody crossed has the lock, and between its read and    *)
(* its write the memory is the one it read.                                *)
SerialInv ==
  \A c \in Callers \ crossed :
    /\ call[c].pc \in Work => lock[call[c].s] = c
    /\ InWindow(c, call[c].s) => call[c].mem = memory[call[c].s]

(* A session that nothing disturbed is rated once at a time, and so far    *)
(* the points that its rating, or the rating under way, has updated have   *)
(* that salience.                                                          *)
RatingInv ==
  \A s \in Sessions \ muddled :
    /\ \A c, d \in Callers : Rating(c, s) /\ Rating(d, s) => c = d
    /\ \A c \in Callers : Rating(c, s) =>
         /\ \A p \in call[c].done : salience[p] = call[c].what
         /\ call[c].pc = "rating" => call[c].done = {}
    /\ (\A c \in Callers : ~Rating(c, s)) =>
         \A p \in stats[s].points : salience[p] = stats[s].rating

IInv == TInv /\ TidyInv /\ CacheInv /\ SerialInv /\ RatingInv

LEMMA InitHolds ==
  ASSUME Init
  PROVE  IInv
<1> USE DEF Init
<1>1. Quiet("idle") \in Call
  BY EmptyMemory, RequestType DEF Quiet, Ops, Locking, Pcs, Whats
<1>2. /\ \A s \in Sessions : [rating |-> None, points |-> {}] \in Stats
      /\ 1 \in 1..MaxHead /\ 0 \in 0..MaxHead /\ 0 <= 1
  BY SessionDataAssumption DEF Stats
<1>3. TypeOK
  BY <1>1, <1>2, EmptyMemory DEF TypeOK
<1>4. /\ \A c \in Callers : call[c].pc = "idle" /\ call[c].mem = <<>>
  BY DEF Quiet, Request
<1>5. TInv
  BY <1>2, <1>3, <1>4 DEF TInv, Sane, Work
<1>6. TidyInv
  BY <1>4, EmptyMemory DEF TidyInv
<1>7. CacheInv
  BY <1>4 DEF CacheInv, ServedAnswerFits, At
<1>8. SerialInv
  BY <1>4 DEF SerialInv, InWindow, Work
<1>9. RatingInv
  BY <1>4 DEF RatingInv, Rating
<1> QED BY <1>5, <1>6, <1>7, <1>8, <1>9 DEF IInv

-----------------------------------------------------------------------------
(* Memories stay tidy. *)

LEMMA TidyFrame ==
  ASSUME TidyInv, NEW c \in Callers, UNCHANGED memory,
         \A d \in Callers \ {c} : call'[d] = call[d],
         Tidy(call'[c].mem)
  PROVE  TidyInv'
BY DEF TidyInv

LEMMA TidyWrite ==
  ASSUME TidyInv, NEW c \in Callers, NEW s \in Sessions,
         \A t \in Sessions \ {s} : memory'[t] = memory[t],
         Tidy(memory'[s]),
         \A d \in Callers \ {c} : call'[d] = call[d],
         Tidy(call'[c].mem)
  PROVE  TidyInv'
BY DEF TidyInv

LEMMA RequestFields ==
  ASSUME NEW op, NEW s, NEW pc, NEW what, NEW m, NEW got
  PROVE  /\ Request(op, s, pc, what, m, got).op = op
         /\ Request(op, s, pc, what, m, got).s = s
         /\ Request(op, s, pc, what, m, got).pc = pc
         /\ Request(op, s, pc, what, m, got).what = what
         /\ Request(op, s, pc, what, m, got).mem = m
         /\ Request(op, s, pc, what, m, got).done = {}
BY DEF Request

LEMMA RequestTidy ==
  ASSUME NEW op, NEW s, NEW pc, NEW what, NEW m, NEW got, Tidy(m)
  PROVE  Tidy(Request(op, s, pc, what, m, got).mem)
BY RequestFields

LEMMA TidyStep ==
  ASSUME TInv, TidyInv, [Next]_vars
  PROVE  TidyInv'
<1> USE EmptyMemory
<1>1. ASSUME NEW c \in Callers, NEW s \in Sessions, NEW p \in Prompts,
             NEW op \in Locking, Acquire(c, op, s, p)
      PROVE  TidyInv'
  <2>1. Tidy(call'[c].mem)
    BY <1>1, AcquireType, RequestTidy
  <2> QED BY <1>1, <2>1, AcquireType, TidyFrame DEF Acquire
<1>2. ASSUME NEW c \in Callers, Load(c)
      PROVE  TidyInv'
  <2>1. TypeOK /\ Sane(c)
    BY DEF TInv
  <2>2. call[c].s \in Sessions
    BY <1>2, <2>1, LoadType DEF Sane, Work
  <2>3. Tidy(call'[c].mem)
    BY <1>2, <2>2, LoadType, RequestTidy DEF TidyInv
  <2> QED BY <1>2, <2>3, LoadType, TidyFrame DEF Load
<1>3. ASSUME NEW c \in Callers, Lookup(c)
      PROVE  TidyInv'
  <2>1. Tidy(call'[c].mem)
    BY <1>3, LookupType DEF TidyInv
  <2> QED BY <1>3, <2>1, LookupType, TidyFrame DEF Lookup
<1>4. ASSUME NEW c \in Callers, NEW pc, Goes(c, pc), UNCHANGED memory
      PROVE  TidyInv'
  BY <1>4, TidyFrame DEF Goes, TidyInv
<1>5. ASSUME NEW c \in Callers,
             GraphAnswers(c) \/ NoAnswer(c) \/ Store(c) \/ KeepIds(c)
      PROVE  TidyInv'
  <2>1. UNCHANGED memory
    BY <1>5 DEF GraphAnswers, NoAnswer, Store, KeepIds
  <2>2. \E pc \in Work : Goes(c, pc)
    BY <1>5, GraphAnswersType, NoAnswerType, StoreType, KeepIdsType DEF Work
  <2> QED BY <2>1, <2>2, <1>4
<1>6. ASSUME NEW c \in Callers, Persist(c)
      PROVE  TidyInv'
  <2>1. /\ \A d \in Callers \ {c} : call'[d] = call[d]
        /\ Tidy(call'[c].mem)
    BY <1>6, PersistType DEF Goes, TidyInv
  <2>2. \/ UNCHANGED memory
        \/ /\ Tidy(memory'[call[c].s]) /\ call[c].s \in Sessions
           /\ \A s \in Sessions \ {call[c].s} : memory'[s] = memory[s]
    BY <1>6, PersistType
  <2> QED BY <2>1, <2>2, TidyFrame, TidyWrite
<1>7. ASSUME NEW c \in Callers, Release(c)
      PROVE  TidyInv'
  BY <1>7, ReleaseType, TidyFrame DEF Release
<1>8. ASSUME NEW c \in Callers, NEW s \in Sessions, NEW n \in Notes,
             AddEntry(c, s, n)
      PROVE  TidyInv'
  <2>1. Tidy(call'[c].mem)
    BY <1>8, AddEntryType, RequestTidy DEF TidyInv
  <2> QED BY <1>8, <2>1, AddEntryType, TidyFrame DEF AddEntry
<1>9. ASSUME NEW c \in Callers, WriteEntry(c)
      PROVE  TidyInv'
  <2>1. /\ \A d \in Callers \ {c} : call'[d] = call[d]
        /\ Tidy(call'[c].mem)
    BY <1>9, WriteEntryType
  <2>2. \/ UNCHANGED memory
        \/ /\ Tidy(memory'[call[c].s]) /\ call[c].s \in Sessions
           /\ \A s \in Sessions \ {call[c].s} : memory'[s] = memory[s]
    BY <1>9, WriteEntryType
  <2> QED BY <2>1, <2>2, TidyFrame, TidyWrite
<1>10. ASSUME NEW c \in Callers, NEW s \in Sessions,
              Clear(c, s) \/ DeleteSession(c, s)
       PROVE  TidyInv'
  <2>1. /\ memory' = [memory EXCEPT ![s] = <<>>]
        /\ Tidy(call'[c].mem)
        /\ \A d \in Callers \ {c} : call'[d] = call[d]
    BY <1>10, ClearType
  <2>2. memory'[s] = <<>> /\ \A t \in Sessions \ {s} : memory'[t] = memory[t]
    BY <2>1 DEF TInv, TypeOK
  <2> QED BY <2>1, <2>2, TidyWrite
<1>11. ASSUME NEW c \in Callers, NEW s \in Sessions, NEW r \in Ratings,
              Submit(c, s, r)
       PROVE  TidyInv'
  <2>1. Tidy(call'[c].mem)
    BY <1>11, SubmitType, RequestTidy
  <2> QED BY <1>11, <2>1, SubmitType, TidyFrame DEF Submit
<1>12. ASSUME NEW c \in Callers, NEW p \in Points, UpdatePoint(c, p)
       PROVE  TidyInv'
  <2>1. /\ \A d \in Callers \ {c} : call'[d] = call[d]
        /\ call'[c].mem = call[c].mem
    BY <1>12, UpdatePointType DEF Rates
  <2> QED BY <1>12, <2>1, TidyFrame DEF TidyInv, UpdatePoint
<1>13. ASSUME NEW c \in Callers, ReadIds(c)
       PROVE  TidyInv'
  <2>1. /\ \A d \in Callers \ {c} : call'[d] = call[d]
        /\ call'[c].mem = call[c].mem
    BY <1>13, ReadIdsType DEF Rates
  <2> QED BY <1>13, <2>1, TidyFrame DEF TidyInv, ReadIds
<1>14. ASSUME NEW c \in Callers, StoreRating(c)
       PROVE  TidyInv'
  BY <1>14, StoreRatingType, TidyFrame DEF StoreRating
<1>15. CASE Commit
  BY <1>15 DEF Commit, TidyInv
<1>16. CASE Restart
  <2>1. \A c \in Callers : call'[c] = call[c] \/ call'[c].mem = <<>>
    BY <1>16, RestartType DEF Quiet, Request
  <2> QED BY <1>16, <2>1 DEF Restart, TidyInv
<1>17. CASE UNCHANGED vars
  BY <1>17 DEF vars, TidyInv
<1> QED
  BY <1>1, <1>2, <1>3, <1>5, <1>6, <1>7, <1>8, <1>9, <1>10, <1>11, <1>12,
     <1>13, <1>14, <1>15, <1>16, <1>17
  DEF Next, LockedRequest, MemoryRequest, RatingRequest

-----------------------------------------------------------------------------
(* Cached answers fit. *)

(* Nobody is served anything new, and the commit the process knows is not  *)
(* forgotten while it is known.                                            *)
LEMMA CacheFrame ==
  ASSUME CacheInv, TInv, NEW c \in Callers, cache' \subseteq cache,
         fp' \in {fp, Fingerprint},
         \A d \in Callers \ {c} : call'[d] = call[d],
         call'[c].pc # "served"
  PROVE  CacheInv'
<1>1. \A d \in Callers : call'[d].pc = "served" =>
        call[d] = call'[d] /\ fp' = fp
  BY DEF TInv, Sane, Fingerprint
<1> QED BY <1>1 DEF CacheInv, ServedAnswerFits, At

LEMMA CacheStep ==
  ASSUME TInv, TidyInv, CacheInv, [Next]_vars
  PROVE  CacheInv'
<1>1. ASSUME NEW c \in Callers, NEW s \in Sessions, NEW p \in Prompts,
             NEW op \in Locking, Acquire(c, op, s, p)
      PROVE  CacheInv'
  <2>1. call'[c].pc # "served"
    BY <1>1, AcquireType, RequestFields
  <2> QED BY <1>1, <2>1, AcquireType, CacheFrame DEF Acquire
<1>2. ASSUME NEW c \in Callers, Load(c)
      PROVE  CacheInv'
  <2>1. call'[c].pc # "served"
    BY <1>2, LoadType, RequestFields
  <2> QED BY <1>2, <2>1, LoadType, CacheFrame DEF Load
<1>3. ASSUME NEW c \in Callers, Lookup(c)
      PROVE  CacheInv'
  <2>1. CASE call'[c].pc = "graph"
    BY <1>3, <2>1, LookupType, CacheFrame
  <2>2. CASE /\ call'[c].pc = "served"
             /\ call'[c].got =
                  {x.answer : x \in {y \in cache : y.key = KeyOf(fp', c)}}
    <3>1. ASSUME NEW a \in call'[c].got
          PROVE  /\ a.prompt = call'[c].what /\ a.mem = call'[c].mem
                 /\ a.head >= fp'
      <4>1. PICK x \in cache : x.key = KeyOf(fp', c) /\ a = x.answer
        BY <2>2, <3>1
      <4>2. /\ x.key.prompt = call[c].what /\ x.key.mem = call[c].mem
            /\ x.key.fp = fp'
        BY <4>1 DEF KeyOf
      <4> QED BY <1>3, <4>1, <4>2, LookupType DEF CacheInv
    <3>2. ASSUME NEW d \in Callers \ {c}, call'[d].pc = "served"
          PROVE  call[d] = call'[d] /\ fp' = fp
      BY <1>3, <3>2, LookupType DEF TInv, Sane, Fingerprint
    <3>3. \A x \in cache' : x \in cache
      BY <1>3, LookupType
    <3> QED BY <3>1, <3>2, <3>3 DEF CacheInv, ServedAnswerFits, At
  <2> QED BY <1>3, <2>1, <2>2, LookupType
<1>4. ASSUME NEW c \in Callers, NEW pc \in Work \ {"served"}, Goes(c, pc),
             UNCHANGED cache, fp' \in {fp, Fingerprint}
      PROVE  CacheInv'
  BY <1>4, CacheFrame DEF Goes
<1>5. ASSUME NEW c \in Callers,
             GraphAnswers(c) \/ NoAnswer(c) \/ KeepIds(c) \/ Persist(c)
      PROVE  CacheInv'
  <2>1. UNCHANGED cache /\ fp' \in {fp, Fingerprint}
    BY <1>5 DEF GraphAnswers, NoAnswer, KeepIds, Persist
  <2>2. \E pc \in Work \ {"served"} : Goes(c, pc)
    BY <1>5, GraphAnswersType, NoAnswerType, KeepIdsType, PersistType DEF Work
  <2> QED BY <2>1, <2>2, <1>4
<1>6. ASSUME NEW c \in Callers, Store(c)
      PROVE  CacheInv'
  <2>1. PICK pc \in {"persisting", "releasing"} : Goes(c, pc)
    BY <1>6, StoreType
  <2>2. CASE UNCHANGED cache
    BY <1>6, <2>1, <2>2, <1>4 DEF Store, Work
  <2> DEFINE new == [key |-> KeyOf(fp, c),
                     answer |-> [prompt |-> call[c].what, mem |-> call[c].mem,
                                 head |-> head]]
  <2>3. CASE cache' = {x \in cache : x.key # KeyOf(fp, c)} \cup {new}
    <3>1. /\ new.answer.prompt = new.key.prompt /\ new.answer.mem = new.key.mem
          /\ new.answer.head = head /\ new.key.fp = fp
      BY DEF KeyOf
    <3> HIDE DEF new
    <3>2. head >= fp
      BY DEF TInv, TypeOK
    <3>3. \A x \in cache' : x \in cache \/ x = new
      BY <2>3
    <3>4. \A d \in Callers : call'[d].pc = "served" => call'[d] = call[d]
      BY <2>1 DEF Goes
    <3>5. fp' = fp
      BY <1>6 DEF Store
    <3> QED BY <3>1, <3>2, <3>3, <3>4, <3>5 DEF CacheInv, ServedAnswerFits, At
  <2> QED BY <1>6, <2>2, <2>3 DEF Store
<1>7. ASSUME NEW c \in Callers, UNCHANGED <<cache, fp>>, call'[c].pc = "done",
             \A d \in Callers \ {c} : call'[d] = call[d]
      PROVE  CacheInv'
  BY <1>7, CacheFrame
<1>8. ASSUME NEW c \in Callers, Release(c)
      PROVE  CacheInv'
  BY <1>8, <1>7, ReleaseType DEF Release
<1>9. ASSUME NEW c \in Callers, NEW s \in Sessions, NEW n \in Notes,
             AddEntry(c, s, n)
      PROVE  CacheInv'
  <2>1. call'[c].pc # "served"
    BY <1>9, AddEntryType, RequestFields
  <2> QED BY <1>9, <2>1, AddEntryType, CacheFrame DEF AddEntry
<1>10. ASSUME NEW c \in Callers, WriteEntry(c)
       PROVE  CacheInv'
  BY <1>10, <1>7, WriteEntryType DEF WriteEntry
<1>11. ASSUME NEW c \in Callers, NEW s \in Sessions,
              Clear(c, s) \/ DeleteSession(c, s)
       PROVE  CacheInv'
  <2>1. UNCHANGED <<cache, fp>>
    BY <1>11 DEF Clear, DeleteSession
  <2> QED BY <1>11, <2>1, <1>7, ClearType
<1>12. ASSUME NEW c \in Callers, NEW s \in Sessions, NEW r \in Ratings,
              Submit(c, s, r)
       PROVE  CacheInv'
  <2>1. call'[c].pc # "served"
    BY <1>12, SubmitType, RequestFields
  <2> QED BY <1>12, <2>1, SubmitType, CacheFrame DEF Submit
<1>13. ASSUME NEW c \in Callers, ReadIds(c)
       PROVE  CacheInv'
  <2>1. call'[c].pc # "served" /\ \A d \in Callers \ {c} : call'[d] = call[d]
    BY <1>13, ReadIdsType DEF Rates
  <2> QED BY <1>13, <2>1, CacheFrame DEF ReadIds
<1>14. ASSUME NEW c \in Callers, NEW p \in Points, UpdatePoint(c, p)
       PROVE  CacheInv'
  <2>1. call'[c].pc # "served" /\ \A d \in Callers \ {c} : call'[d] = call[d]
    BY <1>14, UpdatePointType DEF Rates
  <2> QED BY <1>14, <2>1, CacheFrame DEF UpdatePoint
<1>15. ASSUME NEW c \in Callers, StoreRating(c)
       PROVE  CacheInv'
  BY <1>15, <1>7, StoreRatingType DEF StoreRating
<1>16. CASE Commit
  BY <1>16 DEF Commit, CacheInv, ServedAnswerFits, At
<1>17. CASE Restart
  <2>1. \A c \in Callers : call'[c].pc # "served"
    BY <1>17, RestartType DEF Quiet, Request
  <2> QED BY <1>17, <2>1 DEF Restart, CacheInv, ServedAnswerFits, At
<1>18. CASE UNCHANGED vars
  BY <1>18 DEF vars, CacheInv, ServedAnswerFits, At
<1> QED
  BY <1>1, <1>2, <1>3, <1>5, <1>6, <1>8, <1>9, <1>10, <1>11, <1>12,
     <1>13, <1>14, <1>15, <1>16, <1>17, <1>18
  DEF Next, LockedRequest, MemoryRequest, RatingRequest

-----------------------------------------------------------------------------
(* Who is not crossed has the lock and has read the memory as it is. *)

SerialAt(c) ==
  c \notin crossed =>
    /\ call[c].pc \in Work => lock[call[c].s] = c
    /\ InWindow(c, call[c].s) => call[c].mem = memory[call[c].s]

LEMMA SerialAll ==
  SerialInv <=> \A c \in Callers : SerialAt(c)
BY DEF SerialInv, SerialAt

(* Another request is not concerned by a step that leaves alone its lock,  *)
(* if it has it, and the memory it is about to write.                      *)
LEMMA SerialOther ==
  ASSUME SerialInv, NEW d \in Callers, call'[d] = call[d],
         d \in crossed => d \in crossed',
         d \notin crossed' /\ call[d].pc \in Work /\ lock[call[d].s] = d =>
           lock'[call[d].s] = d,
         d \notin crossed' /\ InWindow(d, call[d].s) =>
           memory'[call[d].s] = memory[call[d].s]
  PROVE  SerialAt(d)'
BY DEF SerialInv, SerialAt, InWindow

(* A step of c that writes neither a lock nor a memory. *)
LEMMA SerialQuiet ==
  ASSUME SerialInv, NEW c \in Callers, UNCHANGED <<lock, memory>>,
         crossed \ {c} \subseteq crossed',
         \A d \in Callers \ {c} : call'[d] = call[d],
         SerialAt(c)'
  PROVE  SerialInv'
<1>1. \A d \in Callers \ {c} : SerialAt(d)'
  BY SerialOther
<1> QED BY <1>1, SerialAll, Zenon DEF SerialInv, SerialAt

LEMMA SerialGoes ==
  ASSUME SerialInv, NEW c \in Callers, UNCHANGED <<lock, memory>>,
         crossed \ {c} \subseteq crossed', c \in crossed => c \in crossed',
         NEW pc \in Work, Goes(c, pc), call[c].pc \in Work,
         pc \in {"graph", "answered", "persisting"} =>
           call[c].pc \in {"loaded", "graph", "answered", "persisting"},
         pc # "loaded"
  PROVE  SerialInv'
<1>1. SerialAt(c)'
  BY DEF SerialInv, SerialAt, Goes, InWindow, Work
<1> QED BY <1>1, SerialQuiet DEF Goes

(* A step that writes the memory of s crosses whoever has read it, but for *)
(* a request whose step it is.                                             *)
LEMMA SerialWrite ==
  ASSUME SerialInv, NEW c \in Callers, NEW s, UNCHANGED lock,
         crossed \ {c} \subseteq crossed',
         \A t \in Sessions \ {s} : memory'[t] = memory[t],
         \A d \in Callers \ {c} : InWindow(d, s) => d \in crossed',
         \A d \in Callers : InWindow(d, call[d].s) => call[d].s \in Sessions,
         \A d \in Callers \ {c} : call'[d] = call[d],
         SerialAt(c)'
  PROVE  SerialInv'
<1>1. ASSUME NEW d \in Callers \ {c}
      PROVE  SerialAt(d)'
  <2>1. ASSUME d \notin crossed', InWindow(d, call[d].s)
        PROVE  memory'[call[d].s] = memory[call[d].s]
    <3>1. call[d].s \in Sessions /\ call[d].s # s
      BY <2>1
    <3> QED BY <3>1
  <2> QED BY <2>1, SerialOther
<1> QED BY <1>1, SerialAll, Zenon DEF SerialInv, SerialAt

(* Whoever may still write is at a session. *)
LEMMA InWindowSession ==
  ASSUME TInv, NEW d \in Callers, InWindow(d, call[d].s)
  PROVE  call[d].s \in Sessions
BY DEF TInv, Sane, InWindow

(* What Crossing leaves out: under the lock of one session there is one.   *)
LEMMA OnlyOneWrites ==
  ASSUME TInv, SerialInv, NEW c \in Callers, NEW s \in Sessions,
         call[c].pc \in {"persisting", "adding"}, call[c].s = s,
         NEW d \in Callers \ {c}, InWindow(d, s)
  PROVE  d \in crossed \cup Crossing(c, s)
<1> SUFFICES ASSUME d \notin crossed, d \notin Crossing(c, s)
             PROVE  FALSE
  OBVIOUS
<1>1. call[c].op \in Locking /\ call[d].op \in Locking /\ c \notin crossed
  BY DEF Crossing
<1>2. Sane(c) /\ Sane(d)
  BY DEF TInv
<1>3. call[c].pc \in Work /\ call[d].pc \in Work
  BY <1>1, <1>2 DEF Sane, InWindow, Work, Locking
<1>4. call[d].s = s
  BY DEF InWindow
<1> QED BY <1>1, <1>3, <1>4 DEF SerialInv

LEMMA SerialStep ==
  ASSUME TInv, TidyInv, SerialInv, [Next]_vars
  PROVE  SerialInv'
<1>1. ASSUME NEW c \in Callers, NEW s \in Sessions, NEW p \in Prompts,
             NEW op \in Locking, Acquire(c, op, s, p)
      PROVE  SerialInv'
  <2>1. /\ lock' = [lock EXCEPT ![s] = c]
        /\ crossed' = crossed \cup {d \in Callers : lock[s] = d /\ ~At(d, "done")}
        /\ UNCHANGED memory
        /\ \A d \in Callers \ {c} : call'[d] = call[d]
    BY <1>1, AcquireType DEF Acquire
  <2>2. lock \in [Sessions -> Callers \cup {None}]
    BY DEF TInv, TypeOK
  <2>3. SerialAt(c)'
    <3>1. call'[c].pc = "locked" /\ call'[c].s = s
      BY <1>1, AcquireType, RequestFields
    <3> QED BY <2>1, <2>2, <3>1 DEF SerialAt, InWindow
  <2>4. ASSUME NEW d \in Callers \ {c}
        PROVE  SerialAt(d)'
    <3>1. ASSUME d \notin crossed', call[d].pc \in Work, lock[call[d].s] = d
          PROVE  lock'[call[d].s] = d
      <4>1. call[d].s # s
        BY <2>1, <3>1 DEF At, Work
      <4> QED BY <2>1, <2>2, <3>1, <4>1
    <3> QED BY <2>1, <3>1, SerialOther
  <2> QED BY <2>3, <2>4, SerialAll, Zenon DEF SerialInv, SerialAt
<1>2. ASSUME NEW c \in Callers, Load(c)
      PROVE  SerialInv'
  <2>1. /\ call[c].pc = "locked" /\ call'[c].s = call[c].s
        /\ call'[c].pc = "loaded"
        /\ \/ call'[c].mem = memory[call[c].s] /\ UNCHANGED crossed
           \/ crossed' = crossed \cup {c}
        /\ \A d \in Callers \ {c} : call'[d] = call[d]
    BY <1>2, LoadType, RequestFields
  <2>2. UNCHANGED <<lock, memory>>
    BY <1>2 DEF Load
  <2>3. SerialAt(c)'
    BY <2>1, <2>2 DEF SerialInv, SerialAt, Work, InWindow
  <2> QED BY <2>1, <2>2, <2>3, SerialQuiet
<1>3. ASSUME NEW c \in Callers, Lookup(c)
      PROVE  SerialInv'
  <2>1. /\ call[c].pc = "loaded" /\ call'[c].s = call[c].s
        /\ call'[c].pc \in {"graph", "served"}
        /\ call'[c].mem = call[c].mem
        /\ \A d \in Callers \ {c} : call'[d] = call[d]
    BY <1>3, LookupType
  <2>2. UNCHANGED <<lock, memory, crossed>>
    BY <1>3 DEF Lookup
  <2>3. SerialAt(c)'
    BY <2>1, <2>2 DEF SerialInv, SerialAt, Work, InWindow
  <2> QED BY <2>1, <2>2, <2>3, SerialQuiet
<1>4. ASSUME NEW c \in Callers, GraphAnswers(c)
      PROVE  SerialInv'
  <2>1. UNCHANGED <<lock, memory, crossed>>
    BY <1>4 DEF GraphAnswers
  <2> QED BY <1>4, <2>1, GraphAnswersType, SerialGoes DEF Work
<1>5. ASSUME NEW c \in Callers, NoAnswer(c)
      PROVE  SerialInv'
  <2>1. UNCHANGED <<lock, memory, crossed>>
    BY <1>5 DEF NoAnswer
  <2> QED BY <1>5, <2>1, NoAnswerType, SerialGoes DEF Work
<1>6. ASSUME NEW c \in Callers, Store(c)
      PROVE  SerialInv'
  <2>1. UNCHANGED <<lock, memory, crossed>>
    BY <1>6 DEF Store
  <2> QED BY <1>6, <2>1, StoreType, SerialGoes DEF Work
<1>7. ASSUME NEW c \in Callers, Persist(c)
      PROVE  SerialInv'
  <2>1. /\ call[c].pc = "persisting" /\ call[c].s \in Sessions
        /\ call[c].op \in Locking /\ Goes(c, "keeping")
        /\ UNCHANGED lock
    BY <1>7, PersistType DEF Persist
  <2>2. CASE UNCHANGED <<memory, crossed>>
    BY <2>1, <2>2, SerialGoes DEF Work
  <2>3. CASE /\ \A s \in Sessions \ {call[c].s} : memory'[s] = memory[s]
             /\ crossed' = crossed \cup Crossing(c, call[c].s)
    <3>1. \A d \in Callers \ {c} : InWindow(d, call[c].s) => d \in crossed'
      BY <2>1, <2>3, OnlyOneWrites
    <3>2. SerialAt(c)'
      BY <2>1, <2>3 DEF SerialInv, SerialAt, Goes, InWindow, Work
    <3> QED BY <2>1, <2>3, <3>1, <3>2, InWindowSession, SerialWrite DEF Goes
  <2> QED BY <1>7, <2>2, <2>3, PersistType
<1>8. ASSUME NEW c \in Callers, KeepIds(c)
      PROVE  SerialInv'
  <2>1. UNCHANGED <<lock, memory, crossed>>
    BY <1>8 DEF KeepIds
  <2> QED BY <1>8, <2>1, KeepIdsType, SerialGoes DEF Work
<1>9. ASSUME NEW c \in Callers, Release(c)
      PROVE  SerialInv'
  <2>1. /\ lock' = [lock EXCEPT ![call[c].s] = IF @ = c THEN None ELSE @]
        /\ crossed' = crossed \ {c} /\ UNCHANGED memory
        /\ call'[c].pc = "done"
        /\ \A d \in Callers \ {c} : call'[d] = call[d]
    BY <1>9, ReleaseType DEF Release
  <2>2. lock \in [Sessions -> Callers \cup {None}]
    BY DEF TInv, TypeOK
  <2>3. SerialAt(c)'
    BY <2>1 DEF SerialAt, InWindow, Work
  <2>4. ASSUME NEW d \in Callers \ {c}
        PROVE  SerialAt(d)'
    <3>1. call[d].pc \in Work => call[d].s \in Sessions
      BY DEF TInv, Sane, Work
    <3>2. call[d].pc \in Work /\ lock[call[d].s] = d => lock'[call[d].s] = d
      BY <2>1, <2>2, <3>1
    <3> QED BY <2>1, <3>2, SerialOther
  <2> QED BY <2>3, <2>4, SerialAll, Zenon DEF SerialInv, SerialAt
<1>10. ASSUME NEW c \in Callers, NEW s \in Sessions, NEW n \in Notes,
              AddEntry(c, s, n)
       PROVE  SerialInv'
  <2>1. /\ call'[c].s = s /\ call'[c].pc = "adding"
        /\ \/ call'[c].mem = memory[s] /\ UNCHANGED crossed
           \/ crossed' = crossed \cup {c}
        /\ \A d \in Callers \ {c} : call'[d] = call[d]
    BY <1>10, AddEntryType, RequestFields
  <2>2. UNCHANGED <<lock, memory>>
    BY <1>10 DEF AddEntry
  <2>3. SerialAt(c)'
    BY <2>1, <2>2 DEF SerialAt, Work
  <2> QED BY <2>1, <2>2, <2>3, SerialQuiet
<1>11. ASSUME NEW c \in Callers, WriteEntry(c)
       PROVE  SerialInv'
  <2>1. /\ call[c].pc = "adding" /\ call[c].s \in Sessions
        /\ call'[c].pc = "done"
        /\ \A d \in Callers \ {c} : call'[d] = call[d]
        /\ UNCHANGED lock
    BY <1>11, WriteEntryType DEF WriteEntry
  <2>2. SerialAt(c)'
    BY <2>1 DEF SerialAt, InWindow, Work
  <2>3. CASE UNCHANGED memory /\ crossed' = crossed \ {c}
    BY <2>1, <2>2, <2>3, SerialQuiet
  <2>4. CASE /\ \A s \in Sessions \ {call[c].s} : memory'[s] = memory[s]
             /\ crossed' = (crossed \cup Crossing(c, call[c].s)) \ {c}
    <3>1. \A d \in Callers \ {c} : InWindow(d, call[c].s) => d \in crossed'
      BY <2>1, <2>4, OnlyOneWrites
    <3> QED BY <2>1, <2>2, <2>4, <3>1, InWindowSession, SerialWrite
  <2> QED BY <1>11, <2>3, <2>4, WriteEntryType
<1>12. ASSUME NEW c \in Callers, NEW s \in Sessions,
              Clear(c, s) \/ DeleteSession(c, s)
       PROVE  SerialInv'
  <2>1. /\ memory' = [memory EXCEPT ![s] = <<>>]
        /\ crossed' = crossed \cup {d \in Callers : InWindow(d, s)}
        /\ call'[c].pc = "done"
        /\ \A d \in Callers \ {c} : call'[d] = call[d]
    BY <1>12, ClearType
  <2>2. UNCHANGED lock
    BY <1>12 DEF Clear, DeleteSession
  <2>3. \A t \in Sessions \ {s} : memory'[t] = memory[t]
    BY <2>1 DEF TInv, TypeOK
  <2>4. SerialAt(c)'
    BY <2>1 DEF SerialAt, InWindow, Work
  <2> QED BY <2>1, <2>2, <2>3, <2>4, InWindowSession, SerialWrite
<1>13. ASSUME NEW c \in Callers, UNCHANGED <<lock, memory, crossed>>,
              \A d \in Callers \ {c} : call'[d] = call[d],
              call'[c].pc \in {"rating", "updating", "done"}
       PROVE  SerialInv'
  <2>1. SerialAt(c)'
    BY <1>13 DEF SerialAt, InWindow, Work
  <2> QED BY <1>13, <2>1, SerialQuiet
<1>14. ASSUME NEW c \in Callers, NEW s \in Sessions, NEW r \in Ratings,
              Submit(c, s, r)
       PROVE  SerialInv'
  <2>1. call'[c].pc = "rating"
    BY <1>14, SubmitType, RequestFields
  <2> QED BY <1>14, <2>1, <1>13, SubmitType DEF Submit
<1>15. ASSUME NEW c \in Callers, ReadIds(c)
       PROVE  SerialInv'
  <2>1. /\ call'[c].pc = "updating"
        /\ \A d \in Callers \ {c} : call'[d] = call[d]
    BY <1>15, ReadIdsType DEF Rates
  <2> QED BY <1>15, <2>1, <1>13 DEF ReadIds
<1>16. ASSUME NEW c \in Callers, NEW p \in Points, UpdatePoint(c, p)
       PROVE  SerialInv'
  <2>1. /\ call'[c].pc = "updating"
        /\ \A d \in Callers \ {c} : call'[d] = call[d]
    BY <1>16, UpdatePointType DEF Rates
  <2> QED BY <1>16, <2>1, <1>13 DEF UpdatePoint
<1>17. ASSUME NEW c \in Callers, StoreRating(c)
       PROVE  SerialInv'
  BY <1>17, <1>13, StoreRatingType DEF StoreRating
<1>18. CASE Commit
  BY <1>18 DEF Commit, SerialInv, InWindow
<1>19. CASE Restart
  <2>1. \A c \in Callers : call'[c].pc \in {"idle", "done"}
    BY <1>19, RestartType, RequestFields DEF Quiet
  <2> QED BY <2>1 DEF SerialInv, InWindow, Work
<1>20. CASE UNCHANGED vars
  BY <1>20 DEF vars, SerialInv, InWindow
<1> QED
  BY <1>1, <1>2, <1>3, <1>4, <1>5, <1>6, <1>7, <1>8, <1>9, <1>10, <1>11,
     <1>12, <1>14, <1>15, <1>16, <1>17, <1>18, <1>19, <1>20
  DEF Next, LockedRequest, MemoryRequest, RatingRequest

-----------------------------------------------------------------------------
(* Ratings reach their points. *)

RatedOnce(s) ==
  \A c, d \in Callers : Rating(c, s) /\ Rating(d, s) => c = d

UpdatedSoFar(s) ==
  \A c \in Callers : Rating(c, s) =>
    /\ \A p \in call[c].done : salience[p] = call[c].what
    /\ call[c].pc = "rating" => call[c].done = {}

StoredReached(s) ==
  (\A c \in Callers : ~Rating(c, s)) =>
    \A p \in stats[s].points : salience[p] = stats[s].rating

LEMMA RatingParts ==
  RatingInv <=> \A s \in Sessions \ muddled :
                  RatedOnce(s) /\ UpdatedSoFar(s) /\ StoredReached(s)
BY DEF RatingInv, RatedOnce, UpdatedSoFar, StoredReached

(* Nobody starts, ends or goes on with a rating. *)
LEMMA RatingFrame ==
  ASSUME RatingInv, muddled \subseteq muddled', UNCHANGED stats,
         \A c \in Callers : \/ call'[c] = call[c]
                            \/ /\ call[c].pc \notin {"rating", "updating"}
                               /\ call'[c].pc \notin {"rating", "updating"},
         \A s \in Sessions \ muddled' :
           /\ \A p \in stats[s].points : salience'[p] = salience[p]
           /\ \A c \in Callers : Rating(c, s) =>
                \A p \in call[c].done : salience'[p] = salience[p]
  PROVE  RatingInv'
<1>1. \A c \in Callers, s \in Sessions :
        /\ Rating(c, s)' <=> Rating(c, s)
        /\ Rating(c, s) => call'[c] = call[c]
  BY DEF Rating
<1>2. \A s \in Sessions \ muddled' : s \in Sessions \ muddled
  OBVIOUS
<1>3. ASSUME NEW s \in Sessions \ muddled'
      PROVE  RatedOnce(s)' /\ UpdatedSoFar(s)' /\ StoredReached(s)'
  <2>1. RatedOnce(s) /\ UpdatedSoFar(s) /\ StoredReached(s)
    BY <1>2, RatingParts
  <2>2. RatedOnce(s)'
    BY <1>1, <2>1 DEF RatedOnce
  <2>3. UpdatedSoFar(s)'
    BY <1>1, <2>1 DEF UpdatedSoFar
  <2>4. StoredReached(s)'
    BY <1>1, <2>1 DEF StoredReached
  <2> QED BY <2>2, <2>3, <2>4
<1> QED BY <1>3, Zenon DEF RatingInv, RatedOnce, UpdatedSoFar, StoredReached

(* A step that has nothing to do with ratings. *)
LEMMA RatingQuiet ==
  ASSUME RatingInv, NEW c \in Callers, UNCHANGED <<stats, salience, muddled>>,
         \A d \in Callers \ {c} : call'[d] = call[d],
         call[c].pc \notin {"rating", "updating"},
         call'[c].pc \notin {"rating", "updating"}
  PROVE  RatingInv'
BY RatingFrame

LEMMA RatingStep ==
  ASSUME TInv, TidyInv, RatingInv, [Next]_vars
  PROVE  RatingInv'
<1>1. ASSUME NEW c \in Callers, NEW s \in Sessions, NEW p \in Prompts,
             NEW op \in Locking, Acquire(c, op, s, p)
      PROVE  RatingInv'
  <2>1. call'[c].pc = "locked"
    BY <1>1, AcquireType, RequestFields
  <2> QED BY <1>1, <2>1, AcquireType, RatingQuiet DEF Acquire
<1>2. ASSUME NEW c \in Callers, Load(c)
      PROVE  RatingInv'
  <2>1. call'[c].pc = "loaded"
    BY <1>2, LoadType, RequestFields
  <2> QED BY <1>2, <2>1, LoadType, RatingQuiet DEF Load
<1>3. ASSUME NEW c \in Callers, Lookup(c)
      PROVE  RatingInv'
  BY <1>3, LookupType, RatingQuiet DEF Lookup
<1>4. ASSUME NEW c \in Callers, GraphAnswers(c)
      PROVE  RatingInv'
  <2>1. /\ call[c].pc \in {"loaded", "graph"}
        /\ call'[c].pc \in {"answered", "persisting"}
        /\ \A d \in Callers \ {c} : call'[d] = call[d]
    BY <1>4, GraphAnswersType DEF Goes
  <2>2. CASE UNCHANGED <<salience, muddled>>
    BY <1>4, <2>1, <2>2, RatingQuiet DEF GraphAnswers
  <2>3. ASSUME NEW p \in Points, salience' = [salience EXCEPT ![p] = "stored"],
               muddled' = muddled \cup Raters(p, None)
        PROVE  RatingInv'
    <3>1. \A t \in Sessions : t \in Sessions \ {None}
      BY SessionDataAssumption
    <3>2. \A t \in Sessions \ muddled' :
            p \notin stats[t].points /\ \A d \in Callers : ~Rating(d, t)
      BY <2>3, <3>1 DEF Raters
    <3>3. \A q : q # p => salience'[q] = salience[q]
      BY <2>3 DEF TInv, TypeOK
    <3> QED BY <1>4, <2>1, <2>3, <3>2, <3>3, RatingFrame DEF GraphAnswers
  <2> QED BY <1>4, <2>2, <2>3 DEF GraphAnswers
<1>5. ASSUME NEW c \in Callers,
             NoAnswer(c) \/ Store(c) \/ Persist(c) \/ KeepIds(c)
      PROVE  RatingInv'
  <2>1. UNCHANGED <<stats, salience, muddled>>
    BY <1>5 DEF NoAnswer, Store, Persist, KeepIds
  <2>2. /\ call[c].pc \in Work /\ call'[c].pc \in Work
        /\ \A d \in Callers \ {c} : call'[d] = call[d]
    BY <1>5, NoAnswerType, StoreType, PersistType, KeepIdsType DEF Goes, Work
  <2> QED BY <2>1, <2>2, RatingQuiet DEF Work
<1>6. ASSUME NEW c \in Callers, Release(c)
      PROVE  RatingInv'
  BY <1>6, ReleaseType, RatingQuiet DEF Release
<1>7. ASSUME NEW c \in Callers, NEW s \in Sessions, NEW n \in Notes,
             AddEntry(c, s, n)
      PROVE  RatingInv'
  <2>1. call'[c].pc = "adding"
    BY <1>7, AddEntryType, RequestFields
  <2> QED BY <1>7, <2>1, AddEntryType, RatingQuiet DEF AddEntry
<1>8. ASSUME NEW c \in Callers, WriteEntry(c)
      PROVE  RatingInv'
  BY <1>8, WriteEntryType, RatingQuiet DEF WriteEntry
<1>9. ASSUME NEW c \in Callers, NEW s \in Sessions,
             Clear(c, s) \/ DeleteSession(c, s)
      PROVE  RatingInv'
  <2>1. UNCHANGED <<stats, salience, muddled>>
    BY <1>9 DEF Clear, DeleteSession
  <2> QED BY <1>9, <2>1, ClearType, RatingQuiet
<1>10. ASSUME NEW c \in Callers, NEW s \in Sessions, NEW r \in Ratings,
              Submit(c, s, r)
       PROVE  RatingInv'
  <2>1. /\ call[c].pc = "idle" /\ call'[c].pc = "rating" /\ call'[c].s = s
        /\ call'[c].done = {}
        /\ \A d \in Callers \ {c} : call'[d] = call[d]
        /\ UNCHANGED <<stats, salience>>
    <3>1. call[c].pc = "idle" /\ UNCHANGED <<stats, salience>>
      BY <1>10, SubmitType DEF Submit
    <3>2. /\ call'[c] = Request("rate", s, "rating", r, <<>>, {})
          /\ \A d \in Callers \ {c} : call'[d] = call[d]
      BY <1>10, SubmitType
    <3> QED BY <3>1, <3>2, RequestFields
  <2>2. muddled \subseteq muddled'
    BY <1>10 DEF Submit
  <2>3. ASSUME NEW t \in Sessions \ muddled'
        PROVE  RatedOnce(t)' /\ UpdatedSoFar(t)' /\ StoredReached(t)'
    <3>1. RatedOnce(t) /\ UpdatedSoFar(t) /\ StoredReached(t)
      BY <2>2, RatingParts
    <3>2. /\ Rating(c, t)' <=> t = s
          /\ ~Rating(c, t)
          /\ \A d \in Callers \ {c} : Rating(d, t)' <=> Rating(d, t)
      BY <2>1 DEF Rating
    <3>3. t = s => \A d \in Callers : ~Rating(d, t)
      BY <1>10, <2>3 DEF Submit
    <3>4. RatedOnce(t)'
      BY <3>1, <3>2, <3>3 DEF RatedOnce
    <3>5. UpdatedSoFar(t)'
      BY <2>1, <3>1, <3>2 DEF UpdatedSoFar
    <3>6. StoredReached(t)'
      BY <2>1, <3>1, <3>2 DEF StoredReached
    <3> QED BY <3>4, <3>5, <3>6
  <2> QED BY <2>3, Zenon DEF RatingInv, RatedOnce, UpdatedSoFar, StoredReached
<1>11. ASSUME NEW c \in Callers, ReadIds(c)
       PROVE  RatingInv'
  <2>1. /\ call[c].pc = "rating" /\ call'[c].pc = "updating"
        /\ call'[c].s = call[c].s /\ call'[c].what = call[c].what
        /\ call'[c].done = call[c].done
        /\ \A d \in Callers \ {c} : call'[d] = call[d]
        /\ UNCHANGED <<stats, salience, muddled>>
    BY <1>11, ReadIdsType DEF ReadIds, Rates
  <2>2. ASSUME NEW t \in Sessions \ muddled'
        PROVE  RatedOnce(t)' /\ UpdatedSoFar(t)' /\ StoredReached(t)'
    <3>1. RatedOnce(t) /\ UpdatedSoFar(t) /\ StoredReached(t)
      BY <2>1, <2>2, RatingParts
    <3>2. \A d \in Callers : Rating(d, t)' <=> Rating(d, t)
      BY <2>1 DEF Rating
    <3>3. RatedOnce(t)' /\ StoredReached(t)'
      BY <2>1, <3>1, <3>2 DEF RatedOnce, StoredReached
    <3>4. UpdatedSoFar(t)'
      BY <2>1, <3>1, <3>2 DEF UpdatedSoFar
    <3> QED BY <3>3, <3>4
  <2> QED BY <2>2, Zenon DEF RatingInv, RatedOnce, UpdatedSoFar, StoredReached
<1>12. ASSUME NEW c \in Callers, NEW p \in Points, UpdatePoint(c, p)
       PROVE  RatingInv'
  <2>1. /\ call[c].pc = "updating" /\ call'[c].pc = "updating"
        /\ call'[c].s = call[c].s /\ call'[c].what = call[c].what
        /\ \A d \in Callers \ {c} : call'[d] = call[d]
        /\ UNCHANGED stats
        /\ \/ /\ call'[c].done = call[c].done \cup {p}
              /\ salience' = [salience EXCEPT ![p] = call[c].what]
              /\ muddled' = muddled \cup Raters(p, call[c].s)
           \/ /\ call'[c].done = call[c].done
              /\ UNCHANGED <<salience, muddled>>
    BY <1>12, UpdatePointType DEF UpdatePoint, Rates
  <2>2. ASSUME NEW t \in Sessions \ muddled'
        PROVE  RatedOnce(t)' /\ UpdatedSoFar(t)' /\ StoredReached(t)'
    <3>1. RatedOnce(t) /\ UpdatedSoFar(t) /\ StoredReached(t)
      BY <2>1, <2>2, RatingParts
    <3>2. \A d \in Callers : Rating(d, t)' <=> Rating(d, t)
      BY <2>1 DEF Rating
    <3>3. RatedOnce(t)'
      BY <3>1, <3>2 DEF RatedOnce
    <3>4. CASE call'[c].done = call[c].done /\ UNCHANGED <<salience, muddled>>
      BY <2>1, <3>1, <3>2, <3>3, <3>4 DEF UpdatedSoFar, StoredReached
    <3>5. CASE /\ call'[c].done = call[c].done \cup {p}
               /\ salience' = [salience EXCEPT ![p] = call[c].what]
               /\ muddled' = muddled \cup Raters(p, call[c].s)
      <4>1. \A q : q # p => salience'[q] = salience[q]
        BY <3>5 DEF TInv, TypeOK
      <4>2. salience'[p] = call[c].what
        BY <3>5 DEF TInv, TypeOK
      <4>3. CASE t = call[c].s
        <5>1. Rating(c, t) /\ \A d \in Callers \ {c} : ~Rating(d, t)
          BY <2>1, <3>1, <4>3 DEF Rating, RatedOnce
        <5>2. UpdatedSoFar(t)'
          <6>1. \A q \in call'[c].done : salience'[q] = call'[c].what
            BY <2>1, <3>1, <3>5, <4>1, <4>2, <5>1 DEF UpdatedSoFar
          <6> QED BY <2>1, <3>2, <5>1, <6>1 DEF UpdatedSoFar
        <5>3. StoredReached(t)'
          BY <3>2, <5>1 DEF StoredReached
        <5> QED BY <3>3, <5>2, <5>3
      <4>4. CASE t # call[c].s
        <5>1. p \notin stats[t].points /\ \A d \in Callers : ~Rating(d, t)
          BY <2>2, <3>5, <4>4 DEF Raters
        <5>2. UpdatedSoFar(t)'
          BY <3>2, <5>1 DEF UpdatedSoFar
        <5>3. StoredReached(t)'
          BY <2>1, <3>1, <4>1, <5>1 DEF StoredReached
        <5> QED BY <3>3, <5>2, <5>3
      <4> QED BY <4>3, <4>4
    <3> QED BY <2>1, <3>4, <3>5
  <2> QED BY <2>2, Zenon DEF RatingInv, RatedOnce, UpdatedSoFar, StoredReached
<1>13. ASSUME NEW c \in Callers, StoreRating(c)
       PROVE  RatingInv'
  <2>1. /\ call[c].pc = "updating" /\ call'[c].pc = "done"
        /\ call[c].s \in Sessions
        /\ \A d \in Callers \ {c} : call'[d] = call[d]
        /\ UNCHANGED salience
        /\ \/ /\ stats' = [stats EXCEPT ![call[c].s] =
                             [rating |-> call[c].what, points |-> call[c].done]]
              /\ UNCHANGED muddled
           \/ /\ muddled' = muddled \cup {call[c].s}
              /\ UNCHANGED stats
    BY <1>13, StoreRatingType DEF StoreRating
  <2>2. ASSUME NEW t \in Sessions \ muddled'
        PROVE  RatedOnce(t)' /\ UpdatedSoFar(t)' /\ StoredReached(t)'
    <3>1. RatedOnce(t) /\ UpdatedSoFar(t) /\ StoredReached(t)
      BY <2>1, <2>2, RatingParts
    <3>2. /\ ~Rating(c, t)'
          /\ \A d \in Callers \ {c} : Rating(d, t)' <=> Rating(d, t)
          /\ Rating(c, t) <=> t = call[c].s
      BY <2>1 DEF Rating
    <3>3. RatedOnce(t)'
      BY <3>1, <3>2 DEF RatedOnce
    <3>4. UpdatedSoFar(t)'
      BY <2>1, <3>1, <3>2 DEF UpdatedSoFar
    <3>5. StoredReached(t)'
      <4>1. CASE t # call[c].s
        <5>1. stats'[t] = stats[t]
          BY <2>1, <4>1 DEF TInv, TypeOK
        <5> QED BY <2>1, <3>1, <3>2, <4>1, <5>1 DEF StoredReached
      <4>2. CASE t = call[c].s
        <5>1. stats' = [stats EXCEPT ![t] =
                          [rating |-> call[c].what, points |-> call[c].done]]
          BY <2>1, <2>2, <4>2
        <5>2. /\ stats'[t].rating = call[c].what
              /\ stats'[t].points = call[c].done
          BY <5>1 DEF TInv, TypeOK
        <5>3. \A p \in call[c].done : salience[p] = call[c].what
          BY <3>1, <3>2, <4>2 DEF UpdatedSoFar
        <5> QED BY <2>1, <5>2, <5>3 DEF StoredReached
      <4> QED BY <4>1, <4>2
    <3> QED BY <3>3, <3>4, <3>5
  <2> QED BY <2>2, Zenon DEF RatingInv, RatedOnce, UpdatedSoFar, StoredReached
<1>14. CASE Commit
  <2>1. UNCHANGED <<stats, salience, muddled, call>>
    BY <1>14 DEF Commit
  <2> QED BY <2>1 DEF RatingInv, Rating
<1>15. CASE Restart
  <2>1. /\ UNCHANGED <<stats, salience>>
        /\ muddled' = muddled \cup
             {s \in Sessions : \E c \in Callers : Rating(c, s)}
    BY <1>15 DEF Restart
  <2>2. \A c \in Callers : call'[c].pc \notin {"rating", "updating"}
    BY <1>15, RestartType, RequestFields DEF Quiet
  <2>3. \A c \in Callers, s \in Sessions : ~Rating(c, s)'
    BY <2>2 DEF Rating
  <2> QED BY <2>1, <2>3 DEF RatingInv
<1>16. CASE UNCHANGED vars
  <2>1. UNCHANGED <<stats, salience, muddled, call>>
    BY <1>16 DEF vars
  <2> QED BY <2>1 DEF RatingInv, Rating
<1> QED
  BY <1>1, <1>2, <1>3, <1>4, <1>5, <1>6, <1>7, <1>8, <1>9, <1>10, <1>11,
     <1>12, <1>13, <1>14, <1>15, <1>16
  DEF Next, LockedRequest, MemoryRequest, RatingRequest

-----------------------------------------------------------------------------
(* Theorems. *)

(* All five parts of the invariant hold together: types, tidy memories,    *)
(* what cached answers were made from, who may write a memory, and where   *)
(* the ratings of points come from.                                        *)
THEOREM Invariance == Spec => []IInv
<1>1. Init => IInv
  BY InitHolds
<1>2. IInv /\ [Next]_vars => IInv'
  <2> SUFFICES ASSUME IInv, [Next]_vars
               PROVE  IInv'
    OBVIOUS
  <2>1. TInv /\ TidyInv /\ CacheInv /\ SerialInv /\ RatingInv
    BY DEF IInv
  <2>2. TInv'
    <3>1. CASE UNCHANGED vars
      <4>1. TypeOK'
        BY <2>1, <3>1, TypeFrame DEF TInv, TypeOK, vars
      <4>2. \A c \in Callers : Sane(c)'
        BY <2>1, <3>1 DEF TInv, Sane, vars
      <4> QED BY <2>1, <3>1, <4>1, <4>2 DEF TInv, vars
    <3>2. ASSUME NEW c \in Callers, LockedRequest(c)
          PROVE  TInv'
      BY <2>1, <3>2, AcquireType, LoadType, LookupType, GraphAnswersType,
         NoAnswerType, StoreType, PersistType, KeepIdsType, ReleaseType
      DEF LockedRequest
    <3>3. ASSUME NEW c \in Callers, MemoryRequest(c)
          PROVE  TInv'
      BY <2>1, <3>3, AddEntryType, WriteEntryType, ClearType DEF MemoryRequest
    <3>4. ASSUME NEW c \in Callers, RatingRequest(c)
          PROVE  TInv'
      BY <2>1, <3>4, SubmitType, ReadIdsType, UpdatePointType, StoreRatingType
      DEF RatingRequest
    <3> QED BY <2>1, <3>1, <3>2, <3>3, <3>4, CommitType, RestartType DEF Next
  <2> QED
    BY <2>1, <2>2, TidyStep, CacheStep, SerialStep, RatingStep DEF IInv
<1> QED BY <1>1, <1>2, PTL DEF Spec

(* The state keeps its types: in particular a memory never holds more than *)
(* KeptEntries entries, whatever requests overlap.                         *)
THEOREM TypesKept == Spec => []TypeOK
<1>1. IInv => TypeOK
  BY DEF IInv, TInv
<1> QED BY <1>1, Invariance, PTL

(* No memory names an entry twice, however it was merged and cut.          *)
THEOREM EntriesOnce == Spec => []EachEntryOnce
<1>1. IInv => EachEntryOnce
  BY DEF IInv, TidyInv, Tidy, EachEntryOnce
<1> QED BY <1>1, Invariance, PTL

(* What the cache serves answers the prompt, was asked with the memory,    *)
(* and is no older than the commit the process knows.                      *)
THEOREM CacheServesFitting == Spec => []ServedAnswerFits
<1>1. IInv => ServedAnswerFits
  BY DEF IInv, CacheInv
<1> QED BY <1>1, Invariance, PTL

(* The points a stored rating has updated have it, unless something        *)
(* disturbed the session's ratings.                                        *)
THEOREM RatingsReach == Spec => []RatingsReachPoints
<1>1. IInv => RatingsReachPoints
  BY DEF IInv, RatingInv, RatingsReachPoints
<1> QED BY <1>1, Invariance, PTL

(* What a request that nobody crossed writes is made of the memory as it   *)
(* is at that moment.                                                      *)
LEMMA WriteIsSerial ==
  ASSUME IInv, [Next]_vars, NEW s \in Sessions, memory'[s] # memory[s]
  PROVE  \/ memory'[s] = <<>>
         \/ \E c \in Callers :
              /\ call[c].s = s /\ call'[c] # call[c]
              /\ \/ c \in crossed
                 \/ /\ memory'[s] \in Cuts(Merged(memory[s], EntryOf(c)))
                    /\ memory'[s][1] \in {EntryOf(c), Fragment}
<1> USE DEF IInv
<1>1. ~UNCHANGED memory
  OBVIOUS
<1>2. PICK c \in Callers :
        \/ Persist(c)
        \/ WriteEntry(c)
        \/ \E t \in Sessions : Clear(c, t) \/ DeleteSession(c, t)
  BY <1>1
  DEF Next, vars, LockedRequest, MemoryRequest, RatingRequest, Acquire, Load,
      Lookup, GraphAnswers, NoAnswer, Store, KeepIds, Release, AddEntry,
      Submit, ReadIds, UpdatePoint, StoreRating, Commit, Restart
<1>3. ASSUME NEW t \in Sessions, Clear(c, t) \/ DeleteSession(c, t)
      PROVE  memory'[s] = <<>>
  <2>1. memory' = [memory EXCEPT ![t] = <<>>]
    BY <1>3, ClearType
  <2> QED BY <2>1 DEF TInv, TypeOK
<1>4. ASSUME Persist(c) \/ WriteEntry(c)
      PROVE  /\ call[c].s = s /\ call'[c] # call[c]
             /\ call[c].pc \in {"persisting", "adding"}
             /\ memory'[s] \in Cuts(Merged(call[c].mem, EntryOf(c)))
             /\ memory'[s][1] \in {EntryOf(c), Fragment}
  <2>1. CASE Persist(c)
    BY <1>1, <2>1, PersistType DEF Goes
  <2>2. CASE WriteEntry(c)
    BY <1>1, <2>2, WriteEntryType
  <2> QED BY <1>4, <2>1, <2>2
<1>5. ASSUME Persist(c) \/ WriteEntry(c), c \notin crossed
      PROVE  call[c].mem = memory[s]
  BY <1>4, <1>5 DEF SerialInv, InWindow
<1>6. CASE Persist(c) \/ WriteEntry(c)
  BY <1>4, <1>5, <1>6
<1> QED BY <1>2, <1>3, <1>6

(* Minutes may pass between read and write: nobody's entry is lost by it,  *)
(* unless the lock is not held or has expired.                             *)
THEOREM WritesSerial == Spec => WritesAreSerial
<1>1. IInv /\ [Next]_vars =>
        [\A s \in Sessions :
           memory'[s] # memory[s] =>
             \/ memory'[s] = <<>>
             \/ \E c \in Callers :
                  /\ call[c].s = s /\ call'[c] # call[c]
                  /\ \/ c \in crossed
                     \/ /\ memory'[s] \in Cuts(Merged(memory[s], EntryOf(c)))
                        /\ memory'[s][1] \in {EntryOf(c), Fragment}]_vars
  BY WriteIsSerial
<1> QED BY <1>1, Invariance, PTL DEF Spec, WritesAreSerial
=============================================================================
