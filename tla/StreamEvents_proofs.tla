------------------------ MODULE StreamEvents_proofs ------------------------
(***************************************************************************)
(* Proofs about the events of a stream, for any number of tokens and of    *)
(* updates: tokens arrive once and in order, the page shows the whole      *)
(* streamed answer, and the last event tells how the run ended.            *)
(*                                                                         *)
(* Tokens are numbered, so a piece of the stream of tokens is known by the *)
(* number before its first one and its length.                             *)
(***************************************************************************)
EXTENDS StreamEvents, SequenceTheorems, TLAPS

Pcs == {"idle", "locked", "starting", "waiting", "update", "draining",
        "reset", "sending", "concluding", "persisting", "failing",
        "releasing", "done"}

Token == 1..MaxTokens

Bubble == {"answer", "review", "error"}

(* What the streaming bubble and the others hold, without bounds.          *)
Types ==
  /\ graph \in Graph
  /\ said \in 0..MaxTokens
  /\ updates \in Nat
  /\ queue \in Seq(Token)
  /\ gen \in [pc : Pcs, burst : Seq(Token), last : BOOLEAN]
  /\ held \in BOOLEAN
  /\ here \in BOOLEAN
  /\ page \in [text : Seq(Token), bubbles : Seq(Bubble)]
  /\ seen \in Seq(Token)
  /\ late \in BOOLEAN
  /\ fault \in BOOLEAN

(* The tokens of q are those after number a.                               *)
Counted(q, a) == \A i \in 1..Len(q) : q[i] = a + i

(* Where each token is: received, in hand, or queued.                      *)
Counts ==
  /\ Len(seen) + Len(gen.burst) + Len(queue) <= said
  /\ Telling => Len(seen) + Len(gen.burst) + Len(queue) = said
  /\ Counted(seen, 0)
  /\ Telling => Counted(gen.burst, Len(seen))
  /\ Counted(queue, said - Len(queue))
  /\ Len(page.text) <= Len(seen)
  /\ Counted(page.text, Len(seen) - Len(page.text))

(* What the generator knows of the graph and the queue where it is.        *)
Control ==
  /\ gen.pc \notin {"sending", "failing", "releasing", "done"} =>
       gen.burst = <<>>
  /\ gen.pc = "reset" => queue # <<>>
  /\ graph.pc = "over" => graph.end # "open"
  /\ gen.last => graph.pc = "over" /\ graph.end \in {"complete", "paused"}
  /\ gen.pc \in {"concluding", "persisting"} => gen.last /\ queue = <<>>
  /\ gen.pc = "sending" /\ gen.last => queue = <<>>
  /\ gen.pc \in {"idle", "locked", "starting"} => graph.pc = "off"
  /\ graph.pc \in {"off", "working"} => said = 0
  /\ updates <= graph.made + (IF graph.pc \in {"ending", "over"} THEN 1 ELSE 0)

(* While nothing comes late, nothing that was shown is wiped: tokens wait  *)
(* in the queue only before the first of them is sent.                     *)
Screen ==
  ~late /\ Telling /\ gen.pc # "persisting" =>
    /\ Len(page.text) = Len(seen)
    /\ queue # <<>> => seen = <<>> /\ gen.burst = <<>>
    /\ graph.pc = "speaking" =>
         gen.pc = "waiting" /\ updates = 0 /\ seen = <<>>

(* The outcome of the run.                                                 *)
Due == IF graph.end = "paused" THEN "review"
       ELSE IF graph.answer = "none" THEN "error" ELSE "answer"

(* What has been told of it.                                               *)
Told ==
  LET b == page.bubbles
  IN  /\ gen.pc \notin {"failing", "releasing", "done"} => ~fault
      /\ gen.pc \notin {"persisting", "failing", "releasing", "done"} =>
           b = <<>>
      /\ gen.pc = "persisting" => b = <<Due>>
      /\ gen.pc = "failing" =>
           fault /\ (b = <<>> \/ (gen.last /\ b = <<Due>>))
      /\ gen.pc = "releasing" =>
           /\ Len(b) <= 2
           /\ here =>
                \/ ~fault /\ gen.last /\ b = <<Due>>
                \/ fault /\ b = <<"error">>
                \/ fault /\ gen.last /\ b = <<Due, "error">>
      /\ gen.pc = "done" =>
           /\ Len(b) <= 3
           /\ here =>
                \/ ~fault /\ gen.last /\ b = <<Due>>
                \/ fault /\ b \in {<<"error">>, <<"error", "error">>}
                \/ fault /\ gen.last
                   /\ b \in {<<Due, "error">>, <<Due, "error", "error">>}

IInv == Types /\ Counts /\ Control /\ Screen /\ Told

-----------------------------------------------------------------------------
(* Steps. *)

(* One more bubble after none, one or two.                                 *)
LEMMA AppendedToNone ==
  ASSUME NEW S, NEW x \in S
  PROVE  Append(<<>>, x) = <<x>>
OBVIOUS

LEMMA AppendedToOne ==
  ASSUME NEW S, NEW x \in S, NEW y \in S
  PROVE  Append(<<x>>, y) = <<x, y>>
<1>1. /\ <<x>> \in Seq(S) /\ Len(<<x>>) = 1
      /\ <<x, y>> \in Seq(S) /\ Len(<<x, y>>) = 2
  OBVIOUS
<1>2. Append(<<x>>, y) \in Seq(S) /\ Len(Append(<<x>>, y)) = 2
  BY <1>1, AppendProperties
<1>3. \A i \in 1..2 : Append(<<x>>, y)[i] = <<x, y>>[i]
  BY <1>1, AppendProperties
<1> QED BY <1>1, <1>2, <1>3, SeqEqual

LEMMA AppendedToTwo ==
  ASSUME NEW S, NEW x \in S, NEW y \in S, NEW z \in S
  PROVE  Append(<<x, y>>, z) = <<x, y, z>>
<1>1. /\ <<x, y>> \in Seq(S) /\ Len(<<x, y>>) = 2
      /\ <<x, y, z>> \in Seq(S) /\ Len(<<x, y, z>>) = 3
  OBVIOUS
<1>2. Append(<<x, y>>, z) \in Seq(S) /\ Len(Append(<<x, y>>, z)) = 3
  BY <1>1, AppendProperties
<1>3. \A i \in 1..3 : Append(<<x, y>>, z)[i] = <<x, y, z>>[i]
  BY <1>1, AppendProperties
<1> QED BY <1>1, <1>2, <1>3, SeqEqual

(* The bubbles with an error after them.                                   *)
LEMMA ErrorAfter ==
  /\ Append(<<>>, "error") = <<"error">>
  /\ Append(<<Due>>, "error") = <<Due, "error">>
  /\ Append(<<"error">>, "error") = <<"error", "error">>
  /\ Append(<<Due, "error">>, "error") = <<Due, "error", "error">>
<1>1. Due \in Bubble /\ "error" \in Bubble
  BY DEF Due, Bubble
<1> QED BY <1>1, AppendedToNone, AppendedToOne, AppendedToTwo, Zenon

(* The generator goes on to another point and nothing else changes in it.  *)
LEMMA GoToFields ==
  ASSUME Types, NEW p \in Pcs
  PROVE  /\ GoTo(p) \in [pc : Pcs, burst : Seq(Token), last : BOOLEAN]
         /\ GoTo(p).pc = p
         /\ GoTo(p).burst = gen.burst
         /\ GoTo(p).last = gen.last
BY DEF Types, GoTo

(* The fields of the records.                                              *)
LEMMA Fields ==
  ASSUME Types
  PROVE  /\ gen.pc \in Pcs /\ gen.burst \in Seq(Token)
         /\ gen.last \in BOOLEAN
         /\ page.text \in Seq(Token) /\ page.bubbles \in Seq(Bubble)
         /\ graph.pc \in {"off", "working", "speaking", "ending", "over"}
         /\ graph.made \in 0..MaxUpdates /\ graph.answer \in Answers
         /\ graph.end \in {"open", "complete", "paused", "thrown"}
BY DEF Types, Graph

(* The page after a reset and after a token.                               *)
LEMMA ClearedFields ==
  ASSUME Types
  PROVE  /\ Cleared(page) \in [text : Seq(Token), bubbles : Seq(Bubble)]
         /\ Cleared(page).text = <<>>
         /\ Cleared(page).bubbles = page.bubbles
<1>1. <<>> \in Seq(Token)
  OBVIOUS
<1>2. page \in [text : Seq(Token), bubbles : Seq(Bubble)]
  BY DEF Types
<1> QED BY <1>1, <1>2, Zenon DEF Cleared

LEMMA TypedFields ==
  ASSUME Types, NEW t \in Token
  PROVE  /\ Typed(page, t) \in [text : Seq(Token), bubbles : Seq(Bubble)]
         /\ Typed(page, t).text = Append(page.text, t)
         /\ Typed(page, t).bubbles = page.bubbles
<1>1. page \in [text : Seq(Token), bubbles : Seq(Bubble)]
  BY DEF Types
<1>2. Append(page.text, t) \in Seq(Token)
  BY <1>1, AppendProperties
<1> QED BY <1>1, <1>2, Zenon DEF Typed

LEMMA UpdateStep ==
  ASSUME IInv, Update
  PROVE  IInv'
<1> USE StreamEventsAssumption
<1>1. Types /\ graph' = [graph EXCEPT !.made = @ + 1]
  BY DEF IInv, Update
<1>2. graph \in Graph /\ graph.made \in Nat /\ graph.made < MaxUpdates
  BY <1>1, Fields DEF Types, Update
<1>3. /\ graph' \in Graph /\ graph'.pc = graph.pc
      /\ graph'.made = graph.made + 1
      /\ graph'.answer = graph.answer /\ graph'.end = graph.end
  BY <1>1, <1>2 DEF Graph
<1>4. /\ graph.pc \in {"working", "ending"} /\ updates' = updates + 1
      /\ UNCHANGED <<said, queue, late, here, gen, held, page, seen, fault>>
  BY DEF Update, GenUnchanged
<1>5. Types'
  BY <1>1, <1>3, <1>4 DEF Types
<1>6. Counts'
  BY <1>4 DEF IInv, Counts, Telling, Counted
<1>7. Control'
  BY <1>1, <1>2, <1>3, <1>4 DEF IInv, Types, Control
<1>8. Screen'
  BY <1>3, <1>4 DEF IInv, Screen, Telling
<1>9. Told'
  BY <1>3, <1>4 DEF IInv, Told, Due
<1> QED BY <1>5, <1>6, <1>7, <1>8, <1>9 DEF IInv

LEMMA SpeakStep ==
  ASSUME IInv, Speak
  PROVE  IInv'
<1> USE StreamEventsAssumption
<1>1. /\ Types /\ graph' = [graph EXCEPT !.pc = "speaking"]
      /\ graph.pc \in {"working", "speaking"} /\ said < MaxTokens
      /\ said' = said + 1 /\ queue' = Append(queue, said + 1)
      /\ late' = (late \/ gen.pc # "waiting" \/ updates # 0)
      /\ UNCHANGED <<updates, here, gen, held, page, seen, fault>>
  BY DEF IInv, Speak, GenUnchanged
<1>2. /\ graph' \in Graph /\ graph'.pc = "speaking"
      /\ graph'.made = graph.made
      /\ graph'.answer = graph.answer /\ graph'.end = graph.end
  BY <1>1 DEF Types, Graph
<1>3. /\ queue \in Seq(Token) /\ said \in Nat /\ said + 1 \in Token
      /\ Len(queue) \in Nat
  BY <1>1 DEF Types, Token
<1>4. /\ queue' \in Seq(Token) /\ Len(queue') = Len(queue) + 1
      /\ \A i \in 1..Len(queue) : queue'[i] = queue[i]
      /\ queue'[Len(queue) + 1] = said + 1
      /\ queue' # <<>>
  BY <1>1, <1>3, AppendProperties
<1>5. Types'
  BY <1>1, <1>2, <1>3, <1>4 DEF Types
<1>6. Counted(queue', said' - Len(queue'))
  <2> SUFFICES ASSUME NEW i \in 1..(Len(queue) + 1)
               PROVE  queue'[i] = said - Len(queue) + i
    BY <1>1, <1>3, <1>4 DEF Counted
  <2>1. \A j \in 1..Len(queue) : queue[j] = said - Len(queue) + j
    BY DEF IInv, Counts, Counted
  <2>2. CASE i = Len(queue) + 1
    BY <1>3, <1>4, <2>2
  <2>3. CASE i # Len(queue) + 1
    BY <1>3, <1>4, <2>1, <2>3
  <2> QED BY <2>2, <2>3
<1>7. Counts'
  <2>1. Len(seen) \in Nat /\ Len(gen.burst) \in Nat
    BY <1>1, Fields DEF Types
  <2>2. (Telling => Len(seen) + Len(gen.burst) + Len(queue) = said)
        /\ Len(seen) + Len(gen.burst) + Len(queue) <= said
    BY DEF IInv, Counts
  <2>3. (Telling' => Telling) /\ (Telling => Telling')
    BY <1>1 DEF Telling
  <2>4. /\ Counted(seen, 0) /\ (Telling => Counted(gen.burst, Len(seen)))
        /\ Len(page.text) <= Len(seen)
        /\ Counted(page.text, Len(seen) - Len(page.text))
    BY DEF IInv, Counts
  <2>5. seen' = seen /\ gen' = gen /\ page' = page /\ said' = said + 1
    BY <1>1
  <2>6. /\ Len(seen') + Len(gen'.burst) + Len(queue') <= said'
        /\ Telling' =>
             Len(seen') + Len(gen'.burst) + Len(queue') = said'
    <3>1. Len(queue') = Len(queue) + 1 /\ Len(queue) \in Nat /\ said \in Nat
      BY <1>3, <1>4
    <3>2. Len(seen') = Len(seen) /\ Len(gen'.burst) = Len(gen.burst)
      BY <2>5
    <3>3. /\ Len(seen) \in Nat /\ Len(gen.burst) \in Nat
      BY <2>1
    <3>4. Len(seen) + Len(gen.burst) + (Len(queue) + 1)
            = Len(seen) + Len(gen.burst) + Len(queue) + 1
      <4> DEFINE a == Len(seen)
                 b == Len(gen.burst)
                 c == Len(queue)
      <4>1. a \in Nat /\ b \in Nat /\ c \in Nat
        BY <3>1, <3>3
      <4> HIDE DEF a, b, c
      <4>2. a + b + (c + 1) = a + b + c + 1
        BY <4>1
      <4> QED BY <4>2 DEF a, b, c
    <3>5. /\ Len(seen) + Len(gen.burst) + Len(queue) + 1 <= said + 1
          /\ Telling => Len(seen) + Len(gen.burst) + Len(queue) + 1 = said + 1
      <4> DEFINE n == Len(seen) + Len(gen.burst) + Len(queue)
      <4>1. n \in Nat /\ n <= said /\ (Telling => n = said)
        <5>1. \A a, b, c \in Nat : a + b + c \in Nat
          OBVIOUS
        <5>2. n \in Nat
          BY <2>1, <3>1, <5>1, Zenon
        <5> QED BY <2>2, <5>2
      <4> HIDE DEF n
      <4>2. n + 1 <= said + 1 /\ (Telling => n + 1 = said + 1)
        BY <3>1, <4>1
      <4> QED BY <4>2 DEF n
    <3>6. said' = said + 1
      BY <2>5
    <3> QED BY <2>3, <3>1, <3>2, <3>4, <3>5, <3>6, Zenon
  <2>7. /\ Counted(seen', 0) /\ (Telling' => Counted(gen'.burst, Len(seen')))
        /\ Len(page'.text) <= Len(seen')
        /\ Counted(page'.text, Len(seen') - Len(page'.text))
    BY <2>3, <2>4, <2>5
  <2> QED BY <1>6, <2>6, <2>7 DEF Counts, Counted
<1>8. Control'
  BY <1>1, <1>2, <1>4 DEF IInv, Control
<1>9. Screen'
  <2> SUFFICES ASSUME ~late', Telling
               PROVE  /\ Len(page.text) = Len(seen)
                      /\ seen = <<>> /\ gen.burst = <<>>
                      /\ gen.pc = "waiting" /\ updates = 0
    BY <1>1 DEF Screen, Telling
  <2>1. ~late /\ gen.pc = "waiting" /\ updates = 0
    BY <1>1
  <2>2. gen.burst = <<>> /\ Len(page.text) = Len(seen)
    BY <2>1 DEF IInv, Control, Screen
  <2>3. seen = <<>>
    <3>1. CASE graph.pc = "speaking"
      BY <2>1, <3>1 DEF IInv, Screen
    <3>2. CASE graph.pc = "working"
      <4>1. said = 0 /\ Len(seen) + Len(gen.burst) + Len(queue) <= said
        BY <3>2 DEF IInv, Control, Counts
      <4>2. seen \in Seq(Token) /\ Len(seen) \in Nat /\ Len(gen.burst) \in Nat
        BY <1>1, Fields DEF Types
      <4>3. Len(seen) = 0
        BY <1>3, <4>1, <4>2
      <4> QED BY <4>2, <4>3, EmptySeq
    <3> QED BY <1>1, <3>1, <3>2
  <2> QED BY <2>1, <2>2, <2>3
<1>10. Told'
  BY <1>1, <1>2 DEF IInv, Told, Due
<1> QED BY <1>5, <1>7, <1>8, <1>9, <1>10 DEF IInv

(* The graph speaks no more, or is over: its end and its answer are new,   *)
(* but nobody has been told of them.                                       *)
LEMMA GraphGoesOn ==
  ASSUME IInv, graph' \in Graph, graph.pc \notin {"off", "over"},
         graph'.pc \in {"ending", "over"}, graph'.made = graph.made,
         graph'.pc = "over" => graph'.end # "open",
         \/ updates' = updates
         \/ updates' = updates + 1 /\ graph.pc # "ending",
         UNCHANGED <<said, queue, late, here, gen, held, page, seen, fault>>
  PROVE  IInv'
<1>1. Types /\ updates \in Nat /\ graph.made \in Nat
  BY Fields, StreamEventsAssumption DEF IInv, Types
<1>2. ~gen.last
  BY DEF IInv, Control
<1>3. Types'
  BY <1>1 DEF Types
<1>4. Counts'
  BY DEF IInv, Counts, Telling, Counted
<1>5. Control'
  BY <1>1, <1>2 DEF IInv, Control
<1>6. Screen'
  BY DEF IInv, Screen, Telling
<1>7. Told'
  <2>1. Told /\ gen.pc # "persisting"
    BY <1>2 DEF IInv, Control
  <2>2. gen' = gen /\ page' = page /\ fault' = fault /\ here' = here
    OBVIOUS
  <2> QED BY <1>2, <2>1, <2>2 DEF Told
<1> QED BY <1>3, <1>4, <1>5, <1>6, <1>7 DEF IInv

-----------------------------------------------------------------------------
(* The generator: steps that neither send nor queue a token.               *)

(* The tokens stay where they are; the page may be cleared.                *)
LEMMA CountsFrame ==
  ASSUME IInv, gen'.burst = gen.burst, UNCHANGED <<seen, queue, said>>,
         page'.text = page.text \/ page'.text = <<>>,
         Telling' => Telling
  PROVE  Counts'
<1>1. Len(seen) \in Nat
  BY DEF IInv, Types
<1>2. Counted(page'.text, Len(seen) - Len(page'.text))
      /\ Len(page'.text) <= Len(seen)
  <2>1. CASE page'.text = page.text
    BY <2>1 DEF IInv, Counts
  <2>2. CASE page'.text = <<>>
    BY <1>1, <2>2 DEF Counted
  <2> QED BY <2>1, <2>2
<1> QED BY <1>2 DEF IInv, Counts, Counted

(* The client has left: the generator ends.                                *)
LEMMA GivesUp ==
  ASSUME IInv, ~here, gen' = GoTo("releasing"), Telling \/ At("failing"),
         queue' = queue \/ (gen.pc = "reset" /\ queue' = <<>>),
         UNCHANGED <<graph, said, updates, held, here, page, seen, late, fault>>
  PROVE  IInv'
<1>1. /\ gen' \in [pc : Pcs, burst : Seq(Token), last : BOOLEAN]
      /\ gen'.pc = "releasing" /\ gen'.burst = gen.burst
      /\ gen'.last = gen.last
  BY GoToFields DEF IInv, Pcs
<1>2. Types'
  <2>1. <<>> \in Seq(Token)
    OBVIOUS
  <2>2. queue' \in Seq(Token)
    BY <2>1 DEF IInv, Types
  <2> QED BY <1>1, <2>2 DEF IInv, Types
<1>3. ~Telling'
  BY <1>1 DEF Telling
<1>4. Counts'
  <2>1. CASE queue' = queue
    BY <1>1, <1>3, <2>1, CountsFrame
  <2>2. CASE gen.pc = "reset" /\ queue' = <<>>
    <3>1. /\ Len(seen) \in Nat /\ Len(queue) \in Nat /\ Len(queue') = 0
          /\ Len(gen.burst) \in Nat /\ said \in Nat
      BY <2>2, Fields, StreamEventsAssumption DEF IInv, Types
    <3>2. Len(seen) + Len(gen.burst) + Len(queue) <= said
      BY DEF IInv, Counts
    <3>3. \A a, b, c, d \in Nat : a + b + c <= d => a + b + 0 <= d
      OBVIOUS
    <3>4. Len(seen) + Len(gen.burst) + 0 <= said
      BY <3>1, <3>2, <3>3, Zenon
    <3>5. Counted(queue', said - Len(queue'))
      BY <2>2 DEF Counted
    <3> QED BY <1>1, <1>3, <3>1, <3>4, <3>5 DEF IInv, Counts, Counted
  <2> QED BY <2>1, <2>2
<1>5. Control'
  BY <1>1 DEF IInv, Control
<1>6. Screen'
  BY <1>3 DEF Screen
<1>7. Told'
  <2>1. page.bubbles = <<>> \/ page.bubbles = <<Due>>
    BY DEF IInv, Told, Telling, At
  <2>2. Len(<<>>) <= 2 /\ Len(<<Due>>) <= 2
    OBVIOUS
  <2>3. Len(page.bubbles) <= 2
    BY <2>1, <2>2, Zenon
  <2> QED BY <1>1, <2>3 DEF Told
<1> QED BY <1>2, <1>4, <1>5, <1>6, <1>7 DEF IInv

(* An await throws.                                                        *)
LEMMA ThrowStep ==
  ASSUME IInv, NEW p \in {"starting", "waiting", "concluding", "persisting"},
         Throw(p)
  PROVE  IInv'
<1>1. /\ gen.pc = p /\ gen' = GoTo("failing") /\ fault' = TRUE
      /\ UNCHANGED <<graph, said, updates, queue, late, held, here, page, seen>>
  BY DEF Throw, At, GraphUnchanged
<1>2. /\ gen' \in [pc : Pcs, burst : Seq(Token), last : BOOLEAN]
      /\ gen'.pc = "failing" /\ gen'.burst = gen.burst
      /\ gen'.last = gen.last
  BY <1>1, GoToFields DEF IInv, Pcs
<1>3. Types'
  BY <1>1, <1>2 DEF IInv, Types
<1>4. ~Telling'
  BY <1>2 DEF Telling
<1>5. Counts'
  BY <1>1, <1>2, <1>4, CountsFrame
<1>6. Control'
  BY <1>1, <1>2 DEF IInv, Control
<1>7. Screen'
  BY <1>4 DEF Screen
<1>8. Told'
  <2>1. page.bubbles = <<>> \/ (gen.last /\ page.bubbles = <<Due>>)
    BY <1>1 DEF IInv, Told, Control
  <2>2. Due' = Due
    BY <1>1 DEF Due
  <2> QED BY <1>1, <1>2, <2>1, <2>2 DEF Told
<1> QED BY <1>3, <1>5, <1>6, <1>7, <1>8 DEF IInv

(* The lock is taken, or refused and the client is told.                   *)
LEMMA AcquireStep ==
  ASSUME IInv, Acquire
  PROVE  IInv'
<1>1. /\ gen.pc = "idle"
      /\ UNCHANGED <<graph, said, updates, queue, late, here, seen>>
  BY DEF Acquire, At, GraphUnchanged
<1>2. page.bubbles = <<>> /\ ~fault /\ gen.burst = <<>> /\ Telling
  BY <1>1 DEF IInv, Told, Control, Telling
<1>3. CASE gen' = GoTo("locked") /\ held' = TRUE /\ UNCHANGED <<page, fault>>
  <2>1. /\ gen' \in [pc : Pcs, burst : Seq(Token), last : BOOLEAN]
        /\ gen'.pc = "locked" /\ gen'.burst = gen.burst
        /\ gen'.last = gen.last
    BY <1>3, GoToFields DEF IInv, Pcs
  <2>2. Types'
    BY <1>1, <1>3, <2>1 DEF IInv, Types
  <2>3. Counts'
    BY <1>1, <1>2, <1>3, <2>1, CountsFrame
  <2>4. Control'
    BY <1>1, <2>1 DEF IInv, Control
  <2>5. Screen'
    BY <1>1, <1>2, <1>3, <2>1 DEF IInv, Screen, Telling, Control
  <2>6. Told'
    BY <1>2, <1>3, <2>1 DEF Told
  <2> QED BY <2>2, <2>3, <2>4, <2>5, <2>6 DEF IInv
<1>4. CASE /\ gen' = GoTo("done") /\ page' = Rejected /\ fault' = TRUE
           /\ UNCHANGED held
  <2>1. /\ gen' \in [pc : Pcs, burst : Seq(Token), last : BOOLEAN]
        /\ gen'.pc = "done" /\ gen'.burst = gen.burst
        /\ gen'.last = gen.last
    BY <1>4, GoToFields DEF IInv, Pcs
  <2>2. /\ page' \in [text : Seq(Token), bubbles : Seq(Bubble)]
        /\ page'.text = page.text \/ page'.text = <<>>
        /\ page'.bubbles = IF here THEN <<"error">> ELSE <<>>
    BY <1>2, <1>4 DEF Rejected, Shown, IInv, Types, Bubble
  <2>3. Types'
    BY <1>1, <1>4, <2>1, <2>2 DEF IInv, Types
  <2>4. ~Telling'
    BY <2>1 DEF Telling
  <2>5. Counts'
    BY <1>1, <2>1, <2>2, <2>4, CountsFrame
  <2>6. Control'
    BY <1>1, <2>1 DEF IInv, Control
  <2>7. Screen'
    BY <2>4 DEF Screen
  <2>8. Told'
    BY <1>1, <1>4, <2>1, <2>2 DEF Told
  <2> QED BY <2>3, <2>5, <2>6, <2>7, <2>8 DEF IInv
<1> QED BY <1>3, <1>4 DEF Acquire

(* Status and Announce: an event that reports progress, or none.           *)
LEMMA ReportStep ==
  ASSUME IInv, NEW p \in {"starting", "draining"},
         gen.pc = IF p = "starting" THEN "locked" ELSE "update",
         \/ Yield(GoTo(p), page)
         \/ gen' = GoTo(p) /\ UNCHANGED page,
         UNCHANGED <<graph, said, updates, queue, late, held, here, seen, fault>>
  PROVE  IInv'
<1>1. CASE gen' = GoTo(p) /\ UNCHANGED page
  <2>1. /\ gen' \in [pc : Pcs, burst : Seq(Token), last : BOOLEAN]
        /\ gen'.pc = p /\ gen'.burst = gen.burst /\ gen'.last = gen.last
    BY <1>1, GoToFields DEF IInv, Pcs
  <2>2. Types'
    BY <1>1, <2>1 DEF IInv, Types
  <2>3. Counts'
    BY <1>1, <2>1, CountsFrame DEF Telling
  <2>4. Control'
    BY <2>1 DEF IInv, Control
  <2>5. Screen'
    BY <1>1, <2>1 DEF IInv, Screen, Telling
  <2>6. Told'
    BY <1>1, <2>1 DEF IInv, Told
  <2> QED BY <2>2, <2>3, <2>4, <2>5, <2>6 DEF IInv
<1>2. CASE Yield(GoTo(p), page) /\ ~here
  BY <1>2, GivesUp DEF Yield, Telling
<1> QED BY <1>1, <1>2 DEF Yield

LEMMA StartStep ==
  ASSUME IInv, Start
  PROVE  IInv'
<1>1. CASE Throw("starting")
  BY <1>1, ThrowStep
<1>2. CASE /\ gen.pc = "starting" /\ gen' = GoTo("waiting")
           /\ graph' = [graph EXCEPT !.pc = "working"]
           /\ UNCHANGED <<said, updates, queue, late, held, here, page, seen,
                          fault>>
  <2>1. /\ gen' \in [pc : Pcs, burst : Seq(Token), last : BOOLEAN]
        /\ gen'.pc = "waiting" /\ gen'.burst = gen.burst
        /\ gen'.last = gen.last
    BY <1>2, GoToFields DEF IInv, Pcs
  <2>2. /\ graph' \in Graph /\ graph'.pc = "working"
        /\ graph'.made = graph.made
    BY <1>2 DEF IInv, Types, Graph
  <2>3. Types'
    BY <1>2, <2>1, <2>2 DEF IInv, Types
  <2>4. Counts'
    BY <1>2, <2>1, CountsFrame DEF Telling
  <2>5. Control'
    BY <1>2, <2>1, <2>2 DEF IInv, Control
  <2>6. Screen'
    BY <1>2, <2>1, <2>2 DEF IInv, Screen, Telling
  <2>7. Told'
    BY <1>2, <2>1 DEF IInv, Told
  <2> QED BY <2>3, <2>4, <2>5, <2>6, <2>7 DEF IInv
<1> QED BY <1>1, <1>2 DEF Start, At

LEMMA TakeStep ==
  ASSUME IInv, Take
  PROVE  IInv'
<1>1. /\ gen.pc = "waiting" /\ updates > 0 /\ gen' = GoTo("update")
      /\ updates' = updates - 1
      /\ UNCHANGED <<graph, said, queue, late, held, here, page, seen, fault>>
  BY DEF Take, At
<1>2. /\ gen' \in [pc : Pcs, burst : Seq(Token), last : BOOLEAN]
      /\ gen'.pc = "update" /\ gen'.burst = gen.burst
      /\ gen'.last = gen.last
  BY <1>1, GoToFields DEF IInv, Pcs
<1>3. updates \in Nat /\ updates' \in Nat /\ graph.made \in Nat
  BY <1>1, Fields, StreamEventsAssumption DEF IInv, Types
<1>4. Types'
  BY <1>1, <1>2, <1>3 DEF IInv, Types
<1>5. Counts'
  BY <1>1, <1>2, CountsFrame DEF Telling
<1>6. Control'
  BY <1>1, <1>2, <1>3 DEF IInv, Control
<1>7. Screen'
  BY <1>1, <1>2, <1>3 DEF IInv, Screen, Telling
<1>8. Told'
  BY <1>1, <1>2 DEF IInv, Told
<1> QED BY <1>4, <1>5, <1>6, <1>7, <1>8 DEF IInv

(* The graph is over: what is left in the queue is looked at, or the graph *)
(* has thrown.                                                             *)
LEMMA LoopEndsStep ==
  ASSUME IInv, LoopEnds
  PROVE  IInv'
<1>1. CASE Throw("waiting")
  BY <1>1, ThrowStep
<1>2. CASE /\ gen.pc = "waiting" /\ graph.end # "thrown"
           /\ gen' = [pc |-> "draining", burst |-> <<>>, last |-> TRUE]
           /\ UNCHANGED <<held, here, page, seen, fault, graph, said, updates,
                          queue, late>>
  <2>1. graph.pc = "over" /\ gen.burst = <<>>
    BY <1>2 DEF LoopEnds, IInv, Control
  <2>2. graph.end \in {"complete", "paused"}
    BY <1>2, <2>1, Fields DEF IInv, Control
  <2>3. /\ gen' \in [pc : Pcs, burst : Seq(Token), last : BOOLEAN]
        /\ gen'.pc = "draining" /\ gen'.burst = gen.burst /\ gen'.last
    BY <1>2, <2>1 DEF Pcs
  <2>4. Types'
    BY <1>2, <2>3 DEF IInv, Types
  <2>5. Counts'
    BY <1>2, <2>3, CountsFrame DEF Telling
  <2>6. Control'
    BY <1>2, <2>1, <2>2, <2>3 DEF IInv, Control
  <2>7. Screen'
    BY <1>2, <2>1, <2>3 DEF IInv, Screen, Telling
  <2>8. Told'
    BY <1>2, <2>3 DEF IInv, Told
  <2> QED BY <2>4, <2>5, <2>6, <2>7, <2>8 DEF IInv
<1> QED BY <1>1, <1>2 DEF LoopEnds, At, GraphUnchanged

-----------------------------------------------------------------------------
(* The generator: tokens.                                                  *)

(* The queue is empty: the next update, or the final state.                *)
LEMMA OnwardStep ==
  ASSUME IInv, gen.pc = "draining" \/ gen.pc = "sending", gen.burst = <<>>,
         gen.pc = "draining" => queue = <<>>,
         gen' = Onward,
         UNCHANGED <<graph, said, updates, queue, late, held, here, page, seen,
                     fault>>
  PROVE  IInv'
<1>1. /\ gen' \in [pc : Pcs, burst : Seq(Token), last : BOOLEAN]
      /\ gen'.pc = IF gen.last THEN "concluding" ELSE "waiting"
      /\ gen'.burst = gen.burst /\ gen'.last = gen.last
  BY Fields DEF IInv, Onward, Pcs
<1>2. Types'
  BY <1>1 DEF IInv, Types
<1>3. Telling /\ Telling'
  BY <1>1 DEF Telling
<1>4. Counts'
  BY <1>1, <1>3, CountsFrame
<1>5. Control'
  BY <1>1 DEF IInv, Control
<1>6. Screen'
  BY <1>1, <1>3 DEF IInv, Screen
<1>7. Told'
  BY <1>1 DEF IInv, Told
<1> QED BY <1>2, <1>4, <1>5, <1>6, <1>7 DEF IInv

LEMMA DrainStep ==
  ASSUME IInv, Drain
  PROVE  IInv'
<1>1. /\ gen.pc = "draining"
      /\ UNCHANGED <<graph, said, updates, queue, late, held, here, seen, fault>>
  BY DEF Drain, At, GraphUnchanged
<1>2. gen.burst = <<>> /\ Telling
  BY <1>1 DEF IInv, Control, Telling
<1>3. CASE queue = <<>>
  BY <1>1, <1>2, <1>3, OnwardStep DEF Drain
<1>4. CASE queue # <<>> /\ ~here
  BY <1>1, <1>2, <1>4, GivesUp DEF Drain, Yield
<1>5. CASE queue # <<>> /\ here
  <2>1. gen' = GoTo("reset") /\ page' = Cleared(page)
    BY <1>5 DEF Drain, Yield
  <2>2. /\ gen' \in [pc : Pcs, burst : Seq(Token), last : BOOLEAN]
        /\ gen'.pc = "reset" /\ gen'.burst = gen.burst
        /\ gen'.last = gen.last
    BY <2>1, GoToFields DEF IInv, Pcs
  <2>3. /\ page' \in [text : Seq(Token), bubbles : Seq(Bubble)]
        /\ page'.text = <<>> /\ page'.bubbles = page.bubbles
    BY <2>1, ClearedFields DEF IInv
  <2>4. Types'
    BY <1>1, <2>2, <2>3 DEF IInv, Types
  <2>5. Counts'
    BY <1>1, <1>2, <2>2, <2>3, CountsFrame
  <2>6. Control'
    BY <1>1, <1>5, <2>2 DEF IInv, Control
  <2>7. Screen'
    <3> SUFFICES ASSUME ~late
                 PROVE  seen = <<>> /\ graph.pc # "speaking"
      BY <1>1, <1>2, <1>5, <2>2, <2>3 DEF Screen
    <3> QED BY <1>1, <1>2, <1>5 DEF IInv, Screen
  <2>8. Told'
    BY <1>1, <2>2, <2>3 DEF IInv, Told
  <2> QED BY <2>4, <2>5, <2>6, <2>7, <2>8 DEF IInv
<1> QED BY <1>3, <1>4, <1>5

(* A token is sent: the first of t, which follow what was seen.            *)
LEMMA Sends ==
  ASSUME IInv, here, NEW t \in Seq(Token), t # <<>>,
         Telling, gen.pc # "persisting",
         Counted(t, Len(seen)), SendFirst(t)
  PROVE  /\ gen' \in [pc : Pcs, burst : Seq(Token), last : BOOLEAN]
         /\ gen'.pc = "sending" /\ gen'.last = gen.last
         /\ Len(gen'.burst) = Len(t) - 1
         /\ Len(seen') = Len(seen) + 1
         /\ seen' \in Seq(Token)
         /\ Counted(gen'.burst, Len(seen'))
         /\ Counted(seen', 0)
         /\ page' \in [text : Seq(Token), bubbles : Seq(Bubble)]
         /\ page'.bubbles = page.bubbles
         /\ Len(page'.text) = Len(page.text) + 1
         /\ Len(page'.text) <= Len(seen')
         /\ Counted(page'.text, Len(seen') - Len(page'.text))
<1>1. /\ gen' = [gen EXCEPT !.pc = "sending", !.burst = Tail(t)]
      /\ page' = Typed(page, Head(t)) /\ seen' = Append(seen, Head(t))
  BY DEF SendFirst, Yield
<1>2. /\ Len(t) \in Nat /\ Len(t) >= 1 /\ t[1] = Len(seen) + 1
      /\ Head(t) = t[1] /\ Head(t) \in Token /\ Tail(t) \in Seq(Token)
      /\ Len(Tail(t)) = Len(t) - 1
      /\ \A i \in 1..(Len(t) - 1) : Tail(t)[i] = t[i + 1]
  BY DEF Counted
<1>3. /\ gen' \in [pc : Pcs, burst : Seq(Token), last : BOOLEAN]
      /\ gen'.pc = "sending" /\ gen'.last = gen.last
      /\ gen'.burst = Tail(t)
  BY <1>1, <1>2, Fields DEF IInv, Types, Pcs
<1>4. seen \in Seq(Token) /\ page.text \in Seq(Token)
      /\ Len(seen) \in Nat /\ Len(page.text) \in Nat
  BY Fields DEF IInv, Types
<1>5. /\ seen' \in Seq(Token) /\ Len(seen') = Len(seen) + 1
      /\ \A i \in 1..Len(seen) : seen'[i] = seen[i]
      /\ seen'[Len(seen) + 1] = Len(seen) + 1
  BY <1>1, <1>2, <1>4, AppendProperties
<1>6. Counted(gen'.burst, Len(seen'))
  <2> SUFFICES ASSUME NEW i \in 1..(Len(t) - 1)
               PROVE  Tail(t)[i] = Len(seen) + 1 + i
    BY <1>2, <1>3, <1>5 DEF Counted
  <2>1. i + 1 \in 1..Len(t) /\ Tail(t)[i] = t[i + 1]
    BY <1>2
  <2>2. t[i + 1] = Len(seen) + (i + 1)
    BY <2>1 DEF Counted
  <2> QED BY <1>4, <2>1, <2>2
<1>7. Counted(seen', 0)
  <2> SUFFICES ASSUME NEW i \in 1..(Len(seen) + 1)
               PROVE  seen'[i] = 0 + i
    BY <1>5 DEF Counted
  <2>1. CASE i = Len(seen) + 1
    BY <1>4, <1>5, <2>1
  <2>2. CASE i # Len(seen) + 1
    <3>1. i \in 1..Len(seen)
      BY <1>4, <2>2
    <3> QED BY <1>5, <3>1 DEF IInv, Counts, Counted
  <2> QED BY <2>1, <2>2
<1>8. /\ page' \in [text : Seq(Token), bubbles : Seq(Bubble)]
      /\ page'.bubbles = page.bubbles
      /\ page'.text = Append(page.text, Head(t))
  BY <1>1, <1>2, TypedFields DEF IInv
<1>9. /\ Len(page'.text) = Len(page.text) + 1
      /\ \A i \in 1..Len(page.text) : page'.text[i] = page.text[i]
      /\ page'.text[Len(page.text) + 1] = Len(seen) + 1
  BY <1>2, <1>4, <1>8, AppendProperties
<1>10. Len(page.text) <= Len(seen)
  BY DEF IInv, Counts
<1>11. Counted(page'.text, Len(seen') - Len(page'.text))
  <2> SUFFICES ASSUME NEW i \in 1..(Len(page.text) + 1)
               PROVE  page'.text[i] = Len(seen) - Len(page.text) + i
    <3>1. \A m, n \in Nat : \A k, l : k = m + 1 /\ l = n + 1 => k - l = m - n
      OBVIOUS
    <3>2. Len(seen') - Len(page'.text) = Len(seen) - Len(page.text)
      <4>1. Len(seen') = Len(seen) + 1 /\ Len(page'.text) = Len(page.text) + 1
        BY <1>5, <1>9
      <4>2. Len(seen) \in Nat /\ Len(page.text) \in Nat
        BY <1>4
      <4> DEFINE m == Len(seen)
                 n == Len(page.text)
                 k == Len(seen')
                 l == Len(page'.text)
      <4>3. k = m + 1 /\ l = n + 1 /\ m \in Nat /\ n \in Nat
        BY <4>1, <4>2
      <4> HIDE DEF m, n, k, l
      <4>4. k - l = m - n
        BY <4>3
      <4> QED BY <4>4 DEF m, n, k, l
    <3> QED BY <1>9, <3>2 DEF Counted
  <2>1. CASE i = Len(page.text) + 1
    BY <1>4, <1>9, <2>1
  <2>2. CASE i # Len(page.text) + 1
    <3>1. i \in 1..Len(page.text)
      BY <1>4, <2>2
    <3> QED BY <1>9, <3>1 DEF IInv, Counts, Counted
  <2> QED BY <2>1, <2>2
<1>12. Len(page'.text) <= Len(seen')
  BY <1>4, <1>5, <1>9, <1>10
<1> QED BY <1>2, <1>3, <1>5, <1>6, <1>7, <1>8, <1>9, <1>11, <1>12

(* Splice and SendToken: the first of the tokens t is sent, the queue is   *)
(* empty or what follows t.                                                *)
LEMMA SendStep ==
  ASSUME IInv, here, NEW t \in Seq(Token), t # <<>>, SendFirst(t),
         gen.pc \in {"reset", "sending"},
         \/ gen.pc = "reset" /\ t = queue /\ queue' = <<>>
         \/ gen.pc = "sending" /\ t = gen.burst /\ queue' = queue,
         UNCHANGED <<graph, said, updates, late, held, here, fault>>
  PROVE  IInv'
<1> DEFINE a == Len(seen)
           b == Len(t)
           q == Len(queue')
<1>1. /\ Telling /\ gen.pc # "persisting"
      /\ seen \in Seq(Token) /\ queue \in Seq(Token) /\ said \in Nat
      /\ gen.burst \in Seq(Token)
  BY Fields, StreamEventsAssumption DEF IInv, Types, Telling
<1>2. queue' \in Seq(Token) /\ a \in Nat /\ b \in Nat /\ q \in Nat
  <2>1. <<>> \in Seq(Token)
    OBVIOUS
  <2>2. queue' \in Seq(Token)
    BY <1>1, <2>1
  <2> QED BY <1>1, <2>2, LenProperties
<1>3. a + b + q = said
  <2>1. Len(seen) + Len(gen.burst) + Len(queue) = said
    BY <1>1 DEF IInv, Counts
  <2>2. CASE gen.pc = "reset" /\ t = queue /\ queue' = <<>>
    <3>1. gen.burst = <<>>
      BY <2>2 DEF IInv, Control
    <3>2. Len(gen.burst) = 0 /\ q = 0 /\ b = Len(queue)
      BY <2>2, <3>1
    <3>3. \A m, n \in Nat : m + 0 + n = m + n + 0
      OBVIOUS
    <3>4. a + 0 + b = a + b + 0
      BY <1>2, <3>3
    <3> QED BY <2>1, <3>2, <3>4, Zenon
  <2>3. CASE gen.pc = "sending" /\ t = gen.burst /\ queue' = queue
    BY <2>1, <2>3
  <2> QED BY <2>2, <2>3
<1>4. Counted(t, Len(seen))
  <2>1. CASE gen.pc = "reset" /\ t = queue /\ queue' = <<>>
    <3>1. q = 0
      BY <2>1
    <3>2. \A m, n, l \in Nat : m + n + 0 = l => l - n = m
      OBVIOUS
    <3>3. said - Len(queue) = Len(seen)
      BY <1>1, <1>2, <1>3, <2>1, <3>1, <3>2, Zenon
    <3> QED BY <2>1, <3>3 DEF IInv, Counts
  <2>2. CASE gen.pc = "sending" /\ t = gen.burst /\ queue' = queue
    BY <1>1, <2>2 DEF IInv, Counts
  <2> QED BY <2>1, <2>2
<1>5. /\ gen' \in [pc : Pcs, burst : Seq(Token), last : BOOLEAN]
      /\ gen'.pc = "sending" /\ gen'.last = gen.last
      /\ Len(gen'.burst) = b - 1
      /\ Len(seen') = a + 1
      /\ seen' \in Seq(Token)
      /\ Counted(gen'.burst, Len(seen'))
      /\ Counted(seen', 0)
      /\ page' \in [text : Seq(Token), bubbles : Seq(Bubble)]
      /\ page'.bubbles = page.bubbles
      /\ Len(page'.text) = Len(page.text) + 1
      /\ Len(page'.text) <= Len(seen')
      /\ Counted(page'.text, Len(seen') - Len(page'.text))
  BY <1>1, <1>4, Sends
<1>6. Types'
  BY <1>2, <1>5 DEF IInv, Types
<1>7. Telling'
  BY <1>5 DEF Telling
<1>8. Len(seen') + Len(gen'.burst) + Len(queue') = said'
  <2>1. \A m, n, l \in Nat : m + 1 + (n - 1) + l = m + n + l
    OBVIOUS
  <2>2. a + 1 + (b - 1) + q = a + b + q
    BY <1>2, <2>1
  <2>3. said' = said
    OBVIOUS
  <2> QED BY <1>3, <1>5, <2>2, <2>3, Zenon
<1>9. Counted(queue', said' - Len(queue'))
  <2>1. CASE queue' = <<>>
    BY <2>1 DEF Counted
  <2>2. CASE queue' = queue
    BY <2>2 DEF IInv, Counts
  <2> QED BY <2>1, <2>2
<1>10. Len(seen') + Len(gen'.burst) + Len(queue') <= said'
  <2>1. said' \in Nat /\ \A n \in Nat : n <= n
    BY <1>1
  <2> QED BY <1>8, <2>1, Zenon
<1>11. Counts'
  BY <1>5, <1>7, <1>8, <1>9, <1>10 DEF Counts, Counted
<1>12. Control'
  <2>1. gen.last => queue' = <<>>
    BY DEF IInv, Control
  <2> QED BY <1>5, <2>1 DEF IInv, Control
<1>13. Screen'
  <2> SUFFICES ASSUME ~late
               PROVE  /\ Len(page'.text) = Len(seen')
                      /\ queue' = <<>> /\ graph.pc # "speaking"
    BY <1>5, <1>7 DEF Screen
  <2>1. /\ Len(page.text) = Len(seen)
        /\ queue # <<>> => seen = <<>> /\ gen.burst = <<>>
        /\ graph.pc # "speaking"
    BY <1>1 DEF IInv, Screen
  <2>2. queue' = <<>>
    BY <2>1
  <2>3. Len(page'.text) = Len(seen')
    BY <1>5, <2>1, Zenon
  <2> QED BY <2>1, <2>2, <2>3
<1>14. Told'
  BY <1>5 DEF IInv, Told, Due
<1> QED BY <1>6, <1>11, <1>12, <1>13, <1>14 DEF IInv

LEMMA SpliceStep ==
  ASSUME IInv, Splice
  PROVE  IInv'
<1>1. /\ gen.pc = "reset" /\ SendFirst(queue) /\ queue' = <<>>
      /\ UNCHANGED <<graph, said, updates, late, held, here, fault>>
  BY DEF Splice, At
<1>2. queue \in Seq(Token) /\ queue # <<>> /\ Telling
  BY <1>1 DEF IInv, Types, Control, Telling
<1>3. CASE here
  BY <1>1, <1>2, <1>3, SendStep
<1>4. CASE ~here
  BY <1>1, <1>2, <1>4, GivesUp DEF SendFirst, Yield
<1> QED BY <1>3, <1>4

LEMMA SendTokenStep ==
  ASSUME IInv, SendToken
  PROVE  IInv'
<1>1. /\ gen.pc = "sending"
      /\ UNCHANGED <<graph, said, updates, queue, late, held, here, fault>>
  BY DEF SendToken, At, GraphUnchanged
<1>2. gen.burst \in Seq(Token) /\ Telling
  BY <1>1, Fields DEF IInv, Telling
<1>3. CASE gen.burst = <<>>
  BY <1>1, <1>3, OnwardStep DEF SendToken
<1>4. CASE gen.burst # <<>> /\ here
  BY <1>1, <1>2, <1>4, SendStep DEF SendToken
<1>5. CASE gen.burst # <<>> /\ ~here
  BY <1>1, <1>2, <1>5, GivesUp DEF SendToken, SendFirst, Yield
<1> QED BY <1>3, <1>4, <1>5

-----------------------------------------------------------------------------
(* The generator: the end of the stream.                                   *)

(* A bubble that stays.                                                    *)
LEMMA ShownFields ==
  ASSUME Types, NEW b \in Bubble
  PROVE  /\ Shown(page, b) \in [text : Seq(Token), bubbles : Seq(Bubble)]
         /\ Shown(page, b).text = <<>>
         /\ Shown(page, b).bubbles = Append(page.bubbles, b)
<1>1. <<>> \in Seq(Token)
  OBVIOUS
<1>2. page.bubbles \in Seq(Bubble)
  BY Fields
<1>3. Append(page.bubbles, b) \in Seq(Bubble)
  BY <1>2, AppendProperties
<1> QED BY <1>1, <1>3 DEF Shown

(* In the final state the outcome the code finds is the one the run has.   *)
LEMMA OutcomeIsDue ==
  ASSUME IInv, gen.pc = "concluding"
  PROVE  Outcome = Due /\ Due \in Bubble
<1>1. graph.end \in {"complete", "paused"}
  BY DEF IInv, Control
<1>2. CASE graph.end = "paused"
  BY <1>2 DEF Outcome, Due, Bubble
<1>3. CASE graph.end = "complete" /\ graph.answer = "none"
  BY <1>3 DEF Outcome, Due, Bubble
<1>4. CASE graph.end = "complete" /\ graph.answer # "none"
  BY <1>4 DEF Outcome, Due, Bubble
<1> QED BY <1>1, <1>2, <1>3, <1>4

LEMMA ConcludeStep ==
  ASSUME IInv, Conclude
  PROVE  IInv'
<1>1. CASE Throw("concluding")
  BY <1>1, ThrowStep
<1>2. CASE /\ gen.pc = "concluding"
           /\ Yield(GoTo("persisting"), Shown(page, Outcome))
           /\ UNCHANGED <<held, here, seen, fault, graph, said, updates, queue,
                          late>>
  <2>1. CASE ~here
    BY <1>2, <2>1, GivesUp DEF Yield, Telling
  <2>2. CASE here
    <3>1. gen' = GoTo("persisting") /\ page' = Shown(page, Due)
      BY <1>2, <2>2, OutcomeIsDue DEF Yield
    <3>2. /\ gen' \in [pc : Pcs, burst : Seq(Token), last : BOOLEAN]
          /\ gen'.pc = "persisting" /\ gen'.burst = gen.burst
          /\ gen'.last = gen.last
      BY <3>1, GoToFields DEF IInv, Pcs
    <3>3. page.bubbles = <<>> /\ ~fault
      BY <1>2 DEF IInv, Told
    <3>4. Append(<<>>, Due) = <<Due>>
      OBVIOUS
    <3>5. /\ page' \in [text : Seq(Token), bubbles : Seq(Bubble)]
          /\ page'.text = <<>> /\ page'.bubbles = <<Due>>
      BY <1>2, <3>1, <3>3, <3>4, ShownFields, OutcomeIsDue DEF IInv
    <3>6. Types'
      BY <1>2, <3>2, <3>5 DEF IInv, Types
    <3>7. Counts'
      BY <1>2, <3>2, <3>5, CountsFrame DEF Telling
    <3>8. Control'
      BY <1>2, <3>2 DEF IInv, Control
    <3>9. Screen'
      BY <3>2 DEF Screen
    <3>10. Told'
      <4>1. Due' = Due
        BY <1>2 DEF Due
      <4> QED BY <1>2, <3>2, <3>3, <3>5, <4>1 DEF Told
    <3> QED BY <3>6, <3>7, <3>8, <3>9, <3>10 DEF IInv
  <2> QED BY <2>1, <2>2
<1> QED BY <1>1, <1>2 DEF Conclude, At, GraphUnchanged

LEMMA PersistStep ==
  ASSUME IInv, Persist
  PROVE  IInv'
<1>1. CASE Throw("persisting")
  BY <1>1, ThrowStep
<1>2. CASE /\ gen.pc = "persisting" /\ gen' = GoTo("releasing")
           /\ UNCHANGED <<held, here, page, seen, fault, graph, said, updates,
                          queue, late>>
  <2>1. /\ gen' \in [pc : Pcs, burst : Seq(Token), last : BOOLEAN]
        /\ gen'.pc = "releasing" /\ gen'.burst = gen.burst
        /\ gen'.last = gen.last
    BY <1>2, GoToFields DEF IInv, Pcs
  <2>2. page.bubbles = <<Due>> /\ ~fault /\ gen.last
    BY <1>2 DEF IInv, Told, Control
  <2>3. Types'
    BY <1>2, <2>1 DEF IInv, Types
  <2>4. ~Telling'
    BY <2>1 DEF Telling
  <2>5. Counts'
    BY <1>2, <2>1, <2>4, CountsFrame
  <2>6. Control'
    BY <1>2, <2>1 DEF IInv, Control
  <2>7. Screen'
    BY <2>4 DEF Screen
  <2>8. Told'
    <3>1. Due' = Due /\ page'.bubbles = <<Due>> /\ ~fault' /\ gen'.last
      BY <1>2, <2>1, <2>2 DEF Due
    <3>2. Len(<<Due>>) <= 2
      OBVIOUS
    <3>3. Len(page'.bubbles) <= 2
      BY <3>1, <3>2, Zenon
    <3> QED BY <2>1, <3>1, <3>3 DEF Told
  <2> QED BY <2>3, <2>5, <2>6, <2>7, <2>8 DEF IInv
<1> QED BY <1>1, <1>2 DEF Persist, At, GraphUnchanged

LEMMA FailStep ==
  ASSUME IInv, Fail
  PROVE  IInv'
<1>1. /\ gen.pc = "failing" /\ Yield(GoTo("releasing"), Shown(page, "error"))
      /\ UNCHANGED <<held, here, seen, fault, graph, said, updates, queue, late>>
  BY DEF Fail, At, GraphUnchanged
<1>2. CASE ~here
  BY <1>1, <1>2, GivesUp DEF Yield, At
<1>3. CASE here
  <2>1. gen' = GoTo("releasing") /\ page' = Shown(page, "error")
    BY <1>1, <1>3 DEF Yield
  <2>2. /\ gen' \in [pc : Pcs, burst : Seq(Token), last : BOOLEAN]
        /\ gen'.pc = "releasing" /\ gen'.burst = gen.burst
        /\ gen'.last = gen.last
    BY <2>1, GoToFields DEF IInv, Pcs
  <2>3. /\ page' \in [text : Seq(Token), bubbles : Seq(Bubble)]
        /\ page'.text = <<>>
        /\ page'.bubbles = Append(page.bubbles, "error")
    BY <2>1, ShownFields DEF IInv, Bubble
  <2>4. fault /\ (page.bubbles = <<>> \/ (gen.last /\ page.bubbles = <<Due>>))
    BY <1>1 DEF IInv, Told
  <2>5. Types'
    BY <1>1, <2>2, <2>3 DEF IInv, Types
  <2>6. ~Telling'
    BY <2>2 DEF Telling
  <2>7. Counts'
    BY <1>1, <2>2, <2>3, <2>6, CountsFrame
  <2>8. Control'
    BY <1>1, <2>2 DEF IInv, Control
  <2>9. Screen'
    BY <2>6 DEF Screen
  <2>10. Told'
    <3>1. Len(<<"error">>) <= 2 /\ Len(<<Due, "error">>) <= 2
      OBVIOUS
    <3>2. \/ page'.bubbles = <<"error">>
          \/ gen.last /\ page'.bubbles = <<Due, "error">>
      BY <2>3, <2>4, ErrorAfter, Zenon
    <3>3. Len(page'.bubbles) <= 2
      BY <3>1, <3>2, Zenon
    <3>4. Due' = Due /\ fault' /\ gen'.last = gen.last
      BY <1>1, <2>2, <2>4 DEF Due
    <3> QED BY <2>2, <3>2, <3>3, <3>4 DEF Told
  <2> QED BY <2>5, <2>7, <2>8, <2>9, <2>10 DEF IInv
<1> QED BY <1>2, <1>3

LEMMA ReleaseStep ==
  ASSUME IInv, Release
  PROVE  IInv'
<1>1. /\ gen.pc = "releasing"
      /\ gen' = [pc |-> "done", burst |-> <<>>, last |-> gen.last]
      /\ \/ held' = FALSE /\ UNCHANGED <<page, fault>>
         \/ fault' = TRUE /\ page' = Rejected /\ UNCHANGED held
      /\ UNCHANGED <<here, seen, graph, said, updates, queue, late>>
  BY DEF Release, At, GraphUnchanged
<1>2. /\ gen' \in [pc : Pcs, burst : Seq(Token), last : BOOLEAN]
      /\ gen'.pc = "done" /\ gen'.burst = <<>> /\ gen'.last = gen.last
  BY <1>1, Fields DEF IInv, Pcs
<1>3. /\ page' \in [text : Seq(Token), bubbles : Seq(Bubble)]
      /\ page'.text = page.text \/ page'.text = <<>>
      /\ \/ page' = page /\ fault' = fault
         \/ fault' /\ here /\ page'.bubbles = Append(page.bubbles, "error")
         \/ fault' /\ ~here /\ page' = page
  BY <1>1, ShownFields DEF Rejected, Bubble, IInv, Types
<1>4. held' \in BOOLEAN /\ fault' \in BOOLEAN
  BY <1>1 DEF IInv, Types
<1>5. Types'
  BY <1>1, <1>2, <1>3, <1>4 DEF IInv, Types
<1>6. ~Telling'
  BY <1>2 DEF Telling
<1>7. Counts'
  <2>1. /\ Len(seen) \in Nat /\ Len(queue) \in Nat
        /\ Len(gen.burst) \in Nat /\ said \in Nat
    BY Fields, StreamEventsAssumption DEF IInv, Types
  <2>2. Len(seen) + Len(gen.burst) + Len(queue) <= said
    BY DEF IInv, Counts
  <2>3. \A a, b, c, d \in Nat : a + b + c <= d => a + 0 + c <= d
    OBVIOUS
  <2>4. Len(seen) + 0 + Len(queue) <= said
    BY <2>1, <2>2, <2>3, Zenon
  <2>5. Len(gen'.burst) = 0
    BY <1>2
  <2>6. Counted(page'.text, Len(seen) - Len(page'.text))
        /\ Len(page'.text) <= Len(seen)
    <3>1. CASE page'.text = page.text
      BY <3>1 DEF IInv, Counts
    <3>2. CASE page'.text = <<>>
      BY <2>1, <3>2 DEF Counted
    <3> QED BY <1>3, <3>1, <3>2
  <2>7. Len(seen') + Len(gen'.burst) + Len(queue') <= said'
    BY <1>1, <2>4, <2>5, Zenon
  <2>8. Counted(seen', 0) /\ Counted(queue', said' - Len(queue'))
    BY <1>1 DEF IInv, Counts
  <2>9. Counted(page'.text, Len(seen') - Len(page'.text))
        /\ Len(page'.text) <= Len(seen')
    BY <1>1, <2>6
  <2> QED BY <1>6, <2>7, <2>8, <2>9 DEF Counts, Counted
<1>8. Control'
  BY <1>1, <1>2 DEF IInv, Control
<1>9. Screen'
  BY <1>6 DEF Screen
<1>10. Told'
  <2> DEFINE b == page.bubbles
  <2>1. /\ Len(b) <= 2
        /\ here => \/ ~fault /\ gen.last /\ b = <<Due>>
                   \/ fault /\ b = <<"error">>
                   \/ fault /\ gen.last /\ b = <<Due, "error">>
    BY <1>1 DEF IInv, Told
  <2>2. Due' = Due /\ here' = here
    BY <1>1 DEF Due
  <2>3. b \in Seq(Bubble) /\ Len(b) \in Nat
    BY Fields DEF IInv
  <2>4. Len(page'.bubbles) <= 3
    <3>1. CASE page' = page
      <4>1. \A n \in Nat : n <= 2 => n <= 3
        OBVIOUS
      <4> QED BY <2>1, <2>3, <3>1, <4>1, Zenon
    <3>2. CASE page'.bubbles = Append(b, "error")
      <4>1. Len(Append(b, "error")) = Len(b) + 1
        BY <2>3, AppendProperties DEF Bubble
      <4>2. \A n \in Nat : n <= 2 => n + 1 <= 3
        OBVIOUS
      <4>3. Len(b) + 1 <= 3
        BY <2>1, <2>3, <4>2, Zenon
      <4> QED BY <3>2, <4>1, <4>3, Zenon
    <3> QED BY <1>3, <3>1, <3>2
  <2>6. ASSUME here
        PROVE  LET c == page'.bubbles
               IN  \/ ~fault' /\ gen.last /\ c = <<Due>>
                   \/ fault' /\ c \in {<<"error">>, <<"error", "error">>}
                   \/ fault' /\ gen.last
                      /\ c \in {<<Due, "error">>, <<Due, "error", "error">>}
    <3>1. CASE page' = page /\ fault' = fault
      BY <2>1, <2>6, <3>1, Zenon
    <3>2. CASE fault' /\ page'.bubbles = Append(b, "error")
      BY <2>1, <2>6, <3>2, ErrorAfter, Zenon
    <3> QED BY <1>3, <2>6, <3>1, <3>2
  <2> QED BY <1>2, <2>2, <2>4, <2>6 DEF Told
<1> QED BY <1>5, <1>7, <1>8, <1>9, <1>10 DEF IInv

LEMMA LeaveStep ==
  ASSUME IInv, Leave
  PROVE  IInv'
<1>1. /\ here' = FALSE
      /\ UNCHANGED <<graph, said, updates, queue, gen, held, page, seen, late,
                     fault>>
  BY DEF Leave
<1>2. Types'
  BY <1>1 DEF IInv, Types
<1>3. Counts'
  BY <1>1, CountsFrame DEF Telling
<1>4. Control' /\ Screen'
  BY <1>1 DEF IInv, Control, Screen, Telling
<1>5. Told'
  BY <1>1 DEF IInv, Told, Due
<1> QED BY <1>2, <1>3, <1>4, <1>5 DEF IInv
-----------------------------------------------------------------------------
(* The invariant. *)

LEMMA InitHolds ==
  ASSUME Init
  PROVE  IInv
<1> USE DEF Init
<1>1. /\ <<>> \in Seq(Token) /\ <<>> \in Seq(Bubble) /\ Len(<<>>) = 0
      /\ 0 \in 0..MaxTokens /\ 0 \in 0..MaxUpdates
  BY StreamEventsAssumption
<1>2. Types
  BY <1>1 DEF Types, Graph, Answers, Pcs
<1>3. Counts
  BY DEF Counts, Counted
<1>4. Control /\ Screen
  BY DEF Control, Screen
<1>5. Told
  BY DEF Told
<1> QED BY <1>2, <1>3, <1>4, <1>5 DEF IInv

LEMMA SpokenStep ==
  ASSUME IInv, Spoken
  PROVE  IInv'
<1>1. PICK a \in Answers : graph' = [graph EXCEPT !.pc = "ending", !.answer = a]
  BY DEF Spoken
<1>2. /\ graph' \in Graph /\ graph'.pc = "ending" /\ graph'.made = graph.made
  BY <1>1 DEF IInv, Types, Graph
<1>3. /\ graph.pc \in {"working", "speaking"} /\ updates' = updates + 1
      /\ UNCHANGED <<said, queue, late, here, gen, held, page, seen, fault>>
  BY DEF Spoken, GenUnchanged
<1> QED BY <1>2, <1>3, GraphGoesOn

LEMMA GraphEndsStep ==
  ASSUME IInv, GraphEnds
  PROVE  IInv'
<1>1. PICK e \in {"complete", "paused", "thrown"} :
        graph' = [graph EXCEPT !.pc = "over", !.end = e]
  BY DEF GraphEnds
<1>2. /\ graph' \in Graph /\ graph'.pc = "over" /\ graph'.end # "open"
      /\ graph'.made = graph.made
  BY <1>1 DEF IInv, Types, Graph
<1>3. /\ graph.pc \in {"working", "speaking", "ending"}
      /\ UNCHANGED <<said, updates, queue, late, here, gen, held, page, seen,
                     fault>>
  BY DEF GraphEnds, GenUnchanged
<1> QED BY <1>2, <1>3, GraphGoesOn

LEMMA StutterStep ==
  ASSUME IInv, UNCHANGED vars
  PROVE  IInv'
<1> USE DEF vars
<1>1. Types' /\ Counts'
  BY DEF IInv, Types, Counts, Counted, Telling
<1>2. Control' /\ Screen'
  BY DEF IInv, Control, Screen, Telling
<1>3. Told'
  BY DEF IInv, Told, Due
<1> QED BY <1>1, <1>2, <1>3 DEF IInv

(* The invariant holds in every state.                                     *)
THEOREM Invariance == Spec => []IInv
<1>1. Init => IInv
  BY InitHolds
<1>2. IInv /\ [Next]_vars => IInv'
  <2> SUFFICES ASSUME IInv, [Next]_vars
               PROVE  IInv'
    OBVIOUS
  <2>1. CASE GraphNext
    BY <2>1, UpdateStep, SpeakStep, SpokenStep, GraphEndsStep DEF GraphNext
  <2>2. CASE Status
    BY <2>2, ReportStep DEF Status, GraphUnchanged, At
  <2>3. CASE Announce
    BY <2>3, ReportStep DEF Announce, GraphUnchanged, At
  <2>4. CASE GenNext /\ ~Status /\ ~Announce
    BY <2>4, AcquireStep, StartStep, TakeStep, LoopEndsStep, DrainStep,
       SpliceStep, SendTokenStep, ConcludeStep, PersistStep, FailStep,
       ReleaseStep DEF GenNext
  <2>5. CASE Leave \/ UNCHANGED vars
    BY <2>5, LeaveStep, StutterStep
  <2> QED BY <2>1, <2>2, <2>3, <2>4, <2>5 DEF Next
<1> QED BY <1>1, <1>2, PTL DEF Spec

-----------------------------------------------------------------------------
(* What follows from it. *)

(* However many tokens and updates a run makes, no more tokens are queued, *)
(* in hand or on the page than the node may emit, and the page never gets  *)
(* a fourth bubble from one stream.                                        *)
THEOREM TypesKept == Spec => []TypeOK
<1>1. IInv => TypeOK
  <2> SUFFICES ASSUME IInv PROVE TypeOK
    OBVIOUS
  <2>1. /\ Len(seen) \in Nat /\ Len(gen.burst) \in Nat /\ Len(queue) \in Nat
        /\ Len(page.text) \in Nat /\ said \in Nat /\ said <= MaxTokens
        /\ graph.made \in Nat /\ graph.made <= MaxUpdates
    BY Fields, StreamEventsAssumption DEF IInv, Types
  <2>2. /\ Len(seen) + Len(gen.burst) + Len(queue) <= said
        /\ Len(page.text) <= Len(seen)
    BY DEF IInv, Counts
  <2>3. /\ Len(seen) <= MaxTokens /\ Len(gen.burst) <= MaxTokens
        /\ Len(queue) <= MaxTokens /\ Len(page.text) <= MaxTokens
    BY <2>1, <2>2, StreamEventsAssumption
  <2>4. /\ seen \in Tokens /\ gen.burst \in Tokens /\ queue \in Tokens
        /\ page.text \in Tokens
    BY <2>3, Fields DEF IInv, Types, Tokens, Token
  <2>5. updates \in 0..(MaxUpdates + 1)
    BY <2>1, StreamEventsAssumption DEF IInv, Types, Control
  <2>6. gen \in Gen
    BY <2>4 DEF IInv, Types, Gen, Pcs
  <2>7. Len(page.bubbles) <= 3
    <3>1. gen.pc \in Pcs /\ Len(<<>>) <= 3 /\ Len(<<Due>>) <= 3
      BY Fields DEF IInv
    <3>2. CASE gen.pc \in {"releasing", "done"}
      <4>1. Len(page.bubbles) \in Nat
        BY Fields DEF IInv
      <4> QED BY <3>2, <4>1 DEF IInv, Told
    <3>3. CASE gen.pc \notin {"releasing", "done"}
      <4>1. page.bubbles = <<>> \/ page.bubbles = <<Due>>
        BY <3>3 DEF IInv, Told
      <4> QED BY <3>1, <4>1
    <3> QED BY <3>2, <3>3
  <2>8. page \in Page
    <3>1. page.bubbles \in {b \in Seq({"answer", "review", "error"}) : Len(b) <= 3}
      BY <2>7, Fields DEF IInv, Bubble
    <3> QED BY <2>4, <3>1 DEF IInv, Types, Page
  <2> QED BY <2>4, <2>5, <2>6, <2>8 DEF IInv, Types, TypeOK
<1> QED BY <1>1, Invariance, PTL

(* A text whose tokens are counted from the first to the last emitted one  *)
(* is all that was emitted.                                                *)
LEMMA AllEmitted ==
  ASSUME said \in Nat, NEW q \in Seq(Nat), Len(q) = said, Counted(q, 0)
  PROVE  q = Emitted
<1>1. /\ Emitted \in Seq(Nat) /\ Len(Emitted) = said
      /\ \A i \in 1..said : Emitted[i] = i
  BY DEF Emitted
<1>2. \A i \in 1..said : q[i] = i
  BY DEF Counted
<1> QED BY <1>1, <1>2, SeqEqual

(* Two pieces of which the second goes on where the first ends.            *)
LEMMA CountedConcat ==
  ASSUME NEW p \in Seq(Nat), NEW q \in Seq(Nat), Counted(p, 0),
         Counted(q, Len(p))
  PROVE  /\ p \o q \in Seq(Nat) /\ Len(p \o q) = Len(p) + Len(q)
         /\ Counted(p \o q, 0)
<1>1. /\ p \o q \in Seq(Nat) /\ Len(p \o q) = Len(p) + Len(q)
      /\ \A i \in 1 .. Len(p) + Len(q) :
           (p \o q)[i] = IF i <= Len(p) THEN p[i] ELSE q[i - Len(p)]
  BY ConcatProperties
<1>2. ASSUME NEW i \in 1..Len(p \o q) PROVE (p \o q)[i] = 0 + i
  <2>1. Len(p) \in Nat /\ Len(q) \in Nat
    OBVIOUS
  <2>2. CASE i <= Len(p)
    BY <1>1, <2>1, <2>2 DEF Counted
  <2>3. CASE ~(i <= Len(p))
    <3>1. i - Len(p) \in 1..Len(q)
      BY <1>1, <2>1, <2>3
    <3> QED BY <1>1, <2>1, <2>3, <3>1 DEF Counted
  <2> QED BY <2>2, <2>3
<1> QED BY <1>1, <1>2 DEF Counted

(* Whatever the graph does during the yields, the client gets each token   *)
(* once, in the order of emission, and all of them before the outcome.     *)
THEOREM TokensArriveOnce == Spec => []TokensOnce
<1>1. IInv => TokensOnce
  <2> SUFFICES ASSUME IInv PROVE TokensOnce
    OBVIOUS
  <2>1. /\ said \in Nat /\ seen \in Seq(Nat) /\ gen.burst \in Seq(Nat)
        /\ queue \in Seq(Nat) /\ Len(queue) \in Nat
        /\ Len(seen) \in Nat /\ Len(gen.burst) \in Nat
    BY Fields, StreamEventsAssumption DEF IInv, Types, Token
  <2>2. ASSUME Telling PROVE seen \o gen.burst \o queue = Emitted
    <3>1. /\ Len(seen) + Len(gen.burst) + Len(queue) = said
          /\ Counted(seen, 0) /\ Counted(gen.burst, Len(seen))
          /\ Counted(queue, said - Len(queue))
      BY <2>2 DEF IInv, Counts
    <3>2. /\ seen \o gen.burst \in Seq(Nat)
          /\ Len(seen \o gen.burst) = Len(seen) + Len(gen.burst)
          /\ Counted(seen \o gen.burst, 0)
      BY <2>1, <3>1, CountedConcat
    <3>3. said - Len(queue) = Len(seen \o gen.burst)
      BY <2>1, <3>1, <3>2
    <3>4. Counted(queue, Len(seen \o gen.burst))
      BY <3>1, <3>3
    <3>5. /\ seen \o gen.burst \o queue \in Seq(Nat)
          /\ Len(seen \o gen.burst \o queue)
               = Len(seen \o gen.burst) + Len(queue)
          /\ Counted(seen \o gen.burst \o queue, 0)
      BY <2>1, <3>2, <3>4, CountedConcat
    <3> QED BY <2>1, <3>1, <3>2, <3>5, AllEmitted
  <2>3. ASSUME gen.pc \in {"concluding", "persisting"} PROVE seen = Emitted
    <3>1. gen.burst = <<>> /\ queue = <<>> /\ Telling
      BY <2>3 DEF IInv, Control, Telling
    <3>2. Len(seen) = said /\ Counted(seen, 0)
      BY <2>1, <3>1 DEF IInv, Counts
    <3> QED BY <2>1, <3>2, AllEmitted
  <2> QED BY <2>2, <2>3 DEF TokensOnce
<1> QED BY <1>1, Invariance, PTL

(* When the generator has kept up with the graph, the streaming bubble     *)
(* holds the whole answer at the moment it becomes final.                  *)
THEOREM ScreenIsWhole == Spec => []ScreenShowsAnswer
<1>1. IInv => ScreenShowsAnswer
  <2> SUFFICES ASSUME IInv, gen.pc = "concluding", ~late
               PROVE  page.text = Emitted
    BY DEF ScreenShowsAnswer
  <2>1. /\ said \in Nat /\ page.text \in Seq(Nat) /\ Len(seen) \in Nat
    BY Fields, StreamEventsAssumption DEF IInv, Types, Token
  <2>2. gen.burst = <<>> /\ queue = <<>> /\ Telling
    BY DEF IInv, Control, Telling
  <2>3. Len(seen) = said
    BY <2>1, <2>2 DEF IInv, Counts
  <2>4. Len(page.text) = Len(seen)
    BY <2>2 DEF IInv, Screen
  <2>5. Counted(page.text, 0)
    <3>1. Counted(page.text, Len(seen) - Len(page.text))
      BY DEF IInv, Counts
    <3>2. Len(seen) - Len(page.text) = 0
      BY <2>1, <2>4
    <3> QED BY <3>1, <3>2
  <2> QED BY <2>1, <2>3, <2>4, <2>5, AllEmitted
<1> QED BY <1>1, Invariance, PTL

(* A client that stayed to the end was told the outcome of the run, or     *)
(* last of all an error.                                                   *)
THEOREM EndsTold == Spec => []EndTellsOutcome
<1>1. IInv => EndTellsOutcome
  <2> SUFFICES ASSUME IInv, At("done"), here
               PROVE  /\ ~fault => page.bubbles = <<Due>>
                      /\ fault =>
                           /\ page.bubbles # <<>>
                           /\ page.bubbles[Len(page.bubbles)] = "error"
                           /\ page.bubbles[1] \in {Due, "error"}
                           /\ \A i \in 2..Len(page.bubbles) :
                                page.bubbles[i] = "error"
    BY Zenon DEF EndTellsOutcome, Due
  <2> DEFINE b == page.bubbles
  <2>1. \/ ~fault /\ b = <<Due>>
        \/ fault /\ b \in {<<"error">>, <<"error", "error">>,
                           <<Due, "error">>, <<Due, "error", "error">>}
    BY DEF IInv, Told, At
  <2> QED BY <2>1
<1> QED BY <1>1, Invariance, PTL
=============================================================================
