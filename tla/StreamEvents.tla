---------------------------- MODULE StreamEvents ----------------------------
(***************************************************************************)
(* What a client of POST /stream is told, in which order: the generator    *)
(* streamRun (agents.service.ts), the controller's Observable that pulls   *)
(* it, the two nodes that stream their answer (generator.node.ts,          *)
(* chat.node.ts), and the page that shows the events (public/index.html).  *)
(*                                                                         *)
(* A token goes from the node into tokenQueue, and from there, when the    *)
(* generator has handled the update of some node, to the client.  The      *)
(* graph does not wait for the generator: it runs on while the generator   *)
(* is suspended in a yield, and its updates queue up.  What the graph      *)
(* does is in AgentGraph; here it makes updates, speaks at most once (the  *)
(* generator and chat nodes both complete the run), and ends.              *)
(*                                                                         *)
(* Events that only report progress (status, model_switch, plan,           *)
(* tool_call_...) do not change what the page is waiting for; they matter  *)
(* as points where a client that has left is noticed.                      *)
(*                                                                         *)
(* A definition whose comment says "faulty variant" is not the code: it is *)
(* what the definition after it would be with a plausible bug, kept to     *)
(* show that a property tells the two apart.                               *)
(***************************************************************************)
EXTENDS Naturals, Sequences

CONSTANTS
  MaxTokens,  \* bound: tokens a node emits
  MaxUpdates  \* bound: updates of nodes before the graph ends

ASSUME StreamEventsAssumption ==
  /\ MaxTokens \in Nat
  /\ MaxUpdates \in Nat

VARIABLES
  graph,    \* where the graph is, and what it has come to
  said,     \* tokens emitted so far; they are numbered from 1
  updates,  \* updates of nodes that the generator has not taken yet
  queue,    \* tokenQueue
  gen,      \* the generator
  held,     \* the session lock is this request's
  here,     \* the client has not left
  page,     \* what the page shows
  seen,     \* history: the tokens the client received
  late,     \* history: a token came when the generator was not waiting
  fault     \* history: an await of the generator has thrown

vars == <<graph, said, updates, queue, gen, held, here, page, seen, late,
          fault>>

(* The answer of a run is what the node has streamed, a text of another    *)
(* source (a call without streaming, a terminal response), or missing.     *)
Answers == {"said", "other", "none"}

Graph == [pc     : {"off", "working", "speaking", "ending", "over"},
          made   : 0..MaxUpdates,
          answer : Answers,
          end    : {"open", "complete", "paused", "thrown"}]

Tokens == {t \in Seq(1..MaxTokens) : Len(t) <= MaxTokens}

(* burst is what splice(0) has answered and is not sent yet; last says     *)
(* that the loop over the updates is over.                                 *)
Gen == [pc    : {"idle", "locked", "starting", "waiting", "update",
                 "draining", "reset", "sending", "concluding", "persisting",
                 "failing", "releasing", "done"},
        burst : Tokens,
        last  : BOOLEAN]

(* The text of the streaming bubble, and the bubbles and review cards that *)
(* stay.                                                                   *)
Page == [text    : Tokens,
         bubbles : {b \in Seq({"answer", "review", "error"}) : Len(b) <= 3}]

-----------------------------------------------------------------------------
(* The page: handleStreamEvent. *)

Cleared(p) == [p EXCEPT !.text = <<>>]

Typed(p, t) == [p EXCEPT !.text = Append(@, t)]

(* final, review_required and error end with setIdle. *)
Shown(p, b) == [text |-> <<>>, bubbles |-> Append(p.bubbles, b)]

-----------------------------------------------------------------------------
(* The graph. *)

GraphUnchanged == UNCHANGED <<graph, said, updates, queue, late>>

GenUnchanged == UNCHANGED <<gen, held, page, seen, fault>>

(* A node that does not stream has ended. *)
Update ==
  /\ graph.pc \in {"working", "ending"}
  /\ graph.made < MaxUpdates
  /\ graph' = [graph EXCEPT !.made = @ + 1]
  /\ updates' = updates + 1
  /\ UNCHANGED <<said, queue, late, here>> /\ GenUnchanged

(* onToken. *)
Speak ==
  /\ graph.pc \in {"working", "speaking"}
  /\ said < MaxTokens
  /\ graph' = [graph EXCEPT !.pc = "speaking"]
  /\ said' = said + 1
  /\ queue' = Append(queue, said + 1)
  /\ late' = (late \/ gen.pc # "waiting" \/ updates # 0)
  /\ UNCHANGED <<updates, here>> /\ GenUnchanged

(* The node that speaks has ended.  Its answer is what it accumulated; or, *)
(* after an error of the stream or an empty answer, another text: that of  *)
(* invokeLlm (generator), of the attempts (generator), or of the terminal  *)
(* response that a failed node leads to.  White space alone is no answer   *)
(* of the chat node, which does not ask again.                             *)
Spoken ==
  /\ graph.pc \in {"working", "speaking"}
  /\ \E a \in Answers :
       /\ a = "said" => graph.pc = "speaking"
       /\ graph' = [graph EXCEPT !.pc = "ending", !.answer = a]
  /\ updates' = updates + 1
  /\ UNCHANGED <<said, queue, late, here>> /\ GenUnchanged

(* The graph is complete, pauses for a review, which makes no update, or   *)
(* throws: a checkpoint that cannot be written, the recursion limit.       *)
GraphEnds ==
  /\ \/ graph.pc = "ending"
        /\ graph' = [graph EXCEPT !.pc = "over", !.end = "complete"]
     \/ graph.pc = "working"
        /\ graph' = [graph EXCEPT !.pc = "over", !.end = "paused"]
     \/ graph.pc \in {"working", "speaking", "ending"}
        /\ graph' = [graph EXCEPT !.pc = "over", !.end = "thrown"]
  /\ UNCHANGED <<said, updates, queue, late, here>> /\ GenUnchanged

-----------------------------------------------------------------------------
(* The generator.  A yield hands its event to the client and resumes; if   *)
(* the client has left, the Observable returns the generator there, which  *)
(* only runs finally.                                                      *)

At(pc) == gen.pc = pc

GoTo(pc) == [gen EXCEPT !.pc = pc]

(* Faulty variant: finally does not run in a generator that is returned. *)
YieldNoFinally(next, shown) ==
  IF here
  THEN gen' = next /\ page' = shown
  ELSE gen' = GoTo("done") /\ UNCHANGED page

Yield(next, shown) ==
  IF here
  THEN gen' = next /\ page' = shown
  ELSE gen' = GoTo("releasing") /\ UNCHANGED page

(* The controller's catchError tells the client, when streamRun throws. *)
Rejected == IF here THEN Shown(page, "error") ELSE page

(* acquireSessionLock: refused with 409, or Redis fails. *)
Acquire ==
  /\ At("idle")
  /\ \/ /\ gen' = GoTo("locked")
        /\ held' = TRUE
        /\ UNCHANGED <<page, fault>>
     \/ /\ gen' = GoTo("done")
        /\ page' = Rejected
        /\ fault' = TRUE
        /\ UNCHANGED held
  /\ UNCHANGED <<here, seen>> /\ GraphUnchanged

Status ==
  /\ At("locked")
  /\ Yield(GoTo("starting"), page)
  /\ UNCHANGED <<held, here, seen, fault>> /\ GraphUnchanged

(* An await throws: catch tells the client. *)
Throw(pc) ==
  /\ At(pc)
  /\ gen' = GoTo("failing")
  /\ fault' = TRUE
  /\ UNCHANGED <<held, here, page, seen>> /\ GraphUnchanged

Start ==
  \/ /\ At("starting")
     /\ gen' = GoTo("waiting")
     /\ graph' = [graph EXCEPT !.pc = "working"]
     /\ UNCHANGED <<said, updates, queue, late, held, here, page, seen, fault>>
  \/ Throw("starting")

(* for await: the next update, or the end of the graph. *)
Take ==
  /\ At("waiting") /\ updates > 0
  /\ gen' = GoTo("update")
  /\ updates' = updates - 1
  /\ UNCHANGED <<graph, said, queue, late, held, here, page, seen, fault>>

LoopEnds ==
  /\ updates = 0 /\ graph.pc = "over"
  /\ \/ /\ At("waiting") /\ graph.end # "thrown"
        /\ gen' = [pc |-> "draining", burst |-> <<>>, last |-> TRUE]
        /\ UNCHANGED <<held, here, page, seen, fault>> /\ GraphUnchanged
     \/ graph.end = "thrown" /\ Throw("waiting")

(* Not every update is reported. *)
Announce ==
  /\ At("update")
  /\ \/ Yield(GoTo("draining"), page)
     \/ gen' = GoTo("draining") /\ UNCHANGED page
  /\ UNCHANGED <<held, here, seen, fault>> /\ GraphUnchanged

(* After the tokens: the next update, or the final state. *)
Onward == [pc |-> IF gen.last THEN "concluding" ELSE "waiting",
           burst |-> <<>>, last |-> gen.last]

Drain ==
  /\ At("draining")
  /\ IF queue = <<>>
     THEN gen' = Onward /\ UNCHANGED page
     ELSE Yield(GoTo("reset"), Cleared(page))
  /\ UNCHANGED <<held, here, seen, fault>> /\ GraphUnchanged

(* The tokens t are in hand, the first of them is yielded. *)
SendFirst(t) ==
  /\ Yield([gen EXCEPT !.pc = "sending", !.burst = Tail(t)],
           Typed(page, Head(t)))
  /\ seen' = IF here THEN Append(seen, Head(t)) ELSE seen

(* Faulty variant: the queue is read and not emptied. *)
SpliceCopying ==
  /\ At("reset")
  /\ SendFirst(queue)
  /\ UNCHANGED <<graph, said, updates, queue, late, held, here, fault>>

(* Faulty variant: shift() in place of splice(0). *)
SpliceOne ==
  /\ At("reset")
  /\ SendFirst(<<Head(queue)>>)
  /\ queue' = Tail(queue)
  /\ UNCHANGED <<graph, said, updates, late, held, here, fault>>

(* splice(0) takes all that is in the queue by the time the generator goes *)
(* on after the reset.                                                     *)
Splice ==
  /\ At("reset")
  /\ SendFirst(queue)
  /\ queue' = <<>>
  /\ UNCHANGED <<graph, said, updates, late, held, here, fault>>

(* Faulty variant: the queue is cleared after its tokens are sent. *)
SendTokenClearing ==
  /\ At("sending")
  /\ IF gen.burst = <<>>
     THEN gen' = Onward /\ queue' = <<>> /\ UNCHANGED <<page, seen>>
     ELSE SendFirst(gen.burst) /\ UNCHANGED queue
  /\ UNCHANGED <<graph, said, updates, late, held, here, fault>>

SendToken ==
  /\ At("sending")
  /\ IF gen.burst = <<>>
     THEN gen' = Onward /\ UNCHANGED <<page, seen>>
     ELSE SendFirst(gen.burst)
  /\ UNCHANGED <<held, here, fault>> /\ GraphUnchanged

(* Faulty variant: a state without an answer is an error, paused or not. *)
OutcomeNoReview ==
  IF graph.end = "complete" /\ graph.answer # "none" THEN "answer"
  ELSE "error"

(* final, review_required or error. *)
Outcome ==
  CASE graph.end = "complete" /\ graph.answer # "none" -> "answer"
    [] graph.end = "paused" -> "review"
    [] OTHER -> "error"

(* getState, and the one event that tells how the run ended. *)
Conclude ==
  \/ /\ At("concluding")
     /\ Yield(GoTo("persisting"), Shown(page, Outcome))
     /\ UNCHANGED <<held, here, seen, fault>> /\ GraphUnchanged
  \/ Throw("concluding")

(* persist swallows its errors; setVectorMemoryIds does not. *)
Persist ==
  \/ /\ At("persisting")
     /\ gen' = GoTo("releasing")
     /\ UNCHANGED <<held, here, page, seen, fault>> /\ GraphUnchanged
  \/ Throw("persisting")

Fail ==
  /\ At("failing")
  /\ Yield(GoTo("releasing"), Shown(page, "error"))
  /\ UNCHANGED <<held, here, seen, fault>> /\ GraphUnchanged

(* finally.  If Redis fails the lock stays until it expires, and streamRun *)
(* throws after all.                                                       *)
Release ==
  /\ At("releasing")
  /\ gen' = [pc |-> "done", burst |-> <<>>, last |-> gen.last]
  /\ \/ held' = FALSE /\ UNCHANGED <<page, fault>>
     \/ fault' = TRUE /\ page' = Rejected /\ UNCHANGED held
  /\ UNCHANGED <<here, seen>> /\ GraphUnchanged

(* The Observable is given up: the client leaves, or TimeoutInterceptor    *)
(* ends a stream that was silent for too long.                             *)
Leave ==
  /\ here
  /\ here' = FALSE
  /\ UNCHANGED <<graph, said, updates, queue, gen, held, page, seen, late,
                 fault>>

Init ==
  /\ graph = [pc |-> "off", made |-> 0, answer |-> "none", end |-> "open"]
  /\ said = 0
  /\ updates = 0
  /\ queue = <<>>
  /\ gen = [pc |-> "idle", burst |-> <<>>, last |-> FALSE]
  /\ held = FALSE
  /\ here = TRUE
  /\ page = [text |-> <<>>, bubbles |-> <<>>]
  /\ seen = <<>>
  /\ late = FALSE
  /\ fault = FALSE

GraphNext == Update \/ Speak \/ Spoken \/ GraphEnds

GenNext ==
  \/ Acquire \/ Status \/ Start \/ Take \/ LoopEnds \/ Announce \/ Drain
  \/ Splice \/ SendToken \/ Conclude \/ Persist \/ Fail \/ Release

Next == GraphNext \/ GenNext \/ Leave

(* The event loop gets round to the generator; the calls of a node have    *)
(* timeouts, and a graph has 200 steps.                                    *)
Spec ==
  /\ Init /\ [][Next]_vars
  /\ WF_vars(GenNext) /\ WF_vars(GraphNext)

-----------------------------------------------------------------------------
(* Properties. *)

(* The state keeps its types: no more tokens are queued, in hand or on the *)
(* page than the node has emitted, and a page gets at most three bubbles   *)
(* from one stream (agents.service.ts tokenQueue, index.html).             *)
TypeOK ==
  /\ graph \in Graph
  /\ said \in 0..MaxTokens
  /\ updates \in 0..(MaxUpdates + 1)
  /\ queue \in Tokens
  /\ gen \in Gen
  /\ held \in BOOLEAN
  /\ here \in BOOLEAN
  /\ page \in Page
  /\ seen \in Tokens
  /\ late \in BOOLEAN
  /\ fault \in BOOLEAN

Emitted == [i \in 1..said |-> i]

(* The generator has not given up the run. *)
Telling == gen.pc \notin {"failing", "releasing", "done"}

(* Every token a node emits is received once and in order, however the     *)
(* graph runs on during the yields, and before the outcome of the run is   *)
(* told (tokenQueue.splice, agents.service.ts:368, :388).                  *)
TokensOnce ==
  /\ Telling => seen \o gen.burst \o queue = Emitted
  /\ gen.pc \in {"concluding", "persisting"} => seen = Emitted

(* When a streamed answer is about to become final, the streaming bubble   *)
(* shows it whole: no reset came in its middle and no token of it is       *)
(* missing.  This needs the generator to keep up: tokens that come while   *)
(* it handles an earlier update are wiped by the reset of the next one.    *)
ScreenShowsAnswer ==
  gen.pc = "concluding" /\ graph.answer = "said" /\ ~late =>
    page.text = Emitted

(* A client that stayed is told one outcome, the one the run has; if an    *)
(* await has thrown, an error comes last, in place of the outcome or after *)
(* it: "final" is not always the last event.                               *)
EndTellsOutcome ==
  LET b == page.bubbles
      due == IF graph.end = "paused" THEN "review"
             ELSE IF graph.answer = "none" THEN "error" ELSE "answer"
  IN  At("done") /\ here =>
        /\ ~fault => b = <<due>>
        /\ fault => /\ b # <<>> /\ b[Len(b)] = "error"
                    /\ b[1] \in {due, "error"}
                    /\ \A i \in 2..Len(b) : b[i] = "error"

(* Every request comes to its end and gives the lock back, unless giving   *)
(* it back failed; also when the client has left or the graph has thrown.  *)
StreamEnds == At("locked") ~> At("done") /\ (held => fault)
=============================================================================
