---------------------------- MODULE ActorContext ----------------------------
(***************************************************************************)
(* One actor and its Context: the lifecycle state machine, the mailbox,    *)
(* the wait-item FIFO, the registry of spawned actor-futures and the poll  *)
(* cycle that drives them, together with the four context items of        *)
(* actix/src/contextitems.rs:                                              *)
(*   ActorWaitItem, ActorDelayedMessageItem, ActorMessageItem,             *)
(*   ActorMessageStreamItem.                                               *)
(* The context engine itself (contextimpl) is not part of the sources; it  *)
(* is modelled from spec.md sections 4.1-4.4 and 5.                       *)
(*                                                                         *)
(* The actor is created the way examples/chat creates its actors: the      *)
(* create closure attaches one message stream (add_message_stream), calls  *)
(* ctx.notify for NotifyMsgs and ctx.notify_later for DelayedMsgs.  Other  *)
(* threads send envelopes to the mailbox.  What a handler does is given by *)
(* Behavior: nothing, ctx.wait(fut), ctx.stop(), or ctx.cancel_future of   *)
(* the delayed item carrying CancelTarget.                                 *)
(***************************************************************************)
EXTENDS Naturals, Sequences, FiniteSets, SequencesExt, FiniteSetsExt, Functions

CONSTANTS
  Senders,      \* threads holding an Addr of the actor
  SendOrder,    \* SendOrder[s]: the envelopes sender s sends, in order
  StreamMsgs,   \* the items of the attached message stream, in order
  NotifyMsgs,   \* messages passed to ctx.notify in the create closure
  DelayedMsgs,  \* messages passed to ctx.notify_later in the create closure
  Behavior,     \* Behavior[m]: what the handler of m does to the context
  CancelTarget, \* the delayed message whose handle a "cancel" handler cancels
  MailboxCap,   \* envelopes dispatched per poll pass before yielding
  MaxContinue   \* bound on stopping() returning Running::Continue

MailMsgs == UNION {Range(SendOrder[s]) : s \in Senders}
Msgs == MailMsgs \cup Range(StreamMsgs) \cup NotifyMsgs \cup DelayedMsgs

Behaviors == {"plain", "wait", "waitstop", "stop", "cancel"}

ASSUME /\ Behavior \in [Msgs -> Behaviors]
       /\ CancelTarget \in DelayedMsgs
       /\ MailboxCap \in Nat \ {0}
       /\ MaxContinue \in Nat
       \* every message value is sent, streamed or scheduled exactly once
       /\ \A s \in Senders : IsInjective(SendOrder[s])
       /\ IsInjective(StreamMsgs)

VARIABLES
  state,        \* ActorState: Started, Running, Stopping, Stopped
  phase,        \* where the context's poll cycle is
  woken,        \* the context task has been woken and will be polled
  mailbox,      \* envelopes received and not yet dispatched
  sendPos,      \* sendPos[s]: how many envelopes sender s has sent
  waitQ,        \* the wait-item FIFO: ActorWaitItem records
  items,        \* spawned actor-futures: handle -> item record
  toPoll,       \* handles still to be polled in the current pass
  dispatched,   \* envelopes dispatched in the current pass
  streamAvail,  \* how many stream items the stream has produced
  streamPos,    \* how many stream items poll_next has returned
  streamClosed, \* the stream has ended (poll_next will return None)
  timersFired,  \* delayed messages whose Sleep has elapsed
  hooks,        \* how often started/stopping/stopped have run
  handled,      \* history: the messages handed to Handler::handle, in order
  cancelled     \* history: messages whose item was cancelled while live

vars == <<state, phase, woken, mailbox, sendPos, waitQ, items, toPoll,
          dispatched, streamAvail, streamPos, streamClosed, timersFired,
          hooks, handled, cancelled>>

Phases == {"Idle", "Lifecycle", "Wait", "Items", "Mailbox", "Done"}
States == {"Started", "Running", "Stopping", "Stopped"}
NoMsg == "none"

(***************************************************************************)
(* The context items.                                                      *)
(***************************************************************************)
\* ActorWaitItem(Box<dyn ActorFuture>): the boxed future is "timer" (a
\* sleep that completes when its timer fires) or "stopper" (a future that
\* calls ctx.stop() when polled and never completes).
NewWaitItem(kind) ==
  [fut |-> IF kind = "waitstop" THEN "stopper" ELSE "timer", ready |-> FALSE]

NewDelayedItem(m) == [kind |-> "delayed", msg |-> m]
NewMessageItem(m) == [kind |-> "msg", msg |-> m]
NewStreamItem == [kind |-> "stream", msg |-> NoMsg]

ItemRecs == [kind : {"delayed", "msg", "stream"}, msg : Msgs \cup {NoMsg}]
WaitRecs == [fut : {"timer", "stopper"}, ready : BOOLEAN]

\* The items the create closure spawns, in call order: add_message_stream,
\* then the ctx.notify calls, then the ctx.notify_later calls.
InitItems ==
  <<NewStreamItem>>
    \o SetToSeq({NewMessageItem(m) : m \in NotifyMsgs})
    \o SetToSeq({NewDelayedItem(m) : m \in DelayedMsgs})

(***************************************************************************)
(* Context operations used by handlers and items (spec.md 4.1, 4.3).       *)
(***************************************************************************)
\* ActorState::alive
Alive(st) == st \in {"Started", "Running", "Stopping"}

\* ctx.stop(): any live state moves to Stopping; Stopped stays Stopped.
\* A stop requested during a poll is seen by step (5) of the same poll
\* (spec.md 4.3, "re-check lifecycle"); the model lets that poll end and
\* marks the task woken, so the next pass runs the stopping hook.  Handle
\* and PollWaitItems both rely on this.
CtxStop(st) == IF st = "Stopped" THEN st ELSE "Stopping"

\* Mutant: cancel_future forgets the handle but leaves the item registered.
CancelFutureNoop(its, m) == its

\* ctx.cancel_future(handle): drop the item if still present; idempotent.
CancelFuture(its, m) == Restrict(its, {h \in DOMAIN its : its[h].msg # m})

\* Handler::handle(act, m, ctx) followed by MessageResponse::handle(ctx,
\* None): the handler's effect on the context, applied to the item
\* registry its as the calling item has already left it.
Handle(m, its) ==
  LET b == Behavior[m] IN
  /\ handled' = Append(handled, m)
  /\ waitQ' = IF b \in {"wait", "waitstop"}
                THEN Append(waitQ, NewWaitItem(b)) ELSE waitQ
  /\ state' = IF b = "stop" THEN CtxStop(state) ELSE state
  /\ woken' = (woken \/ b = "stop")
  /\ items' = IF b = "cancel" THEN CancelFuture(its, CancelTarget) ELSE its
  /\ cancelled' = IF b = "cancel" /\ \E h \in DOMAIN its : its[h].msg = CancelTarget
                    THEN cancelled \cup {CancelTarget} ELSE cancelled

\* An item returned from poll (Ready or Pending).  The pass goes on with
\* the next item unless the context is now waiting (ctx.waiting()): then
\* it starts over so that the wait FIFO is served first.
ItemReturned(h) ==
  /\ toPoll' = toPoll \ {h}
  /\ phase' = IF waitQ' # <<>> THEN "Lifecycle" ELSE "Items"

\* Mutant: the wait item passes the inner Pending through unconditionally.
WaitItemPollIgnoresAlive(innerReady, st) == innerReady

(***************************************************************************)
(* ActorWaitItem::poll: the result of polling the boxed future is          *)
(* innerReady; st is the actor state after that poll.  TRUE means          *)
(* Poll::Ready(()).                                                        *)
(***************************************************************************)
ActorWaitItemPoll(innerReady, st) ==
  innerReady \/ ~Alive(st)

\* Mutant: the delayed item handles its message without polling the Sleep.
DelayedPollNoTimer(h) ==
  /\ Handle(items[h].msg, Restrict(items, DOMAIN items \ {h}))
  /\ ItemReturned(h)

(***************************************************************************)
(* ActorDelayedMessageItem::poll: ready!(timeout.poll), then handle the    *)
(* message once and return Ready.                                          *)
(***************************************************************************)
ActorDelayedMessageItemPoll(h) ==
  LET m == items[h].msg IN
  \/ /\ m \in timersFired
     /\ Handle(m, Restrict(items, DOMAIN items \ {h}))
     /\ ItemReturned(h)
  \/ /\ m \notin timersFired
     /\ toPoll' = toPoll \ {h}
     /\ UNCHANGED <<phase, woken, waitQ, items, state, handled, cancelled>>

\* Mutant: the message item handles its message but stays registered
\* (the message is cloned instead of taken out of the Option).
MessageItemPollNoTake(h) ==
  /\ Handle(items[h].msg, items)
  /\ ItemReturned(h)

(***************************************************************************)
(* ActorMessageItem::poll: handle the message and return Ready.            *)
(***************************************************************************)
ActorMessageItemPoll(h) ==
  /\ Handle(items[h].msg, Restrict(items, DOMAIN items \ {h}))
  /\ ItemReturned(h)

\* Mutant: the stream loop keeps draining after a handler called ctx.wait.
StreamPollIgnoresWaiting(h) ==
  \/ /\ streamPos < streamAvail
     /\ streamPos' = streamPos + 1
     /\ Handle(StreamMsgs[streamPos + 1], items)
     /\ UNCHANGED <<toPoll, phase>>
  \/ /\ streamPos = streamAvail
     /\ items' = IF streamClosed THEN Restrict(items, DOMAIN items \ {h}) ELSE items
     /\ toPoll' = toPoll \ {h}
     /\ UNCHANGED <<streamPos, phase, woken, waitQ, state, handled, cancelled>>

\* Mutant: the loop returns Ready instead of Pending once ctx.waiting().
StreamPollReadyOnWaiting(h) ==
  \/ /\ streamPos < streamAvail
     /\ streamPos' = streamPos + 1
     /\ LET m     == StreamMsgs[streamPos + 1]
            waits == Behavior[m] \in {"wait", "waitstop"}
        IN /\ Handle(m, IF waits THEN Restrict(items, DOMAIN items \ {h}) ELSE items)
           /\ IF waits THEN ItemReturned(h) ELSE UNCHANGED <<toPoll, phase>>
  \/ /\ streamPos = streamAvail /\ streamClosed
     /\ items' = Restrict(items, DOMAIN items \ {h})
     /\ toPoll' = toPoll \ {h}
     /\ UNCHANGED <<streamPos, phase, woken, waitQ, state, handled, cancelled>>
  \/ /\ streamPos = streamAvail /\ ~streamClosed
     /\ toPoll' = toPoll \ {h}
     /\ UNCHANGED <<streamPos, phase, woken, waitQ, items, state, handled, cancelled>>

(***************************************************************************)
(* ActorMessageStreamItem::poll: one iteration of its loop per step.       *)
(*   Ready(Some(msg)): handle; return Pending if ctx.waiting(), else loop. *)
(*   Ready(None):      return Ready (the item is dropped).                 *)
(*   Pending:          return Pending.                                     *)
(***************************************************************************)
ActorMessageStreamItemPoll(h) ==
  \/ /\ streamPos < streamAvail
     /\ streamPos' = streamPos + 1
     /\ Handle(StreamMsgs[streamPos + 1], items)
     /\ IF waitQ' # <<>>
          THEN ItemReturned(h)
          ELSE UNCHANGED <<toPoll, phase>>
  \/ /\ streamPos = streamAvail /\ streamClosed
     /\ items' = Restrict(items, DOMAIN items \ {h})
     /\ toPoll' = toPoll \ {h}
     /\ UNCHANGED <<streamPos, phase, woken, waitQ, state, handled, cancelled>>
  \/ /\ streamPos = streamAvail /\ ~streamClosed
     /\ toPoll' = toPoll \ {h}
     /\ UNCHANGED <<streamPos, phase, woken, waitQ, items, state, handled, cancelled>>


(***************************************************************************)
(* The context's poll cycle (spec.md 4.3), one step at a time.  The task  *)
(* is polled only after it was woken.                                      *)
(***************************************************************************)
\* Mutant: a poll pass begins with the wait FIFO, skipping the lifecycle.
PollStartSkipsLifecycle ==
  /\ phase = "Idle"
  /\ woken
  /\ woken' = FALSE
  /\ phase' = "Wait"
  /\ dispatched' = 0
  /\ UNCHANGED <<state, mailbox, sendPos, waitQ, items, toPoll, streamAvail,
                 streamPos, streamClosed, timersFired, hooks, handled, cancelled>>

PollStart ==
  /\ phase = "Idle"
  /\ woken
  /\ woken' = FALSE
  /\ phase' = "Lifecycle"
  /\ dispatched' = 0
  /\ UNCHANGED <<state, mailbox, sendPos, waitQ, items, toPoll, streamAvail,
                 streamPos, streamClosed, timersFired, hooks, handled, cancelled>>

\* (1) run the started hook, or the stopping hook of a requested stop.
LifecycleStep ==
  /\ phase = "Lifecycle"
  /\ phase' = "Wait"
  /\ \/ /\ state = "Started"
        /\ state' = "Running"
        /\ hooks' = [hooks EXCEPT !.started = @ + 1]
     \/ /\ state = "Stopping"
        /\ hooks' = [hooks EXCEPT !.stopping = @ + 1]
        /\ \/ hooks.stopping < MaxContinue /\ state' = "Running"  \* Running::Continue
           \/ state' = "Stopped"                                   \* Running::Stop
     \/ /\ state \in {"Running", "Stopped"}
        /\ UNCHANGED <<state, hooks>>
  /\ UNCHANGED <<woken, mailbox, sendPos, waitQ, items, toPoll, dispatched,
                 streamAvail, streamPos, streamClosed, timersFired, handled, cancelled>>

\* (2) serve the wait FIFO head-first (spec.md 4.4).  A Pending wait item
\* ends the poll.  Once the FIFO is empty the pass goes on to the spawned
\* items or, when the actor is Stopped, tears the context down: the
\* stopped hook runs and the spawned items and undelivered envelopes are
\* dropped without a poll.
PollWaitItems ==
  /\ phase = "Wait"
  /\ \/ /\ waitQ # <<>>
        /\ LET w    == Head(waitQ)
               st   == IF ~w.ready /\ w.fut = "stopper" THEN CtxStop(state) ELSE state
               done == ActorWaitItemPoll(w.ready, st)
           IN /\ state' = st
              /\ woken' = (woken \/ st # state)
              /\ waitQ' = IF done THEN Tail(waitQ) ELSE waitQ
              /\ phase' = IF done THEN "Wait" ELSE "Idle"
        /\ UNCHANGED <<hooks, items, mailbox, toPoll>>
     \/ /\ waitQ = <<>> /\ state = "Stopped"
        /\ phase' = "Done"
        /\ hooks' = [hooks EXCEPT !.stopped = @ + 1]
        /\ items' = Restrict(items, {})
        /\ mailbox' = <<>>
        /\ toPoll' = {}
        /\ UNCHANGED <<state, woken, waitQ>>
     \/ /\ waitQ = <<>> /\ state # "Stopped"
        /\ phase' = "Items"
        /\ toPoll' = DOMAIN items
        /\ UNCHANGED <<state, woken, waitQ, hooks, items, mailbox>>
  /\ UNCHANGED <<sendPos, dispatched, streamAvail, streamPos, streamClosed,
                 timersFired, handled, cancelled>>

\* (3) poll the spawned items in handle order; an item cancelled earlier
\* in the pass is no longer in the registry and is skipped.
PollItems ==
  /\ phase = "Items"
  /\ LET live == toPoll \cap DOMAIN items IN
     \/ /\ live # {}
        /\ LET h == Min(live) IN
           \/ /\ items[h].kind = "delayed"
              /\ ActorDelayedMessageItemPoll(h)
              /\ UNCHANGED streamPos
           \/ /\ items[h].kind = "msg"
              /\ ActorMessageItemPoll(h)
              /\ UNCHANGED streamPos
           \/ /\ items[h].kind = "stream"
              /\ ActorMessageStreamItemPoll(h)
     \/ /\ live = {}
        /\ phase' = "Mailbox"
        /\ toPoll' = {}
        /\ UNCHANGED <<state, woken, waitQ, items, streamPos, handled, cancelled>>
  /\ UNCHANGED <<mailbox, sendPos, dispatched, streamAvail, streamClosed,
                 timersFired, hooks>>

\* Mutant: the dispatch loop forgets the per-poll cap.
PollMailboxNoCap ==
  /\ phase = "Mailbox"
  /\ \/ /\ mailbox # <<>>
        /\ Handle(Head(mailbox), items)
        /\ mailbox' = Tail(mailbox)
        /\ dispatched' = dispatched + 1
        /\ phase' = IF waitQ' # <<>> THEN "Lifecycle" ELSE "Mailbox"
     \/ /\ mailbox = <<>>
        /\ woken' = woken
        /\ phase' = IF state \in {"Started", "Stopping"} THEN "Lifecycle" ELSE "Idle"
        /\ UNCHANGED <<state, mailbox, waitQ, items, dispatched, handled, cancelled>>
  /\ UNCHANGED <<sendPos, toPoll, streamAvail, streamPos, streamClosed,
                 timersFired, hooks>>

\* (4) dispatch one envelope, unless MailboxCap were dispatched this poll;
\* (5) end the pass: a context that stopped dispatching at the cap wakes
\* itself, and a pending lifecycle change starts a new round at once.
PollMailbox ==
  /\ phase = "Mailbox"
  /\ \/ /\ mailbox # <<>>
        /\ dispatched < MailboxCap
        /\ Handle(Head(mailbox), items)
        /\ mailbox' = Tail(mailbox)
        /\ dispatched' = dispatched + 1
        /\ phase' = IF waitQ' # <<>> THEN "Lifecycle" ELSE "Mailbox"
     \/ /\ mailbox = <<>> \/ dispatched = MailboxCap
        /\ woken' = (woken \/ mailbox # <<>>)
        /\ phase' = IF state \in {"Started", "Stopping"} THEN "Lifecycle" ELSE "Idle"
        /\ UNCHANGED <<state, mailbox, waitQ, items, dispatched, handled, cancelled>>
  /\ UNCHANGED <<sendPos, toPoll, streamAvail, streamPos, streamClosed,
                 timersFired, hooks>>

\* The context has been torn down.
Terminated ==
  /\ phase = "Done"
  /\ UNCHANGED vars

(***************************************************************************)
(* The environment: senders, the timers, the stream and the futures       *)
(* behind wait items.  Each event wakes the context task.                  *)
(***************************************************************************)
Send(s) ==
  /\ phase # "Done"
  /\ sendPos[s] < Len(SendOrder[s])
  /\ mailbox' = Append(mailbox, SendOrder[s][sendPos[s] + 1])
  /\ sendPos' = [sendPos EXCEPT ![s] = @ + 1]
  /\ woken' = TRUE
  /\ UNCHANGED <<state, phase, waitQ, items, toPoll, dispatched, streamAvail,
                 streamPos, streamClosed, timersFired, hooks, handled, cancelled>>

\* The Sleep of a live delayed item elapses.
TimerFire(m) ==
  /\ m \notin timersFired
  /\ \E h \in DOMAIN items : items[h] = NewDelayedItem(m)
  /\ timersFired' = timersFired \cup {m}
  /\ woken' = TRUE
  /\ UNCHANGED <<state, phase, mailbox, sendPos, waitQ, items, toPoll,
                 dispatched, streamAvail, streamPos, streamClosed, hooks,
                 handled, cancelled>>

\* The sleep behind a "timer" wait item completes.
WaitFutReady(i) ==
  /\ waitQ[i].fut = "timer"
  /\ ~waitQ[i].ready
  /\ waitQ' = [waitQ EXCEPT ![i].ready = TRUE]
  /\ woken' = TRUE
  /\ UNCHANGED <<state, phase, mailbox, sendPos, items, toPoll, dispatched,
                 streamAvail, streamPos, streamClosed, timersFired, hooks,
                 handled, cancelled>>

StreamProduce ==
  /\ ~streamClosed
  /\ streamAvail < Len(StreamMsgs)
  /\ streamAvail' = streamAvail + 1
  /\ woken' = TRUE
  /\ UNCHANGED <<state, phase, mailbox, sendPos, waitQ, items, toPoll,
                 dispatched, streamPos, streamClosed, timersFired, hooks,
                 handled, cancelled>>

StreamClose ==
  /\ ~streamClosed
  /\ streamClosed' = TRUE
  /\ woken' = TRUE
  /\ UNCHANGED <<state, phase, mailbox, sendPos, waitQ, items, toPoll,
                 dispatched, streamAvail, streamPos, timersFired, hooks,
                 handled, cancelled>>

\* A future may be polled without having been woken; the executor owes no
\* such poll, so this step carries no fairness.
SpuriousWake ==
  /\ phase = "Idle"
  /\ ~woken
  /\ woken' = TRUE
  /\ UNCHANGED <<state, phase, mailbox, sendPos, waitQ, items, toPoll,
                 dispatched, streamAvail, streamPos, streamClosed, timersFired,
                 hooks, handled, cancelled>>

(***************************************************************************)
(* Actor::create: the context starts in Started with the items of the     *)
(* create closure registered and the task woken for its first poll.        *)
(***************************************************************************)
Init ==
  /\ state = "Started"
  /\ phase = "Idle"
  /\ woken = TRUE
  /\ mailbox = <<>>
  /\ sendPos = [s \in Senders |-> 0]
  /\ waitQ = <<>>
  /\ items = [h \in 1..Len(InitItems) |-> InitItems[h]]
  /\ toPoll = {}
  /\ dispatched = 0
  /\ streamAvail = 0
  /\ streamPos = 0
  /\ streamClosed = FALSE
  /\ timersFired = {}
  /\ hooks = [started |-> 0, stopping |-> 0, stopped |-> 0]
  /\ handled = <<>>
  /\ cancelled = {}

Engine ==
  \/ PollStart \/ LifecycleStep \/ PollWaitItems \/ PollItems \/ PollMailbox

Environment ==
  \/ \E s \in Senders : Send(s)
  \/ \E m \in DelayedMsgs : TimerFire(m)
  \/ \E i \in DOMAIN waitQ : WaitFutReady(i)
  \/ StreamProduce
  \/ StreamClose
  \/ SpuriousWake

Next == Engine \/ Environment \/ Terminated

\* The executor polls a woken task, and timers fire; senders and the
\* stream's producer owe the actor nothing.
Fairness ==
  /\ WF_vars(Engine)
  /\ \A m \in DelayedMsgs : WF_vars(TimerFire(m))
  /\ WF_vars(\E i \in DOMAIN waitQ : WaitFutReady(i))

Spec == Init /\ [][Next]_vars /\ Fairness


(***************************************************************************)
(* Properties.                                                             *)
(***************************************************************************)
TypeOK ==
  /\ state \in States
  /\ phase \in Phases
  /\ woken \in BOOLEAN
  /\ mailbox \in Seq(MailMsgs)
  /\ sendPos \in [Senders -> Nat]
  /\ waitQ \in Seq(WaitRecs)
  /\ \E H \in SUBSET (1..Len(InitItems)) : items \in [H -> ItemRecs]
  /\ toPoll \subseteq 1..Len(InitItems)
  /\ dispatched \in 0..MailboxCap
  /\ streamPos \in 0..streamAvail /\ streamAvail \in 0..Len(StreamMsgs)
  /\ streamClosed \in BOOLEAN
  /\ timersFired \subseteq DelayedMsgs
  /\ hooks \in [{"started", "stopping", "stopped"} -> Nat]
  /\ handled \in Seq(Msgs)
  /\ cancelled \subseteq DelayedMsgs

Handled(m) == m \in Range(handled)

\* Wait exclusion (spec.md 3, invariant 2): no handler runs while a wait
\* item is in the FIFO.  It rests on ActorMessageStreamItem::poll returning
\* Pending as soon as ctx.waiting() after handling a stream item, and on
\* the context serving the wait FIFO before any other item or envelope.
NoHandlingWhileWaiting ==
  [][Len(handled') > Len(handled) => waitQ = <<>>]_vars

\* A message scheduled with notify_later is handled only after its Sleep
\* elapsed, and no message is ever handed to a handler twice: the
\* ActorDelayedMessageItem's ready!(timeout) guards the handler and the
\* item takes its message and is dropped once it returned Ready.
DelayedOnceAfterTimer ==
  /\ \A m \in DelayedMsgs : Handled(m) => m \in timersFired
  /\ \A i, j \in DOMAIN handled : i # j => handled[i] # handled[j]

\* A delayed message whose handle was cancelled while the item was still
\* registered is never handled, even when its timer had already fired and
\* the item was due later in the same poll pass.
CancelledNeverHandled ==
  \A m \in cancelled : ~Handled(m)

\* Lifecycle hooks (spec.md 8.4): started runs once and before any handler;
\* no handler runs once stopped has run, and stopped runs at most once.
LifecycleHooks ==
  /\ [](hooks.started <= 1 /\ hooks.stopped <= 1)
  /\ [][Len(handled') > Len(handled) => hooks.started = 1 /\ hooks.stopped = 0]_vars

\* Every envelope that reached the mailbox and every item the stream
\* produced is eventually handled, unless the actor stops first.  It needs
\* the context to wake itself when it stops dispatching at MailboxCap, and
\* the stream item to stay registered while a wait item is served.
Arrived(m) ==
  \/ \E s \in Senders : \E i \in 1..sendPos[s] : SendOrder[s][i] = m
  \/ \E i \in 1..streamAvail : StreamMsgs[i] = m

EventuallyHandled ==
  \A m \in MailMsgs \cup Range(StreamMsgs) :
    Arrived(m) ~> (Handled(m) \/ state = "Stopped")

\* A stopped actor is eventually torn down, even when a wait item's future
\* never completes: ActorWaitItem::poll turns Pending into Ready once the
\* actor is no longer alive.
StopLeadsToTermination ==
  state = "Stopped" ~> phase = "Done"

(***************************************************************************)
(* Refinement: the Context implements ActorSerial.  A message has arrived  *)
(* once its source made it available: a send, a stream item, the notify   *)
(* of the create closure, or the elapsed Sleep of a delayed item.          *)
(***************************************************************************)
Serial == INSTANCE ActorSerial
            WITH life     <- state,
                 arrived  <- NotifyMsgs \cup timersFired
                               \cup {m \in MailMsgs \cup Range(StreamMsgs) : Arrived(m)},
                 waiting  <- waitQ # <<>>,
                 dropped  <- cancelled,
                 torn     <- phase = "Done"

\* The poll cycle with its items implements the serial actor: each step
\* that runs a handler is one delivery the abstract actor allows (in source
\* order, once, outside waits, between the hooks, never after a cancel),
\* every other step is a source event, a lifecycle change or a stutter,
\* and the context keeps delivering, ends waits and tears a stopped actor
\* down.
RefinesSerial == Serial!Spec

=============================================================================
