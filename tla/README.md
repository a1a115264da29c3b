# TLA+ models of the actix actor execution engine

This directory holds TLA+ models of the actor runtime in this repository,
the TLC configurations that check them, and `PROJECT.json`, the index that
ties each definition to the source lines it models and lists the runs,
mutants, findings and hazards.

## 1. The system

The repository (see `spec.md`) is an actor runtime. Each actor owns its
state and a `Context`. The Context is the only way the actor schedules
work. Three source files are present:

| File | What it holds |
|---|---|
| `src/actix/src/contextitems.rs` | the four kinds of scheduled item the Context polls: `ActorWaitItem`, `ActorDelayedMessageItem`, `ActorMessageItem`, `ActorMessageStreamItem` |
| `src/src/io.rs` | writer helpers (`Writer`, `FramedWrite`, `SinkWrite`, `WriteHandler`). `FramedWrite::drop` and the `WriteHandler` defaults are live; the constructors, `write`, `close` and every poll are commented out, and spec.md 9 leaves the writer's return open. |
| `src/examples/chat/src/main.rs` | the chat example: the `Server` actor accepts TCP connections through a message stream and creates a `ChatSession` actor per connection |

The Context engine (`contextimpl`, the lifecycle state machine, the mailbox,
the spawn registry) is not under `src/`. It is modelled from `spec.md`
sections 4 and 5, and each such definition is marked `spec_modelled` in
`PROJECT.json`.

### Components, their state and operations

* **Lifecycle FSM** (spec 4.1). State: `Started | Running | Stopping | Stopped`.
  Operations:
  * The `started` hook runs on the first poll.
  * `ctx.stop()` moves any live state to Stopping.
  * The `stopping` hook returns Continue (back to Running) or Stop (to Stopped).
  * When the actor is Stopped, the `stopped` hook runs and the context is torn down.
  * `alive()` is true for Started, Running and Stopping.
* **Mailbox** (spec 4.2). State: a FIFO of envelopes. Each sender keeps its
  send order. The context dispatches at most a fixed number of envelopes per
  poll ("fairness cap"), and dispatches none while a wait item is active.
* **Spawn registry** (spec 4.3). State: a map from handle to item.
  Operations: `spawn`, and `cancel_future`, which drops the item and is
  idempotent.
* **Wait FIFO** (spec 4.4). State: a queue of `ActorWaitItem`s. While the
  queue is non-empty, no message is dispatched and no other item is polled.
* **Context items** (`contextitems.rs`):
  * `ActorWaitItem::poll` passes the inner future's `Pending` through only
    while the actor is alive. Otherwise it returns `Ready`.
  * `ActorDelayedMessageItem::poll` waits for its `Sleep`, then calls the
    handler once.
  * `ActorMessageItem::poll` calls the handler once.
  * `ActorMessageStreamItem::poll` loops over `poll_next`:
    * `Some`: calls the handler, and returns `Pending` at once if the
      handler made the context wait;
    * `None`: returns `Ready`;
    * `Pending`: returns `Pending`.
* **Chat accept loop** (`main.rs`). `WtfStream::poll_next` maps
  `poll_accept` results:
  * `Ok` becomes `Some(TcpConnect)`;
  * `WouldBlock` becomes `Pending`;
  * any other error becomes `None`, which ends the stream.

  The listener is `tokio::net::TcpListener`. Its `poll_accept` retries
  WouldBlock itself and answers `Pending`, so the `WouldBlock` arm is never
  taken.

  `Handler<TcpConnect>` creates a `ChatSession`, which registers a read
  stream and a `FramedWrite`. `main` waits for ctrl-c and then stops the
  System.
* **Framed writer** (`io.rs`, the design in its commented-out code).
  State: the shared `InnerWriter` (buffer, `CLOSING`/`CLOSED` flags, the
  stored error, the parked task's waker `task`), and the transport.
  Operations:
  * `FramedWrite::new` spawns a `WriterFut` into the actor's context;
  * `write` (called from handlers) encodes into the buffer, storing an
    encoder error, and wakes the task left in `task`;
  * `close` sets `CLOSING`;
  * `WriterFut::poll` reports a stored error, writes the buffer until it is
    empty, pushes a `WriterDrain` wait item on WouldBlock above the high
    watermark, flushes, and then either sets `CLOSED` and calls `finished`
    or stores its waker in `task` and parks;
  * `WriterDrain::poll` writes until the buffer is below the low watermark;
  * `WriteHandler::error` returns Stop by default, `finished` stops the actor;
  * `drop` is meant to write out what is left.

  `Writer` shares `InnerWriter` and `WriterFut` with `FramedWrite`: its
  `write` appends raw bytes and wakes the task, and its `close` sets
  `CLOSING`.
* **Sink writer** (`io.rs`, `SinkWrite`, also commented out). State: the
  `CLOSING`/`CLOSED` flags and `inner.task`. Operations:
  * `SinkWrite::new` spawns a `SinkWriteFuture`;
  * `close` sets `CLOSING` and calls `notify_task`;
  * `SinkWriteFuture::poll` drives `poll_complete` while open and `close`
    once `CLOSING` is set, reports errors to `WriteHandler::error`, and on
    a completed close sets `CLOSED` and calls `finished`;
  * `write` is `unimplemented!()`.

### How the components interact

All of an actor's work runs on one task. The context's poll steps are:

1. the lifecycle hooks;
2. the wait FIFO, head first;
3. the spawned items, in handle order;
4. the mailbox, up to the cap;
5. a re-check of the lifecycle.

Handlers run inside item polls and envelope dispatch. They change the
context through `ctx.wait`, `ctx.stop` and `ctx.cancel_future`. Other
threads send envelopes and wake the task. Timers, streams and the futures
behind wait items also wake the task.

### What is hard

* A handler can change the context in the middle of an item's poll:
  * a stream handler that calls `ctx.wait` mid-burst;
  * a cancel of an item that comes later in the same pass.
* Timers race cancellation.
* Stop requests can come from inside a wait future that never completes.
* The dispatch cap must not strand envelopes without a wake-up.
* Spurious polls.
* An accept error permanently ends the chat server's accept stream.
* The framed writer is driven from two sides of the same task: handlers
  fill the buffer and set flags, the `WriterFut` empties it. Each side
  must wake the other, and backpressure depends on a wait item holding the
  handlers back.
* A transport can fail for good (the peer closed). An error policy that
  returns Continue then meets the same error on every write.

### What makes each component correct

* Wait exclusion: no handler runs while a wait item is active.
* Delayed messages are never delivered early, and never twice.
* A cancelled item is never delivered.
* Hook order: `started` runs once, before every handler. No handler runs
  after `stopped`.
* Every message that arrived is eventually handled unless the actor
  stopped.
* A stopped actor is eventually torn down.
* The chat server accepts every connection.
* The framed writer bounds its buffer, writes everything it encoded,
  closes only after the buffer is written, completes a close, and loses
  nothing when dropped. Each `WriterFut::poll` returns to the context.
* The sink writer completes a close.

## 2. Modules

### `ActorContext.tla`: one actor and its Context

The actor is created the way the chat example creates its actors. The create
closure attaches a message stream (`add_message_stream`), calls `ctx.notify`
for the messages in `NotifyMsgs`, and calls `ctx.notify_later` for the
messages in `DelayedMsgs`.

Each message's handler does one thing, set by `Behavior`:

* `plain`: nothing;
* `wait`: `ctx.wait` on a sleep;
* `waitstop`: `ctx.wait` on a future that calls `ctx.stop()` and never
  completes;
* `stop`: `ctx.stop()`;
* `cancel`: `ctx.cancel_future` of the delayed item `CancelTarget`.

| Variable | Code |
|---|---|
| `state` | `ActorState` |
| `phase` | where the context's poll is (Idle, Lifecycle, Wait, Items, Mailbox, Done) |
| `woken` | the task's waker has been called |
| `mailbox`, `sendPos` | the mailbox channel and each sender's progress |
| `waitQ` | the wait FIFO. Each entry says what its boxed future is and whether it is ready. |
| `items`, `toPoll` | the spawn registry, and the handles not yet polled in this pass |
| `dispatched` | envelopes dispatched in this poll (the cap) |
| `streamAvail`, `streamPos`, `streamClosed` | the attached stream |
| `timersFired` | the `Sleep`s of delayed items that have elapsed |
| `hooks`, `handled`, `cancelled` | history kept for the properties |

Actions:

* `ActorWaitItemPoll`, `ActorDelayedMessageItemPoll`, `ActorMessageItemPoll`
  and `ActorMessageStreamItemPoll` model `contextitems.rs` line by line. Each
  return path is a disjunct. The stream loop takes one step per iteration.
* `PollStart`, `LifecycleStep`, `PollWaitItems`, `PollItems` and
  `PollMailbox` are the context's poll steps (spec_modelled).
* `Handle` is `Handler::handle` followed by `MessageResponse::handle(ctx,
  None)`.
* The environment actions are `Send`, `TimerFire`, `WaitFutReady`,
  `StreamProduce`, `StreamClose` and `SpuriousWake`.

### `ChatServer.tla`: the chat example's accept loop

| Variable | What it models |
|---|---|
| `backlog` | the listener's backlog of pending connections |
| `sessions` | the `ChatSession` actors created |
| `streamLive` | whether the Server's stream item is still registered |
| `registered` | whether the listener holds the task's waker |
| `errors` | the number of failed accepts |
| `stopped` | ctrl-c has stopped the System |

Actions:

* `ServerStreamStep` is one iteration of `ActorMessageStreamItem::poll`
  over `WtfStream::poll_next`. It takes `poll_accept`'s result from
  `AcceptResults`. The error kinds `ErrKinds` are those tokio's listener
  returns, so `Err(WouldBlock)` is not among them. `WtfStreamPollNext`
  keeps the code's `WouldBlock` arm all the same.
* `HandleTcpConnect` is the Server's handler.
* `CtrlC` is the end of `main`.

### `ActorSerial.tla`: what the Context promises

An abstract actor with no poll cycle, no items and no wake-ups. Messages
*arrive* from their source and are *delivered* one at a time:

* each at most once;
* after every earlier message of the same source (a sender's sends, the
  stream's items) was delivered;
* never while a wait is pending, never after the handle of a cancelled
  delayed item was dropped;
* only in Running or Stopping, and never after teardown.

A delivery has the handler's effect at once (start a wait, request a stop,
cancel `CancelTarget`). The abstract context is fair: it delivers what it
can, ends every wait, settles a stop and tears a stopped actor down.

`ActorContext` instantiates it as `Serial` with this refinement mapping:

| Abstract | ActorContext |
|---|---|
| `life` | `state` |
| `arrived` | the notified messages, the delayed messages whose Sleep elapsed, and the sent envelopes and produced stream items (`Arrived`) |
| `handled` | `handled` |
| `waiting` | `waitQ # <<>>` |
| `dropped` | `cancelled` |
| `torn` | `phase = "Done"` |

`RefinesSerial == Serial!Spec` is a property of the `actor_context` run.
`ActorSerial` states the spec's promises and models no code, so its
definitions have no `map` entry.

### `StreamYield.tla`: the stream loop against the mailbox

`ActorMessageStreamItem::poll` loops while `poll_next` returns
`Ready(Some)`. `ActorContext` has a finite stream, so the loop always ends
there. `StreamYield` keeps only what decides whether the loop ends:

* `streamReady`: `poll_next` would return `Ready(Some)` now. The producer
  (`Produce`, unfair) makes an item ready at any time.
* counts of envelopes sent and dispatched.

`StreamItemPoll` is one iteration of the loop (`contextitems.rs:168-198`)
for a handler that does not wait. `ContextStep` is the rest of the pass
(spec.md 4.3).

### `FramedWriter.tla`: the framed writer inside its actor

One actor owns a `FramedWrite`. Its handlers run the operations of the
constant `Script`, one per message: `write`, `encode_error` (a `write`
whose encoder fails), `close` and `stop`. Data is abstracted to lengths:

* `buffer`: the bytes in `InnerWriter.buffer`;
* `Chunk`: the bytes one `write` encodes;
* `Low` and `High`: the watermarks.

The transport answers each write with part of the buffer, with 0 bytes,
with WouldBlock (keeping the task's waker, `ioWaker`) or with an error.
Faults are bounded by `MaxFaults`. `ErrorPolicy` is what
`WriteHandler::error` returns.

| Definition | Code |
|---|---|
| `Init` | `FramedWrite::new` (`io.rs:307-335`) |
| `FramedWriteWrite`, `FramedWriteClose` | `write` (`io.rs:383-394`), `close` (`io.rs:366-371`) |
| `WriterFutError`, `WriterFutWrite`, `WriterBlocked`, `WriterFutFlush`, `WriterFutClose` | the stages of `WriterFut::poll` (`io.rs:170-240`); `wpc` says which stage the next step runs |
| `WriterDrainPoll` | `WriterDrain::poll` (`io.rs:252-299`) in its `ActorWaitItem` |
| `ActError`, `ActFinished` | the `WriteHandler` defaults (`io.rs:30-43`) |
| `DropFramedWrite` | `FramedWrite::drop` (`io.rs:402-415`) |
| `PollStart`, `LifecycleStep`, `PassWait`, `PollMailbox` | the context's poll cycle, reduced to this actor (spec.md 4.3) |

The context polls the `WriterDrain` (if any), then the `WriterFut`, then
up to `MailboxCap` messages, spec.md 4.3's "fairness cap" (`passCount`
counts them). The task is woken in these cases:

* by a message that is sent;
* by the waker a `write` takes from `task`;
* by the transport (`IoReady`);
* when messages are left after a pass.

`Script` also has `raw_write` and `raw_close`, which are `Writer::write` and
`Writer::close` (`WriterWrite`, `WriterClose`). An actor with a `Writer`
sends only those, and `stop`.

The environment action `PeerClose` makes the transport fail for good
(`peerGone`). From then on, every write and flush answers with an error.
These errors are not bounded by `MaxFaults`, since the failure is one
event. `PeerClose` has no fairness: a peer owes nothing. `PeerMayClose`
turns it off in the runs about transient faults.

`pollErrors` is a history variable. It counts the errors reported to
`WriteHandler::error` within the current `WriterFut::poll`, up to 2. It
changes nothing else, and it makes a write loop that fails again and again
visible in a trace.

The flush arm `Poll::Ready(Ok(_)) => Poll::Ready(())` does not type-check
as written. The model reads it as going on to the `CLOSING` check, which
the comment after the match describes.

### `SinkWriter.tla`: the sink writer inside its actor

One actor owns a `SinkWrite`. Its handlers run the operations of `Script`:
`close` and `stop`. `write` panics (`unimplemented!()`), so no handler
calls it. The sink completes, stays Pending (keeping the task's waker,
`sinkWaker`) or fails, and failures are bounded by `MaxFaults`.

| Definition | Code |
|---|---|
| `Init` | `SinkWrite::new` (`io.rs:422-443`) |
| `SinkWriteClose` | `close` with `notify_task` (`io.rs:460-477`) |
| `SinkWriteFuturePoll`, `SinkReport` | `SinkWriteFuture::poll` (`io.rs:497-546`), its error arm (`io.rs:516-521`) |
| `ActFinished` | the `WriteHandler::finished` default (`io.rs:38-43`) |
| `PollStart`, `LifecycleStep`, `PollMailbox` | the context's poll cycle, reduced to this actor (spec.md 4.3) |

`SinkWriteFuture::poll` clears `inner.task` and never stores its own waker
("TODO: TASK"). The context is woken only by a sink that returned Pending,
by a message, or by an unfair spurious wake-up.

## 3. Runs

| Run | Config | Expect | What it shows |
|---|---|---|---|
| actor_context | `MC_ActorContext.cfg` | pass | every ActorContext property, on an actor with 2 senders, a 2-item stream, a notify and a notify_later (table below) |
| chat_accept | `MC_ChatServer.cfg` | pass | with no accept errors, every connecting client gets a session |
| chat_accept_error_stops_accepting | `MC_ChatServer_AcceptError.cfg` | violation | one accept error other than WouldBlock stops all accepting for good |
| stream_starvation | `MC_StreamYield_Starvation.cfg` | violation | a stream that is always ready keeps the stream loop running, and an envelope is never dispatched |
| writer_backpressure | `MC_FramedWriter.cfg` | pass | four writes against a blocking transport, two messages per pass, an encoder error, a close, and a peer that may close: the buffer stays within `High + MailboxCap * Chunk`, every encoded byte is written unless the writer ended, and every `WriterFut` poll returns |
| writer_continue | `MC_FramedWriter_Continue.cfg` | pass | an actor with a `Writer`, `error` returning Continue, transient faults only, and raw writes on both sides of a close: `CLOSED` is set only when every byte was written, and bytes written around faults still reach the transport while the writer runs |
| writer_close_lost_wakeup | `MC_FramedWriter_CloseLast.cfg` | violation | a close as the last message never completes |
| writer_drop_loses_bytes | `MC_FramedWriter_Drop.cfg` | violation | a stop while the transport blocks drops encoded bytes unwritten |
| writer_peer_gone_spin | `MC_FramedWriter_PeerGone.cfg` | violation | when `error` returns Continue and the peer has closed, `WriterFut::poll` never returns: the trace shows the write loop reporting the error twice with the buffer unchanged |
| sink_close_lost_wakeup | `MC_SinkWriter_CloseLast.cfg` | violation | a `SinkWrite::close` as the last message never completes |

The `actor_context` scenario gives these messages these handlers:

* `s1`, first of the stream, waits on a sleep;
* `s2` cancels the delayed `d1`;
* `a2` stops the actor;
* `b1` waits on a future that stops the actor and never completes.

It is enough because every item kind and every return path of every item
occurs in it:

* a wait begins in the middle of a stream;
* a cancel lands both before and after `d1`'s timer fires;
* a stop comes both from the mailbox and from inside a wait future;
* the stopping hook returns both Continue and Stop;
* with `MailboxCap = 1` and three envelopes, the cap is hit.

What each ActorContext property says:

| Property | Statement | The code it rests on |
|---|---|---|
| `NoHandlingWhileWaiting` | no handler runs while the wait FIFO is non-empty | `contextitems.rs:190-191` |
| `DelayedOnceAfterTimer` | a delayed message is handled only after its Sleep, and no message is handled twice | `contextitems.rs:92-95` |
| `CancelledNeverHandled` | an item cancelled while live is never delivered | |
| `LifecycleHooks` | started runs once, before every handler; nothing is handled after stopped | |
| `EventuallyHandled` | every envelope and stream item that arrived is handled unless the actor stopped | |
| `StopLeadsToTermination` | a Stopped actor is torn down even if a wait future never completes | `contextitems.rs:38-42` |
| `TypeOK` | includes the dispatch cap | |
| `RefinesSerial` | the context implements `ActorSerial`, liveness included | all four items and the poll cycle |

What each FramedWriter property says:

| Property | Statement | The code it rests on |
|---|---|---|
| `BackpressureBound` | while the `WriterFut` runs, the buffer holds at most `High + MailboxCap * Chunk` | `io.rs:200-205` with the wait FIFO and the dispatch cap |
| `CloseAfterFlush` | `CLOSED` is set only when every encoded byte was written (action property) | `io.rs:180-236` |
| `WrittenEventuallyFlushed` | every byte put into the buffer is written, unless the `WriterFut` ended (an error answered with Stop, a completed close, or teardown) | `io.rs:238`, `io.rs:391-393`, `io.rs:184-212` |
| `CloseCompletes` | a close eventually leads to `CLOSED` (violated) | `io.rs:370` |
| `NoBytesLostOnDrop` | a torn-down actor leaves no encoded byte unwritten (violated) | `io.rs:300-301`, `io.rs:402-414` |
| `WriterPollReturns` | every poll of the `WriterFut` returns to the context (passes with Stop, violated with Continue and a closed peer) | `io.rs:180-205`, `io.rs:30-36` |
| `SinkCloseCompletes` | a `SinkWrite::close` leads to `CLOSED`, an error, or a stopped actor (violated) | `io.rs:465`, `io.rs:542` |

The writer bounds are enough for these reasons:

* `Chunk = 2`, `Low = 2` and `High = 3` put the second write above the
  high watermark, so the drain runs. A drain can end with one byte left,
  below the low watermark.
* With `MailboxCap = 2`, two writes land in one pass on a buffer at the
  high watermark, so the bound `High + 2 * Chunk` is reached. The narrower
  `High + Chunk` is violated there. Four writes exceed the bound if the
  escalation is missing.
* One or two faults cover each error path with both error policies.
* `PeerClose` can happen at any point, so the persistent failure meets the
  write loop, the flush and the drain.
* For `SinkWriter`, one `close` is enough to show the lost wake-up. No
  fault is needed.

For the chat runs, 3 connections are enough: one can be accepted before the
failing accept and two after it.

For every property of every passing run, `PROJECT.json` lists a mutant. A
mutant is a plausible bug in the mapped code, and TLC finds the property
violated under the mutant. The mutants are:

* a dropped `ctx.waiting()` check;
* a dropped `ready!(timeout)`;
* a cancel that leaves the item registered;
* a poll that skips the lifecycle step;
* a stream loop that returns `Ready` instead of `Pending` once the context waits;
* a wait item without the `alive()` check;
* a dispatch loop without the cap;
* a stream that ends on `Pending`;
* a message item that handles its message but stays registered (for
  `RefinesSerial`);
* a `split_to` that removes one byte too many;
* a WouldBlock that never escalates to a `WriterDrain`;
* a `write` that does not wake the parked task;
* a write loop that stops at the low watermark;
* an error answered with Continue that returns Pending instead of going on
  (for `WrittenEventuallyFlushed` in `writer_continue`);
* an error report that ignores a Stop from `WriteHandler::error` (for
  `WriterPollReturns`).

## 4. Fairness

* The executor polls a woken task, so the context's engine steps are weakly
  fair (`WF_vars(Engine)`).
* Timers fire, so `TimerFire` and the sleeps behind wait items are weakly
  fair.
* The transport wakes the task whose waker it holds (`WF_vars(IoReady)`).
  The peer keeps reading, so a transport polled again and again does not
  answer WouldBlock forever. This is strong fairness on the steps in which
  the transport accepts data (`SF_vars(TransportProgress)`). Without it,
  no write is ever guaranteed to succeed. For the same reason, a sink that
  is asked to close again and again completes its close
  (`SF_vars(SinkProgress)`), and the sink wakes the task whose waker it
  holds (`WF_vars(SinkReady)`).
* A peer that closes (`PeerClose`) owes nothing.
* In a spin inside one poll, once `pollErrors` is at its bound, no
  variable changes. TLC reports the rest as a behaviour that stutters in
  phase `Writer`. Weak fairness on the engine does not exclude it, because
  the step that would leave the phase is never enabled.
* `ActorContext` marks the task woken when a handler or a wait future
  calls `ctx.stop()`. spec.md 4.3 has each poll end with a re-check of the
  lifecycle (step 5), so a stop requested during a poll is seen without an
  outside wake-up. The model ends that poll and wakes the task, so the
  stopping hook runs in the next pass. The liveness of the scenario whose
  wait future stops the actor (`EventuallyHandled`,
  `StopLeadsToTermination`, `RefinesSerial`) rests on this.
* Senders, the stream's producer, clients, the ctrl-c operator and spurious
  wake-ups owe nothing, so they carry no fairness.
* A task is polled only after it was woken, or on an unfair spurious poll.
  As a result, a missing wake-up shows up as a liveness violation.

## 5. Findings

* **chat_accept_error_stops_accepting.** `WtfStream::poll_next` maps every
  accept error other than WouldBlock to `Ready(None)` (`main.rs:79`). The
  stream item then returns `Ready` and is dropped, so the Server never
  accepts again while `main` keeps running. The comment above
  `Server::create` says the connections are handled as a stream with
  `io::Error` items.
* **stream_starvation.** The loop in `ActorMessageStreamItem::poll`
  (`contextitems.rs:185`) has no iteration bound. While `poll_next` keeps
  returning `Ready(Some)` and the handler does not wait, the context stays
  inside this one poll. The mailbox, the other items and the lifecycle
  are not served. TLC's counterexample alternates one loop iteration and
  one `Produce` forever, with the context's engine weakly fair. spec.md
  4.6 calls the loop bounded and the stream's "fairness/yield policy".
* **writer_close_lost_wakeup.** `FramedWrite::close` (`io.rs:370`) only
  sets `CLOSING`. When the `WriterFut` has nothing to write, it parks at
  its `CLOSING` check with its waker in `inner.task`. `write` wakes that
  task, but `close` does not. A close sent as the last message therefore
  waits for an unrelated wake-up, and `finished` never runs. The
  counterexample is one `close` message: the pass parks the `WriterFut`,
  then dispatches the close, and nothing wakes the task again.
  `SinkWrite::close` in the same file does call `notify_task`. The code is
  commented out here, so this is a defect of the design that spec.md 9
  may bring back.
* **writer_drop_loses_bytes.** The `FramedWrite` doc comment
  (`io.rs:300-301`) says the transport is flushed when the struct is
  dropped. In `Drop`, the write and the flush are commented out ("Removed
  because of unpin", `io.rs:409-411`). In the counterexample:
  * the actor writes;
  * the transport blocks;
  * the actor is stopped and torn down with the encoded bytes still in
    the buffer, and they are discarded.
* **writer_peer_gone_spin.** When `write` on the transport fails,
  `WriterFut::poll` (`io.rs:184`) reports the error. If
  `WriteHandler::error` returns Continue, the poll goes back to the top of
  the write loop. With a peer that has closed, every write fails the same
  way, so the loop never returns. The actor's task is stuck inside one
  poll, and its mailbox and lifecycle are never served. The `error` doc
  says that with Continue "writer processing continues". In the
  counterexample:
  * one write is sent, and the peer closes;
  * the first poll's flush fails (the error is reported, and Continue
    goes on to the `CLOSING` check), and the `WriterFut` parks with its
    waker in `inner.task`;
  * the write is dispatched and wakes it;
  * the next poll enters the write loop with 2 bytes buffered;
  * two loop iterations each report an error (`pollErrors` 1, then 2), with
    the buffer unchanged;
  * from there on the behaviour stutters in phase `Writer`: every further
    iteration is the same failed write.

  A write error that is not persistent (bounded by `MaxFaults`) does not
  spin. `writer_continue` turns `PeerClose` off to check that case.
* **sink_close_lost_wakeup.** `SinkWrite::close` (`io.rs:465`) wakes the
  task stored in `inner.task`. `SinkWriteFuture::poll` takes that task
  and never stores one ("TODO: TASK", `io.rs:542`). A sink whose
  `poll_complete` returned Ready holds no waker either. A close sent as
  the last message therefore wakes nobody, the sink is never closed, and
  `finished` never runs. The counterexample is one `close` message.
  This too is commented-out design code.
* **Example does not build against this `io.rs`.** `main.rs:48` calls
  `actix::io::FramedWrite::new`, but `FramedWrite::new` is commented out in
  `io.rs`. This is not a model-checking result.

## 6. Not modelled, and why

* **Parts of `io.rs`.** `FramedWriter` models the `FramedWrite` design.
  The rest is left out for these reasons:
  * `Writer::new` is `FramedWrite::new` without the encoder. `Init`
    stands for both.
  * `set_buffer_capacity` only changes the watermarks, which are
    constants of the model.
  * `SinkWrite::write` is `unimplemented!()`, and a handler that calls it
    panics. `SinkWriter` models the rest of `SinkWrite`.

  The model takes the commented-out code at its intent. `WriterDrain`
  is written against the old `Result<Poll>` signature, and its `Err(())`
  ends the wait item like `Ready`. The flush match is read as described
  in the `FramedWriter` section.
* **The chat session, server and codec modules.** Their files are not in
  the repository.
* **Message replies (`MessageResponse` futures, reply sinks), bounded
  senders (`try_send` Full), user `spawn`/`run_later`.** These are planned,
  see below.

## 7. Plan

The order puts the most important behaviour first.

1. *(done)* `ActorContext`: the four context items inside the spec's poll
   cycle, with the lifecycle, wait FIFO, cancel and dispatch cap. Safety
   and liveness are checked.
2. *(done)* `ChatServer`: the example's accept loop, composed of
   `WtfStream` and the stream item.
3. Replies. Add envelopes with reply sinks, and handlers that return a
   response future spawned into the registry. Properties:
   * reply completeness: each request gets exactly one reply, or observes
     Cancelled or Closed;
   * a cancelled response future drops its sink;
   * teardown closes pending requests.
4. Bounded mailbox: `try_send` returning Full at capacity and succeeding
   after a drain (spec 8, backpressure scenario).
5. *(done)* The abstract `ActorSerial` specification, and `RefinesSerial`,
   which checks that `ActorContext` implements it.
6. *(done)* Stream starvation (`StreamYield`). It found that the loop has
   no bound.
7. Make `ChatServer` an instance of `ActorContext`. This does not fit as it
   stands. `ActorContext`'s stream ends only after every produced item was
   delivered. A failed accept ends `WtfStream` while the backlog still
   holds clients, and that is the case `ChatServer` exists to check.
8. *(done)* The framed writer (`FramedWriter`): backpressure, write-out,
   close and drop. It found the missing wake-up in `close` and the bytes
   lost on drop.
9. *(done)* The persistent transport failure, with `WriterPollReturns`,
   and the `Writer` operations in `FramedWriter`.
10. *(done)* `SinkWriter`: the sink writer's close protocol. It found that
    the close wake-up is lost.
