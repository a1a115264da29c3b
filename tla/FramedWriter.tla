----------------------------- MODULE FramedWriter -----------------------------
(***************************************************************************)
(* actix/src/io.rs: an actor that owns a FramedWrite over a transport.     *)
(* FramedWrite::new spawns a WriterFut into the actor's context; the       *)
(* actor's handlers call write (encode into the shared buffer) and close   *)
(* (set CLOSING); WriterFut::poll writes the buffer to the transport,     *)
(* escalates a buffer above the high watermark into ctx.wait(WriterDrain), *)
(* flushes, and on CLOSING marks the sink CLOSED and calls finished.       *)
(* Errors go to WriteHandler::error; Running::Stop ends the writer.       *)
(*                                                                         *)
(* In this repository FramedWrite::new, write, close, WriterFut::poll and  *)
(* WriterDrain::poll are commented out (spec.md 9 leaves open whether this *)
(* design is to come back); FramedWrite::drop and the WriteHandler        *)
(* defaults are live.  The model is the design as written there.          *)
(*                                                                         *)
(* Data is abstracted to lengths: the buffer holds `buffer` units, a write *)
(* encodes Chunk units, the watermarks are Low and High.  The transport    *)
(* writes part of the buffer, 0 bytes, blocks (registering the task's      *)
(* waker) or fails; faults are bounded by MaxFaults.  The actor's          *)
(* handlers run the operations of Script, one per message.  The context   *)
(* around the writer is the poll cycle of spec.md 4.3, reduced to what     *)
(* this actor has: the WriterDrain wait item, the WriterFut and the        *)
(* mailbox.                                                                *)
(***************************************************************************)
EXTENDS Naturals, Sequences

CONSTANTS
  Script,       \* the operations of the messages the actor receives, in order
  Chunk,        \* units one FramedWrite::write encodes
  Low, High,    \* LOW_WATERMARK and HIGH_WATERMARK
  ErrorPolicy,  \* what WriteHandler::error returns: "Stop" (default) or "Continue"
  MaxFaults,    \* bound on transient transport faults (0-byte writes, write and flush errors)
  MailboxCap,   \* messages the context dispatches per poll pass (spec.md 4.3 "fairness cap")
  PeerMayClose  \* whether the peer may close the connection for good

\* FramedWrite's write, a write whose encoder fails, and close; Writer's
\* write and close; ctx.stop().
Ops == {"write", "encode_error", "close", "raw_write", "raw_close", "stop"}

ASSUME /\ Script \in Seq(Ops)
       /\ Chunk \in Nat \ {0} /\ Low \in Nat \ {0} /\ High \in Nat /\ Low <= High
       /\ ErrorPolicy \in {"Stop", "Continue"}
       /\ MaxFaults \in Nat
       /\ MailboxCap \in Nat \ {0}
       /\ PeerMayClose \in BOOLEAN

VARIABLES
  state,       \* actor lifecycle: "Running", "Stopping", "Stopped"
  phase,       \* where the context's poll is
  woken,       \* the context task has been woken
  sent,        \* messages sent to the actor
  dispatched,  \* messages handled
  passCount,   \* messages handled in the current poll pass
  buffer,      \* InnerWriter.buffer length
  closing,     \* Flags::CLOSING
  closed,      \* Flags::CLOSED
  error,       \* InnerWriter.error is Some
  task,        \* InnerWriter.task is Some (the parked WriterFut's waker)
  ioWaker,     \* the transport holds the task's waker (a write or flush was Pending)
  draining,    \* a WriterDrain is in the wait FIFO
  writerLive,  \* the WriterFut is registered in the context
  wpc,         \* where WriterFut::poll is: "err", "loop", "flush", "close"
  faults,      \* transport faults so far
  accepted,    \* history: units encoded by write
  transported, \* history: units the transport accepted
  errored,     \* history: WriteHandler::error was called
  lost,        \* history: units left in the buffer when FramedWrite was dropped
  peerGone,    \* the transport has failed for good (the peer closed)
  pollErrors   \* history: errors reported to WriteHandler::error in the
               \* current WriterFut::poll, counted up to PollErrorsShown

vars == <<state, phase, woken, sent, dispatched, passCount, buffer, closing, closed, error,
          task, ioWaker, draining, writerLive, wpc, faults, accepted,
          transported, errored, lost, peerGone, pollErrors>>

\* The state of the writer (InnerWriter, the transport, the WriterFut item).
writerVars == <<buffer, closing, closed, error, task, ioWaker, draining,
                writerLive, wpc, faults, accepted, transported, errored, lost,
                peerGone, pollErrors>>

\* Enough reports in one poll to tell a repeated failure from a single one.
PollErrorsShown == 2

\* The report is counted in the history of the current poll.
CountReport ==
  pollErrors' = IF pollErrors < PollErrorsShown THEN pollErrors + 1 ELSE pollErrors

CtxStop(st) == IF st = "Stopped" THEN st ELSE "Stopping"

(***************************************************************************)
(* WriteHandler defaults: error returns Running::Stop (ErrorPolicy stands   *)
(* for an override), finished calls ctx.stop().                            *)
(***************************************************************************)
ActError == ErrorPolicy

ActFinished(st) == CtxStop(st)

\* WriterFut returns Ready after act.finished(ctx): the item is dropped and
\* the pass goes on to the mailbox.
WriterFinish ==
  /\ state' = ActFinished(state)
  /\ writerLive' = FALSE
  /\ phase' = "Mailbox"

\* Mutant: the result of act.error is ignored and the writer goes on.
WriterReportIgnoresStop(next) ==
  /\ errored' = TRUE /\ CountReport
  /\ wpc' = next /\ UNCHANGED <<state, writerLive, phase>>

\* Mutant: Continue returns Pending from the poll instead of going on.
WriterReportPendsOnContinue(next) ==
  /\ errored' = TRUE /\ CountReport
  /\ IF ActError = "Stop"
       THEN WriterFinish /\ UNCHANGED wpc
       ELSE phase' = "Mailbox" /\ UNCHANGED <<state, writerLive, wpc>>

\* act.error(e, ctx) inside WriterFut: Stop finishes the writer, Continue
\* goes on at `next`.
WriterReport(next) ==
  /\ errored' = TRUE /\ CountReport
  /\ IF ActError = "Stop"
       THEN WriterFinish /\ UNCHANGED wpc
       ELSE wpc' = next /\ UNCHANGED <<state, writerLive, phase>>

\* The item returns Pending; the pass goes on to the mailbox.
WriterPending == phase' = "Mailbox" /\ UNCHANGED <<state, writerLive, wpc>>

\* A write or flush fails: a transient fault (bounded by MaxFaults), or any
\* attempt once the peer is gone.
Fault ==
  \/ peerGone /\ UNCHANGED faults
  \/ ~peerGone /\ faults < MaxFaults /\ faults' = faults + 1

(***************************************************************************)
(* FramedWrite::write: encode the item into the buffer (an encoder error  *)
(* is stored in inner.error) and wake the parked WriterFut.  Called from a *)
(* handler.                                                                *)
(***************************************************************************)
\* Mutant: write forgets to take and wake the parked task.
FramedWriteWriteNoWake(encodes) ==
  /\ IF encodes
       THEN buffer' = buffer + Chunk /\ accepted' = accepted + Chunk /\ UNCHANGED error
       ELSE error' = TRUE /\ UNCHANGED <<buffer, accepted>>
  /\ UNCHANGED task

FramedWriteWrite(encodes) ==
  /\ IF encodes
       THEN buffer' = buffer + Chunk /\ accepted' = accepted + Chunk /\ UNCHANGED error
       ELSE error' = TRUE /\ UNCHANGED <<buffer, accepted>>
  /\ task' = FALSE     \* inner.task.take(): PollMailbox wakes what was taken

\* Writer::write: append the bytes and wake the parked task.
WriterWrite ==
  /\ buffer' = buffer + Chunk /\ accepted' = accepted + Chunk
  /\ task' = FALSE     \* inner.task.take(): PollMailbox wakes what was taken
  /\ UNCHANGED error

\* Writer::close: set CLOSING.
WriterClose == closing' = TRUE

\* FramedWrite::close: set CLOSING.
FramedWriteClose == closing' = TRUE

(***************************************************************************)
(* WriterFut::poll, one action per stage: the stored error, one iteration *)
(* of the write loop, the flush, and the CLOSING check.  Each stage ends   *)
(* the poll (WriterFinish, WriterPending) or moves `wpc` on.               *)
(***************************************************************************)
\* Take inner.error and report it; then clear inner.task.
WriterFutError ==
  /\ wpc = "err"
  /\ \/ /\ error
        /\ error' = FALSE
        /\ WriterReport("loop")
        /\ task' = IF ActError = "Stop" THEN task ELSE FALSE
     \/ /\ ~error
        /\ task' = FALSE /\ wpc' = "loop"
        /\ UNCHANGED <<state, phase, writerLive, error, errored, pollErrors>>
  /\ UNCHANGED <<buffer, transported, ioWaker, draining, faults, closed>>

\* Park on WouldBlock; a buffer above the high watermark is drained by a
\* WriterDrain pushed onto the wait FIFO, which the pass serves next.
\* Mutant: WouldBlock never escalates to a WriterDrain.
WriterBlockedNoDrain ==
  /\ ioWaker' = TRUE /\ draining' = FALSE /\ phase' = "Mailbox"

WriterBlocked ==
  /\ ioWaker' = TRUE
  /\ draining' = (buffer > High)
  /\ phase' = IF buffer > High THEN "Wait" ELSE "Mailbox"

\* Mutant: the loop stops at the low watermark instead of an empty buffer.
WriterFutWriteExitAtLow ==
  /\ wpc = "loop"
  /\ \/ /\ buffer < Low
        /\ wpc' = "flush"
        /\ UNCHANGED <<state, phase, writerLive, buffer, transported, ioWaker,
                       draining, faults, errored, pollErrors>>
     \/ /\ buffer >= Low
        /\ \/ \E n \in 1..buffer :
                /\ ~peerGone
                /\ buffer' = buffer - n /\ transported' = transported + n
                /\ UNCHANGED <<state, phase, writerLive, wpc, faults, ioWaker,
                               draining, errored, pollErrors>>
           \/ /\ Fault
              /\ WriterReport("loop")
              /\ UNCHANGED <<buffer, transported, ioWaker, draining>>
           \/ /\ ~peerGone /\ WriterBlocked
              /\ UNCHANGED <<state, writerLive, wpc, buffer, transported,
                             faults, errored, pollErrors>>
  /\ UNCHANGED <<error, task, closed>>

\* Mutant: split_to removes one byte more than was written.
WriterFutWriteOverrun ==
  /\ wpc = "loop"
  /\ \/ /\ buffer = 0
        /\ wpc' = "flush"
        /\ UNCHANGED <<state, phase, writerLive, buffer, transported, ioWaker,
                       draining, faults, errored, pollErrors>>
     \/ /\ buffer > 0
        /\ \/ \E n \in 1..buffer :
                /\ ~peerGone
                /\ buffer' = buffer - n - 1 /\ transported' = transported + n
                /\ UNCHANGED <<state, phase, writerLive, wpc, faults, ioWaker,
                               draining, errored, pollErrors>>
           \/ /\ Fault
              /\ WriterReport("loop")
              /\ UNCHANGED <<buffer, transported, ioWaker, draining>>
           \/ /\ ~peerGone /\ WriterBlocked
              /\ UNCHANGED <<state, writerLive, wpc, buffer, transported,
                             faults, errored, pollErrors>>
  /\ UNCHANGED <<error, task, closed>>

\* One iteration of `while !inner.buffer.is_empty()`.
WriterFutWrite ==
  /\ wpc = "loop"
  /\ \/ /\ buffer = 0
        /\ wpc' = "flush"
        /\ UNCHANGED <<state, phase, writerLive, buffer, transported, ioWaker,
                       draining, faults, errored, pollErrors>>
     \/ /\ buffer > 0
        /\ \/ \E n \in 1..buffer :                   \* Ok(n)
                /\ ~peerGone
                /\ buffer' = buffer - n /\ transported' = transported + n
                /\ UNCHANGED <<state, phase, writerLive, wpc, faults, ioWaker,
                               draining, errored, pollErrors>>
           \/ /\ Fault                               \* Ok(0): WriteZero, or Err(e)
              /\ WriterReport("loop")
              /\ UNCHANGED <<buffer, transported, ioWaker, draining>>
           \/ /\ ~peerGone /\ WriterBlocked          \* Err(WouldBlock)
              /\ UNCHANGED <<state, writerLive, wpc, buffer, transported,
                             faults, errored, pollErrors>>
  /\ UNCHANGED <<error, task, closed>>

\* poll_flush; Ready(Ok) goes on to the CLOSING check.
WriterFutFlush ==
  /\ wpc = "flush"
  /\ \/ /\ ~peerGone /\ wpc' = "close"               \* Ready(Ok)
        /\ UNCHANGED <<state, phase, writerLive, faults, ioWaker, errored, pollErrors>>
     \/ /\ ~peerGone /\ ioWaker' = TRUE            \* Pending, Err(WouldBlock)
        /\ WriterPending
        /\ UNCHANGED <<faults, errored, pollErrors>>
     \/ /\ Fault /\ WriterReport("close")            \* Ready(Err(e))
        /\ UNCHANGED ioWaker
  /\ UNCHANGED <<buffer, transported, draining, error, task, closed>>

\* CLOSING: mark CLOSED and finish; otherwise store the waker and park.
WriterFutClose ==
  /\ wpc = "close"
  /\ \/ /\ closing
        /\ closed' = TRUE /\ WriterFinish
        /\ UNCHANGED <<task, wpc>>
     \/ /\ ~closing
        /\ task' = TRUE /\ WriterPending
        /\ UNCHANGED closed
  /\ UNCHANGED <<buffer, transported, ioWaker, draining, faults, error, errored, pollErrors>>

WriterFutPoll ==
  /\ phase = "Writer"
  /\ WriterFutError \/ WriterFutWrite \/ WriterFutFlush \/ WriterFutClose
  /\ UNCHANGED <<woken, sent, dispatched, passCount, closing, accepted, lost, peerGone>>

(***************************************************************************)
(* WriterDrain::poll inside its ActorWaitItem: write until the buffer is  *)
(* empty; on WouldBlock finish once the buffer is below the low watermark; *)
(* a 0-byte write or an error is stored in inner.error and ends the drain *)
(* (Err(())).  The wait item turns Pending into Ready once the actor is   *)
(* no longer alive.                                                        *)
(***************************************************************************)
WriterDrainPoll ==
  /\ phase = "Wait" /\ draining
  /\ \/ /\ error \/ buffer = 0
        /\ draining' = FALSE
        /\ UNCHANGED <<phase, buffer, transported, error, faults, ioWaker>>
     \/ /\ ~error /\ buffer > 0
        /\ \/ \E n \in 1..buffer :
                /\ ~peerGone
                /\ buffer' = buffer - n /\ transported' = transported + n
                /\ UNCHANGED <<phase, draining, error, faults, ioWaker>>
           \/ /\ Fault
              /\ error' = TRUE /\ draining' = FALSE
              /\ UNCHANGED <<phase, buffer, transported, ioWaker>>
           \/ /\ ~peerGone /\ ioWaker' = TRUE
              /\ IF buffer < Low \/ state = "Stopped"
                   THEN draining' = FALSE /\ UNCHANGED phase
                   ELSE phase' = "Idle" /\ UNCHANGED draining
              /\ UNCHANGED <<buffer, transported, error, faults>>
  /\ UNCHANGED <<state, woken, sent, dispatched, passCount, closing, closed, task,
                 writerLive, wpc, accepted, errored, pollErrors, lost, peerGone>>

(***************************************************************************)
(* FramedWrite::drop: the write and flush of the remaining bytes are       *)
(* commented out, so what is left in the buffer is discarded.              *)
(***************************************************************************)
DropFramedWrite == lost' = buffer

(***************************************************************************)
(* The context's poll cycle (spec.md 4.1, 4.3) for this actor.             *)
(***************************************************************************)
PollStart ==
  /\ phase = "Idle" /\ woken
  /\ woken' = FALSE /\ phase' = "Lifecycle" /\ passCount' = 0
  /\ UNCHANGED <<state, sent, dispatched>>
  /\ UNCHANGED writerVars

\* The default stopping hook returns Running::Stop.
LifecycleStep ==
  /\ phase = "Lifecycle"
  /\ phase' = "Wait"
  /\ state' = IF state = "Stopping" THEN "Stopped" ELSE state
  /\ UNCHANGED <<woken, sent, dispatched, passCount>>
  /\ UNCHANGED writerVars

\* Past an empty wait FIFO: tear a Stopped actor down (its items are
\* dropped, then the actor with its FramedWrite), else poll the WriterFut.
PassWait ==
  /\ phase = "Wait" /\ ~draining
  /\ \/ /\ state = "Stopped"
        /\ phase' = "Done" /\ writerLive' = FALSE
        /\ DropFramedWrite
        /\ UNCHANGED <<wpc, pollErrors>>
     \/ /\ state # "Stopped"
        /\ phase' = IF writerLive THEN "Writer" ELSE "Mailbox"
        /\ wpc' = "err" /\ pollErrors' = 0
        /\ UNCHANGED <<writerLive, lost>>
  /\ UNCHANGED <<state, woken, sent, dispatched, passCount, buffer, closing, closed, error,
                 task, ioWaker, draining, faults, accepted, transported, errored,
                 peerGone>>

\* What the handler of a message does.
HandleOp(op) ==
  \/ op = "write" /\ FramedWriteWrite(TRUE) /\ UNCHANGED <<closing, state>>
  \/ op = "encode_error" /\ FramedWriteWrite(FALSE) /\ UNCHANGED <<closing, state>>
  \/ op = "close" /\ FramedWriteClose
     /\ UNCHANGED <<state, buffer, accepted, error, task>>
  \/ op = "raw_write" /\ WriterWrite /\ UNCHANGED <<closing, state>>
  \/ op = "raw_close" /\ WriterClose
     /\ UNCHANGED <<state, buffer, accepted, error, task>>
  \/ op = "stop" /\ state' = CtxStop(state)
     /\ UNCHANGED <<closing, buffer, accepted, error, task>>

\* Dispatch one message, unless MailboxCap were dispatched in this pass;
\* a write wakes the task it took.  The pass ends with the mailbox empty
\* or at the cap; messages left wake the task again, and a requested stop
\* goes back to the lifecycle step.
PollMailbox ==
  /\ phase = "Mailbox"
  /\ \/ /\ dispatched < sent /\ passCount < MailboxCap
        /\ dispatched' = dispatched + 1 /\ passCount' = passCount + 1
        /\ HandleOp(Script[dispatched + 1])
        /\ woken' = (woken \/ (task /\ ~task'))
        /\ UNCHANGED phase
     \/ /\ dispatched = sent \/ passCount = MailboxCap
        /\ woken' = (woken \/ dispatched < sent)
        /\ phase' = IF state = "Stopping" THEN "Lifecycle" ELSE "Idle"
        /\ UNCHANGED <<state, dispatched, passCount, closing, buffer, accepted,
                       error, task>>
  /\ UNCHANGED <<sent, closed, ioWaker, draining, writerLive, wpc, faults,
                 transported, errored, lost, peerGone, pollErrors>>

Terminated == phase = "Done" /\ UNCHANGED vars

(***************************************************************************)
(* The environment.                                                        *)
(***************************************************************************)
Send ==
  /\ phase # "Done" /\ sent < Len(Script)
  /\ sent' = sent + 1 /\ woken' = TRUE
  /\ UNCHANGED <<state, phase, dispatched, passCount, buffer, closing, closed, error, task,
                 ioWaker, draining, writerLive, wpc, faults, accepted,
                 transported, errored, pollErrors, lost, peerGone>>

\* The transport becomes writable or finishes flushing and wakes the task.
IoReady ==
  /\ ioWaker
  /\ ioWaker' = FALSE /\ woken' = TRUE
  /\ UNCHANGED <<state, phase, sent, dispatched, passCount, buffer, closing, closed, error,
                 task, draining, writerLive, wpc, faults, accepted, transported,
                 errored, pollErrors, lost, peerGone>>

SpuriousWake ==
  /\ phase = "Idle" /\ ~woken
  /\ woken' = TRUE
  /\ UNCHANGED <<state, phase, sent, dispatched, passCount, buffer, closing, closed, error,
                 task, ioWaker, draining, writerLive, wpc, faults, accepted,
                 transported, errored, pollErrors, lost, peerGone>>

\* The peer closes the connection: from now on every write and flush fails.
PeerClose ==
  /\ PeerMayClose /\ ~peerGone
  /\ peerGone' = TRUE
  /\ UNCHANGED <<state, phase, woken, sent, dispatched, passCount, buffer, closing, closed,
                 error, task, ioWaker, draining, writerLive, wpc, faults,
                 accepted, transported, errored, pollErrors, lost, passCount>>

\* FramedWrite::new in the actor's create closure: empty buffer, no flags,
\* no error, no waker, the WriterFut spawned; the task is woken.
Init ==
  /\ state = "Running" /\ phase = "Idle" /\ woken = TRUE
  /\ sent = 0 /\ dispatched = 0 /\ passCount = 0
  /\ buffer = 0 /\ closing = FALSE /\ closed = FALSE /\ error = FALSE
  /\ task = FALSE /\ ioWaker = FALSE /\ draining = FALSE
  /\ writerLive = TRUE /\ wpc = "err" /\ faults = 0
  /\ accepted = 0 /\ transported = 0 /\ errored = FALSE /\ lost = 0
  /\ peerGone = FALSE /\ pollErrors = 0

Engine ==
  \/ PollStart \/ LifecycleStep \/ PassWait \/ PollMailbox
  \/ WriterFutPoll \/ WriterDrainPoll

Next == Engine \/ Send \/ IoReady \/ SpuriousWake \/ PeerClose \/ Terminated

\* The steps in which the transport accepts data: a write of n > 0 bytes by
\* the WriterFut or the WriterDrain, and a completed flush.
TransportProgress ==
  \/ (WriterFutPoll \/ WriterDrainPoll) /\ transported' > transported
  \/ WriterFutPoll /\ wpc = "flush" /\ wpc' = "close" /\ faults' = faults

\* The executor polls the woken task and the transport wakes the task it
\* holds; the senders and the peer owe nothing.  The peer keeps reading: a transport
\* that is polled again and again does not answer WouldBlock forever.
Spec ==
  /\ Init /\ [][Next]_vars
  /\ WF_vars(Engine) /\ WF_vars(IoReady) /\ SF_vars(TransportProgress)

(***************************************************************************)
(* Properties.                                                             *)
(***************************************************************************)
Phases == {"Idle", "Lifecycle", "Wait", "Writer", "Mailbox", "Done"}

TypeOK ==
  /\ state \in {"Running", "Stopping", "Stopped"} /\ phase \in Phases
  /\ sent \in 0..Len(Script) /\ dispatched \in 0..sent
  /\ passCount \in 0..MailboxCap /\ pollErrors \in 0..PollErrorsShown
  /\ {woken, closing, closed, error, task, ioWaker, draining, writerLive,
      errored} \subseteq BOOLEAN
  /\ wpc \in {"err", "loop", "flush", "close"} /\ faults \in 0..MaxFaults
  /\ buffer \in Nat /\ transported \in Nat /\ lost \in Nat
  /\ accepted = buffer + transported

\* Backpressure: while the WriterFut runs, the shared buffer never holds
\* more than the high watermark plus the items of one pass of the mailbox,
\* however long the transport blocks: WriterFut::poll answers WouldBlock on
\* a buffer above HIGH_WATERMARK with ctx.wait(WriterDrain), which holds
\* back the mailbox (and with it further FramedWrite::write calls) until the
\* drain is done; below it, at most MailboxCap writes follow before the
\* WriterFut is polled again.
BackpressureBound == writerLive => buffer <= High + MailboxCap * Chunk

\* WriterFut sets CLOSED only after every byte FramedWrite::write encoded
\* has been written to the transport: the close check comes after the
\* write loop has emptied the buffer and the flush.
CloseAfterFlush ==
  [][~closed /\ closed' => transported' = accepted']_vars

\* Every byte a write puts into the buffer is eventually written to the
\* transport, unless the WriterFut has ended (an error answered with Stop,
\* a completed close, or the actor torn down): write wakes the WriterFut
\* parked on inner.task, a WriterFut blocked on the transport is woken by
\* it, and an error answered with Continue keeps the writer going.
WrittenEventuallyFlushed ==
  \A k \in 1..(Chunk * Len(Script)) :
    accepted >= k ~> (transported >= k \/ ~writerLive)

\* FramedWrite::close ("the closing happens asynchronously") eventually
\* leads to CLOSED and WriteHandler::finished, unless an error was reported
\* or the actor stopped.
CloseCompletes ==
  closing ~> (closed \/ errored \/ state = "Stopped")

\* FramedWrite is documented as flushing its transport when dropped: once
\* the context is torn down and the actor (with its FramedWrite) dropped,
\* no encoded byte has been left behind unwritten.
NoBytesLostOnDrop == phase = "Done" => lost = 0

\* Every poll of the WriterFut returns to the context.  spec.md (4, the
\* suspension points) has a context poll suspend at I/O readiness, and
\* WriteHandler::error documents Continue as "writer processing continues";
\* neither allows WriterFut::poll to hold the actor's thread: a transport
\* that fails for good must not keep the write loop going.
WriterPollReturns == phase = "Writer" ~> phase # "Writer"

=============================================================================
