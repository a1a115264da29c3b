------------------------------ MODULE SinkWriter ------------------------------
(***************************************************************************)
(* actix/src/io.rs: an actor that owns a SinkWrite over a futures Sink.    *)
(* SinkWrite::new spawns a SinkWriteFuture into the actor's context; the  *)
(* actor's handlers call close (set CLOSING and wake the stored task).     *)
(* SinkWriteFuture::poll clears inner.task, drives the sink (poll_complete *)
(* while open, close once CLOSING is set), reports errors to               *)
(* WriteHandler::error, and on a completed close marks CLOSED and calls    *)
(* finished.  It never stores its waker ("TODO: TASK").                    *)
(*                                                                         *)
(* As in FramedWriter, this is the design of code that is commented out   *)
(* in this repository.  SinkWrite::write is unimplemented!() (a handler    *)
(* calling it panics), so the actor's handlers only close or stop.  The   *)
(* sink completes, stays pending (keeping the task's waker, sinkWaker) or *)
(* fails; failures are bounded by MaxFaults.                               *)
(***************************************************************************)
EXTENDS Naturals, Sequences

CONSTANTS
  Script,       \* the operations of the messages the actor receives: "close", "stop"
  ErrorPolicy,  \* what WriteHandler::error returns: "Stop" (default) or "Continue"
  MaxFaults     \* bound on sink errors

ASSUME /\ Script \in Seq({"close", "stop"})
       /\ ErrorPolicy \in {"Stop", "Continue"}
       /\ MaxFaults \in Nat

VARIABLES
  state,      \* actor lifecycle: "Running", "Stopping", "Stopped"
  phase,      \* where the context's poll is: "Idle", "Lifecycle", "Items", "Mailbox", "Done"
  woken,      \* the context task has been woken
  sent,       \* messages sent to the actor
  dispatched, \* messages handled
  closing,    \* Flags::CLOSING in closing_flag
  closed,     \* Flags::CLOSED in closing_flag
  task,       \* InnerSinkWrite.task is Some
  sinkWaker,  \* the sink holds the task's waker (poll_complete or close was Pending)
  futLive,    \* the SinkWriteFuture is registered in the context
  faults,     \* sink errors so far
  errored     \* history: WriteHandler::error was called

vars == <<state, phase, woken, sent, dispatched, closing, closed, task,
          sinkWaker, futLive, faults, errored>>

CtxStop(st) == IF st = "Stopped" THEN st ELSE "Stopping"

\* WriteHandler::finished: ctx.stop().
ActFinished(st) == CtxStop(st)

Fault == faults < MaxFaults /\ faults' = faults + 1

(***************************************************************************)
(* SinkWrite::close: set CLOSING and notify_task, which wakes the task     *)
(* stored in inner.task, if any, without taking it.                        *)
(***************************************************************************)
SinkWriteClose ==
  /\ closing' = TRUE
  /\ woken' = (woken \/ task)
  /\ UNCHANGED task

\* act.error(e, ctxt); on Running::Stop, act.finished(ctxt) and Ready.
SinkReport ==
  /\ errored' = TRUE
  /\ IF ErrorPolicy = "Stop"
       THEN state' = ActFinished(state) /\ futLive' = FALSE
       ELSE UNCHANGED <<state, futLive>>

(***************************************************************************)
(* SinkWriteFuture::poll.  Open: poll_complete, reporting an error; Ready  *)
(* and Pending both fall through.  Closing: assert !CLOSED, then close;    *)
(* Ready sets CLOSED, calls finished (ctx.stop()) and returns Ready.       *)
(* Otherwise the future returns Pending without storing its waker.  A      *)
(* Pending sink keeps the waker it was given.                              *)
(***************************************************************************)
SinkWriteFuturePoll ==
  /\ phase = "Items" /\ futLive
  /\ task' = FALSE
  /\ \/ /\ ~closing
        /\ \/ Fault /\ SinkReport /\ UNCHANGED sinkWaker             \* Err(e)
           \/ UNCHANGED <<faults, errored, state, futLive, sinkWaker>> \* Ready
           \/ sinkWaker' = TRUE /\ UNCHANGED <<faults, errored, state, futLive>> \* Pending
        /\ UNCHANGED closed
     \/ /\ closing
        /\ ~closed                                                  \* assert!
        /\ \/ Fault /\ SinkReport /\ UNCHANGED <<closed, sinkWaker>> \* Err(e)
           \/ /\ closed' = TRUE /\ state' = ActFinished(state)        \* Ready
              /\ futLive' = FALSE
              /\ UNCHANGED <<faults, errored, sinkWaker>>
           \/ /\ sinkWaker' = TRUE                                   \* Pending
              /\ UNCHANGED <<closed, faults, errored, state, futLive>>
  /\ phase' = "Mailbox"
  /\ UNCHANGED <<woken, sent, dispatched, closing>>

(***************************************************************************)
(* The context's poll cycle (spec.md 4.3) for this actor: the lifecycle,  *)
(* the spawned SinkWriteFuture, one message, the lifecycle again.          *)
(***************************************************************************)
PollStart ==
  /\ phase = "Idle" /\ woken
  /\ woken' = FALSE /\ phase' = "Lifecycle"
  /\ UNCHANGED <<state, sent, dispatched, closing, closed, task, sinkWaker,
                 futLive, faults, errored>>

\* The default stopping hook returns Running::Stop; a Stopped actor is
\* torn down, its items dropped without a poll.
LifecycleStep ==
  /\ phase = "Lifecycle"
  /\ \/ /\ state = "Stopping"
        /\ state' = "Stopped" /\ phase' = "Done" /\ futLive' = FALSE
     \/ /\ state = "Running"
        /\ phase' = IF futLive THEN "Items" ELSE "Mailbox"
        /\ UNCHANGED <<state, futLive>>
  /\ UNCHANGED <<woken, sent, dispatched, closing, closed, task, sinkWaker,
                 faults, errored>>

\* Dispatch one message (MailboxCap = 1) and end the pass; with messages
\* left, or a stop requested, the context polls again at once.
PollMailbox ==
  /\ phase = "Mailbox"
  /\ \/ /\ dispatched < sent
        /\ dispatched' = dispatched + 1
        /\ \/ Script[dispatched + 1] = "close" /\ SinkWriteClose
              /\ UNCHANGED state
           \/ Script[dispatched + 1] = "stop" /\ state' = CtxStop(state)
              /\ UNCHANGED <<closing, woken, task>>
     \/ /\ dispatched = sent
        /\ UNCHANGED <<state, dispatched, closing, woken, task>>
  /\ phase' = IF state' = "Stopping" \/ dispatched' < sent THEN "Lifecycle" ELSE "Idle"
  /\ UNCHANGED <<sent, closed, sinkWaker, futLive, faults, errored>>

Terminated == phase = "Done" /\ UNCHANGED vars

(***************************************************************************)
(* The environment.                                                        *)
(***************************************************************************)
Send ==
  /\ phase # "Done" /\ sent < Len(Script)
  /\ sent' = sent + 1 /\ woken' = TRUE
  /\ UNCHANGED <<state, phase, dispatched, closing, closed, task, sinkWaker,
                 futLive, faults, errored>>

\* The sink makes progress and wakes the task whose waker it holds.
SinkReady ==
  /\ sinkWaker
  /\ sinkWaker' = FALSE /\ woken' = TRUE
  /\ UNCHANGED <<state, phase, sent, dispatched, closing, closed, task,
                 futLive, faults, errored>>

SpuriousWake ==
  /\ phase = "Idle" /\ ~woken
  /\ woken' = TRUE
  /\ UNCHANGED <<state, phase, sent, dispatched, closing, closed, task,
                 sinkWaker, futLive, faults, errored>>

\* SinkWrite::new in the actor's create closure: no flags, no task, the
\* future spawned; the task is woken.
Init ==
  /\ state = "Running" /\ phase = "Idle" /\ woken = TRUE
  /\ sent = 0 /\ dispatched = 0
  /\ closing = FALSE /\ closed = FALSE /\ task = FALSE /\ sinkWaker = FALSE
  /\ futLive = TRUE /\ faults = 0 /\ errored = FALSE

Engine == PollStart \/ LifecycleStep \/ SinkWriteFuturePoll \/ PollMailbox

Next == Engine \/ Send \/ SinkReady \/ SpuriousWake \/ Terminated

\* The step in which the sink completes its close.
SinkProgress == SinkWriteFuturePoll /\ closed' /\ ~closed

\* The executor polls the woken task and the sink wakes the task it holds;
\* the senders owe nothing.  A sink polled to close again and again does
\* not stay Pending forever.
Spec ==
  /\ Init /\ [][Next]_vars
  /\ WF_vars(Engine) /\ WF_vars(SinkReady) /\ SF_vars(SinkProgress)

(***************************************************************************)
(* Properties.                                                             *)
(***************************************************************************)
\* SinkWrite::close ("the closing happens asynchronously") eventually leads
\* to CLOSED and WriteHandler::finished, unless an error was reported or the
\* actor stopped.
SinkCloseCompletes ==
  closing ~> (closed \/ errored \/ state = "Stopped")

=============================================================================
