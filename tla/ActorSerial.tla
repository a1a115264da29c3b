----------------------------- MODULE ActorSerial -----------------------------
(***************************************************************************)
(* What an actor's Context promises its actor (spec.md 3 and 4), with the  *)
(* poll cycle, the items and the wake-ups left out: messages arrive from   *)
(* their sources and are handed to the handler one at a time, each at most *)
(* once, in the order of their source (a sender's sends, a stream's        *)
(* items), never while a wait item is pending, only between the started    *)
(* hook and the stopped hook, and never after the handle of their delayed  *)
(* item was cancelled.  ActorContext implements this specification.        *)
(***************************************************************************)
EXTENDS Naturals, Sequences, SequencesExt

CONSTANTS Senders, SendOrder, StreamMsgs, NotifyMsgs, DelayedMsgs, Behavior,
          CancelTarget

VARIABLES
  life,     \* the lifecycle state
  arrived,  \* messages their source has made available to the context
  handled,  \* the messages handed to the handler, in order
  waiting,  \* a wait item suspends message delivery
  dropped,  \* delayed messages whose item was cancelled before delivery
  torn      \* the context has been torn down

avars == <<life, arrived, handled, waiting, dropped, torn>>

MailMsgs == UNION {Range(SendOrder[s]) : s \in Senders}

\* The messages a source delivers before m: earlier sends of the same
\* sender and earlier items of the stream.  Notified and delayed messages
\* carry no order.
Before(m) ==
  LET Preceding(seq) ==
        {seq[j] : j \in 1..(SelectInSeq(seq, LAMBDA x : x = m) - 1)}
  IN UNION {Preceding(SendOrder[s]) : s \in Senders} \cup Preceding(StreamMsgs)

Arrive(m) ==
  /\ m \notin arrived
  /\ Before(m) \subseteq arrived
  /\ m \in DelayedMsgs => m \notin dropped /\ ~torn
  /\ arrived' = arrived \cup {m}
  /\ UNCHANGED <<life, handled, waiting, dropped, torn>>

\* The handler runs for m, and its effect on the context takes place.
Deliver(m) ==
  LET b == Behavior[m] IN
  /\ life \in {"Running", "Stopping"}
  /\ ~waiting /\ ~torn
  /\ m \in arrived \ (Range(handled) \cup dropped)
  /\ Before(m) \subseteq Range(handled)
  /\ handled' = Append(handled, m)
  /\ waiting' = (b \in {"wait", "waitstop"})
  /\ life' = IF b = "stop" THEN "Stopping" ELSE life
  /\ dropped' = IF b = "cancel" /\ CancelTarget \notin Range(handled')
                  THEN dropped \cup {CancelTarget} ELSE dropped
  /\ UNCHANGED <<arrived, torn>>

Start ==
  /\ life = "Started"
  /\ life' = "Running"
  /\ UNCHANGED <<arrived, handled, waiting, dropped, torn>>

\* A stop requested from outside a handler (a wait item's future).
RequestStop ==
  /\ life \in {"Started", "Running"}
  /\ life' = "Stopping"
  /\ UNCHANGED <<arrived, handled, waiting, dropped, torn>>

\* The stopping hook answers Continue or Stop.
Settle ==
  /\ life = "Stopping"
  /\ life' \in {"Running", "Stopped"}
  /\ UNCHANGED <<arrived, handled, waiting, dropped, torn>>

WaitDone ==
  /\ waiting
  /\ waiting' = FALSE
  /\ UNCHANGED <<life, arrived, handled, dropped, torn>>

Teardown ==
  /\ life = "Stopped" /\ ~waiting /\ ~torn
  /\ torn' = TRUE
  /\ UNCHANGED <<life, arrived, handled, waiting, dropped>>

Init ==
  /\ life = "Started"
  /\ arrived = NotifyMsgs
  /\ handled = <<>>
  /\ waiting = FALSE
  /\ dropped = {}
  /\ torn = FALSE

Next ==
  \/ \E m \in MailMsgs \cup Range(StreamMsgs) \cup DelayedMsgs : Arrive(m)
  \/ \E m \in arrived : Deliver(m)
  \/ Start \/ RequestStop \/ Settle \/ WaitDone \/ Teardown

\* The context delivers what can be delivered, ends every wait, settles a
\* stop and tears a stopped actor down; sources owe nothing.
Spec ==
  /\ Init /\ [][Next]_avars
  /\ WF_avars(\E m \in arrived : Deliver(m))
  /\ WF_avars(Start) /\ WF_avars(Settle) /\ WF_avars(WaitDone)
  /\ WF_avars(Teardown)

=============================================================================
