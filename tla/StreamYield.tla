------------------------------ MODULE StreamYield ------------------------------
(***************************************************************************)
(* The yield policy of ActorMessageStreamItem::poll (actix/src/            *)
(* contextitems.rs) against the mailbox of the same actor.  The stream's  *)
(* producer may make a new item ready at any time (a socket under load, a *)
(* channel fed by another thread); the items' handler does not call        *)
(* ctx.wait.  Senders put envelopes into the mailbox.  The context polls  *)
(* its spawned items, then dispatches up to MailboxCap envelopes (spec.md  *)
(* 4.3).  The stream is endless, so only counts of envelopes are kept.     *)
(***************************************************************************)
EXTENDS Naturals

CONSTANTS
  MailboxCap,  \* envelopes dispatched per poll pass
  MaxMail      \* envelopes the senders send in all

ASSUME MailboxCap \in Nat \ {0} /\ MaxMail \in Nat \ {0}

VARIABLES
  phase,       \* "Idle", "Stream" (inside the item's poll) or "Mailbox"
  woken,       \* the context task has been woken
  streamReady, \* poll_next would return Ready(Some(msg)) now
  sent,        \* envelopes sent so far
  delivered,   \* envelopes dispatched to the handler so far
  dispatched   \* envelopes dispatched in this pass

vars == <<phase, woken, streamReady, sent, delivered, dispatched>>

(***************************************************************************)
(* One iteration of ActorMessageStreamItem::poll's loop.  Ready(Some):    *)
(* the handler runs and, the context not waiting, the loop goes on.       *)
(* Pending: the item returns Pending and the pass moves on.  The stream   *)
(* never ends, so Ready(None) does not occur.                              *)
(***************************************************************************)
StreamItemPoll ==
  /\ phase = "Stream"
  /\ \/ /\ streamReady
        /\ streamReady' = FALSE
        /\ UNCHANGED phase
     \/ /\ ~streamReady
        /\ phase' = "Mailbox"
        /\ UNCHANGED streamReady
  /\ UNCHANGED <<woken, sent, delivered, dispatched>>

(***************************************************************************)
(* The rest of the poll pass (spec.md 4.3): start when woken, dispatch    *)
(* envelopes up to the cap, and end the pass, waking the task again when  *)
(* envelopes were left behind at the cap.                                  *)
(***************************************************************************)
ContextStep ==
  /\ \/ /\ phase = "Idle" /\ woken
        /\ woken' = FALSE /\ phase' = "Stream" /\ dispatched' = 0
        /\ UNCHANGED delivered
     \/ /\ phase = "Mailbox"
        /\ delivered < sent /\ dispatched < MailboxCap
        /\ delivered' = delivered + 1 /\ dispatched' = dispatched + 1
        /\ UNCHANGED <<phase, woken>>
     \/ /\ phase = "Mailbox"
        /\ delivered = sent \/ dispatched = MailboxCap
        /\ phase' = "Idle" /\ woken' = (woken \/ delivered < sent)
        /\ UNCHANGED <<delivered, dispatched>>
  /\ UNCHANGED <<streamReady, sent>>

\* The producer makes an item ready and wakes the task.
Produce ==
  /\ ~streamReady
  /\ streamReady' = TRUE /\ woken' = TRUE
  /\ UNCHANGED <<phase, sent, delivered, dispatched>>

Send ==
  /\ sent < MaxMail
  /\ sent' = sent + 1 /\ woken' = TRUE
  /\ UNCHANGED <<phase, streamReady, delivered, dispatched>>

Init ==
  /\ phase = "Idle" /\ woken = TRUE /\ streamReady = FALSE
  /\ sent = 0 /\ delivered = 0 /\ dispatched = 0

Next == StreamItemPoll \/ ContextStep \/ Produce \/ Send

\* The executor polls the woken task; the producer and the senders owe
\* nothing.
Spec == Init /\ [][Next]_vars /\ WF_vars(StreamItemPoll \/ ContextStep)

(***************************************************************************)
(* Properties.                                                             *)
(***************************************************************************)
\* Every envelope sent is eventually dispatched, however busy the stream:
\* spec.md 4.6 calls the stream item's drain loop "bounded" and its
\* "fairness/yield policy", so a ready stream should not keep the context
\* from reaching its mailbox.
MailNotStarved ==
  \A k \in 1..MaxMail : sent >= k ~> delivered >= k

=============================================================================
