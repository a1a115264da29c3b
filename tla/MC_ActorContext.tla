-------------------------- MODULE MC_ActorContext --------------------------
(***************************************************************************)
(* Model-checking instance of ActorContext.  Two senders and a stream     *)
(* feed one actor; the handlers cover every context call the items make:  *)
(*   s1  ctx.wait(sleep)       -- a wait item in the middle of a stream   *)
(*   s2  ctx.cancel_future(d1) -- races the delayed item's timer          *)
(*   a2  ctx.stop()            -- a stop request from the mailbox         *)
(*   b1  ctx.wait(stopper)     -- a wait future that stops the actor and  *)
(*                                never completes                         *)
(***************************************************************************)
EXTENDS ActorContext

CONSTANTS A, B, a1, a2, b1, s1, s2, n1, d1

MCSenders == {A, B}
MCSendOrder == [s \in MCSenders |-> IF s = A THEN <<a1, a2>> ELSE <<b1>>]
MCStreamMsgs == <<s1, s2>>
MCNotifyMsgs == {n1}
MCDelayedMsgs == {d1}
MCBehavior ==
  [m \in {a1, a2, b1, s1, s2, n1, d1} |->
     CASE m = s1 -> "wait"
       [] m = s2 -> "cancel"
       [] m = a2 -> "stop"
       [] m = b1 -> "waitstop"
       [] OTHER  -> "plain"]
=============================================================================
