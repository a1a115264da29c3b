CONSTANTS
  A = A
  B = B
  a1 = a1
  a2 = a2
  b1 = b1
  s1 = s1
  s2 = s2
  n1 = n1
  d1 = d1
  Senders <- MCSenders
  SendOrder <- MCSendOrder
  StreamMsgs <- MCStreamMsgs
  NotifyMsgs <- MCNotifyMsgs
  DelayedMsgs <- MCDelayedMsgs
  Behavior <- MCBehavior
  CancelTarget = d1
  MailboxCap = 1
  MaxContinue = 1

SPECIFICATION Spec
INVARIANTS
  TypeOK
  DelayedOnceAfterTimer
  CancelledNeverHandled
PROPERTIES
  NoHandlingWhileWaiting
  LifecycleHooks
  EventuallyHandled
  StopLeadsToTermination
  RefinesSerial
