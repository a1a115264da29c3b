\* One envelope, one dispatch per pass, and a stream whose producer makes
\* a new item ready whenever the last one was taken.
CONSTANTS
  MailboxCap = 1
  MaxMail = 1

SPECIFICATION Spec
PROPERTY
  MailNotStarved
