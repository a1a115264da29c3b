----------------------------- MODULE ChatServer -----------------------------
(***************************************************************************)
(* The accept loop of examples/chat/src/main.rs.  main() creates the       *)
(* Server actor with ctx.add_message_stream(WtfStream { listener }); the   *)
(* Server context drives that stream through ActorMessageStreamItem::poll  *)
(* (actix/src/contextitems.rs), whose Ready(Some(TcpConnect)) items go to  *)
(* Handler<TcpConnect>, which creates one ChatSession actor per accepted   *)
(* connection.  main() then waits for ctrl-c and stops the System.         *)
(*                                                                         *)
(* The listener's poll_accept is the environment: it yields a connection  *)
(* from the backlog, Pending when the backlog is empty (registering the    *)
(* task's waker), or an io::Error of a kind in ErrKinds.  The listener is *)
(* tokio::net::TcpListener, whose poll_accept retries WouldBlock itself    *)
(* and answers Pending instead, so WtfStream's WouldBlock arm is kept as  *)
(* written but no ErrKinds value reaches it.                               *)
(***************************************************************************)
EXTENDS Naturals, FiniteSets

CONSTANTS
  Conns,           \* client connections that may arrive
  ErrKinds,        \* io::ErrorKind values poll_accept may return
  MaxAcceptErrors  \* bound on the number of failed accepts

ASSUME /\ ErrKinds \subseteq {"Other"}
       /\ MaxAcceptErrors \in Nat

VARIABLES
  backlog,     \* connections the kernel has queued and not yet accepted
  connected,   \* history: every connection a client has opened
  sessions,    \* connections for which a ChatSession actor was created
  streamLive,  \* the Server's ActorMessageStreamItem is still registered
  phase,       \* the Server context task: "Idle" or "Polling"
  woken,       \* the Server task has been woken
  registered,  \* the listener holds the task's waker (poll_accept was Pending)
  errors,      \* failed accepts so far
  stopped      \* System::current().stop() has run

vars == <<backlog, connected, sessions, streamLive, phase, woken, registered,
          errors, stopped>>

NoConn == "none"

\* The results poll_accept can give with the backlog as it is.
AcceptResults ==
  {[kind |-> "Ok", conn |-> c] : c \in backlog}
    \cup (IF errors < MaxAcceptErrors
            THEN {[kind |-> "Err", conn |-> e] : e \in ErrKinds} ELSE {})
    \cup (IF backlog = {} THEN {[kind |-> "Pending", conn |-> NoConn]} ELSE {})

\* Mutant: a listener that is not ready is taken for the end of the stream.
WtfStreamPollNextEndsOnPending(r) ==
  CASE r.kind = "Ok"                             -> [poll |-> "Some", conn |-> r.conn]
    [] r.kind = "Err" /\ r.conn = "WouldBlock"   -> [poll |-> "Pending", conn |-> NoConn]
    [] r.kind = "Err"                            -> [poll |-> "None", conn |-> NoConn]
    [] r.kind = "Pending"                        -> [poll |-> "None", conn |-> NoConn]

\* WtfStream::poll_next: the stream item for a poll_accept result r.
WtfStreamPollNext(r) ==
  CASE r.kind = "Ok"                             -> [poll |-> "Some", conn |-> r.conn]
    [] r.kind = "Err" /\ r.conn = "WouldBlock"   -> [poll |-> "Pending", conn |-> NoConn]
    [] r.kind = "Err"                            -> [poll |-> "None", conn |-> NoConn]
    [] r.kind = "Pending"                        -> [poll |-> "Pending", conn |-> NoConn]

\* Handler<TcpConnect> for Server: ChatSession::create registers the read
\* half as a stream and the write half as a FramedWrite of the session.
HandleTcpConnect(c) ==
  sessions' = sessions \cup {c}

(***************************************************************************)
(* Steps.                                                                  *)
(***************************************************************************)
\* A client connects; the listener wakes the task if it holds its waker.
Connect(c) ==
  /\ ~stopped
  /\ c \notin connected
  /\ connected' = connected \cup {c}
  /\ backlog' = backlog \cup {c}
  /\ woken' = (woken \/ registered)
  /\ registered' = FALSE
  /\ UNCHANGED <<sessions, streamLive, phase, errors, stopped>>

\* The executor polls the woken Server task.
PollStart ==
  /\ ~stopped
  /\ phase = "Idle"
  /\ woken
  /\ woken' = FALSE
  /\ phase' = IF streamLive THEN "Polling" ELSE "Idle"
  /\ UNCHANGED <<backlog, connected, sessions, streamLive, registered, errors, stopped>>

\* One iteration of ActorMessageStreamItem::poll's loop over WtfStream.
\* TcpConnect's handler never calls ctx.wait, so ctx.waiting() is false
\* and the loop continues after every item.
ServerStreamStep ==
  /\ ~stopped
  /\ phase = "Polling"
  /\ \E r \in AcceptResults :
       LET p == WtfStreamPollNext(r) IN
       /\ backlog' = IF r.kind = "Ok" THEN backlog \ {r.conn} ELSE backlog
       /\ errors' = IF r.kind = "Err" THEN errors + 1 ELSE errors
       /\ registered' = (r.kind = "Pending")
       /\ \/ /\ p.poll = "Some"
             /\ HandleTcpConnect(p.conn)
             /\ UNCHANGED <<phase, streamLive>>
          \/ /\ p.poll # "Some"              \* poll returns Pending or Ready
             /\ streamLive' = (p.poll = "Pending")
             /\ phase' = "Idle"
             /\ UNCHANGED sessions
  /\ UNCHANGED <<connected, woken, stopped>>

\* The Server task may be polled without a wake of its own (its mailbox,
\* or a spurious wake); nothing obliges it.
SpuriousWake ==
  /\ ~stopped
  /\ ~woken
  /\ woken' = TRUE
  /\ UNCHANGED <<backlog, connected, sessions, streamLive, phase, registered,
                 errors, stopped>>

\* tokio::signal::ctrl_c() resolves and main stops the System.
CtrlC ==
  /\ ~stopped
  /\ stopped' = TRUE
  /\ UNCHANGED <<backlog, connected, sessions, streamLive, phase, woken,
                 registered, errors>>

Terminated ==
  /\ stopped
  /\ UNCHANGED vars

\* main: the Server is created with its stream registered and its task
\* woken for the first poll; no client has connected yet.
Init ==
  /\ backlog = {}
  /\ connected = {}
  /\ sessions = {}
  /\ streamLive = TRUE
  /\ phase = "Idle"
  /\ woken = TRUE
  /\ registered = FALSE
  /\ errors = 0
  /\ stopped = FALSE

Next ==
  \/ \E c \in Conns : Connect(c)
  \/ PollStart
  \/ ServerStreamStep
  \/ SpuriousWake
  \/ CtrlC
  \/ Terminated

\* The executor runs the woken Server task; clients and the operator at
\* the terminal owe nothing.
Spec == Init /\ [][Next]_vars /\ WF_vars(PollStart \/ ServerStreamStep)

(***************************************************************************)
(* Properties.                                                             *)
(***************************************************************************)
TypeOK ==
  /\ backlog \subseteq connected /\ connected \subseteq Conns
  /\ sessions \subseteq Conns
  /\ streamLive \in BOOLEAN /\ woken \in BOOLEAN /\ registered \in BOOLEAN
  /\ phase \in {"Idle", "Polling"}
  /\ errors \in 0..MaxAcceptErrors
  /\ stopped \in BOOLEAN

\* Every client that connects gets a ChatSession while the server runs:
\* the comment above Server::create in main() says the Server handles the
\* incoming connections as a stream with its io::Error items, so a failed
\* accept should not end the accepting.
EveryConnectionServed ==
  \A c \in Conns : c \in connected ~> (c \in sessions \/ stopped)

=============================================================================
