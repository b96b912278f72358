----------------------------- MODULE SocketServer -----------------------------
(***************************************************************************)
(* The server (SocketServer.cpp) as main() drives it: Init, the accept     *)
(* loop, one handler thread for each connection, ShutDown at the end of    *)
(* Run, and ShutDown again from the destructor, once somebody has pressed  *)
(* a key: main() waits for that in between.                                *)
(*                                                                         *)
(* A SOCKET is a handle that the system gives out again once it has been   *)
(* closed.  A handler whose client has left closes its handle when recv    *)
(* fails and again after the closing loop; in between the handle may have  *)
(* become another connection's.                                            *)
(*                                                                         *)
(* The logger may be missing, its construction having failed, and a thread *)
(* may fail to start: either ends the process sooner or later, with all    *)
(* its threads.                                                            *)
(*                                                                         *)
(* What a handler does with the bytes it receives is in Framing and        *)
(* TopicRegistry; here it is one step, and so is its closing loop.         *)
(***************************************************************************)
EXTENDS Naturals, Sequences, FiniteSets

CONSTANTS
  Connections,  \* clients that may connect; each one's handler has its name
  Handles,      \* values of SOCKET the system gives out
  NoConnection, \* a handle that is closed
  NoHandle      \* a handler that has not started

ASSUME NoConnectionNotConnection == NoConnection \notin Connections
ASSUME NoHandleNotHandle == NoHandle \notin Handles

VARIABLES
  logger,     \* m_fileLogger points to a logger
  main,       \* where the main thread is
  round,      \* number of ShutDown calls begun
  winsock,    \* WSAStartup has succeeded and no WSACleanup has followed
  cancel,     \* m_token.m_cancel
  threads,    \* m_connectionHandlers, by connection
  joinable,   \* the threads among them that have not been joined
  next,       \* ShutDown's `c`, from 1
  pc,         \* where each handler is
  handle,     \* each handler's data.Client
  owner,      \* the connection behind each handle
  closes,     \* history: number of closesocket calls by each handler
  late,       \* history: batches each handler received after the cancellation
  severed     \* history: connections closed by another connection's handler

mainVars == <<logger, main, round, winsock, cancel, threads, joinable, next>>
handlerVars == <<pc, handle, owner, closes, late, severed>>
vars == <<logger, main, round, winsock, cancel, threads, joinable, next,
          pc, handle, owner, closes, late, severed>>

MainLocations ==
  {"init",        \* before Init
   "accept",      \* in accept
   "shutdown",    \* entering ShutDown
   "join",        \* in ShutDown's loop
   "close",       \* after the loop
   "pause",       \* in system("pause"), after Run
   "ended",       \* the destructor has returned
   "terminated",  \* std::terminate
  "crashed"}     \* a call through the null logger

HandlerLocations ==
  {"none",     \* the client has not connected
   "recv",     \* in recv
   "check",    \* before `!data.Token.IsCanceled()`
   "cleanup",  \* before the closing loop
   "close",    \* before the last closesocket
   "gone"}     \* the thread has returned

\* The constructor catches what making the logger throws.
Init ==
  /\ logger \in BOOLEAN
  /\ main = "init"
  /\ round = 0
  /\ winsock = FALSE
  /\ cancel = FALSE
  /\ threads = <<>>
  /\ joinable = {}
  /\ next = 1
  /\ pc = [c \in Connections |-> "none"]
  /\ handle = [c \in Connections |-> NoHandle]
  /\ owner = [h \in Handles |-> NoConnection]
  /\ closes = [c \in Connections |-> 0]
  /\ late = [c \in Connections |-> 0]
  /\ severed = {}

-----------------------------------------------------------------------------
(* The main thread.                                                        *)

\* SocketServer::Init.  Each failure after WSAStartup cleans up, and main()
\* ignores the result: Run then meets an invalid m_ListenSocket.
InitServer ==
  /\ main = "init"
  /\ winsock' \in BOOLEAN
  /\ main' = IF winsock' \/ logger THEN "accept" ELSE "crashed"
  /\ UNCHANGED <<handlerVars, logger, round, cancel, threads, joinable, next>>

\* accept can return a connection on handle h.
Arrives(c, h) ==
  /\ main = "accept"
  /\ winsock
  /\ ~cancel
  /\ pc[c] = "none"
  /\ owner[h] = NoConnection

\* It does, and its handler starts.
Start(c, h) ==
  /\ Arrives(c, h)
  /\ logger
  /\ owner' = [owner EXCEPT ![h] = c]
  /\ pc' = [pc EXCEPT ![c] = "recv"]
  /\ UNCHANGED <<logger, main, round, winsock, cancel, next, closes, late, severed>>

\* m_connectionHandlers.emplace_back(...)
Keep(c) ==
  /\ threads' = Append(threads, c)
  /\ joinable' = joinable \cup {c}

\* Fault: the handlers refer to Run's variable clientSocket.
AcceptByReference(c, h) ==
  /\ Start(c, h)
  /\ Keep(c)
  /\ handle' = [x \in Connections |-> IF pc[x] = "none" /\ x # c THEN NoHandle ELSE h]

\* Fault: the handler's thread is detached and not kept.
AcceptDetaching(c, h) ==
  /\ Start(c, h)
  /\ UNCHANGED <<threads, joinable>>
  /\ handle' = [handle EXCEPT ![c] = h]

Accept(c, h) ==
  /\ Start(c, h)
  /\ Keep(c)
  /\ handle' = [handle EXCEPT ![c] = h]

\* Without a logger the first line about a connection is the end; without a
\* thread it is the exception of std::thread, which nobody catches.
AcceptInVain(c, h) ==
  /\ Arrives(c, h)
  /\ main' = IF logger THEN "terminated" ELSE "crashed"
  /\ UNCHANGED <<handlerVars, logger, round, winsock, cancel, threads, joinable, next>>

\* accept returns INVALID_SOCKET, the only way out of the loop: nobody else
\* cancels m_token.
AcceptFails ==
  /\ main = "accept"
  /\ main' = "shutdown"
  /\ UNCHANGED <<handlerVars, logger, round, winsock, cancel, threads, joinable, next>>

BeginShutDown ==
  /\ main = "shutdown"
  /\ round' = round + 1
  /\ next' = 1
  /\ main' = "join"
  /\ UNCHANGED <<handlerVars, logger, winsock, threads, joinable>>

\* Fault: the handlers are not told.
ShutDownWithoutCancel == BeginShutDown /\ UNCHANGED cancel

\* ShutDown: m_token.Cancel() and `int c = 0`.
ShutDown == BeginShutDown /\ cancel' = TRUE

\* m_connectionHandlers[c].join(): waits for the handler.  A thread that was
\* joined before is still in the vector; join() throws, and the exception
\* cannot leave the destructor.
Join ==
  /\ main = "join"
  /\ next <= Len(threads)
  /\ \/ /\ threads[next] \in joinable
        /\ pc[threads[next]] = "gone"
        /\ joinable' = joinable \ {threads[next]}
        /\ next' = next + 1
        /\ UNCHANGED main
     \/ /\ threads[next] \notin joinable
        /\ main' = "terminated"
        /\ UNCHANGED <<joinable, next>>
  /\ UNCHANGED <<handlerVars, logger, round, winsock, cancel, threads>>

\* The loop ends at c = n.
JoinsDoneAt(n) ==
  /\ main = "join"
  /\ next > n
  /\ main' = "close"
  /\ UNCHANGED <<handlerVars, logger, round, winsock, cancel, threads, joinable, next>>

\* Fault: the loop stops one short of the end.
JoinsDoneShort == JoinsDoneAt(Len(threads) - 1)

\* c < m_connectionHandlers.size() no longer holds.
JoinsDone == JoinsDoneAt(Len(threads))

\* The listening socket is closed and WSACleanup called, after a line in the
\* log on whether shutdown() on it succeeds.  So ends Run, or the destructor.
CloseListener ==
  /\ main = "close"
  /\ \/ /\ logger
        /\ winsock' = FALSE
        /\ main' = IF round = 1 THEN "pause" ELSE "ended"
     \/ /\ ~logger
        /\ main' = "crashed"
        /\ UNCHANGED winsock
  /\ UNCHANGED <<handlerVars, logger, round, cancel, threads, joinable, next>>

\* Somebody presses a key, and main() returns: the destructor calls ShutDown.
PressKey ==
  /\ main = "pause"
  /\ main' = "shutdown"
  /\ UNCHANGED <<handlerVars, logger, round, winsock, cancel, threads, joinable, next>>

-----------------------------------------------------------------------------
(* A connection's handler.                                                 *)

Running == main \notin {"ended", "terminated", "crashed"}

Goto(c, l) == Running /\ pc' = [pc EXCEPT ![c] = l]

\* closesocket(data.Client): closes whatever is behind the handle by now.
CloseSocket(c) ==
  LET h == handle[c]
  IN  /\ owner' = [owner EXCEPT ![h] = NoConnection]
      /\ severed' = severed \cup ({owner[h]} \ {c, NoConnection})
      /\ closes' = [closes EXCEPT ![c] = @ + 1]

\* recv returns bytes, of the connection behind the handle, and they are
\* dealt with.
Receive(c) ==
  /\ pc[c] = "recv"
  /\ owner[handle[c]] # NoConnection
  /\ late' = [late EXCEPT ![c] = IF cancel THEN @ + 1 ELSE @]
  /\ Goto(c, "check")
  /\ UNCHANGED <<mainVars, handle, owner, closes, severed>>

\* recv returns nothing or fails: the client has left, or the handle is
\* closed.  closesocket and break.
HangUp(c) ==
  /\ pc[c] = "recv"
  /\ CloseSocket(c)
  /\ Goto(c, "cleanup")
  /\ UNCHANGED <<mainVars, handle, late>>

CheckToken(c, canceled) ==
  /\ pc[c] = "check"
  /\ Goto(c, IF canceled THEN "cleanup" ELSE "recv")
  /\ UNCHANGED <<mainVars, handle, owner, closes, late, severed>>

\* Fault: the handler serves its client to the end.
CheckIgnoringCancel(c) == CheckToken(c, FALSE)

\* while (bytesRecv > 0 && !data.Token.IsCanceled())
Check(c) == CheckToken(c, cancel)

\* The closing loop: Unsubscribe and delete each of clientSubs.
Cleanup(c) ==
  /\ pc[c] = "cleanup"
  /\ Goto(c, "close")
  /\ UNCHANGED <<mainVars, handle, owner, closes, late, severed>>

\* The closesocket at the end, on both ways out of the loop.
Close(c) ==
  /\ pc[c] = "close"
  /\ CloseSocket(c)
  /\ Goto(c, "gone")
  /\ UNCHANGED <<mainVars, handle, late>>

-----------------------------------------------------------------------------

MainStep == InitServer \/ ShutDown \/ Join \/ JoinsDone \/ CloseListener
HandlerStep(c) == Check(c) \/ Cleanup(c) \/ Close(c)

Next ==
  \/ MainStep
  \/ \E c \in Connections, h \in Handles : Accept(c, h) \/ AcceptInVain(c, h)
  \/ AcceptFails
  \/ PressKey
  \/ \E c \in Connections : HandlerStep(c)
  \/ \E c \in Connections : Receive(c)
  \/ \E c \in Connections : HangUp(c)

Spec == Init /\ [][Next]_vars

\* Threads run; but nothing makes a client connect, send or leave, nothing
\* makes accept fail, and nobody has to press a key.
FairSpec ==
  /\ Spec
  /\ WF_vars(MainStep)
  /\ \A c \in Connections : WF_vars(HandlerStep(c))

-----------------------------------------------------------------------------

Accepted == {threads[k] : k \in 1..Len(threads)}

(* Types.  A handler runs exactly for each accepted connection.             *)
TypeOK ==
  /\ logger \in BOOLEAN
  /\ main \in MainLocations
  /\ round \in 0..2
  /\ winsock \in BOOLEAN
  /\ cancel \in BOOLEAN
  /\ threads \in Seq(Connections)
  /\ joinable \subseteq Connections
  /\ next \in 1..Len(threads) + 1
  /\ pc \in [Connections -> HandlerLocations]
  /\ handle \in [Connections -> Handles \cup {NoHandle}]
  /\ owner \in [Handles -> Connections \cup {NoConnection}]
  /\ closes \in [Connections -> 0..2]
  /\ late \in [Connections -> Nat]
  /\ severed \subseteq Connections
  /\ \A c \in Connections : c \in Accepted <=> pc[c] # "none"

(* ShutDown takes the socket library down only when no handler can use it   *)
(* any more: Run's ShutDown waits for all of them, and none starts later.   *)
NoHandlerWithoutWinsock ==
  \A c \in Connections :
    ~winsock => pc[c] \in {"none", "gone"}

(* Once the token is cancelled a handler takes at most one more batch, the  *)
(* one its recv was already waiting for: the cancellation cannot interrupt  *)
(* recv, but it cannot be missed twice.                                     *)
OneBatchAfterCancel == \A c \in Connections : late[c] <= 1

(* While every handler has called closesocket at most once, each running    *)
(* handler's handle is its own client's connection and nobody has closed    *)
(* it.  Only the second closesocket of a handler whose client left can hit  *)
(* another connection.                                                      *)
OwnConnectionUntilDoubleClose ==
  (\A c \in Connections : closes[c] <= 1) =>
    /\ severed = {}
    /\ \A c \in Connections : pc[c] \in {"recv", "check"} => owner[handle[c]] = c

(* The destructor's ShutDown joins the same threads again: the program ends *)
(* normally only if it never had a client, and abnormally otherwise, or at  *)
(* once when a thread cannot be made.  A server without a logger never      *)
(* serves anybody and cannot end normally either.                           *)
EndsOnlyIfNeverUsed ==
  /\ main = "ended" => threads = <<>>
  /\ main = "terminated" => logger /\ (round = 0 \/ (round = 2 /\ threads # <<>>))
  /\ ~logger => threads = <<>> /\ main \notin {"ended", "terminated"}

(* Each of the two calls of ShutDown returns, unless some client keeps its  *)
(* handler in recv for ever: Run's call gets main() to wait for a key, and  *)
(* the destructor's, if there ever is one, ends the process in some way.    *)
ShutDownReturns ==
  (main = "shutdown") ~>
    (main = "pause" \/ ~Running \/ [](\E c \in Connections : pc[c] = "recv"))
=============================================================================
