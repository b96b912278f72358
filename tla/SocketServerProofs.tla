-------------------------- MODULE SocketServerProofs --------------------------
(***************************************************************************)
(* Proofs about SocketServer, for any clients and any handles.             *)
(***************************************************************************)
EXTENDS SocketServer, TLAPS

Down == {"none", "gone"}

\* How far the two ShutDowns and the closesocket calls have come.
Progress ==
  /\ main \in {"init", "accept"} => round = 0
  /\ main = "shutdown" => round \in 0..1
  /\ main = "pause" => round = 1
  /\ main \in {"join", "close"} => round \in 1..2
  /\ \A c \in Connections :
       /\ pc[c] # "none" => handle[c] \in Handles
       /\ pc[c] \in {"none", "recv", "check"} => closes[c] = 0
       /\ pc[c] \in {"cleanup", "close"} => closes[c] <= 1

TypeInv == TypeOK /\ Progress

\* The threads joined so far have returned, and in the end all have.
JoinedAreGone ==
  /\ main = "init" => \A c \in Connections : pc[c] = "none"
  /\ main = "join" => \A k \in 1..Len(threads) : k < next => pc[threads[k]] = "gone"
  /\ main = "close" => \A c \in Connections : pc[c] \in Down

WinsockInv == JoinedAreGone /\ NoHandlerWithoutWinsock

\* A handler's late batch is its last.
LastBatch ==
  \A c \in Connections :
    late[c] = 0 \/ (late[c] = 1 /\ cancel /\ pc[c] \in HandlerLocations \ {"none", "recv"})

\* Until a handle is closed twice it is its handler's as long as that has not
\* closed it.
OwnHandle ==
  (\A c \in Connections : closes[c] <= 1) =>
    /\ severed = {}
    /\ \A c \in Connections :
         pc[c] # "none" /\ closes[c] = 0 => owner[handle[c]] = c

HandlerAction(c) ==
  Check(c) \/ Cleanup(c) \/ Close(c) \/ Receive(c) \/ HangUp(c)

MainAction ==
  InitServer \/ ShutDown \/ Join \/ JoinsDone \/ CloseListener \/ AcceptFails \/ PressKey

LEMMA StepCases ==
  ASSUME [Next]_vars
  PROVE  \/ MainAction
         \/ \E c \in Connections, h \in Handles : Accept(c, h)
         \/ \E c \in Connections, h \in Handles : AcceptInVain(c, h)
         \/ \E c \in Connections : HandlerAction(c)
         \/ UNCHANGED vars
  BY DEF Next, MainStep, HandlerStep, MainAction, HandlerAction

-----------------------------------------------------------------------------

LEMMA InitType == Init => TypeInv
<1>. SUFFICES ASSUME Init PROVE TypeInv
  OBVIOUS
<1>1. /\ threads = <<>> /\ Len(threads) = 0 /\ next = 1
      /\ \A c \in Connections : pc[c] = "none" /\ closes[c] = 0
  BY DEF Init
<1>2. Accepted = {}
  BY <1>1 DEF Accepted
<1>3. logger \in BOOLEAN /\ winsock \in BOOLEAN /\ cancel \in BOOLEAN
  BY ZenonT(20) DEF Init
<1>4. /\ main \in MainLocations /\ round \in 0..2
      /\ threads \in Seq(Connections) /\ next \in 1..Len(threads) + 1
      /\ joinable \subseteq Connections /\ severed \subseteq Connections
  BY <1>1 DEF Init, MainLocations
<1>5. /\ pc \in [Connections -> HandlerLocations]
      /\ handle \in [Connections -> Handles \cup {NoHandle}]
      /\ owner \in [Handles -> Connections \cup {NoConnection}]
      /\ closes \in [Connections -> 0..2]
      /\ late \in [Connections -> Nat]
  BY DEF Init, HandlerLocations
<1>6. TypeOK
  BY <1>1, <1>2, <1>3, <1>4, <1>5 DEF TypeOK
<1>7. Progress
  BY <1>1 DEF Init, Progress
<1>. QED
  BY <1>6, <1>7 DEF TypeInv

LEMMA NextType == TypeInv /\ [Next]_vars => TypeInv'
<1>. SUFFICES ASSUME TypeInv, [Next]_vars
              PROVE  TypeInv'
  OBVIOUS
<1>. USE DEF TypeInv, TypeOK, Progress, MainLocations, HandlerLocations
<1>1. CASE MainAction
  <2>1. UNCHANGED handlerVars /\ UNCHANGED threads
    BY <1>1 DEF MainAction, InitServer, ShutDown, BeginShutDown, Join, JoinsDone, JoinsDoneAt, PressKey,
                CloseListener, AcceptFails, vars
  <2>2. Accepted' = Accepted
    BY <2>1 DEF Accepted
  <2>3. /\ main' \in MainLocations /\ round' \in 0..2 /\ logger' = logger
        /\ joinable' \subseteq Connections
    BY <1>1 DEF MainAction, InitServer, ShutDown, BeginShutDown, Join, JoinsDone, JoinsDoneAt, PressKey,
                CloseListener, AcceptFails
  <2>4. winsock' \in BOOLEAN /\ cancel' \in BOOLEAN
    BY <1>1, ZenonT(20) DEF MainAction, InitServer, ShutDown, BeginShutDown, Join, JoinsDone, JoinsDoneAt, PressKey,
                CloseListener, AcceptFails
  <2>5. next' \in 1..Len(threads) + 1
    <3>1. Len(threads) \in Nat
      OBVIOUS
    <3>. QED
      BY <1>1, <3>1 DEF MainAction, InitServer, ShutDown, BeginShutDown, Join, JoinsDone, JoinsDoneAt, PressKey,
                        CloseListener, AcceptFails
  <2>6. /\ main' \in {"init", "accept"} => round' = 0
        /\ main' = "shutdown" => round' \in 0..1
        /\ main' = "pause" => round' = 1
        /\ main' \in {"join", "close"} => round' \in 1..2
    BY <1>1 DEF MainAction, InitServer, ShutDown, BeginShutDown, Join, JoinsDone, JoinsDoneAt, PressKey,
                CloseListener, AcceptFails
  <2>7. TypeOK'
    BY <2>1, <2>2, <2>3, <2>4, <2>5 DEF handlerVars
  <2>8. Progress'
    BY <2>1, <2>6 DEF handlerVars
  <2>. QED
    BY <2>7, <2>8
<1>2. ASSUME NEW c \in Connections, NEW h \in Handles, Accept(c, h)
      PROVE  TypeInv'
  <2>1. threads' = Append(threads, c) /\ threads' \in Seq(Connections)
        /\ Len(threads') = Len(threads) + 1
    BY <1>2 DEF Accept, Keep
  <2>2. Accepted' = Accepted \cup {c}
    BY <2>1 DEF Accepted
  <2>3. \A x \in Connections : x \in Accepted' <=> pc'[x] # "none"
    BY <1>2, <2>2 DEF Accept, Start
  <2>. QED
    BY <1>2, <2>1, <2>3 DEF Accept, Start, Arrives, Keep
<1>3. ASSUME NEW c \in Connections, NEW h \in Handles, AcceptInVain(c, h)
      PROVE  TypeInv'
  BY <1>3 DEF AcceptInVain, Arrives, Accepted, handlerVars
<1>4. ASSUME NEW c \in Connections, HandlerAction(c)
      PROVE  TypeInv'
  <2>1. UNCHANGED mainVars /\ Accepted' = Accepted /\ UNCHANGED handle
    BY <1>4 DEF HandlerAction, Check, CheckToken, Cleanup, Close, Receive, HangUp, mainVars,
                Accepted
  <2>2. CASE Check(c) \/ Cleanup(c) \/ Receive(c)
    <3>1. UNCHANGED <<owner, closes, severed>> /\ late' \in [Connections -> Nat]
      BY <2>2 DEF Check, CheckToken, Cleanup, Receive
    <3>2. \E l \in {"recv", "check", "cleanup", "close"} :
            /\ pc' = [pc EXCEPT ![c] = l]
            /\ pc[c] # "none" /\ (l \in {"recv", "check"} => pc[c] \in {"recv", "check"})
            /\ pc[c] \in {"recv", "check", "cleanup"}
      BY <2>2 DEF Check, CheckToken, Cleanup, Receive, Goto
    <3>. QED
      BY <2>1, <3>1, <3>2 DEF mainVars
  <2>3. CASE Close(c) \/ HangUp(c)
    <3>1. /\ closes' = [closes EXCEPT ![c] = @ + 1] /\ closes[c] <= 1
          /\ handle[c] \in Handles
      BY <2>3 DEF Close, HangUp, CloseSocket
    <3>2. owner' = [owner EXCEPT ![handle[c]] = NoConnection]
          /\ severed' \subseteq Connections
      BY <2>3, <3>1 DEF Close, HangUp, CloseSocket
    <3>3. /\ late' = late
          /\ \/ pc' = [pc EXCEPT ![c] = "cleanup"] /\ pc[c] = "recv"
             \/ pc' = [pc EXCEPT ![c] = "gone"] /\ pc[c] = "close"
      BY <2>3 DEF Close, HangUp, Goto
    <3>4. closes' \in [Connections -> 0..2]
      BY <3>1
    <3>5. owner' \in [Handles -> Connections \cup {NoConnection}]
      BY <3>2
    <3>6. TypeOK'
      BY <2>1, <3>2, <3>3, <3>4, <3>5 DEF mainVars
    <3>7. Progress'
      BY <2>1, <3>1, <3>3 DEF mainVars
    <3>. QED
      BY <3>6, <3>7
  <2>. QED
    BY <1>4, <2>2, <2>3 DEF HandlerAction
<1>5. CASE UNCHANGED vars
  BY <1>5 DEF vars, Accepted
<1>. QED
  BY <1>1, <1>2, <1>3, <1>4, <1>5, StepCases

(* The types hold: no handler closes its handle more than twice, and the    *)
(* handlers are those of the accepted connections.                          *)
THEOREM TypeCorrect == Spec => []TypeOK
<1>1. TypeInv => TypeOK
  BY DEF TypeInv
<1>. QED
  BY <1>1, InitType, NextType, PTL DEF Spec

LEMMA TypeInvHolds == Spec => []TypeInv
  BY InitType, NextType, PTL DEF Spec

-----------------------------------------------------------------------------

LEMMA NextWinsock == TypeInv /\ WinsockInv /\ [Next]_vars => WinsockInv'
<1>. SUFFICES ASSUME TypeInv, WinsockInv, [Next]_vars
              PROVE  WinsockInv'
  OBVIOUS
<1>. USE DEF WinsockInv, JoinedAreGone, NoHandlerWithoutWinsock, Down
<1>types. /\ threads \in Seq(Connections) /\ next \in 1..Len(threads) + 1
          /\ Len(threads) \in Nat
          /\ \A c \in Connections : c \in Accepted <=> pc[c] # "none"
          /\ pc \in [Connections -> HandlerLocations]
  BY DEF TypeInv, TypeOK
<1>1. CASE InitServer
  BY <1>1 DEF InitServer, handlerVars
<1>2. CASE ShutDown
  BY <1>2, <1>types DEF ShutDown, BeginShutDown, handlerVars
<1>3. CASE Join
  BY <1>3, <1>types DEF Join, handlerVars
<1>4. CASE JoinsDone
  <2>1. \A k \in 1..Len(threads) : pc[threads[k]] = "gone"
    BY <1>4, <1>types DEF JoinsDone, JoinsDoneAt
  <2>2. \A c \in Connections : c \in Accepted => pc[c] = "gone"
    BY <2>1 DEF Accepted
  <2>. QED
    BY <1>4, <1>types, <2>2 DEF JoinsDone, JoinsDoneAt, handlerVars
<1>5. CASE CloseListener
  BY <1>5 DEF CloseListener, handlerVars
<1>6. CASE AcceptFails
  BY <1>6 DEF AcceptFails, handlerVars
<1>key. CASE PressKey
  BY <1>key DEF PressKey, handlerVars
<1>7. ASSUME NEW c \in Connections, NEW h \in Handles, Accept(c, h)
      PROVE  WinsockInv'
  BY <1>7 DEF Accept, Start, Arrives
<1>8. ASSUME NEW c \in Connections, NEW h \in Handles, AcceptInVain(c, h)
      PROVE  WinsockInv'
  BY <1>8 DEF AcceptInVain, Arrives, handlerVars
<1>9. ASSUME NEW c \in Connections, HandlerAction(c)
      PROVE  WinsockInv'
  <2>1. \E l \in HandlerLocations : pc' = [pc EXCEPT ![c] = l]
    BY <1>9 DEF HandlerAction, Check, CheckToken, Cleanup, Close, Receive, HangUp, Goto,
                HandlerLocations
  <2>2. pc[c] \notin Down /\ UNCHANGED mainVars
    BY <1>9 DEF HandlerAction, Check, CheckToken, Cleanup, Close, Receive, HangUp
  <2>3. \A k \in 1..Len(threads) : threads[k] \in Connections
    BY <1>types
  <2>. QED
    BY <1>types, <2>1, <2>2, <2>3 DEF mainVars
<1>10. CASE UNCHANGED vars
  BY <1>10 DEF vars
<1>. QED
  BY <1>1, <1>2, <1>3, <1>4, <1>5, <1>6, <1>key, <1>7, <1>8, <1>9, <1>10, StepCases DEF MainAction

(* No handler uses the socket library while it is down, in either ShutDown. *)
THEOREM WinsockOutlivesHandlers == Spec => []NoHandlerWithoutWinsock
<1>1. Init => WinsockInv
  BY DEF Init, WinsockInv, JoinedAreGone, NoHandlerWithoutWinsock
<1>2. WinsockInv => NoHandlerWithoutWinsock
  BY DEF WinsockInv
<1>. QED
  BY <1>1, <1>2, NextWinsock, TypeInvHolds, PTL DEF Spec

-----------------------------------------------------------------------------

LEMMA NextLast == TypeInv /\ LastBatch /\ [Next]_vars => LastBatch'
<1>. SUFFICES ASSUME TypeInv, LastBatch, [Next]_vars
              PROVE  LastBatch'
  OBVIOUS
<1>. USE DEF LastBatch, HandlerLocations
<1>types. pc \in [Connections -> HandlerLocations] /\ late \in [Connections -> Nat]
  BY DEF TypeInv, TypeOK
<1>1. CASE MainAction
  BY <1>1 DEF MainAction, InitServer, ShutDown, BeginShutDown, Join, JoinsDone, JoinsDoneAt, PressKey,
              CloseListener, AcceptFails, handlerVars
<1>2. ASSUME NEW c \in Connections, NEW h \in Handles, Accept(c, h)
      PROVE  LastBatch'
  BY <1>2, <1>types DEF Accept, Start, Arrives
<1>3. ASSUME NEW c \in Connections, NEW h \in Handles, AcceptInVain(c, h)
      PROVE  LastBatch'
  BY <1>3 DEF AcceptInVain, handlerVars
<1>4. ASSUME NEW c \in Connections, Receive(c)
      PROVE  LastBatch'
  BY <1>4, <1>types DEF Receive, Goto, mainVars
<1>5. ASSUME NEW c \in Connections, Check(c) \/ Cleanup(c) \/ Close(c) \/ HangUp(c)
      PROVE  LastBatch'
  BY <1>5, <1>types DEF Check, CheckToken, Cleanup, Close, HangUp, Goto, mainVars
<1>6. CASE UNCHANGED vars
  BY <1>6 DEF vars
<1>. QED
  BY <1>1, <1>2, <1>3, <1>4, <1>5, <1>6, StepCases DEF HandlerAction

(* The cancellation is not missed twice.                                    *)
THEOREM StopsAfterOneBatch == Spec => []OneBatchAfterCancel
<1>1. Init => LastBatch
  BY DEF Init, LastBatch
<1>2. LastBatch => OneBatchAfterCancel
  BY DEF LastBatch, OneBatchAfterCancel
<1>. QED
  BY <1>1, <1>2, NextLast, TypeInvHolds, PTL DEF Spec

-----------------------------------------------------------------------------

LEMMA NextOwn == TypeInv /\ OwnHandle /\ [Next]_vars => OwnHandle'
<1>. SUFFICES ASSUME TypeInv, OwnHandle, [Next]_vars,
                     \A c \in Connections : closes'[c] <= 1
              PROVE  /\ severed' = {}
                     /\ \A c \in Connections :
                          pc'[c] # "none" /\ closes'[c] = 0 => owner'[handle'[c]] = c
  BY DEF OwnHandle
<1>types. /\ pc \in [Connections -> HandlerLocations]
          /\ handle \in [Connections -> Handles \cup {NoHandle}]
          /\ owner \in [Handles -> Connections \cup {NoConnection}]
          /\ closes \in [Connections -> 0..2]
          /\ \A c \in Connections : pc[c] # "none" => handle[c] \in Handles
  BY DEF TypeInv, TypeOK, Progress
<1>own. ASSUME \A c \in Connections : closes[c] <= 1
        PROVE  /\ severed = {}
               /\ \A c \in Connections :
                    pc[c] # "none" /\ closes[c] = 0 => owner[handle[c]] = c
  BY <1>own DEF OwnHandle
<1>1. CASE MainAction \/ \E c \in Connections, h \in Handles : AcceptInVain(c, h)
  <2>1. UNCHANGED handlerVars
    BY <1>1 DEF MainAction, InitServer, ShutDown, BeginShutDown, Join, JoinsDone, JoinsDoneAt, PressKey,
                CloseListener, AcceptFails, AcceptInVain
  <2>. QED
    BY <1>own, <2>1 DEF handlerVars
<1>2. ASSUME NEW c \in Connections, NEW h \in Handles, Accept(c, h)
      PROVE  /\ severed' = {}
             /\ \A x \in Connections :
                  pc'[x] # "none" /\ closes'[x] = 0 => owner'[handle'[x]] = x
  <2>1. /\ owner[h] = NoConnection /\ owner' = [owner EXCEPT ![h] = c]
        /\ pc' = [pc EXCEPT ![c] = "recv"] /\ handle' = [handle EXCEPT ![c] = h]
        /\ closes' = closes /\ severed' = severed
    BY <1>2 DEF Accept, Start, Arrives
  <2>. QED
    BY <1>types, <1>own, <2>1, NoConnectionNotConnection
<1>3. ASSUME NEW c \in Connections, Check(c) \/ Cleanup(c) \/ Receive(c)
      PROVE  /\ severed' = {}
             /\ \A x \in Connections :
                  pc'[x] # "none" /\ closes'[x] = 0 => owner'[handle'[x]] = x
  <2>1. /\ UNCHANGED <<handle, owner, closes, severed>>
        /\ pc[c] # "none" /\ \E l \in HandlerLocations : pc' = [pc EXCEPT ![c] = l]
    BY <1>3 DEF Check, CheckToken, Cleanup, Receive, Goto, HandlerLocations
  <2>. QED
    BY <1>types, <1>own, <2>1
<1>4. ASSUME NEW c \in Connections, HangUp(c) \/ Close(c)
      PROVE  /\ severed' = {}
             /\ \A x \in Connections :
                  pc'[x] # "none" /\ closes'[x] = 0 => owner'[handle'[x]] = x
  <2>1. /\ pc[c] # "none" /\ handle[c] \in Handles /\ handle' = handle
        /\ \E l \in HandlerLocations : pc' = [pc EXCEPT ![c] = l]
        /\ owner' = [owner EXCEPT ![handle[c]] = NoConnection]
        /\ severed' = severed \cup ({owner[handle[c]]} \ {c, NoConnection})
        /\ closes' = [closes EXCEPT ![c] = @ + 1]
    BY <1>4, <1>types DEF HangUp, Close, CloseSocket, Goto, HandlerLocations
  <2>2. closes[c] = 0 /\ closes'[c] = 1
    BY <1>types, <2>1
  <2>3. \A x \in Connections : closes[x] <= 1
    BY <1>types, <2>1, <2>2
  <2>4. owner[handle[c]] = c
    BY <1>own, <2>1, <2>2, <2>3
  <2>. QED
    BY <1>types, <1>own, <2>1, <2>2, <2>3, <2>4
<1>5. CASE UNCHANGED vars
  BY <1>own, <1>5 DEF vars
<1>. QED
  BY <1>1, <1>2, <1>3, <1>4, <1>5, StepCases DEF HandlerAction

(* Only a second closesocket can hit a connection that is not the           *)
(* handler's own.                                                           *)
THEOREM OwnUntilDoubleClose == Spec => []OwnConnectionUntilDoubleClose
<1>1. Init => OwnHandle
  BY DEF Init, OwnHandle
<1>2. TypeInv /\ OwnHandle => OwnConnectionUntilDoubleClose
  BY DEF OwnHandle, OwnConnectionUntilDoubleClose, TypeInv, Progress
<1>. QED
  BY <1>1, <1>2, NextOwn, TypeInvHolds, PTL DEF Spec

-----------------------------------------------------------------------------

\* The first ShutDown finds every thread joinable once, the second none.
JoinableOnce ==
  /\ \A j, k \in 1..Len(threads) : threads[j] = threads[k] => j = k
  /\ main \in {"init", "accept"} \/ (main = "shutdown" /\ round = 0) =>
       \A k \in 1..Len(threads) : threads[k] \in joinable
  /\ main = "join" /\ round = 1 =>
       \A k \in 1..Len(threads) : threads[k] \in joinable <=> k >= next
  /\ round = 2 \/ (round = 1 /\ main \in {"close", "pause", "shutdown"}) =>
       \A k \in 1..Len(threads) : threads[k] \notin joinable
  /\ main = "join" /\ round = 2 => next = 1
  /\ main = "close" /\ round = 2 => threads = <<>>
  /\ main = "init" => threads = <<>>
  /\ ~logger /\ main = "shutdown" => round = 0
  /\ main = "pause" => logger

EndInv == JoinableOnce /\ EndsOnlyIfNeverUsed

LEMMA NextEnd == TypeInv /\ EndInv /\ [Next]_vars => EndInv'
<1>. SUFFICES ASSUME TypeInv, EndInv, [Next]_vars
              PROVE  EndInv'
  OBVIOUS
<1>. USE DEF EndInv, JoinableOnce, EndsOnlyIfNeverUsed
<1>types. /\ threads \in Seq(Connections) /\ next \in 1..Len(threads) + 1
          /\ Len(threads) \in Nat /\ round \in 0..2
          /\ \A c \in Connections : c \in Accepted <=> pc[c] # "none"
          /\ main \in {"join", "close"} => round \in 1..2
          /\ main \in {"init", "accept"} => round = 0
          /\ main = "shutdown" => round \in 0..1
          /\ main = "pause" => round = 1
  BY DEF TypeInv, TypeOK, Progress
<1>1. CASE InitServer
  BY <1>1, <1>types DEF InitServer
<1>2. CASE ShutDown
  BY <1>2, <1>types DEF ShutDown, BeginShutDown
<1>3. CASE Join
  <2>1. next \in 1..Len(threads) /\ main = "join" /\ UNCHANGED <<logger, round, threads>>
    BY <1>3, <1>types DEF Join
  <2>2. CASE round = 1
    BY <1>3, <1>types, <2>1, <2>2 DEF Join
  <2>3. CASE round = 2
    BY <1>3, <1>types, <2>1, <2>3 DEF Join
  <2>. QED
    BY <1>types, <2>1, <2>2, <2>3
<1>4. CASE JoinsDone
  BY <1>4, <1>types DEF JoinsDone, JoinsDoneAt
<1>5. CASE CloseListener
  BY <1>5, <1>types DEF CloseListener
<1>6. CASE AcceptFails
  BY <1>6, <1>types DEF AcceptFails
<1>key. CASE PressKey
  BY <1>key, <1>types DEF PressKey
<1>7. ASSUME NEW c \in Connections, NEW h \in Handles, Accept(c, h)
      PROVE  EndInv'
  <2>1. /\ threads' = Append(threads, c) /\ Len(threads') = Len(threads) + 1
        /\ \A k \in 1..Len(threads) : threads'[k] = threads[k]
        /\ threads'[Len(threads) + 1] = c
    BY <1>7, <1>types DEF Accept, Keep
  <2>2. \A k \in 1..Len(threads) : threads[k] # c
    BY <1>7, <1>types DEF Accept, Start, Arrives, Accepted
  <2>3. /\ main = "accept" /\ logger /\ joinable' = joinable \cup {c}
        /\ UNCHANGED <<logger, main, round, next>>
    BY <1>7 DEF Accept, Start, Arrives, Keep
  <2>. QED
    BY <1>types, <2>1, <2>2, <2>3
<1>8. ASSUME NEW c \in Connections, NEW h \in Handles, AcceptInVain(c, h)
      PROVE  EndInv'
  BY <1>8, <1>types DEF AcceptInVain, Arrives
<1>9. ASSUME NEW c \in Connections, HandlerAction(c)
      PROVE  EndInv'
  BY <1>9 DEF HandlerAction, Check, CheckToken, Cleanup, Close, Receive, HangUp, mainVars
<1>10. CASE UNCHANGED vars
  BY <1>10 DEF vars
<1>. QED
  BY <1>1, <1>2, <1>3, <1>4, <1>5, <1>6, <1>key, <1>7, <1>8, <1>9, <1>10, StepCases DEF MainAction

(* A server that has had a client, or has no logger, does not end normally. *)
THEOREM EndsInTerminate == Spec => []EndsOnlyIfNeverUsed
<1>1. Init => EndInv
  BY DEF Init, EndInv, JoinableOnce, EndsOnlyIfNeverUsed
<1>2. EndInv => EndsOnlyIfNeverUsed
  BY DEF EndInv
<1>. QED
  BY <1>1, <1>2, NextEnd, TypeInvHolds, PTL DEF Spec
=============================================================================
