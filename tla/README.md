# Verification of the publish/subscribe broker

TLA+ models of the program in `src/PubSub`, checked with TLC, and proofs about
them checked with TLAPS. The program is a TCP server (Windows sockets) to which
clients subscribe and publish by topic; one broker object distributes the
messages with a pool of 1000 threads. Its own code is about 850 lines of C++;
protobuf, rapidjson and spdlog are vendored, `Message.pb.*` is generated.

## 1. Inventory

| Part | Source | State | Operations |
|---|---|---|---|
| Message queue, dispatcher pool | `Broker.cpp` | `m_messageQueue`, `m_queueMutex`, `m_condition`, `m_cancelationToken`; per thread its program counter and local `message` | `EnqueueMessage`, `dispatcher_task`, constructor, destructor |
| Topic registry | `Broker.cpp` | `m_topics`, `m_topicMutex` | `AddSubscription`, `Unsubscribe`, the dispatchers' lookup |
| Topic | `Topic.cpp` | `m_subscribers`, `m_subs` | `AddSubscriber`, `Remove`, `GetSubCount`, `GetSubscribers` |
| Singleton | `Broker.cpp` | `m_instance` | `getInstance` |
| Cancelation token | `CancelationToken.cpp` | `m_cancel` and a mutex | `Cancel`, `IsCanceled`, `Reset` (never called) |
| Server | `SocketServer.cpp`, `main.cpp` | listening socket, `m_fileLogger`, `m_connectionHandlers`, `m_token`; per handler its socket and `clientSubs` | `Init`, `Run`, `handleConnection`, `ShutDown` (from `Run` and from the destructor) |
| Framing | `SocketServer.cpp:132-161` | the receive buffer | split of the received bytes into messages |
| Message codec | `Message.proto`, generated code | none | parse and serialise |
| NetSubscriber | `NetSubscriber.cpp` | the client's socket handle | `OnReceive` (blocking `send`) |
| Publisher, NetPublisher | `Publisher.cpp`, `NetPublisher.cpp` | none | `Publish` (calls `EnqueueMessage`); no instance is ever made |
| CRC32 | `Algorithm.cpp` | none | pure function; never called |

How they interact. `main` runs the accept loop. Each connection has a handler
thread, which cuts what it receives into messages and parses them. For a
SUBSCRIBE message it creates a `NetSubscriber` and calls `AddSubscription`; for
a PUBLISH message it calls `EnqueueMessage`. Dispatchers take messages from the
queue, look up the topic and call each subscriber's `OnReceive` with no lock
held, which sends on the socket handle the subscriber was made with. When a
client leaves, its handler unsubscribes and deletes its subscribers. Shared
state: the queue (`m_queueMutex`), the map of topics (`m_topicMutex`), each
topic's list (`m_subs`, not held while a dispatcher indexes the vector), the
two tokens (a mutex each), `m_instance` (no lock), and the system's table of
socket handles.

What is hard here: a notification after the unlock; a predicate that reads two
things under two mutexes; a check and an act in two critical sections; an index
checked under a lock and used without it; pointers used after their object was
deleted; socket handles used after they were closed; a pool whose threads can
die; a destructor that must drain the queue, and a shutdown that runs twice; a
first call that may be made several times at once; messages cut out of a byte
stream that does not say where they end. There are no tests and almost no
comments in the repository, so what the program is meant to do is taken from
its code. `PROJECT.json` lists each hazard at its line with the properties
aimed at it.

## 2. Modules

| Module | Models |
|---|---|
| `DispatchQueue` | `EnqueueMessage`, `dispatcher_task` and `~Broker`, one step per stretch of code between two points where another thread can interfere |
| `WorkQueue` | what the queue and pool promise: an atomic FIFO work queue; implemented by `DispatchQueue` (`PoolSpec`) |
| `SubscriberList` | one topic's vector with its buffer, and dispatchers indexing it without the lock |
| `FanOut` | what the walk over subscribers promises, over sets; implemented by `SubscriberList` (`FanOutSpec`) |
| `TopicRegistry` | `AddSubscription`'s two critical sections, `Unsubscribe`, and the handlers' life as far as subscriptions go |
| `SocketServer` | main thread, handlers, socket handles, both calls of `ShutDown` and the pause between them, the logger |
| `PubSubSystem` | the whole server: `SocketServer`, `TopicRegistry`, `WorkQueue` and `FanOut` composed, and `NetSubscriber::OnReceive` |
| `MessageCodec` | the wire format of `Message`, on bytes |
| `Framing` | from `recv` to the broker calls, on bytes |
| `BrokerInstance` | `getInstance` and which broker a call reaches |
| `Crc32` | the two loops of `Algorithm::CRC32` |
| `MC...` | instances for TLC: symmetry of the model values, sets of bytes and messages |
| `DispatchQueueProofs`, `SubscriberListProofs`, `TopicRegistryProofs`, `SocketServerProofs`, `PubSubSystemProofs`, `FramingProofs`, `BrokerInstanceProofs`, `Crc32Proofs` | the proofs |

State and actions carry the names of the code where they have one; the comment
before each action quotes the statement it stands for, and `PROJECT.json`'s
`map` gives its lines. Operators commented "Fault:" are not part of any
specification: each is an action with a plausible mistake in it, kept to
show that a property notices that mistake. What an action and its faulty
variant have in common is a definition of its own above them.

`DispatchQueue`. `holder` is the dispatcher inside the critical section. A
publisher's critical section is one step, because it touches nothing else that
is shared. The predicate of `wait` is two steps (`Lock` reads the
token, `Test` reads the queue), since `~Broker` can cancel in between. Blocking
and releasing the mutex are one step, as a condition variable guarantees.
`SpuriousWakeup` is possible at any time. `Deliver` is the whole fan-out.
Messages are a number and a topic; `sent`, `promised`, `delivered` and `dropped` are
history variables.

`SubscriberList`. The vector is its initialised slots, its size and capacity,
and the number of its buffer. `Remove` shifts the slots and leaves the last one
as it was; an append to a full vector moves it to a new buffer of any size up to
twice the old. A dispatcher loads the buffer's address, then the slot; from a
buffer that has been left in between it gets `Garbage`. A build with checked
iterators, or a call through a bad pointer, may instead stop the process: that
is a behaviour that takes no more steps. `FanOut` knows a set of
subscribers, whom a walker has called and how many have left; its walks end when
no more remain uncalled than have left, and after a read of a freed buffer
(`wild`) it promises nothing about that walk.

`TopicRegistry`. `Subscribe` is the lookup under the lock, `AppendToFound` and
`Insert` are what follows. A lost subscription, whose `insert` found the key
present, goes to the history variable `lost`. `Unsubscribe` is one step: it holds
`m_topicMutex` throughout, and the appends that need only `m_subs` concern
other subscribers.

`SocketServer`. `owner` is the connection behind each handle. `closesocket`
frees whatever is behind the handle at that moment. `accept` may return any free
handle, and may fail at any time. A logger that could not be made is null; the
first line logged through it ends the process, and so does a `std::thread` that
cannot be made (`AcceptInVain`). After `Run` the main thread waits in `system("pause")`
until somebody presses a key (`PressKey`); only then does the destructor call `ShutDown`
again.

`PubSubSystem` has no state of its own but four history variables: who was listed
(`audience`) and who had been made (`older`) when each message was published, who was
made since each deleted subscriber was deleted (`heirs`), and what was sent
(`received`): which message, through whose pointer, to which subscriber, on which
connection. An action of
several components is the conjunction of theirs: a handler that receives
SUBSCRIBE does `SocketServer`'s `Receive` and `TopicRegistry`'s `Subscribe`; a
change of a list is `TopicRegistry`'s action and `FanOut`'s `Observe`; `OnReceive`
is `FanOut`'s `Call` and a send to whatever connection is behind the handle by
then. The queue and the walks are used as their abstract specifications
describe them, which is what `PoolSpec` and `FanOutSpec` justify, with two
restrictions: lists do not move in memory under a walk, so that reads of freed
buffers are left out, and a batch is one message. A call through the pointer of
a deleted subscriber finds what was there, or a living subscriber made since, which
the allocator may have given the memory (`Reached`); that one is then what the message
was sent to.

`MessageCodec` and `Framing`. `Parse` reads fields as the generated
`MergePartialFromCodedStream` does, keeps what it has when a field is cut off,
and ignores whether it succeeded, as the handler does. `Receive` overwrites the
front of the buffer only: behind it lie stack contents or the bytes of an earlier
round. It may return any number of the bytes that the client has sent. The
buffer is taken to be followed by a zero byte. Conversion to C strings, the search,
`substr` and the two loops are modelled byte by byte and offset by offset,
since what they do wrong is a matter of single bytes.

`BrokerInstance`. The test of `m_instance`, the assignment and the read for the
return are three steps. Brokers are numbered; `listed` says which subscriber which
broker has. `racers` and `settled` are history variables.

`Crc32`. A word is the set of its one bits; a turn of each loop is a step.

## 3. Runs

| Run | Instance | Checks |
|---|---|---|
| `dq_pool` | 3 dispatchers, 2 publishers, 2 topics, 3 messages, no destructor | types, no lost wake-up, exactly-once processing, one death per discarded message, messages on subscribed topics never discarded |
| `dq_live` | 2 dispatchers, 2 publishers, 1 topic, 3 messages | queued messages are taken; overtaking bounded by the pool; refinement of `WorkQueue` |
| `dq_shutdown` | 2 dispatchers, 1 publisher, 1 topic, 2 messages, destructor | no pop from an empty queue, also when the token is cancelled between its two readings; queue drained at the join; the destructor returns |
| `sl_fanout` | 1 dispatcher, 4 subscribers | reads of initialised slots only, at most one call per subscriber and message, staleness within one iteration, misses bounded by removals; refinement of `FanOut` |
| `tr_handlers` | 3 handlers, 2 topics, 4 subscribers | nothing deleted in a list, loss bounded, nothing left behind |
| `ss_server` | 3 clients, 3 handles | library used only while it is up, one batch after the cancellation, own connection until a double close, how the program ends; both calls of `ShutDown` return |
| `ps_system` | 2 clients, 2 handles, 2 topics, 2 subscribers, 2 dispatchers, 1 message | a served client gets what is sent for it, and of its topic, with one exception; nobody is left out while nobody leaves |
| `ps_walks` | 2 clients, 1 handle, 1 topic, 3 subscribers, 2 dispatchers, 1 message | no message is sent to a subscriber twice, with one exception |
| `ps_live` | 1 client, 1 topic, 1 subscriber, 2 dispatchers, 3 messages | messages are delivered in the end |
| `fr_batches` | up to 3 of 5 kinds of message in up to 2 portions, 3 fills, a buffer of 36 bytes | the split loses and repeats nothing and stays inside the string; which messages are understood, alone and together |
| `bi_race` | 3 handlers | one broker per handler that found none, later calls agree, no deleted subscriber in the broker in use |
| `crc_loop` | buffers of up to 3 of 6 chars | the loop against long division of polynomials |

Why the bounds are enough. Three dispatchers give one that sleeps, one that is
on its way and one that is dying or busy; two publishers give two notifications
under way; more messages than dispatchers make the queue outlast the pool. In
`SubscriberList` dispatchers only read, so one is as good as many; four subscribers
make the vector grow twice (1, 2, then 3 or 4) and shrink before, between and
after. In `TopicRegistry` three handlers can all be between lookup and insert of
one topic. In `SocketServer` a free handle may be used again at once, so that a
client's connection can be hit by another one's second close while a third one goes on. In `ps_system` the
second client may get the first one's handle while the first one's subscription is still
listed, and its first subscriber may get the memory of the other client's deleted one while a dispatcher holds
that one's pointer. A message is sent to a subscriber twice only if one is deleted under the walk, another is
listed with it, and a third gets the first one's memory: `ps_walks` has these three, the two clients it takes,
and a second dispatcher that could take the same message; two messages do not fit.
`ps_live` has more messages than dispatchers, so that unknown topics
can use up the pool before the last message, and blocked sends can hold it. In
`fr_batches` the messages are long enough to be split off (two) and too short
(one whose JSON has two bytes and one whose length is the delimiter), one has that length and no
topic, the fills are a
zero, a byte above 127 and the delimiter itself, and the second `recv` meets what the
first left behind; messages longer than 127 bytes are excluded, so that lengths
take one byte. Three handlers in `BrokerInstance` make a broker that is replaced
while a third one still tests. In `crc_loop` a third char finds the sign bits of the
first two in every part of the register. Deadlock is not checked: every bounded
instance ends, and a pool whose threads have all died, or a server that has
terminated, stops for good.

What the runs show about the program as it is:

* Notifying after the unlock loses no wake-up, one `notify_one` per push being
  enough (`WakeCoverage`).
* Dispatchers may finish messages of one topic in another order than they were
  published in; fewer than there are dispatchers (1000) are overtaken by
  one (`OvertakingBounded`).
* A message on a topic that nobody ever subscribed to costs a dispatcher
  (`DeathPerDrop`); once all have gone, messages stay queued, which is the
  exception in `EventuallyTaken` and in `DrainedAtJoin`.
* `~Broker` can sleep for ever if a dispatcher has read the token before
  `Cancel()` and blocks after `notify_all()`; `JoinReturns` holds outside
  that window, which its premise `NotifiedInTime` states. The shipped program never
  deletes the broker.
* A walking dispatcher never reads an uninitialised slot of the current buffer
  (`ReadsInitialised`), never calls a subscriber twice for a message, and
  misses at most one remaining subscriber for each that leaves during its
  walk (`MissesBoundedByRemovals`). It can call one that has been deleted, but only one that unsubscribed
  after the iteration's `GetSubCount()` (`CallsOnceAndRecent`); and it can read a freed buffer, if the
  vector is reallocated between two loads.
* Of several handlers that create a topic at once all but one lose their
  subscription, silently; a handler loses at most one per topic (`LossBounded`).
* Handlers that make the first broker call at once make a broker each. What
  goes to any but the last is lost, and a subscriber listed in a lost one is deleted
  without being taken out of its list. That ends with the race:
  calls that begin afterwards agree on the broker (`SettledCallsAgree`), and it
  never lists a deleted subscriber (`CurrentListsLiving`).
* A handler whose client has left closes its handle twice, and the second
  time it may close another client's connection, whose handler then reads from and
  closes handles that are not its own. Until some handler has closed twice this
  cannot happen (`OwnConnectionUntilDoubleClose`).
* Between the first close and `Unsubscribe` a message for the client that has left
  may go to the client that has its handle by then.
* A subscriber made in the memory of a deleted one, whose pointer a dispatcher still
  holds, is sent the message that dispatcher has in hand, of whatever topic; and the same message once
  more if it is of the same topic and the walk gets to it. The message was then published before that
  subscriber was made. Nothing else brings a subscriber a message twice
  (`SentOnce`); and nothing else brings a served client's subscriber a message of a topic it
  did not ask for, or one for it to another client, before a handle is closed
  twice (`ServedClientGetsItsOwn`).
* The destructor's `ShutDown`, after the pause, joins the handlers a second time, so a server that
  has had a client ends in `std::terminate`; one without a logger ends at its first
  client or in `ShutDown` (`EndsOnlyIfNeverUsed`).
* The splitting loop always ends, inside the string, and its pieces are the string
  (`PiecesPartition`), although `npos` becomes -1.
* A message received alone is understood exactly if the byte 0x12 does not occur
  in it from offset nine on (`LoneMessageUnderstood`): a publication on a topic of four or more
  characters with a JSON text of 18 bytes is cut at its length and published with an
  empty body, which becomes `null`.
* Messages received together are cut behind the next one's type, so that each takes
  the type of its successor (`TypesShiftInBatch`): of two publications
  received together the second becomes a subscription, and a subscription
  followed by a publication changes places with it. Messages of less than
  eleven bytes may not be split off at all and merge with their successor. The cut is at the
  tag of the topic: one with an empty topic has none on the wire, and
  is not cut from what precedes it, or is cut at the length of a JSON text of 18 bytes.
* A message shorter than an earlier one is followed by the earlier one's bytes;
  `LoneMessageUnderstood` and `TypesShiftInBatch` therefore speak of a clean tail. Bytes above
  127, such as a debugger fills the stack with, are harmless: parsing stops there.
  A buffer that starts with a zero byte becomes an empty message, that is
  a subscription to the empty topic.
* `CRC32` computes the remainder by the CRC-32 generator, but from a register of
  zeros, where CRC-32 begins with ones, and of sign-extended chars: its results
  are not CRC-32s, and leading zero bytes do not count (`RegisterIsRemainder`).

## 4. Fairness

Weak fairness on the steps of threads that can run: a publisher between its
unlock and its `notify_one`, each dispatcher's steps other than `Deliver`, the
destructor's steps, the main thread's and the handlers' steps. This is the scheduling
of the operating system. A mutex is free again after finitely many steps, but a
lock need not be granted to one particular waiter: weak fairness of
`DispatcherStep(d)` does not promise it, and `EventuallyTaken` and
`JoinReturns` do not need it. Nothing is assumed of clients (they need not
publish, subscribe, connect, send, read or leave), of whoever should press a key after
`Run` (`ShutDownReturns` speaks of each call of `ShutDown`, not of the way from one to the other), of `accept`, of spurious
wake-ups, and of `Deliver` and `OnReceive`, which end in a blocking `send`: the
liveness properties name the dispatchers stuck there, or the handlers stuck in
`recv`, as their exception. In `PubSubSystem` the steps of each handler and dispatcher are
weakly fair, but for `Take`: there it is only assumed that some dispatcher takes
a message if one is queued and a dispatcher idle, which is what `EventuallyTaken`
says of the pool. `Delivered` says nothing of lists that are reallocated under a walk and of a
second broker, both of which can cost a message and are the subject of `SubscriberList` and
`BrokerInstance`.

## 5. Proofs

`DispatchQueueProofs` proves, for any finite sets of dispatchers and
publishers, any topics and any number of messages, with and without the
destructor:

* `TypeCorrect` and `PopsAreSafe`. `NoPopFromEmpty` is not inductive: it
  needs that the thread inside holds the mutex (`MutexHeld`), that the token once
  seen cancelled stays so (`SawCancelSound`), and what the predicate has
  established at line 42 (`PredicateHolds`). Their conjunction with the types is
  `SafeInv`.
* `NoLostWakeup`. Given `SafeInv`, `WakeCoverage` is inductive by counting: a
  push adds one to the queue and one to the pending notifications; a
  notification moves one to the dispatchers on their way; a pop takes one from
  both sides; and a dispatcher leaves without a message only when the queue is
  empty.
* `EachMessageOnce`. `ExactlyOnce` needs `FrontIsHead` (below) and that
  the queue holds the youngest messages without gaps (`QueueIds`), which makes the
  message a pop takes the successor of all those taken before.
* `FewOvertaken`. By `EachMessageOnce`, the messages before a settled one that are not
  settled are owned by distinct dispatchers.
* `PromisesKept`, `DeathsAreDrops` and `DestructorDrains`, each by an invariant
  about the promised messages still queued or owned, the number of dead dispatchers, and the
  reasons a dispatcher can have left for.
* `PoolRefined`. With the additional invariant that the message copied by
  `front()` is still the head at `pop()` (`FrontIsHead`), each step maps to a step
  of `WorkQueue` or to a stutter.

`SubscriberListProofs` proves, for any finite set of dispatchers and any
subscribers, all that `sl_fanout` checks:

* `TypeCorrect` and `ReadsAreInitialised`: whatever index a dispatcher holds
  lies within the slots of the current buffer that were written once, since a removal shrinks
  the size and never the initialised part.
* `CallsAreFresh`: nobody who stands ahead of a walk's index has been called
  (`AheadFresh`, `AheadOfCall`), which shifts and appends keep; and the slot under the
  index, though the list may have shrunk away from it, holds someone listed at the count
  or later (`SlotFresh`).
* `MissesAreBounded`: those listed that a walk has passed without a call are at most as many
  as the removals, and so they are when the positions it has done with
  are counted against the size (`MissBound`), which is what an append needs.
* `ImplementsFanOut`: the iteration's steps map to steps of `FanOut` or to stutters;
  a walk that ends at the vector's size ends in `FanOut` because of `MissesBoundedByRemovals`.

`TopicRegistryProofs` proves, for any finite set of handlers, any topics and any
subscribers, all that `tr_handlers` checks:

* `TypeCorrect`, together with `Ownership`: a subscriber belongs to one handler, which
  has it under way or at one place in `clientSubs`. Everything below rests on that.
* `NothingIsLeftBehind`. `LeftInv` adds that a subscriber about to be deleted is in no list
  (`UnlistedAtDelete`), which other handlers' appends cannot undo, and that those the
  closing loop has passed stay deleted (`DeletedBehind`).
* `SubscribedStaysListed` and `RaceLossBounded`. `RaceInv` adds that a subscriber is
  neither listed nor lost before its `AddSubscription` ends, and that a handler that inserts
  a topic has no other subscription to it (`InsertIsFirst`), so that it loses at most one
  and the first inserter none (`WinnerExists`). The bound is then
  the cardinality of an injection from the lost subscribers to the other handlers.

`SocketServerProofs` proves, for any clients and any handles:

* `TypeCorrect`, with `Progress`, which ties the rounds of `ShutDown` to the main
  thread's place and the closes to the handler's.
* `WinsockOutlivesHandlers`: the threads joined so far have returned
  (`JoinedAreGone`), so `WSACleanup` comes when all have.
* `StopsAfterOneBatch`: a late batch leaves its handler past `recv` and with the token
  cancelled, to which it cannot return (`LastBatch`).
* `OwnUntilDoubleClose`: as long as nobody has closed twice, every open handle is its
  handler's, before and after `recv` (`OwnHandle`), so that a close hits nobody else.
* `EndsInTerminate`: the threads of the first round stay in the vector and are not joinable
  in the second (`JoinableOnce`).

`PubSubSystemProofs` proves, for any clients, handles, topics, subscribers and
dispatchers and any number of messages, all the safety that `ps_system` and
`ps_walks` check, on top of the components' proofs:

* `ImplementsServer`, `ImplementsRegistry`, `ImplementsQueue` and
  `ImplementsWalks`: each step of the whole is, for each component, a step of its
  specification or a stutter. The walks' set of subscribers is that of the topic of the message
  in hand, so this needs that the registry's lists and the walks' views agree (`ViewInv`).
  By these, `ComponentsKeepTheirPromises` carries the components' properties over.
* `TypeCorrect`, with `Coupled`, which ties a handler's place in the server to its place
  in the registry.
* `NeverSentTwice`. `SentOnce` is about both the walks that go on and those that
  have ended: what was sent through a pointer was called (`SentIsCalled`), a pointer in hand is of the list and
  was not called (`PointerTagged`, `PointerFresh`). As to memory that is used again
  (`HistoryInv`), whoever has that of a subscriber a walk may still call was made after
  the message was published, and was not sent it yet (`HeirsYoung`): a walk calls only
  who was listed when it looked, and a subscriber has no heirs while it is alive (`AliveNoHeirs`). What was sent
  through another's pointer went to a subscriber younger than the message (`SentAstray`).
* `ServedGetsItsOwn`, by `HeirsYoung` and the following. A subscriber that was made is held by a handler (`MakerHolds`),
  and a handler that has not left keeps its subscribers alive and its handle open
  (`HoldsAlive`), which until a double close is its own (`OwnHandle` of the server).
* `CompleteUntilSomebodyLeaves`. While nobody leaves no list loses anyone
  (`NothingRemoved`), so that those subscribed at publication are listed during the walk
  (`AudienceListed`), a walk that misses nobody calls them (`SettledGot`), and who was called was sent
  the message (`CalledGot`).

`FramingProofs` proves, for any messages with texts of fewer than 128 bytes, any stack
contents, any buffer size and any portions, `TypeCorrect` and `SplitIsPartition`, jointly: the types of the pieces
depend on where the loop is in the string. While pieces are handled, they are
what the string ends in (`RestOfBuffer`). The proof needs what `FlattenSeq` does
with a sequence appended and with the first one taken away (`FlattenAppend`,
`FlattenHead`), by induction.

About the codec it proves `ReadsBack`: what `Serialize` writes, `Parse` reads. The
states of the parsing loop are a function from the number of rounds (`Runs`);
each field that was written takes a round from one state that has been
`Reached` to the next (`ReadsType`, `ReadsText`), and the loop stays where it
stops (`RunStops`).

`LoneMessagesCorrect` rests on that. It supposes that the messages are
`Readable`: a type of one byte, and texts of ASCII characters without 0x00, 0x08 (the tag
of the type) and 0x12 (the delimiter). TLC checks this of the instance's
messages, as an `ASSUME` of `MCFraming`. The only byte behind the ninth that can be taken for a delimiter
is then the length of the body (`BodyIs`, `CutIs`). The inductive
invariant `LoneInv` says that a message that has come alone begins the buffer (`BatchInv`,
from `ReceiveBatch`: no byte of it ends the C string), and how far the handler is
(`WayInv`): with one piece, the buffer, which is read back (`Whole`, `WholeRead`);
or with two, the message without its body and the rest, in which no type can be
read, so that it becomes a subscription (`Halved`, `HalvedRead`, `ReadsSubscription`). That is one call more
than the message asks for.

`BatchesShiftTypes` supposes the same of the messages and is about any number of them
received together. The property asks of them that 0x12 occurs only once in each, at the tag of its
topic; `SplittableIs` draws from this that what a message is written as without its type (`Untagged`)
begins with that byte and has no other. The string is therefore also the
sequence `Pieces`, each a message without its type (the first has its own) and
the next one's type: the same bytes with the brackets moved (`PiecesJoin`, by induction over the
batch). The inductive invariant `BatchesInv` says of the handler that it has split
off the first so many of these pieces and called nothing, or has some of the last
left to handle and has made the calls of those before (`ShiftInv`). The search stops where the next piece
begins, or finds nothing behind the last one (`SplitsPiece`, `FindsNext`, `FindsEnd`), and a
type behind a message replaces the message's (`ReadsRetyped`, `PieceReads`).

`Crc32Proofs` proves `RegisterCorrect` for buffers of any length. A turn of the
inner loop multiplies the polynomial by x: the division of the product takes the
same steps one place higher and one more at the end (`RemainderTimes`), and that one is the
conditional exclusive or with `POLY` (`ShiftIsCancel`). The exclusive or with a char
adds terms below the generator's degree, which the division never looks at
(`RemainderLow`), and the longer buffer adds places that are empty
(`RemainderHigher`).

The inductions are over sets of numbers (`UpTo`: a set that has 0 and the successor of each of its
members up to n has all numbers up to n), because the provers cannot instantiate the
induction theorems of the library, which take an operator. The functions
that recursive definitions denote are shown to exist in the same way (`JoinExists`, `Iterates`).

`BrokerInstanceProofs` proves for any finite set of handlers `TypeCorrect`,
`OneEach`, `CallsAgree` and `ListedAreLiving`. The inductive invariant says that
nobody is past the test with `m_instance` null except to make a broker, that no broker is made
any more once a handler is settled, and that a handler never
gets an older broker than before, so that its `Unsubscribe` reaches the broker in use whenever
that one lists its subscriber. `OneEach` counts the handlers that are making a
broker.

The assumptions are those of the modules: finite sets of threads (`SocketServer` needs
none; `PubSubSystem` has finitely many connections), natural bounds, placeholders
that are not members of the set they stand beside, chars of eight bits, and in
`Framing` messages whose lengths take one byte.

Only model-checked: the four liveness properties `EventuallyTaken`, `JoinReturns`,
`ShutDownReturns` and `Delivered` (the prover has no `ENABLED` and no fairness
rules), and that the messages of `MCFraming` are readable. Every invariant and action property that a run
checks is proved. No module declares a `RECURSIVE` operator.

## 6. Not modelled, and the plan

Not modelled: the wording of the log; the vendored libraries, which make up
more than 95% of the lines under `src` and are used through their interfaces
only (sockets, threads, `std::vector` and
`std::unordered_map` are modelled by what the code relies on, protobuf by its wire format, JSON
as a set of texts); the generated codec's accessors and reflection;
`CancelationToken::Reset` (no caller); `Publisher`/`NetPublisher` (no
instance, no state). `insert` may rehash the map while another thread uses an iterator
it found; the standard calls the iterator invalid, the libraries keep the node in place, and
the model follows the libraries. The process' memory and the limits on
threads other than a failing `std::thread` are left out. The composition has one broker instance,
batches of one message and lists that stay in place; each of these is the
subject of another module.

All parts of the program that keep state are modelled, and all invariants
are proved. What the proofs suppose beyond the modules' assumptions is that messages are `Readable`,
in the theorems `LoneMessagesCorrect` and `BatchesShiftTypes`; what becomes of
messages with other bytes, and a model of lengths of two bytes, would be next.
