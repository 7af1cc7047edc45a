# Verification of the asynchronous programs

This directory holds TLA+ models of the repository's own concurrent code, the TLC configurations
that check them on small instances and TLAPS proofs of their main properties. The models are
translated from the source; where a doc or a comment of the repository says something else than the
code does, a run shows the difference (section 5).

## 1. Inventory

The repository is a collection of programs around market data and order entry. Its own core logic
is in the asynchronous I/O classes (`iouring/framework`, `iouring/mcast`), the FIX session
(`baxter/fix_api`) and a few threaded or asynchronous programs. `PROJECT.json` lists every component.

| Component | State | Operations | Interaction | What makes it correct |
|---|---|---|---|---|
| `IoUring` (`IoUring.hpp`) | submission queue, kernel, completion queue, batch, `_pending`, `_run` | `AsyncReceive/Send/Accept`, `Submit`, `Run`, `Shutdown` | callbacks from `Run`, operations from callbacks | each operation is answered once; nothing prepared is left behind a blocking wait |
| `TcpSocket` server (`TcpSocket.hpp/.cpp`) | `_clients`, the countdown `clients`, one shared buffer | `AddSocket`, `RemoveSocket`, `Broadcast`, `acceptHandler`, `rwHandler` | through `IoUring` | no freed request is called, one round at a time, rounds never stop |
| `TcpSocket` client | message counter | `rwHandler`, `Shutdown` | through `IoUring` | the connection is always read; a clean end |
| `IouringPost` | thread, pipe, read buffer | `Run` (accept, write), `acceptHandler` | a thread and the ring share the pipe | every accepted client is served |
| `UdpSocket` relay | slot buffers shared by two sockets | `recvMessageHandler`, `sendMessageHandler` | through `IoUring` | one owner per slot, no datagram lost or overwritten |
| `MulticastReceiver`/`Publisher` repeater | requests, buffers shared without copying, `_run`, `running` | `StartReceiver`, `SendMessage`, `StopReceiver` | SQPOLL kernel thread, signal thread | requests stay in flight, order kept, the program stops |
| `MulticastSendRecv` | receive and send requests, `is_used`, `_send_index` | `StartReceiver`, `SendMessage`, `StopReceiver` | SQPOLL kernel thread, handler | no request lost, no buffer overwritten, no endless spin |
| FIX receive buffer (`FixMsgRcvBuf.hpp`) | `m_buf`, `m_bufBegin`, `m_bufSz` | `parse`, `size`, `clear` | the socket's read handler fills it, the parser gets its messages | framing independent of packet borders, room for the next read |
| FIX session (`FixHandler.hpp`) | `m_msgSeqNum`, `m_lastMsgSeqNum`, `m_hbInterval`, `m_lastMsgRecvTm`, `m_timer` | `onFixMsg`, `onHeartbeatTest`, `onConnStatus`, `instruct...` | event loop, timer, gateway, peer | numbers used once and in order, a silent peer is noticed, a cancelled timer stays still |
| Order test client (`ma2_test_client.py`) | the flags `X_sent` and `X_recv`, counters, `exchId`, errors, warnings | `_send_next`, `data_received`, `parse_...` | timer and socket of asyncio, the exchange | one request waited for at a time, cancels for orders that exist, a clean result means answers |
| Exchange simulator (`thread-base.cpp`) | `m_queue`, `Produced`, mutex, condition variable | `Publisher`, `Subscriber` | two threads | turns, no lost wake-up, no command skipped |
| Bitso server, order book, web server | nonce and cache, levels | one handler each | event loops | see the plan |

Hard behaviours: completions in any order and in batches of any size, callbacks that start
operations while their batch is not worked off, requests freed or re-used with completions on the
way, two threads around a pipe or a flag, a kernel thread that takes entries some time later, timers
that expire while they are cancelled or set anew, streams cut anywhere, answers that are late or never come, and
queues and arrays at their limits. `PROJECT.json` lists each hazard at its line with the property
that covers it, or why none does.

Left aside: vendored code (`node_modules`, rapidjson, cppcodec, the SBE tool), generated code and
certificates, language exercises, scripts that send one request and print the answer.

## 2. Plan

1. **Done:** `RequestBag`, `IoUring`, `AsyncOps`, `RingService` and its proofs; `TcpSocket`,
   `TcpServer` and its proofs, `TcpServerDangling`, `TcpClient`, `PostServer` as a refinement of
   `TcpServer`, `UdpRelay`, `McastSubPub`, `McastSendRecv`; `FixMsgRcvBuf` and `FixHandler`, composed in
   `FixSession`; `OrderTestClient`; `ExchangeSim`.
   Proofs about every one of them: each safety invariant and each refinement that a run checks is a theorem (section 6).
2. **Later, models:** the slots of the completion queue (a completion is marked as seen before its result is
   read) as a module of its own; the groups of market data in `FixMsg` against a reference definition; the Bitso
   nonce and cache; `OrderBook`; the websocket pass-through; the web server.

Abstract specifications: `AsyncOps` for the ring (stated, checked and proved) and `TcpServer` for the server behind the
pipe (stated, checked and proved).

## 3. Modules

```
RequestBag ── IoUring ──┬── RingService  (implements AsyncOps) ──┐
                        ├── TcpClient    (implements RingService)┴ RingServiceProofs
                        ├── TcpSocket ── TcpServer ──────────────┐
                        │                  ├── TcpServerDangling  │
                        │                  └── PostServer ────────┴ TcpServerProofs
                        └── UdpRelay                               UdpRelayProofs
RequestBag ── McastSendRecv                                        McastSendRecvProofs
McastSubPub                                                        McastSubPubProofs
FixMsgRcvBuf ──┬── FixSession                                      FixSessionProofs
FixHandler ────┘
OrderTestClient                                                    OrderTestClientProofs
ExchangeSim                                                        ExchangeSimProofs
```
The modules `MC...` give the instances for TLC.

**RequestBag.** A ring knows an operation by the address of its request object only, so every queue is
a bag of requests; a request prepared twice is counted twice. `Batches` is what one
`io_uring_peek_batch_cqe` can return.

**IoUring** is class `IoUring`. `sq`/`sqLen` is the submission queue, `kernel` what was submitted and is not
finished, `cq` the completion queue, `batch` the part of `cqes` that the for loop of `Run` has not reached,
`pending` and `run` are `_pending` and `_run`. `status` names the exits of the process. `Issue(first, submit,
last)` is what a callback does to the ring: it prepares `first`, calls `Submit()` if `submit`, prepares `last`,
or ends in `exit(EXIT_FAILURE)` when `io_uring_get_sqe` returns NULL. `LoopSubmit`, `LoopPeek`, `LoopWaitFails`,
`LoopDone`, `DispatchError` and `DispatchUnmapped` are the statements of `Run`; `Dispatch(r)` is the part of a
callback's action that takes the completion out of the batch. A callback is one step: there is one thread, and
the kernel's steps commute with it. The result of a completion is chosen when it is dispatched.

**AsyncOps / RingService.** What an application may expect of `IoUring`, and `IoUring` under an
application about which nothing is assumed. The refinement mapping adds up the queues and is open while `_run`
holds and the process lives.

**TcpSocket / TcpServer.** `clients` are the keys of `_clients`, `opened` the descriptors that `accept` has
returned: `RemoveSocket` never closes one, so no number comes back. `left` is the outer variable
`clients` of `main()`; the `clients` of `acceptHandler` is a local one. `Accept`, `Sent` and `Broken` are the two
handlers. `Distributor.cpp` has the same handlers.

**TcpServerDangling** adds what `rwHandler` can do when the closure it runs in has been destroyed: the counter
is read or written elsewhere.

**PostServer** replaces the accept of `TcpServer` by the thread of `IouringPost` (`Post`, `AcceptFails`), which writes
records to a pipe (`pipe`); the read of the pipe fills `inBuffer`, of which `acceptHandler` looks at the first record.
`accepted` are the descriptors the thread has got, `opened` those `acceptHandler` was given: without the thread and the
pipe the module is to be `TcpServer`, which `ImplementsServer` states with the variables of the same names as mapping.

**TcpClient** is the client: counting, re-arming, `Shutdown()` at the limit. It starts with all its receives prepared, which
`ClientInit` says fit into the queue, as the 16 of `main()` do into one of 512. Its operations have names of their own
(`ClientInit`, `HandleReceive`, `ClientNext`), so that it can stand beside the `RingService` it implements.

**UdpRelay** is `main()` of `UdpSocket.cpp`. `Receive(s)` and `Send(s)` are the requests of the two sockets for
slot `s`, whose buffer they share; datagrams are numbered.

**McastSubPub** is the repeater. The receiver's ring has an SQPOLL thread: `queued` entries become `armed` by
`Take`. A send normally happens inside `io_uring_submit`; one that the socket cannot take is `deferred` and
reads the buffer later. `StopReceiver` and `StopRunning` are the steps of the signal thread.

**McastSendRecv** is the combined class. `prepared` entries are invisible to the kernel thread until somebody
submits; `current` is the receive whose handler runs, which may call `SendMessage` any number of times. The array
of send requests starts uninitialised, so `used` starts with any value; index `RecvSize` stands for the memory
behind the array. liburing rounds the queue up to a power of two; the model takes the number asked for, which
leaves less room and so is the harder case for `SpinEnds`.

**FixMsgRcvBuf** is the buffer of a connection. A byte is known by its message and its distance from the message's end, so
that the search for the checksum field sees the four bytes of the field and nothing of the wording; `Messages` is the loop of
`parse`, `Left` what it moves to the front, and the doubling is part of `Parse`. The move is a `memcpy` within one buffer
(line 112), undefined when the rest is longer than the messages in front of it. `Exposed` are the bytes where the two ranges overlap, and `Moves`
the outcomes of a copy of the bytes one by one in any order: each exposed byte arrives as it was or as what its place had been
overwritten with. `overlapped` records that this happened on the connection.

**FixHandler** is the session. `expiry` is the wait of `m_timer`, `queued` the handlers of waits that have ended: those run
although `cancel()` was called, and find no error. `Build` is one function `instruct...` with its numbers; a message that
cannot be formatted (an exception or a range of `FixBuilder` that is too small) has used its number and ends the loop. `Tick` waits until
queued handlers have run, which is to say that the event loop is faster than the heartbeat.
The gateway that sets `m_msgSeqNum` is a subclass outside the repository and may set it to 1 or leave it.

**FixSession** composes both: one read is one callback, which cuts the messages off and takes them through `FixMsgParser`
to the handlers; `Parses` is `parseFixMsg`: a whole message is what the peer sent, and bytes that a move has garbled can be any message or none, because it
looks at no checksum. What it refuses is a message of kind `invalid`, to which no handler reacts. The socket is outside the repository as well: it gives any number of the bytes
that are there, and a new connection finds the buffer cleared.

**OrderTestClient** is the client with its timer. `sent` and `recv` are the sets of the X whose flag `X_sent` or
`X_recv` is set; `Branch` is the condition of the chain of elifs that holds. Each branch is an action with the errors it records.
`DataReceived` is the loop over the lines of one call, with the early returns and the exceptions that make asyncio close
the connection; a cut in front of the newline alone is not told apart from one within the line. The exchange is outside
the code: it takes requests in order and may answer late, never, incompletely or with a refusal; each such deviation,
and each cut of the stream, takes one of `MaxTrouble`. Of errors and warnings only their being there is kept.

**ExchangeSim** is the simulator. A thread holds the mutex from the moment it has it until it waits or returns,
`getline` included, so a turn is one step. `front()` of an empty queue is undefined: the process crashes or
the text is one the publisher does not know. A wait may return for no reason, and is behind an `if`.

## 4. Runs, bounds and fairness

| Run | Instance | Shows |
|---|---|---|
| `ring_service` | 2 requests, queue of 2, at most 2 operations per request | the refinement of `AsyncOps`, `PendingCovers`, and that every operation is answered |
| `tcp_server` | 4 descriptors, queue of 5 | the server's invariants, the NOTICE, and that every client is served |
| `post_server` | 3 descriptors, queue of 4, 2 records per read | the server behind the pipe implements `TcpServer` |
| `tcp_client` | 3 requests, limit 5 | requests stay armed, the client ends |
| `udp_relay` | 3 slots, queue of 3, 3 datagrams | one owner, none lost, all relayed |
| `mcast_sub_pub` | 2 requests, 3 datagrams | order, ownership, stopping |
| `mcast_send_recv` | 2 receives, 2 sends and the one behind the array, queue of 3 | requests, buffers, spinning |
| `fix_session` | 3 streams of 1 or 2 messages of 8 and 10 bytes, buffer of 9, time up to 8, 2 numbers | framing, heartbeats, breaks, numbers |
| `order_client` | all 12 requests, 3 deviations | the chain of requests and what a clean result means |
| `exchange_sim` | 5 commands, 1 spurious wake-up | turns, answers, wake-ups |
| `tcp_server_dangling` | 2 descriptors, queue of 3 | section 5 |
| `mcast_forgets` | as `mcast_send_recv` | section 5 |

Bounds. Four descriptors let a round of several clients, an `EPIPE` in the middle of it, a client that came during
it and the return to zero clients happen together; the proofs do without the bound. `Depth` limits how often a
callback of `RingService` starts an operation on a request in flight. `Last` limits the datagrams; with as many datagrams
as slots, and any of the slots free for each, slots are used again and all of them are in use at once. `Chunk` is 17 in the code (1024 bytes, records of 60); the thread is modelled as long as no
more than that wait, because a longer queue tears a record, which the model has no bytes to show. Queues are
as large as the requests need in a run that asks whether they suffice; `ring_service` lets them overflow. In `fix_session` the message of 10 bytes
fills the buffer, which then doubles and stays as large for the next connections; every read size occurs, reads across both messages among them. A read of that
larger buffer that ends nine bytes into the longer message moves nine bytes over a distance of eight, with and without the byte that overlaps garbled; a garbled message
may be taken for any other. The proofs do without these sizes. The
intervals are 1 and 2 with `HbLimit` 3; eight units of time from 1 on hold a Logon and a silence of more than three intervals of the longer one (`now` can be 8
with a last message at 1). `MaxRequests` of `order_client` is a definition and no bound: the program never sends more than 12, which is proved. Three deviations combine a late answer with a missing
one and a cut; four were tried once, with the same result. Five commands and one spurious wake-up are enough for an unknown
command to shift two answers and for either thread to be woken out of turn. `CHECK_DEADLOCK` is off in every configuration: a server without clients waits, and every program may exit.

Fairness. The thread of `Run` (or of `StartReceiver`) goes on with whatever it can do: weak fairness of the
loop's steps and of dispatching. It never extends to the failures of `io_uring_wait_cqe` (`LoopWaitFails`,
`Fails` of the repeater, `WaitFails`), which may but need not happen. Because
the completion queue is first in, first out and a bag is not, `ring_service` adds that no completion is passed over forever by
batches too small for it (strong fairness of peeking it); elsewhere a batch holds all that can be outstanding, or the liveness property does not depend on it (`mcast_send_recv`). The kernel finishes
sends, because a peer reads or its connection breaks; it takes entries that were submitted to an SQPOLL ring. Connections and datagrams need not come,
except in `tcp_client`, where the server sends until it closes the connection, and in `McastSendRecv`, where what is
armed is completed at some time, which makes `SpinEnds` no easier (it does not depend on it) and
`PreparedIsSubmitted` fail even so. A signal need not come, but the handler that began goes on. In `exchange_sim` only the
publisher is fair: it blocks nowhere but in its wait, while the subscriber holds the mutex as long as the user types nothing. `fix_session` and `order_client` check safety only.

What the runs check, in the order of their hazards:

- `Implements`, `PendingCovers`, `Answers`: no operation is lost, doubled, answered twice or left behind the wait.
- `NoFreedRequest`, `OneInFlight`: requests in flight exist and are in flight once; the accept is always armed.
- `CountIsExact`, `RoundAlive`, `Notice`, `Served`: rounds are counted although the first one is not, and do not overlap or die.
- `QueueSuffices`: how large a queue has to be so that `sqe is full` never ends the process.
- `ImplementsServer`: thread, pipe and ring do not hand on a client twice or overwrite one, and keep the server's promises.
- `AllArmed`, `Ends`: the client.
- `OneOwner`, `NoneLost`, `Relayed`: the relay's slots, and that its queue suffices.
- `OneOwner`, `InOrder`, `StopsAtDatagram`: the repeater. A send the kernel puts off may carry a later datagram, never an earlier one.
- `RequestsKept`, `SpinEnds`: the combined class.
- `Framed`: however the stream was cut, whole messages once and in order until a rest is moved onto a part of itself, which takes a message that is
  longer, by two bytes or more, than the one in front of it (`Growing`); and always room for the next read.
- `SilenceNoticed`: a peer silent for more than three intervals was reported. The code's own limit is two intervals, looked at
  once per interval.
- `CancelHolds`: without a connection the timer is still, unless a handler was queued when the connection broke.
- `NumberedOnce`: numbers are used once, in order, and the missing ones are those of messages that failed or that were taken before the connection.
- `Cancels`, `CleanMeansAnswered`: the order client; both state what does hold in spite of flags that are never cleared.
- `InStep`, `NoneSkipped`, `Woken`: the simulator. `InStep` holds until a text the publisher does not know reaches it (an unknown command, or its own
  answer after a spurious wake-up), `NoneSkipped` with any unknown commands but no spurious wake-up, `Woken` always.

Every property has a mutant, a plausible mistake in the code, that breaks it under the same configuration. The mutants stand in
the modules in front of the definition they change and are marked as such.

## 5. Where the code differs from what it says

- `tcp_server_dangling` (`TcpSocket.cpp:83`): `rwHandler` uses its captures after its closure was destroyed or
  replaced; the NOTICE of `TcpSocket.hpp:155` can then be broken. A comment at line 97 reports the symptom.
- `mcast_forgets` (`iouring_mcast_sendrecv.hpp:345`): receives can stay prepared and never be submitted, when a batch ends
  with the completion of a send and no other follows.

These defects are part of the models' behaviour and have no run of their own, because nothing in the repository states the contrary or a
property above already says what holds instead:

- `IouringPost.cpp:196`: of clients that were posted together only the first is handed on (`ReadPipe`, `PostedClient`).
- `IoUring.hpp:143`: after `Shutdown()` in a callback the loop goes on reading the unmapped ring if its batch
  has more completions (`DispatchUnmapped`, status `crashed`). With `TcpSocket.cpp` this is the usual case, because a closed
  connection completes all receives at once.
- `iouring_msgrecv.hpp:206`: stopping takes effect only with the next datagram, which is what `StopsAtDatagram` says.
- `iouring_mcast_sendrecv.hpp`: the first send request is one behind the array (line 231 with 305), `is_used` is read
  uninitialised (232), a batch can be larger than its array (337, status `overrun`).
- `FixMsgRcvBuf.hpp:112`: `memcpy` with ranges that overlap, when a short message came with a longer part of the next one. What is then in the buffer is up
  to the build; the messages of the connection may be garbled from there on, and the parser, which checks no checksum, may take them for others. `Framed`
  stops at this point and says which streams can lead to it; `fix_session` reaches it. `memmove` would do.
- `FixHandler.hpp:670`: `cancel()` does not reach a handler that is queued, which then starts the timer of a connection that is
  gone; `CancelHolds` names the exception. `m_lastMsgSeqNum` is not reset by a new connection (714).
- `ma2_test_client.py`: `ornw_recv` and others are never cleared, so `CleanMeansAnswered` speaks only of the first request of a kind;
  the third order is never cancelled; "No Errors Were Found" (891) is the else of the warnings and is printed with errors as well.
- `thread-base.cpp`: an unknown command is not taken from the queue, and from then on the subscriber reads its own text back and
  every answer late; `quit` leaves the publisher waiting and `main` in `join()`; a spurious
  wake-up, against which the waits have an `if` and no loop, lets the publisher read its own answer or the subscriber take back its own command (`InStep` and
  `NoneSkipped` say what remains); a publisher that starts first reads an empty queue.

## 6. Proofs

The theorems hold for every value of the constants under the named assumptions:

- `RingAssumption` (finitely many requests, a queue of at least one entry), `DepthAssumption`, and `TcpAssumption` (the requests are
  those of the descriptors and the acceptor, which are different), with `ChunkAssumption` for a read of the pipe;
- `RelayAssumption` and `McastAssumption`: as many slots as the queue has entries at most, else `AsyncReceiveAll` would
  end the process (or use an entry it did not get) before anything runs; `SendRecvAssumption` names the requests and asks nothing of
  queue, batch and slots but that there is one;
- `SizeAssumption`, `StreamAssumption` and `HandlerAssumption`: the buffer's first size, the interval and the bound on time are positive, and a message is not shorter than the checksum
  field that ends it. Nothing else is assumed of the number, length or kind of the messages;
- `LimitAssumption` of the client: the limit of messages is positive. That its receives fit into the queue is part of its initial states;
- `BoundAssumption` of the simulator and of the order client: their bounds are numbers. The theorems about the order client so
  hold for any number of deviations.

*Ring.* The invariant `Inv` is the type invariant with `PendingCovers`. `NeverForgets` is `PendingCovers`;
`RingImplementsOps` shows that each step of `RingService` is a step of `AsyncOps` or changes nothing in it: the steps of
the loop and of the kernel move an operation from one queue to another and leave the sum alone, a dispatch
with the operations it starts is a `Callback`, and every exit and `Shutdown()` closes.

*Client.* `ClientImplementsRing` shows that the client is one of the applications of `RingService`, with one operation per request, so that
`RingService`'s own theorems hold of it (`ClientKeepsPromises`). `AllArmed` is not inductive: that a receive which is armed again finds
room in the queue needs that the queue holds requests that are waiting, each once, of which there are no more than fit. `CInv` is
`AllArmed` with the length of the queue as the number of requests that wait in it, and with `_run` as the comparison of the counter
with its limit.

*Server.* None of the server's properties is inductive alone. That no freed request is called needs that a client is
removed only by its own and only completion (`OneInFlight`). That no client has two sends in flight needs that a round begins only
when the completions of the last one are over, hence that `left` is exact, with the exception of the first round,
which is not counted (`CountIsExact`). That `acceptHandler` may begin a round without looking at `left` needs that
nothing is in flight when there are no clients, which is `NoFreedRequest` again. And the process survives only if the queue never
overflows: between callbacks it holds accepts and no sends (`QueueHoldsAccepts`), and at most one accept. `IInv` is the
conjunction of these with the types and with "every client was opened", so that a descriptor that `accept` returns is not in `_clients`.
One lemma per kind of step (`QuietStep` for the loop, `FinishStep` for the kernel, `ExitStep` and `FailsStep` for exits,
`AcceptStep`, `RoundStep` with `RoundOver` for the two outcomes of the countdown) shows that it is kept. From `IInv` follow
`TypeCorrect`, `RequestsAreLive`, `InFlightOnce`, `CounterExact`, `RoundsGoOn`, `AllSubmitted` and `QueueLargeEnough`, and,
as a property of steps, `NoticeKept`: a send reaches the kernel only in a step that begins a round, and then nothing
of an earlier one is left.

The proofs speak of `TcpServer`, in which the closure of `rwHandler` is intact: section 5 shows what happens otherwise.

`AllSubmitted` proves `NothingForgotten` of the server, which no run checks: `PendingCovers` of `ring_service` says it of every callback.

*Server behind the pipe.* `PostImplementsServer` maps the variables to those of the same name. A step of the thread or of the pipe
is a stutter; that `acceptHandler` is a step `Accept` of the server needs that the descriptor it hands on is not
in `opened` yet. `HandedOnce` says so: what is on the pipe was accepted and not handed on; while the answer of a read waits for its callback
the buffer is not empty, and its first record was not handed on either and is not on the pipe as well. `PInv` adds the types and, of the ring,
the server's `IInv`, which the steps keep because they are steps of the server. `PostKeepsPromises` draws the
conclusion: what was proved of `TcpServer` holds here.

*Relay.* That the queue is never full needs that its entries are those of different slots, hence `OneOwner`; that a step moves a slot's only
operation and no second one appears needs that the queue is not full; `NoneLost` needs both. `RInv` is their conjunction, with the length of
the queue as the number of slots in it, which is where `RelayAssumption` is used. `NoneLost` counts, for every datagram, the slots
that wait with it, and the proof follows the cardinality of this set through each step.
`NeverOverwritten` is a property of steps: a buffer that waits to be sent on is not written.

*Repeater.* `InOrder` is a sum over what happened, and needs to know what the completion queue holds: `LastInDone` says
that the i-th completion is the i-th of the last datagrams to arrive, which rests on `OneOwner` (a request that is in the queue cannot be written again)
and in turn gives that the datagram handed over next is the one after all that were handed over. `QueueNeverFull` is about an
unchecked `io_uring_get_sqe`.

*Combined class.* `RequestsKept` with the types is inductive (`KInv`). The steps of kernel and loop keep the sum of every request;
`SendMessage` adds one to a request that is not marked and so has sum zero, which is also what `NeverOverwritten` says, as a property of
steps. `is_used` may start with any value.

*FIX.* `FixInv` is `SessionInv` and `BufInv`, which meet only in the step `Read`.
`SilenceNoticed` is not inductive: that a report comes in time needs that, once a Logon has set the timer, a wait is running that has not
ended, or a handler is queued, which `Tick` waits for; and that the wait ends within three intervals of the last message unless the silence was
reported (`TimerInv`). The interval changes only in a Logon, which sets the timer anew. `CancelHolds` needs to know of the queued handlers as well (`CancelInv`).
`Framed` compares what the parser was given with a prefix of the stream. `BufInv` says that, until a rest was moved onto itself, this is a number of whole messages and that the bytes
behind them that were read wait in the buffer and are not a whole message (`Waiting`); and that the buffer is never full, whatever the moves left in it (`MovedFacts`: as many
bytes as there were, and no others). The proof follows one read: the loop of `parse` finds the needle
in front of the three digits of every message whose end has arrived and nowhere else (`HitFacts`), so it takes just these messages off
(`CutAt`, `MessagesAre`), and what remains is less than a message and fits, with room for a byte, into the buffer after the
doubling. If the move overlaps, what remains is longer than the last message taken off and shorter than the next one, so the stream is
`Growing` (`WaitStep`). Hence `SteadyStreamIsWhole`: if no message is longer, by two bytes or more, than the one in front of it, messages come out whole without a condition. `Messages` and the folds are functions by recursion: `LEMMA Induction` derives
induction over the natural numbers from the least element of a set (`WFMin` of the library's `WellFoundedInduction`), for
sets of numbers in place of predicates, and `MessagesFrom`, `FlattenFacts` and `FoldFacts` are proved with it.

*Simulator.* That the subscriber takes no command the publisher has not seen is a matter of parity: the queue grows by one text with each
unknown command, and the known commands always lie an even number of places before the end when the publisher looks and an odd number
when the subscriber does (`KnownAt`), so that two of them are never neighbours. `EInv` joins this with whose turn it is (`Turns`) and with which entry of the queue stands
for a command that is not answered (`Kept`), and `NoneSkipped` follows; `InStep` is inductive with the same.

*Order client.* The chain of elifs looks at flags only, and what it does next depends on which flags were set in which request's time. `OInv`
ties the flags to the requests. `Machine` reads the kind of the last request, `ornw_counter`, `order_id` and the number of
requests as one of twelve stages; `Chained` says which kinds follow each other and that new orders are numbered upwards, from which `Places` derives where the
first request of each kind stands. `Exchange` says what is on the way: messages that fit the request they answer, and words of new orders in
the order of their creation. `Informed` is about ids: `exchId` is that of a created order, and not an older one than any the client was told of in time, so that a cancel
by `exchId` or by `order_id` means the same order. `Flags` says that a flag, as long as its first reader has not looked, tells of an answer in time, because only messages that are
wanted set one (`WantedFacts`), and `Clean` what follows when the readers recorded no error.
The step `DataReceived` is a fold over the messages that came: `FoldFacts` unrolls it, and `NextGood`
shows that `Informed`, `Flags` and `Clean` hold after each message, unless an exception ends everything. `SendStep` and
`ChainStep` are what all branches of the chain have in common. `CancelsCorrect` and
`CleanCorrect` are then read off `OInv`.

Only model-checked: `Answers`, `Served`, `Relayed`, `Ends`, `SpinEnds`, `StopsAtDatagram`, `Woken` (liveness is out of the reach
of the proof system). The two runs of section 5 show behaviours, which need no proof.

## 7. Not modelled

The contents and lengths of messages, socket options, addresses and logging; torn records of the pipe; the slots of the
completion queue; the kernel dropping completions; the groups of market data in `FixMsg`, the bytes that `FixBuilder` writes and exceptions out of
`FixMsg::field`; the callbacks of FIX subscribers, whose sends are steps of their own. The result of `io_uring_submit` is looked at nowhere
(`IoUring.hpp:125`, after which `_pending` is cleared all the same): in the models a submit takes every entry, and `PendingCovers`, `Answers` and what
rests on them hold under this assumption; so does `AllSubmitted`. The publisher of the repeater takes completions off its own ring after each send and uses none
of them (`iouring_msgsend.hpp:161`, `170`), which `SendMessage` leaves out. The components marked `not_modelled` in `PROJECT.json` are either on the
plan of section 2 or input and output without a protocol.

## 8. Checking

`tlc -config <run>.cfg <module>.tla` checks a run (`PROJECT.json` names the pairs), `tlapm X.tla` the
proofs of the eight modules `...Proofs`. `FixSessionProofs` and `OrderTestClientProofs` take about three minutes each, the others less than one each.
