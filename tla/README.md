# libamqp-cpp in TLA+

TLA+ specifications of libamqp-cpp, an AMQP 0-9-1 client library in C++ on
boost::asio and boost::thread, checked with TLC and proved with TLAPS.
Everything here is translated from the code; paths are relative to the
repository root.

## The system

An application opens one connection and, on it, channels. `connect()` performs
the handshake synchronously and starts one thread, the *io thread*, that runs
`io_service::run` and with it every handler: opening a channel, writing a frame,
reading a frame, giving a frame to its channel. Application threads never touch
the socket. They post handlers to the io_service and wait on futures that the io
thread satisfies.

| Component | State | Operations | Hard behaviour |
|---|---|---|---|
| `connection_manager` | `m_state`, `m_channels`, `m_write_queue`, `m_current_write_frame`, `m_builder`, `m_writer`, `m_connection_closed_promise` | `begin_open_channel`, `start_open_channel`, `begin_write_frame`, `on_write_frame`, `begin_frame_read`, `on_frame_header_read`, `on_frame_body_read`, `dispatch_frame`, `handle_dead_channel_frame`, `on_socket_close` | order of posted handlers and completions, partial sends, exceptions that leave the io thread, loss of the connection |
| `channel_impl` | `m_continuation`, the opened and closed promises, the promise of the RPC | constructor, `begin_rpc`, `rpc_handler`, `process_open`, `process_frame`, `close_`, `close_async`, `declare_exchange`, destructor | a continuation written by one thread and called by another, promises that are satisfied twice or never |
| `connection_impl`, `sasl` | owns the manager; while connecting, the position in the handshake | `connect`, `open_channel`, `begin_write_method`, choice of a SASL mechanism | waiting for a promise nobody satisfies; a broker that refuses or speaks out of turn half-way through the handshake |
| `channel0` | none | `process_frame`, `close_async` | both throw |
| `frame_builder`, `frame_writer` | header, body, end octet, builder state | `reset`, `get_header_buffer`, `is_body_read_required`, `get_body_buffer`, `create_frame`, `get_sequence` | eight octets are read for a header of seven |
| `table`, `table_entry`, `wireformat` | none beyond the value | `insert`, `wireformat_size`, `write_table`, `read_table`, ... | sizes that are counted in one place and written in another |
| generated methods and properties (`codegen.py`), `frame::create_from_method` | the arguments of a method, the properties of a content header and their flags | setters and clear functions, `get_serialized_size`, `write`, `read` | a frame is allocated by one count and filled by another; runs of bits; flags brought up to date only when they are written |
| references | `shared_ptr`s to a channel and its connection, `m_channels`' `weak_ptr` | copy, lock, release, destructors | the last reference may go on any thread, also inside a handler |

What makes each correct: a connection that opens is one both sides agree on;
frames leave whole and in an order the protocol allows;
an answer reaches the RPC that asked for it; every call returns; the read loop
lives as long as the connection; a channel number means one channel; after the
connection is lost nothing more is written and everybody learns of it; what is
written can be read back.

## Modules

| Module | Models |
|---|---|
| `AmqpFrames` | frames as the connection tells them apart: channel, kind of method, and a history tag that numbers the RPCs of a channel |
| `ChannelImpl` | `channel_impl` as operators on the record of one channel; a member function that may throw returns the channel it leaves and the exception |
| `ConnectionManager` | the io_service's queue, the io thread with one action per handler, the reactor (completions of reads and writes), the socket |
| `Connection` | composes `ConnectionManager` with application threads, the broker and the network; states the properties |
| `Handshake` | `connect()` from the resolver to the start of the read loop, `sasl`, and the broker's half of the handshake |
| `HandshakeProofs` | the TLAPS proofs about `Handshake` |
| `RpcContract` | abstract specification: what a channel promises of an RPC |
| `ConnectionProofs` | proofs about `Connection`: types, the queue, the read loop, ownership of channels |
| `TransportProofs` | lemmas for the next three: what each step does to the frames under way, whatever carries them |
| `CallProofs` | the inductive invariant of calls and answers in `Connection`, and that each step keeps it |
| `ContractProofs` | proofs that `Connection` implements `RpcContract` |
| `QuietProofs` | proofs about `Connection` when nothing fails |
| `SharedChannel` | one open channel and its connection in the hands of several threads: calls that overlap, references, destructors |
| `SharedChannelProofs` | the TLAPS proofs about `SharedChannel` |
| `Framing` | octets to frames: `frame_builder`, the two reads that fill it, and a peer |
| `FramingProofs` | proofs about `Framing` and the integers of `Octets` |
| `FieldTable` | field tables and their wire format, as operators |
| `Methods` | the methods and content headers `codegen.py` generates, and `create_from_method`, as operators |
| `Marshalling` | a method or a header from its making to its reader; states the properties of the two modules above |
| `Octets` | integers on the wire, in either byte order of the host, shared by `Framing`, `FieldTable`, `Methods` and `Marshalling` |
| `MCConnection`, `MCSharedChannel`, `MCHandshake`, `MCFraming`, `MCMarshalling` | instances for TLC |

### How the code maps to `ConnectionManager` and `Connection`

- `ioq` is the io_service's queue: FIFO, and one thread runs it. A handler runs to
  its end before the next, so a handler is one action, with every call it makes:
  `OnFrameBodyRead` includes `dispatch_frame`, the channel's continuation,
  `handle_dead_channel_frame` and the next `begin_frame_read`.
- `async_write` tries to send at once. Its outcomes are: the kernel takes the whole
  frame (the completion is queued), or a part (the frame waits in `pend`), or the
  socket is broken (an error, or, as a kernel may still accept octets, success).
- `m_writer` has one header buffer and `m_current_write_frame` alone keeps the
  payload alive. A write that starts, or a completion that resets
  `m_current_write_frame`, takes these from every write in `pend`; what then reaches
  the wire is the frame or `Garbage`.
- `in` is what the broker has sent. The header's completion leaves a frame in the
  kernel's buffer until its body is read; a heartbeat has no body.
- An exception that is not a `connection_exception` leaves `dispatch_frame`,
  `io_service::run` and the thread's function. boost::thread does not catch it:
  `std::terminate`. The model sets `io` to `"aborted"`, and nobody moves again.
- `m_channel_closed_future` is default constructed. In boost 1.46 such a future is
  never ready and `wait_for_any` skips it, hence `ChannelClosedFutureReady(c) ==
  FALSE`.
- `dispatch_frame` does not return for a channel number beyond `m_channels` and
  reads the vector out of range. That is undefined: the model crashes, or takes
  what it finds for an expired pointer.
- `begin_rpc` is two actions of the application thread, rebinding `m_continuation`
  and posting the request, because the io thread may run in between. The rebinding
  races with a call of the old continuation without a lock. As handlers run whole here,
  its outcomes in this module are the old handler and the new one. That the process may
  end when a continuation in use is rebound is in `SharedChannel`, where the call is
  taken apart; `NoAbort` is about exceptions only.
- Each application thread uses a channel of its own. A thread may open, call, drop
  and open again. `SharedChannel` has the other case.
- The broker is external and modelled from what the code expects of it: it answers
  a legal request, or closes the channel instead when `BrokerRefuses`, and ignores
  requests on a channel it is closing. A frame the protocol forbids makes it send
  `connection.close`. With `Unsolicited` it also speaks unasked, at most `MaxFaults`
  times.

### `Handshake`

`connect()` blocks the application's thread in each read, so `pc` is the read or write
it has come to, and an action is what it does up to the next one. `Connection` starts
where `pc` becomes `"returned"`: one thread, no channel, the read loop begun. An
exception out of `connect()` leaves the constructor of `connection_impl` and destroys
`m_thread` with its socket (`Throw`).

`said` is everything the client has written and `heard` how much of it the broker has
taken, so a message is never lost from view. The broker answers along `Script`; a
message it is not waiting for makes it `"confused"`. It may send a frame out of turn at
any moment (`Deviate`), or refuse, or lose the connection (`HangUp`). What it announces
(version, mechanisms, limits) and the arguments of `connect()` are chosen in `Init`.
Of arguments only the checks the code makes are kept: whether SASL PLAIN can carry the
credentials, and whether the virtual host is a short string.

`socket::connect` leaves the socket open when it fails. `is_open()` therefore does not
tell whether an endpoint was reached: `GiveUp` goes on to write the handshake, which
throws, and the error "Failed to connect to remote peer" is never seen. A second
endpoint of another family cannot be reached with the socket of the first.

### `SharedChannel`

`Connection` runs the io thread's handlers whole. Here the socket does not fail and
writes are whole, and what is taken apart instead is `dispatch_frame`: lock the
`weak_ptr` (`"dispatching"`), call the continuation (`"leaving"`), return from it
(`"returning"`), release. In between application threads call, drop the channel and
drop the connection. The channel has been opened when the module begins, but the io
thread may still be in `process_open`, whose promise has woken the opener: `Init` has
both states.

- `holders` are the `shared_ptr`s to the channel, one per thread that has one and one
  of the io thread while it dispatches. `users` are those to the connection, of which
  `m_connection` of the channel is one. Nothing else counts references: handlers are
  bound to a raw `this`.
- Whoever releases the last reference runs the destructor: `DropChannel` and
  `ReleaseLast` on an application thread, `Unlock` and `UnlockLast` on the io thread.
  The channel's destructor posts `channel.close` before it gives up `m_connection`, two
  steps between which others run.
- The destructor of the connection destroys the `io_service` under a thread that is
  detached and that nobody stops or joins. This is undefined behaviour at every use of
  the library, as there is no other way to end a connection: the io thread never runs
  another handler (`"stopped"`), or ends the process (`"aborted"`).
- `m_continuation` alone keeps the promise of an RPC. A second thread's `begin_rpc`
  destroys it, and the first thread's `get()` throws `broken_promise` (`Overtaken`). The
  first answer is then taken for the second call's, and the second answer meets a
  promise that is satisfied, which ends the process. Binding `m_continuation` while
  another thread binds or calls it is undefined as well.
- `set_value` wakes the caller before the io thread has returned from `m_continuation`.
  A caller that begins its next RPC at once destroys the handler and the promise the io
  thread is still in (`src/detail/channel_impl.cpp:52`, `:126` and `:25`). This is
  undefined too, needs no second thread, and can happen to the first call after
  `open_channel`: `BeginRpc` may abort while `InContinuation`. Callers cannot know when
  the io thread has left, so serial use alone does not make a channel safe, and
  `SerialCallsAreSafe` says so.
- `overlapped` and `raced` are history variables: has a call begun while another was
  under way, and has one begun while `m_continuation` was being called?

### `Framing`

`Framing` works on octets. The peer's frames have the layout of
`frame_writer::get_sequence`; it may send a frame with a type that does not exist or
without an end octet. Octets arrive in pieces of any size. `frame_builder` is a
record with the members of the class, and the two handlers of `connection_manager`
that drive it are the actions. Writes that overlap are the subject of `garbled`, not
of this module.

### `FieldTable`, `Methods` and `Marshalling`

The protocol's classes, which are the generator's input, are a constant: a signature has
an id and the domains of its fields. `Marshalling` creates an object of one of them,
with whatever the constructor leaves uninitialised, sets and clears its fields, writes
it, and has it read by a peer that knows some of the signatures.

- The generator counts a method's size at one place, writes it at another and reads it
  at a third. Each is translated on its own (`SerializedSize`, `WriteMethod`,
  `ReadFields`), with the generator's own way to find the run of bits a field belongs
  to. `CreateFromMethod` then allocates by the first and fills by the second: a method
  that writes more throws, one that writes less leaves what memory held (`Leftovers`).
- An octet has `Base` values: 256 in the code, 14 in the runs, so that fourteen type
  octets exist and an eight-octet integer stays below 2^31. `OctetBits` is 8 in the
  code and 2 in the runs: three bits no longer fit in one octet, five need four.
- Strings are sequences of octets. A double is its bit pattern, of which the code reads
  the lower half as a float.
- A header carries the fields whose flags are set. A table has no flag of its own:
  `is_set` of a table is true when the table is *empty*, so an empty table is sent and
  one with entries never is. Flags are numbered from the lowest bit, where AMQP numbers
  them from the highest; only a peer with the same code reads such a header.
- `FromMemory` and `InMemory` give an integer the host's byte order, and `byteswap`
  turns it where `LittleEndian`.

## Runs

All runs use `CHECK_DEADLOCK FALSE`: an application may stop calling the library,
the process may be terminated, and a finished stream of frames or arguments is an
end.

| Run | Instance | Shows |
|---|---|---|
| `quiet` | 2 threads, 2 channel numbers, 2 RPCs per channel, no faults, whole sends | `NoAbort`, `LegalOnWire`, `OpenedOnReturn`, `ChannelsNotShared`, `NoWaitInVain`, the contract `KeepsContract`, and under fairness `OpenChannelReturns`, `RpcEnds`, `DroppedIsClosed` |
| `faults` | 1 thread, 2 channel numbers, 1 RPC, partial sends, refusals, one unsolicited frame of any of seven kinds, breaking socket | `TypeOK`, `ReadExclusive`, `ReadLoopAlive`, `NeverQueued`, `ErrorsAreReal`, `ChannelsHeld`, `NoWriteOnceClosed` |
| `contract` | 1 thread, 2 channel numbers, 2 RPCs, refusals, one unsolicited close, connection close or unknown method, breaking socket | `KeepsContract`, `FailureNoticed` |
| `handshake` | 4 lists of endpoints, 3 versions, 3 lists of mechanisms, all limits from 2 values, sound and unsound arguments, one frame out of turn | `TypeOK`, `NeverOutOfTurn`, `Agreement`, `ThrowsForAReason`, and under fairness `ConnectEnds`, `SoundBrokerConnects` |
| `framing` | 2 frames, 2 types, 3 payload shapes, sound or bad in two ways | `TypeOK`, `Faithful`, `ThrowsOnlyAtFault`, `NothingIsStuck`, and under fairness `Delivered`, `FaultNoticed` |
| `methods` | 4 methods and 2 headers, one of each unknown to the reader; every domain; tables of up to 2 entries from 3 keys and values of all 14 types, nested once | `RoundTrip`, `FrameIsFilled`, `HeaderRoundTrip` |
| `sharing` | 2 threads, 3 calls on one channel | `TypeOK`, `HeldIsAlive`, `SerialCallsAreSafe`, `NothingAfterClose`, `NobodyStranded`, and under fairness `CallsEnd`, `DroppedIsClosed` |
| `garbled` | partial sends, 2 threads | `NoGarbage` is violated |
| `rpc_after_close` | refusals | `RpcEnds` is violated |
| `close_idle` | one unsolicited `channel.close` | `NoAbort` is violated |
| `open_refused` | refusals | `OpenedOnReturn` is violated |
| `table_size` | as `methods` | `SizeIsWritten` is violated |

In `sharing`, `SerialCallsAreSafe` is violated, with one thread as with two, if its
condition `~raced` is left out: the condition is the defect it describes, and the
property says that nothing else ends the process.

### What the violations say

- `garbled`: `begin_write_frame` tests `m_write_queue.size()` after the frame being
  written has been popped (`src/detail/connection_manager.cpp:157`), so writes are
  never serialised. `NeverQueued`, which is proved, is the general form.
- `rpc_after_close`: the broker answers the first declare by closing the channel.
  The second is sent all the same and never returns, against
  `doc/connection_close.txt:16`.
- `close_idle`: against `doc/connection_close.txt:9`, a close of an idle channel ends
  the process.
- `open_refused`: `wait_for_any` does not throw what the comment at
  `src/detail/connection_impl.cpp:150` expects.
- `table_size`: the equality that `testing/table_test.cpp:66` asserts for string tables
  and `testing/method_test.cpp:28` for a method does not hold with field arrays,
  decimals and bytes.

The properties of `quiet` are the ones that fail under faults: the violations above
are each the same property with one fault switched on. Other consequences are met in
the same way with other constants: `NoAbort` also falls to `connection.close`, to a
stray method, and to a read and a write that both fail; `OpenChannelReturns` falls when
the socket breaks, as nobody sets the promise `doc/connection_close.txt:23` speaks of; `LegalOnWire` falls to closes
that cross, as the dead-channel path writes close-ok before the `channel.close` the
destructor has posted, which then reaches a channel that is closed; `KeepsContract` falls to a method such as `channel.flow` during an RPC,
after which the late answer is taken for the next call's. `contract` therefore leaves
`"Flow"` and `"Stray"` out of `Unsolicited`.

### Bounds

`MaxChannelId` stands for 65535: two numbers are enough for two threads at once, for
a thread that drops a channel and opens another, and for running out of numbers.
`MaxCalls` is 2 where answers could be confused with the next call's. `MaxFaults` is
1: one unsolicited frame at any moment. Queues have no bound of their own, as each
thread waits for its answers. In `handshake`, the versions differ from 0-9 in one number or the other, PLAIN is first,
second or missing, and one frame out of turn, of any kind but open-ok, comes at any
moment; open-ok is left out because a broker that sends it unasked has opened
nothing. In `framing`, two frames suffice for whatever the
builder could carry from one to the next, and the payloads are empty, one octet (all
of it read with the header) and two. In `methods`, there is one
signature for each thing that can go wrong: a table with a string behind it, runs of
two, of five and of one bit between other fields, every number, an unknown method; a
header with a table between two properties, and an unknown one. Two entries of a table
reach ordering, a length error of one entry that hits the other, and duplicates. In
`sharing`, three calls are needed: a thread can be overtaken, and a late answer can meet
a call after the one that overtook. That two threads are enough is not assumed for
safety, which is proved for any number.

### Fairness

`WF(IoStep)`: the io thread runs while it has handlers. `WF(ReactorStep)`: the kernel
moves bytes and reports errors. `WF(Broker)`: a broker answers. Per thread, weak
fairness of the actions with which it goes on after a wait. An application is not
obliged to call, and faults are not obliged to happen. In `Framing`: what is sent
arrives, and completed reads are handled. In `SharedChannel`: the io thread (`IoStep`) and the broker run, and
a thread goes on after its wait and in a destructor. In `Handshake`: the application's thread
runs, and a broker takes what has arrived (`Hear`); it may then refuse, or have hung up
before. Without this a broker that keeps the connection and stays silent blocks
`connect()` for ever, as no read has a timeout.

## Proofs

`ConnectionProofs` proves, for every set of threads, every channel limit and every
choice of the environment's constants (assumptions: the named ASSUMEs of
`ConnectionManager` and `Connection`, which only give the constants their types):

| Theorem | Property |
|---|---|
| `TypeCorrect` | `TypeOK` |
| `ChannelsStayKnown` | `ChannelsHeld` |
| `QueueIsNeverUsed` | `NeverQueued` |
| `BuilderIsNotShared` | `ReadExclusive` |
| `ReadLoopStaysAlive` | `ReadLoopAlive` |
| `OnlyFailureCloses` | `ErrorsAreReal` |
| `NothingWrittenOnceClosed` | `NoWriteOnceClosed` |
| `ChannelsAreOwned` | `ChannelsNotShared` |

The argument has three layers. `Basics`, the conjunction of `TypeOK`, `ChannelsHeld`
and `NeverQueued`, is inductive as a whole: the types of `chans` and `opening` need
each other, and the queue's emptiness turns `BeginWriteFrame` into one write.
Lemmas about the io thread then say what any handler does to the queue
(`QueueAppends`) and to the rest (`IoThreadEffect`: it aborts, it takes one handler
and appends completions, or `run` returns), and the other proofs cite these instead
of opening the handlers. `ReadInv` adds that reads and their completions are
exclusive; `ReadLoopAlive` follows from it. `ChannelsNotShared` rests on
`ChannelsHeld`: no thread holds a number above `Len(chans)`, so the next number is new.

### Calls, answers and the contract

The properties that depend on the broker need to know where every frame is. A frame for
the broker is posted in the io_service's queue, partly written, or accepted by the
kernel; a frame from the broker is in the socket or held by the one read completion that
waits. `TransportProofs` counts frames in all these places together (`Outward`,
`Inward`, their order `Behind`) and shows that each step of the system adds one frame,
takes one, or only keeps or loses some (`OutAdds`, `OutTakes`, `OutKept`, `InAdds`, `InTakes`,
`InKept`). Nothing after it opens the queue again.

`CallProofs` has the invariant `CallInv`. Its parts:

- `ChannelInv`: the continuation is the one the latest promise waits for;
- `PeerInv`: what the broker has opened or carried out was asked for;
- `UserInv`: a thread that is ready waits for nothing, and one about to post a request has
  not posted it yet;
- `OutInv`: a request is under way once, and if the broker can still carry it out it is
  the call the channel waits for;
- `InInv`: an answer under way is the only one, bears the number of the call that waits,
  and nothing but close-ok follows a close;
- `HeaderInv`: a header that was looked at is that of the frame whose body comes next.

No part is inductive without the others: an answer meets its call (`InInv`) because the
broker served the latest request (`OutInv`), which a thread posted after it bound the
continuation (`UserInv`). The theorems assume
`NoStrayMethods`: the broker sends neither `"Flow"` nor `"Stray"` unasked. Everything else
may happen, in any number: refusals, closes nobody asked for, heartbeats, malformed and
unknown frames, partial sends that mix frames, a socket that breaks. The assumption is
needed: a `channel.flow` during an RPC fails the call, and its late answer is then taken
for the next one's, which TLC shows within seconds when `contract` is given `"Flow"`.

| Theorem | Property |
|---|---|
| `CallsAreAnswered` | `CallInv` |
| `ContractIsKept` | `KeepsContract`: initial states map to initial states of `RpcContract`, and every step to a step of one channel or a stutter |

### When nothing fails

`QuietProofs` assumes `Quiet`: sends are whole, the socket holds, the broker refuses
nothing and says nothing unasked. These are the constants of the run `quiet`, with any
number of threads, channels and calls. Each part is needed; `close_idle`,
`open_refused` and `garbled` show what happens without. `QuietInv` adds to `CallInv`:

- `NothingFails`: the process lives, the socket is up, no send is unfinished;
- `ChannelsGranted`: no opening failed, and the broker has closed only dropped channels;
- `OutLegal`: each frame for the broker is under way once and finds its channel in the
  state it is legal in. It is stated of every frame under way and not of the first, so
  it includes that frames for one channel do not spoil each other: an open and a close are
  never under way together, nor a declare and a close;
- `InAnswers`: what comes in is open-ok, declare-ok or close-ok of a channel.

| Theorem | Property |
|---|---|
| `QuietProcessLives` | `NoAbort` |
| `QuietClientIsLegal` | `LegalOnWire` |
| `QuietChannelsAreOpen` | `OpenedOnReturn` |
| `QuietWaitsEnd` | `NoWaitInVain` |

`NoWaitInVain` is the part of `OpenChannelReturns`, `RpcEnds` and `DroppedIsClosed` that
is not about scheduling: whenever a thread waits for a pending promise, what will fulfil
it is posted, on its way to the broker, or on its way back, and a dropped channel has its
`channel.close` on the way until the broker has closed it. So no thread is left
waiting when nothing is under way; that what is under way moves on is the fairness,
and stays with TLC. Its proof has two parts for each kind of exchange: that a request is
put on its way in the step that begins the wait, and that the broker takes a request only
by putting its answer on the way, which only the handler that fulfils the promise takes.

### Handshake and shared channels

`HandshakeProofs` proves, for all hosts, brokers and limits (from
`HandshakeAssumption`):

| Theorem | Property |
|---|---|
| `HandshakeInvariant` | `HandshakeInv`, the invariant the others rest on |
| `HandshakeTypeCorrect` | `TypeOK` of `Handshake` |
| `ClientStaysInTurn` | `NeverOutOfTurn` |
| `BothSidesAgree` | `Agreement` |
| `NoThrowWithoutAReason` | `ThrowsForAReason` |
| `OneSideCanGoOn` | `NotBothWaiting`: while `connect()` waits to read, a frame has come, the connection is lost, or the broker has something to answer |
| `EndingIsConnecting` | `Spec /\ ConnectEnds => SoundBrokerConnects` |

`NeverOutOfTurn` is not inductive: it needs that the wire holds a beginning of the
script, all of what is due at `pc` while the connection stands (`InStep`). `Agreement`
needs what was checked before each write (`Checked`), and that an open-ok on its way
means that the broker has heard everything (`OpenOkIsEarned`). `ThrowKeeps` and
`WriteKeeps` are the two lemmas every step of `connect()` reduces to.

`ThrowsForAReason` says that no check of `connect()`, and no read that takes whatever frame
is next, turns down a broker that kept to the protocol. It rests on `FairInv`, which
counts: the frames `connect()` has read (`Taken`, by `pc`) and those that wait for it
are the replies to what the broker has heard, and the faults; and without faults they are
the replies in their order (`Counted`). So the next frame is the one that is due,
which is also why `connect()` and the broker never both wait. What remains of
`SoundBrokerConnects` is that `connect()` ends at all: `EndingIsConnecting` derives it from
`ConnectEnds`, for which TLC and the fairness stand.

`SharedChannelProofs` proves, for any set of threads and any number of calls (from
`ThreadsAssumption`: there is a thread, and the io thread and `m_connection` are none of
them; and `CallsAssumption`: the bound is a natural number):

| Theorem | Property |
|---|---|
| `TypeCorrect` | `TypeOK` of `SharedChannel` |
| `HeldObjectsAreAlive` | `HeldIsAlive` |
| `CloseIsTheLastFrame` | `NothingAfterClose` |
| `SerialSharingIsSafe` | `SerialCallsAreSafe` |
| `NobodyIsStranded` | `NobodyStranded` |

None of the four safety properties is inductive, and each invariant is proved on top of
`TypeInv` and `LifeInv`. `TypeInv` adds to `TypeOK` that a channel with a call has had a promise. `LifeInv` says that the
channel lives exactly while someone holds it, that threads in a call and the io thread
in a dispatch are among the holders, that the connection lives exactly while it has a
user, and that one thread at most is in the channel's destructor, with `m_connection`
still held. `WireInv` adds to `NothingAfterClose` that a channel that lives has not been
closed. `SerialInv` follows one call
through its life as long as calls have not overlapped: `OneCaller` at most is in a call,
every earlier call has its answer (`EarlierAnswered`), and the latest is in one of three
phases: `Resting` (answered, nothing on its way), `Calling` (bound, not yet posted) or
`Pending` (exactly one frame, request or answer, is on its way, and it bears the call's
number). An answer that arrives therefore meets the call it is for, and a promise that
is pending. The last part of the invariant is the only one that needs `~raced`: while
the connection lives, the one way left to end the process is a call that begins before
the io thread has left `m_continuation`.

`NobodyStranded` holds however calls overlap. Binding `m_continuation` anew breaks the promise of
the call before, so the only promise that can be pending is that of the latest call;
`TurnInv` says that while it is the continuation is still bound to it, and once its
thread waits, its own request or answer is under way (`LatestAsked`). An answer to an
overtaken call may fulfil it first, which ends the wait all the same. `CloseAsked` follows
the `channel.close` of a channel that is gone. This is the safety core of `CallsEnd` and
`DroppedIsClosed`.

### Frames

`FramingProofs` proves, for any payloads, any number of frames, any way the octets are split
on their way, and hosts of either byte order:

| Theorem | Property |
|---|---|
| `IntegersComeBack` | what `read_uint16` and `read_uint32` return is what was written |
| `FramingIsTyped` | `TypeOK` of `Framing` |
| `FramesArriveFaithfully` | `Faithful` |
| `OnlyBadFramesThrow` | `ThrowsOnlyAtFault` |
| `NoReadWaitsForNextFrame` | `NothingIsStuck` |

The theorems assume `Sized`: `Base` is 256, as in the code, and the length of a payload fits the
`uint32_t` the header has for it. A longer payload would be sent with its length modulo
2^32. The invariant, `FramingInv`, relates the octets not read yet to the frames sent. It cannot
say where a frame begins by adding up lengths, which would be recursion; instead there are
cuts (`Cuts`), one where each frame ends, such that from each to the next lie the octets of
one frame. The first frame may begin before the octets at hand: at 0 while a header is
awaited, at -8 while a body is, and the eight octets before it are what `frame_builder`
holds (`Filled`). Four lemmas say that cuts survive what the system does to the octets
(`CutsGrow`, `CutsDrop`, `CutsNext`, `CutsFirst`); `HeaderOfFrame` and `BodyOfFrame` say what the
builder finds at a cut. The value of an integer is a fold over its octets. The theorem about
folds would need induction, but the integers of a header have two and four octets, for
which the fold is built up step by step (`FoldGrows`). TLC checked the invariant, with the
cuts computed, on the run `framing`'s instance.

`NothingIsStuck` follows from the same invariant: the read under way ends at or before the first
cut after what is delivered, so the octets it asks for have been sent. It is what `Delivered` and
`FaultNoticed` need besides fairness.

### Checked by TLC only

- Liveness under fairness, which is beyond this prover: `OpenChannelReturns`, `RpcEnds`,
  `DroppedIsClosed`, `FailureNoticed`, `CallsEnd`, `ConnectEnds`, `Delivered`, `FaultNoticed`. The
  theorems above prove the safety core of each (`NoWaitInVain`, `ReadLoopAlive`,
  `NobodyStranded`, `NotBothWaiting`, `NothingIsStuck`): what is waited for is there or on
  its way, and while the connection is open a read is under way for an error to end.
  `SoundBrokerConnects` is proved from `ConnectEnds`.
- `RoundTrip`, `FrameIsFilled` and `HeaderRoundTrip` of `Marshalling`: a table may hold tables, so
  `FieldTable` declares recursive operators, what they compute for every table would
  need induction over the data, and `Methods` and `Marshalling` build on them.

## Not modelled

- What `connect()` agrees to is kept by nobody: `connection_manager` has no state for
  `channel_max`, `frame_max` or `heartbeat`, and sends no heartbeats. `Connection` has
  no timer that a broker could lose patience with.
- `write_frame_async`, which nothing calls, and the empty operations of
  `channel_impl`.
- `properties::get_serialized_size`, which nothing calls (it leaves out the two octets of
  the class that `write` produces), and the content frames it would be for: the library
  has no basic class yet.
- Runs of more bits than an `int` has: `set_bit` shifts an `int`, so a 64-bit field would
  not be what was set. No class of the protocol has one; `SignatureAssumption` says so.
- Faults in `SharedChannel`: a broker that closes a shared channel, or a socket that
  breaks. `Connection` has them for a channel of one thread, and what they do to a
  channel does not depend on who calls it.
- `to_string` and the stringifiers: presentation.

## Plan

Every component with behaviour is modelled. What would still add to the project:

1. `WritePath`: overlapping writes octet by octet, composed with `Framing`, as a
   refinement of a FIFO of frames when writes do not overlap. `garbled` already shows the
   overlap, and `Garbage` stands for its outcome.
2. `SharedChannel` with a broker that closes the channel.
