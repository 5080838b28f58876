---------------------------- MODULE SharedChannel ----------------------------
(***************************************************************************)
(* One open channel in the hands of several application threads, and how   *)
(* long it and its connection live.  Threads hold a channel and a          *)
(* connection by shared_ptr; a channel holds its connection by shared_ptr; *)
(* m_channels holds channels by weak_ptr, which the io thread locks for as *)
(* long as it dispatches a frame.  Everything else points with a raw this. *)
(*                                                                         *)
(* Connection has the io thread in full, for channels of one thread each.  *)
(* Here writes are whole and the socket does not fail, but dispatch_frame  *)
(* is taken apart into locking, calling and releasing, and the call of     *)
(* m_continuation into what it does and its return.                        *)
(***************************************************************************)
EXTENDS ChannelImpl, Sequences

CONSTANTS
  Threads,  \* application threads
  IoThread, \* the thread that runs the io_service
  MaxCalls  \* bound: RPCs on the channel

(* m_connection of the channel, as a user of the connection.               *)
TheChannel == "m_connection"

ASSUME ThreadsAssumption ==
  Threads # {} /\ TheChannel \notin Threads /\ IoThread \notin Threads

ASSUME CallsAssumption == MaxCalls \in Nat

VARIABLES
  chan,       \* the channel; live until the last reference to it goes
  past,       \* the promises of its calls before the latest
  holders,    \* who has a shared_ptr to the channel
  users,      \* who has a shared_ptr to the connection, m_connection included
  conn,       \* the connection: "alive" or "destroyed"
  pc,         \* where each application thread is
  mine,       \* the latest call of each thread, 0 before the first
  io,         \* where the io thread is, and the frame it is dispatching
  posted,     \* handlers of the io_service: frames for begin_write_frame
  out, in,    \* what the broker, and what the io thread, has yet to read
  peer,       \* the channel at the broker: "open" or "closed"
  overlapped, \* history: two calls have been under way at the same time
  raced       \* history: a call has begun while m_continuation was being called

history == <<overlapped, raced>>
vars == <<chan, past, holders, users, conn, pc, mine, io, posted, out, in, peer, history>>

Id == 1

(***************************************************************************)
(* The channel has been opened and handed to every thread.  open_channel   *)
(* returns once process_open has satisfied its promise, so the io thread   *)
(* may still be in it, with the reference dispatch_frame has.              *)
(***************************************************************************)
Init ==
  /\ chan = [NewChannel EXCEPT !.opened = "value"]
  /\ past = <<>>
  /\ \/ io = [at |-> "idle", f |-> Garbage] /\ holders = Threads
     \/ io = [at |-> "leaving", f |-> Frame(Id, "OpenOk", 0)] /\ holders = Threads \cup {IoThread}
  /\ users = Threads \cup {TheChannel}
  /\ conn = "alive"
  /\ pc = [t \in Threads |-> "ready"]
  /\ mine = [t \in Threads |-> 0]
  /\ posted = <<>> /\ out = <<>> /\ in = <<>>
  /\ peer = "open"
  /\ overlapped = FALSE /\ raced = FALSE

IoAt(where) == io.at = where
IoGoto(where) == io' = [io EXCEPT !.at = where]

At(t, where)   == ~IoAt("aborted") /\ pc[t] = where
Goto(t, where) == pc' = [pc EXCEPT ![t] = where]

InCall(t) == pc[t] \in {"posting", "awaitRpc"}

(* A thread is in begin_rpc and may be binding m_continuation.             *)
Rebinding == \E t \in Threads : pc[t] = "posting"

(* The io thread is about to call m_continuation, or has not left it yet.  *)
InContinuation == IoAt("dispatching") \/ IoAt("leaving")

-----------------------------------------------------------------------------
(***************************************************************************)
(* The promise of call n.  The continuation is all that keeps a promise    *)
(* once begin_rpc has returned: when it is rebound before an answer the    *)
(* promise goes, and its destructor leaves broken_promise in the future.   *)
(***************************************************************************)
Promise(n) == IF n = chan.calls THEN [st |-> chan.rpc, got |-> chan.got] ELSE past[n]

(* Mutant of Overtaken: the promise outlives its continuation.             *)
OvertakenKept(promise) == promise

Overtaken(promise) ==
  IF promise.st = "pending" THEN [promise EXCEPT !.st = "exception"] ELSE promise

(***************************************************************************)
(* begin_rpc up to the post.  Nothing keeps two threads from binding       *)
(* m_continuation at once, nor from binding it while the io thread is in   *)
(* it, which destroys the handler and the promise it runs with: that is    *)
(* undefined, and one binding or the other is used or the process ends.    *)
(***************************************************************************)
BeginRpc(t) ==
  /\ At(t, "ready") /\ t \in holders /\ chan.calls < MaxCalls
  /\ ~ChannelClosedFutureReady(chan)
  /\ chan' = ArmRpc(chan)
  /\ past' = IF chan.calls = 0 THEN past ELSE Append(past, Overtaken(Promise(chan.calls)))
  /\ mine' = [mine EXCEPT ![t] = chan.calls + 1]
  /\ overlapped' = (overlapped \/ \E u \in Threads \ {t} : InCall(u))
  /\ raced' = (raced \/ InContinuation)
  /\ Goto(t, "posting")
  /\ \/ (InContinuation \/ Rebinding) /\ IoGoto("aborted")
     \/ UNCHANGED io
  /\ UNCHANGED <<holders, users, conn, posted, out, in, peer>>

PostRpc(t) ==
  /\ At(t, "posting")
  /\ posted' = Append(posted, Frame(Id, "Declare", mine[t]))
  /\ Goto(t, "awaitRpc")
  /\ UNCHANGED <<chan, past, holders, users, conn, mine, io, out, in, peer, history>>

(* The wait ends with the promise; get() returns the answer or throws.     *)
RpcReturns(t) ==
  /\ At(t, "awaitRpc")
  /\ Promise(mine[t]).st # "pending"
  /\ Goto(t, "ready")
  /\ UNCHANGED <<chan, past, holders, users, conn, mine, io, posted, out, in, peer, history>>

-----------------------------------------------------------------------------
(***************************************************************************)
(* References.  The destructor of the channel posts channel.close and then *)
(* releases m_connection, two steps between which other threads run.       *)
(***************************************************************************)
(* Mutant of IsLast: the reference of the io thread does not count.        *)
IsLastOfThreads(h) == holders \ {IoThread} \subseteq {h}

IsLast(h) == holders \subseteq {h}

(* Mutant of DestroyChannel: it says nothing to the broker.                *)
DestroyChannelSilently ==
  /\ chan' = Destroyed(chan)
  /\ UNCHANGED posted

DestroyChannel ==
  /\ chan' = Destroyed(chan)
  /\ posted' = Append(posted, Frame(Id, "Close", 0))

(***************************************************************************)
(* The destructor of connection_impl takes the manager with it: handlers   *)
(* that are queued are destroyed and the socket is closed, under the feet  *)
(* of a thread that nobody joins.  That is undefined: the io thread never  *)
(* runs another handler, or brings the process down.                       *)
(***************************************************************************)
DestroyConnection ==
  /\ conn' = "destroyed"
  /\ posted' = <<>> /\ in' = <<>>
  /\ (IoGoto("stopped") \/ IoGoto("aborted"))

ReleaseConnection(h, next) ==
  /\ users' = users \ {h}
  /\ IF users \subseteq {h} THEN DestroyConnection
     ELSE io' = next /\ UNCHANGED <<conn, posted, in>>

DropChannel(t) ==
  /\ At(t, "ready") /\ t \in holders
  /\ holders' = holders \ {t}
  /\ IF IsLast(t) THEN DestroyChannel /\ Goto(t, "releasing")
                  ELSE UNCHANGED <<chan, posted, pc>>
  /\ UNCHANGED <<past, users, conn, mine, io, out, in, peer, history>>

ReleaseLast(t) ==
  /\ At(t, "releasing")
  /\ ReleaseConnection(TheChannel, io)
  /\ Goto(t, "ready")
  /\ UNCHANGED <<chan, past, holders, mine, out, peer, history>>

DropConnection(t) ==
  /\ At(t, "ready") /\ t \in users
  /\ ReleaseConnection(t, io)
  /\ UNCHANGED <<chan, past, holders, pc, mine, out, peer, history>>

Application(t) == \/ BeginRpc(t) \/ PostRpc(t) \/ RpcReturns(t)
                  \/ DropChannel(t) \/ ReleaseLast(t) \/ DropConnection(t)

-----------------------------------------------------------------------------
(* The io thread.                                                          *)
RunBeginWriteFrame ==
  /\ IoAt("idle") /\ posted # <<>>
  /\ out' = Append(out, Head(posted))
  /\ posted' = Tail(posted)
  /\ UNCHANGED <<chan, past, holders, users, conn, pc, mine, io, in, peer, history>>

(* Mutant of Lock: dispatch_frame has a raw pointer to the channel.        *)
LockRaw == UNCHANGED holders

Lock == holders' = holders \cup {IoThread}

(* dispatch_frame; a frame for a channel that is gone is dropped.          *)
DispatchFrame ==
  /\ IoAt("idle") /\ in # <<>>
  /\ in' = Tail(in)
  /\ \/ chan.live /\ Lock /\ io' = [at |-> "dispatching", f |-> Head(in)]
     \/ ~chan.live /\ UNCHANGED <<holders, io>>
  /\ UNCHANGED <<chan, past, users, conn, pc, mine, posted, out, peer, history>>

(***************************************************************************)
(* The handler satisfies the promise, which lets the caller go on while    *)
(* the io thread has yet to return from m_continuation.                    *)
(***************************************************************************)
CallContinuation ==
  /\ IoAt("dispatching")
  /\ \/ LET result == ProcessFrame(chan, io.f)
        IN  IF result.thrown \in {"none", "connection_exception"}
            THEN chan' = result.chan /\ IoGoto("leaving")
            ELSE IoGoto("aborted") /\ UNCHANGED chan
     \/ Rebinding /\ IoGoto("aborted") /\ UNCHANGED chan
  /\ UNCHANGED <<past, holders, users, conn, pc, mine, posted, out, in, peer, history>>

LeaveContinuation ==
  /\ IoAt("leaving")
  /\ IoGoto("returning")
  /\ UNCHANGED <<chan, past, holders, users, conn, pc, mine, posted, out, in, peer, history>>

(***************************************************************************)
(* The end of dispatch_frame.  If every thread has dropped the channel     *)
(* meanwhile its destructor runs here, inside a handler of the manager.    *)
(***************************************************************************)
Unlock ==
  /\ IoAt("returning")
  /\ holders' = holders \ {IoThread}
  /\ IF IsLast(IoThread) THEN DestroyChannel /\ IoGoto("releasing")
                         ELSE IoGoto("idle") /\ UNCHANGED <<chan, posted>>
  /\ UNCHANGED <<past, users, conn, pc, mine, out, in, peer, history>>

UnlockLast ==
  /\ IoAt("releasing")
  /\ ReleaseConnection(TheChannel, [io EXCEPT !.at = "idle"])
  /\ UNCHANGED <<chan, past, holders, pc, mine, out, peer, history>>

IoStep == \/ RunBeginWriteFrame \/ DispatchFrame
          \/ CallContinuation \/ LeaveContinuation
          \/ Unlock \/ UnlockLast

(* The broker answers in order.  What it sends after the socket is closed  *)
(* is lost.                                                                *)
Answers(kind, tag) ==
  in' = IF conn = "alive" THEN Append(in, Frame(Id, kind, tag)) ELSE in

Broker ==
  /\ ~IoAt("aborted") /\ out # <<>>
  /\ out' = Tail(out)
  /\ \/ /\ Head(out).kind = "Declare"
        /\ Answers("DeclareOk", Head(out).tag) /\ UNCHANGED peer
     \/ /\ Head(out).kind = "Close"
        /\ Answers("CloseOk", 0) /\ peer' = "closed"
  /\ UNCHANGED <<chan, past, holders, users, conn, pc, mine, io, posted, history>>

Next == (\E t \in Threads : Application(t)) \/ IoStep \/ Broker

Spec == Init /\ [][Next]_vars

(* Threads go on after a wait and in a destructor; none need call or drop. *)
Fairness ==
  /\ WF_vars(IoStep) /\ WF_vars(Broker)
  /\ \A t \in Threads : WF_vars(PostRpc(t) \/ RpcReturns(t) \/ ReleaseLast(t))

FairSpec == Spec /\ Fairness

-----------------------------------------------------------------------------
(* A promise that has been overtaken is never pending.                     *)
PastPromises == [st : {"value", "exception"}, got : Nat]

(* Every variable has its type, and an earlier call its outcome.           *)
TypeOK ==
  /\ chan \in ChannelStates
  /\ past \in Seq(PastPromises) /\ Len(past) = IF chan.calls = 0 THEN 0 ELSE chan.calls - 1
  /\ holders \subseteq Threads \cup {IoThread}
  /\ users \subseteq Threads \cup {TheChannel}
  /\ conn \in {"alive", "destroyed"}
  /\ pc \in [Threads -> {"ready", "posting", "awaitRpc", "releasing"}]
  /\ mine \in [Threads -> 0 .. chan.calls]
  /\ io \in [at : {"idle", "dispatching", "leaving", "returning", "releasing", "stopped",
                   "aborted"}, f : Frames]
  /\ posted \in Seq(Frames) /\ out \in Seq(Frames) /\ in \in Seq(Frames)
  /\ peer \in {"open", "closed"}
  /\ overlapped \in BOOLEAN /\ raced \in BOOLEAN

(***************************************************************************)
(* Whoever is in a member function of the channel, a thread in a call or   *)
(* the io thread in process_frame, is in an object that is alive, and so   *)
(* is the connection it goes on to use.                                    *)
(***************************************************************************)
InsideChannel == (\E t \in Threads : InCall(t)) \/ InContinuation \/ IoAt("returning")

HeldIsAlive ==
  /\ InsideChannel => chan.live
  /\ chan.live => conn = "alive"

(***************************************************************************)
(* Threads that never overlap their calls may share a channel: each call   *)
(* that has ended has its own answer.  What can still bring the process    *)
(* down, besides the end of the connection, is the next call itself, if it *)
(* begins when the last has returned but the io thread has not yet left    *)
(* m_continuation, which the callers cannot know.                          *)
(***************************************************************************)
SerialCallsAreSafe ==
  ~overlapped =>
    /\ conn = "alive" /\ ~raced => ~IoAt("aborted")
    /\ \A t \in Threads : ~InCall(t) /\ mine[t] # 0 =>
         Promise(mine[t]) = [st |-> "value", got |-> mine[t]]

(***************************************************************************)
(* channel.close is the last frame of the channel, whichever thread sends  *)
(* it: nothing follows it to the broker, nor to the write queue.           *)
(***************************************************************************)
Sent == out \o posted

NothingAfterClose ==
  /\ peer = "closed" => Sent = <<>>
  /\ \A i \in 1 .. Len(Sent) - 1 : Sent[i].kind # "Close"

(* A frame on its way to the broker; a call whose request or answer is.    *)
Sending(f) == \E k \in DOMAIN Sent : Sent[k] = f

UnderWay(n) ==
  \/ Sending(Frame(Id, "Declare", n))
  \/ \E k \in DOMAIN in : in[k] = Frame(Id, "DeclareOk", n)
  \/ IoAt("dispatching") /\ io.f = Frame(Id, "DeclareOk", n)

(***************************************************************************)
(* However the threads overtake each other, a thread that waits for a      *)
(* pending promise waits for a request, or an answer, that is under way:   *)
(* no rebinding of m_continuation leaves a promise that nobody will        *)
(* satisfy.  And a channel that is gone has its channel.close under way    *)
(* until the broker has closed it.                                         *)
(***************************************************************************)
NobodyStranded ==
  ~IoAt("aborted") =>
    /\ \A t \in Threads : pc[t] = "awaitRpc" /\ Promise(mine[t]).st = "pending" =>
                           UnderWay(mine[t])
    /\ ~chan.live => peer = "closed" \/ conn = "destroyed" \/ Sending(Frame(Id, "Close", 0))

(***************************************************************************)
(* A call ends even if other threads overtake it: with an answer, with     *)
(* broken_promise, or with the process.                                    *)
(***************************************************************************)
CallsEnd == \A t \in Threads : InCall(t) ~> (~InCall(t) \/ IoAt("aborted"))

(***************************************************************************)
(* A channel nobody holds any more is closed at the broker, whichever      *)
(* thread is the last, unless the connection goes as well.                 *)
(***************************************************************************)
DroppedIsClosed ==
  ~chan.live ~> (peer = "closed" \/ conn = "destroyed" \/ IoAt("aborted"))

=============================================================================
