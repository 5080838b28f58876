------------------------------ MODULE Connection ------------------------------
(***************************************************************************)
(* One connection at work: the io thread (ConnectionManager), application  *)
(* threads that open channels, run RPCs on them and drop them, and the     *)
(* broker at the other end of the socket.  Each thread uses a channel of   *)
(* its own; all of them share the connection.                              *)
(*                                                                         *)
(* Handlers of the io thread run whole.  What a thread does between the    *)
(* promise that wakes it and the io thread's return from m_continuation is *)
(* the subject of SharedChannel: to rebind m_continuation then is          *)
(* undefined, and its end of the process is not an outcome here.           *)
(***************************************************************************)
EXTENDS ConnectionManager

CONSTANTS
  MaxCalls,      \* bound: RPCs on one channel
  MaxFaults,     \* bound: things the broker or the network does unasked
  Unsolicited,   \* kinds of frames the broker may send unasked
  BrokerRefuses, \* TRUE if the broker may answer a request by channel.close
  SocketFails    \* TRUE if the TCP connection may break

ASSUME BoundsAssumption == MaxCalls \in Nat /\ MaxFaults \in Nat
ASSUME UnsolicitedAssumption == Unsolicited \subseteq BrokerKinds \cup {"Stray"}
ASSUME FaultsAssumption == BrokerRefuses \in BOOLEAN /\ SocketFails \in BOOLEAN

VARIABLES
  pc,      \* where each application thread is
  own,     \* the channel it holds, 0 when none
  peer,    \* the broker's state of each channel number
  served,  \* history: the tags of the declares the broker has carried out
  faults   \* history: how many of MaxFaults have been used

userVars   == <<pc, own>>
brokerVars == <<peer, served, faults>>
vars == <<mgrVars, userVars, brokerVars>>

Ids == 1 .. MaxChannelId

PcStates == {"idle", "awaitChannel", "awaitOpen", "ready", "posting", "awaitRpc"}

TypeOK ==
  /\ MgrTypeOK
  /\ Len(chans) \in 0 .. MaxChannelId
  /\ pc \in [Users -> PcStates]
  /\ own \in [Users -> 0 .. MaxChannelId]
  /\ peer \in [Ids -> {"none", "open", "closing", "closed"}]
  /\ served \in [Ids -> SUBSET Nat]
  /\ faults \in 0 .. MaxFaults

Init ==
  /\ MgrInit
  /\ pc = [u \in Users |-> "idle"]
  /\ own = [u \in Users |-> 0]
  /\ peer = [i \in Ids |-> "none"]
  /\ served = [i \in Ids |-> {}]
  /\ faults = 0

-----------------------------------------------------------------------------
(***************************************************************************)
(* Application threads.  When the io thread has brought the process down   *)
(* nobody takes a step.                                                    *)
(***************************************************************************)
At(u, where)   == io # "aborted" /\ pc[u] = where
Goto(u, where) == pc' = [pc EXCEPT ![u] = where]

Chan(u) == chans[own[u]]

(* connection_impl::open_channel, up to new_channel_promise.get().         *)
OpenChannel(u) ==
  /\ At(u, "idle")
  /\ BeginOpenChannel(u)
  /\ Goto(u, "awaitChannel")
  /\ UNCHANGED <<own, brokerVars>>

(* get() returns the channel, or throws what create_next_channel threw.    *)
GetChannel(u) ==
  /\ At(u, "awaitChannel")
  /\ \/ /\ opening[u].st = "value"
        /\ own' = [own EXCEPT ![u] = opening[u].id]
        /\ Goto(u, "awaitOpen")
     \/ /\ opening[u].st = "exception"
        /\ Goto(u, "idle")
        /\ UNCHANGED own
  /\ UNCHANGED <<mgrVars, brokerVars>>

(* Mutant of OpenReturns: it does not wait for channel.open-ok.            *)
OpenReturnsAtOnce(u) ==
  /\ At(u, "awaitOpen")
  /\ Goto(u, "ready")
  /\ UNCHANGED <<mgrVars, own, brokerVars>>

(***************************************************************************)
(* m_connection_closed_promise is never given a value, so wait_for_any     *)
(* waits for the channel's promise alone.  Which of the two is ready, and  *)
(* whether it holds an exception, is not looked at.                        *)
(***************************************************************************)
OpenReturns(u) ==
  /\ At(u, "awaitOpen")
  /\ Chan(u).opened # "pending"
  /\ Goto(u, "ready")
  /\ UNCHANGED <<mgrVars, own, brokerVars>>

(***************************************************************************)
(* declare_exchange in three steps: begin_rpc rebinds the continuation,    *)
(* then posts the request, then the thread waits for the answer.           *)
(***************************************************************************)
BeginRpc(u) ==
  /\ At(u, "ready") /\ Chan(u).calls < MaxCalls
  /\ IF ChannelClosedFutureReady(Chan(u)) THEN UNCHANGED <<chans, pc>>
     ELSE /\ chans' = [chans EXCEPT ![own[u]] = ArmRpc(@)]
          /\ Goto(u, "posting")
  /\ UNCHANGED <<ioq, io, state, writeq, pend, reading, opening, sock, out, in,
                 own, brokerVars>>

PostRpc(u) ==
  /\ At(u, "posting")
  /\ BeginWriteMethod(Frame(own[u], "Declare", Chan(u).calls))
  /\ Goto(u, "awaitRpc")
  /\ UNCHANGED <<io, state, chans, writeq, pend, reading, opening, sock, out, in,
                 own, brokerVars>>

RpcReturns(u) ==
  /\ At(u, "awaitRpc")
  /\ Chan(u).rpc # "pending" \/ ChannelClosedFutureReady(Chan(u))
  /\ Goto(u, "ready")
  /\ UNCHANGED <<mgrVars, own, brokerVars>>

(* Mutant of DropChannel: close_ does not send channel.close.              *)
DropChannelSilently(u) ==
  /\ At(u, "ready")
  /\ chans' = [chans EXCEPT ![own[u]] = Destroyed(@)]
  /\ own' = [own EXCEPT ![u] = 0]
  /\ Goto(u, "idle")
  /\ UNCHANGED <<ioq, io, state, writeq, pend, reading, opening, sock, out, in, brokerVars>>

(* The last reference to the channel goes: its destructor runs.            *)
DropChannel(u) ==
  /\ At(u, "ready")
  /\ chans' = [chans EXCEPT ![own[u]] = Destroyed(@)]
  /\ BeginWriteMethod(Frame(own[u], "Close", 0))
  /\ own' = [own EXCEPT ![u] = 0]
  /\ Goto(u, "idle")
  /\ UNCHANGED <<io, state, writeq, pend, reading, opening, sock, out, in, brokerVars>>

Application(u) == \/ OpenChannel(u) \/ GetChannel(u) \/ OpenReturns(u)
                  \/ BeginRpc(u) \/ PostRpc(u) \/ RpcReturns(u)
                  \/ DropChannel(u)

-----------------------------------------------------------------------------
(***************************************************************************)
(* The broker, as far as the client can tell.  A frame is legal if the     *)
(* AMQP channel life cycle allows it in the channel's state; a broker that *)
(* has sent channel.close ignores requests until the channel.close-ok, and *)
(* answers a frame that is not legal by closing the connection.            *)
(***************************************************************************)
Legal(f) ==
  CASE f.kind = "Open"                 -> peer[f.ch] = "none"
    [] f.kind \in {"Declare", "Close"} -> peer[f.ch] \in {"open", "closing"}
    [] f.kind = "CloseOk"              -> peer[f.ch] = "closing"
    [] OTHER                           -> FALSE

Request == Head(out)

Receives(kind) ==
  /\ io # "aborted" /\ sock = "up" /\ out # <<>>
  /\ Request.kind = kind /\ Legal(Request)
  /\ out' = Tail(out)
  /\ UNCHANGED <<ioq, io, state, chans, writeq, pend, reading, opening, sock,
                 userVars, faults>>

Sends(ch, kind, tag) == in' = Append(in, Frame(ch, kind, tag))
Peer(ch, where)      == peer' = [peer EXCEPT ![ch] = where]

BrokerOpens ==
  /\ Receives("Open")
  /\ \/ Sends(Request.ch, "OpenOk", 0) /\ Peer(Request.ch, "open")
     \/ BrokerRefuses /\ Sends(Request.ch, "Close", 0) /\ Peer(Request.ch, "closing")
  /\ UNCHANGED served

BrokerDeclares ==
  /\ Receives("Declare")
  /\ \/ /\ peer[Request.ch] = "open"
        /\ Sends(Request.ch, "DeclareOk", Request.tag)
        /\ served' = [served EXCEPT ![Request.ch] = @ \cup {Request.tag}]
        /\ UNCHANGED peer
     \/ /\ BrokerRefuses /\ peer[Request.ch] = "open"
        /\ Sends(Request.ch, "Close", 0) /\ Peer(Request.ch, "closing")
        /\ UNCHANGED served
     \/ peer[Request.ch] = "closing" /\ UNCHANGED <<in, peer, served>>

BrokerCloses ==
  /\ Receives("Close")
  /\ Sends(Request.ch, "CloseOk", 0)
  /\ Peer(Request.ch, IF peer[Request.ch] = "open" THEN "closed" ELSE "closing")
  /\ UNCHANGED served

BrokerIsClosed ==
  /\ Receives("CloseOk")
  /\ Peer(Request.ch, "closed")
  /\ UNCHANGED <<in, served>>

ProtocolError ==
  /\ io # "aborted" /\ sock = "up" /\ out # <<>> /\ ~Legal(Request)
  /\ out' = Tail(out)
  /\ Sends(0, "ConnClose", 0)
  /\ UNCHANGED <<ioq, io, state, chans, writeq, pend, reading, opening, sock,
                 userVars, brokerVars>>

Broker == BrokerOpens \/ BrokerDeclares \/ BrokerCloses \/ BrokerIsClosed \/ ProtocolError

(***************************************************************************)
(* What nobody asked for.  "Stray" is a method for a channel the broker    *)
(* was never asked to open.                                                *)
(***************************************************************************)
BrokerSpeaks ==
  /\ io # "aborted" /\ sock = "up" /\ faults < MaxFaults
  /\ faults' = faults + 1
  /\ \/ \E kind \in Unsolicited \cap {"ConnClose", "Heartbeat"} :
          Sends(0, kind, 0) /\ UNCHANGED peer
     \/ \E kind \in Unsolicited \cap {"Flow", "Unknown", "Malformed"}, i \in Ids :
          peer[i] = "open" /\ Sends(i, kind, 0) /\ UNCHANGED peer
     \/ \E kind \in Unsolicited \cap {"Close"}, i \in Ids :
          peer[i] = "open" /\ Sends(i, kind, 0) /\ Peer(i, "closing")
     \/ \E kind \in Unsolicited \cap {"Stray"}, i \in Ids :
          peer[i] = "none" /\ Sends(i, "Flow", 0) /\ UNCHANGED peer
  /\ UNCHANGED <<ioq, io, state, chans, writeq, pend, reading, opening, sock, out,
                 userVars, served>>

(* What the kernel has not delivered yet may be lost with the connection.  *)
SocketBreaks ==
  /\ SocketFails /\ io # "aborted" /\ sock = "up"
  /\ sock' = "broken"
  /\ out' = <<>>
  /\ \E n \in 0 .. Len(in) : in' = SubSeq(in, 1, n)
  /\ UNCHANGED <<ioq, io, state, chans, writeq, pend, reading, opening,
                 userVars, brokerVars>>

Outside == BrokerSpeaks \/ SocketBreaks

-----------------------------------------------------------------------------
IoStep      == IoThread /\ UNCHANGED <<userVars, brokerVars>>
ReactorStep == Reactor /\ UNCHANGED <<userVars, brokerVars>>

Next == \/ IoStep
        \/ ReactorStep
        \/ \E u \in Users : Application(u)
        \/ Broker
        \/ Outside

Spec == Init /\ [][Next]_vars

(***************************************************************************)
(* The io thread runs while it has work, the kernel moves bytes, a broker  *)
(* answers, and a thread whose wait is over goes on.  Nothing makes an     *)
(* application call the library, and nothing makes a fault happen.         *)
(***************************************************************************)
Fairness ==
  /\ WF_vars(IoStep)
  /\ WF_vars(ReactorStep)
  /\ WF_vars(Broker)
  /\ \A u \in Users : WF_vars(GetChannel(u) \/ OpenReturns(u) \/ PostRpc(u) \/ RpcReturns(u))

FairSpec == Spec /\ Fairness

-----------------------------------------------------------------------------
(***************************************************************************)
(* Properties of the read side and the write side, whatever the broker,    *)
(* the network and the applications do.                                    *)
(***************************************************************************)
ReadHandlers ==
  {i \in DOMAIN ioq : ioq[i].h \in {"on_frame_header_read", "on_frame_body_read"}}

(***************************************************************************)
(* The one m_builder is never used by two reads: while an async_read fills *)
(* it no completion is waiting to look at it, and never do two wait.       *)
(***************************************************************************)
ReadExclusive ==
  /\ \A i, j \in ReadHandlers : i = j
  /\ reading # "none" => ReadHandlers = {}

(***************************************************************************)
(* The read loop never dies while the connection is open: every path       *)
(* through dispatch_frame starts the next read or closes the connection,   *)
(* so frames keep being delivered, and io_service::run does not return.    *)
(***************************************************************************)
ReadLoopAlive ==
  /\ io = "running" /\ state = "open" => reading # "none" \/ ReadHandlers # {}
  /\ io = "stopped" => state = "closed"

(***************************************************************************)
(* m_write_queue never holds a frame between two handlers, so it never     *)
(* makes a write wait for the one before it: begin_write_frame pops the    *)
(* frame before the write it starts is over.                               *)
(***************************************************************************)
NeverQueued == writeq = <<>>

(***************************************************************************)
(* Once on_socket_close has run, no handler left in the queue, posted      *)
(* before or after, starts a write: a handler that is run is only taken    *)
(* out of the queue, and leaves no completion behind it.                   *)
(***************************************************************************)
NoWriteOnceClosed ==
  [][state = "closed" => /\ Len(ioq') = Len(ioq) => ioq' = ioq
                         /\ Len(pend') <= Len(pend)]_vars

(***************************************************************************)
(* The connection is closed, and completions report errors, only when the  *)
(* socket has failed.                                                      *)
(***************************************************************************)
Completions == {"on_write_frame", "on_frame_header_read", "on_frame_body_read"}

ErrorsAreReal ==
  /\ state = "closed" => sock = "broken"
  /\ \A i \in DOMAIN ioq : ioq[i].h \in Completions /\ ~ioq[i].ok => sock = "broken"

(***************************************************************************)
(* A thread that is given a channel, or holds one, has a channel that is   *)
(* in m_channels: the frames for it find it there.                         *)
(***************************************************************************)
ChannelsHeld ==
  \A u \in Users :
    /\ opening[u].id \in 0 .. Len(chans)
    /\ opening[u].st = "value" => opening[u].id # 0
    /\ own[u] \in 0 .. Len(chans)
    /\ own[u] = 0 <=> pc[u] \in {"idle", "awaitChannel"}

(***************************************************************************)
(* Channels opened by threads at the same time are different ones, from    *)
(* the promise of start_open_channel to the last use.                      *)
(***************************************************************************)
Holds(u) == IF pc[u] = "awaitChannel" THEN opening[u].id ELSE own[u]

ChannelsNotShared ==
  \A u, v \in Users : u # v /\ Holds(u) # 0 => Holds(u) # Holds(v)

-----------------------------------------------------------------------------
(* Properties that depend on what the broker and the network do.           *)

(***************************************************************************)
(* No exception leaves io_service::run: the process is not terminated by   *)
(* one.  (For the rebinding of a continuation in use, see SharedChannel.)  *)
(***************************************************************************)
NoAbort == io # "aborted"

(***************************************************************************)
(* Every frame the client sends is one the broker may receive then: open   *)
(* comes first and once, nothing follows close or close-ok, close-ok       *)
(* answers a close, and frames are not mixed.                              *)
(***************************************************************************)
LegalOnWire == sock = "up" /\ out # <<>> => Legal(Request)

(* No bytes of two frames are mixed on the wire.                           *)
NoGarbage == \A i \in DOMAIN out : out[i] # Garbage

(* open_channel returns only a channel the broker has opened.              *)
OpenedOnReturn ==
  \A u \in Users : pc[u] \in {"ready", "posting", "awaitRpc"} =>
                     Chan(u).opened = "value"

(* Once the connection is closed every channel in use has been told.       *)
AllNotified ==
  io # "aborted" /\ state = "closed" => \A i \in Live : chans[i].closed

(* A frame on its way, to the broker or from it.                           *)
Posted(handler) == \E k \in DOMAIN ioq : ioq[k] = handler

ToBroker(f) == \/ Posted(Write(f))
               \/ \E k \in DOMAIN pend : pend[k].f = f
               \/ \E k \in DOMAIN out : out[k] = f

ToClient(f) == Posted(ReadBody(TRUE, f)) \/ \E k \in DOMAIN in : in[k] = f

Exchange(i, request, answer, tag) ==
  ToBroker(Frame(i, request, tag)) \/ ToClient(Frame(i, answer, tag))

(***************************************************************************)
(* Nobody waits for what nobody has to do: as long as a promise that a     *)
(* thread waits for is pending, the handler that makes the channel, or the *)
(* request, or the answer to that very request, is on its way; and a       *)
(* channel that was dropped has its channel.close on the way until it is   *)
(* closed.  So when nothing is under way no thread waits.                  *)
(***************************************************************************)
NoWaitInVain ==
  /\ \A u \in Users :
       /\ pc[u] = "awaitChannel" /\ opening[u].st = "pending" => Posted(StartOpen(u))
       /\ pc[u] = "awaitRpc" /\ Chan(u).rpc = "pending" =>
            Exchange(own[u], "Declare", "DeclareOk", Chan(u).calls)
  /\ \A i \in DOMAIN chans :
       /\ chans[i].opened = "pending" => Exchange(i, "Open", "OpenOk", 0)
       /\ ~chans[i].live => peer[i] = "closed" \/ ToBroker(Frame(i, "Close", 0))

(***************************************************************************)
(* A thread that calls the library gets its turn back.                     *)
(***************************************************************************)
Opening(u) == pc[u] \in {"awaitChannel", "awaitOpen"}

OpenChannelReturns ==
  \A u \in Users : Opening(u) ~> (~Opening(u) \/ io = "aborted")

RpcEnds ==
  \A u \in Users : pc[u] = "awaitRpc" ~> (pc[u] # "awaitRpc" \/ io = "aborted")

(* A channel that its thread drops is closed at the broker as well.        *)
DroppedIsClosed ==
  \A i \in Ids : (i \in DOMAIN chans /\ i \notin Live) ~> (peer[i] = "closed")

(* A broken socket is noticed.                                             *)
FailureNoticed == (sock = "broken") ~> (state = "closed" \/ io = "aborted")

(***************************************************************************)
(* The channels keep the contract of RpcContract.  A channel that does not *)
(* exist yet has made no call.                                             *)
(***************************************************************************)
Of(i, field, default) == IF i \in DOMAIN chans THEN chans[i][field] ELSE default

Contract == INSTANCE RpcContract WITH
  Channels <- Ids,
  calls    <- [i \in Ids |-> Of(i, "calls", 0)],
  outcome  <- [i \in Ids |-> Of(i, "rpc", "none")],
  answer   <- [i \in Ids |-> Of(i, "got", 0)],
  served   <- served

KeepsContract == Contract!Spec

=============================================================================
