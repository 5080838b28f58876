------------------------- MODULE SharedChannelProofs -------------------------
(***************************************************************************)
(* What holds of a shared channel for any number of threads and calls.     *)
(***************************************************************************)
EXTENDS SharedChannel, TLAPS

(* Every call has a promise.                                               *)
TypeInv == TypeOK /\ (chan.calls > 0 => chan.rpc # "none")

Releasing(t) == pc[t] = "releasing"

(***************************************************************************)
(* References keep alive what they refer to: the holders the channel, the  *)
(* channel its connection until its destructor has ended.  Whoever is in   *)
(* the channel holds it, and one thread at most destroys it.               *)
(***************************************************************************)
LifeInv ==
  /\ chan.live <=> holders # {}
  /\ chan.live => TheChannel \in users
  /\ conn = "alive" <=> users # {}
  /\ \A t \in Threads : InCall(t) => t \in holders
  /\ InContinuation \/ IoAt("returning") => IoThread \in holders
  /\ IoAt("releasing") => ~chan.live /\ TheChannel \in users
  /\ \A t \in Threads : Releasing(t) =>
       /\ ~chan.live /\ TheChannel \in users /\ ~IoAt("releasing")
       /\ \A u \in Threads : Releasing(u) => u = t

(* A channel that lives has not sent channel.close.                        *)
WireInv ==
  /\ chan.live => peer = "open" /\ \A i \in 1 .. Len(Sent) : Sent[i].kind # "Close"
  /\ NothingAfterClose

(***************************************************************************)
(* While calls are serial, what is on its way between the channel and the  *)
(* broker is the request of the call under way or its answer.              *)
(***************************************************************************)
Request == Frame(Id, "Declare", chan.calls)
Reply   == Frame(Id, "DeclareOk", chan.calls)

Answered == chan.calls > 0 => chan.rpc = "value" /\ chan.got = chan.calls
Waiting  == chan.rpc = "pending" /\ chan.cont = "rpc_handler"

Silent == posted = <<>> /\ out = <<>> /\ in = <<>> /\ ~IoAt("dispatching")

OnItsWay ==
  \/ posted = <<Request>> /\ out = <<>> /\ in = <<>> /\ ~IoAt("dispatching")
  \/ posted = <<>> /\ out = <<Request>> /\ in = <<>> /\ ~IoAt("dispatching")
  \/ posted = <<>> /\ out = <<>> /\ in = <<Reply>> /\ ~IoAt("dispatching")
  \/ posted = <<>> /\ out = <<>> /\ in = <<>> /\ IoAt("dispatching") /\ io.f = Reply

Resting == Silent /\ Answered /\ ~Rebinding
Calling == Silent /\ Waiting /\ Rebinding
Pending == OnItsWay /\ Waiting /\ ~Rebinding /\ \E t \in Threads : pc[t] = "awaitRpc"

(* One call at a time, each the latest of its thread.                      *)
OneCaller ==
  /\ \A t, u \in Threads : InCall(t) /\ InCall(u) => t = u
  /\ \A t \in Threads : InCall(t) => chan.calls > 0 /\ mine[t] = chan.calls
  /\ \A t, u \in Threads : t # u /\ mine[t] = mine[u] => mine[t] = 0

EarlierAnswered == \A n \in 1 .. chan.calls - 1 : past[n] = [st |-> "value", got |-> n]

Phases ==
  /\ chan.live => Resting \/ Calling \/ Pending
  /\ ~chan.live => Answered
  /\ conn = "alive" /\ ~raced => ~IoAt("aborted")

SerialInv == ~overlapped => OneCaller /\ EarlierAnswered /\ Phases

-----------------------------------------------------------------------------
LEMMA FrameTypes ==
  /\ Garbage \in Frames
  /\ \A n \in Nat : /\ Frame(Id, "Declare", n) \in Frames
                    /\ Frame(Id, "DeclareOk", n) \in Frames
                    /\ Frame(Id, "Close", n) \in Frames
                    /\ Frame(Id, "CloseOk", n) \in Frames
                    /\ Frame(Id, "OpenOk", n) \in Frames
BY DEF Garbage, Frame, Id, Frames, Kinds, ClientKinds, BrokerKinds

LEMMA ProcessFrameType ==
  ASSUME NEW c \in ChannelStates, NEW f \in Frames
  PROVE  LET d == ProcessFrame(c, f).chan
         IN  /\ d \in ChannelStates /\ d.live = c.live /\ d.calls = c.calls
             /\ c.rpc # "none" => d.rpc # "none"
BY DEF ProcessFrame, ProcessOpen, RpcHandler, ClosedHandler, Returns, Throws,
       Mismatch, ChannelStates, PromiseStates, Frames

LEMMA ArmRpcType ==
  ASSUME NEW c \in ChannelStates
  PROVE  LET d == ArmRpc(c)
         IN  /\ d \in ChannelStates /\ d.live = c.live /\ d.calls = c.calls + 1
             /\ d.rpc = "pending" /\ d.cont = "rpc_handler"
<1>1. c.calls + 1 \in Nat
  BY DEF ChannelStates
<1> QED BY <1>1 DEF ArmRpc, ChannelStates, PromiseStates

LEMMA DestroyedType ==
  ASSUME NEW c \in ChannelStates
  PROVE  LET d == Destroyed(c)
         IN  /\ d \in ChannelStates /\ ~d.live /\ d.calls = c.calls
             /\ d.rpc = c.rpc /\ d.got = c.got
BY DEF Destroyed, ChannelStates

(* A promise that is overtaken is satisfied already, or broken.            *)
LEMMA OvertakenType ==
  ASSUME TypeInv, chan.calls > 0
  PROVE  Overtaken(Promise(chan.calls)) \in PastPromises
BY DEF TypeInv, TypeOK, ChannelStates, PromiseStates, Overtaken, Promise, PastPromises

LEMMA NoFrames == <<>> \in Seq(Frames)
OBVIOUS

LEMMA TypeInit == Init => TypeInv
<1> SUFFICES ASSUME Init PROVE TypeInv
  OBVIOUS
<1>1. /\ chan \in ChannelStates /\ chan.calls = 0
  BY DEF Init, NewChannel, ChannelStates, PromiseStates
<1>2. past = <<>> /\ past \in Seq(PastPromises) /\ Len(past) = 0
  BY DEF Init
<1>3. posted \in Seq(Frames) /\ out \in Seq(Frames) /\ in \in Seq(Frames)
  BY NoFrames DEF Init
<1>4. mine \in [Threads -> 0 .. chan.calls]
  BY <1>1 DEF Init
<1>5. /\ io \in [at : {"idle", "dispatching", "leaving", "returning", "releasing", "stopped",
                      "aborted"}, f : Frames]
      /\ pc \in [Threads -> {"ready", "posting", "awaitRpc", "releasing"}]
  BY FrameTypes DEF Init
<1>6. overlapped \in BOOLEAN /\ raced \in BOOLEAN /\ peer \in {"open", "closed"} /\ conn \in {"alive", "destroyed"}
      /\ holders \subseteq Threads \cup {IoThread} /\ users \subseteq Threads \cup {TheChannel}
  BY DEF Init
<1> QED BY <1>1, <1>2, <1>3, <1>4, <1>5, <1>6 DEF TypeInv, TypeOK

LEMMA DestroyConnectionType ==
  ASSUME TypeInv, DestroyConnection
  PROVE  /\ conn' \in {"alive", "destroyed"}
         /\ posted' \in Seq(Frames) /\ in' \in Seq(Frames)
         /\ io' \in [at : {"idle", "dispatching", "leaving", "returning", "releasing",
                           "stopped", "aborted"}, f : Frames]
<1>1. posted' \in Seq(Frames) /\ in' \in Seq(Frames)
  BY NoFrames DEF DestroyConnection
<1>2. CASE io' = [io EXCEPT !.at = "stopped"]
  BY <1>1, <1>2 DEF TypeInv, TypeOK, DestroyConnection
<1>3. CASE io' = [io EXCEPT !.at = "aborted"]
  BY <1>1, <1>3 DEF TypeInv, TypeOK, DestroyConnection
<1> QED BY <1>2, <1>3 DEF DestroyConnection, IoGoto

LEMMA ReleaseConnectionType ==
  ASSUME TypeInv, NEW h, NEW next, ReleaseConnection(h, next),
         next \in [at : {"idle", "dispatching", "leaving", "returning", "releasing",
                        "stopped", "aborted"}, f : Frames]
  PROVE  /\ users' \subseteq Threads \cup {TheChannel}
         /\ conn' \in {"alive", "destroyed"}
         /\ posted' \in Seq(Frames) /\ in' \in Seq(Frames)
         /\ io' \in [at : {"idle", "dispatching", "leaving", "returning", "releasing",
                           "stopped", "aborted"}, f : Frames]
<1>1. users' \subseteq Threads \cup {TheChannel}
  BY DEF ReleaseConnection, TypeInv, TypeOK
<1>2. CASE users \subseteq {h}
  <2>1. DestroyConnection
    BY <1>2 DEF ReleaseConnection
  <2> QED BY <1>1, <2>1, DestroyConnectionType
<1>3. CASE ~(users \subseteq {h})
  BY <1>1, <1>3 DEF ReleaseConnection, TypeInv, TypeOK
<1> QED BY <1>2, <1>3

LEMMA TypeStep ==
  ASSUME TypeInv, [Next]_vars
  PROVE  TypeInv'
<1> USE DEF TypeInv, TypeOK, IoAt, IoGoto, At, Goto, history
<1>1. ASSUME NEW t \in Threads, BeginRpc(t)
      PROVE  TypeInv'
  <2>1. chan' \in ChannelStates /\ chan'.calls = chan.calls + 1 /\ chan'.rpc = "pending"
    BY <1>1, ArmRpcType DEF BeginRpc
  <2>2. chan.calls \in Nat
    BY DEF ChannelStates
  <2>3. /\ past' \in Seq(PastPromises)
        /\ Len(past') = IF chan'.calls = 0 THEN 0 ELSE chan'.calls - 1
    <3>1. CASE chan.calls = 0
      BY <1>1, <2>1, <3>1 DEF BeginRpc
    <3>2. CASE chan.calls # 0
      <4>1. Overtaken(Promise(chan.calls)) \in PastPromises
        BY <2>2, <3>2, OvertakenType
      <4>2. past' = Append(past, Overtaken(Promise(chan.calls)))
        BY <1>1, <3>2 DEF BeginRpc
      <4>3. past' \in Seq(PastPromises) /\ Len(past') = Len(past) + 1
        BY <4>1, <4>2
      <4>4. Len(past) = chan.calls - 1
        BY <2>2, <3>2
      <4> HIDE DEF TypeInv
      <4> QED BY <2>1, <2>2, <4>3, <4>4
    <3> QED BY <3>1, <3>2
  <2>4. mine' \in [Threads -> 0 .. chan'.calls]
    BY <1>1, <2>1, <2>2 DEF BeginRpc
  <2> QED BY <1>1, <2>1, <2>3, <2>4 DEF BeginRpc
<1>2. ASSUME NEW t \in Threads, PostRpc(t)
      PROVE  TypeInv'
  <2>1. mine[t] \in Nat
    BY DEF ChannelStates
  <2>2. posted' \in Seq(Frames)
    BY <1>2, <2>1, FrameTypes DEF PostRpc
  <2> QED BY <1>2, <2>2 DEF PostRpc
<1>3. ASSUME NEW t \in Threads, RpcReturns(t)
      PROVE  TypeInv'
  BY <1>3 DEF RpcReturns
<1>4. ASSUME DestroyChannel
      PROVE  /\ chan' \in ChannelStates /\ chan'.calls = chan.calls
             /\ (chan'.calls > 0 => chan'.rpc # "none") /\ posted' \in Seq(Frames)
  BY <1>4, DestroyedType, FrameTypes DEF DestroyChannel
<1>5. ASSUME NEW t \in Threads, DropChannel(t)
      PROVE  TypeInv'
  <2>1. CASE IsLast(t)
    BY <1>4, <1>5, <2>1 DEF DropChannel
  <2>2. CASE ~IsLast(t)
    BY <1>5, <2>2 DEF DropChannel
  <2> QED BY <2>1, <2>2
<1>6. ASSUME NEW t \in Threads, ReleaseLast(t)
      PROVE  TypeInv'
  BY <1>6, ReleaseConnectionType DEF ReleaseLast
<1>7. ASSUME NEW t \in Threads, DropConnection(t)
      PROVE  TypeInv'
  BY <1>7, ReleaseConnectionType DEF DropConnection
<1>8. ASSUME RunBeginWriteFrame
      PROVE  TypeInv'
  <2>1. Head(posted) \in Frames /\ Tail(posted) \in Seq(Frames)
    BY <1>8 DEF RunBeginWriteFrame
  <2> QED BY <1>8, <2>1 DEF RunBeginWriteFrame
<1>9. ASSUME DispatchFrame
      PROVE  TypeInv'
  <2>1. Head(in) \in Frames /\ Tail(in) \in Seq(Frames)
    BY <1>9 DEF DispatchFrame
  <2> QED BY <1>9, <2>1 DEF DispatchFrame, Lock
<1>10. ASSUME CallContinuation
       PROVE  TypeInv'
  <2> DEFINE result == ProcessFrame(chan, io.f)
  <2>1. /\ result.chan \in ChannelStates /\ result.chan.calls = chan.calls
        /\ chan.rpc # "none" => result.chan.rpc # "none"
    BY ProcessFrameType
  <2> HIDE DEF result
  <2>2. chan' = result.chan \/ chan' = chan
    BY <1>10 DEF CallContinuation, result
  <2>3. IoGoto("leaving") \/ IoGoto("aborted")
    BY <1>10 DEF CallContinuation
  <2> QED BY <1>10, <2>1, <2>2, <2>3 DEF CallContinuation
<1>11. ASSUME Unlock
       PROVE  TypeInv'
  <2>1. CASE IsLast(IoThread)
    BY <1>4, <1>11, <2>1 DEF Unlock
  <2>2. CASE ~IsLast(IoThread)
    BY <1>11, <2>2 DEF Unlock
  <2> QED BY <2>1, <2>2
<1>12. ASSUME UnlockLast
       PROVE  TypeInv'
  <2> DEFINE next == [io EXCEPT !.at = "idle"]
  <2>1. next \in [at : {"idle", "dispatching", "leaving", "returning", "releasing", "stopped",
                       "aborted"}, f : Frames]
    OBVIOUS
  <2>2. ReleaseConnection(TheChannel, next)
    BY <1>12 DEF UnlockLast
  <2> HIDE DEF next
  <2> QED BY <1>12, <2>1, <2>2, ReleaseConnectionType DEF UnlockLast
<1>13. ASSUME Broker
       PROVE  TypeInv'
  <2>1. Head(out) \in Frames /\ Tail(out) \in Seq(Frames)
    BY <1>13 DEF Broker
  <2>2. Head(out).tag \in Nat
    BY <2>1 DEF Frames
  <2>3. in' \in Seq(Frames)
    <3>1. \A g \in Frames : Append(in, g) \in Seq(Frames)
      OBVIOUS
    <3>2. /\ Append(in, Frame(Id, "DeclareOk", Head(out).tag)) \in Seq(Frames)
          /\ Append(in, Frame(Id, "CloseOk", 0)) \in Seq(Frames)
      BY <2>2, <3>1, FrameTypes
    <3>3. \/ Answers("DeclareOk", Head(out).tag)
          \/ Answers("CloseOk", 0)
      BY <1>13 DEF Broker
    <3> QED BY <3>2, <3>3 DEF Answers
  <2> QED BY <1>13, <2>1, <2>3 DEF Broker
<1>14. ASSUME UNCHANGED vars
       PROVE  TypeInv'
  BY <1>14 DEF vars
<1>15. ASSUME LeaveContinuation
       PROVE  TypeInv'
  BY <1>15 DEF LeaveContinuation
<1> QED
  BY <1>1, <1>2, <1>3, <1>5, <1>6, <1>7, <1>8, <1>9, <1>10, <1>11, <1>12, <1>13, <1>14, <1>15
     DEF Next, Application, IoStep

(***************************************************************************)
(* Every variable has its type, and every call but the latest its outcome. *)
(***************************************************************************)
THEOREM TypeCorrect == Spec => []TypeOK
<1>1. TypeInv => TypeOK
  BY DEF TypeInv
<1> QED BY <1>1, TypeInit, TypeStep, PTL DEF Spec

-----------------------------------------------------------------------------
LEMMA LifeInit == Init => LifeInv
BY ThreadsAssumption
   DEF Init, LifeInv, NewChannel, InCall, IoAt, InContinuation, Releasing

(***************************************************************************)
(* Releasing a reference to the connection.  Only TheChannel's own may     *)
(* leave a channel that lives without it.                                  *)
(***************************************************************************)
LEMMA ReleaseEffect ==
  ASSUME NEW h, NEW next, TypeInv, LifeInv, ReleaseConnection(h, next)
  PROVE  /\ users' = users \ {h}
         /\ conn' = "alive" <=> users' # {}
         /\ io' = next \/ io'.at \in {"stopped", "aborted"}
<1>1. CASE users \subseteq {h}
  BY <1>1 DEF ReleaseConnection, DestroyConnection, IoGoto, TypeInv, TypeOK
<1>2. CASE ~(users \subseteq {h})
  BY <1>2 DEF ReleaseConnection, LifeInv
<1> QED BY <1>1, <1>2

LEMMA LifeStep ==
  ASSUME TypeInv, LifeInv, [Next]_vars
  PROVE  LifeInv'
<1> USE DEF LifeInv, InCall, Releasing, IoAt, InContinuation, IoGoto, At, Goto
<1>a. /\ chan \in ChannelStates
      /\ pc \in [Threads -> {"ready", "posting", "awaitRpc", "releasing"}]
      /\ io \in [at : {"idle", "dispatching", "leaving", "returning", "releasing", "stopped",
                       "aborted"}, f : Frames]
  BY DEF TypeInv, TypeOK
<1>1. ASSUME NEW t \in Threads, BeginRpc(t)
      PROVE  LifeInv'
  <2>1. chan'.live = chan.live
    BY <1>1, <1>a, ArmRpcType DEF BeginRpc
  <2> QED BY <1>1, <1>a, <2>1 DEF BeginRpc
<1>2. ASSUME NEW t \in Threads, PostRpc(t)
      PROVE  LifeInv'
  BY <1>2, <1>a DEF PostRpc
<1>3. ASSUME NEW t \in Threads, RpcReturns(t)
      PROVE  LifeInv'
  BY <1>3, <1>a DEF RpcReturns
<1>4. ASSUME NEW t \in Threads, DropChannel(t)
      PROVE  LifeInv'
  <2>1. CASE IsLast(t)
    <3>1. holders = {t} /\ chan.live
      BY <1>4, <2>1 DEF DropChannel, IsLast
    <3>2. ~chan'.live /\ holders' = {}
      BY <1>4, <1>a, <2>1, <3>1, DestroyedType DEF DropChannel, DestroyChannel
    <3> QED BY <1>4, <1>a, <2>1, <3>1, <3>2, ThreadsAssumption DEF DropChannel
  <2>2. CASE ~IsLast(t)
    BY <1>4, <1>a, <2>2, ThreadsAssumption DEF DropChannel, IsLast
  <2> QED BY <2>1, <2>2
<1>5. ASSUME NEW t \in Threads, ReleaseLast(t)
      PROVE  LifeInv'
  <2>1. /\ users' = users \ {TheChannel}
        /\ conn' = "alive" <=> users' # {}
        /\ io' = io \/ io'.at \in {"stopped", "aborted"}
    BY <1>5, ReleaseEffect DEF ReleaseLast
  <2> QED BY <1>5, <1>a, <2>1 DEF ReleaseLast
<1>6. ASSUME NEW t \in Threads, DropConnection(t)
      PROVE  LifeInv'
  <2>1. /\ users' = users \ {t}
        /\ conn' = "alive" <=> users' # {}
        /\ io' = io \/ io'.at \in {"stopped", "aborted"}
    BY <1>6, ReleaseEffect DEF DropConnection
  <2>2. TheChannel # t
    BY ThreadsAssumption
  <2> QED BY <1>6, <1>a, <2>1, <2>2 DEF DropConnection
<1>7. ASSUME RunBeginWriteFrame
      PROVE  LifeInv'
  BY <1>7 DEF RunBeginWriteFrame
<1>8. ASSUME DispatchFrame
      PROVE  LifeInv'
  BY <1>8, <1>a DEF DispatchFrame, Lock
<1>9. ASSUME CallContinuation
      PROVE  LifeInv'
  <2> DEFINE result == ProcessFrame(chan, io.f)
  <2>1. result.chan.live = chan.live
    BY <1>a, ProcessFrameType
  <2> HIDE DEF result
  <2>2. chan' = result.chan \/ chan' = chan
    BY <1>9 DEF CallContinuation, result
  <2>3. io'.at \in {"leaving", "aborted"} /\ io.at = "dispatching"
    BY <1>9, <1>a DEF CallContinuation
  <2> QED BY <1>9, <2>1, <2>2, <2>3 DEF CallContinuation
<1>10. ASSUME Unlock
       PROVE  LifeInv'
  <2>1. CASE IsLast(IoThread)
    <3>1. holders = {IoThread} /\ chan.live
      BY <1>10, <2>1 DEF Unlock, IsLast
    <3>2. ~chan'.live /\ holders' = {}
      BY <1>10, <1>a, <2>1, <3>1, DestroyedType DEF Unlock, DestroyChannel
    <3>3. \A t \in Threads : ~InCall(t) /\ ~Releasing(t)
      BY <3>1, ThreadsAssumption
    <3> QED BY <1>10, <1>a, <2>1, <3>1, <3>2, <3>3 DEF Unlock
  <2>2. CASE ~IsLast(IoThread)
    BY <1>10, <1>a, <2>2, ThreadsAssumption DEF Unlock, IsLast
  <2> QED BY <2>1, <2>2
<1>11. ASSUME UnlockLast
       PROVE  LifeInv'
  <2>1. /\ users' = users \ {TheChannel}
        /\ conn' = "alive" <=> users' # {}
        /\ io'.at \in {"idle", "stopped", "aborted"}
    BY <1>11, <1>a, ReleaseEffect DEF UnlockLast
  <2> QED BY <1>11, <1>a, <2>1 DEF UnlockLast
<1>12. ASSUME Broker
       PROVE  LifeInv'
  BY <1>12 DEF Broker
<1>13. ASSUME UNCHANGED vars
       PROVE  LifeInv'
  BY <1>13 DEF vars
<1>14. ASSUME LeaveContinuation
       PROVE  LifeInv'
  BY <1>14, <1>a DEF LeaveContinuation
<1> QED
  BY <1>1, <1>2, <1>3, <1>4, <1>5, <1>6, <1>7, <1>8, <1>9, <1>10, <1>11, <1>12, <1>13, <1>14
     DEF Next, Application, IoStep

(***************************************************************************)
(* Threads in a call and the io thread in process_frame are in a channel   *)
(* that is alive, and so is its connection.                                *)
(***************************************************************************)
THEOREM HeldObjectsAreAlive == Spec => []HeldIsAlive
<1>1. LifeInv => HeldIsAlive
  BY DEF LifeInv, HeldIsAlive, InsideChannel
<1> QED BY <1>1, TypeInit, TypeStep, LifeInit, LifeStep, PTL DEF Spec

-----------------------------------------------------------------------------
(* What the steps do to the frames on their way to the broker.             *)
LEMMA FrameIsWritten ==
  ASSUME NEW a \in Seq(Frames), NEW b \in Seq(Frames), b # <<>>
  PROVE  Append(a, Head(b)) \o Tail(b) = a \o b
OBVIOUS

LEMMA FrameIsPosted ==
  ASSUME NEW a \in Seq(Frames), NEW b \in Seq(Frames), NEW f \in Frames
  PROVE  a \o Append(b, f) = Append(a \o b, f)
OBVIOUS

LEMMA FrameIsRead ==
  ASSUME NEW a \in Seq(Frames), NEW b \in Seq(Frames), a # <<>>
  PROVE  Tail(a) \o b = Tail(a \o b) /\ a \o b # <<>> /\ (a \o b)[1] = Head(a)
OBVIOUS

(* The same facts about a wire s, frame by frame.                          *)
NoClose(s) == \A i \in 1 .. Len(s) : s[i].kind # "Close"
CloseIsLast(s) == \A i \in 1 .. Len(s) - 1 : s[i].kind # "Close"

LEMMA PostedRequest ==
  ASSUME NEW s \in Seq(Frames), NEW f \in Frames, NoClose(s)
  PROVE  /\ f.kind # "Close" => NoClose(Append(s, f))
         /\ CloseIsLast(Append(s, f))
BY DEF NoClose, CloseIsLast

LEMMA ReadFromWire ==
  ASSUME NEW s \in Seq(Frames), s # <<>>, CloseIsLast(s)
  PROVE  /\ CloseIsLast(Tail(s))
         /\ NoClose(s) => NoClose(Tail(s))
         /\ s[1].kind = "Close" => Tail(s) = <<>>
<1>1. Len(s) \in Nat /\ Len(s) > 0 /\ Len(Tail(s)) = Len(s) - 1
  OBVIOUS
<1>2. \A i \in 1 .. Len(s) - 1 : Tail(s)[i] = s[i + 1]
  OBVIOUS
<1>3. s[1].kind = "Close" => Len(s) = 1
  BY <1>1 DEF CloseIsLast
<1>4. Len(s) = 1 => Tail(s) = <<>>
  <2>1. \A q \in Seq(Frames) : Len(q) = 0 => q = <<>>
    OBVIOUS
  <2> DEFINE rest == Tail(s)
  <2>2. rest \in Seq(Frames)
    OBVIOUS
  <2>3. Len(s) = 1 => Len(rest) = 0
    BY <1>1
  <2> HIDE DEF rest
  <2>4. Len(s) = 1 => rest = <<>>
    BY <2>1, <2>2, <2>3
  <2> QED BY <2>4 DEF rest
<1> QED BY <1>1, <1>2, <1>3, <1>4 DEF NoClose, CloseIsLast

LEMMA QueueIsDestroyed ==
  ASSUME NEW a \in Seq(Frames), NEW b \in Seq(Frames)
  PROVE  /\ CloseIsLast(a \o b) => CloseIsLast(a)
         /\ a \o b = <<>> => a = <<>>
<1>1. Len(a) \in Nat /\ Len(b) \in Nat /\ Len(a \o b) = Len(a) + Len(b)
  OBVIOUS
<1>2. \A i \in 1 .. Len(a) : (a \o b)[i] = a[i]
  OBVIOUS
<1>3. a \o b = <<>> => a = <<>>
  BY <1>1
<1> QED BY <1>1, <1>2, <1>3 DEF CloseIsLast

(* WireInv in these terms.                                                 *)
LEMMA WireInvIs ==
  WireInv <=> /\ chan.live => peer = "open" /\ NoClose(Sent)
              /\ peer = "closed" => Sent = <<>>
              /\ CloseIsLast(Sent)
BY DEF WireInv, NothingAfterClose, NoClose, CloseIsLast

LEMMA WireInvIsPrime ==
  WireInv' <=> /\ chan'.live => peer' = "open" /\ NoClose(Sent')
               /\ peer' = "closed" => Sent' = <<>>
               /\ CloseIsLast(Sent')
BY DEF WireInv, NothingAfterClose, NoClose, CloseIsLast

LEMMA WireInit == Init => WireInv
<1> SUFFICES ASSUME Init PROVE WireInv
  OBVIOUS
<1>1. Sent = <<>> /\ Len(Sent) = 0 /\ peer = "open"
  BY DEF Init, Sent
<1> QED BY <1>1 DEF WireInv, NothingAfterClose

LEMMA SentStays ==
  ASSUME WireInv, chan'.live = chan.live, UNCHANGED <<posted, out, peer>>
  PROVE  WireInv'
<1>1. Sent' = Sent /\ peer' = peer
  BY DEF Sent
<1> QED BY <1>1, WireInvIs, WireInvIsPrime

LEMMA ReleaseKeepsOrder ==
  ASSUME NEW h, NEW next, TypeInv, WireInv, ReleaseConnection(h, next),
         UNCHANGED <<chan, out, peer>>
  PROVE  WireInv'
<1>1. CASE posted' = posted
  BY <1>1, SentStays
<1>2. CASE posted' = <<>>
  <2>1. out \in Seq(Frames) /\ posted \in Seq(Frames)
    BY DEF TypeInv, TypeOK
  <2>2. Sent' = out
    BY <1>2, <2>1 DEF Sent
  <2>3. /\ CloseIsLast(Sent) => CloseIsLast(out)
        /\ Sent = <<>> => out = <<>>
        /\ NoClose(Sent) => NoClose(out)
    <3>1. Len(out) \in Nat /\ Len(Sent) = Len(out) + Len(posted) /\ Len(posted) \in Nat
      BY <2>1 DEF Sent
    <3>2. \A i \in 1 .. Len(out) : Sent[i] = out[i]
      BY <2>1 DEF Sent
    <3>3. NoClose(Sent) => NoClose(out)
      BY <3>1, <3>2 DEF NoClose
    <3> QED BY <2>1, <3>3, QueueIsDestroyed DEF Sent
  <2> QED BY <2>2, <2>3, WireInvIs, WireInvIsPrime
<1> QED BY <1>1, <1>2 DEF ReleaseConnection, DestroyConnection

LEMMA CloseIsPosted ==
  ASSUME TypeInv, WireInv, chan.live, DestroyChannel, UNCHANGED <<out, peer>>
  PROVE  WireInv'
<1>1. out \in Seq(Frames) /\ posted \in Seq(Frames) /\ chan \in ChannelStates
  BY DEF TypeInv, TypeOK
<1>2. Frame(Id, "Close", 0) \in Frames
  BY FrameTypes
<1>3. Sent \in Seq(Frames) /\ Sent' = Append(Sent, Frame(Id, "Close", 0))
  BY <1>1, <1>2, FrameIsPosted DEF Sent, DestroyChannel
<1>4. ~chan'.live
  BY <1>1, DestroyedType DEF DestroyChannel
<1>5. NoClose(Sent) /\ peer = "open"
  BY WireInvIs
<1>6. CloseIsLast(Sent')
  BY <1>2, <1>3, <1>5, PostedRequest
<1> QED BY <1>4, <1>5, <1>6, WireInvIsPrime

LEMMA WireStep ==
  ASSUME TypeInv, LifeInv, WireInv, [Next]_vars
  PROVE  WireInv'
<1>a. /\ out \in Seq(Frames) /\ posted \in Seq(Frames) /\ Sent \in Seq(Frames)
      /\ chan \in ChannelStates /\ io.f \in Frames
  BY DEF TypeInv, TypeOK, Sent
<1>1. ASSUME NEW t \in Threads, BeginRpc(t)
      PROVE  WireInv'
  BY <1>1, <1>a, ArmRpcType, SentStays DEF BeginRpc
<1>2. ASSUME NEW t \in Threads, PostRpc(t)
      PROVE  WireInv'
  <2> DEFINE f == Frame(Id, "Declare", mine[t])
  <2>1. chan.live
    BY <1>2 DEF PostRpc, At, LifeInv, InCall
  <2>2. f \in Frames /\ f.kind # "Close"
    <3>1. mine[t] \in Nat
      BY DEF TypeInv, TypeOK, ChannelStates
    <3> QED BY <3>1, FrameTypes DEF Frame
  <2>3. Sent' = Append(Sent, f)
    BY <1>2, <1>a, <2>2, FrameIsPosted DEF PostRpc, Sent
  <2>4. NoClose(Sent) /\ peer = "open" /\ UNCHANGED <<chan, peer>>
    BY <1>2, <2>1, WireInvIs DEF PostRpc
  <2>5. NoClose(Sent') /\ CloseIsLast(Sent')
    BY <1>a, <2>2, <2>3, <2>4, PostedRequest
  <2> QED BY <2>4, <2>5, WireInvIsPrime
<1>3. ASSUME NEW t \in Threads, RpcReturns(t)
      PROVE  WireInv'
  BY <1>3, SentStays DEF RpcReturns
<1>4. ASSUME NEW t \in Threads, DropChannel(t)
      PROVE  WireInv'
  <2>1. chan.live
    BY <1>4 DEF DropChannel, LifeInv
  <2>2. CASE IsLast(t)
    BY <1>4, <2>1, <2>2, CloseIsPosted DEF DropChannel
  <2>3. CASE ~IsLast(t)
    BY <1>4, <2>3, SentStays DEF DropChannel
  <2> QED BY <2>2, <2>3
<1>5. ASSUME NEW t \in Threads, ReleaseLast(t)
      PROVE  WireInv'
  BY <1>5, ReleaseKeepsOrder DEF ReleaseLast
<1>6. ASSUME NEW t \in Threads, DropConnection(t)
      PROVE  WireInv'
  BY <1>6, ReleaseKeepsOrder DEF DropConnection
<1>7. ASSUME RunBeginWriteFrame
      PROVE  WireInv'
  <2>1. Sent' = Sent
    BY <1>7, <1>a, FrameIsWritten DEF RunBeginWriteFrame, Sent
  <2>2. UNCHANGED <<chan, peer>>
    BY <1>7 DEF RunBeginWriteFrame
  <2> QED BY <2>1, <2>2, WireInvIs, WireInvIsPrime
<1>8. ASSUME DispatchFrame
      PROVE  WireInv'
  BY <1>8, SentStays DEF DispatchFrame
<1>9. ASSUME CallContinuation
      PROVE  WireInv'
  <2> DEFINE result == ProcessFrame(chan, io.f)
  <2>1. result.chan.live = chan.live
    BY <1>a, ProcessFrameType
  <2> HIDE DEF result
  <2>2. chan' = result.chan \/ chan' = chan
    BY <1>9 DEF CallContinuation, result
  <2> QED BY <1>9, <2>1, <2>2, SentStays DEF CallContinuation
<1>10. ASSUME Unlock
       PROVE  WireInv'
  <2>1. chan.live
    BY <1>10 DEF Unlock, LifeInv
  <2>2. CASE IsLast(IoThread)
    BY <1>10, <2>1, <2>2, CloseIsPosted DEF Unlock
  <2>3. CASE ~IsLast(IoThread)
    BY <1>10, <2>3, SentStays DEF Unlock
  <2> QED BY <2>2, <2>3
<1>11. ASSUME UnlockLast
       PROVE  WireInv'
  BY <1>11, ReleaseKeepsOrder DEF UnlockLast
<1>12. ASSUME Broker
       PROVE  WireInv'
  <2>1. /\ Sent' = Tail(Sent) /\ Sent # <<>> /\ Sent[1] = Head(out)
    BY <1>12, <1>a, FrameIsRead DEF Broker, Sent
  <2>2. /\ CloseIsLast(Sent') /\ (NoClose(Sent) => NoClose(Sent'))
        /\ Sent[1].kind = "Close" => Sent' = <<>>
    BY <1>a, <2>1, ReadFromWire, WireInvIs
  <2>3. chan' = chan
    BY <1>12 DEF Broker
  <2>4. CASE Head(out).kind = "Declare" /\ peer' = peer
    BY <2>1, <2>2, <2>3, <2>4, WireInvIs, WireInvIsPrime
  <2>5. CASE Head(out).kind = "Close" /\ peer' = "closed"
    <3>1. ~chan.live
      <4>1. 1 \in 1 .. Len(Sent) /\ Sent[1].kind = "Close"
        BY <1>a, <2>1, <2>5
      <4> QED BY <4>1, WireInvIs DEF NoClose
    <3> QED BY <2>1, <2>2, <2>3, <2>5, <3>1, WireInvIsPrime
  <2> QED BY <1>12, <2>4, <2>5 DEF Broker
<1>13. ASSUME UNCHANGED vars
       PROVE  WireInv'
  BY <1>13, SentStays DEF vars
<1>14. ASSUME LeaveContinuation
       PROVE  WireInv'
  BY <1>14, SentStays DEF LeaveContinuation
<1> QED
  BY <1>1, <1>2, <1>3, <1>4, <1>5, <1>6, <1>7, <1>8, <1>9, <1>10, <1>11, <1>12, <1>13, <1>14
     DEF Next, Application, IoStep

(***************************************************************************)
(* channel.close is the last frame of the channel, and is sent once.       *)
(***************************************************************************)
THEOREM CloseIsTheLastFrame == Spec => []NothingAfterClose
<1>1. WireInv => NothingAfterClose
  BY DEF WireInv
<1> QED
  BY <1>1, TypeInit, TypeStep, LifeInit, LifeStep, WireInit, WireStep, PTL DEF Spec

-----------------------------------------------------------------------------
LEMMA OneFrame ==
  ASSUME NEW f \in Frames
  PROVE  /\ Append(<<>>, f) = <<f>> /\ <<f>> # <<>>
         /\ Head(<<f>>) = f /\ Tail(<<f>>) = <<>>
OBVIOUS

LEMMA RequestAndReply ==
  ASSUME TypeInv
  PROVE  /\ Request \in Frames /\ Request.kind = "Declare" /\ Request.tag = chan.calls
         /\ Reply \in Frames /\ Reply.kind = "DeclareOk" /\ Reply.tag = chan.calls
<1>1. chan.calls \in Nat
  BY DEF TypeInv, TypeOK, ChannelStates
<1> QED BY <1>1, FrameTypes DEF Request, Reply, Frame

(* The answer to the call under way ends it.                               *)
LEMMA AnswerAccepted ==
  ASSUME NEW c \in ChannelStates, NEW f \in Frames,
         c.rpc = "pending", c.cont = "rpc_handler", f.kind = "DeclareOk"
  PROVE  LET r == ProcessFrame(c, f)
         IN  /\ r.thrown = "none" /\ r.chan.live = c.live /\ r.chan.calls = c.calls
             /\ r.chan.rpc = "value" /\ r.chan.got = f.tag
<1> DEFINE d == [c EXCEPT !.rpc = "value", !.got = f.tag]
<1>1. ProcessFrame(c, f) = Returns(d)
  BY DEF ProcessFrame, RpcHandler
<1>2. d.live = c.live /\ d.calls = c.calls /\ d.rpc = "value" /\ d.got = f.tag
  BY DEF ChannelStates
<1> HIDE DEF d
<1>3. Returns(d).chan = d /\ Returns(d).thrown = "none"
  BY DEF Returns
<1> QED BY <1>1, <1>2, <1>3

LEMMA SerialInit == Init => SerialInv
<1> SUFFICES ASSUME Init PROVE SerialInv
  OBVIOUS
<1>1. chan.calls = 0 /\ chan.live
  BY DEF Init, NewChannel
<1>2. OneCaller
  BY DEF Init, OneCaller, InCall
<1>3. EarlierAnswered
  BY <1>1 DEF EarlierAnswered
<1>4. Resting
  BY <1>1 DEF Init, Resting, Silent, Answered, Rebinding, IoAt
<1>5. ~IoAt("aborted")
  BY DEF Init, IoAt
<1> QED BY <1>1, <1>2, <1>3, <1>4, <1>5 DEF SerialInv, Phases

(* Nobody waits for an answer on a channel that nobody is in.              *)
LEMMA NobodyInside ==
  ASSUME Phases, chan.live, \A t \in Threads : ~InCall(t)
  PROVE  Resting
BY DEF Phases, Calling, Pending, Rebinding, InCall

(* Steps that leave the calls as they are.                                 *)
LEMMA SameCalls ==
  ASSUME TypeInv, OneCaller, EarlierAnswered, chan'.calls = chan.calls,
         UNCHANGED <<past, mine>>, \A t \in Threads : InCall(t)' => InCall(t)
  PROVE  OneCaller' /\ EarlierAnswered'
<1>1. OneCaller'
  <2>1. \A t \in Threads : mine'[t] = mine[t]
    OBVIOUS
  <2> QED BY <2>1 DEF OneCaller
<1>2. EarlierAnswered'
  BY DEF EarlierAnswered
<1> QED BY <1>1, <1>2

LEMMA SerialBeginRpc ==
  ASSUME TypeInv, LifeInv, OneCaller, EarlierAnswered, Phases,
         NEW t \in Threads, BeginRpc(t), ~overlapped'
  PROVE  OneCaller' /\ EarlierAnswered' /\ Phases'
<1>a. /\ chan \in ChannelStates /\ chan.calls \in Nat /\ chan'.calls = chan.calls + 1
      /\ chan'.live = chan.live /\ chan'.rpc = "pending" /\ chan'.cont = "rpc_handler"
  <2>1. chan \in ChannelStates /\ chan' = ArmRpc(chan)
    BY DEF TypeInv, TypeOK, BeginRpc
  <2> QED BY <2>1, ArmRpcType DEF ChannelStates
<1>b. /\ pc \in [Threads -> {"ready", "posting", "awaitRpc", "releasing"}]
      /\ mine \in [Threads -> 0 .. chan.calls]
  BY DEF TypeInv, TypeOK
<1>c. chan.live /\ conn = "alive"
  <2>1. t \in holders
    BY DEF BeginRpc
  <2> QED BY <2>1 DEF LifeInv
<1>1. \A u \in Threads : ~InCall(u)
  <2>1. ~InCall(t)
    BY DEF BeginRpc, At, InCall
  <2>2. \A u \in Threads \ {t} : ~InCall(u)
    BY DEF BeginRpc
  <2> QED BY <2>1, <2>2
<1>2. Resting
  BY <1>1, <1>c, NobodyInside
<1>3. /\ io' = io \/ io' = [io EXCEPT !.at = "aborted"]
      /\ raced' \/ io' = io
  BY <1>2 DEF BeginRpc, IoGoto, Resting, Silent, InContinuation
<1>4. /\ pc'[t] = "posting" /\ mine'[t] = chan'.calls
      /\ \A u \in Threads \ {t} : pc'[u] = pc[u] /\ mine'[u] = mine[u]
  BY <1>a, <1>b DEF BeginRpc, Goto
<1>5. OneCaller'
  <2>1. \A u \in Threads : u # t => ~InCall(u)'
    BY <1>1, <1>4 DEF InCall
  <2>2. \A u \in Threads \ {t} : mine'[u] # mine'[t]
    BY <1>a, <1>b, <1>4
  <2>3. \A u, v \in Threads \ {t} : u # v /\ mine'[u] = mine'[v] => mine'[u] = 0
    BY <1>4 DEF OneCaller
  <2>4. \A u, v \in Threads : u # v /\ mine'[u] = mine'[v] => mine'[u] = 0
    BY <2>2, <2>3
  <2> QED BY <1>a, <1>4, <2>1, <2>4 DEF OneCaller
<1>6. EarlierAnswered'
  <2>1. CASE chan.calls = 0
    BY <1>a, <2>1 DEF EarlierAnswered
  <2>2. CASE chan.calls # 0
    <3> DEFINE promise == Promise(chan.calls)
    <3>1. promise = [st |-> "value", got |-> chan.calls]
      BY <1>a, <1>2, <2>2 DEF Resting, Answered, Promise
    <3>2. Overtaken(promise) = promise
      BY <3>1 DEF Overtaken
    <3>3. promise \in PastPromises
      BY <1>a, <3>1 DEF PastPromises
    <3>4. /\ past \in Seq(PastPromises) /\ Len(past) = chan.calls - 1
          /\ past' = Append(past, promise)
      BY <2>2, <3>2 DEF TypeInv, TypeOK, BeginRpc
    <3> HIDE DEF promise
    <3>5. /\ past'[chan.calls] = promise
          /\ \A n \in 1 .. chan.calls - 1 : past'[n] = past[n]
      BY <1>a, <3>3, <3>4
    <3>6. \A n \in 1 .. chan.calls : n = chan.calls \/ n \in 1 .. chan.calls - 1
      BY <1>a
    <3>7. \A n \in 1 .. chan.calls : past'[n] = [st |-> "value", got |-> n]
      BY <3>1, <3>5, <3>6 DEF EarlierAnswered
    <3>8. chan'.calls - 1 = chan.calls
      BY <1>a
    <3> QED BY <3>7, <3>8 DEF EarlierAnswered
  <2> QED BY <2>1, <2>2
<1>7. Calling'
  <2>1. io'.at # "dispatching"
    BY <1>2, <1>3 DEF Resting, Silent, IoAt, TypeInv, TypeOK
  <2>2. Silent'
    BY <1>2, <2>1 DEF Resting, Silent, BeginRpc, IoAt
  <2>3. Waiting' /\ Rebinding'
    BY <1>a, <1>4 DEF Waiting, Rebinding
  <2> QED BY <2>2, <2>3 DEF Calling
<1>8. ~raced' => ~IoAt("aborted")'
  BY <1>3 DEF BeginRpc, At, IoAt
<1> QED BY <1>5, <1>6, <1>7, <1>8, <1>a, <1>c DEF Phases

LEMMA SerialPostRpc ==
  ASSUME TypeInv, LifeInv, OneCaller, EarlierAnswered, Phases,
         NEW t \in Threads, PostRpc(t)
  PROVE  OneCaller' /\ EarlierAnswered' /\ Phases'
<1>a. pc \in [Threads -> {"ready", "posting", "awaitRpc", "releasing"}]
  BY DEF TypeInv, TypeOK
<1>1. pc[t] = "posting" /\ InCall(t) /\ Rebinding
  BY DEF PostRpc, At, InCall, Rebinding
<1>2. chan.live
  BY <1>1 DEF LifeInv
<1>3. Calling
  BY <1>1, <1>2 DEF Phases, Resting, Pending
<1>4. /\ pc'[t] = "awaitRpc" /\ \A u \in Threads \ {t} : pc'[u] = pc[u]
      /\ UNCHANGED <<chan, past, conn, mine, io, out, in, raced>>
  BY <1>a DEF PostRpc, Goto, history
<1>5. OneCaller' /\ EarlierAnswered'
  <2>1. \A u \in Threads : InCall(u)' => InCall(u)
    BY <1>1, <1>4 DEF InCall
  <2> QED BY <1>4, <2>1, SameCalls
<1>6. ~Rebinding'
  <2>1. \A u \in Threads \ {t} : pc[u] # "posting"
    BY <1>1 DEF OneCaller, InCall
  <2> QED BY <1>4, <2>1 DEF Rebinding
<1>7. posted' = <<Request>> /\ Request' = Request /\ Waiting'
  <2>1. mine[t] = chan.calls
    BY <1>1 DEF OneCaller
  <2>2. posted' = Append(<<>>, Request)
    BY <1>3, <2>1 DEF PostRpc, Request, Calling, Silent
  <2>3. Request \in Frames
    BY RequestAndReply
  <2>4. \A f \in Frames : Append(<<>>, f) = <<f>>
    BY OneFrame
  <2> QED BY <1>3, <1>4, <2>2, <2>3, <2>4 DEF Calling, Waiting, Request
<1>8. OnItsWay'
  BY <1>3, <1>4, <1>7 DEF OnItsWay, Calling, Silent, IoAt
<1> QED BY <1>2, <1>4, <1>5, <1>6, <1>7, <1>8 DEF Phases, Pending, IoAt

LEMMA SerialRpcReturns ==
  ASSUME TypeInv, LifeInv, OneCaller, EarlierAnswered, Phases,
         NEW t \in Threads, RpcReturns(t)
  PROVE  OneCaller' /\ EarlierAnswered' /\ Phases'
<1>a. pc \in [Threads -> {"ready", "posting", "awaitRpc", "releasing"}]
  BY DEF TypeInv, TypeOK
<1>1. pc[t] = "awaitRpc" /\ InCall(t)
  BY DEF RpcReturns, At, InCall
<1>2. chan.live
  BY <1>1 DEF LifeInv
<1>3. chan.rpc # "pending"
  BY <1>1 DEF RpcReturns, OneCaller, Promise
<1>4. Resting
  BY <1>2, <1>3 DEF Phases, Calling, Pending, Waiting
<1>5. /\ pc'[t] = "ready" /\ \A u \in Threads \ {t} : pc'[u] = pc[u]
      /\ UNCHANGED <<chan, past, conn, mine, io, posted, out, in, raced>>
  BY <1>a DEF RpcReturns, Goto, history
<1>6. OneCaller' /\ EarlierAnswered'
  <2>1. \A u \in Threads : InCall(u)' => InCall(u)
    BY <1>1, <1>5 DEF InCall
  <2> QED BY <1>5, <2>1, SameCalls
<1>7. Resting'
  BY <1>4, <1>5 DEF Resting, Silent, Answered, Rebinding, IoAt
<1> QED BY <1>2, <1>5, <1>6, <1>7 DEF Phases, IoAt

(***************************************************************************)
(* The destructor of the channel: every call has its answer when the last  *)
(* reference goes, and keeps it.                                           *)
(***************************************************************************)
LEMMA SerialDestroyed ==
  ASSUME TypeInv, LifeInv, OneCaller, EarlierAnswered, Phases,
         chan.live, \A t \in Threads : ~InCall(t) /\ ~InCall(t)', DestroyChannel,
         UNCHANGED <<past, mine, conn, raced>>, conn = "alive" /\ ~raced => ~IoAt("aborted")'
  PROVE  OneCaller' /\ EarlierAnswered' /\ Phases'
<1>1. Resting
  BY NobodyInside
<1>2. /\ ~chan'.live /\ chan'.calls = chan.calls
      /\ chan'.rpc = chan.rpc /\ chan'.got = chan.got
  BY DestroyedType DEF DestroyChannel, TypeInv, TypeOK
<1>3. OneCaller' /\ EarlierAnswered'
  BY <1>2, SameCalls
<1>4. Answered'
  BY <1>1, <1>2 DEF Resting, Answered
<1> QED BY <1>2, <1>3, <1>4 DEF Phases

(* Releasing a connection that the channel does not need any more.         *)
LEMMA SerialReleased ==
  ASSUME TypeInv, OneCaller, EarlierAnswered, Phases, ~chan.live,
         NEW h, NEW next, next.at # "aborted", ReleaseConnection(h, next),
         \A t \in Threads : InCall(t)' => InCall(t),
         UNCHANGED <<chan, past, mine, raced>>
  PROVE  OneCaller' /\ EarlierAnswered' /\ Phases'
<1>1. OneCaller' /\ EarlierAnswered'
  BY SameCalls
<1>2. conn' = "alive" /\ ~raced' => ~IoAt("aborted")'
  <2>1. conn' = "alive" => io' = next
    BY DEF ReleaseConnection, DestroyConnection
  <2> QED BY <2>1 DEF IoAt
<1>3. Answered'
  BY DEF Phases, Answered
<1> QED BY <1>1, <1>2, <1>3 DEF Phases

(* The frame under way goes one step further.                              *)
LEMMA SerialMoves ==
  ASSUME TypeInv, OneCaller, EarlierAnswered, Phases,
         UNCHANGED <<chan, past, conn, pc, mine, raced>>,
         chan.live => (Resting => Silent') /\ (Calling => Silent') /\ (Pending => OnItsWay'),
         conn = "alive" /\ ~raced => ~IoAt("aborted")'
  PROVE  OneCaller' /\ EarlierAnswered' /\ Phases'
<1>1. OneCaller' /\ EarlierAnswered'
  BY SameCalls DEF InCall
<1>2. /\ Answered' = Answered /\ Waiting' = Waiting /\ Rebinding' = Rebinding
      /\ (\E t \in Threads : pc[t] = "awaitRpc")' = \E t \in Threads : pc[t] = "awaitRpc"
  BY DEF Answered, Waiting, Rebinding
<1>3. CASE chan.live
  BY <1>1, <1>2, <1>3 DEF Phases, Resting, Calling, Pending
<1>4. CASE ~chan.live
  BY <1>1, <1>2, <1>4 DEF Phases
<1> QED BY <1>3, <1>4

LEMMA SerialStep ==
  ASSUME TypeInv, LifeInv, SerialInv, [Next]_vars
  PROVE  SerialInv'
<1> SUFFICES ASSUME ~overlapped' PROVE OneCaller' /\ EarlierAnswered' /\ Phases'
  BY DEF SerialInv
<1>a. ~overlapped
  BY DEF Next, Application, IoStep, vars, BeginRpc, PostRpc, RpcReturns, DropChannel,
         ReleaseLast, DropConnection, RunBeginWriteFrame, DispatchFrame, CallContinuation,
         LeaveContinuation, Unlock, UnlockLast, Broker, history
<1>b. OneCaller /\ EarlierAnswered /\ Phases
  BY <1>a DEF SerialInv
<1>c. /\ chan \in ChannelStates /\ io.f \in Frames
      /\ pc \in [Threads -> {"ready", "posting", "awaitRpc", "releasing"}]
      /\ posted \in Seq(Frames) /\ out \in Seq(Frames) /\ in \in Seq(Frames)
      /\ io \in [at : {"idle", "dispatching", "leaving", "returning", "releasing", "stopped",
                       "aborted"}, f : Frames]
  BY DEF TypeInv, TypeOK
<1>d. Request \in Frames /\ Request.kind = "Declare" /\ Request.tag = chan.calls
  BY RequestAndReply
<1>e. Reply \in Frames /\ Reply.kind = "DeclareOk" /\ Reply.tag = chan.calls
  BY RequestAndReply
<1>1. ASSUME NEW t \in Threads, BeginRpc(t)
      PROVE  OneCaller' /\ EarlierAnswered' /\ Phases'
  BY <1>1, <1>b, SerialBeginRpc
<1>2. ASSUME NEW t \in Threads, PostRpc(t)
      PROVE  OneCaller' /\ EarlierAnswered' /\ Phases'
  BY <1>2, <1>b, SerialPostRpc
<1>3. ASSUME NEW t \in Threads, RpcReturns(t)
      PROVE  OneCaller' /\ EarlierAnswered' /\ Phases'
  BY <1>3, <1>b, SerialRpcReturns
<1>4. ASSUME NEW t \in Threads, DropChannel(t)
      PROVE  OneCaller' /\ EarlierAnswered' /\ Phases'
  <2>1. CASE IsLast(t)
    <3>1. holders = {t} /\ chan.live /\ pc[t] = "ready"
      BY <1>4, <2>1 DEF DropChannel, IsLast, LifeInv, At
    <3>2. \A u \in Threads : ~InCall(u)
      BY <3>1 DEF LifeInv, InCall
    <3>3. \A u \in Threads : ~InCall(u)'
      BY <1>4, <1>c, <2>1, <3>2 DEF DropChannel, Goto, InCall
    <3>4. DestroyChannel /\ UNCHANGED <<past, mine, conn, io, raced>>
      BY <1>4, <2>1 DEF DropChannel, history
    <3>5. conn = "alive" /\ ~raced => ~IoAt("aborted")'
      BY <1>b, <3>4 DEF Phases, IoAt
    <3> QED BY <1>b, <3>1, <3>2, <3>3, <3>4, <3>5, SerialDestroyed
  <2>2. CASE ~IsLast(t)
    <3>1. UNCHANGED <<chan, past, conn, pc, mine, io, posted, out, in, raced>>
      BY <1>4, <2>2 DEF DropChannel, history
    <3>2. Silent' = Silent /\ OnItsWay' = OnItsWay /\ IoAt("aborted")' = IoAt("aborted")
      BY <3>1 DEF Silent, OnItsWay, Request, Reply, IoAt
    <3> QED BY <1>b, <3>1, <3>2, SerialMoves DEF Resting, Calling, Pending, Phases
  <2> QED BY <2>1, <2>2
<1>5. ASSUME NEW t \in Threads, ReleaseLast(t)
      PROVE  OneCaller' /\ EarlierAnswered' /\ Phases'
  <2>1. ~chan.live /\ io.at # "aborted" /\ ReleaseConnection(TheChannel, io)
    BY <1>5 DEF ReleaseLast, At, LifeInv, Releasing, IoAt
  <2>2. \A u \in Threads : InCall(u)' => InCall(u)
    BY <1>5, <1>c DEF ReleaseLast, Goto, InCall
  <2>3. UNCHANGED <<chan, past, mine, raced>>
    BY <1>5 DEF ReleaseLast, history
  <2> QED BY <1>b, <2>1, <2>2, <2>3, SerialReleased
<1>6. ASSUME NEW t \in Threads, DropConnection(t)
      PROVE  OneCaller' /\ EarlierAnswered' /\ Phases'
  <2>1. /\ io.at # "aborted" /\ ReleaseConnection(t, io)
        /\ UNCHANGED <<chan, past, pc, mine, out, raced>>
    BY <1>6 DEF DropConnection, At, IoAt, history
  <2>2. CASE chan.live
    <3>1. TheChannel \in users /\ TheChannel # t
      BY <2>2, ThreadsAssumption DEF LifeInv
    <3>2. UNCHANGED <<conn, posted, in, io>>
      BY <2>1, <3>1 DEF ReleaseConnection
    <3>3. Silent' = Silent /\ OnItsWay' = OnItsWay /\ IoAt("aborted")' = IoAt("aborted")
      BY <2>1, <3>2 DEF Silent, OnItsWay, Request, Reply, IoAt
    <3> QED BY <1>b, <2>1, <3>2, <3>3, SerialMoves DEF Resting, Calling, Pending, Phases
  <2>3. CASE ~chan.live
    <3>1. \A u \in Threads : InCall(u)' => InCall(u)
      BY <2>1 DEF InCall
    <3> QED BY <1>b, <2>1, <2>3, <3>1, SerialReleased
  <2> QED BY <2>2, <2>3
<1>7. ASSUME RunBeginWriteFrame
      PROVE  OneCaller' /\ EarlierAnswered' /\ Phases'
  <2>1. /\ UNCHANGED <<chan, past, conn, pc, mine, io, in, raced>> /\ posted # <<>>
        /\ out' = Append(out, Head(posted)) /\ posted' = Tail(posted)
    BY <1>7 DEF RunBeginWriteFrame, history
  <2>2. ASSUME Pending PROVE OnItsWay'
    <3>1. posted = <<Request>> /\ out = <<>> /\ in = <<>> /\ ~IoAt("dispatching")
      BY <2>1, <2>2 DEF Pending, OnItsWay
    <3>2. posted' = <<>> /\ out' = <<Request>>
      BY <1>d, <2>1, <3>1, OneFrame
    <3>3. Request' = Request
      BY <2>1 DEF Request
    <3> QED BY <2>1, <3>1, <3>2, <3>3 DEF OnItsWay, IoAt
  <2>3. ~Silent /\ IoAt("aborted")' = IoAt("aborted")
    BY <2>1 DEF Silent, IoAt
  <2> QED BY <1>b, <2>1, <2>2, <2>3, SerialMoves DEF Resting, Calling, Phases
<1>8. ASSUME DispatchFrame
      PROVE  OneCaller' /\ EarlierAnswered' /\ Phases'
  <2>1. /\ UNCHANGED <<chan, past, conn, pc, mine, posted, out, raced>> /\ in # <<>>
        /\ in' = Tail(in)
        /\ \/ chan.live /\ io' = [at |-> "dispatching", f |-> Head(in)]
           \/ ~chan.live /\ io' = io
    BY <1>8 DEF DispatchFrame, history
  <2>2. ASSUME chan.live, Pending PROVE OnItsWay'
    <3>1. posted = <<>> /\ out = <<>> /\ in = <<Reply>>
      BY <2>1, <2>2 DEF Pending, OnItsWay
    <3>2. in' = <<>> /\ io'.at = "dispatching" /\ io'.f = Reply
      BY <1>e, <2>1, <2>2, <3>1, OneFrame
    <3>3. Reply' = Reply
      BY <2>1 DEF Reply
    <3> QED BY <2>1, <3>1, <3>2, <3>3 DEF OnItsWay, IoAt
  <2>3. ~Silent /\ (conn = "alive" /\ ~raced => ~IoAt("aborted")')
    BY <1>b, <2>1 DEF Silent, IoAt, Phases
  <2> QED BY <1>b, <2>1, <2>2, <2>3, SerialMoves DEF Resting, Calling
<1>9. ASSUME CallContinuation
      PROVE  OneCaller' /\ EarlierAnswered' /\ Phases'
  <2> DEFINE result == ProcessFrame(chan, io.f)
  <2>1. IoAt("dispatching") /\ chan.live
    BY <1>9 DEF CallContinuation, LifeInv, InContinuation
  <2>2. Pending /\ io.f = Reply /\ posted = <<>> /\ out = <<>> /\ in = <<>>
    BY <1>b, <2>1 DEF Phases, Resting, Calling, Silent, Pending, OnItsWay
  <2>3. ~Rebinding /\ chan.rpc = "pending" /\ chan.cont = "rpc_handler"
    BY <2>2 DEF Pending, Waiting
  <2>4. /\ result.thrown = "none" /\ result.chan.live = chan.live
        /\ result.chan.calls = chan.calls
        /\ result.chan.rpc = "value" /\ result.chan.got = chan.calls
    BY <1>c, <1>e, <2>2, <2>3, AnswerAccepted
  <2> HIDE DEF result
  <2>5. chan' = result.chan /\ io' = [io EXCEPT !.at = "leaving"]
    BY <1>9, <2>3, <2>4 DEF CallContinuation, IoGoto, result
  <2>6. UNCHANGED <<past, conn, pc, mine, posted, out, in, raced>>
    BY <1>9 DEF CallContinuation, history
  <2>7. OneCaller' /\ EarlierAnswered'
    <3>1. \A u \in Threads : InCall(u)' => InCall(u)
      BY <2>6 DEF InCall
    <3> QED BY <1>b, <2>4, <2>5, <2>6, <3>1, SameCalls
  <2>8. io'.at = "leaving"
    BY <1>c, <2>5
  <2>9. Resting'
    BY <2>2, <2>3, <2>4, <2>5, <2>6, <2>8 DEF Resting, Silent, Answered, Rebinding, IoAt
  <2> QED BY <2>1, <2>4, <2>5, <2>7, <2>8, <2>9 DEF Phases, IoAt
<1>10. ASSUME Unlock
       PROVE  OneCaller' /\ EarlierAnswered' /\ Phases'
  <2>1. chan.live /\ io.at = "returning" /\ UNCHANGED <<past, conn, pc, mine, out, in, raced>>
    BY <1>10 DEF Unlock, LifeInv, IoAt, history
  <2>2. CASE IsLast(IoThread)
    <3>1. holders \subseteq {IoThread}
      BY <2>2 DEF IsLast
    <3>2. \A u \in Threads : ~InCall(u)
      BY <3>1, ThreadsAssumption DEF LifeInv
    <3>3. \A u \in Threads : ~InCall(u)'
      BY <2>1, <3>2 DEF InCall
    <3>4. DestroyChannel /\ io' = [io EXCEPT !.at = "releasing"]
      BY <1>10, <2>2 DEF Unlock, IoGoto
    <3>5. conn = "alive" /\ ~raced => ~IoAt("aborted")'
      BY <1>c, <3>4 DEF IoAt
    <3> QED BY <1>b, <2>1, <3>2, <3>3, <3>4, <3>5, SerialDestroyed
  <2>3. CASE ~IsLast(IoThread)
    <3>1. UNCHANGED <<chan, posted>> /\ io' = [io EXCEPT !.at = "idle"]
      BY <1>10, <2>3 DEF Unlock, IoGoto
    <3>2. io'.at = "idle"
      BY <1>c, <3>1
    <3>3. /\ Silent => Silent'
          /\ OnItsWay => OnItsWay'
          /\ conn = "alive" /\ ~raced => ~IoAt("aborted")'
      BY <2>1, <3>1, <3>2 DEF Silent, OnItsWay, Request, Reply, IoAt
    <3> QED BY <1>b, <2>1, <3>1, <3>3, SerialMoves DEF Resting, Calling, Pending
  <2> QED BY <2>2, <2>3
<1>11. ASSUME UnlockLast
       PROVE  OneCaller' /\ EarlierAnswered' /\ Phases'
  <2> DEFINE next == [io EXCEPT !.at = "idle"]
  <2>1. ~chan.live /\ ReleaseConnection(TheChannel, next) /\ UNCHANGED <<chan, past, mine, pc, raced>>
    BY <1>11 DEF UnlockLast, LifeInv, history
  <2>2. next.at # "aborted"
    BY <1>c
  <2> HIDE DEF next
  <2>3. \A u \in Threads : InCall(u)' => InCall(u)
    BY <2>1 DEF InCall
  <2> QED BY <1>b, <2>1, <2>2, <2>3, SerialReleased
<1>12. ASSUME Broker
       PROVE  OneCaller' /\ EarlierAnswered' /\ Phases'
  <2>1. /\ UNCHANGED <<chan, past, conn, pc, mine, io, posted, raced>>
        /\ out # <<>> /\ out' = Tail(out)
    BY <1>12 DEF Broker, history
  <2>2. ASSUME chan.live, Pending PROVE OnItsWay'
    <3>1. posted = <<>> /\ out = <<Request>> /\ in = <<>> /\ ~IoAt("dispatching")
      BY <2>1, <2>2 DEF Pending, OnItsWay
    <3>2. Head(out) = Request /\ out' = <<>>
      BY <1>d, <2>1, <3>1, OneFrame
    <3>3. conn = "alive"
      BY <2>2 DEF LifeInv
    <3>4. in' = Append(<<>>, Reply)
      BY <1>12, <1>d, <3>1, <3>2, <3>3 DEF Broker, Answers, Reply
    <3>5. in' = <<Reply>>
      BY <1>e, <3>4, OneFrame
    <3>6. Reply' = Reply
      BY <2>1 DEF Reply
    <3> QED BY <2>1, <3>1, <3>2, <3>5, <3>6 DEF OnItsWay, IoAt
  <2>3. ~Silent /\ IoAt("aborted")' = IoAt("aborted")
    BY <2>1 DEF Silent, IoAt
  <2> QED BY <1>b, <2>1, <2>2, <2>3, SerialMoves DEF Resting, Calling, Phases
<1>13. ASSUME UNCHANGED vars
       PROVE  OneCaller' /\ EarlierAnswered' /\ Phases'
  <2>1. UNCHANGED <<chan, past, conn, pc, mine, io, posted, out, in, raced>>
    BY <1>13 DEF vars, history
  <2>2. Silent' = Silent /\ OnItsWay' = OnItsWay /\ IoAt("aborted")' = IoAt("aborted")
    BY <2>1 DEF Silent, OnItsWay, Request, Reply, IoAt
  <2> QED BY <1>b, <2>1, <2>2, SerialMoves DEF Resting, Calling, Pending, Phases
<1>14. ASSUME LeaveContinuation
       PROVE  OneCaller' /\ EarlierAnswered' /\ Phases'
  <2>1. /\ UNCHANGED <<chan, past, conn, pc, mine, posted, out, in, raced>>
        /\ io.at = "leaving" /\ io' = [io EXCEPT !.at = "returning"]
    BY <1>14 DEF LeaveContinuation, history, IoAt, IoGoto
  <2>2. io'.at = "returning"
    BY <1>c, <2>1
  <2>3. /\ Silent => Silent'
        /\ OnItsWay => OnItsWay'
        /\ ~IoAt("aborted")'
    BY <2>1, <2>2 DEF Silent, OnItsWay, Request, Reply, IoAt
  <2> QED BY <1>b, <2>1, <2>3, SerialMoves DEF Resting, Calling, Pending
<1> QED
  BY <1>1, <1>2, <1>3, <1>4, <1>5, <1>6, <1>7, <1>8, <1>9, <1>10, <1>11, <1>12, <1>13, <1>14
     DEF Next, Application, IoStep

(***************************************************************************)
(* Threads that do not overlap their calls get their own answers, every    *)
(* one of them; and nothing brings the process down while the connection   *)
(* is there and no call has begun before the io thread left the one        *)
(* before.                                                                 *)
(***************************************************************************)
THEOREM SerialSharingIsSafe == Spec => []SerialCallsAreSafe
<1>1. ASSUME TypeInv, SerialInv PROVE SerialCallsAreSafe
  <2> SUFFICES ASSUME ~overlapped
               PROVE  /\ conn = "alive" /\ ~raced => ~IoAt("aborted")
                      /\ \A t \in Threads : ~InCall(t) /\ mine[t] # 0 =>
                           Promise(mine[t]) = [st |-> "value", got |-> mine[t]]
    BY DEF SerialCallsAreSafe
  <2>1. OneCaller /\ EarlierAnswered /\ Phases
    BY <1>1 DEF SerialInv
  <2>2. ASSUME NEW t \in Threads, ~InCall(t), mine[t] # 0
        PROVE  Promise(mine[t]) = [st |-> "value", got |-> mine[t]]
    <3>1. mine[t] \in 1 .. chan.calls /\ chan.calls \in Nat
      BY <1>1, <2>2 DEF TypeInv, TypeOK, ChannelStates
    <3>2. CASE mine[t] # chan.calls
      BY <2>1, <3>1, <3>2 DEF Promise, EarlierAnswered
    <3>3. CASE mine[t] = chan.calls
      <4>1. \A u \in Threads : ~InCall(u)
        BY <2>1, <2>2, <3>1, <3>3 DEF OneCaller
      <4>2. Answered
        BY <2>1, <4>1, NobodyInside DEF Phases, Resting
      <4> QED BY <3>1, <3>3, <4>2 DEF Answered, Promise
    <3> QED BY <3>2, <3>3
  <2> QED BY <2>1, <2>2 DEF Phases
<1> QED
  BY <1>1, TypeInit, TypeStep, LifeInit, LifeStep, SerialInit, SerialStep, PTL DEF Spec

-----------------------------------------------------------------------------
(***************************************************************************)
(* Nobody is stranded.  As long as the promise of the latest call is       *)
(* pending the continuation is bound to it, and if its thread has posted   *)
(* the request then that is under way, or the answer is.                   *)
(***************************************************************************)
Awaits(t) == pc[t] = "awaitRpc" /\ mine[t] = chan.calls

LatestAsked ==
  chan.rpc = "pending" =>
    /\ chan.cont = "rpc_handler"
    /\ (\E t \in Threads : Awaits(t)) => UnderWay(chan.calls)

CloseAsked ==
  ~chan.live => peer = "closed" \/ conn = "destroyed" \/ Sending(Frame(Id, "Close", 0))

TurnInv ==
  /\ \A t \in Threads : InCall(t) => mine[t] # 0
  /\ ~IoAt("aborted") => (chan.live => LatestAsked) /\ CloseAsked

(* A frame in a sequence of them.                                          *)
On(f, s) == \E k \in DOMAIN s : s[k] = f

LEMMA OnAppended ==
  ASSUME NEW s \in Seq(Frames), NEW g \in Frames, NEW f
  PROVE  On(f, Append(s, g)) <=> f = g \/ On(f, s)
<1>1. /\ DOMAIN s = 1 .. Len(s) /\ Len(s) \in Nat
      /\ DOMAIN Append(s, g) = 1 .. Len(s) + 1
      /\ Append(s, g)[Len(s) + 1] = g
      /\ \A j \in 1 .. Len(s) : Append(s, g)[j] = s[j]
  OBVIOUS
<1> QED BY <1>1 DEF On

LEMMA OnTaken ==
  ASSUME NEW s \in Seq(Frames), s # <<>>, NEW f, On(f, s)
  PROVE  f = Head(s) \/ On(f, Tail(s))
<1>1. /\ DOMAIN s = 1 .. Len(s) /\ Len(s) \in Nat /\ Head(s) = s[1]
      /\ DOMAIN Tail(s) = 1 .. Len(s) - 1
      /\ \A j \in 1 .. Len(s) - 1 : Tail(s)[j] = s[j + 1]
  OBVIOUS
<1>2. PICK j \in DOMAIN s : s[j] = f
  BY DEF On
<1>3. j # 1 => j - 1 \in DOMAIN Tail(s) /\ Tail(s)[j - 1] = f
  BY <1>1, <1>2
<1> QED BY <1>1, <1>2, <1>3 DEF On

LEMMA WhereFramesAre ==
  /\ \A f : Sending(f) <=> On(f, Sent)
  /\ \A f : Sending(f)' <=> On(f, Sent')
  /\ \A n : UnderWay(n) <=> \/ On(Frame(Id, "Declare", n), Sent)
                            \/ On(Frame(Id, "DeclareOk", n), in)
                            \/ io.at = "dispatching" /\ io.f = Frame(Id, "DeclareOk", n)
  /\ \A n : UnderWay(n)' <=> \/ On(Frame(Id, "Declare", n), Sent')
                             \/ On(Frame(Id, "DeclareOk", n), in')
                             \/ io'.at = "dispatching" /\ io'.f = Frame(Id, "DeclareOk", n)
BY DEF Sending, UnderWay, On, IoAt

LEMMA TurnInit == Init => TurnInv
BY DEF Init, TurnInv, LatestAsked, CloseAsked, NewChannel, InCall

(* A step that starts no call and answers none.                            *)
LEMMA TurnStays ==
  ASSUME TurnInv, ~IoAt("aborted"), UNCHANGED <<chan, mine>>,
         \A t \in Threads : InCall(t)' => InCall(t),
         \A t \in Threads : Awaits(t)' => Awaits(t),
         chan.live => \A n : UnderWay(n) => UnderWay(n)',
         IoAt("aborted")' \/ (CloseAsked => CloseAsked')
  PROVE  TurnInv'
<1>1. \A t \in Threads : InCall(t)' => mine'[t] # 0
  BY Zenon DEF TurnInv
<1>2. CASE IoAt("aborted")'
  BY <1>1, <1>2 DEF TurnInv
<1>3. CASE ~IoAt("aborted")'
  <2>1. chan.live => LatestAsked
    BY DEF TurnInv
  <2>2. chan'.calls = chan.calls
    OBVIOUS
  <2>3. ASSUME chan.live, UnderWay(chan.calls) PROVE UnderWay(chan.calls)'
    BY <2>2, <2>3, Zenon
  <2>4. UNCHANGED chan
    OBVIOUS
  <2>5. (chan.live => LatestAsked)'
    BY <2>1, <2>3, <2>4, Zenon DEF LatestAsked
  <2>6. CloseAsked'
    BY <1>3 DEF TurnInv
  <2> QED BY <1>1, <2>5, <2>6 DEF TurnInv
<1> QED BY <1>2, <1>3

(* The destructor of the channel: what no thread waits for may stay.       *)
LEMMA TurnDestroyed ==
  ASSUME TypeInv, TurnInv, DestroyChannel, UNCHANGED <<mine, out, peer, conn>>,
         \A t \in Threads : InCall(t)' => InCall(t)
  PROVE  TurnInv'
<1>1. out \in Seq(Frames) /\ posted \in Seq(Frames) /\ Sent \in Seq(Frames)
      /\ chan \in ChannelStates /\ Frame(Id, "Close", 0) \in Frames
  BY FrameTypes DEF TypeInv, TypeOK, Sent
<1>2. Sent' = Append(Sent, Frame(Id, "Close", 0))
  BY <1>1, FrameIsPosted DEF Sent, DestroyChannel
<1>3. Sending(Frame(Id, "Close", 0))'
  BY <1>1, <1>2, OnAppended, WhereFramesAre
<1>4. ~chan'.live
  BY <1>1, DestroyedType DEF DestroyChannel
<1>5. \A t \in Threads : InCall(t)' => mine'[t] # 0
  BY Zenon DEF TurnInv
<1> QED BY <1>3, <1>4, <1>5, Zenon DEF TurnInv, CloseAsked

(* The channel is gone; the connection may follow it.                      *)
LEMMA TurnReleased ==
  ASSUME TurnInv, ~IoAt("aborted"), ~chan.live, NEW h, NEW next, ReleaseConnection(h, next),
         UNCHANGED <<chan, mine, out, peer>>,
         \A t \in Threads : InCall(t)' => InCall(t)
  PROVE  TurnInv'
<1>1. CloseAsked
  BY DEF TurnInv
<1>2. conn' = "destroyed" \/ UNCHANGED <<conn, posted>>
  BY DEF ReleaseConnection, DestroyConnection
<1>3. UNCHANGED posted => Sent' = Sent
  BY DEF Sent
<1>4. CloseAsked'
  BY <1>1, <1>2, <1>3, WhereFramesAre, Zenon DEF CloseAsked
<1>5. \A t \in Threads : InCall(t)' => mine'[t] # 0
  BY Zenon DEF TurnInv
<1> QED BY <1>4, <1>5 DEF TurnInv

(* No continuation that was bound to a promise leaves it pending.          *)
LEMMA ProcessFrameSettles ==
  ASSUME NEW c \in ChannelStates, NEW f \in Frames,
         c.rpc = "pending" => c.cont = "rpc_handler"
  PROVE  ProcessFrame(c, f).chan.rpc # "pending"
BY DEF ProcessFrame, ProcessOpen, RpcHandler, ClosedHandler, Returns, Throws,
       Mismatch, ChannelStates, PromiseStates, Frames

LEMMA TurnStep ==
  ASSUME TypeInv, LifeInv, TurnInv, [Next]_vars
  PROVE  TurnInv'
<1>a. /\ out \in Seq(Frames) /\ posted \in Seq(Frames) /\ Sent \in Seq(Frames)
      /\ in \in Seq(Frames) /\ chan \in ChannelStates /\ chan.calls \in Nat /\ io.f \in Frames
      /\ mine \in [Threads -> 0 .. chan.calls]
      /\ pc \in [Threads -> {"ready", "posting", "awaitRpc", "releasing"}]
  BY DEF TypeInv, TypeOK, Sent, ChannelStates
<1>b. /\ \A t \in Threads : InCall(t) => mine[t] # 0
      /\ ~IoAt("aborted") => (chan.live => LatestAsked) /\ CloseAsked
  BY DEF TurnInv
<1>1. ASSUME NEW t \in Threads, BeginRpc(t)
      PROVE  TurnInv'
  <2>1. /\ chan'.live = chan.live /\ chan'.calls = chan.calls + 1
        /\ chan'.cont = "rpc_handler"
    BY <1>1, <1>a, ArmRpcType DEF BeginRpc
  <2>2. /\ mine'[t] = chan'.calls /\ \A u \in Threads \ {t} : mine'[u] = mine[u]
        /\ pc'[t] = "posting" /\ \A u \in Threads \ {t} : pc'[u] = pc[u]
    BY <1>1, <1>a, <2>1 DEF BeginRpc, Goto
  <2>3. UNCHANGED <<peer, conn, posted, out>> /\ ~IoAt("aborted")
    BY <1>1 DEF BeginRpc, At
  <2>4. \A u \in Threads : InCall(u)' => mine'[u] # 0
    <3>1. mine'[t] # 0
      BY <1>a, <2>1, <2>2
    <3>2. \A u \in Threads \ {t} : InCall(u)' => mine'[u] # 0
      BY <1>b, <2>2 DEF InCall
    <3> QED BY <3>1, <3>2
  <2>5. LatestAsked'
    <3>1. \A u \in Threads \ {t} : mine'[u] # chan'.calls
      BY <1>a, <2>1, <2>2
    <3> QED BY <2>1, <2>2, <3>1 DEF LatestAsked, Awaits
  <2>6. CloseAsked'
    <3>1. Sent' = Sent
      BY <2>3 DEF Sent
    <3> QED BY <1>b, <2>1, <2>3, <3>1, WhereFramesAre, Zenon DEF CloseAsked
  <2> QED BY <2>4, <2>5, <2>6 DEF TurnInv
<1>2. ASSUME NEW t \in Threads, PostRpc(t)
      PROVE  TurnInv'
  <2> DEFINE f == Frame(Id, "Declare", mine[t])
  <2>1. f \in Frames
    BY <1>a, FrameTypes
  <2>2. Sent' = Append(Sent, f)
    BY <1>2, <1>a, <2>1, FrameIsPosted DEF PostRpc, Sent
  <2>3. \A g : On(g, Sent') <=> g = f \/ On(g, Sent)
    BY <1>a, <2>1, <2>2, OnAppended
  <2> HIDE DEF f
  <2>4. /\ UNCHANGED <<chan, mine, conn, peer, io, in>> /\ ~IoAt("aborted")
        /\ pc[t] = "posting" /\ pc'[t] = "awaitRpc"
        /\ \A u \in Threads \ {t} : pc'[u] = pc[u]
    BY <1>2, <1>a DEF PostRpc, At, Goto
  <2>5. /\ \A n : UnderWay(n) => UnderWay(n)'
        /\ UnderWay(mine[t])'
        /\ \A g : Sending(g) => Sending(g)'
    <3>1. On(Frame(Id, "Declare", mine[t]), Sent')
      BY <2>3 DEF f
    <3>2. PICK n : n = mine[t]
      OBVIOUS
    <3>3. UnderWay(n)'
      BY <3>1, <3>2, WhereFramesAre
    <3>4. mine'[t] = n
      BY <2>4, <3>2
    <3> QED BY <2>3, <2>4, <3>3, <3>4, WhereFramesAre, Zenon
  <2>6. \A u \in Threads : InCall(u)' => mine'[u] # 0
    BY <1>b, <2>4 DEF InCall
  <2>7. chan'.live => LatestAsked'
    <3> SUFFICES ASSUME chan.live, chan.rpc = "pending" PROVE LatestAsked'
      BY <2>4 DEF LatestAsked
    <3>1. /\ chan.cont = "rpc_handler"
          /\ \A u \in Threads : Awaits(u) => UnderWay(chan.calls)
      BY <1>b, <2>4 DEF LatestAsked
    <3>2. ASSUME Awaits(t)' PROVE UnderWay(chan.calls)'
      <4>1. mine[t] = chan.calls /\ mine'[t] = mine[t] /\ chan'.calls = chan.calls
        BY <2>4, <3>2 DEF Awaits
      <4> QED BY <2>5, <4>1, Zenon
    <3>3. ASSUME NEW u \in Threads \ {t}, Awaits(u)' PROVE UnderWay(chan.calls)'
      <4>1. Awaits(u) /\ chan'.calls = chan.calls
        BY <2>4, <3>3 DEF Awaits
      <4> QED BY <2>5, <3>1, <4>1, Zenon
    <3>4. \A u \in Threads : Awaits(u)' => UnderWay(chan.calls)'
      BY <3>2, <3>3, Zenon
    <3> QED BY <2>4, <3>1, <3>4, Zenon DEF LatestAsked
  <2>8. CloseAsked'
    BY <1>b, <2>4, <2>5, Zenon DEF CloseAsked
  <2> QED BY <2>6, <2>7, <2>8, <2>4 DEF TurnInv
<1>3. ASSUME NEW t \in Threads, RpcReturns(t)
      PROVE  TurnInv'
  <2>1. /\ UNCHANGED <<chan, mine, conn, peer, io, posted, out, in>> /\ ~IoAt("aborted")
        /\ pc'[t] = "ready" /\ pc[t] = "awaitRpc" /\ \A u \in Threads \ {t} : pc'[u] = pc[u]
    BY <1>3, <1>a DEF RpcReturns, At, Goto
  <2>2. Sent' = Sent
    BY <2>1 DEF Sent
  <2>3. /\ \A u \in Threads : (InCall(u)' => InCall(u)) /\ (Awaits(u)' => Awaits(u))
        /\ \A n : UnderWay(n) => UnderWay(n)'
        /\ CloseAsked => CloseAsked'
    BY <2>1, <2>2 DEF InCall, Awaits, CloseAsked, UnderWay, Sending, IoAt
  <2> QED BY <2>1, <2>3, TurnStays
<1>4. ASSUME NEW t \in Threads, DropChannel(t)
      PROVE  TurnInv'
  <2>1. CASE IsLast(t)
    <3>1. /\ DestroyChannel /\ UNCHANGED <<mine, out, peer, conn>>
          /\ \A u \in Threads : InCall(u)' => InCall(u)
      BY <1>4, <1>a, <2>1 DEF DropChannel, Goto, InCall
    <3> QED BY <3>1, TurnDestroyed
  <2>2. CASE ~IsLast(t)
    <3>1. UNCHANGED <<chan, mine, pc, conn, peer, io, posted, out, in>> /\ ~IoAt("aborted")
      BY <1>4, <2>2 DEF DropChannel, At
    <3>2. Sent' = Sent
      BY <3>1 DEF Sent
    <3>3. /\ \A u \in Threads : (InCall(u)' => InCall(u)) /\ (Awaits(u)' => Awaits(u))
          /\ \A n : UnderWay(n) => UnderWay(n)'
          /\ CloseAsked => CloseAsked'
      BY <3>1, <3>2 DEF InCall, Awaits, CloseAsked, UnderWay, Sending, IoAt
    <3> QED BY <3>1, <3>3, TurnStays
  <2> QED BY <2>1, <2>2
<1>5. ASSUME NEW t \in Threads, ReleaseLast(t)
      PROVE  TurnInv'
  <2>1. /\ ~IoAt("aborted") /\ ~chan.live /\ ReleaseConnection(TheChannel, io)
        /\ UNCHANGED <<chan, mine, out, peer>>
        /\ \A u \in Threads : InCall(u)' => InCall(u)
    BY <1>5, <1>a DEF ReleaseLast, At, Goto, LifeInv, Releasing, InCall
  <2> QED BY <2>1, TurnReleased
<1>6. ASSUME NEW t \in Threads, DropConnection(t)
      PROVE  TurnInv'
  <2>1. /\ ~IoAt("aborted") /\ ReleaseConnection(t, io) /\ UNCHANGED <<chan, mine, pc, out, peer>>
        /\ \A u \in Threads : InCall(u)' => InCall(u)
    BY <1>6 DEF DropConnection, At, InCall
  <2>2. CASE ~chan.live
    BY <2>1, <2>2, TurnReleased
  <2>3. CASE chan.live
    <3>1. TheChannel \in users /\ TheChannel # t
      BY <2>3, ThreadsAssumption DEF LifeInv
    <3>2. UNCHANGED <<conn, posted, in, io>>
      BY <2>1, <3>1 DEF ReleaseConnection
    <3>3. Sent' = Sent
      BY <2>1, <3>2 DEF Sent
    <3>4. /\ \A u \in Threads : Awaits(u)' => Awaits(u)
          /\ \A n : UnderWay(n) => UnderWay(n)'
          /\ CloseAsked => CloseAsked'
      BY <2>1, <3>2, <3>3 DEF Awaits, CloseAsked, UnderWay, Sending, IoAt
    <3> QED BY <2>1, <3>4, TurnStays
  <2> QED BY <2>2, <2>3
<1>7. ASSUME RunBeginWriteFrame
      PROVE  TurnInv'
  <2>1. UNCHANGED <<chan, mine, pc, conn, peer, io, in>> /\ ~IoAt("aborted")
    BY <1>7 DEF RunBeginWriteFrame, IoAt
  <2>2. Sent' = Sent
    BY <1>7, <1>a, FrameIsWritten DEF RunBeginWriteFrame, Sent
  <2>3. /\ \A u \in Threads : (InCall(u)' => InCall(u)) /\ (Awaits(u)' => Awaits(u))
        /\ \A n : UnderWay(n) => UnderWay(n)'
        /\ CloseAsked => CloseAsked'
    BY <2>1, <2>2 DEF InCall, Awaits, CloseAsked, UnderWay, Sending, IoAt
  <2> QED BY <2>1, <2>3, TurnStays
<1>8. ASSUME DispatchFrame
      PROVE  TurnInv'
  <2>1. /\ UNCHANGED <<chan, mine, pc, conn, peer, posted, out>> /\ io.at = "idle"
        /\ in # <<>> /\ in' = Tail(in)
        /\ chan.live => io' = [at |-> "dispatching", f |-> Head(in)]
    BY <1>8 DEF DispatchFrame, IoAt
  <2>2. Sent' = Sent
    BY <2>1 DEF Sent
  <2>3. \A g : On(g, in) => g = Head(in) \/ On(g, in')
    BY <1>a, <2>1, OnTaken
  <2>4. chan.live => io'.at = "dispatching" /\ io'.f = Head(in)
    BY <2>1
  <2>5. chan.live => \A n : UnderWay(n) => UnderWay(n)'
    BY <2>1, <2>2, <2>3, <2>4, WhereFramesAre
  <2>6. /\ \A u \in Threads : (InCall(u)' => InCall(u)) /\ (Awaits(u)' => Awaits(u))
        /\ CloseAsked => CloseAsked'
    BY <2>1, <2>2 DEF InCall, Awaits, CloseAsked, Sending
  <2> QED BY <2>1, <2>5, <2>6, TurnStays DEF IoAt
<1>9. ASSUME CallContinuation
      PROVE  TurnInv'
  <2> DEFINE result == ProcessFrame(chan, io.f)
  <2>1. UNCHANGED <<mine, pc, conn, peer, posted, out>> /\ ~IoAt("aborted") /\ chan.live
    BY <1>9 DEF CallContinuation, IoAt, LifeInv, InContinuation
  <2>2. result.chan.rpc # "pending" /\ result.chan.live = chan.live
    BY <1>a, <1>b, <2>1, ProcessFrameSettles, ProcessFrameType DEF LatestAsked
  <2>3. \A u \in Threads : InCall(u)' => mine'[u] # 0
    BY <1>b, <2>1 DEF InCall
  <2> HIDE DEF result
  <2>4. chan' = result.chan \/ IoGoto("aborted")
    BY <1>9 DEF CallContinuation, result
  <2>5. CASE chan' = result.chan
    BY <2>1, <2>2, <2>3, <2>5 DEF TurnInv, LatestAsked, CloseAsked
  <2>6. CASE IoGoto("aborted")
    <3>1. io'.at = "aborted"
      BY <2>6 DEF IoGoto, TypeInv, TypeOK
    <3> QED BY <2>3, <3>1 DEF TurnInv, IoAt
  <2> QED BY <2>4, <2>5, <2>6
<1>10. ASSUME Unlock
       PROVE  TurnInv'
  <2>1. UNCHANGED <<mine, pc, conn, peer, out, in>> /\ io.at = "returning"
    BY <1>10 DEF Unlock, IoAt
  <2>2. \A u \in Threads : InCall(u)' => InCall(u)
    BY <2>1 DEF InCall
  <2>3. CASE IsLast(IoThread)
    BY <1>10, <2>1, <2>2, <2>3, TurnDestroyed DEF Unlock
  <2>4. CASE ~IsLast(IoThread)
    <3>1. UNCHANGED <<chan, posted>>
      BY <1>10, <2>4 DEF Unlock
    <3>2. Sent' = Sent
      BY <2>1, <3>1 DEF Sent
    <3>3. /\ \A u \in Threads : Awaits(u)' => Awaits(u)
          /\ \A n : UnderWay(n) => UnderWay(n)'
          /\ CloseAsked => CloseAsked'
      BY <2>1, <3>1, <3>2 DEF Awaits, CloseAsked, UnderWay, Sending, IoAt
    <3> QED BY <2>1, <2>2, <3>1, <3>3, TurnStays DEF IoAt
  <2> QED BY <2>3, <2>4
<1>11. ASSUME UnlockLast
       PROVE  TurnInv'
  <2>1. /\ ~IoAt("aborted") /\ ~chan.live
        /\ ReleaseConnection(TheChannel, [io EXCEPT !.at = "idle"])
        /\ UNCHANGED <<chan, mine, pc, out, peer>>
    BY <1>11 DEF UnlockLast, IoAt, LifeInv
  <2>2. \A u \in Threads : InCall(u)' => InCall(u)
    BY <2>1 DEF InCall
  <2> QED BY <2>1, <2>2, TurnReleased
<1>12. ASSUME Broker
       PROVE  TurnInv'
  <2> DEFINE f == Head(out)
  <2>1. /\ UNCHANGED <<chan, mine, pc, conn, io, posted>> /\ ~IoAt("aborted") /\ out # <<>>
        /\ out' = Tail(out)
    BY <1>12 DEF Broker
  <2>2. Sent' = Tail(Sent) /\ Sent # <<>> /\ Head(Sent) = f
    BY <1>a, <2>1, FrameIsRead DEF Sent
  <2>3. \A g : On(g, Sent) => g = f \/ On(g, Sent')
    BY <1>a, <2>2, OnTaken
  <2>4. f \in Frames
    BY <1>a, <2>1
  <2>5. /\ chan.live /\ f.kind = "Declare" => in' = Append(in, Frame(Id, "DeclareOk", f.tag))
        /\ chan.live /\ f.kind = "Close" => in' = Append(in, Frame(Id, "CloseOk", 0))
        /\ f.kind = "Close" => peer' = "closed"
        /\ f.kind = "Declare" => peer' = peer
        /\ f.kind = "Declare" \/ f.kind = "Close"
    BY <1>12 DEF Broker, Answers, LifeInv
  <2> HIDE DEF f
  <2>6. \A n : Frame(Id, "Declare", n) = f => f.kind = "Declare" /\ f.tag = n
    BY DEF Frame
  <2>7. Frame(Id, "Close", 0) = f => f.kind = "Close"
    BY DEF Frame
  <2>8. ASSUME chan.live
        PROVE  /\ \A g : On(g, in) => On(g, in')
               /\ f.kind = "Declare" => On(Frame(Id, "DeclareOk", f.tag), in')
    <3>1. f.tag \in Nat
      BY <2>4 DEF Frames
    <3>2. Frame(Id, "DeclareOk", f.tag) \in Frames /\ Frame(Id, "CloseOk", 0) \in Frames
      BY <3>1, FrameTypes
    <3>3. CASE f.kind = "Declare"
      <4>1. in' = Append(in, Frame(Id, "DeclareOk", f.tag))
        BY <2>5, <2>8, <3>3
      <4>2. \A g : On(g, in') <=> g = Frame(Id, "DeclareOk", f.tag) \/ On(g, in)
        BY <1>a, <3>2, <4>1, OnAppended
      <4> QED BY <4>2
    <3>4. CASE f.kind = "Close"
      <4>1. in' = Append(in, Frame(Id, "CloseOk", 0))
        BY <2>5, <2>8, <3>4
      <4>2. \A g : On(g, in') <=> g = Frame(Id, "CloseOk", 0) \/ On(g, in)
        BY <1>a, <3>2, <4>1, OnAppended
      <4> QED BY <3>4, <4>2
    <3> QED BY <2>5, <3>3, <3>4
  <2>9. chan.live => \A n : UnderWay(n) => UnderWay(n)'
    BY <2>1, <2>3, <2>6, <2>8, WhereFramesAre
  <2>10. CloseAsked => CloseAsked'
    BY <2>1, <2>3, <2>5, <2>7, WhereFramesAre, Zenon DEF CloseAsked
  <2>11. \A u \in Threads : (InCall(u)' => InCall(u)) /\ (Awaits(u)' => Awaits(u))
    BY <2>1 DEF InCall, Awaits
  <2> QED BY <2>1, <2>9, <2>10, <2>11, TurnStays
<1>13. ASSUME UNCHANGED vars
       PROVE  TurnInv'
  BY <1>13 DEF vars, TurnInv, InCall, IoAt, LatestAsked, CloseAsked, UnderWay, Awaits,
               Sending, Sent
<1>14. ASSUME LeaveContinuation
       PROVE  TurnInv'
  <2>1. /\ UNCHANGED <<chan, mine, pc, conn, peer, posted, out, in>> /\ io.at = "leaving"
    BY <1>14 DEF LeaveContinuation, IoAt
  <2>2. Sent' = Sent
    BY <2>1 DEF Sent
  <2>3. /\ \A u \in Threads : (InCall(u)' => InCall(u)) /\ (Awaits(u)' => Awaits(u))
        /\ \A n : UnderWay(n) => UnderWay(n)'
        /\ CloseAsked => CloseAsked'
    BY <2>1, <2>2 DEF InCall, Awaits, CloseAsked, UnderWay, Sending, IoAt
  <2> QED BY <2>1, <2>3, TurnStays DEF IoAt
<1> QED
  BY <1>1, <1>2, <1>3, <1>4, <1>5, <1>6, <1>7, <1>8, <1>9, <1>10, <1>11, <1>12, <1>13, <1>14
     DEF Next, Application, IoStep

(***************************************************************************)
(* No promise is pending that nothing will satisfy: the request or the     *)
(* answer of the call a thread waits for is under way, and so is the       *)
(* channel.close of a channel that is gone.                                *)
(***************************************************************************)
THEOREM NobodyIsStranded == Spec => []NobodyStranded
<1>1. ASSUME TypeInv, LifeInv, TurnInv PROVE NobodyStranded
  <2> SUFFICES ASSUME ~IoAt("aborted")
               PROVE  /\ \A t \in Threads :
                           pc[t] = "awaitRpc" /\ Promise(mine[t]).st = "pending" =>
                             UnderWay(mine[t])
                      /\ CloseAsked
    BY DEF NobodyStranded, CloseAsked
  <2>1. CloseAsked
    BY <1>1 DEF TurnInv
  <2>2. ASSUME NEW t \in Threads, pc[t] = "awaitRpc", Promise(mine[t]).st = "pending"
        PROVE  UnderWay(mine[t])
    <3>1. mine[t] \in 1 .. chan.calls /\ chan.live
      <4>1. InCall(t) /\ mine[t] # 0 /\ mine[t] \in 0 .. chan.calls /\ chan.calls \in Nat
        BY <1>1, <2>2 DEF TurnInv, InCall, TypeInv, TypeOK, ChannelStates
      <4>2. chan.live
        BY <1>1, <4>1 DEF LifeInv
      <4> QED BY <4>1, <4>2
    <3>2. mine[t] = chan.calls
      <4> SUFFICES ASSUME mine[t] # chan.calls PROVE FALSE
        OBVIOUS
      <4>1. mine[t] \in 1 .. Len(past) /\ past \in Seq(PastPromises)
        BY <1>1, <3>1 DEF TypeInv, TypeOK, ChannelStates
      <4>2. past[mine[t]] \in PastPromises
        BY <4>1
      <4>3. Promise(mine[t]) = past[mine[t]]
        BY DEF Promise
      <4> QED BY <2>2, <4>2, <4>3 DEF PastPromises
    <3>3. chan.rpc = "pending"
      BY <2>2, <3>2 DEF Promise
    <3>4. Awaits(t)
      BY <2>2, <3>2 DEF Awaits
    <3>5. UnderWay(chan.calls)
      BY <1>1, <3>1, <3>3, <3>4, Zenon DEF TurnInv, LatestAsked
    <3> QED BY <3>2, <3>5
  <2> QED BY <2>1, <2>2
<1> QED
  BY <1>1, TypeInit, TypeStep, LifeInit, LifeStep, TurnInit, TurnStep, PTL DEF Spec

=============================================================================
