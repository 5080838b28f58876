--------------------------- MODULE ConnectionProofs ---------------------------
(***************************************************************************)
(* What holds of a connection for any number of threads, channels, calls   *)
(* and faults, whatever the broker and the network do.                     *)
(***************************************************************************)
EXTENDS Connection, TLAPS

PendingWrites == [f : Frames, clean : BOOLEAN]

WriteStates == [q : Seq(Handlers), writeq : Seq(Frames), pend : Seq(PendingWrites),
                out : Seq(Frames)]

(***************************************************************************)
(* r is q followed by completions of writes, which report an error only if *)
(* the socket has failed.                                                  *)
(***************************************************************************)
QueueGrows(q, r) ==
  /\ Len(q) <= Len(r)
  /\ \A i \in 1 .. Len(q) : r[i] = q[i]
  /\ \A i \in (Len(q) + 1) .. Len(r) :
       r[i].h = "on_write_frame" /\ (~r[i].ok => sock = "broken")

(* How a handler's writes change what it writes to.                        *)
Follows(w, v) ==
  /\ v \in WriteStates
  /\ w.writeq = <<>> => v.writeq = <<>>
  /\ QueueGrows(w.q, v.q)
  /\ state = "closed" => v.q = w.q /\ v.pend = w.pend

-----------------------------------------------------------------------------
LEMMA FrameType ==
  /\ Garbage \in Frames
  /\ \A ch \in Nat, kind \in Kinds, tag \in Nat : Frame(ch, kind, tag) \in Frames
BY DEF Garbage, Frame, Frames, Kinds

LEMMA HandlerTypes ==
  /\ \A u \in Users : StartOpen(u) \in Handlers
  /\ \A f \in Frames : Write(f) \in Handlers
  /\ \A ok \in BOOLEAN : Wrote(ok) \in Handlers
  /\ \A ok \in BOOLEAN, f \in Frames :
       ReadHeader(ok, f) \in Handlers /\ ReadBody(ok, f) \in Handlers
BY DEF Handlers, StartOpen, Write, Wrote, ReadHeader, ReadBody

LEMMA HandlerFields ==
  ASSUME NEW x \in Handlers
  PROVE  /\ x.h = "start_open_channel" => x.u \in Users
         /\ x.h = "begin_write_frame" => x.f \in Frames
         /\ x.h \in Completions => x.ok \in BOOLEAN
         /\ x.h \in {"on_frame_header_read", "on_frame_body_read"} => x.f \in Frames
BY DEF Handlers, Completions

LEMMA SpoiledType ==
  ASSUME NEW p \in Seq(PendingWrites)
  PROVE  Spoiled(p) \in Seq(PendingWrites) /\ Len(Spoiled(p)) = Len(p)
<1> DEFINE spoil(x) == [x EXCEPT !.clean = FALSE]
<1>1. p \in [1 .. Len(p) -> PendingWrites] /\ DOMAIN p = 1 .. Len(p) /\ Len(p) \in Nat
  OBVIOUS
<1>2. \A x \in PendingWrites : spoil(x) \in PendingWrites
  BY DEF PendingWrites
<1>3. Spoiled(p) = [i \in 1 .. Len(p) |-> spoil(p[i])]
  BY <1>1 DEF Spoiled
<1> HIDE DEF spoil
<1>4. Spoiled(p) \in [1 .. Len(p) -> PendingWrites]
  BY <1>1, <1>2, <1>3
<1> QED BY <1>1, <1>4

LEMMA AsyncWriteFollows ==
  ASSUME NEW f \in Frames, NEW w \in WriteStates, NEW v \in AsyncWrite(f, w),
         state = "open"
  PROVE  Follows(w, v)
<1>1. CASE sock = "broken"
  <2>1. PICK ok \in BOOLEAN : v = [w EXCEPT !.q = Append(@, Wrote(ok))]
    BY <1>1 DEF AsyncWrite
  <2>2. v \in WriteStates
    <3>1. Append(w.q, Wrote(ok)) \in Seq(Handlers)
      BY HandlerTypes DEF WriteStates
    <3> QED BY <2>1, <3>1 DEF WriteStates
  <2>3. QueueGrows(w.q, v.q)
    BY <1>1, <2>1 DEF QueueGrows, WriteStates, Wrote
  <2> QED BY <2>1, <2>2, <2>3 DEF Follows, WriteStates
<1>2. CASE sock # "broken"
  <2> DEFINE sent == IF w.pend = <<>> THEN f ELSE Garbage
  <2>0. sent \in Frames /\ Spoiled(w.pend) \in Seq(PendingWrites)
    BY FrameType, SpoiledType DEF WriteStates
  <2>1. CASE v = [w EXCEPT !.q = Append(@, Wrote(TRUE)), !.pend = Spoiled(@),
                           !.out = Append(@, sent)]
    <3>a. /\ Append(w.q, Wrote(TRUE)) \in Seq(Handlers)
          /\ Append(w.out, sent) \in Seq(Frames)
      <4>1. \A ok \in BOOLEAN : Append(w.q, Wrote(ok)) \in Seq(Handlers)
        BY HandlerTypes DEF WriteStates
      <4>2. Append(w.q, Wrote(TRUE)) \in Seq(Handlers)
        BY <4>1, Zenon
      <4>3. \A s \in Frames : Append(w.out, s) \in Seq(Frames)
        BY DEF WriteStates
      <4> QED BY <2>0, <4>2, <4>3
    <3>1. v \in WriteStates
      BY <2>0, <2>1, <3>a DEF WriteStates
    <3>2. QueueGrows(w.q, v.q)
      BY <2>1 DEF QueueGrows, WriteStates, Wrote
    <3> QED BY <2>1, <3>1, <3>2 DEF Follows, WriteStates
  <2>2. CASE v = [w EXCEPT !.pend = Append(Spoiled(@), [f |-> f, clean |-> TRUE])]
    <3>a. Append(Spoiled(w.pend), [f |-> f, clean |-> TRUE]) \in Seq(PendingWrites)
      <4>1. [f |-> f, clean |-> TRUE] \in PendingWrites
        BY DEF PendingWrites
      <4> QED BY <2>0, <4>1
    <3>1. v \in WriteStates
      BY <2>2, <3>a DEF WriteStates
    <3>2. QueueGrows(w.q, v.q)
      BY <2>2 DEF QueueGrows, WriteStates
    <3> QED BY <2>2, <3>1, <3>2 DEF Follows, WriteStates
  <2> QED BY <1>2, <2>1, <2>2 DEF AsyncWrite
<1> QED BY <1>1, <1>2

LEMMA BeginWriteFollows ==
  ASSUME NEW f \in Frames, NEW w \in WriteStates, NEW v \in BeginWriteFrame(f, w),
         w.writeq = <<>>, state \in {"open", "closed"}
  PROVE  Follows(w, v)
<1>1. CASE state # "open"
  <2>1. v = w
    BY <1>1 DEF BeginWriteFrame
  <2> QED BY <2>1 DEF Follows, QueueGrows, WriteStates
<1>2. CASE state = "open"
  <2>1. /\ Append(w.writeq, f) = <<f>>
        /\ Head(<<f>>) = f /\ Tail(<<f>>) = <<>>
    OBVIOUS
  <2>2. [w EXCEPT !.writeq = <<>>] = w
    BY DEF WriteStates
  <2>3. v \in AsyncWrite(f, w)
    BY <1>2, <2>1, <2>2 DEF BeginWriteFrame
  <2> QED BY <1>2, <2>3, AsyncWriteFollows
<1> QED BY <1>1, <1>2

LEMMA DeadChannelFollows ==
  ASSUME NEW f \in Frames, NEW w \in WriteStates, NEW v \in DeadChannelFrame(f, w),
         w.writeq = <<>>, state \in {"open", "closed"}
  PROVE  Follows(w, v)
<1>1. CASE f.kind = "Close"
  <2>1. Frame(f.ch, "CloseOk", 0) \in Frames
    BY DEF Frame, Frames, Kinds, ClientKinds
  <2> QED BY <1>1, <2>1, BeginWriteFollows DEF DeadChannelFrame
<1>2. CASE f.kind # "Close"
  BY <1>2 DEF DeadChannelFrame, Follows, QueueGrows, WriteStates
<1> QED BY <1>1, <1>2

LEMMA FollowsTransitive ==
  ASSUME NEW w \in WriteStates, NEW v, NEW x, w.writeq = <<>>,
         Follows(w, v), Follows(v, x)
  PROVE  Follows(w, x)
<1> DEFINE Fine(r, i) == r[i].h = "on_write_frame" /\ (~r[i].ok => sock = "broken")
<1>0. Len(w.q) \in Nat /\ Len(v.q) \in Nat /\ Len(x.q) \in Nat
  BY DEF Follows, WriteStates
<1>1. QueueGrows(w.q, x.q)
  <2>1. Len(w.q) <= Len(x.q) /\ \A i \in 1 .. Len(w.q) : x.q[i] = w.q[i]
    BY <1>0 DEF Follows, QueueGrows
  <2>2. ASSUME NEW i \in (Len(w.q) + 1) .. Len(x.q)
        PROVE  Fine(x.q, i)
    <3>1. CASE i <= Len(v.q)
      <4>1. x.q[i] = v.q[i] /\ Fine(v.q, i)
        BY <1>0, <3>1 DEF Follows, QueueGrows
      <4> QED BY <4>1
    <3>2. CASE i > Len(v.q)
      BY <1>0, <3>2 DEF Follows, QueueGrows
    <3> QED BY <1>0, <3>1, <3>2
  <2> QED BY <2>1, <2>2 DEF QueueGrows
<1> QED BY <1>1 DEF Follows

-----------------------------------------------------------------------------
(***************************************************************************)
(* Types.  That the tag of a request is a number needs the channel of the  *)
(* request to be one that exists: ChannelsHeld.  That a handler writes at  *)
(* once, so that what it writes is described by Follows, needs NeverQueued.*)
(***************************************************************************)
Basics == TypeOK /\ ChannelsHeld /\ NeverQueued

LEMMA BasicsInit == Init => Basics
BY MaxChannelIdAssumption, BoundsAssumption
   DEF Init, MgrInit, Basics, TypeOK, MgrTypeOK, ChannelsHeld, NeverQueued, Promise,
       Promises, PromiseStates, PcStates

LEMMA WritingType ==
  ASSUME MgrTypeOK, NeverQueued, ioq # <<>>
  PROVE  Writing \in WriteStates /\ Writing.writeq = <<>> /\ Writing.q = Tail(ioq)
BY DEF MgrTypeOK, NeverQueued, Writing, WriteStates, PendingWrites

LEMMA NewChannelType == NewChannel \in ChannelStates
BY DEF NewChannel, ChannelStates, PromiseStates

(* Whatever a member function leaves of a channel is a channel.            *)
LEMMA ProcessFrameType ==
  ASSUME NEW c \in ChannelStates, NEW f \in Frames
  PROVE  ProcessFrame(c, f).chan \in ChannelStates
BY DEF ProcessFrame, ProcessOpen, RpcHandler, ClosedHandler, Returns, Throws,
       ChannelStates, PromiseStates, Frames

LEMMA CloseAsyncType ==
  ASSUME NEW c \in ChannelStates
  PROVE  CloseAsync(c).chan \in ChannelStates
BY DEF CloseAsync, Returns, Throws, ChannelStates

LEMMA OtherChannelTypes ==
  ASSUME NEW c \in ChannelStates
  PROVE  ArmRpc(c) \in ChannelStates /\ Destroyed(c) \in ChannelStates
<1>1. ArmRpc(c) \in ChannelStates
  <2>1. c.calls + 1 \in Nat
    BY DEF ChannelStates
  <2> QED BY <2>1 DEF ArmRpc, ChannelStates, PromiseStates
<1>2. Destroyed(c) \in ChannelStates
  BY DEF Destroyed, ChannelStates
<1> QED BY <1>1, <1>2

(***************************************************************************)
(* What the handlers share: each takes itself out of the queue and may     *)
(* leave completions of writes, or brings the process down.                *)
(***************************************************************************)
HandlerRuns ==
  /\ ioq # <<>> /\ ioq' \in Seq(Handlers) /\ QueueGrows(Tail(ioq), ioq')
  /\ writeq' = <<>>
  /\ pend' \in Seq(PendingWrites)
  /\ out' \in Seq(Frames)
  /\ state = "closed" => ioq' = Tail(ioq) /\ Len(pend') <= Len(pend)

LEMMA WrittenRuns ==
  ASSUME MgrTypeOK, NeverQueued, ioq # <<>>, NEW w, Follows(Writing, w), Written(w)
  PROVE  HandlerRuns
BY WritingType DEF Follows, Written, HandlerRuns, WriteStates, Writing

LEMMA JustRuns ==
  ASSUME MgrTypeOK, NeverQueued, ioq # <<>>, Written(Writing)
  PROVE  HandlerRuns
<1>1. Follows(Writing, Writing)
  BY WritingType DEF Follows, QueueGrows, WriteStates
<1> QED BY <1>1, WrittenRuns

ReadNames == {"on_frame_header_read", "on_frame_body_read"}

(***************************************************************************)
(* What a handler that does not bring the process down does to the rest.   *)
(***************************************************************************)
OpeningChanges ==
  \/ opening' = opening
  \/ \E u \in Users, p \in Promises :
       /\ opening' = [opening EXCEPT ![u] = p]
       /\ p.id \in {0, Len(chans) + 1} /\ p.id <= Len(chans')
       /\ p.st = "value" => p.id # 0

HandlerEffect ==
  /\ HandlerRuns
  /\ io = "running" /\ UNCHANGED <<io, sock, in>>
  /\ chans' \in Seq(ChannelStates) /\ Len(chans') \in Len(chans) .. MaxChannelId
  /\ OpeningChanges
  /\ \/ state' = state
     \/ state' = "closed" /\ Head(ioq).h \in Completions /\ ~Head(ioq).ok
  /\ \/ Head(ioq).h \notin ReadNames /\ reading' = reading
     \/ Head(ioq).h \in ReadNames /\ reading' \in {"header", "body"}
     \/ Head(ioq).h \in ReadNames /\ reading' = reading /\ state' = "closed"

LEMMA StartOpenEffect ==
  ASSUME Basics, StartOpenChannel
  PROVE  HandlerEffect
<1> DEFINE u == Head(ioq).u
<1>1. /\ MgrTypeOK /\ NeverQueued /\ ioq # <<>> /\ io = "running"
      /\ Head(ioq).h = "start_open_channel"
      /\ UNCHANGED <<io, state, reading, sock, in>>
      /\ Len(chans) \in 0 .. MaxChannelId
  BY DEF Basics, TypeOK, StartOpenChannel, Runs
<1>2. u \in Users /\ opening \in [Users -> Promises] /\ chans \in Seq(ChannelStates)
  <2>1. Head(ioq) \in Handlers
    BY <1>1 DEF MgrTypeOK
  <2> QED BY <1>1, <2>1, HandlerFields DEF MgrTypeOK
<1> DEFINE id == Len(chans) + 1
<1>3. CASE id > MaxChannelId
  <2>1. /\ opening' = [opening EXCEPT ![u] = Promise("exception", 0)]
        /\ Written(Writing) /\ chans' = chans
    BY <1>3 DEF StartOpenChannel, NextId, OutOfChannels
  <2>2. HandlerRuns
    BY <1>1, <2>1, JustRuns
  <2>3. Promise("exception", 0) \in Promises
    BY DEF Promise, Promises, PromiseStates
  <2>4. OpeningChanges
    <3> DEFINE p == Promise("exception", 0)
    <3>1. p.id = 0 /\ p.st # "value"
      BY DEF Promise
    <3>2. p.id <= Len(chans')
      BY <1>2, <2>1, <3>1
    <3> HIDE DEF p
    <3> QED BY <1>2, <2>1, <2>3, <3>1, <3>2 DEF OpeningChanges, p
  <2> QED BY <1>1, <1>2, <2>1, <2>2, <2>4, MaxChannelIdAssumption DEF HandlerEffect, ReadNames
<1>4. CASE ~(id > MaxChannelId)
  <2>1. /\ chans' = Append(chans, NewChannel)
        /\ opening' = [opening EXCEPT ![u] = Promise("value", id)]
    BY <1>4 DEF StartOpenChannel, NextId, OutOfChannels
  <2>2. PICK w \in BeginWriteFrame(Frame(id, "Open", 0), Writing) : Written(w)
    BY <1>4 DEF StartOpenChannel, NextId, OutOfChannels
  <2>3. Frame(id, "Open", 0) \in Frames
    BY <1>2, FrameType DEF Kinds, ClientKinds
  <2>4. Follows(Writing, w)
    BY <1>1, <2>2, <2>3, WritingType, BeginWriteFollows DEF MgrTypeOK
  <2>5. HandlerRuns
    BY <1>1, <2>2, <2>4, WrittenRuns
  <2>6. chans' \in Seq(ChannelStates) /\ Len(chans') = id
    BY <1>2, <2>1, NewChannelType
  <2>7. Promise("value", id) \in Promises
    BY <1>2 DEF Promise, Promises, PromiseStates
  <2>8. OpeningChanges
    <3> DEFINE p == Promise("value", id)
    <3>1. p.id = id /\ id # 0
      BY <1>2 DEF Promise
    <3>2. p.id <= Len(chans')
      BY <1>2, <2>6, <3>1
    <3> HIDE DEF p
    <3> QED BY <1>2, <2>1, <2>7, <3>1, <3>2 DEF OpeningChanges, p
  <2> QED BY <1>1, <1>2, <1>4, <2>5, <2>6, <2>8, MaxChannelIdAssumption
          DEF HandlerEffect, ReadNames
<1> QED BY <1>3, <1>4

LEMMA BeginWriteEffect ==
  ASSUME Basics, RunBeginWriteFrame
  PROVE  HandlerEffect
<1>1. /\ MgrTypeOK /\ NeverQueued /\ ioq # <<>> /\ io = "running"
      /\ Head(ioq).h = "begin_write_frame"
      /\ UNCHANGED <<io, state, chans, reading, opening, sock, in>>
      /\ Len(chans) \in 0 .. MaxChannelId /\ chans \in Seq(ChannelStates)
  BY DEF Basics, TypeOK, MgrTypeOK, RunBeginWriteFrame, Runs
<1>2. Head(ioq) \in Handlers
  BY <1>1 DEF MgrTypeOK
<1>3. PICK w \in BeginWriteFrame(Head(ioq).f, Writing) : Written(w)
  BY DEF RunBeginWriteFrame
<1>4. HandlerRuns
  BY <1>1, <1>2, <1>3, HandlerFields, WritingType, BeginWriteFollows, WrittenRuns
     DEF MgrTypeOK
<1> QED BY <1>1, <1>4, MaxChannelIdAssumption DEF HandlerEffect, OpeningChanges, ReadNames

(* The connection is closed by a handler that was given an error.          *)
LEMMA SocketCloseEffect ==
  ASSUME Basics, OnSocketClose, io = "running", ioq # <<>>,
         Head(ioq).h \in Completions, ~Head(ioq).ok
  PROVE  Abort \/ HandlerEffect
<1>1. CASE Abort
  BY <1>1
<1>2. CASE ~Abort
  <2>1. /\ state' = "closed" /\ Written(Writing)
        /\ UNCHANGED <<io, reading, opening, sock, in>>
        /\ chans' = [i \in DOMAIN chans |->
                       IF i \in Live THEN CloseAsync(chans[i]).chan ELSE chans[i]]
    BY <1>2 DEF OnSocketClose
  <2>2. /\ MgrTypeOK /\ NeverQueued
        /\ Len(chans) \in 0 .. MaxChannelId /\ chans \in Seq(ChannelStates)
    BY DEF Basics, TypeOK, MgrTypeOK
  <2>3. HandlerRuns
    BY <2>1, <2>2, JustRuns
  <2>4. chans' \in [1 .. Len(chans) -> ChannelStates]
    BY <2>1, <2>2, CloseAsyncType
  <2>5. chans' \in Seq(ChannelStates) /\ Len(chans') = Len(chans)
    BY <2>2, <2>4
  <2> QED BY <2>1, <2>2, <2>3, <2>5, MaxChannelIdAssumption
          DEF HandlerEffect, OpeningChanges, ReadNames
<1> QED BY <1>1, <1>2

LEMMA OnWriteEffect ==
  ASSUME Basics, OnWriteFrame
  PROVE  Abort \/ HandlerEffect
<1>1. /\ MgrTypeOK /\ NeverQueued /\ ioq # <<>> /\ io = "running"
      /\ Head(ioq).h = "on_write_frame"
      /\ Len(chans) \in 0 .. MaxChannelId /\ chans \in Seq(ChannelStates)
  BY DEF Basics, TypeOK, MgrTypeOK, OnWriteFrame, Runs
<1>2. CASE ~Head(ioq).ok
  BY <1>1, <1>2, SocketCloseEffect DEF OnWriteFrame, Completions
<1>3. CASE Head(ioq).ok
  <2> DEFINE w == [Writing EXCEPT !.pend = Spoiled(@)]
  <2>1. /\ Written(w)
        /\ UNCHANGED <<io, state, chans, reading, opening, sock, in>>
    BY <1>1, <1>3 DEF OnWriteFrame, NeverQueued
  <2>2. ioq' = Tail(ioq) /\ writeq' = <<>> /\ pend' = Spoiled(pend) /\ out' = out
    BY <1>1, <2>1 DEF Written, Writing, NeverQueued
  <2>3. pend' \in Seq(PendingWrites)
    BY <1>1, <2>2, SpoiledType DEF MgrTypeOK, PendingWrites
  <2>4. QueueGrows(Tail(ioq), Tail(ioq)) /\ Tail(ioq) \in Seq(Handlers)
    BY <1>1 DEF QueueGrows, MgrTypeOK
  <2>5. Len(pend') <= Len(pend) /\ out \in Seq(Frames)
    <3>1. pend \in Seq(PendingWrites) /\ out \in Seq(Frames)
      BY <1>1 DEF MgrTypeOK, PendingWrites
    <3>2. Len(pend') = Len(pend) /\ Len(pend) \in Nat
      BY <2>2, <3>1, SpoiledType
    <3> QED BY <3>1, <3>2
  <2>6. HandlerRuns
    BY <1>1, <2>2, <2>3, <2>4, <2>5 DEF HandlerRuns
  <2> QED BY <1>1, <2>1, <2>6, MaxChannelIdAssumption
          DEF HandlerEffect, OpeningChanges, ReadNames
<1> QED BY <1>2, <1>3

(***************************************************************************)
(* dispatch_frame, for a frame on any channel.                             *)
(***************************************************************************)
LEMMA DroppedEffect ==
  ASSUME Basics, NEW f, NEW ws, Dropped(f, ws),
         \A w \in ws : Follows(Writing, w),
         io = "running", ioq # <<>>, Head(ioq).h \in ReadNames
  PROVE  Abort \/ HandlerEffect
<1>1. CASE f.kind = "Unknown"
  BY <1>1 DEF Dropped
<1>2. CASE f.kind # "Unknown"
  <2>1. PICK w \in ws : Written(w)
    BY <1>2 DEF Dropped
  <2>2. /\ chans' = chans /\ reading' = "header"
        /\ UNCHANGED <<io, state, opening, sock, in>>
    BY <1>2 DEF Dropped, ReadNext
  <2>3. /\ MgrTypeOK /\ NeverQueued
        /\ Len(chans) \in 0 .. MaxChannelId /\ chans \in Seq(ChannelStates)
    BY DEF Basics, TypeOK, MgrTypeOK
  <2>4. HandlerRuns
    BY <2>1, <2>3, WrittenRuns
  <2> QED BY <2>2, <2>3, <2>4, MaxChannelIdAssumption DEF HandlerEffect, OpeningChanges
<1> QED BY <1>1, <1>2

LEMMA DispatchEffect ==
  ASSUME Basics, NEW f \in Frames, DispatchFrame(f),
         io = "running", ioq # <<>>, Head(ioq).h \in ReadNames
  PROVE  Abort \/ HandlerEffect
<1>1. /\ MgrTypeOK /\ NeverQueued /\ state \in {"open", "closed"}
      /\ Len(chans) \in 0 .. MaxChannelId /\ chans \in Seq(ChannelStates)
      /\ Writing \in WriteStates /\ Writing.writeq = <<>>
      /\ f.ch \in Nat
  BY WritingType DEF Basics, TypeOK, MgrTypeOK, Frames
<1>2. \A w \in DeadChannelFrame(f, Writing) : Follows(Writing, w)
  BY <1>1, DeadChannelFollows
<1>a. DOMAIN chans = 1 .. Len(chans) /\ Live \subseteq DOMAIN chans /\ Len(chans) \in Nat
  BY <1>1 DEF Live
<1>3. CASE f.ch = 0
  <2>1. ~(f.ch > Len(chans)) /\ f.ch \notin DOMAIN chans /\ f.ch \notin Live
    BY <1>a, <1>3
  <2> QED BY <2>1 DEF DispatchFrame
<1>4. CASE f.ch > Len(chans)
  <2> DEFINE ws == UNION {DeadChannelFrame(f, w) : w \in DeadChannelFrame(f, Writing)}
  <2>1. ASSUME NEW w \in ws
        PROVE  Follows(Writing, w)
    <3>1. PICK v \in DeadChannelFrame(f, Writing) : w \in DeadChannelFrame(f, v)
      OBVIOUS
    <3>2. Follows(Writing, v) /\ v \in WriteStates /\ v.writeq = <<>>
      BY <1>1, <1>2 DEF Follows
    <3>3. Follows(v, w)
      BY <1>1, <3>1, <3>2, DeadChannelFollows
    <3> QED BY <1>1, <3>2, <3>3, FollowsTransitive
  <2>2. Abort \/ Dropped(f, ws)
    <3>1. f.ch # 0 /\ f.ch \notin DOMAIN chans /\ f.ch \notin Live
      BY <1>1, <1>a, <1>4
    <3> QED BY <1>4, <3>1 DEF DispatchFrame
  <2> HIDE DEF ws
  <2> QED BY <2>1, <2>2, DroppedEffect
<1>5. CASE f.ch \in DOMAIN chans \ Live
  <2>1. Dropped(f, DeadChannelFrame(f, Writing))
    BY <1>1, <1>5 DEF DispatchFrame
  <2> QED BY <1>2, <2>1, DroppedEffect
<1>6. CASE f.ch \in Live
  <2> DEFINE result == ProcessFrame(chans[f.ch], f)
  <2>0. f.ch \in DOMAIN chans /\ f.ch # 0 /\ ~(f.ch > Len(chans))
    BY <1>1, <1>6 DEF Live
  <2>1. \/ Abort
        \/ /\ chans' = [chans EXCEPT ![f.ch] = result.chan]
           /\ Written(Writing) /\ ReadNext
    BY <1>6, <2>0 DEF DispatchFrame
  <2>2. result.chan \in ChannelStates
    BY <1>1, <2>0, ProcessFrameType
  <2> HIDE DEF result
  <2>3. CASE /\ chans' = [chans EXCEPT ![f.ch] = result.chan]
             /\ Written(Writing) /\ ReadNext
    <3>1. HandlerRuns
      BY <1>1, <2>3, JustRuns
    <3>2. chans' \in Seq(ChannelStates) /\ Len(chans') = Len(chans)
      <4>1. chans \in [1 .. Len(chans) -> ChannelStates]
        BY <1>1
      <4>2. chans' \in [1 .. Len(chans) -> ChannelStates]
        BY <2>2, <2>3, <4>1
      <4> QED BY <1>1, <4>2
    <3> QED BY <1>1, <2>3, <3>1, <3>2, MaxChannelIdAssumption
            DEF HandlerEffect, OpeningChanges, ReadNext
  <2> QED BY <2>1, <2>3
<1> QED BY <1>1, <1>3, <1>4, <1>5, <1>6 DEF Live

LEMMA HeaderReadEffect ==
  ASSUME Basics, OnFrameHeaderRead
  PROVE  Abort \/ HandlerEffect
<1> DEFINE f == Head(ioq).f
<1>1. /\ MgrTypeOK /\ NeverQueued /\ ioq # <<>> /\ io = "running"
      /\ Head(ioq).h = "on_frame_header_read" /\ Head(ioq).h \in ReadNames
      /\ Head(ioq).h \in Completions
      /\ Len(chans) \in 0 .. MaxChannelId /\ chans \in Seq(ChannelStates)
  BY DEF Basics, TypeOK, MgrTypeOK, OnFrameHeaderRead, Runs, ReadNames, Completions
<1>2. Head(ioq).ok \in BOOLEAN /\ f \in Frames
  <2>1. Head(ioq) \in Handlers
    BY <1>1 DEF MgrTypeOK
  <2> QED BY <1>1, <2>1, HandlerFields DEF ReadNames
<1>3. CASE ~Head(ioq).ok
  BY <1>1, <1>3, SocketCloseEffect DEF OnFrameHeaderRead
<1>4. CASE Head(ioq).ok /\ f.kind = "Malformed"
  <2>1. HasBody(f)
    BY <1>4 DEF HasBody
  <2> QED BY <1>4, <2>1 DEF OnFrameHeaderRead
<1>5. CASE Head(ioq).ok /\ f.kind # "Malformed" /\ HasBody(f)
  <2>1. /\ reading' = "body" /\ Written(Writing)
        /\ UNCHANGED <<io, state, chans, opening, sock, in>>
    BY <1>5 DEF OnFrameHeaderRead
  <2>2. HandlerRuns
    BY <1>1, <2>1, JustRuns
  <2> QED BY <1>1, <2>1, <2>2, MaxChannelIdAssumption DEF HandlerEffect, OpeningChanges
<1>6. CASE Head(ioq).ok /\ ~HasBody(f)
  <2>1. f.kind # "Malformed"
    BY <1>6 DEF HasBody
  <2>2. DispatchFrame(f)
    BY <1>6, <2>1 DEF OnFrameHeaderRead
  <2> QED BY <1>1, <1>2, <2>2, DispatchEffect
<1> QED BY <1>2, <1>3, <1>4, <1>5, <1>6

LEMMA BodyReadEffect ==
  ASSUME Basics, OnFrameBodyRead
  PROVE  Abort \/ HandlerEffect
<1>1. /\ MgrTypeOK /\ ioq # <<>> /\ io = "running"
      /\ Head(ioq).h = "on_frame_body_read" /\ Head(ioq).h \in ReadNames
      /\ Head(ioq).h \in Completions
  BY DEF Basics, TypeOK, OnFrameBodyRead, Runs, ReadNames, Completions
<1>2. Head(ioq).ok \in BOOLEAN /\ Head(ioq).f \in Frames
  <2>1. Head(ioq) \in Handlers
    BY <1>1 DEF MgrTypeOK
  <2> QED BY <1>1, <2>1, HandlerFields DEF ReadNames
<1>3. CASE Head(ioq).ok
  BY <1>1, <1>2, <1>3, DispatchEffect DEF OnFrameBodyRead
<1>4. CASE ~Head(ioq).ok
  BY <1>1, <1>4, SocketCloseEffect DEF OnFrameBodyRead
<1> QED BY <1>2, <1>3, <1>4

(* Every step of the io thread.                                            *)
LEMMA IoThreadEffect ==
  ASSUME Basics, IoThread
  PROVE  Abort \/ HandlerEffect \/ RunReturns
BY StartOpenEffect, BeginWriteEffect, OnWriteEffect, HeaderReadEffect, BodyReadEffect
   DEF IoThread

LEMMA IoBasics ==
  ASSUME Basics, IoStep
  PROVE  Basics'
<1>1. UNCHANGED <<pc, own, peer, served, faults>> /\ (Abort \/ HandlerEffect \/ RunReturns)
  BY IoThreadEffect DEF IoStep, userVars, brokerVars
<1>2. CASE Abort
  BY <1>1, <1>2 DEF Abort, Basics, TypeOK, MgrTypeOK, ChannelsHeld, NeverQueued
<1>3. CASE RunReturns
  BY <1>1, <1>3 DEF RunReturns, Basics, TypeOK, MgrTypeOK, ChannelsHeld, NeverQueued
<1>4. CASE HandlerEffect
  <2>1. OpeningChanges /\ Len(chans) \in Nat /\ Len(chans') \in Nat
        /\ opening \in [Users -> Promises] /\ Len(chans) <= Len(chans')
    BY <1>4 DEF HandlerEffect, Basics, TypeOK, MgrTypeOK
  <2>2. opening' \in [Users -> Promises]
    BY <2>1 DEF OpeningChanges
  <2>3. MgrTypeOK'
    BY <1>4, <2>2 DEF HandlerEffect, HandlerRuns, Basics, TypeOK, MgrTypeOK, PendingWrites
  <2>4. TypeOK'
    BY <1>1, <1>4, <2>3 DEF HandlerEffect, Basics, TypeOK
  <2>5. ChannelsHeld'
    <3>1. ASSUME NEW v \in Users
          PROVE  /\ opening'[v].id \in 0 .. Len(chans')
                 /\ opening'[v].st = "value" => opening'[v].id # 0
      <4>1. opening[v].id \in 0 .. Len(chans)
            /\ (opening[v].st = "value" => opening[v].id # 0)
        BY DEF Basics, ChannelsHeld
      <4>2. CASE opening' = opening
        BY <2>1, <4>1, <4>2
      <4>3. CASE \E u \in Users, p \in Promises :
                    /\ opening' = [opening EXCEPT ![u] = p]
                    /\ p.id \in {0, Len(chans) + 1} /\ p.id <= Len(chans')
                    /\ p.st = "value" => p.id # 0
        BY <2>1, <4>1, <4>3
      <4> QED BY <2>1, <4>2, <4>3 DEF OpeningChanges
    <3>2. ASSUME NEW v \in Users
          PROVE  /\ own'[v] \in 0 .. Len(chans')
                 /\ own'[v] = 0 <=> pc'[v] \in {"idle", "awaitChannel"}
      BY <1>1, <2>1 DEF Basics, ChannelsHeld
    <3> QED BY <3>1, <3>2 DEF ChannelsHeld
  <2>6. NeverQueued'
    BY <1>4 DEF HandlerEffect, HandlerRuns, NeverQueued
  <2> QED BY <2>4, <2>5, <2>6 DEF Basics
<1> QED BY <1>1, <1>2, <1>3, <1>4

LEMMA ReactorBasics ==
  ASSUME Basics, ReactorStep
  PROVE  Basics'
<1>1. /\ UNCHANGED <<pc, own, peer, served, faults, io, state, chans, writeq, opening, sock>>
  BY DEF ReactorStep, Reactor, HeaderArrives, BodyArrives, ReadFails, WriteCompletes,
         WriteFails, userVars, brokerVars
<1>2. /\ ioq \in Seq(Handlers) /\ in \in Seq(Frames) /\ out \in Seq(Frames)
      /\ pend \in Seq(PendingWrites) /\ reading \in {"none", "header", "body"}
  BY DEF Basics, TypeOK, MgrTypeOK, PendingWrites
<1>3. /\ ioq' \in Seq(Handlers) /\ in' \in Seq(Frames) /\ out' \in Seq(Frames)
      /\ pend' \in Seq(PendingWrites) /\ reading' \in {"none", "header", "body"}
  <2>1. CASE HeaderArrives
    <3>1. Head(in) \in Frames /\ Tail(in) \in Seq(Frames)
      BY <1>2, <2>1 DEF HeaderArrives
    <3>2. ReadHeader(TRUE, Head(in)) \in Handlers
      BY <3>1, HandlerTypes, Zenon
    <3>9. PICK x \in Handlers : ioq' = Append(ioq, x)
      BY <2>1, <3>2, Zenon DEF HeaderArrives
    <3>10. /\ reading' = "none" /\ UNCHANGED <<pend, out>>
           /\ in' = IF HasBody(Head(in)) THEN in ELSE Tail(in)
      BY <2>1, Zenon DEF HeaderArrives
    <3> QED BY <1>2, <3>9, <3>10, <3>1
  <2>2. CASE BodyArrives
    <3>1. Head(in) \in Frames /\ Tail(in) \in Seq(Frames)
      BY <1>2, <2>2 DEF BodyArrives
    <3>2. ReadBody(TRUE, Head(in)) \in Handlers
      BY <3>1, HandlerTypes, Zenon
    <3>9. PICK x \in Handlers : ioq' = Append(ioq, x)
      BY <2>2, <3>2, Zenon DEF BodyArrives
    <3>10. /\ reading' = "none" /\ UNCHANGED <<pend, out>> /\ in' = Tail(in)
      BY <2>2, Zenon DEF BodyArrives
    <3> QED BY <1>2, <3>9, <3>10, <3>1
  <2>3. CASE ReadFails
    <3>1. ReadHeader(FALSE, Garbage) \in Handlers /\ ReadBody(FALSE, Garbage) \in Handlers
      BY FrameType, HandlerTypes, Zenon
    <3>9. PICK x \in Handlers : ioq' = Append(ioq, x)
      BY <2>3, <3>1, Zenon DEF ReadFails
    <3>10. /\ reading' = "none" /\ UNCHANGED <<pend, out, in>>
      BY <2>3, Zenon DEF ReadFails
    <3> QED BY <1>2, <3>9, <3>10
  <2>4. CASE WriteCompletes
    <3>1. Head(pend) \in PendingWrites /\ Tail(pend) \in Seq(PendingWrites)
      BY <1>2, <2>4 DEF WriteCompletes
    <3>2. Wrote(TRUE) \in Handlers
      BY HandlerTypes, Zenon
    <3>3. PICK f \in {Head(pend).f} \cup (IF Head(pend).clean THEN {} ELSE {Garbage}) :
            out' = Append(out, f)
      BY <2>4 DEF WriteCompletes
    <3>4. f \in Frames
      BY <3>1, <3>3, FrameType DEF PendingWrites
    <3>5. out' \in Seq(Frames)
      BY <1>2, <3>3, <3>4
    <3>9. PICK x \in Handlers : ioq' = Append(ioq, x)
      BY <2>4, <3>2, Zenon DEF WriteCompletes
    <3>10. pend' = Tail(pend) /\ UNCHANGED <<reading, in>>
      BY <2>4, Zenon DEF WriteCompletes
    <3> QED BY <1>2, <3>9, <3>10, <3>1, <3>5
  <2>5. CASE WriteFails
    <3>1. Tail(pend) \in Seq(PendingWrites)
      BY <1>2, <2>5 DEF WriteFails
    <3>2. Wrote(FALSE) \in Handlers
      BY HandlerTypes, Zenon
    <3>9. PICK x \in Handlers : ioq' = Append(ioq, x)
      BY <2>5, <3>2, Zenon DEF WriteFails
    <3>10. pend' = Tail(pend) /\ UNCHANGED <<reading, out, in>>
      BY <2>5, Zenon DEF WriteFails
    <3> QED BY <1>2, <3>9, <3>10, <3>1
  <2> QED BY <2>1, <2>2, <2>3, <2>4, <2>5 DEF ReactorStep, Reactor
<1> QED BY <1>1, <1>3 DEF Basics, TypeOK, MgrTypeOK, ChannelsHeld, NeverQueued, PendingWrites

LEMMA ApplicationBasics ==
  ASSUME Basics, NEW u \in Users, Application(u)
  PROVE  Basics'
<1>1. /\ UNCHANGED <<peer, served, faults, io, state, writeq, pend, reading, sock, out, in>>
  BY DEF Application, OpenChannel, BeginOpenChannel, GetChannel, OpenReturns, BeginRpc,
         PostRpc, RpcReturns, DropChannel, BeginWriteMethod, mgrVars, brokerVars
<1>2. /\ ioq \in Seq(Handlers) /\ chans \in Seq(ChannelStates)
      /\ Len(chans) \in 0 .. MaxChannelId /\ opening \in [Users -> Promises]
      /\ pc \in [Users -> PcStates] /\ own \in [Users -> 0 .. MaxChannelId]
      /\ DOMAIN chans = 1 .. Len(chans) /\ Len(chans) \in Nat
  BY DEF Basics, TypeOK, MgrTypeOK
<1>3. \A v \in Users :
        /\ opening[v].id \in 0 .. Len(chans)
        /\ opening[v].st = "value" => opening[v].id # 0
        /\ own[v] \in 0 .. Len(chans)
        /\ own[v] = 0 <=> pc[v] \in {"idle", "awaitChannel"}
  BY DEF Basics, ChannelsHeld
<1> DEFINE Same == /\ ioq' \in Seq(Handlers) /\ chans' \in Seq(ChannelStates)
                   /\ Len(chans') = Len(chans) /\ opening' \in [Users -> Promises]
                   /\ pc' \in [Users -> PcStates] /\ own' \in [Users -> 0 .. MaxChannelId]
                   /\ ChannelsHeld'
<1>4. Same
  <2>1. CASE OpenChannel(u)
    <3>1. StartOpen(u) \in Handlers /\ Promise("pending", 0) \in Promises
      BY HandlerTypes DEF Promise, Promises, PromiseStates
    <3>2. Promise("pending", 0).id = 0 /\ Promise("pending", 0).st # "value"
      BY DEF Promise
    <3>3. /\ ioq' = Append(ioq, StartOpen(u))
          /\ opening' = [opening EXCEPT ![u] = Promise("pending", 0)]
          /\ pc' = [pc EXCEPT ![u] = "awaitChannel"]
          /\ pc[u] = "idle" /\ UNCHANGED <<chans, own>>
      BY <2>1 DEF OpenChannel, BeginOpenChannel, At, Goto
    <3> QED BY <1>2, <1>3, <3>1, <3>2, <3>3 DEF ChannelsHeld, PcStates
  <2>2. CASE GetChannel(u)
    <3>1. pc[u] = "awaitChannel" /\ UNCHANGED <<ioq, chans, opening>>
      BY <2>2 DEF GetChannel, At, mgrVars
    <3>2. CASE /\ opening[u].st = "value"
               /\ own' = [own EXCEPT ![u] = opening[u].id]
               /\ pc' = [pc EXCEPT ![u] = "awaitOpen"]
      BY <1>2, <1>3, <3>1, <3>2, MaxChannelIdAssumption DEF ChannelsHeld, PcStates
    <3>3. CASE own' = own /\ pc' = [pc EXCEPT ![u] = "idle"]
      BY <1>2, <1>3, <3>1, <3>3 DEF ChannelsHeld, PcStates
    <3> QED BY <2>2, <3>2, <3>3 DEF GetChannel, Goto
  <2>3. CASE OpenReturns(u)
    BY <1>2, <1>3, <2>3 DEF OpenReturns, At, Goto, mgrVars, ChannelsHeld, PcStates
  <2>4. CASE BeginRpc(u)
    <3>1. /\ own[u] \in DOMAIN chans /\ pc[u] = "ready" /\ UNCHANGED <<ioq, opening, own>>
      BY <1>2, <1>3, <2>4 DEF BeginRpc, At
    <3>2. /\ chans' = [chans EXCEPT ![own[u]] = ArmRpc(chans[own[u]])]
          /\ pc' = [pc EXCEPT ![u] = "posting"]
      BY <2>4, <3>1 DEF BeginRpc, Goto, ChannelClosedFutureReady
    <3>3. ArmRpc(chans[own[u]]) \in ChannelStates
      BY <1>2, <3>1, OtherChannelTypes
    <3>4. chans' \in Seq(ChannelStates) /\ Len(chans') = Len(chans)
      BY <1>2, <3>1, <3>2, <3>3
    <3> QED BY <1>2, <1>3, <3>1, <3>2, <3>4 DEF ChannelsHeld, PcStates
  <2>5. CASE PostRpc(u)
    <3>1. /\ own[u] \in DOMAIN chans /\ own[u] \in Nat
          /\ pc[u] = "posting" /\ UNCHANGED <<chans, opening, own>>
      BY <1>2, <1>3, <2>5 DEF PostRpc, At
    <3>2. chans[own[u]].calls \in Nat
      <4>1. chans[own[u]] \in ChannelStates
        BY <1>2, <3>1
      <4> QED BY <4>1 DEF ChannelStates
    <3> DEFINE f == Frame(own[u], "Declare", chans[own[u]].calls)
    <3>3. f \in Frames
      BY <3>1, <3>2, FrameType DEF Kinds, ClientKinds
    <3>4. ioq' = Append(ioq, Write(f)) /\ pc' = [pc EXCEPT ![u] = "awaitRpc"]
      BY <2>5 DEF PostRpc, BeginWriteMethod, Goto, Chan
    <3>5. Write(f) \in Handlers
      BY <3>3, HandlerTypes
    <3> HIDE DEF f
    <3> QED BY <1>2, <1>3, <3>1, <3>4, <3>5 DEF ChannelsHeld, PcStates
  <2>6. CASE RpcReturns(u)
    BY <1>2, <1>3, <2>6 DEF RpcReturns, At, Goto, mgrVars, ChannelsHeld, PcStates
  <2>7. CASE DropChannel(u)
    <3>1. own[u] \in DOMAIN chans /\ own[u] \in Nat /\ pc[u] = "ready" /\ opening' = opening
      BY <1>2, <1>3, <2>7 DEF DropChannel, At
    <3> DEFINE f == Frame(own[u], "Close", 0)
    <3>2. Write(f) \in Handlers
      BY <3>1, FrameType, HandlerTypes DEF Kinds, ClientKinds
    <3>3. /\ chans' = [chans EXCEPT ![own[u]] = Destroyed(chans[own[u]])]
          /\ ioq' = Append(ioq, Write(f))
          /\ own' = [own EXCEPT ![u] = 0] /\ pc' = [pc EXCEPT ![u] = "idle"]
      BY <2>7, <3>1 DEF DropChannel, BeginWriteMethod, Goto
    <3>4. Destroyed(chans[own[u]]) \in ChannelStates
      BY <1>2, <3>1, OtherChannelTypes
    <3>5. chans' \in Seq(ChannelStates) /\ Len(chans') = Len(chans)
      BY <1>2, <3>1, <3>3, <3>4
    <3> HIDE DEF f
    <3> QED BY <1>2, <1>3, <3>1, <3>2, <3>3, <3>5, MaxChannelIdAssumption
            DEF ChannelsHeld, PcStates
  <2> QED BY <2>1, <2>2, <2>3, <2>4, <2>5, <2>6, <2>7 DEF Application
<1> QED BY <1>1, <1>4 DEF Basics, TypeOK, MgrTypeOK, NeverQueued, PendingWrites

LEMMA BrokerBasics ==
  ASSUME Basics, Broker
  PROVE  Basics'
<1>1. /\ out # <<>> /\ out' = Tail(out)
      /\ UNCHANGED <<ioq, io, state, chans, writeq, pend, reading, opening, sock, pc, own,
                     faults>>
  BY DEF Broker, BrokerOpens, BrokerDeclares, BrokerCloses, BrokerIsClosed, ProtocolError,
         Receives, userVars, brokerVars
<1>2. /\ out \in Seq(Frames) /\ in \in Seq(Frames)
      /\ peer \in [Ids -> {"none", "open", "closing", "closed"}]
      /\ served \in [Ids -> SUBSET Nat]
  BY DEF Basics, TypeOK, MgrTypeOK
<1>3. Request \in Frames
  BY <1>1, <1>2 DEF Request
<1>4. Request.ch \in Nat /\ Request.tag \in Nat
  BY <1>3 DEF Frames
<1>5. \A ch \in Nat, kind \in BrokerKinds, tag \in Nat :
        Sends(ch, kind, tag) => in' \in Seq(Frames)
  <2>1. \A ch \in Nat, kind \in BrokerKinds, tag \in Nat : Frame(ch, kind, tag) \in Frames
    BY FrameType DEF Kinds
  <2>2. \A f \in Frames : Append(in, f) \in Seq(Frames)
    BY <1>2
  <2> QED BY <2>1, <2>2 DEF Sends
<1>6. \A ch, where : where \in {"none", "open", "closing", "closed"} /\ Peer(ch, where)
                     => peer' \in [Ids -> {"none", "open", "closing", "closed"}]
  BY <1>2 DEF Peer
<1> DEFINE Rest == /\ in' \in Seq(Frames)
                   /\ peer' \in [Ids -> {"none", "open", "closing", "closed"}]
                   /\ served' \in [Ids -> SUBSET Nat]
<1>7. Rest
  <2>1. CASE BrokerOpens
    BY <1>2, <1>4, <1>5, <1>6, <2>1 DEF BrokerOpens, BrokerKinds
  <2>2. CASE BrokerDeclares
    <3>1. served' = served \/ served' = [served EXCEPT ![Request.ch] = @ \cup {Request.tag}]
      BY <2>2 DEF BrokerDeclares
    <3>2. served' \in [Ids -> SUBSET Nat]
      BY <1>2, <1>4, <3>1
    <3>3. in' \in Seq(Frames)
      BY <1>2, <1>4, <1>5, <2>2 DEF BrokerDeclares, BrokerKinds
    <3>4. peer' \in [Ids -> {"none", "open", "closing", "closed"}]
      BY <1>2, <1>6, <2>2 DEF BrokerDeclares
    <3> QED BY <3>2, <3>3, <3>4
  <2>3. CASE BrokerCloses
    BY <1>2, <1>4, <1>5, <1>6, <2>3 DEF BrokerCloses, BrokerKinds
  <2>4. CASE BrokerIsClosed
    BY <1>2, <1>6, <2>4 DEF BrokerIsClosed
  <2>5. CASE ProtocolError
    BY <1>2, <1>5, <2>5 DEF ProtocolError, BrokerKinds, brokerVars
  <2> QED BY <2>1, <2>2, <2>3, <2>4, <2>5 DEF Broker
<1>8. out' \in Seq(Frames)
  BY <1>1, <1>2
<1> QED BY <1>1, <1>7, <1>8 DEF Basics, TypeOK, MgrTypeOK, ChannelsHeld, NeverQueued

LEMMA OutsideBasics ==
  ASSUME Basics, Outside
  PROVE  Basics'
<1>1. /\ out \in Seq(Frames) /\ in \in Seq(Frames) /\ faults \in 0 .. MaxFaults
      /\ peer \in [Ids -> {"none", "open", "closing", "closed"}]
      /\ Ids \subseteq Nat
  BY DEF Basics, TypeOK, MgrTypeOK, Ids
<1>2. CASE BrokerSpeaks
  <2>1. /\ faults' = faults + 1 /\ faults < MaxFaults
        /\ UNCHANGED <<ioq, io, state, chans, writeq, pend, reading, opening, sock, out,
                       pc, own, served>>
    BY <1>2 DEF BrokerSpeaks, userVars
  <2>2. \A ch \in Nat, kind \in BrokerKinds : Sends(ch, kind, 0) => in' \in Seq(Frames)
    <3>1. \A ch \in Nat, kind \in BrokerKinds : Frame(ch, kind, 0) \in Frames
      BY FrameType DEF Kinds
    <3>2. \A f \in Frames : Append(in, f) \in Seq(Frames)
      BY <1>1
    <3> QED BY <3>1, <3>2 DEF Sends
  <2>3. in' \in Seq(Frames)
    BY <1>1, <1>2, <2>2 DEF BrokerSpeaks, BrokerKinds
  <2>4. peer' \in [Ids -> {"none", "open", "closing", "closed"}]
    BY <1>1, <1>2 DEF BrokerSpeaks, Peer
  <2>5. faults' \in 0 .. MaxFaults
    BY <1>1, <2>1, BoundsAssumption
  <2> QED BY <2>1, <2>3, <2>4, <2>5 DEF Basics, TypeOK, MgrTypeOK, ChannelsHeld, NeverQueued
<1>3. CASE SocketBreaks
  <2>1. /\ sock' = "broken" /\ out' = <<>>
        /\ UNCHANGED <<ioq, io, state, chans, writeq, pend, reading, opening, pc, own,
                       peer, served, faults>>
    BY <1>3 DEF SocketBreaks, userVars, brokerVars
  <2>2. PICK n \in 0 .. Len(in) : in' = SubSeq(in, 1, n)
    BY <1>3 DEF SocketBreaks
  <2>3. in' \in Seq(Frames)
    BY <1>1, <2>2
  <2>4. out' \in Seq(Frames)
    BY <2>1
  <2> QED BY <2>1, <2>3, <2>4 DEF Basics, TypeOK, MgrTypeOK, ChannelsHeld, NeverQueued
<1> QED BY <1>2, <1>3 DEF Outside

LEMMA BasicsStep == Basics /\ [Next]_vars => Basics'
<1> SUFFICES ASSUME Basics, [Next]_vars PROVE Basics'
  OBVIOUS
<1>1. CASE Next
  BY <1>1, IoBasics, ReactorBasics, ApplicationBasics, BrokerBasics, OutsideBasics DEF Next
<1>2. CASE UNCHANGED vars
  BY <1>2 DEF vars, mgrVars, userVars, brokerVars, Basics, TypeOK, MgrTypeOK, ChannelsHeld,
              NeverQueued
<1> QED BY <1>1, <1>2

(***************************************************************************)
(* Every variable keeps its type.                                          *)
(***************************************************************************)
THEOREM TypeCorrect == Spec => []TypeOK
<1>1. Basics => TypeOK
  BY DEF Basics
<1> QED BY <1>1, BasicsInit, BasicsStep, PTL DEF Spec

(***************************************************************************)
(* begin_write_frame never finds a frame in m_write_queue: the queue that  *)
(* should make writes wait for each other never does.                      *)
(***************************************************************************)
THEOREM QueueIsNeverUsed == Spec => []NeverQueued
<1>1. Basics => NeverQueued
  BY DEF Basics
<1> QED BY <1>1, BasicsInit, BasicsStep, PTL DEF Spec

(***************************************************************************)
(* A thread's channel is in m_channels as long as the thread holds it.     *)
(***************************************************************************)
THEOREM ChannelsStayKnown == Spec => []ChannelsHeld
<1>1. Basics => ChannelsHeld
  BY DEF Basics
<1> QED BY <1>1, BasicsInit, BasicsStep, PTL DEF Spec

-----------------------------------------------------------------------------
(***************************************************************************)
(* The read loop.  ReadHandlers follows the queue: taking the first        *)
(* handler out moves the others up by one, and what is appended is a read  *)
(* completion only when the async_read that was under way ends.            *)
(***************************************************************************)
LEMMA ReadsAfterRun ==
  ASSUME ioq \in Seq(Handlers), HandlerRuns
  PROVE  /\ \A i : i \in ReadHandlers' => i \in Nat \ {0} /\ i + 1 \in ReadHandlers
         /\ \A i \in ReadHandlers : i # 1 => i - 1 \in ReadHandlers'
         /\ 1 \in ReadHandlers <=> Head(ioq).h \in ReadNames
<1>1. /\ ioq' \in Seq(Handlers) /\ Len(ioq) \in Nat /\ Len(ioq) # 0 /\ Len(ioq') \in Nat
      /\ Len(Tail(ioq)) = Len(ioq) - 1 /\ Tail(ioq) \in Seq(Handlers)
      /\ DOMAIN ioq = 1 .. Len(ioq) /\ DOMAIN ioq' = 1 .. Len(ioq')
      /\ \A i \in 1 .. (Len(ioq) - 1) : Tail(ioq)[i] = ioq[i + 1]
      /\ Head(ioq) = ioq[1]
  BY DEF HandlerRuns
<1>2. /\ Len(ioq) - 1 <= Len(ioq')
      /\ \A i \in 1 .. (Len(ioq) - 1) : ioq'[i] = ioq[i + 1]
      /\ \A i \in Len(ioq) .. Len(ioq') : ioq'[i].h = "on_write_frame"
  <2>1. /\ Len(Tail(ioq)) <= Len(ioq')
        /\ \A i \in 1 .. Len(Tail(ioq)) : ioq'[i] = Tail(ioq)[i]
        /\ \A i \in (Len(Tail(ioq)) + 1) .. Len(ioq') : ioq'[i].h = "on_write_frame"
    BY DEF HandlerRuns, QueueGrows
  <2>2. (Len(ioq) - 1) + 1 = Len(ioq)
    BY <1>1
  <2> QED BY <1>1, <2>1, <2>2
<1>3. ASSUME NEW i \in ReadHandlers'
      PROVE  i \in Nat \ {0} /\ i + 1 \in ReadHandlers
  <2>1. i \in 1 .. Len(ioq') /\ ioq'[i].h \in ReadNames
    BY <1>1, <1>3 DEF ReadHandlers, ReadNames
  <2>2. i \in 1 .. (Len(ioq) - 1)
    BY <1>1, <1>2, <2>1 DEF ReadNames
  <2>3. ioq[i + 1].h \in ReadNames
    BY <1>2, <2>1, <2>2
  <2> QED BY <1>1, <2>2, <2>3 DEF ReadHandlers, ReadNames
<1>4. ASSUME NEW i \in ReadHandlers, i # 1
      PROVE  i - 1 \in ReadHandlers'
  <2>1. i \in 1 .. Len(ioq) /\ ioq[i].h \in ReadNames
    BY <1>1, <1>4 DEF ReadHandlers, ReadNames
  <2>2. ioq'[i - 1] = ioq[(i - 1) + 1] /\ (i - 1) + 1 = i
    BY <1>1, <1>2, <1>4, <2>1
  <2> QED BY <1>1, <1>2, <1>4, <2>1, <2>2 DEF ReadHandlers, ReadNames
<1>5. 1 \in ReadHandlers <=> Head(ioq).h \in ReadNames
  BY <1>1 DEF ReadHandlers, ReadNames
<1> QED BY <1>3, <1>4, <1>5

LEMMA ReadsAfterAppend ==
  ASSUME ioq \in Seq(Handlers), NEW x \in Handlers, ioq' = Append(ioq, x)
  PROVE  /\ x.h \notin ReadNames => ReadHandlers' = ReadHandlers
         /\ x.h \in ReadNames => ReadHandlers' = ReadHandlers \cup {Len(ioq) + 1}
BY DEF ReadHandlers, ReadNames

ReadInv == ReadExclusive /\ ReadLoopAlive

LEMMA ReadInvInit == Init => ReadInv
BY DEF Init, MgrInit, ReadInv, ReadExclusive, ReadLoopAlive, ReadHandlers

LEMMA IoReads ==
  ASSUME Basics, ReadInv, IoStep
  PROVE  ReadInv'
<1>1. Abort \/ HandlerEffect \/ RunReturns
  BY IoThreadEffect DEF IoStep
<1>2. CASE Abort
  <2>1. ioq' = ioq /\ reading' = reading /\ io' = "aborted"
    BY <1>2 DEF Abort
  <2>2. ReadHandlers' = ReadHandlers
    BY <2>1 DEF ReadHandlers
  <2> QED BY <2>1, <2>2 DEF ReadInv, ReadExclusive, ReadLoopAlive
<1>3. CASE RunReturns
  <2>1. /\ ioq = <<>> /\ reading = "none" /\ io = "running"
        /\ ioq' = ioq /\ reading' = reading /\ state' = state /\ io' = "stopped"
    BY <1>3 DEF RunReturns
  <2>2. ReadHandlers' = {} /\ ReadHandlers = {} /\ state \in {"open", "closed"}
    BY <2>1 DEF ReadHandlers, Basics, TypeOK, MgrTypeOK
  <2> QED BY <2>1, <2>2 DEF ReadInv, ReadExclusive, ReadLoopAlive
<1>4. CASE HandlerEffect
  <2>0. ioq \in Seq(Handlers) /\ HandlerRuns /\ io = "running" /\ io' = "running"
        /\ state \in {"open", "closed"}
    BY <1>4 DEF HandlerEffect, Basics, TypeOK, MgrTypeOK
  <2>1. /\ \A i : i \in ReadHandlers' => i \in Nat \ {0} /\ i + 1 \in ReadHandlers
        /\ \A i \in ReadHandlers : i # 1 => i - 1 \in ReadHandlers'
        /\ 1 \in ReadHandlers <=> Head(ioq).h \in ReadNames
    BY <2>0, ReadsAfterRun
  <2>2. \A i, j \in ReadHandlers' : i = j
    <3>1. ASSUME NEW i \in ReadHandlers', NEW j \in ReadHandlers'
          PROVE  i = j
      <4>1. i + 1 = j + 1 /\ i \in Nat /\ j \in Nat
        BY <2>1 DEF ReadInv, ReadExclusive
      <4> QED BY <4>1
    <3> QED BY <3>1
  <2>3. CASE Head(ioq).h \in ReadNames
    <3>1. ReadHandlers' = {}
      BY <2>1, <2>3 DEF ReadInv, ReadExclusive
    <3>2. reading = "none"
      BY <2>1, <2>3 DEF ReadInv, ReadExclusive
    <3>3. reading' \in {"header", "body"} \/ state' = "closed"
      BY <1>4, <2>3 DEF HandlerEffect
    <3> QED BY <2>0, <2>2, <3>1, <3>3 DEF ReadInv, ReadExclusive, ReadLoopAlive
  <2>4. CASE Head(ioq).h \notin ReadNames
    <3>1. reading' = reading /\ (state' = state \/ state' = "closed")
      BY <1>4, <2>4 DEF HandlerEffect
    <3>2. ReadHandlers # {} => ReadHandlers' # {}
      BY <2>1, <2>4
    <3>3. reading # "none" => ReadHandlers' = {}
      BY <2>1 DEF ReadInv, ReadExclusive
    <3> QED BY <2>0, <2>2, <3>1, <3>2, <3>3 DEF ReadInv, ReadExclusive, ReadLoopAlive
  <2> QED BY <2>3, <2>4
<1> QED BY <1>1, <1>2, <1>3, <1>4

(***************************************************************************)
(* The other steps leave the queue alone or append one handler to it.      *)
(***************************************************************************)
LEMMA QueueAppends ==
  ASSUME Basics, [Next]_vars
  PROVE  \/ IoStep
         \/ /\ UNCHANGED <<ioq, reading, io, state>>
            /\ Len(pend') <= Len(pend)
         \/ /\ \E x \in Handlers :
                  /\ ioq' = Append(ioq, x)
                  /\ \/ x.h \notin ReadNames /\ reading' = reading
                     \/ x.h \in ReadNames /\ reading # "none" /\ reading' = "none"
                  /\ x.h \in Completions => x.ok \/ sock = "broken"
            /\ UNCHANGED <<io, state, sock>>
            /\ Len(pend') <= Len(pend)
<1> DEFINE Idle == UNCHANGED <<ioq, reading, io, state>> /\ Len(pend') <= Len(pend)
           Queued == /\ \E x \in Handlers :
                          /\ ioq' = Append(ioq, x)
                          /\ \/ x.h \notin ReadNames /\ reading' = reading
                             \/ x.h \in ReadNames /\ reading # "none" /\ reading' = "none"
                          /\ x.h \in Completions => x.ok \/ sock = "broken"
                     /\ UNCHANGED <<io, state, sock>> /\ Len(pend') <= Len(pend)
<1>0. /\ pend \in Seq(PendingWrites) /\ Len(pend) \in Nat
      /\ pend # <<>> => Len(Tail(pend)) <= Len(pend)
      /\ in \in Seq(Frames)
  BY DEF Basics, TypeOK, MgrTypeOK, PendingWrites
<1>1. CASE ReactorStep
  <2>1. CASE HeaderArrives
    <3>1. \E x \in Handlers : ioq' = Append(ioq, x) /\ x.h \in ReadNames /\ x.ok
      <4>1. Head(in) \in Frames
        BY <1>0, <2>1 DEF HeaderArrives
      <4>2. LET x == ReadHeader(TRUE, Head(in))
            IN  x \in Handlers /\ x.h \in ReadNames /\ x.ok
        BY <4>1 DEF ReadHeader, Handlers, ReadNames
      <4> QED BY <2>1, <4>2, Zenon DEF HeaderArrives
    <3>2. reading # "none" /\ reading' = "none" /\ UNCHANGED <<io, state, sock, pend>>
      BY <2>1, Zenon DEF HeaderArrives
    <3> QED BY <1>0, <3>1, <3>2
  <2>2. CASE BodyArrives
    <3>1. \E x \in Handlers : ioq' = Append(ioq, x) /\ x.h \in ReadNames /\ x.ok
      <4>1. Head(in) \in Frames
        BY <1>0, <2>2 DEF BodyArrives
      <4>2. LET x == ReadBody(TRUE, Head(in))
            IN  x \in Handlers /\ x.h \in ReadNames /\ x.ok
        BY <4>1 DEF ReadBody, Handlers, ReadNames
      <4> QED BY <2>2, <4>2, Zenon DEF BodyArrives
    <3>2. reading # "none" /\ reading' = "none" /\ UNCHANGED <<io, state, sock, pend>>
      <4>1. reading = "body" /\ reading' = "none" /\ UNCHANGED <<io, state, sock, pend>>
        BY <2>2, Zenon DEF BodyArrives
      <4> QED BY <4>1
    <3> QED BY <1>0, <3>1, <3>2
  <2>3. CASE ReadFails
    <3>1. \E x \in Handlers : ioq' = Append(ioq, x) /\ x.h \in ReadNames
      <4>1. /\ ReadBody(FALSE, Garbage) \in Handlers /\ ReadHeader(FALSE, Garbage) \in Handlers
            /\ ReadBody(FALSE, Garbage).h \in ReadNames
            /\ ReadHeader(FALSE, Garbage).h \in ReadNames
        BY FrameType DEF ReadBody, ReadHeader, Handlers, ReadNames
      <4> QED BY <2>3, <4>1, Zenon DEF ReadFails
    <3>2. /\ reading # "none" /\ reading' = "none" /\ sock = "broken"
          /\ UNCHANGED <<io, state, sock, pend>>
      BY <2>3, Zenon DEF ReadFails
    <3> QED BY <1>0, <3>1, <3>2
  <2>4. CASE WriteCompletes
    <3>1. \E x \in Handlers : ioq' = Append(ioq, x) /\ x.h \notin ReadNames /\ x.ok
      <4>1. LET x == Wrote(TRUE) IN x \in Handlers /\ x.h \notin ReadNames /\ x.ok
        BY DEF Wrote, Handlers, ReadNames
      <4> QED BY <2>4, <4>1, Zenon DEF WriteCompletes
    <3>2. pend # <<>> /\ pend' = Tail(pend) /\ UNCHANGED <<io, state, sock, reading>>
      BY <2>4, Zenon DEF WriteCompletes
    <3> QED BY <1>0, <3>1, <3>2
  <2>5. CASE WriteFails
    <3>1. \E x \in Handlers : ioq' = Append(ioq, x) /\ x.h \notin ReadNames
      <4>1. LET x == Wrote(FALSE) IN x \in Handlers /\ x.h \notin ReadNames
        BY DEF Wrote, Handlers, ReadNames
      <4> QED BY <2>5, <4>1, Zenon DEF WriteFails
    <3>2. /\ pend # <<>> /\ pend' = Tail(pend) /\ sock = "broken"
          /\ UNCHANGED <<io, state, sock, reading>>
      BY <2>5, Zenon DEF WriteFails
    <3> QED BY <1>0, <3>1, <3>2
  <2> QED BY <1>1, <2>1, <2>2, <2>3, <2>4, <2>5 DEF ReactorStep, Reactor
<1>2. ASSUME NEW u \in Users, Application(u)
      PROVE  Idle \/ Queued
  <2>1. /\ UNCHANGED <<io, state, sock, reading, pend>>
        /\ \/ ioq' = ioq
           \/ ioq' = Append(ioq, StartOpen(u))
           \/ ioq' = Append(ioq, Write(Frame(own[u], "Declare", Chan(u).calls)))
           \/ ioq' = Append(ioq, Write(Frame(own[u], "Close", 0)))
    BY <1>2 DEF Application, OpenChannel, BeginOpenChannel, GetChannel, OpenReturns,
                BeginRpc, PostRpc, RpcReturns, DropChannel, BeginWriteMethod, mgrVars
  <2>2. Basics'
    BY <1>2, ApplicationBasics
  <2>3. CASE ioq' = ioq
    BY <1>0, <2>1, <2>3
  <2>4. ASSUME NEW x, ioq' = Append(ioq, x), x.h \notin Completions
        PROVE  Queued
    <3>1. /\ ioq' \in Seq(Handlers) /\ ioq'[Len(ioq')] = x /\ Len(ioq') \in 1 .. Len(ioq')
      BY <2>2, <2>4 DEF Basics, TypeOK, MgrTypeOK
    <3>2. x \in Handlers
      BY <3>1
    <3> QED BY <1>0, <2>1, <2>4, <3>2 DEF Completions, ReadNames
  <2>5. /\ StartOpen(u).h \notin Completions
        /\ \A f : Write(f).h \notin Completions
    BY DEF StartOpen, Write, Completions
  <2> QED BY <2>1, <2>3, <2>4, <2>5
<1>3. CASE Broker
  BY <1>0, <1>3 DEF Broker, BrokerOpens, BrokerDeclares, BrokerCloses, BrokerIsClosed,
                    ProtocolError, Receives
<1>4. CASE Outside
  BY <1>0, <1>4 DEF Outside, BrokerSpeaks, SocketBreaks
<1>5. CASE UNCHANGED vars
  BY <1>0, <1>5 DEF vars, mgrVars
<1> QED BY <1>1, <1>2, <1>3, <1>4, <1>5 DEF Next

LEMMA ReadInvStep == Basics /\ ReadInv /\ [Next]_vars => ReadInv'
<1> SUFFICES ASSUME Basics, ReadInv, [Next]_vars PROVE ReadInv'
  OBVIOUS
<1>1. CASE IoStep
  BY <1>1, IoReads
<1>2. CASE UNCHANGED <<ioq, reading, io, state>>
  <2>1. ReadHandlers' = ReadHandlers
    BY <1>2 DEF ReadHandlers
  <2> QED BY <1>2, <2>1 DEF ReadInv, ReadExclusive, ReadLoopAlive
<1>3. ASSUME NEW x \in Handlers, ioq' = Append(ioq, x), UNCHANGED <<io, state>>,
             \/ x.h \notin ReadNames /\ reading' = reading
             \/ x.h \in ReadNames /\ reading # "none" /\ reading' = "none"
      PROVE  ReadInv'
  <2>1. ioq \in Seq(Handlers)
    BY DEF Basics, TypeOK, MgrTypeOK
  <2>2. CASE x.h \notin ReadNames
    <3>1. ReadHandlers' = ReadHandlers /\ reading' = reading
      BY <1>3, <2>1, <2>2, ReadsAfterAppend
    <3> QED BY <1>3, <3>1 DEF ReadInv, ReadExclusive, ReadLoopAlive
  <2>3. CASE x.h \in ReadNames
    <3>1. ReadHandlers' = ReadHandlers \cup {Len(ioq) + 1} /\ reading # "none"
      BY <1>3, <2>1, <2>3, ReadsAfterAppend
    <3>2. ReadHandlers' = {Len(ioq) + 1}
      BY <3>1 DEF ReadInv, ReadExclusive
    <3> QED BY <1>3, <2>3, <3>2 DEF ReadInv, ReadExclusive, ReadLoopAlive
  <2> QED BY <2>2, <2>3
<1> QED BY <1>1, <1>2, <1>3, QueueAppends

(***************************************************************************)
(* No two reads ever use m_builder at once.                                *)
(***************************************************************************)
THEOREM BuilderIsNotShared == Spec => []ReadExclusive
<1>1. Basics /\ ReadInv => ReadExclusive
  BY DEF ReadInv
<1> QED BY <1>1, BasicsInit, BasicsStep, ReadInvInit, ReadInvStep, PTL DEF Spec

(***************************************************************************)
(* While the connection is open the io thread is reading or about to, and  *)
(* it never runs out of work.                                              *)
(***************************************************************************)
THEOREM ReadLoopStaysAlive == Spec => []ReadLoopAlive
<1>1. Basics /\ ReadInv => ReadLoopAlive
  BY DEF ReadInv
<1> QED BY <1>1, BasicsInit, BasicsStep, ReadInvInit, ReadInvStep, PTL DEF Spec

-----------------------------------------------------------------------------
(***************************************************************************)
(* After on_socket_close begin_write_frame starts nothing, for every write *)
(* in the code goes through it: directly, or from on_write_frame, which    *)
(* would first have to find a frame in m_write_queue.                      *)
(***************************************************************************)
LEMMA NoWriteStep ==
  ASSUME Basics, [Next]_vars, state = "closed"
  PROVE  (Len(ioq') = Len(ioq) => ioq' = ioq) /\ Len(pend') <= Len(pend)
<1>0. /\ ioq \in Seq(Handlers) /\ Len(ioq) \in Nat
      /\ pend \in Seq(PendingWrites) /\ Len(pend) \in Nat
  BY DEF Basics, TypeOK, MgrTypeOK, PendingWrites
<1>1. CASE IoStep
  <2>1. CASE Abort \/ RunReturns
    BY <1>0, <2>1 DEF Abort, RunReturns
  <2>2. CASE HandlerEffect
    <3>1. ioq # <<>> /\ ioq' = Tail(ioq) /\ Len(pend') <= Len(pend)
      BY <2>2 DEF HandlerEffect, HandlerRuns
    <3>2. Len(ioq') # Len(ioq)
      BY <1>0, <3>1
    <3> QED BY <3>1, <3>2
  <2> QED BY <1>1, <2>1, <2>2, IoThreadEffect DEF IoStep
<1>2. CASE UNCHANGED ioq /\ Len(pend') <= Len(pend)
  BY <1>2
<1>3. CASE (\E x \in Handlers : ioq' = Append(ioq, x)) /\ Len(pend') <= Len(pend)
  <2>1. Len(ioq') # Len(ioq)
    BY <1>0, <1>3
  <2> QED BY <1>3, <2>1
<1> QED BY <1>1, <1>2, <1>3, QueueAppends

THEOREM NothingWrittenOnceClosed == Spec => NoWriteOnceClosed
<1>1. Basics /\ [Next]_vars =>
        [state = "closed" => /\ Len(ioq') = Len(ioq) => ioq' = ioq
                             /\ Len(pend') <= Len(pend)]_vars
  BY NoWriteStep
<1> QED BY <1>1, BasicsInit, BasicsStep, PTL DEF Spec, NoWriteOnceClosed

-----------------------------------------------------------------------------
(***************************************************************************)
(* Errors are real: the socket never recovers, and the connection is       *)
(* closed only by a completion that reports an error.                      *)
(***************************************************************************)
LEMMA SocketStaysBroken ==
  ASSUME Basics, [Next]_vars, sock = "broken"
  PROVE  sock' = "broken"
<1>1. CASE IoStep
  BY <1>1, IoThreadEffect DEF IoStep, Abort, RunReturns, HandlerEffect
<1>2. CASE ReactorStep
  BY <1>2 DEF ReactorStep, Reactor, HeaderArrives, BodyArrives, ReadFails, WriteCompletes,
              WriteFails
<1>3. ASSUME NEW u \in Users, Application(u)
      PROVE  sock' = "broken"
  BY <1>3 DEF Application, OpenChannel, BeginOpenChannel, GetChannel, OpenReturns, BeginRpc,
              PostRpc, RpcReturns, DropChannel, mgrVars
<1>4. CASE Broker \/ Outside
  BY <1>4 DEF Broker, BrokerOpens, BrokerDeclares, BrokerCloses, BrokerIsClosed,
              ProtocolError, Receives, Outside, BrokerSpeaks, SocketBreaks
<1>5. CASE UNCHANGED vars
  BY <1>5 DEF vars, mgrVars
<1> QED BY <1>1, <1>2, <1>3, <1>4, <1>5 DEF Next

LEMMA ErrorsStep == Basics /\ ErrorsAreReal /\ [Next]_vars => ErrorsAreReal'
<1> SUFFICES ASSUME Basics, ErrorsAreReal, [Next]_vars, sock' # "broken"
             PROVE  /\ state' # "closed"
                    /\ \A i \in DOMAIN ioq' : ioq'[i].h \in Completions => ioq'[i].ok
  BY DEF ErrorsAreReal
<1>0. /\ sock # "broken" /\ state # "closed"
      /\ \A i \in DOMAIN ioq : ioq[i].h \in Completions => ioq[i].ok
      /\ ioq \in Seq(Handlers)
  BY SocketStaysBroken DEF ErrorsAreReal, Basics, TypeOK, MgrTypeOK
<1>1. CASE IoStep
  <2>1. CASE Abort \/ RunReturns
    BY <1>0, <2>1 DEF Abort, RunReturns
  <2>2. CASE HandlerEffect
    <3>1. ioq # <<>> /\ QueueGrows(Tail(ioq), ioq') /\ ioq' \in Seq(Handlers)
      BY <2>2 DEF HandlerEffect, HandlerRuns
    <3>2. Head(ioq) = ioq[1] /\ 1 \in DOMAIN ioq
      BY <1>0, <3>1
    <3>3. state' # "closed"
      BY <1>0, <2>2, <3>2 DEF HandlerEffect
    <3>4. ASSUME NEW i \in DOMAIN ioq', ioq'[i].h \in Completions
          PROVE  ioq'[i].ok
      <4>1. /\ Len(Tail(ioq)) \in Nat /\ i \in 1 .. Len(ioq') /\ Len(ioq') \in Nat
            /\ \A j \in 1 .. Len(Tail(ioq)) : Tail(ioq)[j] = ioq[j + 1] /\ j + 1 \in DOMAIN ioq
        BY <1>0, <3>1
      <4>2. CASE i <= Len(Tail(ioq))
        <5>1. ioq'[i] = ioq[i + 1] /\ i + 1 \in DOMAIN ioq
          BY <3>1, <4>1, <4>2 DEF QueueGrows
        <5> QED BY <1>0, <3>4, <5>1
      <4>3. CASE i > Len(Tail(ioq))
        <5>1. i \in (Len(Tail(ioq)) + 1) .. Len(ioq')
          BY <4>1, <4>3
        <5> QED BY <1>0, <3>1, <5>1 DEF QueueGrows
      <4> QED BY <4>1, <4>2, <4>3
    <3> QED BY <3>3, <3>4
  <2> QED BY <1>1, <2>1, <2>2, IoThreadEffect DEF IoStep
<1>2. CASE UNCHANGED <<ioq, state>>
  BY <1>0, <1>2
<1>3. ASSUME NEW x \in Handlers, ioq' = Append(ioq, x), UNCHANGED <<state, sock>>,
             x.h \in Completions => x.ok \/ sock = "broken"
      PROVE  /\ state' # "closed"
             /\ \A i \in DOMAIN ioq' : ioq'[i].h \in Completions => ioq'[i].ok
  <2>1. ASSUME NEW i \in DOMAIN ioq', ioq'[i].h \in Completions
        PROVE  ioq'[i].ok
    <3>1. (i \in DOMAIN ioq /\ ioq'[i] = ioq[i]) \/ ioq'[i] = x
      BY <1>0, <1>3, <2>1
    <3> QED BY <1>0, <1>3, <2>1, <3>1
  <2> QED BY <1>0, <1>3, <2>1
<1> QED BY <1>1, <1>2, <1>3, QueueAppends

THEOREM OnlyFailureCloses == Spec => []ErrorsAreReal
<1>1. Init => ErrorsAreReal
  BY DEF Init, MgrInit, ErrorsAreReal
<1> QED BY <1>1, BasicsInit, BasicsStep, ErrorsStep, PTL DEF Spec

-----------------------------------------------------------------------------
(***************************************************************************)
(* A channel belongs to one thread: the number a thread is given is larger *)
(* than any that a thread holds.                                           *)
(***************************************************************************)
LEMMA SharedStep == Basics /\ ChannelsNotShared /\ [Next]_vars => ChannelsNotShared'
<1> SUFFICES ASSUME Basics, ChannelsNotShared, [Next]_vars PROVE ChannelsNotShared'
  OBVIOUS
<1>0. /\ opening \in [Users -> Promises] /\ Len(chans) \in Nat
      /\ pc \in [Users -> PcStates] /\ own \in [Users -> 0 .. MaxChannelId]
      /\ \A v \in Users : Holds(v) \in 0 .. Len(chans)
      /\ \A v \in Users : own[v] = 0 <=> pc[v] \in {"idle", "awaitChannel"}
  BY DEF Basics, TypeOK, MgrTypeOK, ChannelsHeld, Holds
<1>1. \A u, v \in Users : u # v /\ Holds(u) # 0 => Holds(u) # Holds(v)
  BY DEF ChannelsNotShared
<1>2. CASE UNCHANGED <<opening, pc, own>>
  BY <1>2 DEF ChannelsNotShared, Holds
<1>3. ASSUME NEW u \in Users, NEW p \in Promises, opening' = [opening EXCEPT ![u] = p],
             p.id \in {0, Len(chans) + 1}, UNCHANGED <<pc, own>>
      PROVE  ChannelsNotShared'
  <2>1. \A v \in Users \ {u} : Holds(v)' = Holds(v)
    BY <1>0, <1>3 DEF Holds
  <2>2. Holds(u)' \in {Holds(u), 0, Len(chans) + 1}
    BY <1>0, <1>3 DEF Holds
  <2> QED BY <1>0, <1>1, <2>1, <2>2 DEF ChannelsNotShared
<1>4. ASSUME NEW u \in Users, Application(u)
      PROVE  ChannelsNotShared'
  <2>1. \A v \in Users \ {u} : Holds(v)' = Holds(v)
    BY <1>0, <1>4 DEF Holds, Application, OpenChannel, BeginOpenChannel, GetChannel,
         OpenReturns, BeginRpc, PostRpc, RpcReturns, DropChannel, Goto, mgrVars
  <2>2. Holds(u)' \in {Holds(u), 0}
    BY <1>0, <1>4 DEF Holds, Application, OpenChannel, BeginOpenChannel, GetChannel,
         OpenReturns, BeginRpc, PostRpc, RpcReturns, DropChannel, Goto, At, mgrVars,
         Promise, PcStates, ChannelClosedFutureReady
  <2> QED BY <1>0, <1>1, <2>1, <2>2 DEF ChannelsNotShared
<1>5. CASE IoStep
  <2>1. UNCHANGED <<pc, own>> /\ (Abort \/ HandlerEffect \/ RunReturns)
    BY <1>5, IoThreadEffect DEF IoStep, userVars
  <2>2. UNCHANGED opening \/ OpeningChanges
    BY <2>1 DEF Abort, RunReturns, HandlerEffect
  <2> QED BY <1>2, <1>3, <2>1, <2>2 DEF OpeningChanges
<1>6. CASE ReactorStep
  BY <1>2, <1>6 DEF ReactorStep, Reactor, HeaderArrives, BodyArrives, ReadFails,
                    WriteCompletes, WriteFails, userVars
<1>7. CASE Broker \/ Outside
  BY <1>2, <1>7 DEF Broker, BrokerOpens, BrokerDeclares, BrokerCloses, BrokerIsClosed,
                    ProtocolError, Receives, Outside, BrokerSpeaks, SocketBreaks, userVars
<1>8. CASE UNCHANGED vars
  BY <1>2, <1>8 DEF vars, mgrVars, userVars
<1> QED BY <1>4, <1>5, <1>6, <1>7, <1>8 DEF Next

THEOREM ChannelsAreOwned == Spec => []ChannelsNotShared
<1>1. Init => ChannelsNotShared
  BY DEF Init, ChannelsNotShared, Holds
<1> QED BY <1>1, BasicsInit, BasicsStep, SharedStep, PTL DEF Spec

=============================================================================
