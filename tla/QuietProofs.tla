----------------------------- MODULE QuietProofs -----------------------------
(***************************************************************************)
(* What the client promises when nothing goes wrong: the kernel takes each *)
(* send whole, the connection holds, and the broker grants every request   *)
(* and sends nothing unasked.  Then, for any number of threads, channels   *)
(* and calls, the process lives on, every frame the client sends is legal, *)
(* and open_channel returns open channels.                                 *)
(***************************************************************************)
EXTENDS CallProofs

Quiet == ~PartialSends /\ ~BrokerRefuses /\ ~SocketFails /\ Unsolicited = {}

NothingFails == io # "aborted" /\ sock = "up" /\ pend = <<>>

(* No channel was refused, and the broker has closed only dropped ones.    *)
ChannelsGranted ==
  /\ \A i \in Ids : peer[i] \in {"none", "open", "closed"}
  /\ \A i \in DOMAIN chans : /\ chans[i].opened # "exception"
                             /\ peer[i] = "closed" => ~chans[i].live

(***************************************************************************)
(* A frame for the broker finds the channel in the state it is legal in,   *)
(* whenever it arrives: none is sent twice, and two that are on their way  *)
(* for one channel do not spoil each other.                                *)
(***************************************************************************)
LegallySent(f) ==
  /\ OutwardOnce(f)
  /\ f.kind \in {"Open", "Declare", "Close"}
  /\ f.kind \in {"Open", "Close"} => f.tag = 0
  /\ peer[f.ch] = IF f.kind = "Open" THEN "none" ELSE "open"

OutLegal ==
  /\ ~Occurs(Write(Garbage), ioq) /\ ~Occurs(Garbage, out)
  /\ \A f \in RealFrames : Outward(f) => LegallySent(f)

(* The broker only answers.                                                *)
Answers(f) == f.ch # 0 /\ f.kind \in {"OpenOk", "DeclareOk", "CloseOk"}

InAnswers ==
  \A f \in Frames : Inward(f) \/ Occurs(ReadHeader(TRUE, f), ioq) => Answers(f)

QuietInv == NothingFails /\ ChannelsGranted /\ OutLegal /\ InAnswers

-----------------------------------------------------------------------------
(* No completion reports an error, and writes start.                       *)
LEMMA NoErrors ==
  ASSUME Known, QuietInv
  PROVE  /\ Basics /\ state = "open" /\ writeq = <<>> /\ sock = "up" /\ pend = <<>>
         /\ ioq # <<>> /\ Head(ioq).h \in Completions => Head(ioq).ok
<1>1. Basics /\ state = "open" /\ writeq = <<>> /\ sock = "up" /\ pend = <<>>
  BY DEF Known, Basics, TypeOK, MgrTypeOK, NeverQueued, ErrorsAreReal, QuietInv, NothingFails
<1>2. ASSUME ioq # <<>>, Head(ioq).h \in Completions
      PROVE  Head(ioq).ok
  <2>1. 1 \in DOMAIN ioq /\ Head(ioq) = ioq[1]
    BY <1>1, <1>2, CoreTypes
  <2> QED BY <1>1, <1>2, <2>1 DEF Known, ErrorsAreReal
<1> QED BY <1>1, <1>2

LEMMA WholeWrite ==
  ASSUME Quiet, Known, QuietInv, ioq # <<>>, NEW g \in Frames,
         NEW w \in BeginWriteFrame(g, Writing), Written(w)
  PROVE  pend' = <<>> /\ out' = Append(out, g)
<1>1. /\ Basics /\ state = "open" /\ writeq = <<>> /\ sock # "broken" /\ pend = <<>>
      /\ MgrTypeOK /\ NeverQueued
  BY NoErrors DEF Basics, TypeOK
<1>2. Writing \in WriteStates /\ Writing.writeq = <<>>
  BY <1>1, WritingType
<1>3. Writing.pend = <<>> /\ Writing.out = out
  BY <1>1 DEF Writing
<1> DEFINE v == Writing
<1> HIDE DEF v
<1>4. w \in AsyncWrite(g, v)
  <2>1. Append(<<>>, g) = <<g>> /\ Head(<<g>>) = g /\ Tail(<<g>>) = <<>>
    OBVIOUS
  <2>2. [v EXCEPT !.writeq = <<>>] = v
    BY <1>2 DEF WriteStates, v
  <2>3. w \in BeginWriteFrame(g, v) /\ v.writeq = <<>>
    BY <1>2 DEF v
  <2> QED BY <1>1, <2>1, <2>2, <2>3 DEF BeginWriteFrame
<1>5. v \in WriteStates /\ v.pend = <<>> /\ v.out = out
  BY <1>2, <1>3 DEF v
<1>6. w.pend = Spoiled(<<>>) /\ w.out = Append(out, g)
  BY <1>1, <1>4, <1>5 DEF AsyncWrite, WriteStates, Quiet
<1>7. Spoiled(<<>>) = <<>>
  <2>1. <<>> \in Seq(PendingWrites) /\ Len(<<>>) = 0
    OBVIOUS
  <2>2. Spoiled(<<>>) \in Seq(PendingWrites) /\ Len(Spoiled(<<>>)) = 0
    BY <2>1, SpoiledType
  <2> QED BY <2>2
<1> QED BY <1>6, <1>7 DEF Written

LEMMA JustWritten ==
  ASSUME QuietInv, Written(Writing)
  PROVE  pend' = <<>> /\ out' = out
BY DEF Written, Writing, QuietInv, NothingFails

-----------------------------------------------------------------------------
(* What stays legal.                                                       *)
LEMMA NotOutIsOnce ==
  ASSUME NEW f, ~Outward(f)
  PROVE  OutwardOnce(f)
BY DEF Outward, Carried, OutwardOnce, CarriedOnce, Occurs, Once

LEMMA StillLegal ==
  ASSUME OutLegal, OutKept, peer' = peer
  PROVE  \A f \in RealFrames : Outward(f)' => LegallySent(f)'
<1>1. ASSUME NEW f \in RealFrames, Outward(f)'
      PROVE  LegallySent(f)'
  <2>1. LegallySent(f) /\ (OutwardOnce(f) => OutwardOnce(f)')
    BY <1>1 DEF OutKept, OutLegal
  <2> QED BY <2>1, Zenon DEF LegallySent
<1> QED BY <1>1

LEMMA AddedLegal ==
  ASSUME OutLegal, NEW g \in RealFrames, OutAdds(g), peer' = peer, ~Outward(g),
         g.kind \in {"Open", "Declare", "Close"}, g.kind \in {"Open", "Close"} => g.tag = 0,
         peer[g.ch] = IF g.kind = "Open" THEN "none" ELSE "open"
  PROVE  \A f \in RealFrames : Outward(f)' => LegallySent(f)'
<1>1. ASSUME NEW f \in RealFrames, Outward(f)', f # g
      PROVE  LegallySent(f)'
  <2>1. LegallySent(f) /\ (OutwardOnce(f) => OutwardOnce(f)')
    BY <1>1 DEF OutAdds, OutLegal
  <2> QED BY <2>1, Zenon DEF LegallySent
<1>2. OutwardOnce(g)'
  BY NotOutIsOnce DEF OutAdds
<1>3. LegallySent(g)'
  BY <1>2, Zenon DEF LegallySent
<1> QED BY <1>1, <1>3

LEMMA StillAnswers ==
  ASSUME InAnswers, InKept, SameReads
  PROVE  InAnswers'
BY DEF InAnswers, InKept, SameReads

LEMMA HandlerQuiet ==
  ASSUME Quiet, Known, QuietInv, HandlerEffect, pend' = <<>>, ~Occurs(Garbage, out'),
         \A f \in RealFrames : Outward(f)' => LegallySent(f)', ChannelsGranted'
  PROVE  QuietInv'
<1>1. Basics /\ HandlerRuns /\ in' = in /\ NothingFails'
  BY DEF Known, HandlerEffect, QuietInv, NothingFails
<1>2. InAnswers'
  BY <1>1, HandlerInKept, HandlerKeepsReads, StillAnswers DEF QuietInv
<1>3. ~Occurs(Write(Garbage), ioq')
  <2>1. Write(Garbage).h # "on_write_frame"
    BY DEF Write
  <2> QED BY <1>1, <2>1, RunTakes DEF QuietInv, OutLegal
<1> QED BY <1>1, <1>2, <1>3 DEF QuietInv, OutLegal

-----------------------------------------------------------------------------
(***************************************************************************)
(* The handlers.                                                           *)
(***************************************************************************)
LEMMA StartOpenQuiet ==
  ASSUME Quiet, Known, CallInv, QuietInv, StartOpenChannel, UNCHANGED <<userVars, brokerVars>>
  PROVE  QuietInv'
<1>0. Basics /\ HandlerEffect /\ ioq # <<>> /\ peer' = peer /\ CoreInv
      /\ OutLegal /\ ChannelsGranted
  BY StartOpenEffect DEF Known, StartOpenChannel, Runs, brokerVars, CallInv, QuietInv
<1>1. PICK id : id = Len(chans) + 1
  OBVIOUS
<1>2. CASE id > MaxChannelId
  <2>1. Written(Writing) /\ chans' = chans
    BY <1>1, <1>2 DEF StartOpenChannel, NextId, OutOfChannels
  <2>2. pend' = <<>> /\ out' = out /\ OutKept
    BY <1>0, <2>1, JustWritten, JustWrittenOutKept
  <2>3. \A f \in RealFrames : Outward(f)' => LegallySent(f)'
    BY <1>0, <2>2, StillLegal
  <2>4. ChannelsGranted'
    BY <1>0, <2>1 DEF ChannelsGranted
  <2> QED BY <1>0, <2>2, <2>3, <2>4, HandlerQuiet DEF OutLegal
<1>3. CASE ~(id > MaxChannelId)
  <2>1. /\ chans' = Append(chans, NewChannel)
        /\ \E w \in BeginWriteFrame(Frame(id, "Open", 0), Writing) : Written(w)
    BY <1>1, <1>3 DEF StartOpenChannel, NextId, OutOfChannels
  <2>2. PICK g : g = Frame(id, "Open", 0)
    OBVIOUS
  <2>3. /\ chans \in Seq(ChannelStates) /\ Len(chans) \in Nat /\ DOMAIN chans = 1 .. Len(chans)
        /\ id \in Ids /\ id \in Nat /\ id \notin DOMAIN chans
    BY <1>0, <1>1, <1>3, CoreTypes, MaxChannelIdAssumption DEF Ids
  <2>4. g \in RealFrames /\ g \in Frames /\ g.ch = id /\ g.kind = "Open" /\ g.tag = 0
    BY <2>2, <2>3 DEF Frame, Frames, RealFrames, Garbage, Kinds, ClientKinds
  <2>5. PICK w \in BeginWriteFrame(g, Writing) : Written(w)
    BY <2>1, <2>2
  <2>6. pend' = <<>> /\ out' = Append(out, g) /\ OutAdds(g)
    BY <1>0, <2>4, <2>5, WholeWrite, HandlerPuts
  <2>7. ~Outward(g) /\ peer[id] = "none"
    BY <1>0, <2>3, <2>4 DEF CoreInv, OutInv, OutwardIsDue, PeerInv
  <2>8. \A f \in RealFrames : Outward(f)' => LegallySent(f)'
    BY <1>0, <2>4, <2>6, <2>7, AddedLegal
  <2>9. ~Occurs(Garbage, out')
    <3>1. out \in Seq(Frames) /\ g # Garbage
      BY <1>0, <2>4, CoreTypes DEF RealFrames
    <3> QED BY <1>0, <2>4, <2>6, <3>1, OccursInAppend DEF OutLegal
  <2>10. ChannelsGranted'
    <3>1. /\ DOMAIN chans' = DOMAIN chans \cup {id}
          /\ \A j \in DOMAIN chans : chans'[j] = chans[j]
          /\ chans'[id] = NewChannel
      BY <1>1, <2>1, <2>3, NewChannelType
    <3> QED BY <1>0, <2>7, <3>1 DEF ChannelsGranted, NewChannel
  <2> QED BY <1>0, <2>6, <2>8, <2>9, <2>10, HandlerQuiet
<1> QED BY <1>2, <1>3

LEMMA BeginWriteQuiet ==
  ASSUME Quiet, Known, CallInv, QuietInv, RunBeginWriteFrame, UNCHANGED <<userVars, brokerVars>>
  PROVE  QuietInv'
<1>0. /\ Basics /\ HandlerEffect /\ ioq # <<>> /\ peer' = peer /\ chans' = chans
      /\ OutLegal /\ ChannelsGranted /\ Head(ioq).h = "begin_write_frame"
  BY BeginWriteEffect DEF Known, RunBeginWriteFrame, Runs, brokerVars, QuietInv
<1>1. PICK g : g = Head(ioq).f
  OBVIOUS
<1>2. g \in Frames /\ Head(ioq) = Write(g) /\ Occurs(Write(g), ioq)
  <2>1. Head(ioq) \in Handlers /\ Occurs(Head(ioq), ioq)
    BY <1>0, CoreTypes DEF Occurs
  <2>2. Head(ioq) \in [h : {"begin_write_frame"}, f : Frames]
    BY <1>0, <2>1 DEF Handlers
  <2> QED BY <1>1, <2>1, <2>2 DEF Write
<1>3. g # Garbage
  BY <1>0, <1>2 DEF OutLegal
<1>4. PICK w \in BeginWriteFrame(g, Writing) : Written(w)
  BY <1>1 DEF RunBeginWriteFrame
<1>5. pend' = <<>> /\ out' = Append(out, g) /\ OutKept
  BY <1>0, <1>2, <1>4, WholeWrite, HandlerPuts
<1>6. ~Occurs(Garbage, out')
  <2>1. out \in Seq(Frames)
    BY <1>0, CoreTypes
  <2> QED BY <1>0, <1>2, <1>3, <1>5, <2>1, OccursInAppend DEF OutLegal
<1>7. \A f \in RealFrames : Outward(f)' => LegallySent(f)'
  BY <1>0, <1>5, StillLegal
<1>8. ChannelsGranted'
  BY <1>0 DEF ChannelsGranted
<1> QED BY <1>0, <1>5, <1>6, <1>7, <1>8, HandlerQuiet

LEMMA OnWriteQuiet ==
  ASSUME Quiet, Known, CallInv, QuietInv, OnWriteFrame, UNCHANGED <<userVars, brokerVars>>
  PROVE  QuietInv'
<1>0. Basics /\ ioq # <<>> /\ peer' = peer /\ OutLegal /\ ChannelsGranted /\ io = "running"
  BY DEF Known, OnWriteFrame, Runs, brokerVars, QuietInv
<1>1. Head(ioq).ok
  BY NoErrors DEF OnWriteFrame, Runs, Completions
<1>2. /\ Written([Writing EXCEPT !.pend = Spoiled(@)])
      /\ UNCHANGED <<io, chans>>
  BY <1>1, NoErrors DEF OnWriteFrame
<1>3. ioq' = Tail(ioq) /\ pend' = Spoiled(pend) /\ out' = out
  BY <1>2 DEF Written, Writing
<1>4. pend \in Seq(PendingWrites) /\ pend = <<>> /\ Len(pend) = 0
  BY <1>0, NoErrors, CoreTypes
<1>5. FramesOf(pend') = FramesOf(pend) /\ pend' = <<>>
  <2>1. Spoiled(pend) \in Seq(PendingWrites) /\ Len(Spoiled(pend)) = 0
    BY <1>4, SpoiledType
  <2> QED BY <1>3, <1>4, <2>1, FramesOfSpoiled
<1>6. OutKept
  BY <1>0, <1>3, <1>5, HandlerOutKept
<1>7. HandlerEffect
  BY <1>0, <1>2, OnWriteEffect DEF Abort
<1>8. \A f \in RealFrames : Outward(f)' => LegallySent(f)'
  BY <1>0, <1>6, StillLegal
<1>9. ChannelsGranted'
  BY <1>0, <1>2 DEF ChannelsGranted
<1> QED BY <1>0, <1>3, <1>5, <1>7, <1>8, <1>9, HandlerQuiet DEF OutLegal

LEMMA OnHeaderQuiet ==
  ASSUME Quiet, Known, CallInv, QuietInv, OnFrameHeaderRead, UNCHANGED <<userVars, brokerVars>>
  PROVE  QuietInv'
<1>0. /\ Basics /\ ioq # <<>> /\ peer' = peer /\ OutLegal /\ ChannelsGranted /\ InAnswers
      /\ io = "running" /\ Head(ioq).h = "on_frame_header_read" /\ Head(ioq).h \in ReadNames
  BY DEF Known, OnFrameHeaderRead, Runs, ReadNames, brokerVars, QuietInv
<1>1. Head(ioq).ok
  BY <1>0, NoErrors DEF Completions
<1>2. PICK f \in Frames : f = Head(ioq).f /\ Occurs(ReadHeader(TRUE, f), ioq)
  BY <1>0, <1>1, ReadHandlerRuns
<1>3. Answers(f)
  BY <1>0, <1>2 DEF InAnswers
<1>4. Written(Writing) /\ UNCHANGED <<io, chans>>
  BY <1>1, <1>2, <1>3 DEF OnFrameHeaderRead, Answers, HasBody
<1>5. pend' = <<>> /\ out' = out /\ OutKept
  BY <1>0, <1>4, JustWritten, JustWrittenOutKept
<1>6. HandlerEffect
  BY <1>0, <1>4, HeaderReadEffect DEF Abort
<1>7. \A g \in RealFrames : Outward(g)' => LegallySent(g)'
  BY <1>0, <1>5, StillLegal
<1>8. ChannelsGranted'
  BY <1>0, <1>4 DEF ChannelsGranted
<1> QED BY <1>0, <1>5, <1>6, <1>7, <1>8, HandlerQuiet DEF OutLegal

(* An answer finds the promise that waits for it, and fulfils it.          *)
LEMMA AnswerFulfils ==
  ASSUME Known, CoreInv, NEW f \in Frames, Inward(f), Answers(f), f.ch \in Live,
         chans[f.ch].opened # "exception"
  PROVE  /\ ProcessFrame(chans[f.ch], f).thrown = "none"
         /\ ProcessFrame(chans[f.ch], f).chan.opened # "exception"
         /\ ProcessFrame(chans[f.ch], f).chan.live
<1> DEFINE c == chans[f.ch]
<1>0. Basics
  BY DEF Known
<1>1. f.ch \in DOMAIN chans /\ c.live /\ c \in ChannelStates
  BY <1>0, CoreTypes DEF Live
<1>2. /\ c.cont = IF c.rpc = "none" THEN "process_open" ELSE "rpc_handler"
      /\ c.opened = "pending" => c.rpc = "none"
  BY <1>1 DEF CoreInv, ChannelInv, Fresh
<1>3. InwardIsDue(f)
  BY DEF CoreInv, InInv, Answers
<1>4. f.kind \in {"OpenOk", "DeclareOk"}
  BY <1>1, <1>3 DEF InwardIsDue, Answers
<1>5. CASE f.kind = "OpenOk"
  <2>1. c.opened = "pending"
    BY <1>3, <1>5 DEF InwardIsDue
  <2>2. ProcessFrame(c, f) = Returns([c EXCEPT !.opened = "value"])
    BY <1>2, <1>5, <2>1 DEF ProcessFrame, ProcessOpen
  <2> QED BY <1>1, <2>2 DEF Returns, ChannelStates
<1>6. CASE f.kind = "DeclareOk"
  <2>1. c.rpc = "pending"
    BY <1>3, <1>6 DEF InwardIsDue
  <2>2. ProcessFrame(c, f) = Returns([c EXCEPT !.rpc = "value", !.got = f.tag])
    BY <1>2, <1>6, <2>1 DEF ProcessFrame, RpcHandler
  <2> DEFINE d == [c EXCEPT !.rpc = "value", !.got = f.tag]
  <2>3. d.opened = c.opened /\ d.live = c.live
    BY <1>1 DEF ChannelStates
  <2> HIDE DEF d
  <2>4. ProcessFrame(c, f).thrown = "none" /\ ProcessFrame(c, f).chan = d
    BY <2>2 DEF Returns, d
  <2> QED BY <1>1, <2>3, <2>4
<1> QED BY <1>4, <1>5, <1>6

LEMMA OnBodyQuiet ==
  ASSUME Quiet, Known, CallInv, QuietInv, OnFrameBodyRead, UNCHANGED <<userVars, brokerVars>>
  PROVE  QuietInv'
<1>0. /\ Basics /\ ioq # <<>> /\ peer' = peer /\ OutLegal /\ ChannelsGranted /\ InAnswers
      /\ io = "running" /\ Head(ioq).h = "on_frame_body_read" /\ Head(ioq).h \in ReadNames
      /\ CoreInv
  BY DEF Known, CallInv, OnFrameBodyRead, Runs, ReadNames, brokerVars, QuietInv
<1>1. Head(ioq).ok
  BY <1>0, NoErrors DEF Completions
<1>2. PICK f \in Frames : f = Head(ioq).f /\ Occurs(ReadBody(TRUE, f), ioq)
  BY <1>0, <1>1, ReadHandlerRuns
<1>3. Inward(f) /\ Answers(f) /\ DispatchFrame(f)
  BY <1>0, <1>1, <1>2 DEF Inward, InAnswers, OnFrameBodyRead
<1>4. f.ch # 0 /\ f.ch \in DOMAIN chans /\ ~(f.ch > Len(chans))
  <2>1. f.ch # 0 /\ f.ch \in DOMAIN chans
    BY <1>0, <1>3 DEF Answers, CoreInv, InInv, InwardIsDue
  <2> QED BY <1>0, <2>1, CoreTypes
<1>5. /\ Written(Writing) /\ io' = io /\ DOMAIN chans' = DOMAIN chans
      /\ \A j \in DOMAIN chans : /\ chans'[j].opened # "exception"
                                 /\ ~chans[j].live => ~chans'[j].live
  <2>1. CASE f.ch \notin Live
    <3>1. Dropped(f, DeadChannelFrame(f, Writing))
      BY <1>3, <1>4, <2>1 DEF DispatchFrame
    <3>2. Written(Writing) /\ io' = io /\ chans' = chans
      BY <1>3, <3>1 DEF Dropped, DeadChannelFrame, Answers, ReadNext
    <3> QED BY <1>0, <3>2 DEF ChannelsGranted
  <2>2. CASE f.ch \in Live
    <3> DEFINE d == ProcessFrame(chans[f.ch], f).chan
    <3>1. d.opened # "exception" /\ d.live /\ ProcessFrame(chans[f.ch], f).thrown = "none"
      BY <1>0, <1>3, <1>4, <2>2, AnswerFulfils DEF ChannelsGranted
    <3>2. /\ chans' = [chans EXCEPT ![f.ch] = d]
          /\ Written(Writing) /\ ReadNext
      BY <1>3, <1>4, <2>2, <3>1 DEF DispatchFrame
    <3>3. /\ DOMAIN chans' = DOMAIN chans /\ chans'[f.ch] = d
          /\ \A j \in DOMAIN chans \ {f.ch} : chans'[j] = chans[j]
      BY <1>0, <1>4, <3>2, CoreTypes
    <3>4. chans[f.ch].live
      BY <2>2 DEF Live
    <3> QED BY <1>0, <3>1, <3>2, <3>3, <3>4 DEF ReadNext, ChannelsGranted
  <2> QED BY <2>1, <2>2
<1>6. pend' = <<>> /\ out' = out /\ OutKept
  BY <1>0, <1>5, JustWritten, JustWrittenOutKept
<1>7. HandlerEffect
  BY <1>0, <1>5, BodyReadEffect DEF Abort
<1>8. \A g \in RealFrames : Outward(g)' => LegallySent(g)'
  BY <1>0, <1>6, StillLegal
<1>9. ChannelsGranted'
  BY <1>0, <1>5 DEF ChannelsGranted
<1> QED BY <1>0, <1>6, <1>7, <1>8, <1>9, HandlerQuiet DEF OutLegal

LEMMA IoQuiet ==
  ASSUME Quiet, Known, CallInv, QuietInv, IoStep
  PROVE  QuietInv'
<1>1. IoThread /\ UNCHANGED <<userVars, brokerVars>>
  BY DEF IoStep
<1>2. CASE RunReturns
  <2>1. io' = "stopped" /\ UNCHANGED <<ioq, chans, pend, out, in, sock, peer>>
    BY <1>1, <1>2 DEF RunReturns, brokerVars
  <2>2. OutKept /\ InKept /\ SameReads
    BY <2>1, SameOutKept, PostedInKept DEF Known, SameReads
  <2>3. OutLegal'
    BY <2>1, <2>2, StillLegal DEF QuietInv, OutLegal
  <2>4. NothingFails' /\ ChannelsGranted'
    BY <2>1 DEF QuietInv, NothingFails, ChannelsGranted
  <2> QED BY <2>2, <2>3, <2>4, StillAnswers DEF QuietInv
<1> QED BY <1>1, <1>2, StartOpenQuiet, BeginWriteQuiet, OnWriteQuiet, OnHeaderQuiet, OnBodyQuiet
        DEF IoThread

-----------------------------------------------------------------------------
(***************************************************************************)
(* A step that posts a handler and writes nothing, with what it does to    *)
(* the frames for the broker still to be told.                             *)
(***************************************************************************)
LEMMA PostsQuiet ==
  ASSUME Known, QuietInv, NEW x \in Handlers, x # Write(Garbage), ioq' = Append(ioq, x),
         UNCHANGED <<io, sock, pend, out>>, ChannelsGranted', InAnswers',
         \A f \in RealFrames : Outward(f)' => LegallySent(f)'
  PROVE  QuietInv'
<1>1. ioq \in Seq(Handlers)
  BY CoreTypes DEF Known
<1>2. Occurs(Write(Garbage), ioq') => Occurs(Write(Garbage), ioq)
  BY <1>1, OccursInAppend
<1>3. OutLegal'
  BY <1>2 DEF QuietInv, OutLegal
<1> QED BY <1>3 DEF QuietInv, NothingFails

(* Handlers that are not reads leave the reads alone.                      *)
LEMMA PostedAnswers ==
  ASSUME Known, QuietInv, NEW x \in Handlers, x.h \notin ReadNames, ioq' = Append(ioq, x),
         in' = in
  PROVE  InAnswers'
<1>1. ioq \in Seq(Handlers) /\ Basics
  BY CoreTypes DEF Known
<1>2. ASSUME NEW f \in Frames
      PROVE  x # ReadHeader(TRUE, f) /\ x # ReadBody(TRUE, f)
  BY DEF ReadHeader, ReadBody, ReadNames
<1>3. ASSUME NEW f \in Frames
      PROVE  /\ Occurs(ReadHeader(TRUE, f), ioq') => Occurs(ReadHeader(TRUE, f), ioq)
             /\ Occurs(ReadBody(TRUE, f), ioq') => Occurs(ReadBody(TRUE, f), ioq)
  BY <1>1, <1>2, OccursInAppend
<1>4. SameReads
  BY <1>3 DEF SameReads
<1>5. InKept
  <2>1. \A f : x # ReadBody(TRUE, f)
    BY DEF ReadBody, ReadNames
  <2> QED BY <1>1, <2>1, PostedInKept
<1> QED BY <1>4, <1>5, StillAnswers DEF QuietInv

LEMMA ReactorQuiet ==
  ASSUME Quiet, Known, CallInv, QuietInv, ReactorStep
  PROVE  QuietInv'
<1>0. /\ Basics /\ OutLegal /\ ChannelsGranted /\ InAnswers /\ sock = "up" /\ pend = <<>>
      /\ ioq \in Seq(Handlers) /\ in \in Seq(Frames)
      /\ UNCHANGED <<chans, peer>>
  BY NoErrors, CoreTypes
     DEF Known, QuietInv, ReactorStep, Reactor, HeaderArrives, BodyArrives, ReadFails,
         WriteCompletes, WriteFails, brokerVars
<1>1. ChannelsGranted'
  BY <1>0 DEF ChannelsGranted
<1>2. ASSUME in # <<>>
      PROVE  \E g \in Frames : g = Head(in) /\ Inward(g) /\ Answers(g)
  <2>1. PICK g \in Frames : g = Head(in) /\ Occurs(g, in)
    BY <1>0, <1>2, OccursInTail
  <2> QED BY <1>0, <2>1 DEF Inward, InAnswers
<1>3. CASE HeaderArrives
  <2>1. PICK g \in Frames : g = Head(in) /\ Inward(g) /\ Answers(g)
    BY <1>2, <1>3 DEF HeaderArrives
  <2>2. /\ ioq' = Append(ioq, ReadHeader(TRUE, g)) /\ UNCHANGED <<io, sock, pend, out>>
    BY <1>3, <2>1 DEF HeaderArrives
  <2>3. /\ ReadHeader(TRUE, g) \in Handlers /\ ReadHeader(TRUE, g).h # "begin_write_frame"
        /\ ReadHeader(TRUE, g) # Write(Garbage)
    BY <2>1, HandlerTypes DEF ReadHeader, Write
  <2>4. OutKept
    BY <1>0, <2>2, <2>3, PostedOutKept
  <2>5. ASSUME NEW f \in Frames, Occurs(ReadHeader(TRUE, f), ioq')
        PROVE  f = g \/ Occurs(ReadHeader(TRUE, f), ioq)
    <3>1. ReadHeader(TRUE, f) = ReadHeader(TRUE, g) \/ Occurs(ReadHeader(TRUE, f), ioq)
      BY <1>0, <2>2, <2>3, <2>5, OccursInAppend
    <3> QED BY <3>1 DEF ReadHeader
  <2>6. InKept
    BY <1>0, <1>3, HeaderArrivesInKept
  <2>7. InAnswers'
    BY <1>0, <2>1, <2>5, <2>6 DEF InAnswers, InKept
  <2>8. \A f \in RealFrames : Outward(f)' => LegallySent(f)'
    BY <1>0, <2>4, StillLegal
  <2> QED BY <1>1, <2>2, <2>3, <2>7, <2>8, PostsQuiet
<1>4. CASE BodyArrives
  <2>1. PICK g \in Frames : g = Head(in) /\ Inward(g) /\ Answers(g)
    BY <1>2, <1>4 DEF BodyArrives
  <2>2. /\ ioq' = Append(ioq, ReadBody(TRUE, g)) /\ UNCHANGED <<io, sock, pend, out>>
    BY <1>4, <2>1 DEF BodyArrives
  <2>3. /\ ReadBody(TRUE, g) \in Handlers /\ ReadBody(TRUE, g).h # "begin_write_frame"
        /\ ReadBody(TRUE, g) # Write(Garbage)
    BY <2>1, HandlerTypes DEF ReadBody, Write
  <2>4. OutKept
    BY <1>0, <2>2, <2>3, PostedOutKept
  <2>5. ASSUME NEW f \in Frames, Occurs(ReadHeader(TRUE, f), ioq')
        PROVE  Occurs(ReadHeader(TRUE, f), ioq)
    <3>1. ReadHeader(TRUE, f) # ReadBody(TRUE, g)
      BY DEF ReadHeader, ReadBody
    <3> QED BY <1>0, <2>2, <2>3, <2>5, <3>1, OccursInAppend
  <2>6. InKept
    BY <1>0, <1>4, BodyArrivesInKept
  <2>7. InAnswers'
    BY <1>0, <2>5, <2>6 DEF InAnswers, InKept
  <2>8. \A f \in RealFrames : Outward(f)' => LegallySent(f)'
    BY <1>0, <2>4, StillLegal
  <2> QED BY <1>1, <2>2, <2>3, <2>7, <2>8, PostsQuiet
<1>5. ~ReadFails /\ ~WriteCompletes /\ ~WriteFails
  BY <1>0 DEF ReadFails, WriteCompletes, WriteFails
<1> QED BY <1>3, <1>4, <1>5 DEF ReactorStep, Reactor

-----------------------------------------------------------------------------
(***************************************************************************)
(* The threads.  A step that puts no frame under way:                      *)
(***************************************************************************)
LEMMA StaysQuiet ==
  ASSUME Known, QuietInv, UNCHANGED <<ioq, io, sock, pend, out, in, peer>>, ChannelsGranted'
  PROVE  QuietInv'
<1>1. OutKept /\ InKept /\ SameReads
  BY SameOutKept, PostedInKept DEF Known, SameReads
<1>2. OutLegal'
  BY <1>1, StillLegal DEF QuietInv, OutLegal
<1>3. InAnswers'
  BY <1>1, StillAnswers DEF QuietInv
<1> QED BY <1>2, <1>3 DEF QuietInv, NothingFails

(* A request is posted that the broker may receive.                        *)
LEMMA RequestQuiet ==
  ASSUME Known, QuietInv, NEW g \in RealFrames, ~Outward(g), ioq' = Append(ioq, Write(g)),
         g.kind \in {"Open", "Declare", "Close"}, g.kind \in {"Open", "Close"} => g.tag = 0,
         peer[g.ch] = IF g.kind = "Open" THEN "none" ELSE "open",
         UNCHANGED <<io, sock, pend, out, in, peer>>, ChannelsGranted'
  PROVE  QuietInv'
<1>1. Basics /\ OutLegal
  BY DEF Known, QuietInv
<1>2. g \in Frames /\ g # Garbage /\ Write(g) \in Handlers /\ Write(g) # Write(Garbage)
  <2>1. g \in Frames /\ g # Garbage
    BY DEF RealFrames
  <2>2. Write(g) # Write(Garbage)
    BY <2>1 DEF Write
  <2> QED BY <2>1, <2>2, HandlerTypes, Zenon
<1>3. Write(g).h \notin ReadNames
  BY DEF Write, ReadNames
<1>4. OutAdds(g)
  BY <1>1, <1>2, PostedOutKept
<1>5. \A f \in RealFrames : Outward(f)' => LegallySent(f)'
  BY <1>1, <1>4, AddedLegal
<1>6. InAnswers'
  BY <1>2, <1>3, PostedAnswers
<1> QED BY <1>2, <1>5, <1>6, PostsQuiet

LEMMA OpenChannelQuiet ==
  ASSUME Known, QuietInv, NEW u \in Users, OpenChannel(u)
  PROVE  QuietInv'
<1>0. Basics /\ OutLegal /\ ChannelsGranted
  BY DEF Known, QuietInv
<1>1. /\ ioq' = Append(ioq, StartOpen(u))
      /\ UNCHANGED <<io, sock, chans, pend, out, in, peer>>
  BY DEF OpenChannel, BeginOpenChannel, brokerVars
<1>2. PICK x : x = StartOpen(u)
  OBVIOUS
<1>3. x \in Handlers /\ x.h = "start_open_channel" /\ x # Write(Garbage)
  BY <1>2 DEF StartOpen, Handlers, Write
<1>4. OutKept
  BY <1>0, <1>1, <1>2, <1>3, PostedOutKept
<1>5. \A f \in RealFrames : Outward(f)' => LegallySent(f)'
  BY <1>0, <1>1, <1>4, StillLegal
<1>6. InAnswers'
  <2>1. x.h \notin ReadNames
    BY <1>3 DEF ReadNames
  <2> QED BY <1>1, <1>2, <1>3, <2>1, PostedAnswers
<1>7. ChannelsGranted'
  BY <1>0, <1>1 DEF ChannelsGranted
<1> QED BY <1>1, <1>2, <1>3, <1>5, <1>6, <1>7, PostsQuiet

LEMMA BeginRpcQuiet ==
  ASSUME Known, CallInv, QuietInv, NEW u \in Users, BeginRpc(u)
  PROVE  QuietInv'
<1>0. Basics /\ CoreInv /\ ChannelsGranted
  BY DEF Known, CallInv, QuietInv
<1>1. PICK i : i = own[u]
  OBVIOUS
<1>2. /\ chans' = [chans EXCEPT ![i] = ArmRpc(chans[i])]
      /\ UNCHANGED <<ioq, io, sock, pend, out, in, peer>> /\ pc[u] = "ready"
  BY <1>1 DEF BeginRpc, ChannelClosedFutureReady, At, brokerVars
<1>3. i \in DOMAIN chans /\ chans[i] \in ChannelStates
  BY <1>0, <1>1, <1>2, ReadyChannel
<1>4. PICK c \in ChannelStates : c = chans[i]
  BY <1>3
<1>5. ArmRpc(c).opened = c.opened /\ ArmRpc(c).live = c.live
  BY DEF ArmRpc, ChannelStates
<1>6. /\ DOMAIN chans' = DOMAIN chans
      /\ \A j \in DOMAIN chans : /\ chans'[j].opened = chans[j].opened
                                 /\ chans'[j].live = chans[j].live
  BY <1>0, <1>2, <1>3, <1>4, <1>5, CoreTypes
<1>7. ChannelsGranted'
  BY <1>0, <1>2, <1>6 DEF ChannelsGranted
<1> QED BY <1>2, <1>7, StaysQuiet

(* The channel of a thread between two calls, or in one, is open.          *)
LEMMA HeldIsOpen ==
  ASSUME Known, CallInv, QuietInv, NEW u \in Users, pc[u] \in {"ready", "posting", "awaitRpc"}
  PROVE  LET i == own[u] IN
         /\ i \in DOMAIN chans /\ i \in Nat /\ Holds(u) = i /\ i # 0 /\ peer[i] = "open"
         /\ chans[i] \in ChannelStates /\ chans[i].live /\ chans[i].opened = "value"
<1> DEFINE i == own[u]
<1>0. Basics /\ CoreInv /\ ChannelsGranted
  BY DEF Known, CallInv, QuietInv
<1>1. i # 0 /\ Holds(u) = i
  BY <1>0 DEF Basics, ChannelsHeld, Holds
<1>2. i \in DOMAIN chans /\ i \in Ids /\ i \in Nat /\ chans[i] \in ChannelStates
  BY <1>0, <1>1, CoreTypes DEF Ids
<1>3. chans[i].live /\ chans[i].opened # "pending"
  BY <1>0, <1>1 DEF CoreInv, UserInv, UserDue
<1>4. peer[i] = "open"
  BY <1>0, <1>2, <1>3 DEF CoreInv, PeerInv, Fresh, ChannelsGranted
<1>5. chans[i].opened = "value"
  BY <1>0, <1>2, <1>3 DEF ChannelsGranted, ChannelStates, PromiseStates
<1> QED BY <1>1, <1>2, <1>3, <1>4, <1>5

LEMMA PostRpcQuiet ==
  ASSUME Known, CallInv, QuietInv, NEW u \in Users, PostRpc(u)
  PROVE  QuietInv'
<1>0. Basics /\ CoreInv /\ ChannelsGranted
  BY DEF Known, CallInv, QuietInv
<1>1. PICK i : i = own[u]
  OBVIOUS
<1>2. /\ pc[u] = "posting" /\ UNCHANGED <<io, sock, chans, pend, out, in, peer>>
      /\ ioq' = Append(ioq, Write(Frame(i, "Declare", chans[i].calls)))
  BY <1>1 DEF PostRpc, BeginWriteMethod, At, Chan, brokerVars
<1>3. /\ i \in DOMAIN chans /\ i \in Nat /\ Holds(u) = i /\ i # 0 /\ peer[i] = "open"
      /\ chans[i] \in ChannelStates
  BY <1>1, <1>2, HeldIsOpen
<1>4. PICK g : g = Frame(i, "Declare", chans[i].calls)
  OBVIOUS
<1>5. chans[i].calls \in Nat
  BY <1>3 DEF ChannelStates
<1>6. g \in RealFrames /\ g.ch = i /\ g.kind = "Declare" /\ g.tag = chans[i].calls
  BY <1>3, <1>4, <1>5 DEF Frame, Frames, RealFrames, Garbage, Kinds, ClientKinds
<1>7. ~Outward(g)
  <2>1. UserDue(u)
    BY <1>0, <1>3 DEF CoreInv, UserInv
  <2> QED BY <1>2, <1>3, <1>6, <2>1 DEF UserDue
<1>8. ChannelsGranted'
  BY <1>0, <1>2 DEF ChannelsGranted
<1>9. ioq' = Append(ioq, Write(g))
  BY <1>2, <1>4
<1> QED BY <1>2, <1>3, <1>6, <1>7, <1>8, <1>9, RequestQuiet

LEMMA DropChannelQuiet ==
  ASSUME Known, CallInv, QuietInv, NEW u \in Users, DropChannel(u)
  PROVE  QuietInv'
<1>0. Basics /\ CoreInv /\ ChannelsGranted
  BY DEF Known, CallInv, QuietInv
<1>1. PICK i : i = own[u]
  OBVIOUS
<1>2. /\ pc[u] = "ready" /\ UNCHANGED <<io, sock, pend, out, in, peer>>
      /\ chans' = [chans EXCEPT ![i] = Destroyed(chans[i])]
      /\ ioq' = Append(ioq, Write(Frame(i, "Close", 0)))
  BY <1>1 DEF DropChannel, BeginWriteMethod, At, brokerVars
<1>3. /\ i \in DOMAIN chans /\ i \in Nat /\ i # 0 /\ peer[i] = "open"
      /\ chans[i] \in ChannelStates /\ chans[i].live
  BY <1>1, <1>2, HeldIsOpen
<1>4. PICK g : g = Frame(i, "Close", 0)
  OBVIOUS
<1>5. g \in RealFrames /\ g.ch = i /\ g.kind = "Close" /\ g.tag = 0
  BY <1>3, <1>4 DEF Frame, Frames, RealFrames, Garbage, Kinds, ClientKinds
<1>6. ~Outward(g)
  BY <1>0, <1>3, <1>5 DEF CoreInv, OutInv, OutwardIsDue
<1>7. ChannelsGranted'
  <2>1. PICK c \in ChannelStates : c = chans[i]
    BY <1>3
  <2>2. Destroyed(c).opened = c.opened /\ Destroyed(c).live = FALSE
    BY DEF Destroyed, ChannelStates
  <2>3. /\ DOMAIN chans' = DOMAIN chans
        /\ \A j \in DOMAIN chans : /\ chans'[j].opened = chans[j].opened
                                   /\ ~chans[j].live => ~chans'[j].live
    BY <1>0, <1>2, <1>3, <2>1, <2>2, CoreTypes
  <2> QED BY <1>0, <1>2, <2>3 DEF ChannelsGranted
<1>8. ioq' = Append(ioq, Write(g))
  BY <1>2, <1>4
<1> QED BY <1>2, <1>3, <1>5, <1>6, <1>7, <1>8, RequestQuiet

LEMMA ApplicationQuiet ==
  ASSUME Known, CallInv, QuietInv, NEW u \in Users, Application(u)
  PROVE  QuietInv'
<1>1. CASE GetChannel(u) \/ OpenReturns(u) \/ RpcReturns(u)
  <2>1. UNCHANGED <<ioq, io, sock, chans, pend, out, in, peer>>
    BY <1>1 DEF GetChannel, OpenReturns, RpcReturns, mgrVars, brokerVars
  <2>2. ChannelsGranted'
    BY <2>1 DEF QuietInv, ChannelsGranted
  <2> QED BY <2>1, <2>2, StaysQuiet
<1> QED BY <1>1, OpenChannelQuiet, BeginRpcQuiet, PostRpcQuiet, DropChannelQuiet DEF Application

-----------------------------------------------------------------------------
(***************************************************************************)
(* The broker takes a request and answers it.  The frames that are still   *)
(* on their way stay legal: the channel changes for the one request only.  *)
(***************************************************************************)
LEMMA AnswerQuiet ==
  ASSUME Known, QuietInv, NEW f \in RealFrames, Reads(f), out # <<>>, out' = Tail(out),
         UNCHANGED <<io, sock>>, NEW h \in Frames, InAdds(h), Answers(h),
         \A g \in RealFrames : Outward(g) /\ g # f => peer'[g.ch] = peer[g.ch],
         ChannelsGranted'
  PROVE  QuietInv'
<1>0. Basics /\ OutLegal /\ InAnswers /\ OutTakes(f) /\ Outward(f) /\ UNCHANGED <<ioq, pend>>
  BY DEF Known, QuietInv, Reads
<1>1. ASSUME NEW g \in RealFrames, Outward(g)'
      PROVE  LegallySent(g)'
  <2>1. OutKept /\ Outward(g) /\ LegallySent(g) /\ (OutwardOnce(g) => OutwardOnce(g)')
    BY <1>0, <1>1 DEF OutTakes, OutKept, OutLegal
  <2>2. g # f
    <3>1. ASSUME g = f
          PROVE  FALSE
      <4>1. OutwardOnce(f)
        BY <2>1, <3>1 DEF LegallySent
      <4> QED BY <1>0, <1>1, <3>1, <4>1 DEF OutTakes
    <3> QED BY <3>1
  <2>3. peer'[g.ch] = peer[g.ch]
    BY <2>1, <2>2
  <2> QED BY <2>1, <2>3, Zenon DEF LegallySent
<1>2. ~Occurs(Garbage, out') /\ ~Occurs(Write(Garbage), ioq')
  <2>1. out \in Seq(Frames)
    BY <1>0, CoreTypes
  <2> QED BY <1>0, <2>1, OccursInTail DEF OutLegal
<1>3. InAnswers'
  BY <1>0 DEF InAnswers, InAdds
<1>4. NothingFails'
  BY <1>0 DEF QuietInv, NothingFails
<1> QED BY <1>1, <1>2, <1>3, <1>4 DEF QuietInv, OutLegal

LEMMA BrokerOpensQuiet ==
  ASSUME Quiet, Known, CallInv, QuietInv, BrokerOpens
  PROVE  QuietInv'
<1>0. Basics /\ CoreInv /\ OutLegal /\ ChannelsGranted
  BY DEF Known, CallInv, QuietInv
<1>1. PICK f \in RealFrames :
        /\ Reads(f) /\ f.kind = "Open" /\ OutwardIsDue(f)
        /\ f.ch \in DOMAIN chans /\ f.ch \in Ids /\ f.ch # 0
        /\ chans[f.ch] \in ChannelStates /\ f.ch \in Nat
  BY <1>0, ReceivesReads DEF BrokerOpens, ClientKinds
<1>2. PICK i : i = f.ch
  OBVIOUS
<1>3. /\ i = Request.ch /\ i \in Ids /\ i # 0 /\ i \in Nat
      /\ UNCHANGED <<ioq, chans, io, sock>> /\ out # <<>> /\ out' = Tail(out)
      /\ Sends(i, "OpenOk", 0) /\ peer' = [peer EXCEPT ![i] = "open"]
  BY <1>1, <1>2 DEF Reads, BrokerOpens, Receives, Peer, Quiet
<1>4. PICK h \in Frames : InAdds(h) /\ h.ch = i /\ h.kind = "OpenOk"
  BY <1>0, <1>3, SentFrame DEF BrokerKinds
<1>5. peer'[i] = "open" /\ \A j \in Ids \ {i} : peer'[j] = peer[j]
  BY <1>0, <1>3, CoreTypes
<1>6. ASSUME NEW g \in RealFrames, Outward(g), g # f
      PROVE  peer'[g.ch] = peer[g.ch]
  <2>1. LegallySent(g) /\ LegallySent(f) /\ g.ch \in Ids
    BY <1>0, <1>1, <1>6, CoreTypes DEF OutLegal, Reads, CoreInv, OutInv, OutwardIsDue
  <2>2. g.ch = i => g.kind = "Open" /\ g.tag = 0
    BY <1>1, <1>2, <2>1 DEF LegallySent
  <2>3. f.tag = 0 /\ f.kind = "Open" /\ f.ch = i
    BY <1>1, <1>2, <2>1 DEF LegallySent
  <2>4. g.ch # i
    BY <1>6, <2>2, <2>3 DEF RealFrames, Frames
  <2> QED BY <1>5, <2>1, <2>4
<1>7. ChannelsGranted'
  <2>1. \A j \in Ids : peer'[j] \in {"none", "open", "closed"}
    BY <1>0, <1>5 DEF ChannelsGranted
  <2>2. \A j \in DOMAIN chans : peer'[j] = "closed" => peer[j] = "closed"
    BY <1>0, <1>5, CoreTypes
  <2> QED BY <1>0, <1>3, <2>1, <2>2 DEF ChannelsGranted
<1> QED BY <1>1, <1>3, <1>4, <1>6, <1>7, AnswerQuiet DEF Answers

LEMMA BrokerDeclaresQuiet ==
  ASSUME Quiet, Known, CallInv, QuietInv, BrokerDeclares
  PROVE  QuietInv'
<1>0. Basics /\ CoreInv /\ OutLegal /\ ChannelsGranted
  BY DEF Known, CallInv, QuietInv
<1>1. PICK f \in RealFrames :
        /\ Reads(f) /\ f.kind = "Declare" /\ OutwardIsDue(f)
        /\ f.ch \in DOMAIN chans /\ f.ch \in Ids /\ f.ch # 0
        /\ chans[f.ch] \in ChannelStates /\ f.ch \in Nat
  BY <1>0, ReceivesReads DEF BrokerDeclares, ClientKinds
<1>2. f = Request /\ peer[f.ch] = "open"
  BY <1>0, <1>1 DEF Reads, OutLegal, LegallySent
<1>3. /\ UNCHANGED <<ioq, chans, io, sock, peer>> /\ out # <<>> /\ out' = Tail(out)
      /\ Sends(f.ch, "DeclareOk", f.tag)
  BY <1>1, <1>2 DEF Reads, BrokerDeclares, Receives, Quiet
<1>4. f.tag \in Nat
  BY DEF RealFrames, Frames
<1>5. PICK h \in Frames : InAdds(h) /\ h.ch = f.ch /\ h.kind = "DeclareOk"
  BY <1>0, <1>1, <1>3, <1>4, SentFrame DEF BrokerKinds
<1>6. ChannelsGranted'
  BY <1>0, <1>3 DEF ChannelsGranted
<1> QED BY <1>1, <1>3, <1>5, <1>6, AnswerQuiet DEF Answers

LEMMA BrokerClosesQuiet ==
  ASSUME Quiet, Known, CallInv, QuietInv, BrokerCloses
  PROVE  QuietInv'
<1>0. Basics /\ CoreInv /\ OutLegal /\ ChannelsGranted
  BY DEF Known, CallInv, QuietInv
<1>1. PICK f \in RealFrames :
        /\ Reads(f) /\ f.kind = "Close" /\ OutwardIsDue(f)
        /\ f.ch \in DOMAIN chans /\ f.ch \in Ids /\ f.ch # 0
        /\ chans[f.ch] \in ChannelStates /\ f.ch \in Nat
  BY <1>0, ReceivesReads DEF BrokerCloses, ClientKinds
<1>2. PICK i : i = f.ch
  OBVIOUS
<1>3. LegallySent(f) /\ f.tag = 0 /\ peer[i] = "open" /\ ~chans[i].live
  BY <1>0, <1>1, <1>2 DEF Reads, OutLegal, LegallySent, OutwardIsDue
<1>4. /\ i = Request.ch /\ i \in Ids /\ i # 0 /\ i \in Nat
      /\ UNCHANGED <<ioq, chans, io, sock>> /\ out # <<>> /\ out' = Tail(out)
      /\ Sends(i, "CloseOk", 0) /\ peer' = [peer EXCEPT ![i] = "closed"]
  BY <1>1, <1>2, <1>3 DEF Reads, BrokerCloses, Receives, Peer
<1>5. PICK h \in Frames : InAdds(h) /\ h.ch = i /\ h.kind = "CloseOk"
  BY <1>0, <1>4, SentFrame DEF BrokerKinds
<1>6. peer'[i] = "closed" /\ \A j \in Ids \ {i} : peer'[j] = peer[j]
  BY <1>0, <1>4, CoreTypes
<1>7. ASSUME NEW g \in RealFrames, Outward(g), g # f
      PROVE  peer'[g.ch] = peer[g.ch]
  <2>1. LegallySent(g) /\ OutwardIsDue(g) /\ g.ch \in Ids /\ g.ch \in DOMAIN chans
    BY <1>0, <1>7, CoreTypes DEF OutLegal, CoreInv, OutInv, OutwardIsDue
  <2>2. ASSUME g.ch = i
        PROVE  FALSE
    <3>1. CASE g.kind = "Open"
      BY <1>3, <2>1, <2>2, <3>1 DEF LegallySent
    <3>2. CASE g.kind = "Close"
      BY <1>1, <1>2, <1>3, <1>7, <2>1, <2>2, <3>2 DEF LegallySent, RealFrames, Frames
    <3>3. CASE g.kind = "Declare"
      <4>1. chans[i].rpc = "pending"
        BY <1>3, <2>1, <2>2, <3>3 DEF OutwardIsDue
      <4> QED BY <1>0, <1>1, <1>2, <1>3, <4>1 DEF CoreInv, ChannelInv
    <3> QED BY <2>1, <3>1, <3>2, <3>3 DEF LegallySent
  <2> QED BY <1>6, <2>1, <2>2
<1>8. ChannelsGranted'
  <2>1. \A j \in Ids : peer'[j] \in {"none", "open", "closed"}
    BY <1>0, <1>6 DEF ChannelsGranted
  <2>2. \A j \in DOMAIN chans : peer'[j] = "closed" => peer[j] = "closed" \/ j = i
    BY <1>0, <1>6, CoreTypes
  <2> QED BY <1>0, <1>3, <1>4, <2>1, <2>2 DEF ChannelsGranted
<1> QED BY <1>1, <1>4, <1>5, <1>7, <1>8, AnswerQuiet DEF Answers

(* What the broker reads is legal.                                         *)
LEMMA ReadsLegal ==
  ASSUME Known, QuietInv, out # <<>>
  PROVE  Legal(Request) /\ Request.kind # "CloseOk"
<1>0. out \in Seq(Frames) /\ OutLegal
  BY CoreTypes DEF Known, QuietInv
<1>1. PICK f \in Frames : f = Request /\ Occurs(f, out)
  <2>1. Head(out) \in Frames /\ Occurs(Head(out), out)
    BY <1>0, OccursInTail
  <2> QED BY <2>1 DEF Request
<1>2. f \in RealFrames /\ Outward(f)
  BY <1>0, <1>1 DEF OutLegal, RealFrames, Outward, Carried
<1>3. LegallySent(f)
  BY <1>0, <1>2 DEF OutLegal
<1>4. Legal(f) /\ f.kind # "CloseOk"
  <2>1. CASE f.kind = "Open"
    BY <1>3, <2>1 DEF LegallySent, Legal
  <2>2. CASE f.kind \in {"Declare", "Close"}
    BY <1>3, <2>2 DEF LegallySent, Legal
  <2> QED BY <1>3, <2>1, <2>2 DEF LegallySent
<1> QED BY <1>1, <1>4

LEMMA BrokerQuiet ==
  ASSUME Quiet, Known, CallInv, QuietInv, Broker
  PROVE  QuietInv'
<1>1. ~ProtocolError /\ ~BrokerIsClosed
  BY ReadsLegal DEF ProtocolError, BrokerIsClosed, Receives
<1> QED BY <1>1, BrokerOpensQuiet, BrokerDeclaresQuiet, BrokerClosesQuiet DEF Broker

-----------------------------------------------------------------------------
(***************************************************************************)
(* The invariant.                                                          *)
(***************************************************************************)
LEMMA QuietInit ==
  ASSUME Init
  PROVE  QuietInv
<1>1. /\ ioq = <<>> /\ pend = <<>> /\ out = <<>> /\ in = <<>> /\ chans = <<>>
      /\ io = "running" /\ sock = "up" /\ \A i \in Ids : peer[i] = "none"
  BY DEF Init, MgrInit
<1>2. ASSUME NEW x
      PROVE  ~Occurs(x, ioq) /\ ~Occurs(x, out) /\ ~Occurs(x, in) /\ ~Occurs(x, FramesOf(pend))
  <2>1. DOMAIN <<>> = {}
    OBVIOUS
  <2> QED BY <1>1, <2>1 DEF Occurs, FramesOf
<1>3. OutLegal /\ InAnswers
  BY <1>2 DEF OutLegal, Outward, Carried, InAnswers, Inward
<1>4. NothingFails /\ ChannelsGranted
  BY <1>1 DEF NothingFails, ChannelsGranted
<1> QED BY <1>3, <1>4 DEF QuietInv

LEMMA QuietStep ==
  ASSUME Quiet, Known, CallInv, QuietInv, [Next]_vars
  PROVE  QuietInv'
<1>1. CASE UNCHANGED vars
  <2>1. UNCHANGED <<ioq, io, sock, chans, pend, out, in, peer>>
    BY <1>1 DEF vars, mgrVars, brokerVars
  <2>2. ChannelsGranted'
    BY <2>1 DEF QuietInv, ChannelsGranted
  <2> QED BY <2>1, <2>2, StaysQuiet
<1>2. ~Outside
  BY DEF Outside, BrokerSpeaks, SocketBreaks, Quiet
<1>3. ASSUME NEW u \in Users, Application(u)
      PROVE  QuietInv'
  BY <1>3, ApplicationQuiet
<1> QED BY <1>1, <1>2, <1>3, IoQuiet, ReactorQuiet, BrokerQuiet DEF Next

(* All that holds of a quiet connection.                                   *)
LEMMA QuietAlways ==
  ASSUME Quiet
  PROVE  Spec => [](Known /\ CallInv /\ QuietInv)
<1>1. NoStrayMethods
  BY DEF Quiet, NoStrayMethods
<1>2. Init => Known /\ CallInv /\ QuietInv
  BY KnownInit, CallInvInit, QuietInit
<1>3. Known /\ CallInv /\ QuietInv /\ [Next]_vars => (Known /\ CallInv /\ QuietInv)'
  BY <1>1, KnownStep, CallInvStep, QuietStep
<1> QED BY <1>2, <1>3, PTL DEF Spec

(***************************************************************************)
(* As long as nothing fails and the broker only answers, no exception      *)
(* leaves io_service::run: every answer dispatch_frame hands to            *)
(* process_frame meets the promise it fulfils, or a channel that is gone.  *)
(***************************************************************************)
THEOREM QuietProcessLives ==
  ASSUME Quiet
  PROVE  Spec => []NoAbort
<1>1. QuietInv => NoAbort
  BY DEF QuietInv, NothingFails, NoAbort
<1> QED BY <1>1, QuietAlways, PTL

(***************************************************************************)
(* Then every frame that begin_write_frame hands to the socket is legal    *)
(* when the broker reads it: channel.open comes first and once, requests   *)
(* reach an open channel, and nothing follows channel.close.               *)
(***************************************************************************)
THEOREM QuietClientIsLegal ==
  ASSUME Quiet
  PROVE  Spec => []LegalOnWire
<1>1. Known /\ QuietInv => LegalOnWire
  BY ReadsLegal DEF LegalOnWire
<1> QED BY <1>1, QuietAlways, PTL

(***************************************************************************)
(* Then open_channel, which does not look at what wait_for_any waited for, *)
(* returns only channels the broker has opened.                            *)
(***************************************************************************)
THEOREM QuietChannelsAreOpen ==
  ASSUME Quiet
  PROVE  Spec => []OpenedOnReturn
<1>1. Known /\ CallInv /\ QuietInv => OpenedOnReturn
  BY HeldIsOpen DEF OpenedOnReturn, Chan
<1> QED BY <1>1, QuietAlways, PTL

-----------------------------------------------------------------------------
(***************************************************************************)
(* Nobody waits in vain.  Under the same conditions what a promise waits   *)
(* for stays on its way, from the request to the answer, until the promise *)
(* has its value.                                                          *)
(***************************************************************************)
ChannelAsked(u) ==
  pc[u] = "awaitChannel" /\ opening[u].st = "pending" => Posted(StartOpen(u))

RpcAsked(u) ==
  pc[u] = "awaitRpc" /\ chans[own[u]].rpc = "pending" =>
    Exchange(own[u], "Declare", "DeclareOk", chans[own[u]].calls)

OpenAsked(i)  == chans[i].opened = "pending" => Exchange(i, "Open", "OpenOk", 0)
CloseAsked(i) == ~chans[i].live => peer[i] = "closed" \/ ToBroker(Frame(i, "Close", 0))

LEMMA WaitParts ==
  /\ NoWaitInVain <=> /\ \A u \in Users : ChannelAsked(u) /\ RpcAsked(u)
                      /\ \A i \in DOMAIN chans : OpenAsked(i) /\ CloseAsked(i)
  /\ NoWaitInVain' <=> /\ \A u \in Users : ChannelAsked(u)' /\ RpcAsked(u)'
                       /\ \A i \in DOMAIN chans' : OpenAsked(i)' /\ CloseAsked(i)'
BY Zenon DEF NoWaitInVain, ChannelAsked, RpcAsked, OpenAsked, CloseAsked, Chan

OutStays == \A f : ToBroker(f) => ToBroker(f)'
InStays  == \A f : ToClient(f) => ToClient(f)'

LEMMA ExchangeStays ==
  ASSUME OutStays, InStays
  PROVE  \A i, r, a, t : Exchange(i, r, a, t) => Exchange(i, r, a, t)'
BY Zenon DEF OutStays, InStays, Exchange

(* With no write unfinished a frame is posted or accepted.                 *)
LEMMA WhereFramesAre ==
  /\ pend = <<>> => \A f : ToBroker(f) <=> Occurs(Write(f), ioq) \/ Occurs(f, out)
  /\ pend' = <<>> => \A f : ToBroker(f)' <=> Occurs(Write(f), ioq') \/ Occurs(f, out')
  /\ \A f : ToClient(f) <=> Occurs(ReadBody(TRUE, f), ioq) \/ Occurs(f, in)
  /\ \A f : ToClient(f)' <=> Occurs(ReadBody(TRUE, f), ioq') \/ Occurs(f, in')
  /\ \A x : Posted(x) <=> Occurs(x, ioq)
  /\ \A x : Posted(x)' <=> Occurs(x, ioq')
<1>1. DOMAIN <<>> = {}
  OBVIOUS
<1> QED BY <1>1, Zenon DEF ToBroker, ToClient, Posted, Occurs

(* A handler takes nothing but itself out of the queue.                    *)
LEMMA RunKeeps ==
  ASSUME Basics, HandlerRuns, NEW x, x.h # "on_write_frame", Head(ioq) # x, Occurs(x, ioq)
  PROVE  Occurs(x, ioq')
<1>1. /\ ioq \in Seq(Handlers) /\ ioq # <<>> /\ Tail(ioq) \in Seq(Handlers)
      /\ ioq' \in Seq(Handlers) /\ QueueGrows(Tail(ioq), ioq')
  BY DEF Basics, TypeOK, MgrTypeOK, HandlerRuns
<1>2. Occurs(x, Tail(ioq))
  BY <1>1, OccursInTail
<1> QED BY <1>1, <1>2, OccursInGrown

LEMMA HandlerStays ==
  ASSUME Known, QuietInv, HandlerRuns, pend' = <<>>, in' = in,
         \A f : Occurs(f, out) => Occurs(f, out')
  PROVE  /\ \A f : Head(ioq) # Write(f) \/ Occurs(f, out') => (ToBroker(f) => ToBroker(f)')
         /\ \A f : Head(ioq) # ReadBody(TRUE, f) => (ToClient(f) => ToClient(f)')
         /\ \A u : Head(ioq) # StartOpen(u) => (Posted(StartOpen(u)) => Posted(StartOpen(u))')
<1>1. Basics /\ pend = <<>>
  BY DEF Known, QuietInv, NothingFails
<1>2. ASSUME NEW f
      PROVE  /\ Write(f).h # "on_write_frame" /\ ReadBody(TRUE, f).h # "on_write_frame"
             /\ StartOpen(f).h # "on_write_frame"
  BY DEF Write, ReadBody, StartOpen
<1>3. ASSUME NEW f
      PROVE  /\ Occurs(Write(f), ioq) => Head(ioq) = Write(f) \/ Occurs(Write(f), ioq')
             /\ Occurs(ReadBody(TRUE, f), ioq) =>
                  Head(ioq) = ReadBody(TRUE, f) \/ Occurs(ReadBody(TRUE, f), ioq')
             /\ Occurs(StartOpen(f), ioq) => Head(ioq) = StartOpen(f) \/ Occurs(StartOpen(f), ioq')
  BY <1>1, <1>2, RunKeeps
<1> QED BY <1>1, <1>3, WhereFramesAre, Zenon

(* A handler, or none, is added to the queue.                              *)
LEMMA PostedStays ==
  ASSUME Known, QuietInv, UNCHANGED <<pend, out, in>>,
         ioq' = ioq \/ \E x \in Handlers : ioq' = Append(ioq, x)
  PROVE  OutStays /\ InStays /\ \A x : Posted(x) => Posted(x)'
<1>1. ioq \in Seq(Handlers) /\ pend = <<>>
  BY CoreTypes DEF Known, QuietInv, NothingFails
<1>2. \A x : Occurs(x, ioq) => Occurs(x, ioq')
  <2>1. CASE ioq' = ioq
    BY <2>1
  <2>2. ASSUME NEW y \in Handlers, ioq' = Append(ioq, y)
        PROVE  \A x : Occurs(x, ioq) => Occurs(x, ioq')
    BY <1>1, <2>2, OccursInAppend, Zenon
  <2> QED BY <2>1, <2>2
<1> QED BY <1>1, <1>2, WhereFramesAre, Zenon DEF OutStays, InStays

(***************************************************************************)
(* The threads.                                                            *)
(***************************************************************************)
LEMMA ThreadWaits ==
  ASSUME Known, NoWaitInVain, OutStays, InStays, \A x : Posted(x) => Posted(x)',
         NEW u \in Users, ChannelAsked(u)', RpcAsked(u)', peer' = peer,
         \A v \in Users \ {u} : pc'[v] = pc[v] /\ own'[v] = own[v] /\ opening'[v] = opening[v],
         DOMAIN chans' = DOMAIN chans,
         \A i \in DOMAIN chans :
           /\ chans'[i].opened = chans[i].opened
           /\ chans'[i].live = chans[i].live \/ ToBroker(Frame(i, "Close", 0))'
           /\ i # own[u] => chans'[i] = chans[i]
  PROVE  NoWaitInVain'
<1>0. Basics /\ ChannelsNotShared
  BY DEF Known
<1>1. ASSUME NEW i \in DOMAIN chans
      PROVE  OpenAsked(i)' /\ CloseAsked(i)'
  <2>1. OpenAsked(i) /\ CloseAsked(i)
    BY WaitParts
  <2>2. OpenAsked(i)'
    BY <2>1, ExchangeStays, Zenon DEF OpenAsked
  <2>3. CloseAsked(i)'
    BY <2>1, Zenon DEF CloseAsked, OutStays
  <2> QED BY <2>2, <2>3
<1>2. ASSUME NEW v \in Users \ {u}
      PROVE  ChannelAsked(v)' /\ RpcAsked(v)'
  <2>1. ChannelAsked(v) /\ RpcAsked(v)
    BY WaitParts
  <2>2. ChannelAsked(v)'
    BY <2>1, Zenon DEF ChannelAsked
  <2>3. pc[v] = "awaitRpc" => chans'[own[v]] = chans[own[v]]
    <3>1. ASSUME pc[v] = "awaitRpc"
          PROVE  own[v] # own[u] /\ own[v] \in DOMAIN chans
      <4>1. own[v] # 0 /\ Holds(v) = own[v]
        BY <1>0, <3>1 DEF Basics, ChannelsHeld, Holds
      <4>2. own[u] # 0 => Holds(u) = own[u]
        BY <1>0 DEF Basics, ChannelsHeld, Holds
      <4>3. own[v] \in DOMAIN chans
        BY <1>0, <4>1, CoreTypes
      <4> QED BY <1>0, <4>1, <4>2, <4>3 DEF ChannelsNotShared
    <3> QED BY <3>1
  <2>4. RpcAsked(v)'
    BY <2>1, <2>3, ExchangeStays, Zenon DEF RpcAsked
  <2> QED BY <2>2, <2>4
<1> QED BY <1>1, <1>2, WaitParts

LEMMA ApplicationWaits ==
  ASSUME Known, CallInv, QuietInv, NoWaitInVain, NEW u \in Users, Application(u)
  PROVE  NoWaitInVain'
<1>0. /\ Basics /\ pc \in [Users -> PcStates] /\ own \in [Users -> 0 .. MaxChannelId]
      /\ opening \in [Users -> Promises] /\ ioq \in Seq(Handlers)
      /\ ChannelAsked(u) /\ RpcAsked(u)
  BY CoreTypes, WaitParts DEF Known
<1>1. CASE OpenChannel(u)
  <2>1. /\ opening' = [opening EXCEPT ![u] = Promise("pending", 0)]
        /\ ioq' = Append(ioq, StartOpen(u)) /\ pc' = [pc EXCEPT ![u] = "awaitChannel"]
        /\ UNCHANGED <<chans, pend, out, in, own, peer>>
    BY <1>1 DEF OpenChannel, BeginOpenChannel, Goto, brokerVars
  <2>2. StartOpen(u) \in Handlers
    BY DEF StartOpen, Handlers
  <2>3. OutStays /\ InStays /\ (\A x : Posted(x) => Posted(x)') /\ Posted(StartOpen(u))'
    <3>1. Occurs(StartOpen(u), ioq')
      BY <1>0, <2>1, <2>2, OccursInAppend
    <3>2. OutStays /\ InStays /\ (\A x : Posted(x) => Posted(x)')
      BY <2>1, <2>2, PostedStays
    <3> QED BY <3>1, <3>2, WhereFramesAre
  <2>4. ChannelAsked(u)' /\ RpcAsked(u)'
    BY <1>0, <2>1, <2>3 DEF ChannelAsked, RpcAsked
  <2>5. \A v \in Users \ {u} : pc'[v] = pc[v] /\ own'[v] = own[v] /\ opening'[v] = opening[v]
    BY <1>0, <2>1
  <2> QED BY <2>1, <2>3, <2>4, <2>5, ThreadWaits
<1>2. CASE GetChannel(u) \/ OpenReturns(u) \/ RpcReturns(u)
  <2>1. /\ pc' \in {[pc EXCEPT ![u] = s] : s \in {"idle", "awaitOpen", "ready"}}
        /\ \A v \in Users \ {u} : own'[v] = own[v]
        /\ UNCHANGED <<ioq, chans, pend, out, in, opening, peer>>
    BY <1>0, <1>2 DEF GetChannel, OpenReturns, RpcReturns, Goto, mgrVars, brokerVars
  <2>2. OutStays /\ InStays /\ \A x : Posted(x) => Posted(x)'
    BY <2>1, PostedStays
  <2>3. pc'[u] \in {"idle", "awaitOpen", "ready"} /\ \A v \in Users \ {u} : pc'[v] = pc[v]
    BY <1>0, <2>1
  <2>4. ChannelAsked(u)' /\ RpcAsked(u)'
    BY <2>3 DEF ChannelAsked, RpcAsked
  <2> QED BY <2>1, <2>2, <2>3, <2>4, ThreadWaits
<1>3. PICK i : i = own[u]
  OBVIOUS
<1>4. CASE BeginRpc(u)
  <2>1. /\ chans' = [chans EXCEPT ![i] = ArmRpc(chans[i])]
        /\ pc[u] = "ready" /\ pc' = [pc EXCEPT ![u] = "posting"]
        /\ UNCHANGED <<ioq, pend, out, in, own, opening, peer>>
    BY <1>3, <1>4 DEF BeginRpc, ChannelClosedFutureReady, At, Goto, brokerVars
  <2>2. i \in DOMAIN chans /\ chans[i] \in ChannelStates /\ chans \in Seq(ChannelStates)
    BY <1>0, <1>3, <2>1, HeldIsOpen, CoreTypes
  <2>3. PICK c \in ChannelStates : c = chans[i]
    BY <2>2
  <2>4. ArmRpc(c).opened = c.opened /\ ArmRpc(c).live = c.live
    BY DEF ArmRpc, ChannelStates
  <2>5. /\ DOMAIN chans' = DOMAIN chans
        /\ \A j \in DOMAIN chans : /\ chans'[j].opened = chans[j].opened
                                   /\ chans'[j].live = chans[j].live
                                   /\ j # i => chans'[j] = chans[j]
    BY <2>1, <2>2, <2>3, <2>4
  <2>6. OutStays /\ InStays /\ \A x : Posted(x) => Posted(x)'
    BY <2>1, PostedStays
  <2>7. pc'[u] = "posting" /\ \A v \in Users \ {u} : pc'[v] = pc[v]
    BY <1>0, <2>1
  <2>8. ChannelAsked(u)' /\ RpcAsked(u)'
    BY <2>7 DEF ChannelAsked, RpcAsked
  <2> QED BY <1>3, <2>1, <2>5, <2>6, <2>7, <2>8, ThreadWaits
<1>5. CASE PostRpc(u)
  <2>1. PICK t : t = chans[i].calls
    OBVIOUS
  <2>2. /\ ioq' = Append(ioq, Write(Frame(i, "Declare", t)))
        /\ pc[u] = "posting" /\ pc' = [pc EXCEPT ![u] = "awaitRpc"]
        /\ UNCHANGED <<chans, pend, out, in, own, opening, peer>>
    BY <1>3, <1>5, <2>1 DEF PostRpc, BeginWriteMethod, Chan, At, Goto, brokerVars
  <2>3. i \in Nat /\ chans[i] \in ChannelStates
    BY <1>3, <2>2, HeldIsOpen
  <2>4. Write(Frame(i, "Declare", t)) \in Handlers
    <3>1. t \in Nat
      BY <2>1, <2>3 DEF ChannelStates
    <3>2. Frame(i, "Declare", t) \in Frames
      BY <2>3, <3>1 DEF Frame, Frames, Kinds, ClientKinds
    <3> QED BY <3>2, HandlerTypes, Zenon
  <2>5. OutStays /\ InStays /\ (\A x : Posted(x) => Posted(x)')
    BY <2>2, <2>4, PostedStays
  <2>6. ToBroker(Frame(i, "Declare", t))'
    <3>1. Occurs(Write(Frame(i, "Declare", t)), ioq')
      BY <1>0, <2>2, <2>4, OccursInAppend
    <3> QED BY <3>1, Zenon DEF ToBroker, Posted, Occurs
  <2>7. pc'[u] = "awaitRpc" /\ \A v \in Users \ {u} : pc'[v] = pc[v]
    BY <1>0, <2>2
  <2>8. ChannelAsked(u)' /\ RpcAsked(u)'
    <3>1. Exchange(i, "Declare", "DeclareOk", t)'
      BY <2>6, Zenon DEF Exchange
    <3>2. own'[u] = i /\ chans'[i].calls = t
      BY <1>3, <2>1, <2>2
    <3>3. RpcAsked(u)'
      BY <3>1, <3>2, Zenon DEF RpcAsked
    <3> QED BY <2>7, <3>3 DEF ChannelAsked
  <2> QED BY <2>2, <2>5, <2>7, <2>8, ThreadWaits
<1>6. CASE DropChannel(u)
  <2>1. /\ chans' = [chans EXCEPT ![i] = Destroyed(chans[i])]
        /\ ioq' = Append(ioq, Write(Frame(i, "Close", 0)))
        /\ pc[u] = "ready" /\ pc' = [pc EXCEPT ![u] = "idle"]
        /\ \A v \in Users \ {u} : own'[v] = own[v]
        /\ UNCHANGED <<pend, out, in, opening, peer>>
    BY <1>0, <1>3, <1>6 DEF DropChannel, BeginWriteMethod, At, Goto, brokerVars
  <2>2. /\ i \in DOMAIN chans /\ i \in Nat /\ chans[i] \in ChannelStates
        /\ chans \in Seq(ChannelStates)
    BY <1>0, <1>3, <2>1, HeldIsOpen, CoreTypes
  <2>3. PICK c \in ChannelStates : c = chans[i]
    BY <2>2
  <2>4. Destroyed(c).opened = c.opened
    BY DEF Destroyed, ChannelStates
  <2>5. /\ DOMAIN chans' = DOMAIN chans
        /\ \A j \in DOMAIN chans : /\ chans'[j].opened = chans[j].opened
                                   /\ j # i => chans'[j] = chans[j]
    BY <2>1, <2>2, <2>3, <2>4
  <2>6. Write(Frame(i, "Close", 0)) \in Handlers
    <3>1. Frame(i, "Close", 0) \in Frames
      BY <2>2 DEF Frame, Frames, Kinds, ClientKinds
    <3> QED BY <3>1, HandlerTypes, Zenon
  <2>7. OutStays /\ InStays /\ (\A x : Posted(x) => Posted(x)')
    BY <2>1, <2>6, PostedStays
  <2>8. ToBroker(Frame(i, "Close", 0))'
    <3>1. Occurs(Write(Frame(i, "Close", 0)), ioq')
      BY <1>0, <2>1, <2>6, OccursInAppend
    <3> QED BY <3>1, Zenon DEF ToBroker, Posted, Occurs
  <2>9. pc'[u] = "idle" /\ \A v \in Users \ {u} : pc'[v] = pc[v]
    BY <1>0, <2>1
  <2>10. ChannelAsked(u)' /\ RpcAsked(u)'
    BY <2>9 DEF ChannelAsked, RpcAsked
  <2>11. \A j \in DOMAIN chans : chans'[j].live = chans[j].live \/ ToBroker(Frame(j, "Close", 0))'
    BY <2>5, <2>8
  <2> QED BY <1>3, <2>1, <2>5, <2>7, <2>9, <2>10, <2>11, ThreadWaits
<1> QED BY <1>1, <1>2, <1>4, <1>5, <1>6 DEF Application

(***************************************************************************)
(* The io thread and the kernel.                                           *)
(***************************************************************************)
LEMMA StillWaits ==
  ASSUME NoWaitInVain, OutStays, InStays, UNCHANGED <<chans, pc, own, peer>>,
         \A u \in Users :
           \/ opening'[u].st # "pending"
           \/ opening'[u] = opening[u] /\ (Posted(StartOpen(u)) => Posted(StartOpen(u))')
  PROVE  NoWaitInVain'
<1>1. ASSUME NEW u \in Users
      PROVE  ChannelAsked(u)' /\ RpcAsked(u)'
  <2>1. ChannelAsked(u) /\ RpcAsked(u)
    BY WaitParts
  <2>2. ChannelAsked(u)'
    BY <2>1, Zenon DEF ChannelAsked
  <2>3. RpcAsked(u)'
    BY <2>1, ExchangeStays, Zenon DEF RpcAsked
  <2> QED BY <2>2, <2>3
<1>2. ASSUME NEW i \in DOMAIN chans
      PROVE  OpenAsked(i)' /\ CloseAsked(i)'
  <2>1. OpenAsked(i) /\ CloseAsked(i)
    BY WaitParts
  <2>2. OpenAsked(i)'
    BY <2>1, ExchangeStays, Zenon DEF OpenAsked
  <2>3. CloseAsked(i)'
    BY <2>1, Zenon DEF CloseAsked, OutStays
  <2> QED BY <2>2, <2>3
<1> QED BY <1>1, <1>2, WaitParts

LEMMA StartOpenWaits ==
  ASSUME Quiet, Known, QuietInv, NoWaitInVain, StartOpenChannel, UNCHANGED <<userVars, brokerVars>>
  PROVE  NoWaitInVain'
<1>0. /\ Basics /\ HandlerRuns /\ in' = in /\ ioq # <<>> /\ Head(ioq).h = "start_open_channel"
      /\ UNCHANGED <<pc, own, peer>> /\ ioq \in Seq(Handlers) /\ opening \in [Users -> Promises]
      /\ chans \in Seq(ChannelStates)
  BY StartOpenEffect, CoreTypes
     DEF Known, StartOpenChannel, Runs, HandlerEffect, userVars, brokerVars
<1>1. PICK id : id = Len(chans) + 1
  OBVIOUS
<1>2. PICK u \in Users : Head(ioq) = StartOpen(u)
  <2>1. Head(ioq) \in [h : {"start_open_channel"}, u : Users]
    BY <1>0 DEF Handlers
  <2> QED BY <2>1 DEF StartOpen
<1>3. /\ \A v \in Users \ {u} : opening'[v] = opening[v]
      /\ opening'[u].st # "pending"
      /\ \/ Written(Writing) /\ chans' = chans
         \/ /\ chans' = Append(chans, NewChannel) /\ id <= MaxChannelId
            /\ \E w \in BeginWriteFrame(Frame(id, "Open", 0), Writing) : Written(w)
  <2>1. Head(ioq).u = u
    BY <1>2 DEF StartOpen
  <2>2. \/ /\ opening' = [opening EXCEPT ![u] = Promise("exception", 0)]
           /\ Written(Writing) /\ chans' = chans
        \/ /\ opening' = [opening EXCEPT ![u] = Promise("value", id)]
           /\ chans' = Append(chans, NewChannel) /\ ~(id > MaxChannelId)
           /\ \E w \in BeginWriteFrame(Frame(id, "Open", 0), Writing) : Written(w)
    BY <1>1, <2>1 DEF StartOpenChannel, NextId, OutOfChannels
  <2>3. Promise("exception", 0).st # "pending" /\ Promise("value", id).st # "pending"
    BY DEF Promise
  <2>4. id \in Nat /\ MaxChannelId \in Nat
    BY <1>0, <1>1, MaxChannelIdAssumption
  <2> QED BY <1>0, <2>2, <2>3, <2>4
<1>4. \A v \in Users \ {u} : Head(ioq) # StartOpen(v)
  BY <1>2 DEF StartOpen
<1>5. \A f : Head(ioq) # Write(f) /\ Head(ioq) # ReadBody(TRUE, f)
  BY <1>0 DEF Write, ReadBody
<1>6. CASE Written(Writing) /\ chans' = chans
  <2>1. pend' = <<>> /\ out' = out
    BY <1>6, JustWritten
  <2>2. OutStays /\ InStays /\ \A v \in Users \ {u} : Posted(StartOpen(v)) => Posted(StartOpen(v))'
    BY <1>0, <1>4, <1>5, <2>1, HandlerStays, Zenon DEF OutStays, InStays
  <2> QED BY <1>0, <1>3, <1>6, <2>2, StillWaits
<1>7. CASE /\ chans' = Append(chans, NewChannel) /\ id <= MaxChannelId
           /\ \E w \in BeginWriteFrame(Frame(id, "Open", 0), Writing) : Written(w)
  <2>1. PICK g : g = Frame(id, "Open", 0)
    OBVIOUS
  <2>2. g \in Frames /\ id \in Nat /\ id \notin DOMAIN chans
    BY <1>0, <1>1, <2>1 DEF Frame, Frames, Kinds, ClientKinds
  <2>3. PICK w \in BeginWriteFrame(g, Writing) : Written(w)
    BY <1>7, <2>1
  <2>4. pend' = <<>> /\ out' = Append(out, g)
    BY <1>0, <2>2, <2>3, WholeWrite
  <2>5. Occurs(g, out') /\ \A f : Occurs(f, out) => Occurs(f, out')
    <3>1. out \in Seq(Frames)
      BY <1>0, CoreTypes
    <3> QED BY <2>2, <2>4, <3>1, OccursInAppend
  <2>6. OutStays /\ InStays /\ \A v \in Users \ {u} : Posted(StartOpen(v)) => Posted(StartOpen(v))'
    BY <1>0, <1>4, <1>5, <2>4, <2>5, HandlerStays, Zenon DEF OutStays, InStays
  <2>7. /\ DOMAIN chans' = DOMAIN chans \cup {id} /\ chans'[id] = NewChannel
        /\ \A j \in DOMAIN chans : chans'[j] = chans[j]
    BY <1>0, <1>1, <1>7, NewChannelType
  <2>8. ASSUME NEW j \in DOMAIN chans
        PROVE  OpenAsked(j)' /\ CloseAsked(j)'
    <3>1. OpenAsked(j) /\ CloseAsked(j) /\ chans'[j] = chans[j]
      BY <2>7, WaitParts
    <3>2. OpenAsked(j)'
      BY <2>6, <3>1, ExchangeStays, Zenon DEF OpenAsked
    <3>3. CloseAsked(j)'
      BY <1>0, <2>6, <3>1, Zenon DEF CloseAsked, OutStays
    <3> QED BY <3>2, <3>3
  <2>9. OpenAsked(id)' /\ CloseAsked(id)'
    <3>1. ToBroker(g)'
      BY <2>4, <2>5, WhereFramesAre, Zenon
    <3>2. Exchange(id, "Open", "OpenOk", 0)'
      BY <2>1, <3>1, Zenon DEF Exchange
    <3>3. OpenAsked(id)'
      BY <3>2, Zenon DEF OpenAsked
    <3> QED BY <2>7, <3>3 DEF CloseAsked, NewChannel
  <2>10. ASSUME NEW v \in Users
         PROVE  ChannelAsked(v)' /\ RpcAsked(v)'
    <3>1. ChannelAsked(v) /\ RpcAsked(v)
      BY WaitParts
    <3>2. ChannelAsked(v)'
      BY <1>0, <1>3, <2>6, <3>1 DEF ChannelAsked
    <3>3. pc[v] = "awaitRpc" => chans'[own[v]] = chans[own[v]]
      <4>1. pc[v] = "awaitRpc" => own[v] \in DOMAIN chans
        <5>1. pc[v] = "awaitRpc" => own[v] # 0 /\ Holds(v) = own[v]
          BY <1>0 DEF Basics, ChannelsHeld, Holds
        <5> QED BY <1>0, <5>1, CoreTypes
      <4> QED BY <2>7, <4>1
    <3>4. RpcAsked(v)'
      BY <1>0, <2>6, <3>1, <3>3, ExchangeStays, Zenon DEF RpcAsked
    <3> QED BY <3>2, <3>4
  <2> QED BY <2>7, <2>8, <2>9, <2>10, WaitParts
<1> QED BY <1>3, <1>6, <1>7

(* A handler that changes no channel and writes what it was posted with.   *)
LEMMA PlainHandlerWaits ==
  ASSUME Known, QuietInv, NoWaitInVain, HandlerRuns, pend' = <<>>, in' = in,
         \A f : Occurs(f, out) => Occurs(f, out'),
         \A f : Head(ioq) = Write(f) => Occurs(f, out'),
         Head(ioq).h \notin {"on_frame_body_read", "start_open_channel"},
         UNCHANGED <<chans, opening, userVars, brokerVars>>
  PROVE  NoWaitInVain'
<1>1. UNCHANGED <<pc, own, peer>>
  BY DEF userVars, brokerVars
<1>2. \A f : Head(ioq) # ReadBody(TRUE, f) /\ Head(ioq) # StartOpen(f)
  BY DEF ReadBody, StartOpen
<1>3. OutStays /\ InStays /\ \A u \in Users : Posted(StartOpen(u)) => Posted(StartOpen(u))'
  BY <1>2, HandlerStays, Zenon DEF OutStays, InStays
<1> QED BY <1>1, <1>3, StillWaits

LEMMA BeginWriteWaits ==
  ASSUME Quiet, Known, QuietInv, NoWaitInVain, RunBeginWriteFrame, UNCHANGED <<userVars, brokerVars>>
  PROVE  NoWaitInVain'
<1>0. /\ Basics /\ HandlerRuns /\ in' = in /\ ioq # <<>> /\ Head(ioq).h = "begin_write_frame"
      /\ UNCHANGED <<chans, opening>> /\ ioq \in Seq(Handlers) /\ out \in Seq(Frames)
  BY BeginWriteEffect, CoreTypes DEF Known, RunBeginWriteFrame, Runs, HandlerEffect
<1>1. PICK g \in Frames : g = Head(ioq).f
  <2>1. Head(ioq) \in [h : {"begin_write_frame"}, f : Frames]
    BY <1>0 DEF Handlers
  <2> QED BY <2>1
<1>2. PICK w \in BeginWriteFrame(g, Writing) : Written(w)
  BY <1>1 DEF RunBeginWriteFrame
<1>3. pend' = <<>> /\ out' = Append(out, g)
  BY <1>0, <1>2, WholeWrite
<1>4. Occurs(g, out') /\ \A f : Occurs(f, out) => Occurs(f, out')
  BY <1>0, <1>3, OccursInAppend
<1>5. \A f : Head(ioq) = Write(f) => f = g
  BY <1>1 DEF Write
<1> QED BY <1>0, <1>3, <1>4, <1>5, PlainHandlerWaits

LEMMA OnWriteWaits ==
  ASSUME Quiet, Known, QuietInv, NoWaitInVain, OnWriteFrame, UNCHANGED <<userVars, brokerVars>>
  PROVE  NoWaitInVain'
<1>0. Basics /\ ioq # <<>> /\ Head(ioq).h = "on_write_frame" /\ io = "running"
  BY DEF Known, OnWriteFrame, Runs
<1>1. Head(ioq).ok
  BY NoErrors DEF OnWriteFrame, Runs, Completions
<1>2. /\ Written([Writing EXCEPT !.pend = Spoiled(@)])
      /\ UNCHANGED <<io, chans, opening, in>>
  BY <1>1, NoErrors DEF OnWriteFrame
<1>3. pend' = Spoiled(pend) /\ out' = out
  BY <1>2 DEF Written, Writing
<1>4. pend \in Seq(PendingWrites) /\ pend = <<>> /\ Len(pend) = 0
  BY <1>0, NoErrors, CoreTypes
<1>5. pend' = <<>>
  <2>1. Spoiled(pend) \in Seq(PendingWrites) /\ Len(Spoiled(pend)) = 0
    BY <1>4, SpoiledType
  <2> QED BY <1>3, <2>1
<1>6. HandlerRuns
  BY <1>0, <1>2, OnWriteEffect DEF Abort, HandlerEffect
<1>7. \A f : Head(ioq) # Write(f)
  BY <1>0 DEF Write
<1> QED BY <1>0, <1>2, <1>3, <1>5, <1>6, <1>7, PlainHandlerWaits

LEMMA OnHeaderWaits ==
  ASSUME Quiet, Known, CallInv, QuietInv, NoWaitInVain, OnFrameHeaderRead,
         UNCHANGED <<userVars, brokerVars>>
  PROVE  NoWaitInVain'
<1>0. /\ Basics /\ ioq # <<>> /\ InAnswers /\ io = "running"
      /\ Head(ioq).h = "on_frame_header_read" /\ Head(ioq).h \in ReadNames
  BY DEF Known, OnFrameHeaderRead, Runs, ReadNames, QuietInv
<1>1. Head(ioq).ok
  BY <1>0, NoErrors DEF Completions
<1>2. PICK f \in Frames : f = Head(ioq).f /\ Occurs(ReadHeader(TRUE, f), ioq)
  BY <1>0, <1>1, ReadHandlerRuns
<1>3. Answers(f)
  BY <1>0, <1>2 DEF InAnswers
<1>4. Written(Writing) /\ UNCHANGED <<io, chans, opening, in>>
  BY <1>1, <1>2, <1>3 DEF OnFrameHeaderRead, Answers, HasBody
<1>5. pend' = <<>> /\ out' = out
  BY <1>4, JustWritten
<1>6. HandlerRuns
  BY <1>0, <1>4, HeaderReadEffect DEF Abort, HandlerEffect
<1>7. \A g : Head(ioq) # Write(g)
  BY <1>0 DEF Write
<1> QED BY <1>0, <1>4, <1>5, <1>6, <1>7, PlainHandlerWaits

(***************************************************************************)
(* The answer that is handled ends the wait it is for.                     *)
(***************************************************************************)
LEMMA OnBodyWaits ==
  ASSUME Quiet, Known, CallInv, QuietInv, NoWaitInVain, OnFrameBodyRead,
         UNCHANGED <<userVars, brokerVars>>
  PROVE  NoWaitInVain'
<1>0. /\ Basics /\ ioq # <<>> /\ ChannelsGranted /\ InAnswers /\ io = "running"
      /\ Head(ioq).h = "on_frame_body_read" /\ Head(ioq).h \in ReadNames
      /\ CoreInv /\ UNCHANGED <<pc, own, peer>> /\ chans \in Seq(ChannelStates)
  BY CoreTypes
     DEF Known, CallInv, OnFrameBodyRead, Runs, ReadNames, userVars, brokerVars, QuietInv
<1>1. Head(ioq).ok
  BY <1>0, NoErrors DEF Completions
<1>2. PICK f \in Frames : /\ f = Head(ioq).f /\ Occurs(ReadBody(TRUE, f), ioq)
                          /\ Head(ioq) = ReadBody(TRUE, f)
  BY <1>0, <1>1, ReadHandlerRuns
<1>3. Inward(f) /\ Answers(f) /\ DispatchFrame(f)
  BY <1>0, <1>1, <1>2 DEF Inward, InAnswers, OnFrameBodyRead
<1>4. /\ f.ch # 0 /\ f.ch \in DOMAIN chans /\ ~(f.ch > Len(chans))
      /\ chans[f.ch] \in ChannelStates /\ InwardIsDue(f)
  <2>1. f.ch # 0 /\ f.ch \in DOMAIN chans /\ InwardIsDue(f)
    BY <1>0, <1>3 DEF Answers, CoreInv, InInv, InwardIsDue
  <2> QED BY <1>0, <2>1, CoreTypes
<1>5. /\ Written(Writing) /\ UNCHANGED <<io, opening, in>> /\ DOMAIN chans' = DOMAIN chans
      /\ \A j \in DOMAIN chans \ {f.ch} : chans'[j] = chans[j]
      /\ ~chans'[f.ch].live => ~chans[f.ch].live
      /\ \/ chans'[f.ch] = chans[f.ch] /\ ~chans[f.ch].live
         \/ f.kind = "OpenOk" /\ chans'[f.ch].opened # "pending" /\ chans[f.ch].rpc # "pending"
            /\ chans'[f.ch].rpc = chans[f.ch].rpc
         \/ f.kind = "DeclareOk" /\ chans'[f.ch].rpc # "pending" /\ chans[f.ch].opened # "pending"
            /\ chans'[f.ch].opened = chans[f.ch].opened
  <2>1. CASE f.ch \notin Live
    <3>1. Dropped(f, DeadChannelFrame(f, Writing))
      BY <1>3, <1>4, <2>1 DEF DispatchFrame
    <3>2. Written(Writing) /\ UNCHANGED <<io, opening, in>> /\ chans' = chans
      BY <1>3, <3>1 DEF Dropped, DeadChannelFrame, Answers, ReadNext
    <3> QED BY <1>4, <2>1, <3>2 DEF Live
  <2>2. CASE f.ch \in Live
    <3>1. PICK c \in ChannelStates : c = chans[f.ch]
      BY <1>4
    <3>2. /\ ProcessFrame(c, f).thrown = "none" /\ c.opened # "exception" /\ c.live
          /\ ProcessFrame(c, f).chan.live
      BY <1>0, <1>3, <1>4, <2>2, <3>1, AnswerFulfils DEF ChannelsGranted, Live
    <3>3. PICK d : d = ProcessFrame(c, f).chan
      OBVIOUS
    <3>4. chans' = [chans EXCEPT ![f.ch] = d] /\ Written(Writing) /\ ReadNext
      BY <1>3, <1>4, <2>2, <3>1, <3>2, <3>3 DEF DispatchFrame
    <3>5. /\ DOMAIN chans' = DOMAIN chans /\ chans'[f.ch] = d
          /\ \A j \in DOMAIN chans \ {f.ch} : chans'[j] = chans[j]
      BY <1>0, <1>4, <3>4
    <3>6. /\ c.cont = IF c.rpc = "none" THEN "process_open" ELSE "rpc_handler"
          /\ c.opened = "pending" => c.rpc = "none"
      BY <1>0, <1>4, <3>1, <3>2 DEF CoreInv, ChannelInv, Fresh
    <3>7. f.kind \in {"OpenOk", "DeclareOk"}
      BY <1>3, <1>4, <3>1, <3>2 DEF InwardIsDue, Answers
    <3>8. CASE f.kind = "OpenOk"
      <4>1. c.opened = "pending" /\ c.rpc = "none"
        BY <1>4, <3>1, <3>6, <3>8 DEF InwardIsDue
      <4>2. ProcessFrame(c, f) = Returns([c EXCEPT !.opened = "value"])
        BY <3>6, <3>8, <4>1 DEF ProcessFrame, ProcessOpen
      <4>3. d.opened = "value" /\ d.rpc = c.rpc
        BY <3>3, <4>2 DEF Returns, ChannelStates
      <4>4. UNCHANGED <<io, opening, in>>
        BY <3>4 DEF ReadNext
      <4> QED BY <3>1, <3>2, <3>3, <3>4, <3>5, <3>8, <4>1, <4>3, <4>4
    <3>9. CASE f.kind = "DeclareOk"
      <4>1. c.rpc = "pending"
        BY <1>4, <3>1, <3>9 DEF InwardIsDue
      <4>2. ProcessFrame(c, f) = Returns([c EXCEPT !.rpc = "value", !.got = f.tag])
        BY <3>6, <3>9, <4>1 DEF ProcessFrame, RpcHandler
      <4>3. PICK e : e = [c EXCEPT !.rpc = "value", !.got = f.tag]
        OBVIOUS
      <4>4. e.rpc = "value" /\ e.opened = c.opened
        BY <4>3 DEF ChannelStates
      <4>5. d = e
        BY <3>3, <4>2, <4>3 DEF Returns
      <4>6. UNCHANGED <<io, opening, in>> /\ c.opened # "pending"
        BY <3>4, <3>6, <4>1 DEF ReadNext
      <4> QED BY <3>1, <3>2, <3>3, <3>4, <3>5, <3>9, <4>1, <4>4, <4>5, <4>6
    <3> QED BY <3>7, <3>8, <3>9
  <2> QED BY <2>1, <2>2
<1>6. pend' = <<>> /\ out' = out /\ HandlerRuns
  BY <1>0, <1>5, JustWritten, BodyReadEffect DEF Abort, HandlerEffect
<1>7. /\ \A g : Head(ioq) # Write(g) /\ Head(ioq) # StartOpen(g)
      /\ \A g : Head(ioq) = ReadBody(TRUE, g) => g = f
  BY <1>0, <1>2 DEF Write, StartOpen, ReadBody
<1>8. /\ OutStays /\ \A u \in Users : Posted(StartOpen(u)) => Posted(StartOpen(u))'
      /\ \A g : g # f => (ToClient(g) => ToClient(g)')
  BY <1>5, <1>6, <1>7, HandlerStays, Zenon DEF OutStays
<1>9. \A i, r, a, t : Frame(i, a, t) # f => (Exchange(i, r, a, t) => Exchange(i, r, a, t)')
  BY <1>8, Zenon DEF Exchange, OutStays
<1>10. \A i, a, t : Frame(i, a, t) = f => f.ch = i /\ f.kind = a
  BY DEF Frame
<1>11. ASSUME NEW i \in DOMAIN chans
       PROVE  OpenAsked(i)' /\ CloseAsked(i)'
  <2>1. OpenAsked(i) /\ CloseAsked(i)
    BY WaitParts
  <2>2. (~chans'[i].live => ~chans[i].live) /\ (chans[i].opened = "pending" => chans[i].live)
    BY <1>0, <1>5 DEF CoreInv, ChannelInv, Fresh
  <2>3. CloseAsked(i)'
    BY <1>0, <1>8, <2>1, <2>2, Zenon DEF CloseAsked, OutStays
  <2>4. chans'[i].opened = "pending" =>
          chans[i].opened = "pending" /\ Frame(i, "OpenOk", 0) # f
    BY <1>4, <1>5, <1>10, <2>2
  <2>5. OpenAsked(i)'
    BY <1>9, <2>1, <2>4, Zenon DEF OpenAsked
  <2> QED BY <2>3, <2>5
<1>12. ASSUME NEW u \in Users
       PROVE  ChannelAsked(u)' /\ RpcAsked(u)'
  <2>1. ChannelAsked(u) /\ RpcAsked(u)
    BY WaitParts
  <2>2. ChannelAsked(u)'
    BY <1>0, <1>5, <1>8, <2>1, Zenon DEF ChannelAsked
  <2>3. RpcAsked(u)'
    <3>1. CASE pc[u] = "awaitRpc" /\ own[u] = f.ch
      <4>1. chans[own[u]].live /\ chans[own[u]].opened # "pending"
        BY <3>1, HeldIsOpen
      <4>2. f.kind = "DeclareOk"
        BY <1>4, <1>5, <3>1, <4>1 DEF InwardIsDue
      <4>3. chans'[f.ch].rpc # "pending"
        BY <1>5, <3>1, <4>1, <4>2
      <4> QED BY <1>0, <3>1, <4>3 DEF RpcAsked
    <3>2. CASE pc[u] = "awaitRpc" /\ own[u] # f.ch
      <4>1. own[u] \in DOMAIN chans
        BY <3>2, HeldIsOpen
      <4>2. chans'[own[u]] = chans[own[u]]
        BY <1>5, <3>2, <4>1
      <4>3. \A t : Frame(own[u], "DeclareOk", t) # f
        BY <1>10, <3>2
      <4> QED BY <1>0, <1>9, <2>1, <4>2, <4>3, Zenon DEF RpcAsked
    <3>3. CASE pc[u] # "awaitRpc"
      BY <1>0, <3>3 DEF RpcAsked
    <3> QED BY <3>1, <3>2, <3>3
  <2> QED BY <2>2, <2>3
<1> QED BY <1>5, <1>11, <1>12, WaitParts

LEMMA IoWaits ==
  ASSUME Quiet, Known, CallInv, QuietInv, NoWaitInVain, IoStep
  PROVE  NoWaitInVain'
<1>1. IoThread /\ UNCHANGED <<userVars, brokerVars>>
  BY DEF IoStep
<1>2. CASE RunReturns
  <2>1. UNCHANGED <<ioq, chans, opening, pend, out, in, pc, own, peer>>
    BY <1>1, <1>2 DEF RunReturns, userVars, brokerVars
  <2>2. OutStays /\ InStays /\ \A x : Posted(x) => Posted(x)'
    BY <2>1, PostedStays
  <2> QED BY <2>1, <2>2, StillWaits
<1> QED BY <1>1, <1>2, StartOpenWaits, BeginWriteWaits, OnWriteWaits, OnHeaderWaits, OnBodyWaits
        DEF IoThread

LEMMA ReactorWaits ==
  ASSUME Known, CallInv, QuietInv, NoWaitInVain, ReactorStep
  PROVE  NoWaitInVain'
<1>0. /\ sock = "up" /\ pend = <<>> /\ ioq \in Seq(Handlers) /\ in \in Seq(Frames) /\ InAnswers
      /\ UNCHANGED <<chans, opening, pc, own, peer>>
  BY NoErrors, CoreTypes
     DEF Known, QuietInv, ReactorStep, Reactor, HeaderArrives, BodyArrives, ReadFails,
         WriteCompletes, WriteFails, userVars, brokerVars
<1>1. ASSUME in # <<>>
      PROVE  \E g \in Frames : g = Head(in) /\ Answers(g)
  <2>1. PICK g \in Frames : g = Head(in) /\ Occurs(g, in)
    BY <1>0, <1>1, OccursInTail
  <2> QED BY <1>0, <2>1 DEF Inward, InAnswers
<1>2. CASE HeaderArrives
  <2>1. PICK g \in Frames : g = Head(in) /\ Answers(g)
    BY <1>1, <1>2 DEF HeaderArrives
  <2>2. ioq' = Append(ioq, ReadHeader(TRUE, g)) /\ UNCHANGED <<pend, out, in>>
    BY <1>2, <2>1 DEF HeaderArrives, Answers, HasBody
  <2>3. ReadHeader(TRUE, g) \in Handlers
    BY <2>1, HandlerTypes
  <2>4. OutStays /\ InStays /\ \A x : Posted(x) => Posted(x)'
    BY <2>2, <2>3, PostedStays
  <2> QED BY <1>0, <2>4, StillWaits
<1>3. CASE BodyArrives
  <2>1. PICK g \in Frames : g = Head(in)
    BY <1>1, <1>3 DEF BodyArrives
  <2>2. /\ ioq' = Append(ioq, ReadBody(TRUE, g)) /\ in' = Tail(in) /\ in # <<>>
        /\ UNCHANGED <<pend, out>>
    BY <1>3, <2>1 DEF BodyArrives
  <2>3. ReadBody(TRUE, g) \in Handlers
    BY <2>1, HandlerTypes
  <2>4. \A x : Occurs(x, ioq') <=> x = ReadBody(TRUE, g) \/ Occurs(x, ioq)
    BY <1>0, <2>2, <2>3, OccursInAppend
  <2>5. \A f : Occurs(f, in) => f = g \/ Occurs(f, in')
    BY <1>0, <2>1, <2>2, OccursInTail
  <2>6. OutStays /\ InStays /\ \A x : Posted(x) => Posted(x)'
    BY <1>0, <2>2, <2>4, <2>5, WhereFramesAre, Zenon DEF OutStays, InStays
  <2> QED BY <1>0, <2>6, StillWaits
<1>4. ~ReadFails /\ ~WriteCompletes /\ ~WriteFails
  BY <1>0 DEF ReadFails, WriteCompletes, WriteFails
<1> QED BY <1>2, <1>3, <1>4 DEF ReactorStep, Reactor

(***************************************************************************)
(* The broker.  In place of the request f it takes there is the answer h.  *)
(***************************************************************************)
LEMMA BrokerSentWaits ==
  ASSUME Known, QuietInv, NoWaitInVain, NEW f \in Frames, f = Request, out # <<>>,
         out' = Tail(out), NEW h \in Frames, in' = Append(in, h),
         UNCHANGED <<ioq, chans, opening, pend, pc, own>>,
         f.kind = "Open"    => h = Frame(f.ch, "OpenOk", f.tag),
         f.kind = "Declare" => h = Frame(f.ch, "DeclareOk", f.tag),
         f.kind = "Close"   => peer'[f.ch] = "closed",
         \A i \in DOMAIN chans : peer[i] = "closed" => peer'[i] = "closed"
  PROVE  NoWaitInVain'
<1>0. out \in Seq(Frames) /\ in \in Seq(Frames) /\ pend = <<>>
  BY CoreTypes DEF Known, QuietInv, NothingFails
<1>1. \A g : Occurs(g, out) => g = f \/ Occurs(g, out')
  BY <1>0, OccursInTail DEF Request
<1>2. \A g : Occurs(g, in') <=> g = h \/ Occurs(g, in)
  BY <1>0, OccursInAppend
<1>3. /\ \A g : g # f => (ToBroker(g) => ToBroker(g)')
      /\ InStays /\ ToClient(h)' /\ \A x : Posted(x) => Posted(x)'
  BY <1>0, <1>1, <1>2, WhereFramesAre, Zenon DEF InStays
<1>4. \A i, k, t : Frame(i, k, t) = f => f.ch = i /\ f.kind = k /\ f.tag = t
  BY DEF Frame
<1>5. ASSUME NEW i, NEW r, NEW a, NEW t, Exchange(i, r, a, t),
             Frame(i, r, t) = f => h = Frame(i, a, t)
      PROVE  Exchange(i, r, a, t)'
  <2>1. CASE ToBroker(Frame(i, r, t)) /\ Frame(i, r, t) # f
    BY <1>3, <2>1, Zenon DEF Exchange
  <2>2. CASE Frame(i, r, t) = f
    BY <1>3, <1>5, <2>2, Zenon DEF Exchange
  <2>3. CASE ToClient(Frame(i, a, t))
    BY <1>3, <2>3, Zenon DEF Exchange, InStays
  <2> QED BY <1>5, <2>1, <2>2, <2>3, Zenon DEF Exchange
<1>6. ASSUME NEW i \in DOMAIN chans
      PROVE  OpenAsked(i)' /\ CloseAsked(i)'
  <2>1. OpenAsked(i) /\ CloseAsked(i)
    BY WaitParts
  <2>2. Exchange(i, "Open", "OpenOk", 0) => Exchange(i, "Open", "OpenOk", 0)'
    BY <1>4, <1>5, Zenon
  <2>3. OpenAsked(i)'
    BY <2>1, <2>2, Zenon DEF OpenAsked
  <2>4. ToBroker(Frame(i, "Close", 0)) => ToBroker(Frame(i, "Close", 0))' \/ peer'[i] = "closed"
    BY <1>3, <1>4, Zenon
  <2>5. CloseAsked(i)'
    BY <2>1, <2>4, Zenon DEF CloseAsked
  <2> QED BY <2>3, <2>5
<1>7. ASSUME NEW u \in Users
      PROVE  ChannelAsked(u)' /\ RpcAsked(u)'
  <2>1. ChannelAsked(u) /\ RpcAsked(u)
    BY WaitParts
  <2>2. ChannelAsked(u)'
    BY <1>3, <2>1, Zenon DEF ChannelAsked
  <2>3. \A t : Exchange(own[u], "Declare", "DeclareOk", t) =>
                 Exchange(own[u], "Declare", "DeclareOk", t)'
    <3> SUFFICES ASSUME NEW t, Exchange(own[u], "Declare", "DeclareOk", t)
                 PROVE  Exchange(own[u], "Declare", "DeclareOk", t)'
      OBVIOUS
    <3>1. Frame(own[u], "Declare", t) = f => h = Frame(own[u], "DeclareOk", t)
      BY <1>4, Zenon
    <3>2. own'[u] = own[u]
      OBVIOUS
    <3> QED BY <1>5, <3>1, <3>2, Zenon
  <2>4. RpcAsked(u)'
    BY <2>1, <2>3, Zenon DEF RpcAsked
  <2> QED BY <2>2, <2>4
<1> QED BY <1>6, <1>7, WaitParts

LEMMA BrokerWaits ==
  ASSUME Quiet, Known, CallInv, QuietInv, NoWaitInVain, Broker
  PROVE  NoWaitInVain'
<1>0. Basics /\ CoreInv /\ ChannelsGranted
  BY DEF Known, CallInv, QuietInv
<1>1. ~ProtocolError /\ ~BrokerIsClosed
  BY ReadsLegal DEF ProtocolError, BrokerIsClosed, Receives
<1>2. PICK kind \in {"Open", "Declare", "Close"} : Receives(kind)
  BY <1>1 DEF Broker, BrokerOpens, BrokerDeclares, BrokerCloses
<1>3. PICK f \in RealFrames :
        /\ Reads(f) /\ f.kind = kind /\ f.ch \in DOMAIN chans /\ f.ch \in Ids /\ f.ch \in Nat
  BY <1>0, <1>2, ReceivesReads DEF ClientKinds
<1>4. /\ f = Request /\ f \in Frames /\ f.tag \in Nat /\ Outward(f)
      /\ UNCHANGED <<ioq, chans, opening, pend, pc, own>>
  BY <1>3 DEF Reads, RealFrames, Frames
<1>5. out # <<>> /\ out' = Tail(out)
  BY <1>2 DEF Receives
<1>6. LegallySent(f)
  BY <1>3, <1>4 DEF QuietInv, OutLegal
<1>7. peer \in [Ids -> {"none", "open", "closing", "closed"}]
  BY <1>0, CoreTypes
<1>8. CASE BrokerOpens
  <2>1. f.kind = "Open" /\ f.tag = 0 /\ peer[f.ch] = "none"
    BY <1>4, <1>6, <1>8 DEF BrokerOpens, Receives, LegallySent
  <2>2. Sends(f.ch, "OpenOk", 0) /\ peer' = [peer EXCEPT ![f.ch] = "open"]
    BY <1>4, <1>8 DEF BrokerOpens, Peer, Quiet
  <2>3. PICK h \in Frames : h = Frame(f.ch, "OpenOk", 0) /\ in' = Append(in, h)
    BY <1>3, <2>2 DEF Sends, Frame, Frames, Kinds, BrokerKinds
  <2>4. \A i \in DOMAIN chans : peer[i] = "closed" => peer'[i] = "closed"
    BY <1>0, <1>3, <1>7, <2>1, <2>2, CoreTypes
  <2> QED BY <1>4, <1>5, <2>1, <2>3, <2>4, BrokerSentWaits
<1>9. CASE BrokerDeclares
  <2>1. f.kind = "Declare" /\ peer[f.ch] = "open"
    BY <1>4, <1>6, <1>9 DEF BrokerDeclares, Receives, LegallySent
  <2>2. Sends(f.ch, "DeclareOk", f.tag) /\ peer' = peer
    BY <1>4, <1>9, <2>1 DEF BrokerDeclares, Quiet
  <2>3. PICK h \in Frames : h = Frame(f.ch, "DeclareOk", f.tag) /\ in' = Append(in, h)
    BY <1>3, <1>4, <2>2 DEF Sends, Frame, Frames, Kinds, BrokerKinds
  <2> QED BY <1>4, <1>5, <2>1, <2>2, <2>3, BrokerSentWaits
<1>10. CASE BrokerCloses
  <2>1. f.kind = "Close" /\ peer[f.ch] = "open"
    BY <1>4, <1>6, <1>10 DEF BrokerCloses, Receives, LegallySent
  <2>2. Sends(f.ch, "CloseOk", 0) /\ peer' = [peer EXCEPT ![f.ch] = "closed"]
    BY <1>4, <1>10, <2>1 DEF BrokerCloses, Peer
  <2>3. PICK h \in Frames : h = Frame(f.ch, "CloseOk", 0) /\ in' = Append(in, h)
    BY <1>3, <2>2 DEF Sends, Frame, Frames, Kinds, BrokerKinds
  <2>4. peer'[f.ch] = "closed" /\ \A i \in DOMAIN chans : peer[i] = "closed" => peer'[i] = "closed"
    BY <1>0, <1>3, <1>7, <2>2, CoreTypes
  <2> QED BY <1>4, <1>5, <2>1, <2>3, <2>4, BrokerSentWaits
<1> QED BY <1>1, <1>8, <1>9, <1>10 DEF Broker

LEMMA WaitsInit ==
  ASSUME Init
  PROVE  NoWaitInVain
<1>1. chans = <<>> /\ \A u \in Users : pc[u] = "idle"
  BY DEF Init, MgrInit
<1>2. DOMAIN <<>> = {}
  OBVIOUS
<1> QED BY <1>1, <1>2 DEF NoWaitInVain

LEMMA WaitsStep ==
  ASSUME Quiet, Known, CallInv, QuietInv, NoWaitInVain, [Next]_vars
  PROVE  NoWaitInVain'
<1>1. CASE UNCHANGED vars
  <2>1. UNCHANGED <<ioq, chans, opening, pend, out, in, pc, own, peer>>
    BY <1>1 DEF vars, mgrVars, userVars, brokerVars
  <2>2. OutStays /\ InStays /\ \A x : Posted(x) => Posted(x)'
    BY <2>1, PostedStays
  <2> QED BY <2>1, <2>2, StillWaits
<1>2. ~Outside
  BY DEF Outside, BrokerSpeaks, SocketBreaks, Quiet
<1>3. ASSUME NEW u \in Users, Application(u)
      PROVE  NoWaitInVain'
  BY <1>3, ApplicationWaits
<1> QED BY <1>1, <1>2, <1>3, IoWaits, ReactorWaits, BrokerWaits DEF Next

(***************************************************************************)
(* Then a pending promise that a thread waits for in open_channel or in an *)
(* RPC always has what fulfils it on its way, and so has the channel.close *)
(* of a dropped channel: a connection in which nothing is under way any    *)
(* more has nobody waiting.  This is what the liveness properties of the   *)
(* run quiet need besides fairness.                                        *)
(***************************************************************************)
THEOREM QuietWaitsEnd ==
  ASSUME Quiet
  PROVE  Spec => []NoWaitInVain
<1>1. Init => NoWaitInVain
  BY WaitsInit
<1>2. Known /\ CallInv /\ QuietInv /\ NoWaitInVain /\ [Next]_vars => NoWaitInVain'
  BY WaitsStep
<1> QED BY <1>1, <1>2, QuietAlways, PTL DEF Spec

=============================================================================
