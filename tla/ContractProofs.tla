---------------------------- MODULE ContractProofs ----------------------------
(***************************************************************************)
(* Connection implements RpcContract, for any number of threads, channels, *)
(* calls and faults, as long as the broker sends no method unasked that a  *)
(* pending promise would be satisfied with and survive.                    *)
(***************************************************************************)
EXTENDS CallProofs

(* What the contract sees of a channel.                                    *)
Calls(i)   == Of(i, "calls", 0)
Outcome(i) == Of(i, "rpc", "none")
Answer(i)  == Of(i, "got", 0)

SameView(i) == Calls(i)' = Calls(i) /\ Outcome(i)' = Outcome(i) /\ Answer(i)' = Answer(i)

LEMMA ViewOf ==
  ASSUME NEW i
  PROVE  /\ i \in DOMAIN chans => /\ Calls(i) = chans[i].calls
                                  /\ Outcome(i) = chans[i].rpc
                                  /\ Answer(i) = chans[i].got
         /\ i \notin DOMAIN chans => Calls(i) = 0 /\ Outcome(i) = "none" /\ Answer(i) = 0
BY DEF Calls, Outcome, Answer, Of

LEMMA NothingSeen ==
  ASSUME \A i \in Ids : SameView(i), served' = served
  PROVE  UNCHANGED Contract!contractVars
<1>1. [i \in Ids |-> Of(i, "calls", 0)]' = [i \in Ids |-> Of(i, "calls", 0)]
  BY DEF SameView, Calls
<1>2. [i \in Ids |-> Of(i, "rpc", "none")]' = [i \in Ids |-> Of(i, "rpc", "none")]
  BY DEF SameView, Outcome
<1>3. [i \in Ids |-> Of(i, "got", 0)]' = [i \in Ids |-> Of(i, "got", 0)]
  BY DEF SameView, Answer
<1> QED BY <1>1, <1>2, <1>3 DEF Contract!contractVars

LEMMA CallSeen ==
  ASSUME NEW i \in Ids, Outcome(i) # "pending",
         Calls(i)' = Calls(i) + 1, Outcome(i)' = "pending", Answer(i)' = 0,
         \A j \in Ids \ {i} : SameView(j), served' = served
  PROVE  Contract!Call(i)
<1>1. [j \in Ids |-> Of(j, "calls", 0)]' = [[j \in Ids |-> Of(j, "calls", 0)] EXCEPT ![i] = @ + 1]
  BY DEF SameView, Calls
<1>2. [j \in Ids |-> Of(j, "rpc", "none")]' = [[j \in Ids |-> Of(j, "rpc", "none")] EXCEPT ![i] = "pending"]
  BY DEF SameView, Outcome
<1>3. [j \in Ids |-> Of(j, "got", 0)]' = [[j \in Ids |-> Of(j, "got", 0)] EXCEPT ![i] = 0]
  BY DEF SameView, Answer
<1> QED BY <1>1, <1>2, <1>3 DEF Contract!Call, Outcome

LEMMA ServeSeen ==
  ASSUME NEW i \in Ids, NEW n, n \in 1 .. Calls(i), n \notin served[i],
         served' = [served EXCEPT ![i] = @ \cup {n}], \A j \in Ids : SameView(j)
  PROVE  Contract!Next
<1>1. [j \in Ids |-> Of(j, "calls", 0)]' = [j \in Ids |-> Of(j, "calls", 0)]
  BY DEF SameView, Calls
<1>2. [j \in Ids |-> Of(j, "rpc", "none")]' = [j \in Ids |-> Of(j, "rpc", "none")]
  BY DEF SameView, Outcome
<1>3. [j \in Ids |-> Of(j, "got", 0)]' = [j \in Ids |-> Of(j, "got", 0)]
  BY DEF SameView, Answer
<1>4. [j \in Ids |-> Of(j, "calls", 0)][i] = Calls(i)
  BY DEF Calls
<1>5. Contract!Serve(i, n)
  BY <1>1, <1>2, <1>3, <1>4 DEF Contract!Serve
<1> QED BY <1>4, <1>5 DEF Contract!Next

LEMMA AnswerSeen ==
  ASSUME NEW i \in Ids, Outcome(i) = "pending", Calls(i) \in served[i],
         Calls(i)' = Calls(i), Outcome(i)' = "value", Answer(i)' = Calls(i),
         \A j \in Ids \ {i} : SameView(j), served' = served
  PROVE  Contract!Answer(i)
<1>1. [j \in Ids |-> Of(j, "calls", 0)]' = [j \in Ids |-> Of(j, "calls", 0)]
  BY DEF SameView, Calls
<1>2. [j \in Ids |-> Of(j, "rpc", "none")]'
        = [[j \in Ids |-> Of(j, "rpc", "none")] EXCEPT ![i] = "value"]
  BY DEF SameView, Outcome
<1>3. [j \in Ids |-> Of(j, "got", 0)]'
        = [[j \in Ids |-> Of(j, "got", 0)] EXCEPT ![i] = Of(i, "calls", 0)]
  BY DEF SameView, Answer, Calls
<1> QED BY <1>1, <1>2, <1>3 DEF Contract!Answer, Calls, Outcome

LEMMA FailureSeen ==
  ASSUME NEW i \in Ids, Outcome(i) = "pending",
         Calls(i)' = Calls(i), Outcome(i)' = "exception", Answer(i)' = Answer(i),
         \A j \in Ids \ {i} : SameView(j), served' = served
  PROVE  Contract!Fail(i)
<1>1. [j \in Ids |-> Of(j, "calls", 0)]' = [j \in Ids |-> Of(j, "calls", 0)]
  BY DEF SameView, Calls
<1>2. [j \in Ids |-> Of(j, "rpc", "none")]'
        = [[j \in Ids |-> Of(j, "rpc", "none")] EXCEPT ![i] = "exception"]
  BY DEF SameView, Outcome
<1>3. [j \in Ids |-> Of(j, "got", 0)]' = [j \in Ids |-> Of(j, "got", 0)]
  BY DEF SameView, Answer
<1> QED BY <1>1, <1>2, <1>3 DEF Contract!Fail, Outcome

-----------------------------------------------------------------------------
(* The channels that are as they were are seen as they were.               *)
LEMMA ViewKept ==
  ASSUME NEW i, \/ i \in DOMAIN chans /\ i \in DOMAIN chans' /\ chans'[i].calls = chans[i].calls
                   /\ chans'[i].rpc = chans[i].rpc /\ chans'[i].got = chans[i].got
                \/ i \notin DOMAIN chans /\ i \notin DOMAIN chans'
  PROVE  SameView(i)
BY DEF SameView, Calls, Outcome, Answer, Of

LEMMA ChannelsKeptSeen ==
  ASSUME chans' = chans, served' = served
  PROVE  UNCHANGED Contract!contractVars
<1>1. \A i \in Ids : SameView(i)
  BY ViewKept
<1> QED BY <1>1, NothingSeen

LEMMA SocketCloseSeen ==
  ASSUME Basics, OnSocketClose, served' = served
  PROVE  UNCHANGED Contract!contractVars
<1>1. CASE Abort
  BY <1>1, ChannelsKeptSeen DEF Abort
<1>2. CASE ~Abort
  <2>1. chans' = [i \in DOMAIN chans |->
                    IF i \in Live THEN CloseAsync(chans[i]).chan ELSE chans[i]]
    BY <1>2 DEF OnSocketClose
  <2>2. ASSUME NEW i \in DOMAIN chans
        PROVE  /\ chans'[i].calls = chans[i].calls /\ chans'[i].rpc = chans[i].rpc
               /\ chans'[i].got = chans[i].got
    <3>1. chans'[i] = chans[i] \/ chans'[i] = CloseAsync(chans[i]).chan
      BY <2>1
    <3>2. chans[i] \in ChannelStates
      BY CoreTypes
    <3> QED BY <3>1, <3>2 DEF CloseAsync, Throws, Returns, ChannelStates
  <2>3. DOMAIN chans' = DOMAIN chans
    BY <2>1
  <2>4. \A i \in Ids : SameView(i)
    BY <2>2, <2>3, ViewKept
  <2> QED BY <2>4, NothingSeen
<1> QED BY <1>1, <1>2

LEMMA StartOpenSeen ==
  ASSUME Basics, StartOpenChannel, served' = served
  PROVE  UNCHANGED Contract!contractVars
<1>1. CASE chans' = chans
  BY <1>1, ChannelsKeptSeen
<1>2. CASE chans' = Append(chans, NewChannel)
  <2>1. chans \in Seq(ChannelStates) /\ Len(chans) \in Nat /\ DOMAIN chans = 1 .. Len(chans)
    BY CoreTypes
  <2>0. PICK id : id = Len(chans) + 1
    OBVIOUS
  <2>2. /\ DOMAIN chans' = 1 .. id
        /\ \A j \in 1 .. Len(chans) : chans'[j] = chans[j]
        /\ chans'[id] = NewChannel
    BY <1>2, <2>0, <2>1, NewChannelType
  <2>3. SameView(id)
    <3>1. id \notin DOMAIN chans /\ id \in DOMAIN chans'
      BY <2>0, <2>1, <2>2
    <3> QED BY <2>2, <3>1 DEF SameView, Calls, Outcome, Answer, Of, NewChannel
  <2>4. ASSUME NEW i \in Ids, i # id
        PROVE  SameView(i)
    <3>1. CASE i \in DOMAIN chans
      BY <2>0, <2>1, <2>2, <3>1, ViewKept
    <3>2. CASE i \notin DOMAIN chans
      <4>1. i \notin DOMAIN chans'
        BY <2>0, <2>1, <2>2, <2>4, <3>2 DEF Ids
      <4> QED BY <3>2, <4>1, ViewKept
    <3> QED BY <3>1, <3>2
  <2> QED BY <2>3, <2>4, NothingSeen
<1> QED BY <1>1, <1>2 DEF StartOpenChannel

LEMMA BodyReadSeen ==
  ASSUME Known, CallInv, OnFrameBodyRead, served' = served
  PROVE  [Contract!Next]_(Contract!contractVars)
<1>0. Basics /\ CoreInv
  BY DEF Known, CallInv
<1>1. CASE ~Head(ioq).ok
  BY <1>0, <1>1, SocketCloseSeen DEF OnFrameBodyRead
<1>2. CASE Abort
  BY <1>2, ChannelsKeptSeen DEF Abort
<1>3. CASE Head(ioq).ok /\ ~Abort
  <2>1. PICK f \in Frames :
          /\ Inward(f) /\ f.kind # "Malformed" /\ f.ch # 0 /\ f.ch \in DOMAIN chans
          /\ \/ Dropped(f, DeadChannelFrame(f, Writing))
             \/ /\ f.ch \in Live /\ Survives(chans[f.ch], f)
                /\ chans' = [chans EXCEPT ![f.ch] = ProcessFrame(chans[f.ch], f).chan]
    BY <1>3, BodyMeets, Zenon
  <2>2. CASE Dropped(f, DeadChannelFrame(f, Writing))
    BY <1>3, <2>2, ChannelsKeptSeen DEF Dropped
  <2>3. CASE /\ f.ch \in Live /\ Survives(chans[f.ch], f)
             /\ chans' = [chans EXCEPT ![f.ch] = ProcessFrame(chans[f.ch], f).chan]
    <3> DEFINE i == f.ch
               c == chans[i]
               d == ProcessFrame(c, f).chan
    <3>1. /\ OpenEnds(c, d) \/ RpcEndsBy(c, f, d)
          /\ c \in ChannelStates /\ d \in ChannelStates
      BY <1>0, <2>1, <2>3, FrameMeetsPromise
    <3>2. /\ i \in DOMAIN chans /\ i \in Ids /\ DOMAIN chans' = DOMAIN chans /\ chans'[i] = d
          /\ \A j \in DOMAIN chans \ {i} : chans'[j] = chans[j]
      BY <1>0, <2>1, <2>3, <3>1, CoreTypes
    <3>3. \A j \in Ids \ {i} : SameView(j)
      BY <3>2, ViewKept
    <3>4. InwardIsDue(f)
      BY <1>0, <2>1 DEF CoreInv, InInv
    <3>5. /\ Calls(i) = c.calls /\ Outcome(i) = c.rpc /\ Answer(i) = c.got
          /\ Calls(i)' = d.calls /\ Outcome(i)' = d.rpc /\ Answer(i)' = d.got
      <4>1. /\ Calls(i)' = chans'[i].calls /\ Outcome(i)' = chans'[i].rpc
            /\ Answer(i)' = chans'[i].got
        BY <3>2 DEF Calls, Outcome, Answer, Of
      <4> QED BY <3>2, <4>1, ViewOf
    <3> HIDE DEF c, d, i
    <3>6. CASE OpenEnds(c, d)
      <4>1. d.calls = c.calls /\ d.rpc = c.rpc /\ d.got = c.got
        BY <3>1, <3>6 DEF OpenEnds, ChannelStates
      <4>2. SameView(i)
        BY <3>5, <4>1 DEF SameView
      <4> QED BY <3>3, <4>2, NothingSeen
    <3>7. CASE f.kind = "DeclareOk" /\ RpcEndsBy(c, f, d)
      <4>1. c.rpc = "pending" /\ d.calls = c.calls /\ d.rpc = "value" /\ d.got = f.tag
        BY <3>1, <3>7 DEF RpcEndsBy, ChannelStates
      <4>2. f.tag = c.calls /\ c.calls \in served[i]
        BY <3>4, <3>7 DEF InwardIsDue, c, i
      <4> QED BY <3>2, <3>3, <3>5, <4>1, <4>2, AnswerSeen DEF Contract!Next
    <3>8. CASE f.kind # "DeclareOk" /\ RpcEndsBy(c, f, d)
      <4>1. c.rpc = "pending" /\ d.calls = c.calls /\ d.rpc = "exception" /\ d.got = c.got
        BY <3>1, <3>8 DEF RpcEndsBy, ChannelStates
      <4> QED BY <3>2, <3>3, <3>5, <4>1, FailureSeen DEF Contract!Next
    <3> QED BY <3>1, <3>6, <3>7, <3>8
  <2> QED BY <2>1, <2>2, <2>3
<1> QED BY <1>1, <1>2, <1>3

LEMMA IoSeen ==
  ASSUME Known, CallInv, IoStep
  PROVE  [Contract!Next]_(Contract!contractVars)
<1>0. Basics /\ IoThread /\ served' = served
  BY DEF Known, IoStep, brokerVars
<1>1. CASE StartOpenChannel
  BY <1>0, <1>1, StartOpenSeen
<1>2. CASE RunBeginWriteFrame \/ RunReturns
  BY <1>0, <1>2, ChannelsKeptSeen DEF RunBeginWriteFrame, RunReturns
<1>3. CASE OnWriteFrame
  <2>1. CASE OnSocketClose
    BY <1>0, <2>1, SocketCloseSeen
  <2>2. CASE chans' = chans
    BY <1>0, <2>2, ChannelsKeptSeen
  <2> QED BY <1>3, <2>1, <2>2 DEF OnWriteFrame
<1>4. CASE OnFrameHeaderRead
  <2>1. CASE OnSocketClose
    BY <1>0, <2>1, SocketCloseSeen
  <2>2. CASE chans' = chans
    BY <1>0, <2>2, ChannelsKeptSeen
  <2>3. CASE Head(ioq).ok /\ ~HasBody(Head(ioq).f) /\ DispatchFrame(Head(ioq).f)
    <3>1. Abort
      BY <1>0, <1>4, <2>3, HeaderOnlyAborts DEF CallInv
    <3> QED BY <2>2, <3>1 DEF Abort
  <2> QED BY <1>4, <2>1, <2>2, <2>3 DEF OnFrameHeaderRead, Abort
<1>5. CASE OnFrameBodyRead
  BY <1>0, <1>5, BodyReadSeen
<1> QED BY <1>0, <1>1, <1>2, <1>3, <1>4, <1>5 DEF IoThread

-----------------------------------------------------------------------------
LEMMA ApplicationSeen ==
  ASSUME Known, CallInv, NEW u \in Users, Application(u)
  PROVE  [Contract!Next]_(Contract!contractVars)
<1>0. Basics /\ CoreInv
  BY DEF Known, CallInv
<1>1. served' = served
  BY DEF Application, OpenChannel, GetChannel, OpenReturns, BeginRpc, PostRpc, RpcReturns,
         DropChannel, brokerVars
<1>2. CASE chans' = chans
  BY <1>1, <1>2, ChannelsKeptSeen
<1> DEFINE c == chans[own[u]]
<1>3. CASE BeginRpc(u)
  <2>0. PICK i : i = own[u]
    OBVIOUS
  <2>1. pc[u] = "ready" /\ chans' = [chans EXCEPT ![i] = ArmRpc(c)]
    BY <1>3, <2>0 DEF BeginRpc, ChannelClosedFutureReady, At
  <2>2. i \in DOMAIN chans /\ i \in Ids /\ c \in ChannelStates /\ c.rpc # "pending"
    BY <1>0, <2>0, <2>1, ReadyChannel
  <2>3. /\ DOMAIN chans' = DOMAIN chans /\ chans'[i] = ArmRpc(c)
        /\ \A j \in DOMAIN chans \ {i} : chans'[j] = chans[j]
    BY <1>0, <2>0, <2>1, <2>2, CoreTypes
  <2>4. /\ ArmRpc(c).calls = c.calls + 1 /\ ArmRpc(c).rpc = "pending" /\ ArmRpc(c).got = 0
    BY <2>2 DEF ArmRpc, ChannelStates
  <2>5. \A j \in Ids \ {i} : SameView(j)
    BY <2>3, ViewKept
  <2>6. Calls(i) = c.calls /\ Outcome(i) = c.rpc
    BY <2>0, <2>2, ViewOf
  <2>7. Calls(i)' = ArmRpc(c).calls /\ Outcome(i)' = ArmRpc(c).rpc /\ Answer(i)' = ArmRpc(c).got
    <3>1. /\ Calls(i)' = chans'[i].calls /\ Outcome(i)' = chans'[i].rpc
          /\ Answer(i)' = chans'[i].got
      BY <2>2, <2>3 DEF Calls, Outcome, Answer, Of
    <3> QED BY <2>3, <3>1
  <2> QED BY <1>1, <2>2, <2>4, <2>5, <2>6, <2>7, CallSeen DEF Contract!Next
<1>4. CASE DropChannel(u)
  <2>0. PICK i : i = own[u]
    OBVIOUS
  <2>1. pc[u] = "ready" /\ chans' = [chans EXCEPT ![i] = Destroyed(c)]
    BY <1>4, <2>0 DEF DropChannel, At
  <2>2. i \in DOMAIN chans /\ c \in ChannelStates
    BY <1>0, <2>0, <2>1, ReadyChannel
  <2>3. /\ DOMAIN chans' = DOMAIN chans /\ chans'[i] = Destroyed(c)
        /\ \A j \in DOMAIN chans \ {i} : chans'[j] = chans[j]
    BY <1>0, <2>0, <2>1, <2>2, CoreTypes
  <2>4. Destroyed(c).calls = c.calls /\ Destroyed(c).rpc = c.rpc /\ Destroyed(c).got = c.got
    BY <2>2 DEF Destroyed, ChannelStates
  <2>5. \A j \in Ids : SameView(j)
    BY <2>0, <2>2, <2>3, <2>4, ViewKept
  <2> QED BY <1>1, <2>5, NothingSeen
<1> QED BY <1>2, <1>3, <1>4 DEF Application, OpenChannel, BeginOpenChannel, GetChannel,
            OpenReturns, PostRpc, RpcReturns, mgrVars

(* Only a request carried out by an open channel is seen.                  *)
LEMMA BrokerSeen ==
  ASSUME Known, CallInv, Broker
  PROVE  [Contract!Next]_(Contract!contractVars)
<1>0. Basics /\ CoreInv
  BY DEF Known, CallInv
<1>1. chans' = chans
  BY DEF Broker, BrokerOpens, BrokerDeclares, BrokerCloses, BrokerIsClosed, ProtocolError,
         Receives
<1>2. CASE served' = served
  BY <1>1, <1>2, ChannelsKeptSeen
<1>3. CASE BrokerDeclares /\ served' # served
  <2>1. /\ out # <<>> /\ Request.kind = "Declare"
        /\ served' = [served EXCEPT ![Request.ch] = @ \cup {Request.tag}]
    BY <1>3 DEF BrokerDeclares, Receives
  <2>2. PICK f \in RealFrames : f = Request /\ Outward(f)
    <3>1. out \in Seq(Frames)
      BY <1>0, CoreTypes
    <3>2. Request \in Frames /\ Occurs(Request, out)
      BY <2>1, <3>1, OccursInTail DEF Request
    <3>3. Request # Garbage
      BY <2>1 DEF Garbage, Frame
    <3> QED BY <3>2, <3>3 DEF Outward, Carried, RealFrames
  <2>3. /\ f.ch \in DOMAIN chans /\ f.tag \in 1 .. chans[f.ch].calls
        /\ f.tag \notin served[f.ch]
    BY <1>0, <2>1, <2>2 DEF CoreInv, OutInv, OutwardIsDue
  <2>4. f.ch \in Ids /\ Calls(f.ch) = chans[f.ch].calls
    BY <1>0, <2>3, CoreTypes, ViewOf
  <2>5. \A j \in Ids : SameView(j)
    BY <1>1, ViewKept
  <2> QED BY <2>1, <2>2, <2>3, <2>4, <2>5, ServeSeen
<1> QED BY <1>2, <1>3 DEF Broker, BrokerOpens, BrokerCloses, BrokerIsClosed, ProtocolError,
            brokerVars

LEMMA ContractStep ==
  ASSUME Known, CallInv, [Next]_vars
  PROVE  [Contract!Next]_(Contract!contractVars)
<1>1. CASE UNCHANGED vars
  BY <1>1, ChannelsKeptSeen DEF vars, mgrVars, brokerVars
<1>2. CASE ReactorStep \/ Outside
  <2>1. chans' = chans /\ served' = served
    BY <1>2 DEF ReactorStep, Reactor, HeaderArrives, BodyArrives, ReadFails, WriteCompletes,
                WriteFails, Outside, BrokerSpeaks, SocketBreaks, brokerVars
  <2> QED BY <2>1, ChannelsKeptSeen
<1> QED BY <1>1, <1>2, IoSeen, ApplicationSeen, BrokerSeen DEF Next

LEMMA ContractInit == Init => Contract!Init
<1> SUFFICES ASSUME Init
             PROVE  Contract!Init
  OBVIOUS
<1>1. DOMAIN chans = {}
  BY DEF Init, MgrInit
<1>2. \A i \in Ids : Calls(i) = 0 /\ Outcome(i) = "none" /\ Answer(i) = 0
  BY <1>1, ViewOf
<1>3. served = [i \in Ids |-> {}]
  BY DEF Init
<1> QED BY <1>2, <1>3 DEF Contract!Init, Calls, Outcome, Answer

-----------------------------------------------------------------------------
(***************************************************************************)
(* The invariant of the contract, and what a reader knows of it first: a   *)
(* request is carried out by the broker at most once, an answer meets only *)
(* the call it answers, and behind a channel.close nothing comes but its   *)
(* close-ok, whatever the threads, the network and the other kinds of      *)
(* unasked frames do (dispatch_frame, channel_impl::begin_rpc).            *)
(***************************************************************************)
THEOREM CallsAreAnswered ==
  ASSUME NoStrayMethods
  PROVE  Spec => []CallInv
BY KnownInit, KnownStep, CallInvInit, CallInvStep, PTL DEF Spec

(***************************************************************************)
(* channel_impl keeps the contract of an RPC: a call ends at most once,    *)
(* with a value only if the broker has carried out that very call, and the *)
(* value is the answer to it and not to an earlier one.                    *)
(***************************************************************************)
THEOREM ContractIsKept ==
  ASSUME NoStrayMethods
  PROVE  Spec => KeepsContract
<1>1. Init => Contract!Init
  BY ContractInit
<1>2. Known /\ CallInv /\ [Next]_vars => [Contract!Next]_(Contract!contractVars)
  BY ContractStep
<1>3. NoStrayMethods /\ Known /\ CallInv /\ [Next]_vars => CallInv'
  BY CallInvStep
<1> QED BY <1>1, <1>2, <1>3, KnownInit, KnownStep, CallInvInit, PTL
        DEF Spec, KeepsContract, Contract!Spec

=============================================================================
