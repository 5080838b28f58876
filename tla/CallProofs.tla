------------------------------ MODULE CallProofs ------------------------------
(***************************************************************************)
(* The inductive invariant behind the contract of a channel: what the      *)
(* channels, the threads that hold them, the frames under way in either    *)
(* direction and the broker know of each other.  It needs that the broker  *)
(* sends no method unasked that a pending promise would be satisfied with  *)
(* and survive: "Flow" on an open channel, "Stray" on one that is not.     *)
(***************************************************************************)
EXTENDS TransportProofs

NoStrayMethods == Unsolicited \cap {"Flow", "Stray"} = {}

(* A channel the broker has not heard of is as its constructor left it.    *)
Fresh(c) == c.live /\ c.opened = "pending" /\ c.rpc = "none"

(***************************************************************************)
(* The continuation is the one the latest promise waits for, and a thread  *)
(* that waits holds the channel.                                           *)
(***************************************************************************)
ChannelInv ==
  \A i \in DOMAIN chans :
    LET c == chans[i] IN
    /\ c.live => c.cont = IF c.rpc = "none" THEN "process_open" ELSE "rpc_handler"
    /\ c.opened = "pending" => Fresh(c)
    /\ c.rpc = "pending" => c.live
    /\ c.rpc = "none" <=> c.calls = 0

(* What the broker has done was asked for.                                 *)
PeerInv ==
  /\ \A i \in Ids : peer[i] # "none" => i \in DOMAIN chans
  /\ \A i \in DOMAIN chans : peer[i] = "none" => Fresh(chans[i])
  /\ \A i \in DOMAIN chans : served[i] \subseteq 1 .. chans[i].calls
  /\ \A i \in Ids \ DOMAIN chans : served[i] = {}

(***************************************************************************)
(* A thread's channel, by where the thread is.  A thread about to post a   *)
(* request has not posted it yet.                                          *)
(***************************************************************************)
UserDue(u) ==
  LET c == chans[Holds(u)] IN
  /\ c.live
  /\ pc[u] \in {"awaitChannel", "awaitOpen"} => c.rpc = "none"
  /\ pc[u] \in {"ready", "posting", "awaitRpc"} => c.opened # "pending"
  /\ pc[u] = "ready" => c.rpc # "pending"
  /\ pc[u] = "posting" =>
       /\ c.calls # 0 /\ c.calls \notin served[Holds(u)]
       /\ peer[Holds(u)] = "open" => c.rpc = "pending"
       /\ \A f \in RealFrames :
            Outward(f) /\ f.kind = "Declare" /\ f.ch = Holds(u) => f.tag # c.calls

UserInv == \A u \in Users : Holds(u) # 0 => UserDue(u)

(***************************************************************************)
(* Frames for the broker.  A request is on its way once, and is carried    *)
(* out by an open channel only, which waits for it.                        *)
(***************************************************************************)
OutwardIsDue(f) ==
  LET c == chans[f.ch] IN
  /\ f.kind \in ClientKinds /\ f.ch \in DOMAIN chans
  /\ f.kind = "Declare" =>
       /\ OutwardOnce(f)
       /\ f.tag \in 1 .. c.calls /\ f.tag \notin served[f.ch]
       /\ peer[f.ch] = "open" => c.rpc = "pending" /\ f.tag = c.calls
  /\ f.kind = "Close" => ~c.live

OutInv == \A f \in RealFrames : Outward(f) => OutwardIsDue(f)

(***************************************************************************)
(* Frames from the broker.  An answer meets a channel that waits for it,   *)
(* and behind channel.close nothing follows but close-ok.                  *)
(***************************************************************************)
InwardIsDue(f) ==
  LET c == chans[f.ch] IN
  /\ f.ch \in DOMAIN chans /\ peer[f.ch] # "none"
  /\ f.kind \in {"OpenOk", "DeclareOk", "Close", "CloseOk", "Unknown", "Malformed"}
  /\ f.kind = "OpenOk" => c.opened = "pending" /\ ~Behind(f, f) /\ f.tag = 0
  /\ f.kind = "DeclareOk" => /\ c.rpc = "pending" /\ f.tag = c.calls
                             /\ f.tag \in served[f.ch] /\ ~Behind(f, f)
  /\ f.kind = "Close"   => peer[f.ch] # "open"
  /\ f.kind = "CloseOk" => ~c.live

NothingAfterClose(f, g) == f.kind = "Close" /\ f.ch # 0 /\ g.ch = f.ch => g.kind = "CloseOk"

InInv ==
  /\ \A f \in Frames : Inward(f) /\ f.ch # 0 => InwardIsDue(f)
  /\ \A f, g \in Frames : Behind(f, g) => NothingAfterClose(f, g)

(***************************************************************************)
(* A header that has been looked at is that of the next frame.  Only a     *)
(* heartbeat has no body, and it is sent on channel 0.                     *)
(***************************************************************************)
HeaderInv ==
  /\ \A f \in Frames : Occurs(ReadHeader(TRUE, f), ioq) =>
       /\ ~HasBody(f) => f.ch = 0
       /\ HasBody(f)  => IF in = <<>> THEN sock = "broken" ELSE Head(in) = f
  /\ reading = "body" =>
       IF in = <<>> THEN sock = "broken" ELSE Head(in).kind # "Malformed"
  /\ \A f \in Frames : Occurs(ReadBody(TRUE, f), ioq) => f.kind # "Malformed"

CoreInv == ChannelInv /\ PeerInv /\ UserInv /\ OutInv /\ InInv

CallInv == CoreInv /\ HeaderInv

(* What is known besides, from ConnectionProofs.                           *)
Known == Basics /\ ReadInv /\ ErrorsAreReal /\ ChannelsNotShared

-----------------------------------------------------------------------------
LEMMA CoreTypes ==
  ASSUME Basics
  PROVE  /\ chans \in Seq(ChannelStates) /\ Len(chans) \in Nat /\ Len(chans) <= MaxChannelId
         /\ DOMAIN chans = 1 .. Len(chans) /\ DOMAIN chans \subseteq Ids /\ 0 \notin DOMAIN chans
         /\ \A i \in DOMAIN chans : chans[i] \in ChannelStates
         /\ \A u \in Users : Holds(u) \in 0 .. Len(chans)
         /\ \A u \in Users : Holds(u) # 0 => Holds(u) \in DOMAIN chans
         /\ peer \in [Ids -> {"none", "open", "closing", "closed"}]
         /\ served \in [Ids -> SUBSET Nat]
         /\ pc \in [Users -> PcStates] /\ own \in [Users -> 0 .. MaxChannelId]
         /\ opening \in [Users -> Promises]
         /\ ioq \in Seq(Handlers) /\ in \in Seq(Frames) /\ out \in Seq(Frames)
         /\ pend \in Seq(PendingWrites)
<1>1. /\ chans \in Seq(ChannelStates) /\ Len(chans) \in 0 .. MaxChannelId
      /\ peer \in [Ids -> {"none", "open", "closing", "closed"}]
      /\ served \in [Ids -> SUBSET Nat]
      /\ pc \in [Users -> PcStates] /\ own \in [Users -> 0 .. MaxChannelId]
      /\ opening \in [Users -> Promises]
      /\ ioq \in Seq(Handlers) /\ in \in Seq(Frames) /\ out \in Seq(Frames)
      /\ pend \in Seq(PendingWrites)
  BY DEF Basics, TypeOK, MgrTypeOK, PendingWrites
<1>2. Len(chans) \in Nat /\ Len(chans) <= MaxChannelId /\ DOMAIN chans = 1 .. Len(chans)
  BY <1>1, MaxChannelIdAssumption
<1>3. DOMAIN chans \subseteq Ids /\ 0 \notin DOMAIN chans
  BY <1>2, MaxChannelIdAssumption DEF Ids
<1>4. \A u \in Users : Holds(u) \in 0 .. Len(chans)
  BY DEF Basics, ChannelsHeld, Holds
<1>5. \A u \in Users : Holds(u) # 0 => Holds(u) \in DOMAIN chans
  BY <1>2, <1>4
<1>6. \A i \in DOMAIN chans : chans[i] \in ChannelStates
  BY <1>1
<1> QED BY <1>1, <1>2, <1>3, <1>4, <1>5, <1>6

-----------------------------------------------------------------------------
(***************************************************************************)
(* What does not change.                                                   *)
(***************************************************************************)
LEMMA SameChannels ==
  ASSUME ChannelInv, PeerInv, UNCHANGED <<chans, peer, served>>
  PROVE  ChannelInv' /\ PeerInv'
BY DEF ChannelInv, PeerInv, Fresh

LEMMA SameOut ==
  ASSUME OutInv, OutKept, UNCHANGED <<chans, peer, served>>
  PROVE  OutInv'
BY DEF OutInv, OutKept, OutwardIsDue

LEMMA SameIn ==
  ASSUME InInv, InKept, UNCHANGED <<chans, peer, served>>
  PROVE  InInv'
<1>1. ASSUME NEW f \in Frames, Inward(f)', f.ch # 0
      PROVE  InwardIsDue(f)'
  <2>1. InwardIsDue(f) /\ (Behind(f, f)' => Behind(f, f))
    BY <1>1 DEF InKept, InInv
  <2> QED BY <2>1, Zenon DEF InwardIsDue
<1>2. ASSUME NEW f \in Frames, NEW g \in Frames, Behind(f, g)'
      PROVE  NothingAfterClose(f, g)
  BY <1>2, Zenon DEF InKept, InInv
<1> QED BY <1>1, <1>2 DEF InInv, NothingAfterClose

LEMMA SameUser ==
  ASSUME NEW u \in Users, UserDue(u), OutKept, UNCHANGED <<chans, peer, served>>,
         pc'[u] = pc[u], Holds(u)' = Holds(u)
  PROVE  UserDue(u)'
BY Zenon DEF UserDue, OutKept

LEMMA SameUsers ==
  ASSUME UserInv, OutKept, UNCHANGED <<chans, peer, served, pc, own, opening>>
  PROVE  UserInv'
<1>1. \A u \in Users : Holds(u)' = Holds(u)
  BY DEF Holds
<1> QED BY <1>1, SameUser DEF UserInv

LEMMA SameCore ==
  ASSUME CoreInv, OutKept, InKept, UNCHANGED <<chans, peer, served, pc, own, opening>>
  PROVE  CoreInv'
BY SameChannels, SameOut, SameIn, SameUsers DEF CoreInv

(* A channel that stays what it is, for a thread and for frames.           *)
LEMMA UserKept ==
  ASSUME NEW u \in Users, UserDue(u), pc'[u] = pc[u], Holds(u)' = Holds(u),
         chans'[Holds(u)] = chans[Holds(u)], served'[Holds(u)] = served[Holds(u)],
         peer'[Holds(u)] = "open" => peer[Holds(u)] = "open",
         \A f \in RealFrames :
           Outward(f)' /\ f.kind = "Declare" /\ f.ch = Holds(u) => Outward(f)
  PROVE  UserDue(u)'
BY Zenon DEF UserDue

LEMMA OutwardKept ==
  ASSUME NEW f, OutwardIsDue(f), OutwardOnce(f) => OutwardOnce(f)',
         f.ch \in DOMAIN chans', chans'[f.ch] = chans[f.ch], served'[f.ch] = served[f.ch],
         peer'[f.ch] = "open" => peer[f.ch] = "open"
  PROVE  OutwardIsDue(f)'
BY Zenon DEF OutwardIsDue

LEMMA InwardKept ==
  ASSUME NEW f, InwardIsDue(f), Behind(f, f)' => Behind(f, f),
         f.ch \in DOMAIN chans', chans'[f.ch] = chans[f.ch],
         served[f.ch] \subseteq served'[f.ch],
         peer'[f.ch] # "none", peer'[f.ch] = "open" => peer[f.ch] = "open"
  PROVE  InwardIsDue(f)'
<1>1. f.tag \in served[f.ch] => f.tag \in served'[f.ch]
  OBVIOUS
<1> QED BY <1>1, Zenon DEF InwardIsDue

-----------------------------------------------------------------------------
(***************************************************************************)
(* The steps of a thread.  A thread that only moves on:                    *)
(***************************************************************************)
LEMMA ThreadMoves ==
  ASSUME Known, CoreInv, NEW u \in Users, OutKept, InKept, UNCHANGED <<chans, peer, served>>,
         \A v \in Users \ {u} : pc'[v] = pc[v] /\ Holds(v)' = Holds(v),
         Holds(u)' # 0 => UserDue(u)'
  PROVE  CoreInv'
<1>1. ASSUME NEW v \in Users, v # u, Holds(v)' # 0
      PROVE  UserDue(v)'
  <2>1. UserDue(v)
    BY <1>1 DEF CoreInv, UserInv
  <2> QED BY <1>1, <2>1, SameUser
<1>2. UserInv'
  BY <1>1 DEF UserInv
<1> QED BY <1>2, SameChannels, SameOut, SameIn DEF CoreInv

LEMMA OpenChannelCore ==
  ASSUME Known, CoreInv, NEW u \in Users, OpenChannel(u)
  PROVE  CoreInv'
<1>0. Basics
  BY DEF Known
<1>1. /\ pc' = [pc EXCEPT ![u] = "awaitChannel"]
      /\ opening' = [opening EXCEPT ![u] = Promise("pending", 0)]
      /\ ioq' = Append(ioq, StartOpen(u))
      /\ UNCHANGED <<chans, peer, served, own, pend, out, in>>
  BY DEF OpenChannel, BeginOpenChannel, Goto, brokerVars
<1>2. StartOpen(u) \in Handlers /\ StartOpen(u).h = "start_open_channel"
  BY DEF StartOpen, Handlers
<1>3. OutKept
  BY <1>0, <1>1, <1>2, PostedOutKept
<1>4. InKept
  <2>1. \A f : StartOpen(u) # ReadBody(TRUE, f)
    BY DEF StartOpen, ReadBody
  <2> QED BY <1>0, <1>1, <1>2, <2>1, PostedInKept, Zenon
<1>5. \A v \in Users \ {u} : pc'[v] = pc[v] /\ Holds(v)' = Holds(v)
  BY <1>0, <1>1, CoreTypes DEF Holds
<1>6. Holds(u)' = 0
  <2>1. /\ pc'[u] = "awaitChannel" /\ opening'[u] = Promise("pending", 0)
        /\ Promise("pending", 0).id = 0
    BY <1>0, <1>1, CoreTypes DEF Promise
  <2> QED BY <2>1 DEF Holds
<1> QED BY <1>1, <1>3, <1>4, <1>5, <1>6, ThreadMoves

LEMMA GetChannelCore ==
  ASSUME Known, CoreInv, NEW u \in Users, GetChannel(u)
  PROVE  CoreInv'
<1>0. Basics
  BY DEF Known
<1>1. /\ pc[u] = "awaitChannel" /\ UNCHANGED <<ioq, chans, opening, pend, out, in, peer, served>>
      /\ \/ own' = [own EXCEPT ![u] = opening[u].id] /\ pc' = [pc EXCEPT ![u] = "awaitOpen"]
         \/ own' = own /\ pc' = [pc EXCEPT ![u] = "idle"]
  BY DEF GetChannel, At, Goto, mgrVars, brokerVars
<1>2. OutKept /\ InKept
  BY <1>0, <1>1, SameOutKept, PostedInKept
<1>3. \A v \in Users \ {u} : pc'[v] = pc[v] /\ Holds(v)' = Holds(v)
  BY <1>0, <1>1, CoreTypes DEF Holds
<1>4. CASE own' = [own EXCEPT ![u] = opening[u].id] /\ pc' = [pc EXCEPT ![u] = "awaitOpen"]
  <2>1. pc'[u] = "awaitOpen" /\ Holds(u)' = Holds(u)
    BY <1>0, <1>1, <1>4, CoreTypes DEF Holds
  <2>2. Holds(u) # 0 => UserDue(u)
    BY DEF CoreInv, UserInv
  <2>3. Holds(u)' # 0 => UserDue(u)'
    BY <1>1, <2>1, <2>2 DEF UserDue
  <2> QED BY <1>1, <1>2, <1>3, <2>3, ThreadMoves
<1>5. CASE own' = own /\ pc' = [pc EXCEPT ![u] = "idle"]
  <2>1. own[u] = 0
    BY <1>0, <1>1 DEF Basics, ChannelsHeld
  <2>2. Holds(u)' = 0
    BY <1>0, <1>5, <2>1, CoreTypes DEF Holds
  <2> QED BY <1>1, <1>2, <1>3, <2>2, ThreadMoves
<1> QED BY <1>1, <1>4, <1>5

LEMMA ReturnsCore ==
  ASSUME Known, CoreInv, NEW u \in Users, OpenReturns(u) \/ RpcReturns(u)
  PROVE  CoreInv'
<1>0. Basics
  BY DEF Known
<1>1. /\ pc' = [pc EXCEPT ![u] = "ready"]
      /\ UNCHANGED <<ioq, chans, opening, own, pend, out, in, peer, served>>
      /\ \/ pc[u] = "awaitOpen" /\ Chan(u).opened # "pending"
         \/ pc[u] = "awaitRpc" /\ Chan(u).rpc # "pending"
  BY DEF OpenReturns, RpcReturns, ChannelClosedFutureReady, At, Goto, mgrVars, brokerVars
<1>2. OutKept /\ InKept
  BY <1>0, <1>1, SameOutKept, PostedInKept
<1>3. \A v \in Users \ {u} : pc'[v] = pc[v] /\ Holds(v)' = Holds(v)
  BY <1>0, <1>1, CoreTypes DEF Holds
<1>4. pc'[u] = "ready" /\ Holds(u) = own[u] /\ Holds(u)' = Holds(u)
  BY <1>0, <1>1, CoreTypes DEF Holds
<1>5. Holds(u) # 0 => UserDue(u)
  BY DEF CoreInv, UserInv
<1>6. Holds(u)' # 0 => UserDue(u)'
  BY <1>1, <1>4, <1>5 DEF UserDue, Chan
<1> QED BY <1>1, <1>2, <1>3, <1>6, ThreadMoves

(***************************************************************************)
(* A thread that is ready waits for nothing: nothing is on its way for it, *)
(* and the channel is its own.                                             *)
(***************************************************************************)
LEMMA ReadyChannel ==
  ASSUME Known, CoreInv, NEW u \in Users, pc[u] = "ready"
  PROVE  LET i == own[u] IN
         /\ i \in DOMAIN chans /\ i \in Ids /\ i # 0 /\ Holds(u) = i
         /\ chans[i] \in ChannelStates /\ chans[i].live /\ chans[i].opened # "pending"
         /\ chans[i].rpc # "pending" /\ peer[i] # "none"
         /\ \A v \in Users \ {u} : Holds(v) # i
         /\ \A f \in Frames : Inward(f) /\ f.ch = i => f.kind \notin {"OpenOk", "DeclareOk"}
         /\ \A f \in RealFrames : Outward(f) /\ f.ch = i /\ f.kind = "Declare" =>
              peer[i] # "open" /\ f.tag \in 1 .. chans[i].calls
<1> DEFINE i == own[u]
<1>0. Basics /\ ChannelsNotShared
  BY DEF Known
<1>1. i # 0 /\ Holds(u) = i /\ i \in DOMAIN chans
  <2>1. i # 0 /\ Holds(u) = i
    BY <1>0 DEF Basics, ChannelsHeld, Holds
  <2> QED BY <1>0, <2>1, CoreTypes
<1>2. i \in Ids /\ chans[i] \in ChannelStates
  BY <1>0, <1>1, CoreTypes
<1>3. chans[i].live /\ chans[i].opened # "pending" /\ chans[i].rpc # "pending"
  <2>1. UserDue(u)
    BY <1>1 DEF CoreInv, UserInv
  <2> QED BY <1>1, <2>1 DEF UserDue
<1>4. peer[i] # "none"
  BY <1>1, <1>3 DEF CoreInv, PeerInv, Fresh
<1>5. \A v \in Users \ {u} : Holds(v) # i
  BY <1>0, <1>1 DEF ChannelsNotShared
<1>6. ASSUME NEW f \in Frames, Inward(f), f.ch = i
      PROVE  f.kind \notin {"OpenOk", "DeclareOk"}
  <2>1. InwardIsDue(f)
    BY <1>1, <1>6 DEF CoreInv, InInv
  <2> QED BY <1>3, <1>6, <2>1 DEF InwardIsDue
<1>7. ASSUME NEW f \in RealFrames, Outward(f), f.ch = i, f.kind = "Declare"
      PROVE  peer[i] # "open" /\ f.tag \in 1 .. chans[i].calls
  <2>1. OutwardIsDue(f)
    BY <1>7 DEF CoreInv, OutInv
  <2> QED BY <1>3, <1>7, <2>1 DEF OutwardIsDue
<1> QED BY <1>1, <1>2, <1>3, <1>4, <1>5, <1>6, <1>7

LEMMA BeginRpcCore ==
  ASSUME Known, CoreInv, NEW u \in Users, BeginRpc(u)
  PROVE  CoreInv'
<1> DEFINE i == own[u]
           c == chans[i]
<1>0. Basics
  BY DEF Known
<1>1. /\ pc[u] = "ready"
      /\ chans' = [chans EXCEPT ![i] = ArmRpc(chans[i])]
      /\ pc' = [pc EXCEPT ![u] = "posting"]
      /\ UNCHANGED <<ioq, pend, out, in, opening, own, peer, served>>
  BY DEF BeginRpc, ChannelClosedFutureReady, At, Goto, brokerVars
<1>2. /\ i \in DOMAIN chans /\ i \in Ids /\ i # 0 /\ Holds(u) = i
      /\ c \in ChannelStates /\ c.live /\ c.opened # "pending"
      /\ c.rpc # "pending" /\ peer[i] # "none"
      /\ \A v \in Users \ {u} : Holds(v) # i
      /\ \A f \in Frames : Inward(f) /\ f.ch = i => f.kind \notin {"OpenOk", "DeclareOk"}
      /\ \A f \in RealFrames : Outward(f) /\ f.ch = i /\ f.kind = "Declare" =>
           peer[i] # "open" /\ f.tag \in 1 .. c.calls
  BY <1>1, ReadyChannel
<1>3. OutKept /\ InKept
  BY <1>0, <1>1, SameOutKept, PostedInKept
<1>4. /\ c.calls \in Nat
      /\ LET d == chans'[i] IN
         /\ d.live /\ d.cont = "rpc_handler" /\ d.opened = c.opened
         /\ d.rpc = "pending" /\ d.calls = c.calls + 1
      /\ DOMAIN chans' = DOMAIN chans
      /\ \A j \in DOMAIN chans \ {i} : chans'[j] = chans[j]
  <2>1. /\ DOMAIN chans' = DOMAIN chans
        /\ \A j \in DOMAIN chans \ {i} : chans'[j] = chans[j]
        /\ chans'[i] = ArmRpc(c)
    BY <1>0, <1>1, <1>2, CoreTypes
  <2> HIDE DEF c
  <2> QED BY <1>2, <2>1 DEF ArmRpc, ChannelStates
<1>5. served[i] \subseteq 1 .. c.calls
  BY <1>2 DEF CoreInv, PeerInv
<1> HIDE DEF c, i
<1>6. ChannelInv'
  <2>1. ASSUME NEW j \in DOMAIN chans
        PROVE  LET d == chans'[j] IN
               /\ d.live => d.cont = IF d.rpc = "none" THEN "process_open" ELSE "rpc_handler"
               /\ d.opened = "pending" => Fresh(d)
               /\ d.rpc = "pending" => d.live
               /\ d.rpc = "none" <=> d.calls = 0
    <3>1. CASE j = i
      BY <1>2, <1>4, <3>1
    <3>2. CASE j # i
      BY <1>4, <3>2 DEF CoreInv, ChannelInv
    <3> QED BY <3>1, <3>2
  <2> QED BY <1>4, <2>1 DEF ChannelInv, Fresh
<1>7. PeerInv'
  <2>1. \A j \in DOMAIN chans : peer[j] = "none" => Fresh(chans'[j])
    BY <1>2, <1>4 DEF CoreInv, PeerInv
  <2>2. ASSUME NEW j \in DOMAIN chans
        PROVE  served[j] \subseteq 1 .. chans'[j].calls
    <3>1. CASE j = i
      BY <1>4, <1>5, <3>1
    <3>2. CASE j # i
      BY <1>4, <3>2 DEF CoreInv, PeerInv
    <3> QED BY <3>1, <3>2
  <2> QED BY <1>1, <1>4, <2>1, <2>2 DEF CoreInv, PeerInv, Fresh
<1>8. UserInv'
  <2>1. UserDue(u)'
    <3>1. pc'[u] = "posting" /\ Holds(u)' = i
      BY <1>0, <1>1, <1>2, CoreTypes DEF Holds, i
    <3>2. c.calls + 1 # 0 /\ c.calls + 1 \notin served[i] /\ c.calls + 1 \notin 1 .. c.calls
      BY <1>4, <1>5
    <3>3. \A f \in RealFrames :
            Outward(f)' /\ f.kind = "Declare" /\ f.ch = i => f.tag # c.calls + 1
      BY <1>2, <1>3, <3>2 DEF OutKept
    <3> QED BY <1>1, <1>2, <1>4, <3>1, <3>2, <3>3 DEF UserDue
  <2>2. ASSUME NEW v \in Users, v # u, Holds(v)' # 0
        PROVE  UserDue(v)'
    <3>1. pc'[v] = pc[v] /\ Holds(v)' = Holds(v) /\ Holds(v) # i /\ Holds(v) \in DOMAIN chans
      BY <1>0, <1>1, <1>2, <2>2, CoreTypes DEF Holds
    <3>2. UserDue(v)
      BY <2>2, <3>1 DEF CoreInv, UserInv
    <3> QED BY <1>1, <1>3, <1>4, <3>1, <3>2, UserKept DEF OutKept
  <2> QED BY <2>1, <2>2 DEF UserInv
<1>9. OutInv'
  <2>1. ASSUME NEW f \in RealFrames, Outward(f)'
        PROVE  OutwardIsDue(f)'
    <3>1. OutwardIsDue(f) /\ Outward(f) /\ (OutwardOnce(f) => OutwardOnce(f)')
      BY <1>3, <2>1 DEF OutKept, CoreInv, OutInv
    <3>2. CASE f.ch # i
      BY <1>1, <1>4, <3>1, <3>2, OutwardKept DEF OutwardIsDue
    <3>3. CASE f.ch = i
      <4>1. f.kind # "Close"
        BY <1>2, <3>1, <3>3 DEF OutwardIsDue, c
      <4>2. f.kind = "Declare" => peer[i] # "open" /\ f.tag \in 1 .. c.calls + 1
        BY <1>2, <1>4, <3>1, <3>3
      <4> QED BY <1>1, <1>2, <1>4, <3>1, <3>3, <4>1, <4>2 DEF OutwardIsDue
    <3> QED BY <3>2, <3>3
  <2> QED BY <2>1 DEF OutInv
<1>10. InInv'
  <2>1. ASSUME NEW f \in Frames, Inward(f)', f.ch # 0
        PROVE  InwardIsDue(f)'
    <3>1. InwardIsDue(f) /\ Inward(f) /\ (Behind(f, f)' => Behind(f, f))
      BY <1>3, <2>1 DEF InKept, CoreInv, InInv
    <3>2. CASE f.ch # i
      BY <1>1, <1>4, <3>1, <3>2, InwardKept DEF InwardIsDue
    <3>3. CASE f.ch = i
      <4>1. f.kind \notin {"OpenOk", "DeclareOk", "CloseOk"}
        BY <1>2, <3>1, <3>3 DEF InwardIsDue, c
      <4> QED BY <1>1, <1>4, <3>1, <4>1 DEF InwardIsDue
    <3> QED BY <3>2, <3>3
  <2>2. ASSUME NEW f \in Frames, NEW g \in Frames, Behind(f, g)'
        PROVE  NothingAfterClose(f, g)
    BY <1>3, <2>2, Zenon DEF InKept, CoreInv, InInv
  <2> QED BY <2>1, <2>2 DEF InInv, NothingAfterClose
<1> QED BY <1>6, <1>7, <1>8, <1>9, <1>10 DEF CoreInv

(* A frame that no read has put there leaves what comes in alone.          *)
LEMMA WritePostedInKept ==
  ASSUME Basics, NEW f \in Frames, ioq' = Append(ioq, Write(f)), in' = in
  PROVE  InKept
<1>1. Write(f) \in Handlers
  BY HandlerTypes, Zenon
<1>2. \A g : Write(f) # ReadBody(TRUE, g)
  BY DEF Write, ReadBody
<1> QED BY <1>1, <1>2, PostedInKept, Zenon

LEMMA PostRpcCore ==
  ASSUME Known, CoreInv, NEW u \in Users, PostRpc(u)
  PROVE  CoreInv'
<1>0. Basics /\ ChannelsNotShared
  BY DEF Known
<1>1. /\ pc[u] = "posting" /\ pc' = [pc EXCEPT ![u] = "awaitRpc"]
      /\ UNCHANGED <<pend, out, in, opening, own, chans, peer, served>>
      /\ ioq' = Append(ioq, Write(Frame(own[u], "Declare", chans[own[u]].calls)))
  BY DEF PostRpc, BeginWriteMethod, At, Goto, Chan, brokerVars
<1>2. PICK i : i = own[u]
  OBVIOUS
<1>3. /\ i # 0 /\ Holds(u) = i /\ Holds(u)' = i /\ i \in DOMAIN chans
      /\ chans[i] \in ChannelStates
  <2>1. i # 0 /\ Holds(u) = i
    BY <1>0, <1>1, <1>2 DEF Basics, ChannelsHeld, Holds
  <2>2. Holds(u)' = i
    BY <1>0, <1>1, <1>2, CoreTypes DEF Holds
  <2> QED BY <1>0, <2>1, <2>2, CoreTypes
<1>4. PICK n \in Nat : n = chans[i].calls
  BY <1>3 DEF ChannelStates
<1>5. PICK g : g = Frame(i, "Declare", n)
  OBVIOUS
<1>6. /\ g \in RealFrames /\ g.ch = i /\ g.kind = "Declare" /\ g.tag = n
      /\ \A f \in RealFrames : f.kind = "Declare" /\ f.ch = i /\ f.tag = n => f = g
  <2>1. i \in Nat
    BY <1>0, <1>3, CoreTypes
  <2> QED BY <1>4, <1>5, <2>1
          DEF Frame, Frames, RealFrames, Garbage, Kinds, ClientKinds
<1>7. ioq' = Append(ioq, Write(g)) /\ g \in Frames
  BY <1>1, <1>2, <1>4, <1>5, <1>6 DEF RealFrames
<1>8. OutAdds(g) /\ InKept
  <2>1. Write(g) \in Handlers
    BY <1>7, HandlerTypes, Zenon
  <2> QED BY <1>0, <1>1, <1>7, <2>1, PostedOutKept, WritePostedInKept
<1>9. UserDue(u)
  BY <1>3 DEF CoreInv, UserInv
<1>10. UserInv'
  <2>1. UserDue(u)'
    <3>1. pc'[u] = "awaitRpc"
      BY <1>0, <1>1, CoreTypes
    <3> QED BY <1>1, <1>3, <1>9, <3>1 DEF UserDue
  <2>2. ASSUME NEW v \in Users, v # u, Holds(v)' # 0
        PROVE  UserDue(v)'
    <3>1. pc'[v] = pc[v] /\ Holds(v)' = Holds(v) /\ Holds(v) # i
      BY <1>0, <1>1, <1>3, <2>2, CoreTypes DEF Holds, ChannelsNotShared
    <3>2. UserDue(v)
      BY <2>2, <3>1 DEF CoreInv, UserInv
    <3> QED BY <1>1, <1>6, <1>8, <3>1, <3>2, UserKept DEF OutAdds
  <2> QED BY <2>1, <2>2 DEF UserInv
<1>11. OutInv'
  <2>1. ASSUME NEW f \in RealFrames, Outward(f)'
        PROVE  OutwardIsDue(f)'
    <3>1. CASE f # g
      <4>1. OutwardIsDue(f) /\ (OutwardOnce(f) => OutwardOnce(f)')
        BY <1>8, <2>1, <3>1 DEF OutAdds, CoreInv, OutInv
      <4> QED BY <1>1, <4>1, OutwardKept DEF OutwardIsDue
    <3>2. CASE f = g
      <4>1. /\ n # 0 /\ n \notin served[i] /\ (peer[i] = "open" => chans[i].rpc = "pending")
            /\ ~Outward(g)
        BY <1>1, <1>3, <1>4, <1>6, <1>9 DEF UserDue
      <4>2. OutwardOnce(g)
        BY <4>1, Zenon DEF Outward, OutwardOnce, Carried, CarriedOnce, Occurs, Once
      <4>3. OutwardOnce(g)'
        BY <1>6, <1>8, <4>1, <4>2 DEF OutAdds
      <4>4. n \in 1 .. n
        BY <1>4, <4>1
      <4> QED BY <1>1, <1>3, <1>4, <1>6, <3>2, <4>1, <4>3, <4>4 DEF OutwardIsDue, ClientKinds
    <3> QED BY <3>1, <3>2
  <2> QED BY <2>1 DEF OutInv
<1> QED BY <1>1, <1>8, <1>10, <1>11, SameChannels, SameIn DEF CoreInv

LEMMA DropChannelCore ==
  ASSUME Known, CoreInv, NEW u \in Users, DropChannel(u)
  PROVE  CoreInv'
<1>0. Basics
  BY DEF Known
<1>1. /\ pc[u] = "ready"
      /\ chans' = [chans EXCEPT ![own[u]] = Destroyed(chans[own[u]])]
      /\ ioq' = Append(ioq, Write(Frame(own[u], "Close", 0)))
      /\ pc' = [pc EXCEPT ![u] = "idle"] /\ own' = [own EXCEPT ![u] = 0]
      /\ UNCHANGED <<pend, out, in, opening, peer, served>>
  BY DEF DropChannel, BeginWriteMethod, At, Goto, brokerVars
<1>2. PICK i : i = own[u]
  OBVIOUS
<1> DEFINE c == chans[i]
<1>3. /\ i \in DOMAIN chans /\ i \in Ids /\ i # 0 /\ Holds(u) = i
      /\ c \in ChannelStates /\ c.live /\ c.opened # "pending"
      /\ c.rpc # "pending" /\ peer[i] # "none"
      /\ \A v \in Users \ {u} : Holds(v) # i
      /\ \A f \in Frames : Inward(f) /\ f.ch = i => f.kind \notin {"OpenOk", "DeclareOk"}
      /\ \A f \in RealFrames : Outward(f) /\ f.ch = i /\ f.kind = "Declare" =>
           peer[i] # "open" /\ f.tag \in 1 .. c.calls
  BY <1>1, <1>2, ReadyChannel
<1>4. PICK g : g = Frame(i, "Close", 0)
  OBVIOUS
<1>5. g \in RealFrames /\ g.ch = i /\ g.kind = "Close" /\ g \in Frames
  <2>1. i \in Nat
    BY <1>0, <1>3, CoreTypes
  <2> QED BY <1>4, <2>1 DEF Frame, Frames, RealFrames, Garbage, Kinds, ClientKinds
<1>6. OutAdds(g) /\ InKept
  <2>1. Write(g) \in Handlers
    BY <1>5, HandlerTypes, Zenon
  <2>2. ioq' = Append(ioq, Write(g))
    BY <1>1, <1>2, <1>4
  <2> QED BY <1>0, <1>1, <1>5, <2>1, <2>2, PostedOutKept, WritePostedInKept
<1>7. /\ LET d == chans'[i] IN
         ~d.live /\ d.opened = c.opened /\ d.rpc = c.rpc /\ d.calls = c.calls
      /\ DOMAIN chans' = DOMAIN chans
      /\ \A j \in DOMAIN chans \ {i} : chans'[j] = chans[j]
  <2>1. /\ DOMAIN chans' = DOMAIN chans
        /\ \A j \in DOMAIN chans \ {i} : chans'[j] = chans[j]
        /\ chans'[i] = Destroyed(c)
    BY <1>0, <1>1, <1>2, <1>3, CoreTypes
  <2> HIDE DEF c
  <2> QED BY <1>3, <2>1 DEF Destroyed, ChannelStates
<1> HIDE DEF c
<1>8. ChannelInv'
  <2>1. ASSUME NEW j \in DOMAIN chans
        PROVE  LET d == chans'[j] IN
               /\ d.live => d.cont = IF d.rpc = "none" THEN "process_open" ELSE "rpc_handler"
               /\ d.opened = "pending" => Fresh(d)
               /\ d.rpc = "pending" => d.live
               /\ d.rpc = "none" <=> d.calls = 0
    <3>1. CASE j = i
      BY <1>3, <1>7, <3>1 DEF CoreInv, ChannelInv, c
    <3>2. CASE j # i
      BY <1>7, <3>2 DEF CoreInv, ChannelInv
    <3> QED BY <3>1, <3>2
  <2> QED BY <1>7, <2>1 DEF ChannelInv, Fresh
<1>9. PeerInv'
  <2>1. ASSUME NEW j \in DOMAIN chans
        PROVE  /\ peer[j] = "none" => Fresh(chans'[j])
               /\ served[j] \subseteq 1 .. chans'[j].calls
    <3>1. CASE j = i
      BY <1>3, <1>7, <3>1 DEF CoreInv, PeerInv, c
    <3>2. CASE j # i
      BY <1>7, <3>2 DEF CoreInv, PeerInv
    <3> QED BY <3>1, <3>2
  <2> QED BY <1>1, <1>7, <2>1 DEF CoreInv, PeerInv, Fresh
<1>10. UserInv'
  <2>1. Holds(u)' = 0
    BY <1>0, <1>1, CoreTypes DEF Holds
  <2>2. ASSUME NEW v \in Users, v # u, Holds(v)' # 0
        PROVE  UserDue(v)'
    <3>1. pc'[v] = pc[v] /\ Holds(v)' = Holds(v) /\ Holds(v) # i /\ Holds(v) \in DOMAIN chans
      BY <1>0, <1>1, <1>3, <2>2, CoreTypes DEF Holds
    <3>2. UserDue(v)
      BY <2>2, <3>1 DEF CoreInv, UserInv
    <3> QED BY <1>1, <1>5, <1>6, <1>7, <3>1, <3>2, UserKept DEF OutAdds
  <2> QED BY <2>1, <2>2 DEF UserInv
<1>11. OutInv'
  <2>1. ASSUME NEW f \in RealFrames, Outward(f)', f # g
        PROVE  OutwardIsDue(f)'
    <3>1. OutwardIsDue(f) /\ Outward(f) /\ (OutwardOnce(f) => OutwardOnce(f)')
      BY <1>6, <2>1 DEF OutAdds, CoreInv, OutInv
    <3>2. CASE f.ch # i
      BY <1>1, <1>7, <3>1, <3>2, OutwardKept DEF OutwardIsDue
    <3>3. CASE f.ch = i
      <4>1. f.kind = "Declare" => peer[i] # "open" /\ f.tag \in 1 .. c.calls
        BY <1>3, <3>1, <3>3
      <4> QED BY <1>1, <1>3, <1>7, <3>1, <3>3, <4>1 DEF OutwardIsDue
    <3> QED BY <3>2, <3>3
  <2>2. OutwardIsDue(g)'
    BY <1>3, <1>5, <1>7 DEF OutwardIsDue, ClientKinds
  <2> QED BY <2>1, <2>2 DEF OutInv
<1>12. InInv'
  <2>1. ASSUME NEW f \in Frames, Inward(f)', f.ch # 0
        PROVE  InwardIsDue(f)'
    <3>1. InwardIsDue(f) /\ Inward(f) /\ (Behind(f, f)' => Behind(f, f))
      BY <1>6, <2>1 DEF InKept, CoreInv, InInv
    <3>2. CASE f.ch # i
      BY <1>1, <1>7, <3>1, <3>2, InwardKept DEF InwardIsDue
    <3>3. CASE f.ch = i
      <4>1. f.kind \notin {"OpenOk", "DeclareOk"}
        BY <1>3, <3>1, <3>3
      <4> QED BY <1>1, <1>7, <3>1, <3>3, <4>1 DEF InwardIsDue
    <3> QED BY <3>2, <3>3
  <2>2. ASSUME NEW f \in Frames, NEW g2 \in Frames, Behind(f, g2)'
        PROVE  NothingAfterClose(f, g2)
    BY <1>6, <2>2, Zenon DEF InKept, CoreInv, InInv
  <2> QED BY <2>1, <2>2 DEF InInv, NothingAfterClose
<1> QED BY <1>8, <1>9, <1>10, <1>11, <1>12 DEF CoreInv

LEMMA ApplicationCore ==
  ASSUME Known, CoreInv, NEW u \in Users, Application(u)
  PROVE  CoreInv'
BY OpenChannelCore, GetChannelCore, ReturnsCore, BeginRpcCore, PostRpcCore, DropChannelCore
   DEF Application

-----------------------------------------------------------------------------
(***************************************************************************)
(* The steps of the broker.  What it reads is the first frame on the wire. *)
(***************************************************************************)
Reads(f) ==
  /\ f = Request /\ f \in RealFrames /\ Outward(f) /\ Legal(f) /\ OutTakes(f)
  /\ UNCHANGED <<ioq, chans, pend, pc, own, opening>>

LEMMA ReceivesReads ==
  ASSUME Known, CoreInv, NEW kind \in ClientKinds, Receives(kind)
  PROVE  \E f \in RealFrames : /\ Reads(f) /\ f.kind = kind /\ OutwardIsDue(f)
                               /\ f.ch \in DOMAIN chans /\ f.ch \in Ids /\ f.ch # 0
                               /\ chans[f.ch] \in ChannelStates /\ f.ch \in Nat
<1>0. Basics
  BY DEF Known
<1>1. /\ out # <<>> /\ out' = Tail(out) /\ Request.kind = kind /\ Legal(Request)
      /\ UNCHANGED <<ioq, chans, pend, pc, own, opening>>
  BY DEF Receives, userVars
<1>2. PICK f : f = Request
  OBVIOUS
<1>3. out \in Seq(Frames) /\ f \in Frames /\ out[1] = f /\ 1 \in DOMAIN out
  BY <1>0, <1>1, <1>2, CoreTypes DEF Request
<1>4. f \in RealFrames
  BY <1>1, <1>2, <1>3 DEF RealFrames, Garbage, Frame, ClientKinds
<1>5. Outward(f)
  BY <1>3, Zenon DEF Outward, Carried, Occurs
<1>6. OutTakes(f)
  BY <1>0, <1>1, <1>2, <1>3, ReceivedOutTakes
<1>7. OutwardIsDue(f)
  BY <1>4, <1>5 DEF CoreInv, OutInv
<1>8. f.ch \in DOMAIN chans /\ f.ch \in Ids /\ f.ch # 0 /\ chans[f.ch] \in ChannelStates
      /\ f.ch \in Nat
  BY <1>0, <1>3, <1>7, CoreTypes DEF OutwardIsDue, Frames
<1> QED BY <1>1, <1>2, <1>4, <1>5, <1>6, <1>7, <1>8 DEF Reads

(***************************************************************************)
(* What follows for the threads and for the frames on their way when the   *)
(* broker changes the state of channel i, and closes it if at all, and     *)
(* sends h to the channel.                                                 *)
(***************************************************************************)
LEMMA PeerOut ==
  ASSUME OutInv, OutKept, UNCHANGED <<chans, served>>, NEW i,
         \A j \in DOMAIN chans \ {i} : peer'[j] = peer[j],
         \A f \in RealFrames : Outward(f) /\ f.kind = "Declare" /\ f.ch = i =>
                                 (peer'[i] = "open" => peer[i] = "open")
  PROVE  OutInv'
<1>1. ASSUME NEW f \in RealFrames, Outward(f)'
      PROVE  OutwardIsDue(f)'
  <2>1. OutwardIsDue(f) /\ Outward(f) /\ (OutwardOnce(f) => OutwardOnce(f)')
    BY <1>1 DEF OutKept, OutInv
  <2>2. f.ch \in DOMAIN chans
    BY <2>1 DEF OutwardIsDue
  <2>3. f.kind = "Declare" => (peer'[f.ch] = "open" => peer[f.ch] = "open")
    BY <1>1, <2>1, <2>2
  <2> QED BY <2>1, <2>3, Zenon DEF OutwardIsDue
<1> QED BY <1>1 DEF OutInv

LEMMA PeerUsers ==
  ASSUME UserInv, OutKept, UNCHANGED <<chans, served, pc, own, opening>>,
         \A u \in Users : Holds(u) # 0 /\ pc[u] = "posting" /\ peer'[Holds(u)] = "open"
                            => peer[Holds(u)] = "open"
  PROVE  UserInv'
<1>1. \A u \in Users : Holds(u)' = Holds(u)
  BY DEF Holds
<1>2. ASSUME NEW u \in Users, Holds(u)' # 0
      PROVE  UserDue(u)'
  <2>1. UserDue(u) /\ Holds(u)' = Holds(u) /\ pc'[u] = pc[u]
    BY <1>1, <1>2 DEF UserInv
  <2>2. pc[u] = "posting" /\ peer'[Holds(u)] = "open" => peer[Holds(u)] = "open"
    BY <1>2, <2>1
  <2> QED BY <2>1, <2>2, Zenon DEF UserDue, OutKept
<1> QED BY <1>2 DEF UserInv

LEMMA SentIn ==
  ASSUME InInv, NEW h \in Frames, InAdds(h), UNCHANGED chans,
         \A j \in DOMAIN chans : /\ peer[j] # "none" => peer'[j] # "none"
                                 /\ peer'[j] = "open" => peer[j] \in {"open", "none"}
                                 /\ served[j] \subseteq served'[j],
         h.ch # 0 => /\ InwardIsDue(h)'
                     /\ \A f \in Frames : Inward(f) /\ f.ch = h.ch
                                          => NothingAfterClose(f, h)
  PROVE  InInv'
<1>1. ASSUME NEW f \in Frames, Inward(f)', f.ch # 0, f # h
      PROVE  InwardIsDue(f)'
  <2>1. InwardIsDue(f) /\ (Behind(f, f)' => Behind(f, f))
    BY <1>1 DEF InAdds, InInv
  <2>2. /\ f.ch \in DOMAIN chans /\ peer[f.ch] # "none" /\ peer'[f.ch] # "none"
        /\ peer'[f.ch] = "open" => peer[f.ch] = "open"
        /\ served[f.ch] \subseteq served'[f.ch]
    BY <2>1 DEF InwardIsDue
  <2> QED BY <2>1, <2>2, InwardKept
<1>2. ASSUME NEW f \in Frames, Inward(f)', f.ch # 0, f = h
      PROVE  InwardIsDue(f)'
  BY <1>2
<1>3. ASSUME NEW f \in Frames, NEW g \in Frames, Behind(f, g)'
      PROVE  NothingAfterClose(f, g)
  <2>1. CASE Behind(f, g)
    BY <2>1 DEF InInv
  <2>2. CASE g = h /\ Inward(f)
    BY <2>2 DEF NothingAfterClose
  <2> QED BY <1>3, <2>1, <2>2 DEF InAdds
<1> QED BY <1>1, <1>2, <1>3 DEF InInv, NothingAfterClose

(* Frames h sent by the broker: the frame is the only one of its kind      *)
(* unless another has been on its way already.                             *)
LEMMA NotBehind ==
  ASSUME NEW h \in Frames, InAdds(h), ~Inward(h)
  PROVE  ~Behind(h, h)'
BY BehindIsInward DEF InAdds

LEMMA SentFrame ==
  ASSUME Basics, NEW i \in Nat, NEW kind \in BrokerKinds, NEW tag \in Nat,
         Sends(i, kind, tag), UNCHANGED ioq
  PROVE  \E h \in Frames : h = Frame(i, kind, tag) /\ InAdds(h) /\ h.ch = i /\ h.kind = kind
                           /\ h.tag = tag
<1>1. PICK h : h = Frame(i, kind, tag)
  OBVIOUS
<1>2. h \in Frames /\ h.ch = i /\ h.kind = kind /\ h.tag = tag
  BY <1>1 DEF Frame, Frames, Kinds
<1>3. InAdds(h)
  BY <1>1, <1>2, SentInAdds DEF Sends
<1> QED BY <1>1, <1>2, <1>3

LEMMA BrokerOpensCore ==
  ASSUME Known, CoreInv, BrokerOpens
  PROVE  CoreInv'
<1>0. Basics
  BY DEF Known
<1>1. PICK f \in RealFrames :
        /\ Reads(f) /\ f.kind = "Open" /\ OutwardIsDue(f)
        /\ f.ch \in DOMAIN chans /\ f.ch \in Ids /\ f.ch # 0
        /\ chans[f.ch] \in ChannelStates /\ f.ch \in Nat
  BY ReceivesReads DEF BrokerOpens, ClientKinds
<1>2. PICK i : i = f.ch
  OBVIOUS
<1>3. /\ i = Request.ch /\ i \in DOMAIN chans /\ i \in Ids /\ i # 0 /\ i \in Nat
      /\ peer[i] = "none" /\ Fresh(chans[i]) /\ OutKept
      /\ UNCHANGED <<ioq, chans, pend, pc, own, opening, served>>
  <2>1. Legal(f) /\ f.kind = "Open"
    BY <1>1 DEF Reads
  <2>2. peer[i] = "none"
    BY <1>2, <2>1 DEF Legal
  <2> QED BY <1>1, <1>2, <2>2 DEF Reads, OutTakes, BrokerOpens, CoreInv, PeerInv
<1>4. PICK h \in Frames :
        /\ InAdds(h) /\ h.ch = i
        /\ \/ h.kind = "OpenOk" /\ h.tag = 0 /\ peer' = [peer EXCEPT ![i] = "open"]
           \/ h.kind = "Close" /\ peer' = [peer EXCEPT ![i] = "closing"]
  <2>1. CASE Sends(i, "OpenOk", 0) /\ Peer(i, "open")
    BY <1>0, <1>3, <2>1, SentFrame DEF BrokerKinds, Peer
  <2>2. CASE Sends(i, "Close", 0) /\ Peer(i, "closing")
    BY <1>0, <1>3, <2>2, SentFrame DEF BrokerKinds, Peer
  <2> QED BY <1>3, <2>1, <2>2 DEF BrokerOpens
<1>5. /\ peer'[i] # "none" /\ (h.kind = "Close" => peer'[i] # "open")
      /\ \A j \in Ids \ {i} : peer'[j] = peer[j]
      /\ DOMAIN chans \subseteq Ids
  BY <1>0, <1>3, <1>4, CoreTypes
<1>6. ChannelInv'
  BY <1>3 DEF CoreInv, ChannelInv, Fresh
<1>7. PeerInv'
  <2>1. \A j \in DOMAIN chans : peer'[j] = "none" => Fresh(chans[j])
    BY <1>5 DEF CoreInv, PeerInv
  <2>2. \A j \in Ids : peer'[j] # "none" => j \in DOMAIN chans
    BY <1>3, <1>5 DEF CoreInv, PeerInv
  <2> QED BY <1>3, <2>1, <2>2 DEF CoreInv, PeerInv, Fresh
<1>8. UserInv'
  <2>1. ASSUME NEW u \in Users, Holds(u) # 0, pc[u] = "posting"
        PROVE  peer'[Holds(u)] = peer[Holds(u)]
    <3>1. chans[Holds(u)].opened # "pending" /\ Holds(u) \in DOMAIN chans
      BY <1>0, <2>1, CoreTypes DEF CoreInv, UserInv, UserDue
    <3> QED BY <1>3, <1>5, <3>1 DEF Fresh
  <2> QED BY <1>3, <2>1, PeerUsers DEF CoreInv
<1>9. OutInv'
  <2>1. ASSUME NEW g \in RealFrames, Outward(g), g.kind = "Declare", g.ch = i
        PROVE  FALSE
    <3>1. g.tag \in 1 .. chans[i].calls
      BY <2>1 DEF CoreInv, OutInv, OutwardIsDue
    <3>2. chans[i].calls = 0
      BY <1>3 DEF CoreInv, ChannelInv, Fresh
    <3> QED BY <3>1, <3>2
  <2> QED BY <1>3, <1>5, <2>1, PeerOut DEF CoreInv
<1>10. InInv'
  <2>1. ASSUME NEW g \in Frames, Inward(g), g.ch = i
        PROVE  FALSE
    BY <1>3, <2>1 DEF CoreInv, InInv, InwardIsDue
  <2>2. ~Behind(h, h)'
    BY <1>4, <2>1, NotBehind
  <2>3. InwardIsDue(h)'
    BY <1>3, <1>4, <1>5, <2>2 DEF InwardIsDue, Fresh
  <2>4. \A j \in DOMAIN chans : /\ peer[j] # "none" => peer'[j] # "none"
                                /\ peer'[j] = "open" => peer[j] \in {"open", "none"}
                                /\ served[j] \subseteq served'[j]
    BY <1>3, <1>5
  <2> QED BY <1>3, <1>4, <2>1, <2>3, <2>4, SentIn DEF CoreInv
<1> QED BY <1>6, <1>7, <1>8, <1>9, <1>10 DEF CoreInv

(* The request is carried out.                                             *)
LEMMA ServesCore ==
  ASSUME Known, CoreInv, NEW f \in RealFrames, Reads(f), f.kind = "Declare",
         peer[f.ch] = "open", Sends(f.ch, "DeclareOk", f.tag),
         served' = [served EXCEPT ![f.ch] = @ \cup {f.tag}], peer' = peer
  PROVE  CoreInv'
<1>0. Basics
  BY DEF Known
<1>1. PICK i : i = f.ch
  OBVIOUS
<1>2. PICK n : n = f.tag
  OBVIOUS
<1>3. /\ OutwardIsDue(f) /\ Outward(f) /\ OutKept /\ ~Outward(f)'
      /\ UNCHANGED <<ioq, chans, pend, pc, own, opening, peer>>
  <2>1. OutwardIsDue(f) /\ Outward(f)
    BY DEF Reads, CoreInv, OutInv
  <2> QED BY <2>1 DEF Reads, OutTakes, OutwardIsDue
<1>4. /\ i \in DOMAIN chans /\ i \in Ids /\ i # 0 /\ i \in Nat /\ n \in Nat
      /\ n \in 1 .. chans[i].calls /\ n \notin served[i] /\ n = chans[i].calls
      /\ chans[i].rpc = "pending" /\ peer[i] = "open"
  BY <1>0, <1>1, <1>2, <1>3, CoreTypes DEF OutwardIsDue, RealFrames, Frames
<1>5. /\ served'[i] = served[i] \cup {n}
      /\ \A j \in Ids \ {i} : served'[j] = served[j]
      /\ DOMAIN chans \subseteq Ids
  BY <1>0, <1>1, <1>2, <1>4, CoreTypes
<1>6. PICK h \in Frames : InAdds(h) /\ h.ch = i /\ h.kind = "DeclareOk" /\ h.tag = n
  BY <1>0, <1>1, <1>2, <1>3, <1>4, SentFrame DEF BrokerKinds
<1>7. ChannelInv'
  BY <1>3 DEF CoreInv, ChannelInv, Fresh
<1>8. PeerInv'
  <2>1. \A j \in DOMAIN chans : served'[j] \subseteq 1 .. chans[j].calls
    BY <1>4, <1>5 DEF CoreInv, PeerInv
  <2>2. \A j \in Ids \ DOMAIN chans : served'[j] = {}
    BY <1>4, <1>5 DEF CoreInv, PeerInv
  <2> QED BY <1>3, <2>1, <2>2 DEF CoreInv, PeerInv, Fresh
<1>9. UserInv'
  <2>1. ASSUME NEW u \in Users, Holds(u)' # 0
        PROVE  UserDue(u)'
    <3>1. Holds(u)' = Holds(u) /\ Holds(u) \in DOMAIN chans /\ pc'[u] = pc[u]
      BY <1>0, <1>3, <2>1, CoreTypes DEF Holds
    <3>2. UserDue(u)
      BY <2>1, <3>1 DEF CoreInv, UserInv
    <3>3. pc[u] = "posting" => Holds(u) # i
      BY <1>1, <1>2, <1>3, <1>4, <3>2 DEF UserDue
    <3>4. pc[u] = "posting" => served'[Holds(u)] = served[Holds(u)]
      BY <1>5, <3>1, <3>3
    <3> QED BY <1>3, <3>1, <3>2, <3>4, Zenon DEF UserDue, OutKept
  <2> QED BY <2>1 DEF UserInv
<1>10. OutInv'
  <2>1. ASSUME NEW g \in RealFrames, Outward(g)'
        PROVE  OutwardIsDue(g)'
    <3>1. OutwardIsDue(g) /\ Outward(g) /\ (OutwardOnce(g) => OutwardOnce(g)') /\ g # f
      BY <1>3, <2>1 DEF OutKept, CoreInv, OutInv
    <3>2. CASE g.kind = "Declare" /\ g.ch = i
      <4>1. g.tag = n
        BY <1>4, <3>1, <3>2 DEF OutwardIsDue
      <4>2. g = f
        BY <1>1, <1>2, <3>2, <4>1 DEF RealFrames, Frames
      <4> QED BY <3>1, <4>2
    <3>3. CASE g.kind # "Declare"
      BY <1>3, <3>1, <3>3, Zenon DEF OutwardIsDue
    <3>4. CASE g.ch # i
      <4>1. served'[g.ch] = served[g.ch]
        BY <1>5, <3>1, <3>4 DEF OutwardIsDue
      <4> QED BY <1>3, <3>1, <4>1, OutwardKept DEF OutwardIsDue
    <3> QED BY <3>2, <3>3, <3>4
  <2> QED BY <2>1 DEF OutInv
<1>11. InInv'
  <2>1. ASSUME NEW g \in Frames, Inward(g), g.ch = i
        PROVE  g.kind # "Close" /\ g # h
    BY <1>4, <1>6, <2>1 DEF CoreInv, InInv, InwardIsDue
  <2>2. ~Behind(h, h)'
    BY <1>6, <2>1, NotBehind
  <2>3. InwardIsDue(h)'
    BY <1>3, <1>4, <1>5, <1>6, <2>2 DEF InwardIsDue
  <2>4. \A j \in DOMAIN chans : /\ peer[j] # "none" => peer'[j] # "none"
                                /\ peer'[j] = "open" => peer[j] \in {"open", "none"}
                                /\ served[j] \subseteq served'[j]
    BY <1>3, <1>5
  <2> QED BY <1>3, <1>6, <2>1, <2>3, <2>4, SentIn DEF CoreInv, NothingAfterClose
<1> QED BY <1>7, <1>8, <1>9, <1>10, <1>11 DEF CoreInv

(***************************************************************************)
(* channel.close, in answer to a request or unasked, on an open channel;   *)
(* and any other frame that is no answer.                                  *)
(***************************************************************************)
LEMMA CloseSentCore ==
  ASSUME Known, CoreInv, OutKept, UNCHANGED <<ioq, chans, pend, pc, own, opening, served>>,
         NEW i \in Ids, NEW h \in Frames, InAdds(h), h.ch = i,
         \/ /\ peer[i] = "open" /\ h.kind \in {"Unknown", "Malformed"} /\ peer' = peer
         \/ /\ peer[i] = "open" /\ h.kind = "Close" /\ peer' = [peer EXCEPT ![i] = "closing"]
         \/ /\ peer[i] \in {"open", "closing"} /\ h.kind = "CloseOk" /\ ~chans[i].live
            /\ \E where \in {"closed", "closing"} : peer' = [peer EXCEPT ![i] = where]
  PROVE  CoreInv'
<1>0. Basics
  BY DEF Known
<1>1. /\ i \in DOMAIN chans /\ peer[i] \in {"open", "closing"} /\ peer'[i] # "none"
      /\ peer'[i] = "open" => peer[i] = "open"
      /\ h.kind = "Close" => peer'[i] # "open"
      /\ \A j \in Ids \ {i} : peer'[j] = peer[j]
      /\ DOMAIN chans \subseteq Ids
  BY <1>0, CoreTypes DEF CoreInv, PeerInv
<1>2. ChannelInv'
  BY DEF CoreInv, ChannelInv, Fresh
<1>3. PeerInv'
  BY <1>1 DEF CoreInv, PeerInv, Fresh
<1>4. UserInv'
  <2>1. ASSUME NEW u \in Users, Holds(u) # 0, peer'[Holds(u)] = "open"
        PROVE  peer[Holds(u)] = "open"
    <3>1. Holds(u) \in DOMAIN chans
      BY <1>0, <2>1, CoreTypes
    <3> QED BY <1>1, <2>1, <3>1
  <2> QED BY <2>1, PeerUsers DEF CoreInv
<1>5. OutInv'
  BY <1>1, PeerOut DEF CoreInv
<1>6. InInv'
  <2>1. ASSUME NEW g \in Frames, Inward(g), g.ch = i
        PROVE  NothingAfterClose(g, h)
    <3>1. g.kind = "Close" /\ g.ch # 0 => peer[i] # "open"
      BY <2>1 DEF CoreInv, InInv, InwardIsDue
    <3> QED BY <2>1, <3>1 DEF NothingAfterClose
  <2>2. InwardIsDue(h)'
    BY <1>1 DEF InwardIsDue
  <2>3. \A j \in DOMAIN chans : /\ peer[j] # "none" => peer'[j] # "none"
                                /\ peer'[j] = "open" => peer[j] \in {"open", "none"}
                                /\ served[j] \subseteq served'[j]
    BY <1>1
  <2> QED BY <2>1, <2>2, <2>3, SentIn DEF CoreInv
<1> QED BY <1>2, <1>3, <1>4, <1>5, <1>6 DEF CoreInv

LEMMA BrokerDeclaresCore ==
  ASSUME Known, CoreInv, BrokerDeclares
  PROVE  CoreInv'
<1>0. Basics
  BY DEF Known
<1>1. PICK f \in RealFrames :
        /\ Reads(f) /\ f.kind = "Declare" /\ OutwardIsDue(f)
        /\ f.ch \in DOMAIN chans /\ f.ch \in Ids /\ f.ch # 0
        /\ chans[f.ch] \in ChannelStates /\ f.ch \in Nat
  BY ReceivesReads DEF BrokerDeclares, ClientKinds
<1>2. f = Request /\ OutKept /\ UNCHANGED <<ioq, chans, pend, pc, own, opening>>
  BY <1>1 DEF Reads, OutTakes
<1>3. CASE /\ peer[f.ch] = "open" /\ Sends(f.ch, "DeclareOk", f.tag)
           /\ served' = [served EXCEPT ![f.ch] = @ \cup {f.tag}] /\ peer' = peer
  BY <1>1, <1>3, ServesCore
<1>4. CASE /\ peer[f.ch] = "open" /\ Sends(f.ch, "Close", 0) /\ Peer(f.ch, "closing")
           /\ served' = served
  <2>1. PICK h \in Frames : InAdds(h) /\ h.ch = f.ch /\ h.kind = "Close"
    BY <1>0, <1>1, <1>2, <1>4, SentFrame DEF BrokerKinds
  <2> QED BY <1>1, <1>2, <1>4, <2>1, CloseSentCore DEF Peer
<1>5. CASE UNCHANGED <<in, peer, served>>
  BY <1>0, <1>2, <1>5, PostedInKept, SameCore
<1> QED BY <1>2, <1>3, <1>4, <1>5 DEF BrokerDeclares

LEMMA BrokerClosesCore ==
  ASSUME Known, CoreInv, BrokerCloses
  PROVE  CoreInv'
<1>0. Basics
  BY DEF Known
<1>1. PICK f \in RealFrames :
        /\ Reads(f) /\ f.kind = "Close" /\ OutwardIsDue(f)
        /\ f.ch \in DOMAIN chans /\ f.ch \in Ids /\ f.ch # 0
        /\ chans[f.ch] \in ChannelStates /\ f.ch \in Nat
  BY ReceivesReads DEF BrokerCloses, ClientKinds
<1>2. /\ f = Request /\ OutKept /\ UNCHANGED <<ioq, chans, pend, pc, own, opening, served>>
      /\ peer[f.ch] \in {"open", "closing"} /\ ~chans[f.ch].live
  BY <1>1 DEF Reads, OutTakes, BrokerCloses, Legal, OutwardIsDue
<1>3. PICK h \in Frames : InAdds(h) /\ h.ch = f.ch /\ h.kind = "CloseOk"
  BY <1>0, <1>1, <1>2, SentFrame DEF BrokerCloses, BrokerKinds
<1>4. \E where \in {"closed", "closing"} : peer' = [peer EXCEPT ![f.ch] = where]
  BY <1>2 DEF BrokerCloses, Peer
<1> QED BY <1>1, <1>2, <1>3, <1>4, CloseSentCore

LEMMA BrokerIsClosedCore ==
  ASSUME Known, CoreInv, BrokerIsClosed
  PROVE  CoreInv'
<1>0. Basics
  BY DEF Known
<1>1. PICK f \in RealFrames :
        /\ Reads(f) /\ f.kind = "CloseOk" /\ OutwardIsDue(f)
        /\ f.ch \in DOMAIN chans /\ f.ch \in Ids
  BY ReceivesReads DEF BrokerIsClosed, ClientKinds
<1>2. /\ f = Request /\ OutKept
      /\ UNCHANGED <<ioq, chans, pend, pc, own, opening, served, in>>
      /\ peer[f.ch] = "closing" /\ peer' = [peer EXCEPT ![f.ch] = "closed"]
  BY <1>1 DEF Reads, OutTakes, BrokerIsClosed, Legal, Peer
<1>3. InKept
  BY <1>0, <1>2, PostedInKept
<1>4. /\ peer'[f.ch] = "closed" /\ \A j \in Ids \ {f.ch} : peer'[j] = peer[j]
      /\ DOMAIN chans \subseteq Ids
  BY <1>0, <1>1, <1>2, CoreTypes
<1>5. ChannelInv'
  BY <1>2 DEF CoreInv, ChannelInv, Fresh
<1>6. PeerInv'
  BY <1>1, <1>2, <1>4 DEF CoreInv, PeerInv, Fresh
<1>7. UserInv'
  <2>1. ASSUME NEW u \in Users, Holds(u) # 0, peer'[Holds(u)] = "open"
        PROVE  peer[Holds(u)] = "open"
    <3>1. Holds(u) \in DOMAIN chans
      BY <1>0, <2>1, CoreTypes
    <3> QED BY <1>4, <2>1, <3>1
  <2> QED BY <1>2, <2>1, PeerUsers DEF CoreInv
<1>8. OutInv'
  BY <1>2, <1>4, PeerOut DEF CoreInv
<1>9. InInv'
  <2>1. ASSUME NEW g \in Frames, Inward(g)', g.ch # 0
        PROVE  InwardIsDue(g)'
    <3>1. InwardIsDue(g) /\ (Behind(g, g)' => Behind(g, g))
      BY <1>3, <2>1 DEF InKept, CoreInv, InInv
    <3>2. /\ g.ch \in DOMAIN chans /\ peer'[g.ch] # "none"
          /\ peer'[g.ch] = "open" => peer[g.ch] = "open"
      BY <1>4, <3>1 DEF InwardIsDue
    <3> QED BY <1>2, <3>1, <3>2, InwardKept
  <2>2. ASSUME NEW g \in Frames, NEW h \in Frames, Behind(g, h)'
        PROVE  NothingAfterClose(g, h)
    BY <1>3, <2>2, Zenon DEF InKept, CoreInv, InInv
  <2> QED BY <2>1, <2>2 DEF InInv, NothingAfterClose
<1> QED BY <1>5, <1>6, <1>7, <1>8, <1>9 DEF CoreInv

(* A frame for channel 0 concerns no channel.                              *)
LEMMA ConnectionFrameCore ==
  ASSUME Known, CoreInv, NEW h \in Frames, h.ch = 0, InAdds(h), OutKept,
         UNCHANGED <<chans, peer, served, pc, own, opening>>
  PROVE  CoreInv'
<1>1. InInv'
  BY SentIn DEF CoreInv
<1> QED BY <1>1, SameChannels, SameOut, SameUsers DEF CoreInv

LEMMA ProtocolErrorCore ==
  ASSUME Known, CoreInv, ProtocolError
  PROVE  CoreInv'
<1>0. Basics
  BY DEF Known
<1>1. /\ out # <<>> /\ out' = Tail(out) /\ Sends(0, "ConnClose", 0)
      /\ UNCHANGED <<ioq, chans, pend, pc, own, opening, peer, served>>
  BY DEF ProtocolError, userVars, brokerVars
<1>2. PICK f \in Frames : f = Request
  BY <1>0, <1>1, CoreTypes DEF Request
<1>3. OutKept
  BY <1>0, <1>1, <1>2, ReceivedOutTakes DEF OutTakes
<1>4. PICK h \in Frames : InAdds(h) /\ h.ch = 0
  BY <1>0, <1>1, SentFrame DEF BrokerKinds
<1> QED BY <1>1, <1>3, <1>4, ConnectionFrameCore

LEMMA BrokerCore ==
  ASSUME Known, CoreInv, Broker
  PROVE  CoreInv'
BY BrokerOpensCore, BrokerDeclaresCore, BrokerClosesCore, BrokerIsClosedCore,
   ProtocolErrorCore DEF Broker

-----------------------------------------------------------------------------
(***************************************************************************)
(* What nobody asked for.  This is where NoStrayMethods is needed.         *)
(***************************************************************************)
LEMMA BrokerSpeaksCore ==
  ASSUME NoStrayMethods, Known, CoreInv, BrokerSpeaks
  PROVE  CoreInv'
<1>0. Basics
  BY DEF Known
<1>1. UNCHANGED <<ioq, chans, pend, out, pc, own, opening, served>>
  BY DEF BrokerSpeaks, userVars
<1>2. OutKept
  BY <1>1, SameOutKept
<1>3. Ids \subseteq Nat
  BY DEF Ids
<1>4. ASSUME NEW kind \in Unsolicited \cap {"ConnClose", "Heartbeat"},
             Sends(0, kind, 0) /\ UNCHANGED peer
      PROVE  CoreInv'
  <2>1. PICK h \in Frames : InAdds(h) /\ h.ch = 0
    BY <1>0, <1>1, <1>4, SentFrame DEF BrokerKinds
  <2> QED BY <1>1, <1>2, <1>4, <2>1, ConnectionFrameCore
<1>5. ASSUME NEW kind \in Unsolicited \cap {"Flow", "Unknown", "Malformed"}, NEW i \in Ids,
             peer[i] = "open" /\ Sends(i, kind, 0) /\ UNCHANGED peer
      PROVE  CoreInv'
  <2>1. kind \in {"Unknown", "Malformed"}
    BY <1>5 DEF NoStrayMethods
  <2>2. PICK h \in Frames : InAdds(h) /\ h.ch = i /\ h.kind = kind
    BY <1>0, <1>1, <1>3, <1>5, <2>1, SentFrame DEF BrokerKinds
  <2> QED BY <1>1, <1>2, <1>5, <2>1, <2>2, CloseSentCore
<1>6. ASSUME NEW kind \in Unsolicited \cap {"Close"}, NEW i \in Ids,
             peer[i] = "open" /\ Sends(i, kind, 0) /\ Peer(i, "closing")
      PROVE  CoreInv'
  <2>1. PICK h \in Frames : InAdds(h) /\ h.ch = i /\ h.kind = "Close"
    BY <1>0, <1>1, <1>3, <1>6, SentFrame DEF BrokerKinds
  <2> QED BY <1>1, <1>2, <1>6, <2>1, CloseSentCore DEF Peer
<1>7. \A kind \in Unsolicited \cap {"Stray"} : FALSE
  BY DEF NoStrayMethods
<1> QED BY <1>4, <1>5, <1>6, <1>7 DEF BrokerSpeaks

LEMMA SocketBreaksCore ==
  ASSUME Known, CoreInv, SocketBreaks
  PROVE  CoreInv'
<1>0. Basics
  BY DEF Known
<1>1. /\ out' = <<>>
      /\ UNCHANGED <<ioq, chans, pend, pc, own, opening, peer, served>>
  BY DEF SocketBreaks, userVars, brokerVars
<1>2. InKept
  <2>1. PICK n \in 0 .. Len(in) : in' = SubSeq(in, 1, n)
    BY DEF SocketBreaks
  <2> QED BY <1>0, <1>1, <2>1, LostInKept
<1> QED BY <1>1, <1>2, LostOutKept, SameCore

-----------------------------------------------------------------------------
(* The kernel moves frames, and changes nothing else.                      *)
LEMMA ReactorCore ==
  ASSUME Known, CoreInv, ReactorStep
  PROVE  CoreInv'
<1>0. Basics
  BY DEF Known
<1>1. UNCHANGED <<chans, peer, served, pc, own, opening>>
  BY DEF ReactorStep, Reactor, HeaderArrives, BodyArrives, ReadFails, WriteCompletes,
         WriteFails, userVars, brokerVars
<1>2. CASE HeaderArrives
  <2>1. Head(in) \in Frames
    BY <1>0, <1>2, CoreTypes DEF HeaderArrives
  <2>2. /\ ReadHeader(TRUE, Head(in)) \in Handlers
        /\ ReadHeader(TRUE, Head(in)).h # "begin_write_frame"
    BY <2>1, HandlerTypes DEF ReadHeader
  <2>3. ioq' = Append(ioq, ReadHeader(TRUE, Head(in))) /\ UNCHANGED <<pend, out>>
    BY <1>2, Zenon DEF HeaderArrives
  <2>4. OutKept
    BY <1>0, <2>2, <2>3, PostedOutKept, Zenon
  <2> QED BY <1>0, <1>1, <1>2, <2>4, HeaderArrivesInKept, SameCore
<1>3. CASE BodyArrives
  <2>1. Head(in) \in Frames
    BY <1>0, <1>3, CoreTypes DEF BodyArrives
  <2>2. /\ ReadBody(TRUE, Head(in)) \in Handlers
        /\ ReadBody(TRUE, Head(in)).h # "begin_write_frame"
    BY <2>1, HandlerTypes DEF ReadBody
  <2>3. ioq' = Append(ioq, ReadBody(TRUE, Head(in))) /\ UNCHANGED <<pend, out>>
    BY <1>3, Zenon DEF BodyArrives
  <2>4. OutKept
    BY <1>0, <2>2, <2>3, PostedOutKept, Zenon
  <2> QED BY <1>0, <1>1, <1>3, <2>4, BodyArrivesInKept, SameCore
<1>4. CASE ReadFails
  <2>1. PICK x \in {ReadHeader(FALSE, Garbage), ReadBody(FALSE, Garbage)} :
          ioq' = Append(ioq, x)
    BY <1>4, Zenon DEF ReadFails
  <2>2. /\ x \in Handlers /\ x.h # "begin_write_frame"
        /\ \A f : x # ReadBody(TRUE, f)
    <3>1. x \in Handlers
      BY <2>1, FrameType, HandlerTypes, Zenon
    <3>2. x.h \in ReadNames /\ x.ok = FALSE
      BY <2>1 DEF ReadBody, ReadHeader, ReadNames
    <3>3. \A f : ReadBody(TRUE, f).ok = TRUE
      BY DEF ReadBody
    <3> QED BY <3>1, <3>2, <3>3 DEF ReadNames
  <2>3. UNCHANGED <<in, pend, out>>
    BY <1>4, Zenon DEF ReadFails
  <2>4. OutKept
    BY <1>0, <2>1, <2>2, <2>3, PostedOutKept, Zenon
  <2>5. InKept
    BY <1>0, <2>1, <2>2, <2>3, PostedInKept, Zenon
  <2> QED BY <1>1, <2>4, <2>5, SameCore
<1>5. CASE WriteCompletes \/ WriteFails
  <2>1. (\E ok \in BOOLEAN : ioq' = Append(ioq, Wrote(ok))) /\ in' = in
    BY <1>5 DEF WriteCompletes, WriteFails
  <2>2. \A ok \in BOOLEAN : Wrote(ok) \in Handlers /\ \A f : Wrote(ok) # ReadBody(TRUE, f)
    BY HandlerTypes DEF Wrote, ReadBody
  <2>3. InKept
    BY <1>0, <2>1, <2>2, PostedInKept, Zenon
  <2> QED BY <1>0, <1>1, <1>5, <2>3, WriteCompletesOutKept, SameCore
<1> QED BY <1>2, <1>3, <1>4, <1>5 DEF ReactorStep, Reactor

-----------------------------------------------------------------------------
(***************************************************************************)
(* The handlers.                                                           *)
(***************************************************************************)
LEMMA AbortCore ==
  ASSUME Known, CoreInv, Abort \/ RunReturns, UNCHANGED <<userVars, brokerVars>>
  PROVE  CoreInv'
<1>1. UNCHANGED <<ioq, chans, pend, out, in, opening, pc, own, peer, served>>
  BY DEF Abort, RunReturns, userVars, brokerVars
<1>2. OutKept /\ InKept
  BY <1>1, SameOutKept, PostedInKept DEF Known
<1> QED BY <1>1, <1>2, SameCore

LEMMA StartOpenCore ==
  ASSUME Known, CoreInv, StartOpenChannel, UNCHANGED <<userVars, brokerVars>>
  PROVE  CoreInv'
<1> DEFINE u == Head(ioq).u
           id == Len(chans) + 1
<1>0. Basics
  BY DEF Known
<1>1. /\ ioq # <<>> /\ UNCHANGED <<in, pc, own, peer, served>> /\ u \in Users
      /\ HandlerRuns
  <2>1. /\ ioq # <<>> /\ UNCHANGED <<in, pc, own, peer, served>>
        /\ Head(ioq).h = "start_open_channel"
    BY DEF StartOpenChannel, Runs, userVars, brokerVars
  <2>2. Head(ioq) \in Handlers
    BY <1>0, <2>1, CoreTypes
  <2> QED BY <1>0, <2>1, <2>2, HandlerFields, StartOpenEffect DEF HandlerEffect
<1>2. InKept
  BY <1>0, <1>1, HandlerInKept
<1>3. CASE id > MaxChannelId
  <2>1. /\ opening' = [opening EXCEPT ![u] = Promise("exception", 0)]
        /\ Written(Writing) /\ chans' = chans
    BY <1>3 DEF StartOpenChannel, NextId, OutOfChannels
  <2>2. OutKept
    BY <1>0, <1>1, <2>1, JustWrittenOutKept
  <2>3. Promise("exception", 0).id = 0
    BY DEF Promise
  <2>4. ASSUME NEW v \in Users
        PROVE  Holds(v)' = Holds(v) \/ Holds(v)' = 0
    BY <1>0, <1>1, <2>1, <2>3, CoreTypes DEF Holds
  <2>5. UserInv'
    <3>1. ASSUME NEW v \in Users, Holds(v)' # 0
          PROVE  UserDue(v)'
      <4>1. Holds(v)' = Holds(v) /\ UserDue(v)
        BY <2>4, <3>1 DEF CoreInv, UserInv
      <4> QED BY <1>1, <2>1, <2>2, <4>1, SameUser
    <3> QED BY <3>1 DEF UserInv
  <2> QED BY <1>1, <1>2, <2>1, <2>2, <2>5, SameChannels, SameOut, SameIn DEF CoreInv
<1>4. CASE ~(id > MaxChannelId)
  <2>1. /\ chans' = Append(chans, NewChannel)
        /\ opening' = [opening EXCEPT ![u] = Promise("value", id)]
    BY <1>4 DEF StartOpenChannel, NextId, OutOfChannels
  <2>2. PICK w \in BeginWriteFrame(Frame(id, "Open", 0), Writing) : Written(w)
    BY <1>4 DEF StartOpenChannel, NextId, OutOfChannels
  <2>3. PICK i \in Nat : i = id
    BY <1>0, CoreTypes
  <2>4. PICK g : g = Frame(i, "Open", 0)
    OBVIOUS
  <2>5. g \in RealFrames /\ g \in Frames /\ g.ch = i /\ g.kind = "Open"
    BY <2>4 DEF Frame, Frames, RealFrames, Garbage, Kinds, ClientKinds
  <2>6. OutAdds(g)
    BY <1>0, <1>1, <2>2, <2>3, <2>4, <2>5, HandlerPuts
  <2>7. /\ DOMAIN chans' = DOMAIN chans \cup {i} /\ i \notin DOMAIN chans /\ i \in Ids
        /\ \A j \in DOMAIN chans : chans'[j] = chans[j]
        /\ chans'[i] = NewChannel /\ i # 0 /\ DOMAIN chans \subseteq Ids
    <3>1. /\ i = Len(chans) + 1 /\ i <= MaxChannelId /\ i # 0 /\ i \in Ids
          /\ i \notin DOMAIN chans /\ DOMAIN chans \subseteq Ids
      BY <1>0, <1>4, <2>3, CoreTypes, MaxChannelIdAssumption DEF Ids
    <3>2. chans \in Seq(ChannelStates) /\ Len(chans) \in Nat /\ DOMAIN chans = 1 .. Len(chans)
      BY <1>0, CoreTypes
    <3>3. /\ DOMAIN chans' = 1 .. (Len(chans) + 1)
          /\ \A j \in 1 .. Len(chans) : chans'[j] = chans[j]
          /\ chans'[Len(chans) + 1] = NewChannel
      BY <2>1, <3>2, NewChannelType
    <3> QED BY <3>1, <3>2, <3>3
  <2>8. /\ Fresh(NewChannel) /\ NewChannel.cont = "process_open" /\ NewChannel.calls = 0
        /\ NewChannel.live /\ NewChannel.rpc = "none"
    BY DEF NewChannel, Fresh
  <2>9. peer[i] = "none" /\ served[i] = {}
    BY <2>7 DEF CoreInv, PeerInv
  <2>10. ChannelInv'
    <3>1. ASSUME NEW j \in DOMAIN chans'
          PROVE  LET c == chans'[j] IN
                 /\ c.live => c.cont = IF c.rpc = "none" THEN "process_open"
                                                         ELSE "rpc_handler"
                 /\ c.opened = "pending" => Fresh(c)
                 /\ c.rpc = "pending" => c.live
                 /\ c.rpc = "none" <=> c.calls = 0
      <4>1. CASE j = i
        BY <2>7, <2>8, <4>1
      <4>2. CASE j # i
        BY <2>7, <3>1, <4>2 DEF CoreInv, ChannelInv
      <4> QED BY <4>1, <4>2
    <3> QED BY <3>1 DEF ChannelInv, Fresh
  <2>11. PeerInv'
    <3>1. \A j \in DOMAIN chans' : peer[j] = "none" => Fresh(chans'[j])
      BY <2>7, <2>8 DEF CoreInv, PeerInv
    <3>2. \A j \in DOMAIN chans' : served[j] \subseteq 1 .. chans'[j].calls
      BY <2>7, <2>8, <2>9 DEF CoreInv, PeerInv
    <3>3. \A j \in Ids : peer[j] # "none" => j \in DOMAIN chans'
      BY <2>7 DEF CoreInv, PeerInv
    <3>4. \A j \in Ids \ DOMAIN chans' : served[j] = {}
      BY <2>7 DEF CoreInv, PeerInv
    <3> QED BY <1>1, <3>1, <3>2, <3>3, <3>4 DEF PeerInv, Fresh
  <2>12. UserInv'
    <3>1. ASSUME NEW v \in Users, Holds(v)' # 0, Holds(v)' = i
          PROVE  UserDue(v)'
      <4>1. pc'[v] = "awaitChannel"
        <5>1. own[v] # i
          BY <1>0, <2>3, <2>7 DEF Basics, ChannelsHeld
        <5> QED BY <1>1, <3>1, <5>1 DEF Holds
      <4> QED BY <2>7, <2>8, <3>1, <4>1 DEF UserDue
    <3>2. ASSUME NEW v \in Users, Holds(v)' # 0, Holds(v)' # i
          PROVE  UserDue(v)'
      <4>0. Promise("value", id).id = id
        BY DEF Promise
      <4>1. Holds(v)' = Holds(v)
        BY <1>0, <1>1, <2>1, <2>3, <3>2, <4>0, CoreTypes DEF Holds
      <4>2. UserDue(v) /\ Holds(v) \in DOMAIN chans /\ Holds(v) # i
        BY <1>0, <3>2, <4>1, CoreTypes DEF CoreInv, UserInv
      <4>3. \A f \in RealFrames :
              Outward(f)' /\ f.kind = "Declare" /\ f.ch = Holds(v) => Outward(f)
        BY <2>5, <2>6 DEF OutAdds
      <4> QED BY <1>1, <2>7, <4>1, <4>2, <4>3, UserKept
    <3> QED BY <3>1, <3>2 DEF UserInv
  <2>13. OutInv'
    <3>1. ASSUME NEW f \in RealFrames, Outward(f)', f # g
          PROVE  OutwardIsDue(f)'
      <4>1. OutwardIsDue(f) /\ (OutwardOnce(f) => OutwardOnce(f)')
        BY <2>6, <3>1 DEF OutAdds, CoreInv, OutInv
      <4>2. f.ch \in DOMAIN chans' /\ chans'[f.ch] = chans[f.ch]
        BY <2>7, <4>1 DEF OutwardIsDue
      <4> QED BY <1>1, <4>1, <4>2, OutwardKept
    <3>2. OutwardIsDue(g)'
      BY <2>5, <2>7 DEF OutwardIsDue, ClientKinds
    <3> QED BY <3>1, <3>2 DEF OutInv
  <2>14. InInv'
    <3>1. ASSUME NEW f \in Frames, Inward(f)', f.ch # 0
          PROVE  InwardIsDue(f)'
      <4>1. InwardIsDue(f) /\ (Behind(f, f)' => Behind(f, f))
        BY <1>2, <3>1 DEF InKept, CoreInv, InInv
      <4>2. /\ f.ch \in DOMAIN chans' /\ chans'[f.ch] = chans[f.ch]
            /\ peer[f.ch] # "none"
        BY <2>7, <4>1 DEF InwardIsDue
      <4> QED BY <1>1, <4>1, <4>2, InwardKept
    <3>2. ASSUME NEW f \in Frames, NEW h \in Frames, Behind(f, h)'
          PROVE  NothingAfterClose(f, h)
      BY <1>2, <3>2, Zenon DEF InKept, CoreInv, InInv
    <3> QED BY <3>1, <3>2 DEF InInv, NothingAfterClose
  <2> QED BY <2>10, <2>11, <2>12, <2>13, <2>14 DEF CoreInv
<1> QED BY <1>3, <1>4

LEMMA BeginWriteCore ==
  ASSUME Known, CoreInv, RunBeginWriteFrame, UNCHANGED <<userVars, brokerVars>>
  PROVE  CoreInv'
<1>0. Basics
  BY DEF Known
<1>1. /\ ioq # <<>> /\ Head(ioq).h = "begin_write_frame"
      /\ UNCHANGED <<in, opening, chans, pc, own, peer, served>>
  BY DEF RunBeginWriteFrame, Runs, userVars, brokerVars
<1>2. PICK g : g = Head(ioq).f
  OBVIOUS
<1>3. g \in Frames /\ Head(ioq) = Write(g)
  <2>1. Head(ioq) \in Handlers
    BY <1>0, <1>1, CoreTypes
  <2> QED BY <1>1, <1>2, <2>1 DEF Handlers, Write
<1>4. OutKept
  <2>1. PICK w \in BeginWriteFrame(g, Writing) : Written(w)
    BY <1>2 DEF RunBeginWriteFrame
  <2> QED BY <1>0, <1>1, <1>3, <2>1, HandlerPuts
<1>5. InKept
  BY <1>0, <1>1, BeginWriteEffect, HandlerInKept DEF HandlerEffect
<1> QED BY <1>1, <1>4, <1>5, SameCore

(* close_async changes nothing a frame or a thread depends on.             *)
LEMMA AlikeCore ==
  ASSUME Known, CoreInv, OutKept, InKept, UNCHANGED <<peer, served, pc, own, opening>>,
         DOMAIN chans' = DOMAIN chans,
         \A i \in DOMAIN chans :
           /\ chans'[i].live = chans[i].live /\ chans'[i].cont = chans[i].cont
           /\ chans'[i].opened = chans[i].opened /\ chans'[i].rpc = chans[i].rpc
           /\ chans'[i].calls = chans[i].calls
  PROVE  CoreInv'
<1>0. Basics
  BY DEF Known
<1>1. ChannelInv'
  BY DEF CoreInv, ChannelInv, Fresh
<1>2. PeerInv'
  BY DEF CoreInv, PeerInv, Fresh
<1>3. UserInv'
  <2>1. ASSUME NEW u \in Users, Holds(u)' # 0
        PROVE  UserDue(u)'
    <3>1. Holds(u)' = Holds(u) /\ Holds(u) \in DOMAIN chans /\ UserDue(u)
      BY <1>0, <2>1, CoreTypes DEF Holds, CoreInv, UserInv
    <3>2. \A f \in RealFrames : Outward(f)' => Outward(f)
      BY DEF OutKept
    <3> QED BY <3>1, <3>2, Zenon DEF UserDue
  <2> QED BY <2>1 DEF UserInv
<1>4. OutInv'
  <2>1. ASSUME NEW f \in RealFrames, Outward(f)'
        PROVE  OutwardIsDue(f)'
    <3>1. OutwardIsDue(f) /\ (OutwardOnce(f) => OutwardOnce(f)')
      BY <2>1 DEF OutKept, CoreInv, OutInv
    <3> QED BY <3>1, Zenon DEF OutwardIsDue
  <2> QED BY <2>1 DEF OutInv
<1>5. InInv'
  <2>1. ASSUME NEW f \in Frames, Inward(f)', f.ch # 0
        PROVE  InwardIsDue(f)'
    <3>1. InwardIsDue(f) /\ (Behind(f, f)' => Behind(f, f))
      BY <2>1 DEF InKept, CoreInv, InInv
    <3> QED BY <3>1, Zenon DEF InwardIsDue
  <2>2. ASSUME NEW f \in Frames, NEW g \in Frames, Behind(f, g)'
        PROVE  NothingAfterClose(f, g)
    BY <2>2, Zenon DEF InKept, CoreInv, InInv
  <2> QED BY <2>1, <2>2 DEF InInv, NothingAfterClose
<1> QED BY <1>1, <1>2, <1>3, <1>4, <1>5 DEF CoreInv

LEMMA SocketCloseCore ==
  ASSUME Known, CoreInv, OnSocketClose, io = "running", ioq # <<>>,
         Head(ioq).h \in Completions, ~Head(ioq).ok, UNCHANGED <<userVars, brokerVars>>
  PROVE  CoreInv'
<1>0. Basics
  BY DEF Known
<1>1. CASE Abort
  BY <1>1, AbortCore
<1>2. CASE ~Abort
  <2>1. /\ chans' = [i \in DOMAIN chans |->
                       IF i \in Live THEN CloseAsync(chans[i]).chan ELSE chans[i]]
        /\ Written(Writing) /\ UNCHANGED <<opening, in, pc, own, peer, served>>
    BY <1>2 DEF OnSocketClose, userVars, brokerVars
  <2>2. HandlerRuns
    BY <1>0, <1>2, SocketCloseEffect DEF HandlerEffect
  <2>3. OutKept /\ InKept
    BY <1>0, <2>1, <2>2, JustWrittenOutKept, HandlerInKept
  <2>4. ASSUME NEW i \in DOMAIN chans
        PROVE  /\ chans'[i].live = chans[i].live /\ chans'[i].cont = chans[i].cont
               /\ chans'[i].opened = chans[i].opened /\ chans'[i].rpc = chans[i].rpc
               /\ chans'[i].calls = chans[i].calls
    <3>1. chans'[i] = chans[i] \/ chans'[i] = CloseAsync(chans[i]).chan
      BY <2>1
    <3>2. chans[i] \in ChannelStates
      BY <1>0, CoreTypes
    <3> QED BY <3>1, <3>2 DEF CloseAsync, Throws, Returns, ChannelStates
  <2> QED BY <2>1, <2>3, <2>4, AlikeCore
<1> QED BY <1>1, <1>2

LEMMA OnWriteCore ==
  ASSUME Known, CoreInv, OnWriteFrame, UNCHANGED <<userVars, brokerVars>>
  PROVE  CoreInv'
<1>0. Basics
  BY DEF Known
<1>1. ioq # <<>> /\ io = "running" /\ Head(ioq).h = "on_write_frame"
  BY DEF OnWriteFrame, Runs
<1>2. CASE ~Head(ioq).ok
  BY <1>1, <1>2, SocketCloseCore DEF OnWriteFrame, Completions
<1>3. CASE Head(ioq).ok
  <2>1. writeq = <<>>
    BY <1>0 DEF Basics, NeverQueued
  <2>2. /\ Written([Writing EXCEPT !.pend = Spoiled(@)])
        /\ UNCHANGED <<chans, in, opening, pc, own, peer, served>>
    BY <1>3, <2>1 DEF OnWriteFrame, userVars, brokerVars
  <2>3. ioq' = Tail(ioq) /\ pend' = Spoiled(pend) /\ out' = out
    BY <2>2 DEF Written, Writing
  <2>4. FramesOf(pend') = FramesOf(pend)
    BY <1>0, <2>3, CoreTypes, FramesOfSpoiled
  <2>5. OutKept
    BY <1>0, <1>1, <2>3, <2>4, HandlerOutKept
  <2>6. InKept
    <3>1. HandlerRuns \/ Abort
      BY <1>0, OnWriteEffect DEF HandlerEffect
    <3>2. ~Abort
      BY <1>1, <1>3, <2>1, <2>2 DEF OnWriteFrame, Abort
    <3> QED BY <1>0, <2>2, <3>1, <3>2, HandlerInKept
  <2> QED BY <2>2, <2>5, <2>6, SameCore
<1> QED BY <1>2, <1>3

(* A completion of a read that did not fail, as it was queued.             *)
LEMMA ReadHandlerRuns ==
  ASSUME Basics, ioq # <<>>, Head(ioq).h \in ReadNames, Head(ioq).ok
  PROVE  /\ Head(ioq).f \in Frames /\ Occurs(Head(ioq), ioq)
         /\ Head(ioq).h = "on_frame_header_read" => Head(ioq) = ReadHeader(TRUE, Head(ioq).f)
         /\ Head(ioq).h = "on_frame_body_read" => Head(ioq) = ReadBody(TRUE, Head(ioq).f)
<1>1. Head(ioq) \in Handlers /\ Occurs(Head(ioq), ioq)
  BY CoreTypes DEF Occurs
<1>2. Head(ioq) \in [h : {"on_frame_header_read", "on_frame_body_read"},
                    ok : BOOLEAN, f : Frames]
  BY <1>1 DEF Handlers, ReadNames
<1>3. Head(ioq) = [h |-> Head(ioq).h, ok |-> Head(ioq).ok, f |-> Head(ioq).f]
  BY <1>2
<1>4. Head(ioq).ok = TRUE
  BY <1>2
<1> QED BY <1>1, <1>2, <1>3, <1>4 DEF ReadHeader, ReadBody

(* Channel 0 is not the application's: a frame for it ends the process.    *)
LEMMA ChannelZeroAborts ==
  ASSUME Basics, NEW f, f.ch = 0, DispatchFrame(f)
  PROVE  Abort
<1>1. ~(f.ch > Len(chans)) /\ f.ch \notin DOMAIN chans
  BY CoreTypes
<1> QED BY <1>1 DEF DispatchFrame, Live

LEMMA HeaderOnlyAborts ==
  ASSUME Basics, HeaderInv, OnFrameHeaderRead, Head(ioq).ok,
         ~HasBody(Head(ioq).f), DispatchFrame(Head(ioq).f)
  PROVE  Abort
<1>1. Head(ioq).h \in ReadNames /\ Head(ioq).h = "on_frame_header_read" /\ ioq # <<>>
  BY DEF OnFrameHeaderRead, Runs, ReadNames
<1>2. PICK f \in Frames : f = Head(ioq).f /\ Occurs(ReadHeader(TRUE, f), ioq)
  BY <1>1, ReadHandlerRuns
<1>3. ~HasBody(f)
  BY <1>2
<1>4. Head(ioq).f.ch = 0
  BY <1>2, <1>3, Zenon DEF HeaderInv
<1> QED BY <1>4, ChannelZeroAborts

LEMMA OnHeaderCore ==
  ASSUME Known, CallInv, OnFrameHeaderRead, UNCHANGED <<userVars, brokerVars>>
  PROVE  CoreInv'
<1> DEFINE f == Head(ioq).f
<1>0. Basics /\ CoreInv
  BY DEF Known, CallInv
<1>1. ioq # <<>> /\ io = "running" /\ Head(ioq).h = "on_frame_header_read"
  BY DEF OnFrameHeaderRead, Runs
<1>2. CASE ~Head(ioq).ok /\ OnSocketClose
  BY <1>0, <1>1, <1>2, SocketCloseCore DEF Completions
<1>3. CASE Abort
  BY <1>0, <1>3, AbortCore
<1>4. CASE Head(ioq).ok /\ reading' = "body" /\ Written(Writing)
             /\ UNCHANGED <<io, state, chans, opening, sock, in>>
  <2>1. HandlerRuns
    BY <1>0, <1>1, <1>4, JustRuns DEF Basics, TypeOK
  <2>2. OutKept /\ InKept
    BY <1>0, <1>1, <1>4, <2>1, JustWrittenOutKept, HandlerInKept
  <2> QED BY <1>0, <1>4, <2>2, SameCore DEF userVars, brokerVars
<1>5. CASE Head(ioq).ok /\ ~HasBody(f) /\ DispatchFrame(f)
  <2>1. HeaderInv
    BY DEF CallInv
  <2> QED BY <1>0, <1>5, <2>1, HeaderOnlyAborts, AbortCore
<1> QED BY <1>2, <1>3, <1>4, <1>5 DEF OnFrameHeaderRead

(***************************************************************************)
(* A frame for a channel that is dead: only close is answered.             *)
(***************************************************************************)
LEMMA DeadChannelCore ==
  ASSUME Known, CoreInv, NEW f \in Frames, f.ch \in DOMAIN chans, Dropped(f, DeadChannelFrame(f, Writing)),
         ioq # <<>>, InKept, ~Abort, UNCHANGED <<userVars, brokerVars>>
  PROVE  CoreInv'
<1>0. Basics
  BY DEF Known
<1>1. /\ \E w \in DeadChannelFrame(f, Writing) : Written(w)
      /\ UNCHANGED <<chans, opening, pc, own, peer, served>>
  BY DEF Dropped, ReadNext, userVars, brokerVars
<1>2. CASE f.kind = "Close"
  <2>1. PICK g : g = Frame(f.ch, "CloseOk", 0)
    OBVIOUS
  <2>2. g \in RealFrames /\ g \in Frames /\ g.ch = f.ch /\ g.kind = "CloseOk"
    BY <2>1 DEF Frame, Frames, RealFrames, Garbage, Kinds, ClientKinds
  <2>3. PICK w \in BeginWriteFrame(g, Writing) : Written(w)
    BY <1>1, <1>2, <2>1 DEF DeadChannelFrame
  <2>4. OutAdds(g)
    BY <1>0, <2>2, <2>3, HandlerPuts
  <2>5. OutInv'
    <3>1. ASSUME NEW h \in RealFrames, Outward(h)', h # g
          PROVE  OutwardIsDue(h)'
      <4>1. OutwardIsDue(h) /\ (OutwardOnce(h) => OutwardOnce(h)')
        BY <2>4, <3>1 DEF OutAdds, CoreInv, OutInv
      <4> QED BY <1>1, <4>1, OutwardKept DEF OutwardIsDue
    <3>2. OutwardIsDue(g)'
      BY <1>1, <2>2 DEF OutwardIsDue, ClientKinds
    <3> QED BY <3>1, <3>2 DEF OutInv
  <2>6. UserInv'
    <3>1. ASSUME NEW u \in Users, Holds(u)' # 0
          PROVE  UserDue(u)'
      <4>1. Holds(u)' = Holds(u) /\ UserDue(u)
        BY <1>1, <3>1 DEF Holds, CoreInv, UserInv
      <4>2. \A h \in RealFrames :
              Outward(h)' /\ h.kind = "Declare" /\ h.ch = Holds(u) => Outward(h)
        BY <2>2, <2>4 DEF OutAdds
      <4> QED BY <1>1, <4>1, <4>2, UserKept
    <3> QED BY <3>1 DEF UserInv
  <2> QED BY <1>1, <2>5, <2>6, SameChannels, SameIn DEF CoreInv
<1>3. CASE f.kind # "Close"
  <2>1. Written(Writing)
    BY <1>1, <1>3 DEF DeadChannelFrame
  <2>2. OutKept
    BY <1>0, <2>1, JustWrittenOutKept
  <2> QED BY <1>1, <2>2, SameCore
<1> QED BY <1>2, <1>3

-----------------------------------------------------------------------------
(***************************************************************************)
(* A frame that a live channel survives satisfies the promise it has       *)
(* pending; it is not the answer to another request.                       *)
(***************************************************************************)
Survives(c, f) == ProcessFrame(c, f).thrown \in {"none", "connection_exception"}

OpenEnds(c, d) ==
  /\ c.rpc = "none" /\ c.opened = "pending"
  /\ \E end \in {"value", "exception"} : d = [c EXCEPT !.opened = end]

RpcEndsBy(c, f, d) ==
  /\ c.rpc = "pending"
  /\ \/ f.kind = "DeclareOk" /\ d = [c EXCEPT !.rpc = "value", !.got = f.tag]
     \/ f.kind # "DeclareOk" /\ d = [c EXCEPT !.rpc = "exception"]

LEMMA ProcessFrameEnds ==
  ASSUME NEW c \in ChannelStates, NEW f \in Frames, Survives(c, f),
         c.cont = IF c.rpc = "none" THEN "process_open" ELSE "rpc_handler"
  PROVE  /\ OpenEnds(c, ProcessFrame(c, f).chan) \/ RpcEndsBy(c, f, ProcessFrame(c, f).chan)
         /\ f.kind # "Unknown"
<1>1. CASE c.rpc = "none"
  <2>1. ProcessFrame(c, f) = ProcessOpen(c, f)
    BY <1>1 DEF ProcessFrame
  <2>2. c.opened = "pending"
    BY <2>1 DEF Survives, ProcessOpen, Throws
  <2>3. CASE f.kind = "OpenOk"
    BY <1>1, <2>1, <2>2, <2>3 DEF ProcessOpen, Returns, OpenEnds
  <2>4. CASE f.kind # "OpenOk"
    BY <1>1, <2>1, <2>2, <2>4 DEF Survives, ProcessOpen, Throws, Mismatch, OpenEnds
  <2> QED BY <2>3, <2>4
<1>2. CASE c.rpc # "none"
  <2>1. ProcessFrame(c, f) = RpcHandler(c, f)
    BY <1>2 DEF ProcessFrame
  <2>2. c.rpc = "pending"
    BY <2>1 DEF Survives, RpcHandler, Throws
  <2>3. CASE f.kind = "DeclareOk"
    BY <2>1, <2>2, <2>3 DEF RpcHandler, Returns, RpcEndsBy
  <2>4. CASE f.kind # "DeclareOk"
    BY <2>1, <2>2, <2>4 DEF Survives, RpcHandler, Throws, Mismatch, RpcEndsBy
  <2> QED BY <2>3, <2>4
<1> QED BY <1>1, <1>2

LEMMA FrameMeetsPromise ==
  ASSUME Known, CoreInv, NEW f \in Frames, Inward(f), f.ch # 0, f.kind # "Malformed",
         f.ch \in Live, Survives(chans[f.ch], f)
  PROVE  LET c == chans[f.ch]
             d == ProcessFrame(c, f).chan
         IN  /\ f.kind \in {"OpenOk", "DeclareOk", "Close"}
             /\ f.kind = "OpenOk" => OpenEnds(c, d)
             /\ f.kind = "DeclareOk" => RpcEndsBy(c, f, d)
             /\ OpenEnds(c, d) \/ RpcEndsBy(c, f, d)
             /\ c \in ChannelStates /\ d \in ChannelStates
<1>0. Basics
  BY DEF Known
<1>1. /\ f.ch \in DOMAIN chans /\ chans[f.ch] \in ChannelStates /\ chans[f.ch].live
  BY <1>0, CoreTypes DEF Live
<1>2. chans[f.ch].cont = IF chans[f.ch].rpc = "none" THEN "process_open" ELSE "rpc_handler"
  BY <1>1 DEF CoreInv, ChannelInv
<1>3. chans[f.ch].opened = "pending" => chans[f.ch].rpc = "none"
  BY <1>1 DEF CoreInv, ChannelInv, Fresh
<1>4. InwardIsDue(f)
  BY DEF CoreInv, InInv
<1>5. /\ OpenEnds(chans[f.ch], ProcessFrame(chans[f.ch], f).chan)
           \/ RpcEndsBy(chans[f.ch], f, ProcessFrame(chans[f.ch], f).chan)
      /\ f.kind # "Unknown"
  BY <1>1, <1>2, ProcessFrameEnds
<1>6. /\ f.kind \in {"OpenOk", "DeclareOk", "Close"}
      /\ f.kind = "OpenOk" => chans[f.ch].opened = "pending"
      /\ f.kind = "DeclareOk" => chans[f.ch].rpc = "pending"
  BY <1>1, <1>4, <1>5 DEF InwardIsDue
<1>7. OpenEnds(chans[f.ch], ProcessFrame(chans[f.ch], f).chan) => chans[f.ch].rpc = "none"
  BY DEF OpenEnds
<1>8. RpcEndsBy(chans[f.ch], f, ProcessFrame(chans[f.ch], f).chan) => chans[f.ch].rpc = "pending"
  BY DEF RpcEndsBy
<1>9. ProcessFrame(chans[f.ch], f).chan \in ChannelStates
  BY <1>1, ProcessFrameType
<1> QED BY <1>1, <1>3, <1>5, <1>6, <1>7, <1>8, <1>9

(* What an end of a promise leaves as it was.                              *)
LEMMA EndsKeep ==
  ASSUME NEW c \in ChannelStates, NEW f, NEW d \in ChannelStates, c.live,
         OpenEnds(c, d) \/ RpcEndsBy(c, f, d)
  PROVE  /\ d.live /\ d.cont = c.cont /\ d.calls = c.calls
         /\ d.rpc = "none" <=> c.rpc = "none"
         /\ d.opened = "pending" => c.opened = "pending"
         /\ d.rpc # "pending"
         /\ OpenEnds(c, d) => d.opened # "pending"
         /\ RpcEndsBy(c, f, d) => d.opened = c.opened
<1>1. CASE OpenEnds(c, d)
  <2>1. c.rpc = "none" /\ c.opened = "pending"
    BY <1>1 DEF OpenEnds
  <2>2. PICK end \in {"value", "exception"} : d = [c EXCEPT !.opened = end]
    BY <1>1 DEF OpenEnds
  <2>3. /\ d.live = c.live /\ d.cont = c.cont /\ d.calls = c.calls /\ d.rpc = c.rpc
        /\ d.opened = end
    BY <2>2 DEF ChannelStates
  <2>4. ~RpcEndsBy(c, f, d)
    BY <2>1 DEF RpcEndsBy
  <2> QED BY <2>1, <2>3, <2>4
<1>2. CASE RpcEndsBy(c, f, d)
  <2>1. c.rpc = "pending"
    BY <1>2 DEF RpcEndsBy
  <2>2. /\ d.live = c.live /\ d.cont = c.cont /\ d.calls = c.calls
        /\ d.opened = c.opened /\ d.rpc \in {"value", "exception"}
    BY <1>2 DEF RpcEndsBy, ChannelStates
  <2>3. ~OpenEnds(c, d)
    BY <2>1 DEF OpenEnds
  <2> QED BY <2>1, <2>2, <2>3
<1> QED BY <1>1, <1>2

LEMMA LiveChannelCore ==
  ASSUME Known, CoreInv, NEW f \in Frames, Inward(f), f.ch # 0, f.kind # "Malformed",
         f.ch \in Live, Survives(chans[f.ch], f),
         chans' = [chans EXCEPT ![f.ch] = ProcessFrame(chans[f.ch], f).chan],
         OutKept, InTakes(f), UNCHANGED <<peer, served, pc, own, opening>>
  PROVE  CoreInv'
<1>0. Basics
  BY DEF Known
<1> DEFINE c == chans[f.ch]
           d == ProcessFrame(c, f).chan
<1>1. /\ f.ch \in DOMAIN chans /\ c.live /\ DOMAIN chans' = DOMAIN chans
      /\ \A j \in DOMAIN chans \ {f.ch} : chans'[j] = chans[j]
  BY <1>0, CoreTypes DEF Live
<1>2. /\ f.kind \in {"OpenOk", "DeclareOk", "Close"}
      /\ f.kind = "OpenOk" => OpenEnds(c, d)
      /\ f.kind = "DeclareOk" => RpcEndsBy(c, f, d)
      /\ OpenEnds(c, d) \/ RpcEndsBy(c, f, d)
      /\ c \in ChannelStates /\ d \in ChannelStates
  BY FrameMeetsPromise
<1>3. chans'[f.ch] = d
  BY <1>0, <1>1, <1>2, CoreTypes
<1>4. /\ d.live /\ d.cont = c.cont /\ d.calls = c.calls
      /\ d.rpc = "none" <=> c.rpc = "none"
      /\ d.opened = "pending" => c.opened = "pending"
      /\ d.rpc # "pending"
      /\ OpenEnds(c, d) => d.opened # "pending"
      /\ RpcEndsBy(c, f, d) => d.opened = c.opened
  BY <1>1, <1>2, EndsKeep
<1>5. /\ OpenEnds(c, d) => c.rpc = "none" /\ c.opened = "pending"
      /\ RpcEndsBy(c, f, d) => c.rpc = "pending"
  BY DEF OpenEnds, RpcEndsBy
<1>6. /\ c.live => c.cont = IF c.rpc = "none" THEN "process_open" ELSE "rpc_handler"
      /\ c.opened = "pending" => c.rpc = "none"
      /\ c.rpc = "none" <=> c.calls = 0
  BY <1>1 DEF CoreInv, ChannelInv, Fresh
<1>7. InwardIsDue(f)
  BY DEF CoreInv, InInv
<1>8. d.opened # "pending"
  BY <1>2, <1>4, <1>5, <1>6
(* An open channel of which a request is still to be answered.             *)
<1>9. ASSUME c.rpc = "pending", peer[f.ch] = "open"
      PROVE  c.calls \in served[f.ch]
  <2>1. f.kind = "DeclareOk"
    BY <1>2, <1>5, <1>7, <1>9 DEF InwardIsDue
  <2> QED BY <1>7, <2>1 DEF InwardIsDue
<1> HIDE DEF c, d
<1>10. ChannelInv'
  <2>1. ASSUME NEW j \in DOMAIN chans'
        PROVE  LET e == chans'[j] IN
               /\ e.live => e.cont = IF e.rpc = "none" THEN "process_open" ELSE "rpc_handler"
               /\ e.opened = "pending" => Fresh(e)
               /\ e.rpc = "pending" => e.live
               /\ e.rpc = "none" <=> e.calls = 0
    <3>1. CASE j = f.ch
      BY <1>1, <1>3, <1>4, <1>6, <1>8, <3>1
    <3>2. CASE j # f.ch
      BY <1>1, <2>1, <3>2 DEF CoreInv, ChannelInv
    <3> QED BY <3>1, <3>2
  <2> QED BY <2>1 DEF ChannelInv, Fresh
<1>11. PeerInv'
  <2>1. peer[f.ch] # "none"
    BY <1>7 DEF InwardIsDue
  <2>2. chans[f.ch].calls = d.calls
    BY <1>4 DEF c
  <2>3. \A j \in DOMAIN chans : peer[j] = "none" => Fresh(chans'[j])
    BY <1>1, <2>1 DEF CoreInv, PeerInv
  <2>4. \A j \in DOMAIN chans : served[j] \subseteq 1 .. chans'[j].calls
    BY <1>1, <1>3, <2>2 DEF CoreInv, PeerInv
  <2> QED BY <1>1, <2>3, <2>4 DEF CoreInv, PeerInv, Fresh
<1>12. UserInv'
  <2>1. ASSUME NEW u \in Users, Holds(u)' # 0
        PROVE  UserDue(u)'
    <3>1. Holds(u)' = Holds(u) /\ UserDue(u) /\ Holds(u) \in DOMAIN chans
      BY <1>0, <2>1, CoreTypes DEF Holds, CoreInv, UserInv
    <3>2. CASE Holds(u) # f.ch
      <4>1. \A g \in RealFrames : Outward(g)' => Outward(g)
        BY DEF OutKept
      <4> QED BY <1>1, <3>1, <3>2, <4>1, UserKept
    <3>3. CASE Holds(u) = f.ch
      <4>1. chans'[Holds(u)'] = d /\ chans[Holds(u)] = c
        BY <1>3, <3>1, <3>3 DEF c
      <4>2. pc[u] \in {"awaitChannel", "awaitOpen"} => d.rpc = "none"
        BY <1>4, <3>1, <4>1 DEF UserDue
      <4>3. ASSUME pc[u] = "posting"
            PROVE  /\ d.calls # 0 /\ d.calls \notin served[Holds(u)]
                   /\ peer[Holds(u)] # "open"
        <5>1. /\ c.calls # 0 /\ c.calls \notin served[Holds(u)]
              /\ peer[Holds(u)] = "open" => c.rpc = "pending"
          BY <3>1, <4>1, <4>3 DEF UserDue
        <5> QED BY <1>4, <1>9, <3>3, <5>1
      <4>4. ASSUME pc[u] = "posting", NEW g \in RealFrames,
                   Outward(g)', g.kind = "Declare", g.ch = Holds(u)
            PROVE  g.tag # d.calls
        <5>1. Outward(g)
          BY <4>4 DEF OutKept
        <5> QED BY <1>4, <3>1, <4>1, <4>4, <5>1 DEF UserDue
      <4> QED BY <1>4, <1>8, <3>1, <4>1, <4>2, <4>3, <4>4 DEF UserDue
    <3> QED BY <3>2, <3>3
  <2> QED BY <2>1 DEF UserInv
<1>13. OutInv'
  <2>1. ASSUME NEW g \in RealFrames, Outward(g)'
        PROVE  OutwardIsDue(g)'
    <3>1. OutwardIsDue(g) /\ (OutwardOnce(g) => OutwardOnce(g)')
      BY <2>1 DEF OutKept, CoreInv, OutInv
    <3>2. CASE g.ch # f.ch
      BY <1>1, <3>1, <3>2, OutwardKept DEF OutwardIsDue
    <3>3. CASE g.ch = f.ch
      <4>1. chans'[g.ch] = d /\ chans[g.ch] = c
        BY <1>3, <3>3 DEF c
      <4>2. g.kind = "Declare" => peer[g.ch] # "open"
        BY <1>9, <3>1, <3>3, <4>1 DEF OutwardIsDue
      <4>3. g.kind # "Close"
        BY <1>1, <3>1, <4>1 DEF OutwardIsDue
      <4> QED BY <1>1, <1>4, <3>1, <4>1, <4>2, <4>3, Zenon DEF OutwardIsDue
    <3> QED BY <3>2, <3>3
  <2> QED BY <2>1 DEF OutInv
<1>14. InInv'
  <2>1. ASSUME NEW g \in Frames, Inward(g)', g.ch # 0
        PROVE  InwardIsDue(g)'
    <3>1. /\ InwardIsDue(g) /\ (Behind(g, g)' => Behind(g, g)) /\ Behind(f, g)
      BY <2>1 DEF InTakes, InKept, CoreInv, InInv
    <3>2. CASE g.ch # f.ch
      BY <1>1, <3>1, <3>2, InwardKept DEF InwardIsDue
    <3>3. CASE g.ch = f.ch
      <4>1. chans'[g.ch] = d /\ chans[g.ch] = c
        BY <1>3, <3>3 DEF c
      <4>2. g.kind # "CloseOk"
        BY <1>1, <3>1, <4>1 DEF InwardIsDue
      <4>3. f.kind # "Close"
        BY <3>1, <3>3, <4>2 DEF CoreInv, InInv, NothingAfterClose
      <4>4. f # g
        BY <1>2, <1>7, <3>1, <4>3 DEF InwardIsDue
      <4>5. g.kind # "OpenOk"
        <5>1. ASSUME g.kind = "OpenOk"
              PROVE  FALSE
          <6>1. c.opened = "pending" /\ g.tag = 0
            BY <3>1, <4>1, <5>1 DEF InwardIsDue
          <6>2. f.kind = "OpenOk"
            BY <1>2, <1>5, <1>6, <4>3, <6>1
          <6>3. f.tag = 0
            BY <1>7, <6>2 DEF InwardIsDue
          <6>4. f = g
            BY <3>3, <5>1, <6>1, <6>2, <6>3 DEF Frames
          <6> QED BY <4>4, <6>4
        <5> QED BY <5>1
      <4>6. g.kind # "DeclareOk"
        <5>1. ASSUME g.kind = "DeclareOk"
              PROVE  FALSE
          <6>1. c.rpc = "pending" /\ g.tag = c.calls
            BY <3>1, <4>1, <5>1 DEF InwardIsDue
          <6>2. f.kind = "DeclareOk"
            BY <1>2, <1>5, <4>3, <6>1
          <6>3. f.tag = c.calls
            BY <1>7, <6>2 DEF InwardIsDue, c
          <6>4. f = g
            BY <3>3, <5>1, <6>1, <6>2, <6>3 DEF Frames
          <6> QED BY <4>4, <6>4
        <5> QED BY <5>1
      <4> QED BY <1>1, <3>1, <4>1, <4>2, <4>5, <4>6 DEF InwardIsDue
    <3> QED BY <3>2, <3>3
  <2>2. ASSUME NEW g \in Frames, NEW h \in Frames, Behind(g, h)'
        PROVE  NothingAfterClose(g, h)
    BY <2>2, Zenon DEF InTakes, InKept, CoreInv, InInv
  <2> QED BY <2>1, <2>2 DEF InInv, NothingAfterClose
<1> QED BY <1>10, <1>11, <1>12, <1>13, <1>14 DEF CoreInv

(* What comes of the frame whose body was read.                            *)
LEMMA BodyMeets ==
  ASSUME Known, CallInv, OnFrameBodyRead, Head(ioq).ok, ~Abort
  PROVE  \E f \in Frames :
           /\ Head(ioq) = ReadBody(TRUE, f)
           /\ Inward(f) /\ f.kind # "Malformed" /\ f.ch # 0 /\ f.ch \in DOMAIN chans
           /\ \/ f.ch \notin Live /\ Dropped(f, DeadChannelFrame(f, Writing))
              \/ /\ f.ch \in Live /\ Survives(chans[f.ch], f)
                 /\ chans' = [chans EXCEPT ![f.ch] = ProcessFrame(chans[f.ch], f).chan]
                 /\ Written(Writing) /\ ReadNext
<1>0. Basics /\ CoreInv
  BY DEF Known, CallInv
<1>1. ioq # <<>> /\ Head(ioq).h = "on_frame_body_read" /\ Head(ioq).h \in ReadNames
  BY DEF OnFrameBodyRead, Runs, ReadNames
<1>2. PICK f \in Frames : /\ f = Head(ioq).f /\ Head(ioq) = ReadBody(TRUE, f)
                          /\ Occurs(ReadBody(TRUE, f), ioq)
  BY <1>0, <1>1, ReadHandlerRuns
<1>3. DispatchFrame(f)
  BY <1>2 DEF OnFrameBodyRead
<1>4. Inward(f) /\ f.kind # "Malformed"
  BY <1>2 DEF Inward, CallInv, HeaderInv
<1>5. f.ch # 0
  BY <1>0, <1>3, ChannelZeroAborts
<1>6. f.ch \in DOMAIN chans
  BY <1>0, <1>4, <1>5 DEF CoreInv, InInv, InwardIsDue
<1>7. ~(f.ch > Len(chans))
  BY <1>0, <1>6, CoreTypes
<1>8. CASE f.ch \notin Live
  <2>1. Dropped(f, DeadChannelFrame(f, Writing))
    BY <1>3, <1>5, <1>7, <1>8 DEF DispatchFrame
  <2> QED BY <1>2, <1>4, <1>5, <1>6, <1>8, <2>1
<1>9. CASE f.ch \in Live
  <2>1. LET result == ProcessFrame(chans[f.ch], f)
        IN  IF result.thrown \in {"none", "connection_exception"}
            THEN /\ chans' = [chans EXCEPT ![f.ch] = result.chan]
                 /\ Written(Writing)
                 /\ ReadNext
            ELSE Abort
    BY <1>3, <1>5, <1>7, <1>9, Zenon DEF DispatchFrame
  <2>2. /\ Survives(chans[f.ch], f)
        /\ chans' = [chans EXCEPT ![f.ch] = ProcessFrame(chans[f.ch], f).chan]
        /\ Written(Writing) /\ ReadNext
    BY <2>1, Zenon DEF Survives
  <2> QED BY <1>2, <1>4, <1>5, <1>6, <1>9, <2>2
<1> QED BY <1>8, <1>9

LEMMA OnBodyCore ==
  ASSUME Known, CallInv, OnFrameBodyRead, UNCHANGED <<userVars, brokerVars>>
  PROVE  CoreInv'
<1>0. Basics /\ ReadExclusive /\ CoreInv
  BY DEF Known, ReadInv, CallInv
<1>1. ioq # <<>> /\ io = "running" /\ Head(ioq).h = "on_frame_body_read"
  BY DEF OnFrameBodyRead, Runs
<1>2. CASE ~Head(ioq).ok
  BY <1>0, <1>1, <1>2, SocketCloseCore DEF OnFrameBodyRead, Completions
<1>3. CASE Abort
  BY <1>0, <1>3, AbortCore
<1>4. CASE Head(ioq).ok /\ ~Abort
  <2>1. PICK f \in Frames :
          /\ Head(ioq) = ReadBody(TRUE, f)
          /\ Inward(f) /\ f.kind # "Malformed" /\ f.ch # 0 /\ f.ch \in DOMAIN chans
          /\ \/ f.ch \notin Live /\ Dropped(f, DeadChannelFrame(f, Writing))
             \/ /\ f.ch \in Live /\ Survives(chans[f.ch], f)
                /\ chans' = [chans EXCEPT ![f.ch] = ProcessFrame(chans[f.ch], f).chan]
                /\ Written(Writing) /\ ReadNext
    BY <1>4, BodyMeets
  <2>2. HandlerRuns /\ in' = in
    BY <1>0, <1>4, BodyReadEffect DEF HandlerEffect
  <2>3. InTakes(f) /\ InKept
    BY <1>0, <2>1, <2>2, HandlerInTakes DEF InTakes
  <2>4. CASE f.ch \notin Live
    BY <1>0, <1>1, <1>4, <2>1, <2>3, <2>4, DeadChannelCore
  <2>5. CASE f.ch \in Live
    <3>1. OutKept
      BY <1>0, <1>1, <2>1, <2>5, JustWrittenOutKept
    <3>2. UNCHANGED <<peer, served, pc, own, opening>>
      BY <2>1, <2>5 DEF ReadNext, userVars, brokerVars
    <3> QED BY <1>0, <2>1, <2>3, <2>5, <3>1, <3>2, LiveChannelCore
  <2> QED BY <2>4, <2>5
<1> QED BY <1>2, <1>3, <1>4

LEMMA IoCore ==
  ASSUME Known, CallInv, IoStep
  PROVE  CoreInv'
<1>1. CoreInv /\ IoThread /\ UNCHANGED <<userVars, brokerVars>>
  BY DEF IoStep, CallInv
<1> QED BY <1>1, StartOpenCore, BeginWriteCore, OnWriteCore, OnHeaderCore, OnBodyCore, AbortCore
        DEF IoThread

-----------------------------------------------------------------------------
(***************************************************************************)
(* The header of the next frame.                                           *)
(***************************************************************************)
HeaderRead(f) ==
  /\ ~HasBody(f) => f.ch = 0
  /\ HasBody(f)  => IF in = <<>> THEN sock = "broken" ELSE Head(in) = f

(* The queue has no reads that it did not have.                            *)
SameReads ==
  \A f \in Frames : /\ Occurs(ReadHeader(TRUE, f), ioq') => Occurs(ReadHeader(TRUE, f), ioq)
                    /\ Occurs(ReadBody(TRUE, f), ioq') => Occurs(ReadBody(TRUE, f), ioq)

(* The next frame to read stays the next.                                  *)
NextKept ==
  \/ in' # <<>> /\ in # <<>> /\ Head(in') = Head(in)
  \/ in' # <<>> /\ in = <<>> /\ sock # "broken"
  \/ in' = <<>> /\ sock' = "broken"
  \/ in' = <<>> /\ in = <<>> /\ sock' = sock

LEMMA SameHeader ==
  ASSUME HeaderInv, SameReads, NextKept, reading' # "body" \/ reading' = reading
  PROVE  HeaderInv'
<1>1. ASSUME NEW f \in Frames, HeaderRead(f)
      PROVE  HeaderRead(f)'
  BY <1>1, Zenon DEF HeaderRead, NextKept
<1>2. ASSUME NEW f \in Frames, Occurs(ReadHeader(TRUE, f), ioq')
      PROVE  HeaderRead(f)'
  BY <1>1, <1>2, Zenon DEF SameReads, HeaderInv, HeaderRead
<1>3. reading' = "body" => IF in' = <<>> THEN sock' = "broken" ELSE Head(in').kind # "Malformed"
  BY Zenon DEF HeaderInv, NextKept
<1>4. \A f \in Frames : Occurs(ReadBody(TRUE, f), ioq') => f.kind # "Malformed"
  BY Zenon DEF SameReads, HeaderInv
<1> QED BY <1>2, <1>3, <1>4, Zenon DEF HeaderInv, HeaderRead

(* No step but those of the reading side touches the reads in the queue.   *)
LEMMA OthersKeepReads ==
  ASSUME Basics, [Next]_vars, ~IoStep, reading' = reading
  PROVE  SameReads
<1>1. CASE ioq' = ioq
  BY <1>1 DEF SameReads
<1>2. ASSUME NEW x \in Handlers, ioq' = Append(ioq, x), x.h \notin ReadNames
      PROVE  SameReads
  <2>1. ASSUME NEW f \in Frames
        PROVE  x # ReadHeader(TRUE, f) /\ x # ReadBody(TRUE, f)
    BY <1>2 DEF ReadHeader, ReadBody, ReadNames
  <2>2. ioq \in Seq(Handlers)
    BY CoreTypes
  <2>3. ASSUME NEW y, Occurs(y, ioq'), y # x
        PROVE  Occurs(y, ioq)
    BY <1>2, <2>2, <2>3, OccursInAppend
  <2> QED BY <2>1, <2>3 DEF SameReads
<1> QED BY <1>1, <1>2, QueueAppends

LEMMA HandlerKeepsReads ==
  ASSUME Basics, HandlerRuns
  PROVE  SameReads
<1>1. ASSUME NEW f \in Frames
      PROVE  /\ ReadHeader(TRUE, f).h # "on_write_frame"
             /\ ReadBody(TRUE, f).h # "on_write_frame"
  BY DEF ReadHeader, ReadBody
<1> QED BY <1>1, RunTakes DEF SameReads

LEMMA DispatchReadsNext ==
  ASSUME NEW f, DispatchFrame(f), ~Abort
  PROVE  reading' = "header"
BY DEF DispatchFrame, Dropped, ReadNext

(* The body is read of a frame whose header was accepted.                  *)
LEMMA BodyIsNext ==
  ASSUME Basics, IoThread, ~Abort, reading' = "body", reading # "body"
  PROVE  \E f \in Frames : /\ Occurs(ReadHeader(TRUE, f), ioq) /\ HasBody(f)
                           /\ f.kind # "Malformed"
<1>1. CASE StartOpenChannel \/ RunBeginWriteFrame \/ RunReturns
  BY <1>1 DEF StartOpenChannel, RunBeginWriteFrame, RunReturns
<1>2. ~OnSocketClose
  BY DEF OnSocketClose
<1>3. CASE OnWriteFrame
  BY <1>2, <1>3 DEF OnWriteFrame
<1>4. CASE OnFrameBodyRead
  BY <1>2, <1>4, DispatchReadsNext DEF OnFrameBodyRead
<1>5. CASE OnFrameHeaderRead
  <2>1. /\ ioq # <<>> /\ Head(ioq).h = "on_frame_header_read" /\ Head(ioq).ok
        /\ HasBody(Head(ioq).f) /\ Head(ioq).f.kind # "Malformed"
    BY <1>2, <1>5, DispatchReadsNext DEF OnFrameHeaderRead, Runs
  <2>2. Head(ioq).f \in Frames /\ Occurs(ReadHeader(TRUE, Head(ioq).f), ioq)
    BY <2>1, ReadHandlerRuns DEF ReadNames
  <2> QED BY <2>1, <2>2
<1> QED BY <1>1, <1>3, <1>4, <1>5 DEF IoThread

LEMMA IoHeader ==
  ASSUME Known, CallInv, IoStep
  PROVE  HeaderInv'
<1>0. Basics /\ HeaderInv /\ IoThread
  BY DEF Known, CallInv, IoStep
<1>1. CASE Abort \/ RunReturns
  <2>1. UNCHANGED <<ioq, reading, sock, in>>
    BY <1>1 DEF Abort, RunReturns
  <2>2. SameReads /\ NextKept
    BY <2>1 DEF SameReads, NextKept
  <2> QED BY <1>0, <2>1, <2>2, SameHeader
<1>2. CASE ~Abort /\ HandlerEffect
  <2>1. UNCHANGED <<sock, in>> /\ HandlerRuns
    BY <1>2 DEF HandlerEffect
  <2>2. SameReads /\ NextKept
    BY <1>0, <2>1, HandlerKeepsReads DEF NextKept
  <2>3. CASE reading' # "body" \/ reading' = reading
    BY <1>0, <2>2, <2>3, SameHeader
  <2>4. CASE reading' = "body" /\ reading # "body"
    <3>1. PICK f \in Frames : /\ Occurs(ReadHeader(TRUE, f), ioq) /\ HasBody(f)
                              /\ f.kind # "Malformed"
      BY <1>0, <1>2, <2>4, BodyIsNext
    <3>2. IF in = <<>> THEN sock = "broken" ELSE Head(in).kind # "Malformed"
      BY <1>0, <3>1 DEF HeaderInv
    <3>3. \A g \in Frames : Occurs(ReadHeader(TRUE, g), ioq') => HeaderRead(g)
      BY <1>0, <2>2, Zenon DEF HeaderInv, SameReads, HeaderRead
    <3>4. \A g \in Frames : Occurs(ReadBody(TRUE, g), ioq') => g.kind # "Malformed"
      BY <1>0, <2>2, Zenon DEF HeaderInv, SameReads
    <3> QED BY <2>1, <3>2, <3>3, <3>4, Zenon DEF HeaderInv, HeaderRead
  <2> QED BY <2>3, <2>4
<1> QED BY <1>0, <1>1, <1>2, IoThreadEffect

LEMMA NoReads ==
  ASSUME ReadHandlers = {}, NEW f
  PROVE  ~Occurs(ReadHeader(TRUE, f), ioq) /\ ~Occurs(ReadBody(TRUE, f), ioq)
BY DEF ReadHandlers, Occurs, ReadHeader, ReadBody

LEMMA ReactorHeader ==
  ASSUME Known, CallInv, ReactorStep
  PROVE  HeaderInv'
<1>0. Basics /\ HeaderInv /\ ReadExclusive /\ CoreInv /\ ioq \in Seq(Handlers)
  BY CoreTypes DEF Known, CallInv, ReadInv
<1>1. CASE HeaderArrives
  <2>1. /\ in # <<>> /\ reading = "header" /\ reading' = "none" /\ sock' = sock
        /\ ioq' = Append(ioq, ReadHeader(TRUE, Head(in)))
        /\ in' = IF HasBody(Head(in)) THEN in ELSE Tail(in)
    BY <1>1 DEF HeaderArrives
  <2>2. ReadHandlers = {}
    BY <1>0, <2>1 DEF ReadExclusive
  <2>3. PICK g \in Frames : g = Head(in) /\ Inward(g)
    <3>1. in \in Seq(Frames)
      BY <1>0, CoreTypes
    <3>2. Head(in) \in Frames /\ Occurs(Head(in), in)
      BY <2>1, <3>1, OccursInTail
    <3> QED BY <3>2 DEF Inward
  <2>4. ReadHeader(TRUE, g) \in Handlers
    BY HandlerTypes
  <2>5. ASSUME NEW f \in Frames, Occurs(ReadHeader(TRUE, f), ioq')
        PROVE  f = g
    <3>1. ReadHeader(TRUE, f) = ReadHeader(TRUE, g)
      BY <1>0, <2>1, <2>2, <2>3, <2>4, <2>5, NoReads, OccursInAppend
    <3> QED BY <3>1 DEF ReadHeader
  <2>6. HeaderRead(g)'
    <3>1. ~HasBody(g) => g.ch = 0
      BY <1>0, <2>3 DEF CoreInv, InInv, InwardIsDue, HasBody
    <3>2. HasBody(g) => in' # <<>> /\ Head(in') = g
      BY <2>1, <2>3
    <3> QED BY <3>1, <3>2 DEF HeaderRead
  <2>7. ASSUME NEW f \in Frames, Occurs(ReadBody(TRUE, f), ioq')
        PROVE  FALSE
    <3>1. ReadBody(TRUE, f) # ReadHeader(TRUE, g)
      BY DEF ReadBody, ReadHeader
    <3> QED BY <1>0, <2>1, <2>2, <2>3, <2>4, <2>7, <3>1, NoReads, OccursInAppend
  <2> QED BY <2>1, <2>5, <2>6, <2>7 DEF HeaderInv, HeaderRead
<1>2. CASE BodyArrives
  <2>1. /\ in # <<>> /\ reading = "body" /\ reading' = "none"
        /\ ioq' = Append(ioq, ReadBody(TRUE, Head(in)))
    BY <1>2 DEF BodyArrives
  <2>2. ReadHandlers = {}
    BY <1>0, <2>1 DEF ReadExclusive
  <2>3. PICK g \in Frames : g = Head(in) /\ g.kind # "Malformed"
    BY <1>0, <2>1, CoreTypes DEF HeaderInv
  <2>4. ReadBody(TRUE, g) \in Handlers
    BY HandlerTypes
  <2>5. ASSUME NEW f \in Frames, Occurs(ReadBody(TRUE, f), ioq')
        PROVE  f.kind # "Malformed"
    <3>1. ReadBody(TRUE, f) = ReadBody(TRUE, g)
      BY <1>0, <2>1, <2>2, <2>3, <2>4, <2>5, NoReads, OccursInAppend
    <3> QED BY <2>3, <3>1 DEF ReadBody
  <2>6. ASSUME NEW f \in Frames, Occurs(ReadHeader(TRUE, f), ioq')
        PROVE  FALSE
    <3>1. ReadHeader(TRUE, f) # ReadBody(TRUE, g)
      BY DEF ReadBody, ReadHeader
    <3> QED BY <1>0, <2>1, <2>2, <2>3, <2>4, <2>6, <3>1, NoReads, OccursInAppend
  <2> QED BY <2>1, <2>5, <2>6 DEF HeaderInv
<1>3. CASE ReadFails
  <2>1. /\ reading # "none" /\ reading' = "none" /\ UNCHANGED <<in, sock>>
        /\ ioq' = Append(ioq, IF reading = "header" THEN ReadHeader(FALSE, Garbage)
                                                   ELSE ReadBody(FALSE, Garbage))
    BY <1>3 DEF ReadFails
  <2>2. PICK x : x \in {ReadHeader(FALSE, Garbage), ReadBody(FALSE, Garbage)}
                 /\ ioq' = Append(ioq, x)
    BY <2>1
  <2>3. x \in Handlers
    BY <2>2, FrameType, HandlerTypes, Zenon
  <2>4. ASSUME NEW y, y.ok = TRUE, Occurs(y, ioq')
        PROVE  Occurs(y, ioq)
    <3>1. x.ok = FALSE
      BY <2>2 DEF ReadHeader, ReadBody
    <3> QED BY <1>0, <2>2, <2>3, <2>4, <3>1, OccursInAppend
  <2>5. \A f : ReadHeader(TRUE, f).ok = TRUE /\ ReadBody(TRUE, f).ok = TRUE
    BY DEF ReadHeader, ReadBody
  <2>6. SameReads
    BY <2>4, <2>5 DEF SameReads
  <2>7. NextKept
    BY <2>1 DEF NextKept
  <2> QED BY <1>0, <2>1, <2>6, <2>7, SameHeader
<1>4. CASE WriteCompletes \/ WriteFails
  <2>1. UNCHANGED <<in, sock, reading>> /\ \E ok \in BOOLEAN : ioq' = Append(ioq, Wrote(ok))
    BY <1>4 DEF WriteCompletes, WriteFails
  <2>2. PICK ok \in BOOLEAN : ioq' = Append(ioq, Wrote(ok))
    BY <2>1
  <2>3. Wrote(ok) \in Handlers /\ Wrote(ok).h = "on_write_frame"
    BY HandlerTypes DEF Wrote
  <2>4. ASSUME NEW y, y.h # "on_write_frame", Occurs(y, ioq')
        PROVE  Occurs(y, ioq)
    BY <1>0, <2>2, <2>3, <2>4, OccursInAppend
  <2>5. \A f : /\ ReadHeader(TRUE, f).h # "on_write_frame"
               /\ ReadBody(TRUE, f).h # "on_write_frame"
    BY DEF ReadHeader, ReadBody
  <2>6. SameReads
    BY <2>4, <2>5 DEF SameReads
  <2>7. NextKept
    BY <2>1 DEF NextKept
  <2> QED BY <1>0, <2>1, <2>6, <2>7, SameHeader
<1> QED BY <1>1, <1>2, <1>3, <1>4 DEF ReactorStep, Reactor

LEMMA OthersHeader ==
  ASSUME Known, CallInv, [Next]_vars, ~IoStep, ~ReactorStep
  PROVE  HeaderInv'
<1>0. Basics /\ HeaderInv /\ in \in Seq(Frames)
  BY CoreTypes DEF Known, CallInv
<1>1. reading' = reading /\ NextKept
  <2>1. CASE UNCHANGED vars
    BY <2>1 DEF vars, mgrVars, NextKept
  <2>2. ASSUME NEW u \in Users, Application(u)
        PROVE  reading' = reading /\ NextKept
    <3>1. UNCHANGED <<reading, sock, in>>
      BY <2>2 DEF Application, OpenChannel, BeginOpenChannel, GetChannel, OpenReturns,
                  BeginRpc, PostRpc, RpcReturns, DropChannel, mgrVars
    <3> QED BY <3>1 DEF NextKept
  <2>3. CASE Broker
    <3>1. /\ sock # "broken" /\ UNCHANGED <<reading, sock>>
          /\ in' = in \/ \E ch, kind, tag : Sends(ch, kind, tag)
      BY <2>3 DEF Broker, BrokerOpens, BrokerDeclares, BrokerCloses, BrokerIsClosed,
                  ProtocolError, Receives
    <3>2. in' = in \/ \E h : in' = Append(in, h)
      BY <3>1 DEF Sends
    <3>3. NextKept
      BY <1>0, <3>1, <3>2 DEF NextKept
    <3> QED BY <3>1, <3>3
  <2>4. CASE BrokerSpeaks
    <3>1. /\ sock # "broken" /\ UNCHANGED <<reading, sock>>
          /\ in' = in \/ \E ch, kind, tag : Sends(ch, kind, tag)
      BY <2>4 DEF BrokerSpeaks
    <3>2. in' = in \/ \E h : in' = Append(in, h)
      BY <3>1 DEF Sends
    <3>3. NextKept
      BY <1>0, <3>1, <3>2 DEF NextKept
    <3> QED BY <3>1, <3>3
  <2>5. CASE SocketBreaks
    <3>1. reading' = reading /\ sock' = "broken" /\ \E n \in 0 .. Len(in) : in' = SubSeq(in, 1, n)
      BY <2>5 DEF SocketBreaks
    <3>2. PICK n \in 0 .. Len(in) : in' = SubSeq(in, 1, n)
      BY <3>1
    <3>3. in' # <<>> => in # <<>> /\ Head(in') = Head(in)
      BY <1>0, <3>2
    <3> QED BY <3>1, <3>3 DEF NextKept
  <2> QED BY <2>1, <2>2, <2>3, <2>4, <2>5 DEF Next, Outside
<1>2. SameReads
  BY <1>0, <1>1, OthersKeepReads
<1> QED BY <1>0, <1>1, <1>2, SameHeader

-----------------------------------------------------------------------------
(***************************************************************************)
(* The invariant.                                                          *)
(***************************************************************************)
LEMMA KnownInit == Init => Known
<1>1. Init => ErrorsAreReal
  BY DEF Init, MgrInit, ErrorsAreReal
<1>2. Init => ChannelsNotShared
  BY DEF Init, ChannelsNotShared, Holds
<1> QED BY <1>1, <1>2, BasicsInit, ReadInvInit DEF Known

LEMMA KnownStep == Known /\ [Next]_vars => Known'
BY BasicsStep, ReadInvStep, ErrorsStep, SharedStep DEF Known

LEMMA CallInvInit == Init => CallInv
<1> SUFFICES ASSUME Init
             PROVE  CallInv
  OBVIOUS
<1>1. /\ ioq = <<>> /\ pend = <<>> /\ out = <<>> /\ in = <<>> /\ reading = "header"
      /\ chans = <<>>
      /\ \A i \in Ids : peer[i] = "none" /\ served[i] = {}
      /\ \A u \in Users : Holds(u) = 0
  BY DEF Init, MgrInit, Holds
<1>2. ASSUME NEW x
      PROVE  ~Occurs(x, ioq) /\ ~Occurs(x, out) /\ ~Occurs(x, in) /\ ~Occurs(x, FramesOf(pend))
  <2>1. DOMAIN <<>> = {}
    OBVIOUS
  <2> QED BY <1>1, <2>1 DEF Occurs, FramesOf
<1>3. \A f : ~Outward(f) /\ ~Inward(f)
  BY <1>2 DEF Outward, Carried, Inward
<1>4. \A f, g : ~Behind(f, g)
  BY <1>3, BehindIsInward
<1>5. ChannelInv /\ PeerInv /\ UserInv
  BY <1>1 DEF ChannelInv, PeerInv, UserInv
<1>6. OutInv /\ InInv
  BY <1>3, <1>4 DEF OutInv, InInv
<1>7. HeaderInv
  BY <1>1, <1>2 DEF HeaderInv
<1> QED BY <1>5, <1>6, <1>7 DEF CallInv, CoreInv

LEMMA CallInvStep ==
  ASSUME NoStrayMethods, Known, CallInv, [Next]_vars
  PROVE  CallInv'
<1>1. CoreInv
  BY DEF CallInv
<1>2. ASSUME UNCHANGED vars
      PROVE  CoreInv'
  <2>1. UNCHANGED <<ioq, pend, out, in, chans, peer, served, pc, own, opening>>
    BY <1>2 DEF vars, mgrVars, userVars, brokerVars
  <2>2. OutKept /\ InKept
    BY <2>1, SameOutKept, PostedInKept DEF Known
  <2> QED BY <1>1, <2>1, <2>2, SameCore
<1>3. ASSUME Next
      PROVE  CoreInv'
  <2>1. ASSUME NEW u \in Users, Application(u)
        PROVE  CoreInv'
    BY <1>1, <2>1, ApplicationCore
  <2> QED BY <1>1, <1>3, <2>1, IoCore, ReactorCore, BrokerCore, BrokerSpeaksCore,
             SocketBreaksCore DEF Next, Outside
<1>4. CoreInv'
  BY <1>2, <1>3
<1>5. HeaderInv'
  <2>1. CASE IoStep
    BY <2>1, IoHeader
  <2>2. CASE ReactorStep
    BY <2>2, ReactorHeader
  <2>3. CASE ~IoStep /\ ~ReactorStep
    BY <2>3, OthersHeader
  <2> QED BY <2>1, <2>2, <2>3
<1> QED BY <1>4, <1>5 DEF CallInv

=============================================================================
