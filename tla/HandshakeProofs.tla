--------------------------- MODULE HandshakeProofs ---------------------------
(***************************************************************************)
(* What connect() guarantees, whatever hosts resolve to and whatever       *)
(* brokers announce.                                                       *)
(***************************************************************************)
EXTENDS Handshake, TLAPS

(* How many messages of the script connect() has come to at each point.    *)
Due == [resolve |-> 0, connecting |-> 0, greet |-> 0, await_start |-> 1,
        await_tune |-> 2, open |-> 3, await_open_ok |-> 4, returned |-> 4, threw |-> 4]

(* The wire holds a beginning of the script, all of it that is due unless  *)
(* the connection is lost.                                                 *)
InStep ==
  /\ \A i \in DOMAIN said : said[i].kind = Script[i]
  /\ Len(said) <= Due[pc]
  /\ sock = "connected" => Len(said) = Due[pc]
  /\ pc = "threw" => sock = "closed"

(* What connect() has checked before it wrote.                             *)
Checked ==
  /\ Len(said) >= 2 => /\ ~WrongVersion(broker.version)
                       /\ Selectable(broker.mechanisms)
                       /\ said[2].mechanism = "PLAIN"
  /\ Len(said) >= 3 => said[3].tune = broker.tune

(* The broker says open-ok only when it has heard the whole script.        *)
OpenOkIsEarned ==
  /\ \A i \in DOMAIN fromBroker : fromBroker[i] = "OpenOk" => heard = Len(Script)
  /\ pc = "returned" => heard = Len(Script)

HandshakeInv ==
  /\ TypeOK
  /\ NeverOutOfTurn
  /\ InStep
  /\ Checked
  /\ OpenOkIsEarned

-----------------------------------------------------------------------------
(***************************************************************************)
(* Throwing keeps the invariant: nothing more is written or read.          *)
(***************************************************************************)
LEMMA ThrowKeeps ==
  ASSUME HandshakeInv, Throw
  PROVE  HandshakeInv'
<1> USE DEF HandshakeInv, Throw
<1>1. Len(said) <= 4
  BY DEF TypeOK, Script
<1>2. TypeOK'
  BY DEF TypeOK, Script
<1>3. InStep'
  BY <1>1 DEF InStep, Due
<1>4. Checked'
  BY DEF Checked
<1>5. NeverOutOfTurn' /\ OpenOkIsEarned'
  BY DEF NeverOutOfTurn, OpenOkIsEarned
<1> QED
  BY <1>2, <1>3, <1>4, <1>5

(***************************************************************************)
(* Writing the message that is due keeps the invariant, provided that what *)
(* has to be checked before that message has been.                         *)
(***************************************************************************)
LEMMA WriteKeeps ==
  ASSUME HandshakeInv, HandshakeAssumption,
         NEW m \in Messages, NEW next, NEW unread \in Seq(BrokerKinds),
         Write(m, next, unread),
         next \in {"await_start", "await_tune", "open", "await_open_ok"},
         pc \in {"greet", "await_start", "await_tune", "open"},
         Due[next] = Due[pc] + 1,
         m.kind = Script[Due[next]],
         next = "await_tune" => /\ ~WrongVersion(broker.version)
                                /\ Selectable(broker.mechanisms)
                                /\ m.mechanism = "PLAIN",
         next = "open" => m.tune = broker.tune,
         \A i \in DOMAIN unread : unread[i] = "OpenOk" => heard = Len(Script)
  PROVE  HandshakeInv'
<1>1. CASE sock # "connected" /\ Throw
  BY <1>1, ThrowKeeps
<1>2. ASSUME sock \in {"connected", "broken"},
             said' = IF sock = "connected" THEN Append(said, m) ELSE said,
             pc' = next,
             fromBroker' = unread,
             UNCHANGED <<args, broker, endpoints, sock, heard, bk, faults>>
      PROVE  HandshakeInv'
  <2> USE <1>2 DEF HandshakeInv
  <2>1. Due[next] <= 4 /\ Due[next] \in Nat /\ Due[pc] \in Nat
    BY DEF Due
  <2>2. said \in Seq(Messages)
    BY DEF TypeOK
  <2>3. \/ said' = said /\ sock = "broken"
        \/ said' = Append(said, m) /\ Len(said) = Due[pc] /\ Len(said') = Due[next]
    BY <2>2 DEF InStep
  <2>4. /\ \A i \in 1 .. Len(said) : said'[i] = said[i]
        /\ Len(said) <= Len(said')
        /\ Len(said') <= 4
        /\ said' \in Seq(Messages)
    BY <2>1, <2>2, <2>3 DEF InStep
  <2>5. TypeOK'
    BY <2>2, <2>4 DEF TypeOK, Script
  <2>6. InStep'
    <3>1. \A i \in DOMAIN said' : said'[i].kind = Script[i]
      BY <2>1, <2>2, <2>3 DEF InStep
    <3> QED
      BY <2>1, <2>2, <2>3, <3>1 DEF InStep
  <2>7. Checked'
    BY <2>1, <2>2, <2>3, <2>4 DEF Checked, InStep, Due
  <2>8. NeverOutOfTurn' /\ OpenOkIsEarned'
    BY DEF NeverOutOfTurn, OpenOkIsEarned
  <2> QED
    BY <2>5, <2>6, <2>7, <2>8
<1> QED
  BY <1>1, <1>2 DEF Write

-----------------------------------------------------------------------------
LEMMA InitHolds ==
  ASSUME HandshakeAssumption, Init
  PROVE  HandshakeInv
<1> USE DEF Init
<1>1. TypeOK
  BY DEF TypeOK, HandshakeAssumption, Script
<1>2. NeverOutOfTurn /\ InStep /\ Checked /\ OpenOkIsEarned
  BY DEF NeverOutOfTurn, InStep, Due, Checked, OpenOkIsEarned
<1> QED
  BY <1>1, <1>2 DEF HandshakeInv

(* What is left to read after a frame was taken came from the broker, too. *)
LEMMA TailIsRead ==
  ASSUME HandshakeInv, fromBroker # <<>>
  PROVE  /\ Tail(fromBroker) \in Seq(BrokerKinds)
         /\ \A i \in DOMAIN Tail(fromBroker) :
              Tail(fromBroker)[i] = "OpenOk" => heard = Len(Script)
<1>1. fromBroker \in Seq(BrokerKinds)
  BY DEF HandshakeInv, TypeOK
<1>2. \A i \in DOMAIN Tail(fromBroker) :
        /\ i + 1 \in DOMAIN fromBroker
        /\ Tail(fromBroker)[i] = fromBroker[i + 1]
  BY <1>1
<1> QED
  BY <1>1, <1>2 DEF HandshakeInv, OpenOkIsEarned

LEMMA MessageType ==
  ASSUME HandshakeAssumption, HandshakeInv
  PROVE  /\ NoTune \in Tunes
         /\ Message("Header") \in Messages /\ Message("Header").kind = "Header"
         /\ Message("Open") \in Messages /\ Message("Open").kind = "Open"
         /\ LET m == [Message("StartOk") EXCEPT !.mechanism = "PLAIN"]
            IN  m \in Messages /\ m.kind = "StartOk" /\ m.mechanism = "PLAIN"
         /\ LET m == [Message("TuneOk") EXCEPT !.tune = TuneOk(broker.tune)]
            IN  m \in Messages /\ m.kind = "TuneOk" /\ m.tune = broker.tune
<1>1. NoTune \in Tunes
  BY DEF HandshakeAssumption, NoTune, Tunes
<1>2. broker.tune \in Tunes
  BY DEF HandshakeInv, TypeOK
<1>3. TuneOk(broker.tune) = broker.tune
  BY <1>2 DEF TuneOk, Tunes
<1> QED
  BY <1>1, <1>2, <1>3 DEF Message, Messages

-----------------------------------------------------------------------------
(***************************************************************************)
(* The steps of connect().                                                 *)
(***************************************************************************)
LEMMA ConnectKeeps ==
  ASSUME HandshakeAssumption, HandshakeInv, Connect
  PROVE  HandshakeInv'
<1>1. CASE Resolve
  <2>1. CASE Throw
    BY <2>1, ThrowKeeps
  <2>2. ASSUME pc = "resolve", pc' = "connecting",
               UNCHANGED <<args, broker, endpoints, sock, network>>
        PROVE  HandshakeInv'
    BY <2>2 DEF network, HandshakeInv, TypeOK, NeverOutOfTurn, InStep, Due, Checked,
                OpenOkIsEarned
  <2> QED
    BY <1>1, <2>1, <2>2 DEF Resolve
<1>2. CASE TryEndpoint
  <2>1. /\ pc = "connecting" /\ pc' \in {"connecting", "greet"}
        /\ sock' \in {"v4", "v6", "connected", "broken", "closed"}
        /\ endpoints' \in Seq(Endpoints)
        /\ UNCHANGED <<args, broker, network>>
    <3>1. endpoints \in Seq(Endpoints) /\ endpoints # <<>>
      BY <1>2 DEF TryEndpoint, HandshakeInv, TypeOK
    <3>2. Head(endpoints) \in Endpoints /\ Tail(endpoints) \in Seq(Endpoints)
      BY <3>1
    <3>3. SocketFor(Head(endpoints)) \in {"v4", "v6", "connected", "broken", "closed"}
      BY <3>2 DEF SocketFor, Endpoints, HandshakeInv, TypeOK
    <3> QED
      BY <1>2, <3>2, <3>3 DEF TryEndpoint
  <2>2. Len(said) = 0
    BY <2>1 DEF HandshakeInv, TypeOK, InStep, Due
  <2> QED
    BY <2>1, <2>2 DEF network, HandshakeInv, TypeOK, NeverOutOfTurn, InStep, Due, Checked,
                      OpenOkIsEarned
<1>3. CASE GiveUp
  <2>1. CASE Throw
    BY <2>1, ThrowKeeps
  <2>2. ASSUME pc = "connecting", pc' = "greet",
               UNCHANGED <<args, broker, endpoints, sock, network>>
        PROVE  HandshakeInv'
    BY <2>2 DEF network, HandshakeInv, TypeOK, NeverOutOfTurn, InStep, Due, Checked,
                OpenOkIsEarned
  <2> QED
    BY <1>3, <2>1, <2>2 DEF GiveUp
<1>4. CASE Greet
  <2> DEFINE m == Message("Header")
  <2>1. pc = "greet" /\ Write(m, "await_start", fromBroker)
    BY <1>4 DEF Greet
  <2>2. /\ Due["await_start"] = Due[pc] + 1
        /\ "Header" = Script[Due["await_start"]]
    BY <2>1 DEF Due, Script
  <2>3. /\ fromBroker \in Seq(BrokerKinds)
        /\ \A i \in DOMAIN fromBroker : fromBroker[i] = "OpenOk" => heard = Len(Script)
    BY DEF HandshakeInv, TypeOK, OpenOkIsEarned
  <2>4. m \in Messages /\ m.kind = "Header"
    BY MessageType
  <2> HIDE DEF m
  <2> QED
    BY <2>1, <2>2, <2>3, <2>4, WriteKeeps
<1>5. CASE ReadFails
  BY <1>5, ThrowKeeps DEF ReadFails
<1>6. CASE ReceiveStart
  <2> DEFINE m == [Message("StartOk") EXCEPT !.mechanism = "PLAIN"]
  <2>1. CASE Throw
    BY <2>1, ThrowKeeps
  <2>2. CASE ~Throw
    <3>1. /\ pc = "await_start" /\ fromBroker # <<>>
          /\ ~WrongVersion(broker.version) /\ Selectable(broker.mechanisms)
          /\ Write(m, "await_tune", Tail(fromBroker))
      BY <1>6, <2>2 DEF ReceiveStart, Received
    <3>2. /\ Due["await_tune"] = Due[pc] + 1
          /\ "StartOk" = Script[Due["await_tune"]]
      BY <3>1 DEF Due, Script
    <3>3. m \in Messages /\ m.kind = "StartOk" /\ m.mechanism = "PLAIN"
      BY MessageType
    <3> HIDE DEF m
    <3> QED
      BY <3>1, <3>2, <3>3, TailIsRead, WriteKeeps
  <2> QED
    BY <2>1, <2>2
<1>7. CASE ReceiveTune
  <2> DEFINE m == [Message("TuneOk") EXCEPT !.tune = TuneOk(broker.tune)]
  <2>1. /\ pc = "await_tune" /\ fromBroker # <<>>
        /\ Write(m, "open", Tail(fromBroker))
    BY <1>7 DEF ReceiveTune, Received
  <2>2. /\ Due["open"] = Due[pc] + 1
        /\ "TuneOk" = Script[Due["open"]]
    BY <2>1 DEF Due, Script
  <2>3. m \in Messages /\ m.kind = "TuneOk" /\ m.tune = broker.tune
    BY MessageType
  <2> HIDE DEF m
  <2> QED
    BY <2>1, <2>2, <2>3, TailIsRead, WriteKeeps
<1>8. CASE OpenVhost
  <2> DEFINE m == Message("Open")
  <2>1. CASE Throw
    BY <2>1, ThrowKeeps
  <2>2. CASE ~Throw
    <3>1. pc = "open" /\ Write(m, "await_open_ok", fromBroker)
      BY <1>8, <2>2 DEF OpenVhost
    <3>2. /\ Due["await_open_ok"] = Due[pc] + 1
          /\ "Open" = Script[Due["await_open_ok"]]
      BY <3>1 DEF Due, Script
    <3>3. /\ fromBroker \in Seq(BrokerKinds)
          /\ \A i \in DOMAIN fromBroker : fromBroker[i] = "OpenOk" => heard = Len(Script)
      BY DEF HandshakeInv, TypeOK, OpenOkIsEarned
    <3>4. m \in Messages /\ m.kind = "Open"
      BY MessageType
    <3> HIDE DEF m
    <3> QED
      BY <3>1, <3>2, <3>3, <3>4, WriteKeeps
  <2> QED
    BY <2>1, <2>2
<1>9. CASE ReceiveOpenOk
  <2>1. /\ pc = "await_open_ok" /\ pc' = "returned" /\ fromBroker' = Tail(fromBroker)
        /\ fromBroker # <<>> /\ Head(fromBroker) = "OpenOk"
        /\ UNCHANGED <<args, broker, endpoints, sock, said, heard, bk, faults>>
    BY <1>9 DEF ReceiveOpenOk, Received, Awaited
  <2>2. fromBroker[1] = "OpenOk" /\ 1 \in DOMAIN fromBroker
    BY <2>1 DEF HandshakeInv, TypeOK
  <2>3. heard = Len(Script)
    BY <2>2 DEF HandshakeInv, OpenOkIsEarned
  <2>4. fromBroker' \in Seq(BrokerKinds)
    BY <2>1, TailIsRead
  <2> QED
    BY <2>1, <2>3, <2>4, TailIsRead
    DEF HandshakeInv, TypeOK, NeverOutOfTurn, InStep, Due, Checked, OpenOkIsEarned
<1> QED
  BY <1>1, <1>2, <1>3, <1>4, <1>5, <1>6, <1>7, <1>8, <1>9 DEF Connect

-----------------------------------------------------------------------------
(***************************************************************************)
(* The steps of the broker.                                                *)
(***************************************************************************)
LEMMA HearKeeps ==
  ASSUME HandshakeAssumption, HandshakeInv, Hear
  PROVE  HandshakeInv'
<1> USE DEF Hear, HandshakeInv
<1>1. /\ said[heard + 1].kind = Script[heard + 1]
      /\ heard + 1 \in 1 .. 4
      /\ heard + 1 <= Len(said)
      /\ heard # 4
  <2>1. Len(said) \in Nat /\ Len(said) <= 4 /\ DOMAIN said = 1 .. Len(said)
    BY DEF TypeOK, Script
  <2>2. heard \in Nat /\ heard < Len(said)
    BY <2>1 DEF TypeOK
  <2> QED
    BY <2>1, <2>2 DEF InStep
<1>2. /\ Sends(Answers[heard + 1])
      /\ heard' = heard + 1
      /\ UNCHANGED <<args, broker, pc, endpoints, sock, said, faults, bk>>
  BY <1>1 DEF client
<1>3. /\ Answers[heard + 1] \in Seq(BrokerKinds)
      /\ \A i \in DOMAIN Answers[heard + 1] :
           Answers[heard + 1][i] = "OpenOk" => heard + 1 = Len(Script)
  <2>1. Len(Script) = 4
    BY DEF Script
  <2>2. CASE heard + 1 = 1
    <3>1. Answers[heard + 1] = <<"Start">>
      BY <2>2 DEF Answers
    <3> QED
      BY <3>1 DEF BrokerKinds
  <2>3. CASE heard + 1 = 2
    <3>1. Answers[heard + 1] = <<"Tune">>
      BY <2>3 DEF Answers
    <3> QED
      BY <3>1 DEF BrokerKinds
  <2>4. CASE heard + 1 = 3
    <3>1. Answers[heard + 1] = <<>>
      BY <2>4 DEF Answers
    <3> QED
      BY <3>1
  <2>5. CASE heard + 1 = 4
    <3>1. Answers[heard + 1] = <<"OpenOk">>
      BY <2>5 DEF Answers
    <3> QED
      BY <2>1, <2>5, <3>1 DEF BrokerKinds
  <2> QED
    BY <1>1, <2>2, <2>3, <2>4, <2>5
<1>4. heard # Len(Script) /\ heard + 1 <= Len(said) /\ pc # "returned"
  <2>1. Len(Script) = 4
    BY DEF Script
  <2> QED
    BY <1>1, <2>1 DEF OpenOkIsEarned
<1>5. fromBroker' \in Seq(BrokerKinds)
  BY <1>2, <1>3 DEF Sends, TypeOK
<1>6. \A i \in DOMAIN fromBroker' : fromBroker'[i] = "OpenOk" => heard' = Len(Script)
  <2> SUFFICES ASSUME NEW i \in DOMAIN fromBroker', fromBroker'[i] = "OpenOk"
               PROVE  heard' = Len(Script)
    OBVIOUS
  <2>1. fromBroker \in Seq(BrokerKinds)
    BY DEF TypeOK
  <2>2. ~ (i \in DOMAIN fromBroker /\ fromBroker'[i] = fromBroker[i])
    BY <1>4 DEF OpenOkIsEarned
  <2>3. /\ fromBroker' = fromBroker \o Answers[heard + 1]
        /\ i - Len(fromBroker) \in DOMAIN Answers[heard + 1]
        /\ fromBroker'[i] = Answers[heard + 1][i - Len(fromBroker)]
    <3>1. fromBroker' = fromBroker \o Answers[heard + 1]
      BY <1>2, <2>2 DEF Sends
    <3>2. PICK more \in Seq(BrokerKinds) : more = Answers[heard + 1]
      BY <1>3
    <3>3. \A j \in DOMAIN (fromBroker \o more) :
            \/ j \in DOMAIN fromBroker /\ (fromBroker \o more)[j] = fromBroker[j]
            \/ /\ j - Len(fromBroker) \in DOMAIN more
               /\ (fromBroker \o more)[j] = more[j - Len(fromBroker)]
      BY <2>1
    <3> QED BY <2>2, <3>1, <3>2, <3>3
  <2> QED
    BY <1>2, <1>3, <2>3
<1>7. TypeOK'
  BY <1>2, <1>4, <1>5 DEF TypeOK
<1>8. NeverOutOfTurn' /\ InStep' /\ Checked' /\ OpenOkIsEarned'
  BY <1>2, <1>4, <1>6 DEF NeverOutOfTurn, InStep, Checked, OpenOkIsEarned
<1> QED
  BY <1>7, <1>8

(* Frames out of turn, and hanging up, add no open-ok.                     *)
LEMMA OtherSends ==
  ASSUME HandshakeInv, NEW kinds \in Seq(BrokerKinds \ {"OpenOk"}), Sends(kinds)
  PROVE  /\ fromBroker' \in Seq(BrokerKinds)
         /\ \A i \in DOMAIN fromBroker' : fromBroker'[i] = "OpenOk" => heard = Len(Script)
<1>1. fromBroker \in Seq(BrokerKinds) /\ kinds \in Seq(BrokerKinds)
  BY DEF HandshakeInv, TypeOK
<1>2. CASE fromBroker' = fromBroker
  BY <1>1, <1>2 DEF HandshakeInv, OpenOkIsEarned
<1>3. CASE fromBroker' = fromBroker \o kinds
  <2>1. \A i \in DOMAIN fromBroker' :
          \/ i \in DOMAIN fromBroker /\ fromBroker'[i] = fromBroker[i]
          \/ i - Len(fromBroker) \in DOMAIN kinds
             /\ fromBroker'[i] = kinds[i - Len(fromBroker)]
    BY <1>1, <1>3
  <2>2. \A i \in DOMAIN kinds : kinds[i] # "OpenOk"
    OBVIOUS
  <2> QED
    BY <1>1, <1>3, <2>1, <2>2 DEF HandshakeInv, OpenOkIsEarned
<1> QED
  BY <1>2, <1>3 DEF Sends

LEMMA BrokerKeeps ==
  ASSUME HandshakeAssumption, HandshakeInv, Deviate \/ HangUp
  PROVE  HandshakeInv'
<1>1. \E kinds \in Seq(BrokerKinds \ {"OpenOk"}) : Sends(kinds)
  <2>1. CASE Deviate
    <3>1. PICK kind \in Unsolicited : Sends(<<kind>>)
      BY <2>1 DEF Deviate
    <3>2. <<kind>> \in Seq(BrokerKinds \ {"OpenOk"})
      BY DEF HandshakeAssumption
    <3> QED
      BY <3>1, <3>2
  <2>2. CASE HangUp
    <3>1. PICK last \in {<<>>, <<"Close">>, <<"Malformed">>} : Sends(last)
      BY <2>2 DEF HangUp
    <3>2. /\ <<>> \in Seq(BrokerKinds \ {"OpenOk"})
          /\ <<"Close">> \in Seq(BrokerKinds \ {"OpenOk"})
          /\ <<"Malformed">> \in Seq(BrokerKinds \ {"OpenOk"})
      BY DEF BrokerKinds
    <3> QED
      BY <3>1, <3>2
  <2> QED
    BY <2>1, <2>2
<1>2. /\ fromBroker' \in Seq(BrokerKinds)
      /\ \A i \in DOMAIN fromBroker' : fromBroker'[i] = "OpenOk" => heard = Len(Script)
  BY <1>1, OtherSends
<1>3. /\ sock = "connected" /\ sock' \in {"connected", "broken"}
      /\ bk' \in {"listening", "gone"}
      /\ faults' \in 0 .. MaxFaults
      /\ UNCHANGED <<args, broker, pc, endpoints, said, heard>>
  BY DEF Deviate, HangUp, client, HandshakeInv, TypeOK, HandshakeAssumption
<1> QED
  BY <1>2, <1>3 DEF HandshakeInv, TypeOK, NeverOutOfTurn, InStep, Checked, OpenOkIsEarned

-----------------------------------------------------------------------------
THEOREM HandshakeInvariant == Spec => []HandshakeInv
<1>1. Init => HandshakeInv
  BY InitHolds, HandshakeAssumption
<1>2. HandshakeInv /\ [Next]_vars => HandshakeInv'
  <2> SUFFICES ASSUME HandshakeInv, [Next]_vars
               PROVE  HandshakeInv'
    OBVIOUS
  <2>1. CASE Connect
    BY <2>1, ConnectKeeps, HandshakeAssumption
  <2>2. CASE Hear
    BY <2>2, HearKeeps, HandshakeAssumption
  <2>3. CASE Deviate \/ HangUp
    BY <2>3, BrokerKeeps, HandshakeAssumption
  <2>4. CASE UNCHANGED vars
    BY <2>4 DEF vars, client, network, HandshakeInv, TypeOK, NeverOutOfTurn, InStep,
                Checked, OpenOkIsEarned
  <2> QED
    BY <2>1, <2>2, <2>3, <2>4 DEF Next
<1> QED
  BY <1>1, <1>2, PTL DEF Spec

(* Types.                                                                  *)
THEOREM HandshakeTypeCorrect == Spec => []TypeOK
<1>1. HandshakeInv => TypeOK
  BY DEF HandshakeInv
<1> QED
  BY <1>1, HandshakeInvariant, PTL

(***************************************************************************)
(* No broker receives a message of the handshake out of turn, not even one *)
(* that sends its own out of turn.                                         *)
(***************************************************************************)
THEOREM ClientStaysInTurn == Spec => []NeverOutOfTurn
<1>1. HandshakeInv => NeverOutOfTurn
  BY DEF HandshakeInv
<1> QED
  BY <1>1, HandshakeInvariant, PTL

(***************************************************************************)
(* When connect() returns, the broker has opened the connection, and both  *)
(* agree on version, mechanism and limits.                                 *)
(***************************************************************************)
THEOREM BothSidesAgree == Spec => []Agreement
<1>1. HandshakeInv => Agreement
  <2> SUFFICES ASSUME HandshakeInv, pc = "returned"
               PROVE  /\ heard = Len(Script)
                      /\ broker.version = <<0, 9>>
                      /\ \E i \in DOMAIN broker.mechanisms :
                           broker.mechanisms[i] = said[2].mechanism
                      /\ said[3].tune = broker.tune
    BY DEF Agreement
  <2>1. heard = Len(Script) /\ Len(said) >= 3 /\ Len(said) >= 2
    BY DEF HandshakeInv, TypeOK, OpenOkIsEarned, Script
  <2>2. ~WrongVersion(broker.version)
    BY <2>1 DEF HandshakeInv, Checked
  <2>3. broker.version = <<broker.version[1], broker.version[2]>>
    BY HandshakeAssumption DEF HandshakeAssumption, HandshakeInv, TypeOK
  <2>4. broker.version = <<0, 9>>
    BY <2>2, <2>3 DEF WrongVersion
  <2> QED
    BY <2>1, <2>4 DEF HandshakeInv, Checked, Selectable
<1> QED
  BY <1>1, HandshakeInvariant, PTL

-----------------------------------------------------------------------------
(***************************************************************************)
(* Fairness to the broker.  What it has sent and connect() has not read,   *)
(* counted: one reply to each message but TuneOk, and what it sent out of  *)
(* turn.  If that is nothing, what is left to read are the replies in      *)
(* their order.                                                            *)
(***************************************************************************)
Replies    == <<"Start", "Tune", "OpenOk">>
Replied(n) == IF n <= 2 THEN n ELSE n - 1

(* How many frames connect() has read at each point.                       *)
Taken == [resolve |-> 0, connecting |-> 0, greet |-> 0, await_start |-> 0, await_tune |-> 1,
          open |-> 2, await_open_ok |-> 2, returned |-> 3, threw |-> 3]

InOrder(frames, n) == \A i \in DOMAIN frames : frames[i] = Replies[n + i]

Counted ==
  sock = "connected" =>
    /\ bk = "listening"
    /\ Len(fromBroker) + Taken[pc] = Replied(heard) + faults
    /\ faults = 0 => InOrder(fromBroker, Taken[pc])

Sockets ==
  /\ sock = "broken" => bk = "gone"
  /\ pc \notin {"resolve", "connecting", "greet", "threw"} => sock \in {"connected", "broken"}

(* Nothing is under way before an endpoint lets the client connect, and a  *)
(* socket that was tried is open.                                          *)
BeforeGreeting ==
  pc \in {"resolve", "connecting"} =>
    /\ sock \in {"closed", "v4", "v6"} /\ bk = "listening"
    /\ fromBroker = <<>> /\ said = <<>> /\ heard = 0 /\ faults = 0
    /\ sock = "closed" => pc = "resolve" \/ endpoints # <<>>

FairInv == BeforeGreeting /\ Sockets /\ Counted

LEMMA FairInit == Init => FairInv
BY DEF Init, FairInv, BeforeGreeting, Sockets, Counted

LEMMA ThrowIsFair == Throw => FairInv'
BY DEF Throw, FairInv, BeforeGreeting, Sockets, Counted

LEMMA FrameTaken ==
  ASSUME HandshakeInv, fromBroker # <<>>, NEW n \in Nat, InOrder(fromBroker, n)
  PROVE  /\ Head(fromBroker) = Replies[n + 1]
         /\ InOrder(Tail(fromBroker), n + 1)
<1>1. fromBroker \in Seq(BrokerKinds)
  BY DEF HandshakeInv, TypeOK
<1>2. /\ 1 \in DOMAIN fromBroker /\ Head(fromBroker) = fromBroker[1]
      /\ \A i \in DOMAIN Tail(fromBroker) :
           /\ i + 1 \in DOMAIN fromBroker /\ i \in Nat
           /\ Tail(fromBroker)[i] = fromBroker[i + 1]
  BY <1>1
<1>3. \A i \in Nat : n + (i + 1) = (n + 1) + i
  OBVIOUS
<1>4. fromBroker[1] = Replies[n + 1]
  BY <1>2 DEF InOrder
<1>5. ASSUME NEW i \in DOMAIN Tail(fromBroker)
      PROVE  Tail(fromBroker)[i] = Replies[(n + 1) + i]
  <2>1. fromBroker[i + 1] = Replies[n + (i + 1)]
    BY <1>2, <1>5 DEF InOrder
  <2> QED BY <1>2, <1>3, <1>5, <2>1
<1> QED BY <1>2, <1>4, <1>5 DEF InOrder

LEMMA FrameSent ==
  ASSUME NEW s \in Seq(BrokerKinds), NEW kind \in BrokerKinds, NEW n \in Nat,
         InOrder(s, n), kind = Replies[n + Len(s) + 1]
  PROVE  InOrder(s \o <<kind>>, n)
<1>1. /\ Len(s) \in Nat /\ DOMAIN s = 1 .. Len(s)
      /\ DOMAIN (s \o <<kind>>) = 1 .. Len(s) + 1
      /\ (s \o <<kind>>)[Len(s) + 1] = kind
      /\ \A i \in 1 .. Len(s) : (s \o <<kind>>)[i] = s[i]
  OBVIOUS
<1>2. \A i \in 1 .. Len(s) : (s \o <<kind>>)[i] = Replies[n + i]
  BY <1>1 DEF InOrder
<1>3. n + Len(s) + 1 = n + (Len(s) + 1)
  BY <1>1
<1>4. (s \o <<kind>>)[Len(s) + 1] = Replies[n + (Len(s) + 1)]
  BY <1>1, <1>3
<1>5. \A i \in 1 .. Len(s) + 1 : i \in 1 .. Len(s) \/ i = Len(s) + 1
  BY <1>1
<1> QED BY <1>1, <1>2, <1>4, <1>5 DEF InOrder

(* Writing; what connect() has read before it writes is off the account.   *)
LEMMA WriteIsFair ==
  ASSUME FairInv, NEW m, NEW next, NEW unread, Write(m, next, unread),
         next \in {"await_start", "await_tune", "open", "await_open_ok"},
         sock = "connected" =>
           /\ Len(unread) + Taken[next] = Replied(heard) + faults
           /\ faults = 0 => InOrder(unread, Taken[next])
  PROVE  FairInv'
<1>1. CASE Throw
  BY <1>1, ThrowIsFair
<1>2. CASE ~Throw
  <2>1. /\ sock \in {"connected", "broken"} /\ pc' = next /\ fromBroker' = unread
        /\ UNCHANGED <<sock, heard, bk, faults>>
    BY <1>2 DEF Write
  <2> QED BY <2>1 DEF FairInv, BeforeGreeting, Sockets, Counted, InOrder
<1> QED BY <1>1, <1>2

(* A frame has been read, and counts as one more.                          *)
LEMMA ReadIsFair ==
  ASSUME HandshakeInv, FairInv, sock = "connected", fromBroker # <<>>
  PROVE  /\ Len(Tail(fromBroker)) + (Taken[pc] + 1) = Replied(heard) + faults
         /\ faults = 0 => InOrder(Tail(fromBroker), Taken[pc] + 1)
<1>1. Taken[pc] \in Nat
  BY DEF HandshakeInv, TypeOK, Taken
<1>2. Len(fromBroker) \in Nat /\ Len(Tail(fromBroker)) = Len(fromBroker) - 1
  BY DEF HandshakeInv, TypeOK
<1>3. /\ Len(fromBroker) + Taken[pc] = Replied(heard) + faults
      /\ faults = 0 => InOrder(fromBroker, Taken[pc])
  BY DEF FairInv, Counted
<1>4. Replied(heard) + faults \in Nat
  BY <1>1, <1>2, <1>3
<1> QED BY <1>1, <1>2, <1>3, <1>4, FrameTaken

LEMMA ConnectIsFair ==
  ASSUME HandshakeInv, FairInv, Connect
  PROVE  FairInv'
<1>1. CASE Resolve
  <2>1. CASE Throw
    BY <2>1, ThrowIsFair
  <2>2. CASE ~Throw
    <3>1. /\ pc = "resolve" /\ pc' = "connecting" /\ endpoints # <<>>
          /\ UNCHANGED <<endpoints, sock, said, heard, fromBroker, bk, faults>>
      BY <1>1, <2>2 DEF Resolve, network
    <3> QED BY <3>1 DEF FairInv, BeforeGreeting, Sockets, Counted
  <2> QED BY <2>1, <2>2
<1>2. CASE TryEndpoint
  <2>1. /\ pc = "connecting" /\ endpoints # <<>> /\ endpoints \in Seq(Endpoints)
        /\ UNCHANGED <<said, heard, fromBroker, bk, faults>>
    BY <1>2 DEF TryEndpoint, network, HandshakeInv, TypeOK
  <2>2. Head(endpoints) \in Endpoints
    BY <2>1
  <2>3. /\ sock \in {"closed", "v4", "v6"} /\ bk = "listening"
        /\ fromBroker = <<>> /\ said = <<>> /\ heard = 0 /\ faults = 0
    BY <2>1 DEF FairInv, BeforeGreeting
  <2>4. \/ pc' = "greet" /\ sock' = "connected"
        \/ pc' = "connecting" /\ sock' \in {"v4", "v6"}
    BY <1>2, <2>1, <2>2, <2>3 DEF TryEndpoint, SocketFor, Endpoints
  <2>5. Len(fromBroker) = 0 /\ DOMAIN fromBroker = {}
    BY <2>3
  <2>6. CASE pc' = "greet" /\ sock' = "connected"
    <3>1. Taken[pc'] = 0 /\ Replied(heard) = 0
      BY <2>3, <2>6 DEF Taken, Replied
    <3>2. BeforeGreeting' /\ Sockets'
      BY <2>6 DEF BeforeGreeting, Sockets
    <3>3. Counted'
      BY <2>1, <2>3, <2>5, <3>1 DEF Counted, InOrder, Replied
    <3> QED BY <3>2, <3>3 DEF FairInv
  <2>7. CASE pc' = "connecting" /\ sock' \in {"v4", "v6"}
    BY <2>1, <2>3, <2>7 DEF FairInv, BeforeGreeting, Sockets, Counted
  <2> QED BY <2>4, <2>6, <2>7
<1>3. CASE GiveUp
  <2>1. CASE Throw
    BY <2>1, ThrowIsFair
  <2>2. CASE ~Throw
    <3>1. /\ pc = "connecting" /\ pc' = "greet"
          /\ UNCHANGED <<endpoints, sock, said, heard, fromBroker, bk, faults>>
      BY <1>3, <2>2 DEF GiveUp, network
    <3> QED BY <3>1 DEF FairInv, BeforeGreeting, Sockets, Counted
  <2> QED BY <2>1, <2>2
<1>4. CASE Greet
  <2>1. pc = "greet" /\ Write(Message("Header"), "await_start", fromBroker)
    BY <1>4 DEF Greet
  <2>2. Taken["await_start"] = Taken[pc]
    BY <2>1 DEF Taken
  <2> QED BY <2>1, <2>2, WriteIsFair DEF FairInv, Counted
<1>5. CASE ReadFails
  BY <1>5, ThrowIsFair DEF ReadFails
<1>6. CASE ReceiveStart
  <2>1. CASE Throw
    BY <2>1, ThrowIsFair
  <2>2. CASE ~Throw
    <3>1. PICK m : /\ pc = "await_start" /\ fromBroker # <<>>
                   /\ Write(m, "await_tune", Tail(fromBroker))
      BY <1>6, <2>2 DEF ReceiveStart, Received
    <3>2. Taken["await_tune"] = Taken[pc] + 1
      BY <3>1 DEF Taken
    <3> QED BY <3>1, <3>2, ReadIsFair, WriteIsFair
  <2> QED BY <2>1, <2>2
<1>7. CASE ReceiveTune
  <2>1. PICK m : /\ pc = "await_tune" /\ fromBroker # <<>>
                 /\ Write(m, "open", Tail(fromBroker))
    BY <1>7 DEF ReceiveTune, Received
  <2>2. Taken["open"] = Taken[pc] + 1
    BY <2>1 DEF Taken
  <2> QED BY <2>1, <2>2, ReadIsFair, WriteIsFair
<1>8. CASE OpenVhost
  <2>1. CASE Throw
    BY <2>1, ThrowIsFair
  <2>2. CASE ~Throw
    <3>1. pc = "open" /\ Write(Message("Open"), "await_open_ok", fromBroker)
      BY <1>8, <2>2 DEF OpenVhost
    <3>2. Taken["await_open_ok"] = Taken[pc]
      BY <3>1 DEF Taken
    <3> QED BY <3>1, <3>2, WriteIsFair DEF FairInv, Counted
  <2> QED BY <2>1, <2>2
<1>9. CASE ReceiveOpenOk
  <2>1. /\ pc = "await_open_ok" /\ pc' = "returned" /\ fromBroker # <<>>
        /\ fromBroker' = Tail(fromBroker)
        /\ UNCHANGED <<endpoints, sock, said, heard, bk, faults>>
    BY <1>9 DEF ReceiveOpenOk, Received
  <2>2. Taken[pc'] = Taken[pc] + 1
    BY <2>1 DEF Taken
  <2>3. BeforeGreeting' /\ Sockets'
    BY <2>1 DEF FairInv, BeforeGreeting, Sockets
  <2>4. Counted'
    <3> SUFFICES ASSUME sock = "connected" PROVE Counted'
      BY <2>1 DEF Counted
    <3>1. bk = "listening"
      BY DEF FairInv, Counted
    <3> QED BY <2>1, <2>2, <3>1, ReadIsFair DEF Counted, InOrder, Replied
  <2> QED BY <2>3, <2>4 DEF FairInv
<1> QED
  BY <1>1, <1>2, <1>3, <1>4, <1>5, <1>6, <1>7, <1>8, <1>9 DEF Connect

LEMMA Balance ==
  ASSUME NEW l \in Nat, NEW a \in Nat, NEW r \in Nat, NEW n \in Nat, l + a = r + n
  PROVE  /\ (l + 1) + a = (r + 1) + n
         /\ (l + 1) + a = r + (n + 1)
         /\ n = 0 => a + l + 1 = r + 1
<1>1. (l + 1) + a = (l + a) + 1
  OBVIOUS
<1>2. (r + 1) + n = (r + n) + 1 /\ r + (n + 1) = (r + n) + 1
  OBVIOUS
<1>3. n = 0 => r + n = r
  OBVIOUS
<1>4. a + l + 1 = (l + a) + 1
  OBVIOUS
<1> QED BY <1>1, <1>2, <1>3, <1>4

LEMMA HearIsFair ==
  ASSUME HandshakeInv, FairInv, Hear
  PROVE  FairInv'
<1>1. /\ heard \in 0 .. 3 /\ heard < Len(said) /\ Len(said) \in Nat /\ DOMAIN said = 1 .. Len(said)
      /\ fromBroker \in Seq(BrokerKinds) /\ faults \in Nat /\ Taken[pc] \in Nat
      /\ said # <<>>
  BY HandshakeAssumption DEF Hear, HandshakeInv, TypeOK, Script, HandshakeAssumption, Taken
<1>2. said[heard + 1].kind = Script[heard + 1]
  BY <1>1 DEF HandshakeInv, InStep
<1>3. /\ Sends(Answers[heard + 1]) /\ heard' = heard + 1
      /\ UNCHANGED <<pc, endpoints, sock, said, bk, faults>>
  BY <1>2 DEF Hear, client
<1>4. BeforeGreeting' /\ Sockets'
  BY <1>1, <1>3 DEF FairInv, BeforeGreeting, Sockets
<1>5. ASSUME sock = "connected"
      PROVE  Counted'
  <2>1. /\ bk = "listening" /\ fromBroker' = fromBroker \o Answers[heard + 1]
        /\ Len(fromBroker) + Taken[pc] = Replied(heard) + faults
        /\ faults = 0 => InOrder(fromBroker, Taken[pc])
    BY <1>3, <1>5 DEF FairInv, Counted, Sends
  <2>2. CASE heard = 2
    <3>1. fromBroker' = fromBroker /\ Replied(heard') = Replied(heard)
      BY <1>1, <1>3, <2>1, <2>2 DEF Answers, Replied
    <3> QED BY <1>3, <2>1, <3>1 DEF Counted
  <2>3. CASE heard # 2
    <3> DEFINE kind == Replies[Replied(heard) + 1]
    <3>1. Answers[heard + 1] = <<kind>> /\ kind \in BrokerKinds
      <4>1. heard = 0 \/ heard = 1 \/ heard = 3
        BY <1>1, <2>3
      <4> QED BY <4>1 DEF Answers, Replies, Replied, BrokerKinds
    <3>2. Replied(heard') = Replied(heard) + 1 /\ Replied(heard) \in Nat
      BY <1>1, <1>3, <2>3 DEF Replied
    <3>3. Len(fromBroker') = Len(fromBroker) + 1 /\ Len(fromBroker) \in Nat
      BY <1>1, <2>1, <3>1
    <3>4. faults = 0 => InOrder(fromBroker', Taken[pc])
      <4> SUFFICES ASSUME faults = 0 PROVE InOrder(fromBroker', Taken[pc])
        OBVIOUS
      <4>1. Taken[pc] + Len(fromBroker) + 1 = Replied(heard) + 1
        BY <1>1, <2>1, <3>2, <3>3, Balance
      <4>2. kind = Replies[Taken[pc] + Len(fromBroker) + 1]
        BY <4>1
      <4> HIDE DEF kind
      <4> QED BY <1>1, <2>1, <3>1, <4>2, FrameSent
    <3>5. Len(fromBroker') + Taken[pc] = Replied(heard') + faults
      <4>1. /\ faults \in Nat /\ Taken[pc] \in Nat /\ Len(fromBroker) \in Nat
            /\ Replied(heard) \in Nat
            /\ Len(fromBroker) + Taken[pc] = Replied(heard) + faults
        BY <1>1, <2>1, <3>2, <3>3
      <4>2. (Len(fromBroker) + 1) + Taken[pc] = (Replied(heard) + 1) + faults
        BY <4>1, Balance
      <4> QED BY <3>2, <3>3, <4>2, Zenon
    <3> QED BY <1>3, <2>1, <3>4, <3>5, Zenon DEF Counted
  <2> QED BY <2>2, <2>3
<1>6. sock # "connected" => Counted'
  BY <1>3 DEF Counted
<1> QED BY <1>4, <1>5, <1>6 DEF FairInv

LEMMA OthersAreFair ==
  ASSUME HandshakeInv, FairInv, Deviate \/ HangUp
  PROVE  FairInv'
<1>1. sock = "connected" /\ pc \notin {"resolve", "connecting"} /\ pc' = pc
  BY DEF Deviate, HangUp, client, FairInv, BeforeGreeting
<1>2. CASE HangUp
  BY <1>1, <1>2 DEF HangUp, FairInv, BeforeGreeting, Sockets, Counted
<1>3. CASE Deviate
  <2>1. PICK kind \in Unsolicited : Sends(<<kind>>)
    BY <1>3 DEF Deviate
  <2>2. fromBroker' = fromBroker \o <<kind>> /\ faults' = faults + 1
    BY <1>1, <1>3, <2>1 DEF Sends, Deviate
  <2>3. /\ fromBroker \in Seq(BrokerKinds) /\ faults \in Nat /\ Taken[pc] \in Nat
        /\ kind \in BrokerKinds
    BY HandshakeAssumption DEF HandshakeInv, TypeOK, HandshakeAssumption, Taken
  <2>4. Len(fromBroker') = Len(fromBroker) + 1 /\ Len(fromBroker) \in Nat
    BY <2>2, <2>3
  <2>5. UNCHANGED <<heard, bk, sock>>
    BY <1>3 DEF Deviate, client
  <2>6. bk = "listening" /\ Len(fromBroker) + Taken[pc] = Replied(heard) + faults
    BY <1>1 DEF FairInv, Counted
  <2>7. Replied(heard) \in Nat
    BY DEF HandshakeInv, TypeOK, Replied
  <2>8. Len(fromBroker') + Taken[pc] = Replied(heard) + faults'
    <3>1. /\ faults \in Nat /\ Taken[pc] \in Nat /\ Len(fromBroker) \in Nat
          /\ Replied(heard) \in Nat
          /\ Len(fromBroker) + Taken[pc] = Replied(heard) + faults
      BY <2>3, <2>4, <2>6, <2>7
    <3>2. (Len(fromBroker) + 1) + Taken[pc] = Replied(heard) + (faults + 1)
      BY <3>1, Balance
    <3> QED BY <2>2, <2>4, <3>2, Zenon
  <2>9. Counted'
    BY <1>1, <2>2, <2>3, <2>5, <2>6, <2>8 DEF Counted, Replied
  <2> QED BY <1>1, <2>5, <2>9 DEF FairInv, BeforeGreeting, Sockets
<1> QED BY <1>2, <1>3

LEMMA FairStep ==
  ASSUME HandshakeInv, FairInv, [Next]_vars
  PROVE  FairInv'
<1>1. CASE UNCHANGED vars
  BY <1>1 DEF vars, client, network, FairInv, BeforeGreeting, Sockets, Counted, InOrder, Replied
<1> QED BY <1>1, ConnectIsFair, HearIsFair, OthersAreFair DEF Next

(***************************************************************************)
(* connect() throws only for a reason, and while it holds: a frame it does *)
(* not wait for is never one of the broker's replies in their order, and a *)
(* socket it cannot use has failed to connect or was hung up on.           *)
(***************************************************************************)
LEMMA WriteFailsForAReason ==
  ASSUME FairInv, NEW m, NEW next, NEW unread, Write(m, next, unread),
         pc \notin {"resolve", "connecting", "threw"}, next # "threw", pc' = "threw"
  PROVE  Reasons
<1>1. sock # "connected"
  BY DEF Write
<1>2. CASE pc = "greet"
  BY <1>1, <1>2 DEF FairInv, Sockets, Reasons
<1>3. CASE pc # "greet"
  BY <1>1, <1>3 DEF FairInv, Sockets, Reasons
<1> QED BY <1>2, <1>3

LEMMA ReadFailsForAReason ==
  ASSUME HandshakeInv, FairInv, ReadFails
  PROVE  Reasons
<1>1. CASE sock = "broken"
  BY <1>1 DEF FairInv, Sockets, Reasons
<1>2. CASE sock # "broken" /\ faults # 0
  BY <1>2, HandshakeAssumption DEF HandshakeInv, TypeOK, HandshakeAssumption, Reasons
<1>3. CASE sock # "broken" /\ faults = 0
  <2>1. pc \in {"await_start", "await_tune", "await_open_ok"}
    BY DEF ReadFails, Awaited
  <2>2. fromBroker # <<>> /\ Head(fromBroker) # Awaited[pc] /\ sock = "connected"
    BY <1>3, <2>1 DEF ReadFails, FairInv, Sockets
  <2>3. InOrder(fromBroker, Taken[pc])
    BY <1>3, <2>2 DEF FairInv, Counted
  <2>4. Taken[pc] \in Nat /\ Replies[Taken[pc] + 1] = Awaited[pc]
    BY <2>1 DEF Taken, Replies, Awaited
  <2>5. FALSE
    BY <2>2, <2>3, <2>4, FrameTaken
  <2> QED BY <2>5
<1> QED BY <1>1, <1>2, <1>3

LEMMA ThrowHasAReason ==
  ASSUME HandshakeInv, FairInv, [Next]_vars, pc' = "threw", pc # "threw"
  PROVE  Reasons
<1>1. Connect
  BY DEF Next, Hear, Deviate, HangUp, client, vars
<1>2. CASE Resolve
  BY <1>2 DEF Resolve, Reasons
<1>3. CASE TryEndpoint
  BY <1>3 DEF TryEndpoint
<1>4. CASE GiveUp
  BY <1>4 DEF GiveUp, FairInv, BeforeGreeting
<1>5. CASE Greet
  <2>1. pc = "greet" /\ Write(Message("Header"), "await_start", fromBroker)
    BY <1>5 DEF Greet
  <2> QED BY <2>1, WriteFailsForAReason
<1>6. CASE ReadFails
  BY <1>6, ReadFailsForAReason
<1>7. CASE ReceiveStart
  <2>1. CASE \/ WrongVersion(broker.version)
             \/ ~Selectable(broker.mechanisms)
             \/ ~args.credentials
    BY <2>1 DEF WrongVersion, Selectable, Reasons
  <2>2. PICK m : pc = "await_start" /\ (Write(m, "await_tune", Tail(fromBroker)) \/ Reasons)
    BY <1>7, <2>1 DEF ReceiveStart, Received
  <2> QED BY <2>2, WriteFailsForAReason
<1>8. CASE ReceiveTune
  <2>1. PICK m : pc = "await_tune" /\ Write(m, "open", Tail(fromBroker))
    BY <1>8 DEF ReceiveTune, Received
  <2> QED BY <2>1, WriteFailsForAReason
<1>9. CASE OpenVhost
  <2>1. CASE ~args.vhost
    BY <2>1 DEF Reasons
  <2>2. CASE args.vhost
    <3>1. pc = "open" /\ Write(Message("Open"), "await_open_ok", fromBroker)
      BY <1>9, <2>2 DEF OpenVhost
    <3> QED BY <3>1, WriteFailsForAReason
  <2> QED BY <2>1, <2>2
<1>10. CASE ReceiveOpenOk
  BY <1>10 DEF ReceiveOpenOk
<1> QED
  BY <1>1, <1>2, <1>3, <1>4, <1>5, <1>6, <1>7, <1>8, <1>9, <1>10 DEF Connect

LEMMA FairAlways == Spec => []FairInv
<1>1. Init => FairInv
  BY FairInit
<1>2. HandshakeInv /\ FairInv /\ [Next]_vars => FairInv'
  BY FairStep
<1> QED BY <1>1, <1>2, HandshakeInvariant, PTL DEF Spec

(***************************************************************************)
(* connect() never turns down a broker that kept to the protocol.          *)
(***************************************************************************)
THEOREM NoThrowWithoutAReason == Spec => ThrowsForAReason
<1>1. HandshakeInv /\ FairInv /\ [Next]_vars => [pc' = "threw" => pc = "threw" \/ Reasons]_vars
  BY ThrowHasAReason
<1> QED BY <1>1, HandshakeInvariant, FairAlways, PTL DEF Spec, ThrowsForAReason

(***************************************************************************)
(* So a connect() that ends has connected, unless there was a reason.      *)
(***************************************************************************)
THEOREM EndingIsConnecting == Spec /\ ConnectEnds => SoundBrokerConnects
<1> DEFINE Threw     == pc = "threw"
           Connected == pc = "returned"
<1>1. Init => ~Threw
  BY DEF Init
<1>2. HandshakeInv /\ FairInv /\ [Next]_vars => (Threw' => Threw \/ Reasons)
  BY ThrowHasAReason
<1>3. pc \in {"returned", "threw"} => Connected \/ Threw
  OBVIOUS
<1>4. Connected => pc = "returned"
  OBVIOUS
<1> HIDE DEF Threw, Connected
<1> QED
  BY <1>1, <1>2, <1>3, <1>4, HandshakeInvariant, FairAlways, PTL
  DEF Spec, ConnectEnds, SoundBrokerConnects

(***************************************************************************)
(* connect() and a broker that is there never both wait: what connect()    *)
(* waits to read has come, or the connection is lost, or the broker has a  *)
(* message to answer.                                                      *)
(***************************************************************************)
NotBothWaiting ==
  pc \in DOMAIN Awaited =>
    \/ sock = "broken"
    \/ fromBroker # <<>>
    \/ bk = "listening" /\ heard < Len(said)

THEOREM OneSideCanGoOn == Spec => []NotBothWaiting
<1>1. ASSUME HandshakeInv, FairInv PROVE NotBothWaiting
  <2> SUFFICES ASSUME pc \in DOMAIN Awaited, sock # "broken",
                      ~(bk = "listening" /\ heard < Len(said))
               PROVE  fromBroker # <<>>
    BY DEF NotBothWaiting
  <2>1. pc \in {"await_start", "await_tune", "await_open_ok"}
    BY DEF Awaited
  <2>2. sock = "connected"
    BY <1>1, <2>1 DEF FairInv, Sockets
  <2>3. bk = "listening" /\ Len(fromBroker) + Taken[pc] = Replied(heard) + faults
    BY <1>1, <2>2 DEF FairInv, Counted
  <2>4. Len(said) = Due[pc] /\ heard \in 0 .. Len(said) /\ Len(said) \in Nat /\ faults \in Nat
    BY <1>1, <2>2, HandshakeAssumption
    DEF HandshakeInv, InStep, TypeOK, HandshakeAssumption
  <2>5. heard = Due[pc]
    BY <2>3, <2>4
  <2>6. Replied(Due[pc]) = Taken[pc] + 1 /\ Taken[pc] \in Nat
    BY <2>1 DEF Replied, Due, Taken
  <2>7. Len(fromBroker) # 0
    BY <2>3, <2>4, <2>5, <2>6
  <2> QED BY <2>7
<1> QED BY <1>1, HandshakeInvariant, FairAlways, PTL

=============================================================================
