------------------------------ MODULE Handshake ------------------------------
(***************************************************************************)
(* connection_impl::connect, which the constructor calls: it finds a       *)
(* broker, agrees with it on version, SASL mechanism and limits, opens the *)
(* virtual host and starts the read loop, all of it synchronously on the   *)
(* application's thread.  Connection begins where this module ends.        *)
(*                                                                         *)
(* The broker is external and modelled from what connect() expects of it;  *)
(* it may also refuse, send something else, or hang up.                    *)
(***************************************************************************)
EXTENDS Naturals, Sequences

CONSTANTS
  EndpointLists,  \* what a host may resolve to
  Versions,       \* protocol versions brokers announce: <<major, minor>>
  MechanismLists, \* SASL mechanisms brokers announce
  Limits,         \* values of the limits brokers announce
  Unsolicited,    \* kinds of frames the broker may send out of turn
  MaxFaults       \* bound: how many of them

Endpoints == [family : {"v4", "v6"}, up : BOOLEAN]
Tunes     == [channel_max : Limits, frame_max : Limits, heartbeat : Limits]

(* "Heartbeat" is no method, "Malformed" no frame.                         *)
BrokerKinds == {"Start", "Tune", "OpenOk", "Close", "Heartbeat", "Malformed"}

ASSUME HandshakeAssumption ==
  /\ EndpointLists \subseteq Seq(Endpoints)
  /\ Versions \subseteq Nat \X Nat
  /\ MechanismLists \subseteq Seq(STRING)
  /\ 0 \in Limits
  /\ Unsolicited \subseteq BrokerKinds \ {"OpenOk"}
  /\ MaxFaults \in Nat

VARIABLES
  args,       \* arguments of connect: can SASL PLAIN and a short string carry them?
  broker,     \* what the broker announces
  pc,         \* where the application's thread is in connect
  endpoints,  \* endpoints not tried yet
  sock,       \* m_socket
  said,       \* everything the client has put on the wire
  heard,      \* how much of it the broker has taken
  fromBroker, \* frames on their way to the client
  bk,         \* the broker: "listening", "gone", or "confused" by a message out of turn
  faults      \* unsolicited frames so far

client  == <<pc, endpoints, sock>>
network == <<said, heard, fromBroker, bk, faults>>
vars    == <<args, broker, client, network>>

(* The order in which the protocol wants the client's messages.            *)
Script == <<"Header", "StartOk", "TuneOk", "Open">>

NoTune == [channel_max |-> 0, frame_max |-> 0, heartbeat |-> 0]

Message(kind) == [kind |-> kind, mechanism |-> "", tune |-> NoTune]

Init ==
  /\ args \in [credentials : BOOLEAN, vhost : BOOLEAN]
  /\ broker \in [version : Versions, mechanisms : MechanismLists, tune : Tunes]
  /\ pc = "resolve"
  /\ endpoints \in EndpointLists
  /\ sock = "closed"
  /\ said = <<>>
  /\ heard = 0
  /\ fromBroker = <<>>
  /\ bk = "listening"
  /\ faults = 0

-----------------------------------------------------------------------------
(***************************************************************************)
(* An exception leaves the constructor: m_thread is destroyed, and with it *)
(* the socket.  What was sent still arrives.                               *)
(***************************************************************************)
Throw ==
  /\ pc' = "threw"
  /\ sock' = "closed"
  /\ fromBroker' = <<>>
  /\ UNCHANGED <<args, broker, endpoints, said, heard, bk, faults>>

(* resolve() throws when there is no such host.                            *)
Resolve ==
  /\ pc = "resolve"
  /\ \/ endpoints = <<>> /\ Throw
     \/ /\ endpoints # <<>>
        /\ pc' = "connecting"
        /\ UNCHANGED <<args, broker, endpoints, sock, network>>

(***************************************************************************)
(* socket::connect opens a closed socket for the family of the endpoint,   *)
(* and leaves it open when it fails.  A second connect uses the same       *)
(* socket: it cannot reach another family, and not every platform lets it  *)
(* try again.                                                              *)
(***************************************************************************)
SocketFor(e) == IF sock = "closed" THEN e.family ELSE sock

TryEndpoint ==
  /\ pc = "connecting"
  /\ endpoints # <<>>
  /\ LET e == Head(endpoints)
     IN  \/ /\ e.up /\ SocketFor(e) = e.family
            /\ sock' = "connected"
            /\ pc' = "greet"
         \/ /\ e.up => sock # "closed"
            /\ sock' = SocketFor(e)
            /\ pc' = pc
  /\ endpoints' = Tail(endpoints)
  /\ UNCHANGED <<args, broker, network>>

(* No endpoint is left.  is_open() is what a failed connect leaves true.   *)
GiveUp ==
  /\ pc = "connecting"
  /\ endpoints = <<>>
  /\ \/ sock = "closed" /\ Throw
     \/ /\ sock # "closed"
        /\ pc' = "greet"
        /\ UNCHANGED <<args, broker, endpoints, sock, network>>

(***************************************************************************)
(* boost::asio::write throws, or the message is on the wire, or the kernel *)
(* takes what a broken connection will not carry any more.  unread is what *)
(* is left to read.                                                        *)
(***************************************************************************)
Write(m, next, unread) ==
  \/ /\ sock \in {"connected", "broken"}
     /\ said' = IF sock = "connected" THEN Append(said, m) ELSE said
     /\ pc' = next
     /\ fromBroker' = unread
     /\ UNCHANGED <<args, broker, endpoints, sock, heard, bk, faults>>
  \/ sock # "connected" /\ Throw

Greet ==
  /\ pc = "greet"
  /\ Write(Message("Header"), "await_start", fromBroker)

(***************************************************************************)
(* read_frame, method::read and method_cast.  What each read waits for:    *)
(***************************************************************************)
Awaited == [await_start |-> "Start", await_tune |-> "Tune", await_open_ok |-> "OpenOk"]

Received(at) ==
  /\ pc = at
  /\ fromBroker # <<>>
  /\ Head(fromBroker) = Awaited[at]

(* The connection ends, or what arrives is no frame, no method or another. *)
ReadFails ==
  /\ pc \in DOMAIN Awaited
  /\ \/ sock = "broken"
     \/ fromBroker # <<>> /\ Head(fromBroker) # Awaited[pc]
  /\ Throw

(* Mutant of WrongVersion: && instead of ||.                               *)
WrongVersionAnd(v) == v[1] # 0 /\ v[2] # 9

WrongVersion(v) == v[1] # 0 \/ v[2] # 9

(* Mutant of Selectable: only the first mechanism is looked at.            *)
SelectableFirst(list) == list # <<>> /\ list[1] = "PLAIN"

(* select_sasl_mechanism finds PLAIN, or throws.                           *)
Selectable(list) == \E i \in DOMAIN list : list[i] = "PLAIN"

ReceiveStart ==
  /\ Received("await_start")
  /\ \/ /\ \/ WrongVersion(broker.version)
           \/ ~Selectable(broker.mechanisms)
           \/ ~args.credentials
        /\ Throw
     \/ /\ ~WrongVersion(broker.version)
        /\ Selectable(broker.mechanisms)
        /\ args.credentials
        /\ Write([Message("StartOk") EXCEPT !.mechanism = "PLAIN"],
                 "await_tune", Tail(fromBroker))

(* Mutant of TuneOk: two limits are mixed up.                              *)
TuneOkMixed(t) ==
  [channel_max |-> t.channel_max, frame_max |-> t.heartbeat, heartbeat |-> t.frame_max]

(* Whatever the broker proposes is agreed to.                              *)
TuneOk(t) ==
  [channel_max |-> t.channel_max, frame_max |-> t.frame_max, heartbeat |-> t.heartbeat]

(* Mutant of ReceiveTune: tune_ok is not written.                          *)
ReceiveTuneSilently ==
  /\ Received("await_tune")
  /\ pc' = "open"
  /\ fromBroker' = Tail(fromBroker)
  /\ UNCHANGED <<args, broker, endpoints, sock, said, heard, bk, faults>>

ReceiveTune ==
  /\ Received("await_tune")
  /\ Write([Message("TuneOk") EXCEPT !.tune = TuneOk(broker.tune)], "open", Tail(fromBroker))

(* Mutants of OpenVhost: open is written again; it is not written.         *)
OpenVhostAgain == pc = "open" /\ Write(Message("Open"), "open", fromBroker)
OpenVhostForgotten ==
  /\ pc = "open"
  /\ pc' = "await_open_ok"
  /\ UNCHANGED <<args, broker, endpoints, sock, network>>

(* set_virtual_host throws for what is not a short string.                 *)
OpenVhost ==
  /\ pc = "open"
  /\ \/ ~args.vhost /\ Throw
     \/ args.vhost /\ Write(Message("Open"), "await_open_ok", fromBroker)

(* start_async_read_loop, and connect returns: Connection!Init.            *)
ReceiveOpenOk ==
  /\ Received("await_open_ok")
  /\ pc' = "returned"
  /\ fromBroker' = Tail(fromBroker)
  /\ UNCHANGED <<args, broker, endpoints, sock, said, heard, bk, faults>>

Connect ==
  \/ Resolve
  \/ TryEndpoint
  \/ GiveUp
  \/ Greet
  \/ ReadFails
  \/ ReceiveStart
  \/ ReceiveTune
  \/ OpenVhost
  \/ ReceiveOpenOk

-----------------------------------------------------------------------------
(***************************************************************************)
(* The broker.                                                             *)
(***************************************************************************)
Sends(kinds) ==
  fromBroker' = IF sock = "connected" THEN fromBroker \o kinds ELSE fromBroker

(* Its answer to each message of the script.                               *)
Answers == <<<<"Start">>, <<"Tune">>, <<>>, <<"OpenOk">>>>

Hear ==
  /\ bk = "listening"
  /\ heard < Len(said)
  /\ heard' = heard + 1
  /\ \/ /\ said[heard + 1].kind = Script[heard + 1]
        /\ Sends(Answers[heard + 1])
        /\ bk' = bk
     \/ /\ said[heard + 1].kind # Script[heard + 1]
        /\ bk' = "confused"
        /\ UNCHANGED fromBroker
  /\ UNCHANGED <<args, broker, client, said, faults>>

Deviate ==
  /\ bk = "listening"
  /\ sock = "connected"
  /\ faults < MaxFaults
  /\ faults' = faults + 1
  /\ \E kind \in Unsolicited : Sends(<<kind>>)
  /\ UNCHANGED <<args, broker, client, said, heard, bk>>

(***************************************************************************)
(* The broker refuses, saying why or not, or the network fails.  What was  *)
(* sent may still be read.                                                 *)
(***************************************************************************)
HangUp ==
  /\ bk = "listening"
  /\ sock = "connected"
  /\ bk' = "gone"
  /\ \E last \in {<<>>, <<"Close">>, <<"Malformed">>} : Sends(last)
  /\ sock' = "broken"
  /\ UNCHANGED <<args, broker, pc, endpoints, said, heard, faults>>

Next == Connect \/ Hear \/ Deviate \/ HangUp

Spec == Init /\ [][Next]_vars

(* connect() runs when it can; a broker that is still there answers.       *)
FairSpec == Spec /\ WF_vars(Connect) /\ WF_vars(Hear)

-----------------------------------------------------------------------------
Messages == [kind : {"Header", "StartOk", "TuneOk", "Open"},
             mechanism : {"", "PLAIN"},
             tune : Tunes]

TypeOK ==
  /\ args \in [credentials : BOOLEAN, vhost : BOOLEAN]
  /\ broker \in [version : Versions, mechanisms : MechanismLists, tune : Tunes]
  /\ pc \in {"resolve", "connecting", "greet", "await_start", "await_tune", "open",
             "await_open_ok", "returned", "threw"}
  /\ endpoints \in Seq(Endpoints)
  /\ sock \in {"closed", "v4", "v6", "connected", "broken"}
  /\ said \in Seq(Messages)
  /\ Len(said) <= Len(Script)
  /\ heard \in 0 .. Len(said)
  /\ fromBroker \in Seq(BrokerKinds)
  /\ bk \in {"listening", "gone", "confused"}
  /\ faults \in 0 .. MaxFaults

(***************************************************************************)
(* The broker never receives a message it is not waiting for, whatever it  *)
(* sends out of turn itself: connect() writes open right after tune_ok,    *)
(* and everything else only on the frame that asks for it.                 *)
(***************************************************************************)
NeverOutOfTurn == bk # "confused"

(***************************************************************************)
(* When connect() returns, both sides have the same connection: the broker *)
(* has taken every message and opened the virtual host, the version is     *)
(* 0-9, the mechanism is one the broker offers, and the limits are those   *)
(* it proposed.                                                            *)
(***************************************************************************)
Agreement ==
  pc = "returned" =>
    /\ heard = Len(Script)
    /\ broker.version = <<0, 9>>
    /\ \E i \in DOMAIN broker.mechanisms : broker.mechanisms[i] = said[2].mechanism
    /\ said[3].tune = broker.tune

(* connect() returns or throws, whatever the broker refuses.               *)
ConnectEnds == <>(pc \in {"returned", "threw"})

(***************************************************************************)
(* connect() succeeds, or there was a reason: no such host, no endpoint    *)
(* that lets it connect, the arguments, what the broker announced, or a    *)
(* broker that deviated or hung up.                                        *)
(***************************************************************************)
Reasons ==
  \/ pc = "resolve" /\ endpoints = <<>>
  \/ pc = "greet" /\ sock \notin {"connected", "broken"}
  \/ ~args.credentials \/ ~args.vhost
  \/ broker.version # <<0, 9>>
  \/ \A i \in DOMAIN broker.mechanisms : broker.mechanisms[i] # "PLAIN"
  \/ faults > 0
  \/ bk = "gone"

SoundBrokerConnects == <>(pc = "returned" \/ Reasons)

(***************************************************************************)
(* connect() gives up only for one of these reasons, and while it holds:   *)
(* none of its checks, and no read that takes whatever frame is next,      *)
(* turns down a broker that kept to the protocol.                          *)
(***************************************************************************)
ThrowsForAReason == [][pc' = "threw" => pc = "threw" \/ Reasons]_vars

=============================================================================
