----------------------------- MODULE AmqpFrames -----------------------------
(***************************************************************************)
(* The AMQP frames the client and the broker exchange, at the grain the    *)
(* connection tells them apart: the channel number, which method the frame *)
(* carries, and a tag.  The tag is history: no frame on the wire has one.  *)
(* It numbers the RPCs of a channel, so that an answer can be traced back  *)
(* to its request.                                                         *)
(***************************************************************************)
EXTENDS Naturals

(* Methods the client sends (channel.open, exchange.declare, ...).         *)
ClientKinds == {"Open", "Declare", "Close", "CloseOk"}

(***************************************************************************)
(* What the broker sends.  "Flow" stands for the methods a broker may send *)
(* on a channel unasked (channel.flow, basic.return, basic.deliver).       *)
(* "ConnClose" and "Heartbeat" belong to channel 0.  "Unknown" is a method *)
(* frame whose class and method numbers the generated method::read does    *)
(* not know.  "Malformed" is a header that frame_builder refuses.          *)
(***************************************************************************)
BrokerKinds == {"OpenOk", "DeclareOk", "Close", "CloseOk", "Flow",
                "ConnClose", "Heartbeat", "Unknown", "Malformed"}

(* Bytes of several frames mixed together: not a frame at all.             *)
Kinds == ClientKinds \cup BrokerKinds \cup {"Garbage"}

Frames == [ch : Nat, kind : Kinds, tag : Nat]

Frame(ch, kind, tag) == [ch |-> ch, kind |-> kind, tag |-> tag]

Garbage == Frame(0, "Garbage", 0)

(***************************************************************************)
(* frame_builder::is_body_read_required: only a frame with an empty        *)
(* payload is complete once its eight header bytes are read.  A heartbeat  *)
(* is one; a method frame always carries its class and method numbers.     *)
(***************************************************************************)
HasBody(f) == f.kind # "Heartbeat"

=============================================================================
