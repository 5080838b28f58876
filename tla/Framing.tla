------------------------------- MODULE Framing -------------------------------
(***************************************************************************)
(* From octets to frames: frame_builder, the two async_reads of            *)
(* connection_manager that fill it, and a peer whose frames are laid out   *)
(* as frame_writer lays them out.  connection_manager reads eight octets,  *)
(* one more than the header has: the last is the end octet of a frame      *)
(* without payload, or else the first octet of the payload.                *)
(***************************************************************************)
EXTENDS Octets

CONSTANTS
  SentTypes,       \* frame types the peer uses
  ChannelNumbers,  \* channel numbers it uses
  Payloads,        \* payloads it sends
  MaxFrames        \* bound: frames it sends

METHOD_TYPE    == 1
HEADER_TYPE    == 2
BODY_TYPE      == 3
HEARTBEAT_TYPE == 8
FRAME_END      == 206

FrameTypes == {METHOD_TYPE, HEADER_TYPE, BODY_TYPE, HEARTBEAT_TYPE}

(* get_frame_type has a value for val, and does not throw.                 *)
HasFrameType(val) == val \in FrameTypes

ASSUME FramingAssumption ==
  /\ Base > FRAME_END
  /\ SentTypes \subseteq FrameTypes
  /\ ChannelNumbers \subseteq 0 .. Base ^ 2 - 1
  /\ Payloads \subseteq Seq(Octet)
  /\ MaxFrames \in Nat

VARIABLES
  sent,     \* history: the frames the peer has sent, and what is wrong with each
  unsent,   \* octets on their way
  wire,     \* octets that have arrived and are not read yet
  builder,  \* m_builder
  want,     \* the async_read under way: "header" or "body"; "dead" after an exception
  got       \* frames given to dispatch_frame

vars == <<sent, unsent, wire, builder, want, got>>

-----------------------------------------------------------------------------
(* frame_writer::get_sequence: the header, the payload and the end octet.  *)
GetSequence(f) ==
  <<f.type>> \o Octets(f.channel, 2) \o Octets(Len(f.payload), 4)
  \o f.payload \o <<FRAME_END>>

(***************************************************************************)
(* What a peer can get wrong in a way the builder can see: a frame type    *)
(* that does not exist, and an end octet that is not one.                  *)
(***************************************************************************)
Faults == {"none", "type", "end"}

OnWire(f, fault) ==
  LET octets == GetSequence(f)
  IN  CASE fault = "none" -> octets
        [] fault = "type" -> [octets EXCEPT ![1] = 0]
        [] fault = "end"  -> [octets EXCEPT ![Len(octets)] = 0]

-----------------------------------------------------------------------------
(***************************************************************************)
(* frame_builder as operators on its members.  What may throw returns the  *)
(* builder it leaves and whether it has thrown.                            *)
(***************************************************************************)
HeaderSize == 8

(* Mutant of Reset: m_state is not reset.                                  *)
ResetButState(b) ==
  [b EXCEPT !.header = [i \in 1 .. HeaderSize |-> 0],
            !.channel = 0, !.body = <<>>, !.end = 0]

(* frame_builder::reset; m_type keeps its value.                           *)
Reset(b) ==
  [b EXCEPT !.state = "invalid", !.header = [i \in 1 .. HeaderSize |-> 0],
            !.channel = 0, !.body = <<>>, !.end = 0]

Returns(b) == [builder |-> b, thrown |-> FALSE]
Throws(b)  == [builder |-> b, thrown |-> TRUE]

(* Mutants of ValidateHeader: the frame type is not checked; the eighth    *)
(* octet is always taken for the end octet.                                *)
ValidateHeaderAnyType(b) ==
  LET size == Number(SubSeq(b.header, 4, 7))
      read == [b EXCEPT !.type = b.header[1], !.channel = Number(SubSeq(b.header, 2, 3))]
  IN  IF size > 0
      THEN Returns([read EXCEPT !.state = "valid_header",
                                !.body  = <<b.header[8]>> \o [i \in 1 .. size - 1 |-> 0]])
      ELSE Returns([read EXCEPT !.state = "valid_both", !.body = <<>>])

ValidateHeaderEndFirst(b) ==
  IF b.header[HeaderSize] # FRAME_END THEN Throws(b) ELSE ValidateHeaderAnyType(b)

(***************************************************************************)
(* A header is looked at once.  The body is allocated at its full size;    *)
(* what lies behind its first octet is filled by the next read.            *)
(***************************************************************************)
ValidateHeader(b) ==
  LET size == Number(SubSeq(b.header, 4, 7))
      last == b.header[HeaderSize]
      read == [b EXCEPT !.type = b.header[1], !.channel = Number(SubSeq(b.header, 2, 3))]
  IN  IF b.state # "invalid" THEN Returns(b)
      ELSE IF ~HasFrameType(b.header[1]) THEN Throws(b)
      ELSE IF size > 0
           THEN Returns([read EXCEPT !.state = "valid_header",
                                     !.body  = <<last>> \o [i \in 1 .. size - 1 |-> 0]])
      ELSE IF last # FRAME_END THEN Throws(read)
      ELSE Returns([read EXCEPT !.state = "valid_both", !.body = <<>>])

IsBodyReadRequired(b) == Len(b.body) # 0

(* Mutant of BodyBufferSize: forgets that the first octet has been read.   *)
BodyBufferSizeFull(b) == Len(b.body) + 1

(* get_body_buffer: the rest of the payload and the end octet.             *)
BodyBufferSize(b) == (Len(b.body) - 1) + 1

FillBody(b, octets) ==
  [b EXCEPT !.body = <<Head(@)>> \o Front(octets), !.end = Last(octets)]

(* Mutant of BodyIsValid: the end octet is not compared.                   *)
BodyIsValidAnyEnd(b) == b.state \in {"valid_header", "valid_both"}

(* validate_body                                                           *)
BodyIsValid(b) ==
  \/ b.state = "valid_header" /\ b.end = FRAME_END
  \/ b.state = "valid_both"

CreateFrame(b) == [type |-> b.type, channel |-> b.channel, payload |-> b.body]

-----------------------------------------------------------------------------
TypeOK ==
  /\ sent \in Seq([f : [type : SentTypes, channel : ChannelNumbers, payload : Payloads],
                   fault : Faults])
  /\ unsent \in Seq(Octet) /\ wire \in Seq(Octet)
  /\ builder \in [state   : {"invalid", "valid_header", "valid_both"},
                  header  : [1 .. HeaderSize -> Octet],
                  type    : FrameTypes \cup {0},
                  channel : 0 .. Base ^ 2 - 1,
                  body    : Seq(Octet),
                  end     : Octet]
  /\ want \in {"header", "body", "dead"}
  /\ got \in Seq([type : FrameTypes, channel : 0 .. Base ^ 2 - 1, payload : Seq(Octet)])

Init ==
  /\ sent = <<>> /\ unsent = <<>> /\ wire = <<>> /\ got = <<>>
  /\ builder = Reset([state |-> "invalid", header |-> <<>>, type |-> 0, channel |-> 0,
                      body |-> <<>>, end |-> 0])
  /\ want = "header"

(* A peer that has sent a bad frame may go on.                             *)
PeerSends ==
  /\ Len(sent) < MaxFrames
  /\ \E t \in SentTypes, c \in ChannelNumbers, p \in Payloads, fault \in Faults :
       LET f == [type |-> t, channel |-> c, payload |-> p]
       IN  /\ sent' = Append(sent, [f |-> f, fault |-> fault])
           /\ unsent' = unsent \o OnWire(f, fault)
  /\ UNCHANGED <<wire, builder, want, got>>

OctetsArrive ==
  /\ \E n \in 1 .. Len(unsent) :
       /\ wire' = wire \o Take(unsent, n)
       /\ unsent' = Drop(unsent, n)
  /\ UNCHANGED <<sent, builder, want, got>>

Dies == want' = "dead" /\ UNCHANGED <<builder, got>>

(* create_frame, dispatch_frame, and the reset of the next begin_frame_read. *)
Deliver(b) ==
  \/ ~BodyIsValid(b) /\ Dies
  \/ /\ BodyIsValid(b)
     /\ got' = Append(got, CreateFrame(b))
     /\ builder' = Reset(b)
     /\ want' = "header"

(* async_read completes once it has filled its buffers.                    *)
OnFrameHeaderRead ==
  /\ want = "header" /\ Len(wire) >= HeaderSize
  /\ wire' = Drop(wire, HeaderSize)
  /\ LET header == ValidateHeader([builder EXCEPT !.header = Take(wire, HeaderSize)])
     IN  \/ header.thrown /\ Dies
         \/ /\ ~header.thrown /\ IsBodyReadRequired(header.builder)
            /\ builder' = header.builder
            /\ want' = "body"
            /\ UNCHANGED got
         \/ ~header.thrown /\ ~IsBodyReadRequired(header.builder) /\ Deliver(header.builder)
  /\ UNCHANGED <<sent, unsent>>

OnFrameBodyRead ==
  /\ want = "body" /\ Len(wire) >= BodyBufferSize(builder)
  /\ wire' = Drop(wire, BodyBufferSize(builder))
  /\ Deliver(FillBody(builder, Take(wire, BodyBufferSize(builder))))
  /\ UNCHANGED <<sent, unsent>>

Next == PeerSends \/ OctetsArrive \/ OnFrameHeaderRead \/ OnFrameBodyRead

(* What has been sent arrives, and a completed read gets its handler run.  *)
Spec == Init /\ [][Next]_vars
             /\ WF_vars(OctetsArrive)
             /\ WF_vars(OnFrameHeaderRead) /\ WF_vars(OnFrameBodyRead)

-----------------------------------------------------------------------------
Sound(n) == n <= Len(sent) /\ \A i \in 1 .. n : sent[i].fault = "none"

(***************************************************************************)
(* The frames dispatched are the frames sent, in order and octet for       *)
(* octet, up to the first bad one: nothing of a frame leaks into the next. *)
(***************************************************************************)
Faithful ==
  /\ Sound(Len(got))
  /\ \A i \in DOMAIN got : got[i] = sent[i].f

(* frame_builder throws only at a bad frame, never at a sound one.         *)
ThrowsOnlyAtFault ==
  want = "dead" => Len(got) < Len(sent) /\ sent[Len(got) + 1].fault # "none"

(***************************************************************************)
(* No read asks for an octet beyond the frame it reads, which may never be *)
(* sent: while a frame is not delivered the octets sent are enough for the *)
(* read under way, and once all are delivered no frame has been begun and  *)
(* no octet is left over.  Nothing waits for what nobody has to send.      *)
(***************************************************************************)
Asked == IF want = "header" THEN HeaderSize ELSE BodyBufferSize(builder)

NothingIsStuck ==
  want # "dead" =>
    IF Len(got) < Len(sent) THEN Len(wire) + Len(unsent) >= Asked
                            ELSE want = "header" /\ wire = <<>> /\ unsent = <<>>

(***************************************************************************)
(* A frame is delivered without waiting for an octet of the one after it,  *)
(* which may never come.                                                   *)
(***************************************************************************)
Delivered == \A n \in 1 .. MaxFrames : Sound(n) ~> Len(got) >= n

(* A bad frame is not passed over.                                         *)
FaultNoticed ==
  \A n \in 1 .. MaxFrames : (n <= Len(sent) /\ sent[n].fault # "none") ~> (want = "dead")

=============================================================================
