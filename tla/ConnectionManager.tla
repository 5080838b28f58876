-------------------------- MODULE ConnectionManager --------------------------
(***************************************************************************)
(* detail::connection_manager: the io_service, the one thread that runs    *)
(* it, and the socket.  The io thread takes one handler at a time from the *)
(* head of the io_service's queue and runs it to its end, so each handler  *)
(* is one action.  What the application threads do is in Connection.       *)
(***************************************************************************)
EXTENDS ChannelImpl, Sequences

CONSTANTS
  Users,         \* application threads
  MaxChannelId,  \* numeric_limits<uint16_t>::max(), 65535 in the code
  PartialSends   \* TRUE if the kernel may accept only a part of a send

ASSUME MaxChannelIdAssumption == MaxChannelId \in Nat \ {0}
ASSUME PartialSendsAssumption == PartialSends \in BOOLEAN

VARIABLES
  ioq,      \* handlers the io_service has ready to run, in order
  io,       \* the io thread: "running", "stopped" or "aborted" (std::terminate)
  state,    \* m_state
  chans,    \* the channels made so far; m_channels is channel 0 and these
  writeq,   \* m_write_queue
  pend,     \* async_writes the kernel has accepted only in part
  reading,  \* the async_read under way: "none", "header" or "body"
  opening,  \* the promise of each user's latest begin_open_channel
  sock,     \* the TCP connection: "up" or "broken"
  out,      \* frames accepted by the kernel, not yet read by the broker
  in        \* frames the broker has sent, not yet read

mgrVars == <<ioq, io, state, chans, writeq, pend, reading, opening, sock, out, in>>

(***************************************************************************)
(* The handlers, as the code binds them.                                   *)
(***************************************************************************)
StartOpen(u) == [h |-> "start_open_channel", u |-> u]
Write(f)     == [h |-> "begin_write_frame", f |-> f]
Wrote(ok)    == [h |-> "on_write_frame", ok |-> ok]
ReadHeader(ok, f) == [h |-> "on_frame_header_read", ok |-> ok, f |-> f]
ReadBody(ok, f)   == [h |-> "on_frame_body_read", ok |-> ok, f |-> f]

Handlers ==
       [h : {"start_open_channel"}, u : Users]
  \cup [h : {"begin_write_frame"}, f : Frames]
  \cup [h : {"on_write_frame"}, ok : BOOLEAN]
  \cup [h : {"on_frame_header_read", "on_frame_body_read"}, ok : BOOLEAN, f : Frames]

(***************************************************************************)
(* The promise of begin_open_channel; id is the channel it was given.      *)
(***************************************************************************)
Promise(st, id) == [st |-> st, id |-> id]
Promises == [st : PromiseStates \cup {"none"}, id : Nat]

MgrTypeOK ==
  /\ ioq \in Seq(Handlers)
  /\ io \in {"running", "stopped", "aborted"}
  /\ state \in {"open", "closed"}
  /\ chans \in Seq(ChannelStates)
  /\ writeq \in Seq(Frames)
  /\ pend \in Seq([f : Frames, clean : BOOLEAN])
  /\ reading \in {"none", "header", "body"}
  /\ opening \in [Users -> Promises]
  /\ sock \in {"up", "broken"}
  /\ out \in Seq(Frames)
  /\ in \in Seq(Frames)

(***************************************************************************)
(* After connect(): start_async_read_loop has installed channel 0 and      *)
(* begun to read the first header.                                         *)
(***************************************************************************)
MgrInit ==
  /\ ioq = <<>>
  /\ io = "running"
  /\ state = "open"
  /\ chans = <<>>
  /\ writeq = <<>>
  /\ pend = <<>>
  /\ reading = "header"
  /\ opening = [u \in Users |-> Promise("none", 0)]
  /\ sock = "up"
  /\ out = <<>>
  /\ in = <<>>

(* An exception leaves io_service::run and with it the thread's function.  *)
Abort == io' = "aborted" /\ UNCHANGED <<ioq, state, chans, writeq, pend, reading,
                                        opening, sock, out, in>>

(***************************************************************************)
(* Writing.  A handler may write more than once, so what writing changes   *)
(* is a record, w, and a write maps it to the set of its outcomes.         *)
(*                                                                         *)
(* async_write sends at once what the kernel accepts.  If that is all of   *)
(* the frame its completion is queued; if not, the rest waits in pend for  *)
(* the socket.  Every write uses the one header buffer of m_writer, and    *)
(* m_current_write_frame is the only reference that keeps a payload alive: *)
(* a write that starts while another is unfinished takes both from it, so  *)
(* the other is no longer clean.                                           *)
(***************************************************************************)
Writing == [q |-> Tail(ioq), writeq |-> writeq, pend |-> pend, out |-> out]

Spoiled(p) == [i \in DOMAIN p |-> [p[i] EXCEPT !.clean = FALSE]]

AsyncWrite(f, w) ==
  IF sock = "broken"
  THEN {[w EXCEPT !.q = Append(@, Wrote(ok))] : ok \in BOOLEAN}
  ELSE {[w EXCEPT !.q    = Append(@, Wrote(TRUE)),
                  !.pend = Spoiled(@),
                  !.out  = Append(@, IF w.pend = <<>> THEN f ELSE Garbage)]}
       \cup IF PartialSends
            THEN {[w EXCEPT !.pend = Append(Spoiled(@), [f |-> f, clean |-> TRUE])]}
            ELSE {}

(* Mutants of BeginWriteFrame: m_state is not looked at; the frame being   *)
(* written stays in the queue.                                             *)
BeginWriteFrameAnyState(f, w) ==
  LET queue == Append(w.writeq, f)
  IN  IF w.writeq # <<>> THEN {[w EXCEPT !.writeq = queue]}
      ELSE AsyncWrite(Head(queue), [w EXCEPT !.writeq = Tail(queue)])

BeginWriteFrameKept(f, w) ==
  LET queue == Append(w.writeq, f)
  IN  IF state # "open" THEN {w}
      ELSE IF w.writeq # <<>> THEN {[w EXCEPT !.writeq = queue]}
      ELSE AsyncWrite(Head(queue), [w EXCEPT !.writeq = queue])

(***************************************************************************)
(* is_writing is read from m_write_queue, but the frame being written has  *)
(* already been popped: it is in m_current_write_frame.                    *)
(***************************************************************************)
BeginWriteFrame(f, w) ==
  LET isWriting == w.writeq # <<>>
      queue     == Append(w.writeq, f)
  IN  IF state # "open" THEN {w}
      ELSE IF isWriting THEN {[w EXCEPT !.writeq = queue]}
      ELSE AsyncWrite(Head(queue), [w EXCEPT !.writeq = Tail(queue)])

Written(w) ==
  /\ ioq' = w.q
  /\ writeq' = w.writeq
  /\ pend' = w.pend
  /\ out' = w.out

(* Mutant of DeadChannelFrame: a close-ok is answered like a close.        *)
DeadChannelFrameAnswersAll(f, w) ==
  IF f.kind \in {"Close", "CloseOk"}
  THEN BeginWriteFrame(Frame(f.ch, "CloseOk", 0), w) ELSE {w}

(* handle_dead_channel_frame, when method::read knows the method.          *)
DeadChannelFrame(f, w) ==
  IF f.kind = "Close" THEN BeginWriteFrame(Frame(f.ch, "CloseOk", 0), w) ELSE {w}

(***************************************************************************)
(* on_socket_close and close_channels.                                     *)
(***************************************************************************)
Live == {i \in DOMAIN chans : chans[i].live}

(* Mutants of OnSocketClose: the read loop goes on; m_state is not set.    *)
OnSocketCloseReads ==
  /\ state' = "closed"
  /\ Written(Writing)
  /\ reading' = "header"
  /\ UNCHANGED <<io, chans, opening, sock, in>>

OnSocketCloseStateless ==
  /\ Written(Writing)
  /\ UNCHANGED <<io, state, chans, reading, opening, sock, in>>

OnSocketClose ==
  IF \E i \in Live : CloseAsync(chans[i]).thrown # "none"
  THEN Abort
  ELSE /\ state' = "closed"
       /\ chans' = [i \in DOMAIN chans |->
                      IF i \in Live THEN CloseAsync(chans[i]).chan ELSE chans[i]]
       /\ Written(Writing)
       /\ UNCHANGED <<io, reading, opening, sock, in>>

(***************************************************************************)
(* dispatch_frame, and the begin_frame_read that follows it.  A channel    *)
(* number beyond m_channels is not returned from: m_channels is then read  *)
(* out of range, which may crash or find what looks like a dead channel.   *)
(* connection_exception is caught here; any other exception is not.        *)
(***************************************************************************)
(* Mutant of ReadNext: begin_frame_read is forgotten.                      *)
ReadNextForgotten == reading' = "none" /\ UNCHANGED <<io, state, opening, sock, in>>

ReadNext == reading' = "header" /\ UNCHANGED <<io, state, opening, sock, in>>

Dropped(f, ws) ==
  IF f.kind = "Unknown" THEN Abort
  ELSE (\E w \in ws : Written(w)) /\ ReadNext /\ UNCHANGED chans

DispatchFrame(f) ==
  \/ f.ch = 0 /\ Abort
  \/ /\ f.ch > Len(chans)
     /\ \/ Abort
        \/ Dropped(f, UNION {DeadChannelFrame(f, w) : w \in DeadChannelFrame(f, Writing)})
  \/ /\ f.ch \in DOMAIN chans \ Live
     /\ Dropped(f, DeadChannelFrame(f, Writing))
  \/ /\ f.ch \in Live
     /\ LET result == ProcessFrame(chans[f.ch], f)
        IN  IF result.thrown \in {"none", "connection_exception"}
            THEN /\ chans' = [chans EXCEPT ![f.ch] = result.chan]
                 /\ Written(Writing)
                 /\ ReadNext
            ELSE Abort

(***************************************************************************)
(* The handlers.                                                           *)
(***************************************************************************)
Runs(name) == io = "running" /\ ioq # <<>> /\ Head(ioq).h = name

(* Mutants of NextId: the number of a dropped channel is given out again;  *)
(* one off the position push_back puts the channel at.                     *)
NextIdReused == IF \E i \in DOMAIN chans : ~chans[i].live
                THEN CHOOSE i \in DOMAIN chans : ~chans[i].live ELSE Len(chans) + 1
NextIdOffByOne == Len(chans) + 2

(* Channel numbers are positions in m_channels and are never used again.   *)
NextId == Len(chans) + 1

(* Mutant of OutOfChannels: one channel too many.                          *)
OutOfChannelsLate(id) == id > MaxChannelId + 1

OutOfChannels(id) == id > MaxChannelId

StartOpenChannel ==
  /\ Runs("start_open_channel")
  /\ LET u  == Head(ioq).u
         id == NextId
     IN  IF OutOfChannels(id)
         THEN /\ opening' = [opening EXCEPT ![u] = Promise("exception", 0)]
              /\ Written(Writing)
              /\ UNCHANGED chans
         ELSE /\ chans' = Append(chans, NewChannel)
              /\ \E w \in BeginWriteFrame(Frame(id, "Open", 0), Writing) : Written(w)
              /\ opening' = [opening EXCEPT ![u] = Promise("value", id)]
  /\ UNCHANGED <<io, state, reading, sock, in>>

RunBeginWriteFrame ==
  /\ Runs("begin_write_frame")
  /\ \E w \in BeginWriteFrame(Head(ioq).f, Writing) : Written(w)
  /\ UNCHANGED <<io, state, chans, reading, opening, sock, in>>

(* Mutant of OnWriteFrame: the error is tested the wrong way round.        *)
OnWriteFrameInverted ==
  /\ Runs("on_write_frame")
  /\ IF Head(ioq).ok
     THEN OnSocketClose
     ELSE /\ Written(Writing)
          /\ UNCHANGED <<io, state, chans, reading, opening, sock, in>>

(* With nothing queued m_current_write_frame is reset, whosever it is.     *)
OnWriteFrame ==
  /\ Runs("on_write_frame")
  /\ IF Head(ioq).ok
     THEN /\ LET w == Writing
             IN  IF writeq # <<>>
                 THEN \E v \in AsyncWrite(Head(writeq), [w EXCEPT !.writeq = Tail(@)]) :
                        Written(v)
                 ELSE Written([w EXCEPT !.pend = Spoiled(@)])
          /\ UNCHANGED <<io, state, chans, reading, opening, sock, in>>
     ELSE OnSocketClose

OnFrameHeaderRead ==
  /\ Runs("on_frame_header_read")
  /\ LET f == Head(ioq).f
     IN  \/ ~Head(ioq).ok /\ OnSocketClose
         \/ Head(ioq).ok /\ f.kind = "Malformed" /\ Abort
         \/ /\ Head(ioq).ok /\ f.kind # "Malformed" /\ HasBody(f)
            /\ reading' = "body"
            /\ Written(Writing)
            /\ UNCHANGED <<io, state, chans, opening, sock, in>>
         \/ Head(ioq).ok /\ ~HasBody(f) /\ DispatchFrame(f)

OnFrameBodyRead ==
  /\ Runs("on_frame_body_read")
  /\ IF Head(ioq).ok THEN DispatchFrame(Head(ioq).f) ELSE OnSocketClose

(***************************************************************************)
(* run() returns once no handler is queued and no operation is under way:  *)
(* nothing keeps the io_service alive, and nobody runs it again.           *)
(***************************************************************************)
RunReturns ==
  /\ io = "running" /\ ioq = <<>> /\ reading = "none" /\ pend = <<>>
  /\ io' = "stopped"
  /\ UNCHANGED <<ioq, state, chans, writeq, pend, reading, opening, sock, out, in>>

IoThread == \/ StartOpenChannel
            \/ RunBeginWriteFrame
            \/ OnWriteFrame
            \/ OnFrameHeaderRead
            \/ OnFrameBodyRead
            \/ RunReturns

(***************************************************************************)
(* The reactor: an operation under way completes and queues its handler.   *)
(* A frame stays in the kernel's buffer until its last byte is read.       *)
(***************************************************************************)
HeaderArrives ==
  /\ io = "running" /\ reading = "header" /\ in # <<>>
  /\ reading' = "none"
  /\ ioq' = Append(ioq, ReadHeader(TRUE, Head(in)))
  /\ in' = IF HasBody(Head(in)) THEN in ELSE Tail(in)
  /\ UNCHANGED <<io, state, chans, writeq, pend, opening, sock, out>>

BodyArrives ==
  /\ io = "running" /\ reading = "body" /\ in # <<>>
  /\ reading' = "none"
  /\ ioq' = Append(ioq, ReadBody(TRUE, Head(in)))
  /\ in' = Tail(in)
  /\ UNCHANGED <<io, state, chans, writeq, pend, opening, sock, out>>

ReadFails ==
  /\ io = "running" /\ reading # "none" /\ sock = "broken" /\ in = <<>>
  /\ reading' = "none"
  /\ ioq' = Append(ioq, IF reading = "header" THEN ReadHeader(FALSE, Garbage)
                                             ELSE ReadBody(FALSE, Garbage))
  /\ UNCHANGED <<io, state, chans, writeq, pend, opening, sock, out, in>>

(* The kernel takes the rest of the oldest unfinished write.               *)
WriteCompletes ==
  /\ io = "running" /\ pend # <<>> /\ sock = "up"
  /\ \E f \in {Head(pend).f} \cup IF Head(pend).clean THEN {} ELSE {Garbage} :
       out' = Append(out, f)
  /\ pend' = Tail(pend)
  /\ ioq' = Append(ioq, Wrote(TRUE))
  /\ UNCHANGED <<io, state, chans, writeq, reading, opening, sock, in>>

WriteFails ==
  /\ io = "running" /\ pend # <<>> /\ sock = "broken"
  /\ pend' = Tail(pend)
  /\ ioq' = Append(ioq, Wrote(FALSE))
  /\ UNCHANGED <<io, state, chans, writeq, reading, opening, sock, out, in>>

Reactor == HeaderArrives \/ BodyArrives \/ ReadFails \/ WriteCompletes \/ WriteFails

(***************************************************************************)
(* What other threads put in the io_service's queue.  Posting is all they  *)
(* do with it; a post to a stopped io_service waits for a run() that never *)
(* comes.                                                                  *)
(***************************************************************************)
BeginOpenChannel(u) ==
  /\ opening' = [opening EXCEPT ![u] = Promise("pending", 0)]
  /\ ioq' = Append(ioq, StartOpen(u))
  /\ UNCHANGED <<io, state, chans, writeq, pend, reading, sock, out, in>>

BeginWriteMethod(f) == ioq' = Append(ioq, Write(f))

=============================================================================
