----------------------------- MODULE ChannelImpl -----------------------------
(***************************************************************************)
(* detail::channel_impl as operators on its state.  A channel is a record: *)
(*   live    the object exists: the weak_ptr in m_channels can be locked   *)
(*   cont    m_continuation, named by the member function it is bound to   *)
(*   opened  m_channel_opened_promise                                      *)
(*   closed  m_channel_closed_promise has been given its value             *)
(*   rpc     the promise the latest begin_rpc made, "none" before any      *)
(*   calls   number of begin_rpc calls so far: the tag of the latest one   *)
(*   got     tag carried by the answer that satisfied the latest promise   *)
(* calls and got are history.                                              *)
(*                                                                         *)
(* A member function that may throw returns an outcome: the channel it     *)
(* leaves and the exception that leaves it, "none" if it returns.          *)
(***************************************************************************)
EXTENDS AmqpFrames

PromiseStates == {"pending", "value", "exception"}

Exceptions == {"none", "connection_exception", "runtime_error", "logic_error",
               "promise_already_satisfied"}

ChannelStates ==
  [live   : BOOLEAN,
   cont   : {"process_open", "rpc_handler", "closed_handler"},
   opened : PromiseStates,
   closed : BOOLEAN,
   rpc    : PromiseStates \cup {"none"},
   calls  : Nat,
   got    : Nat]

Returns(c)      == [chan |-> c, thrown |-> "none"]
Throws(c, what) == [chan |-> c, thrown |-> what]

(* The constructor: the continuation waits for channel.open-ok.            *)
NewChannel ==
  [live |-> TRUE, cont |-> "process_open", opened |-> "pending",
   closed |-> FALSE, rpc |-> "none", calls |-> 0, got |-> 0]

(* Mutants of ArmRpc: the continuation is not rebound; it is bound to      *)
(* closed_handler; the promise of the RPC before is used again.            *)
ArmRpcUnbound(c)  == [c EXCEPT !.rpc = "pending", !.calls = @ + 1, !.got = 0]
ArmRpcClosed(c)   == [ArmRpcUnbound(c) EXCEPT !.cont = "closed_handler"]
ArmRpcOldPromise(c) ==
  [c EXCEPT !.cont = "rpc_handler", !.rpc = IF @ = "none" THEN "pending" ELSE @,
            !.calls = @ + 1]

(***************************************************************************)
(* The first half of begin_rpc: a fresh promise, bound to the              *)
(* continuation.  The other half posts the request.                        *)
(***************************************************************************)
ArmRpc(c) ==
  [c EXCEPT !.cont = "rpc_handler", !.rpc = "pending", !.calls = @ + 1, !.got = 0]

(***************************************************************************)
(* m_channel_closed_future is default-constructed and never obtained from  *)
(* m_channel_closed_promise, so it is never ready, whatever c.closed says: *)
(* the test at the head of begin_rpc always passes, and wait_for_any never *)
(* returns because of it.                                                  *)
(***************************************************************************)
ChannelClosedFutureReady(c) == FALSE

(***************************************************************************)
(* What a continuation throws when the frame is not the one it waits for.  *)
(* A frame that is not a method, and another method, raise                 *)
(* connection_exception; method::read refuses an unknown method itself.    *)
(***************************************************************************)
Mismatch(f) == IF f.kind = "Unknown" THEN "runtime_error" ELSE "connection_exception"

(***************************************************************************)
(* Both continuations satisfy their promise whatever the frame, with a     *)
(* value or, in the catch block, with an exception.  If the promise is     *)
(* already satisfied the set_exception of the catch block throws in turn,  *)
(* and that exception replaces the one being handled.                      *)
(***************************************************************************)
ProcessOpen(c, f) ==
  IF c.opened # "pending" THEN Throws(c, "promise_already_satisfied")
  ELSE IF f.kind = "OpenOk" THEN Returns([c EXCEPT !.opened = "value"])
  ELSE Throws([c EXCEPT !.opened = "exception"], Mismatch(f))

(* Mutant of RpcHandler: any method is taken for the answer.               *)
RpcHandlerAny(c, f) ==
  IF c.rpc # "pending" THEN Throws(c, "promise_already_satisfied")
  ELSE Returns([c EXCEPT !.rpc = "value", !.got = f.tag])

RpcHandler(c, f) ==
  IF c.rpc # "pending" THEN Throws(c, "promise_already_satisfied")
  ELSE IF f.kind = "DeclareOk" THEN Returns([c EXCEPT !.rpc = "value", !.got = f.tag])
  ELSE Throws([c EXCEPT !.rpc = "exception"], Mismatch(f))

ClosedHandler(c, f) == Returns(c)

(***************************************************************************)
(* process_frame runs the continuation.  Its own catch clause is for       *)
(* channel_exception, which no code throws.                                *)
(***************************************************************************)
ProcessFrame(c, f) ==
  CASE c.cont = "process_open"   -> ProcessOpen(c, f)
    [] c.cont = "rpc_handler"    -> RpcHandler(c, f)
    [] c.cont = "closed_handler" -> ClosedHandler(c, f)

(* set_value on a promise that has its value throws.                       *)
CloseAsync(c) ==
  IF c.closed THEN Throws(c, "promise_already_satisfied")
              ELSE Returns([c EXCEPT !.closed = TRUE])

(* The destructor runs close_, which rebinds the continuation.             *)
Destroyed(c) == [c EXCEPT !.live = FALSE, !.cont = "closed_handler"]

=============================================================================
