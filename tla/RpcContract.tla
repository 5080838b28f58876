----------------------------- MODULE RpcContract -----------------------------
(***************************************************************************)
(* What a channel promises of an RPC (channel_impl::declare_exchange seen  *)
(* from outside): a call ends at most once, and if it ends with a value    *)
(* then the broker has carried out that very call, and the value is the    *)
(* broker's answer to it and not to an earlier one.  A call that fails may *)
(* have been carried out or not.  No call is carried out twice, or without *)
(* having been made.                                                       *)
(***************************************************************************)
EXTENDS Naturals

CONSTANT Channels

VARIABLES
  calls,    \* number of calls made on each channel: the tag of the latest
  outcome,  \* of the latest call
  answer,   \* tag of the answer it ended with
  served    \* the tags the broker has carried out

contractVars == <<calls, outcome, answer, served>>

Init ==
  /\ calls   = [c \in Channels |-> 0]
  /\ outcome = [c \in Channels |-> "none"]
  /\ answer  = [c \in Channels |-> 0]
  /\ served  = [c \in Channels |-> {}]

Call(c) ==
  /\ outcome[c] # "pending"
  /\ calls'   = [calls EXCEPT ![c] = @ + 1]
  /\ outcome' = [outcome EXCEPT ![c] = "pending"]
  /\ answer'  = [answer EXCEPT ![c] = 0]
  /\ UNCHANGED served

Serve(c, n) ==
  /\ n \in (1 .. calls[c]) \ served[c]
  /\ served' = [served EXCEPT ![c] = @ \cup {n}]
  /\ UNCHANGED <<calls, outcome, answer>>

Answer(c) ==
  /\ outcome[c] = "pending" /\ calls[c] \in served[c]
  /\ outcome' = [outcome EXCEPT ![c] = "value"]
  /\ answer'  = [answer EXCEPT ![c] = calls[c]]
  /\ UNCHANGED <<calls, served>>

Fail(c) ==
  /\ outcome[c] = "pending"
  /\ outcome' = [outcome EXCEPT ![c] = "exception"]
  /\ UNCHANGED <<calls, answer, served>>

Next == \E c \in Channels :
          \/ Call(c) \/ Answer(c) \/ Fail(c)
          \/ \E n \in 1 .. calls[c] : Serve(c, n)

Spec == Init /\ [][Next]_contractVars

=============================================================================
