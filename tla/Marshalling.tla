----------------------------- MODULE Marshalling -----------------------------
(***************************************************************************)
(* A method or a content header from its making to the other side: a       *)
(* program fills in the fields of what the generated code has created, the *)
(* library writes it, and a peer that runs the same code reads it.         *)
(***************************************************************************)
EXTENDS Methods

CONSTANTS
  Signatures,   \* the methods and headers of the protocol
  Known,        \* those the reader was generated with
  FieldValues,  \* for every domain but tables, the values the program uses
  Keys, Values, \* keys and values of its table entries
  Weights,      \* weights and body sizes
  Leftovers,    \* what new char[] may leave in a buffer
  MaxEntries    \* bound: entries of a table

ASSUME SignatureAssumption ==
  /\ Known \subseteq Signatures
  /\ \A sig \in Signatures : RunsFit(sig.fields)
  /\ \A sig \in Signatures : sig.kind = "header" =>
       \A i \in DOMAIN sig.fields : ~IsBit(sig.fields, i)
  /\ MaxEntries \in Nat

VARIABLES
  sig,      \* the class of the object
  obj,      \* the object: its fields, and what a header has besides them
  payload,  \* what has been written
  at,       \* "make", "sent", "done"; "unsent" or "unread" after an exception
  result    \* what the reader makes of it

vars == <<sig, obj, payload, at, result>>

IsHeader == sig.kind = "header"

(***************************************************************************)
(* The generated constructors give no value to a number the protocol has   *)
(* no default for, nor to weight and body size: they may be anything.      *)
(***************************************************************************)
Initial(domain) ==
  CASE domain \in {"shortstr", "longstr"} -> {<<>>}
    [] domain = "table"                   -> {EmptyTable}
    [] OTHER                              -> FieldValues[domain]

RECURSIVE InitialArgs(_)
InitialArgs(fields) ==
  IF fields = <<>> THEN {<<>>}
  ELSE {Append(args, v) : args \in InitialArgs(Front(fields)), v \in Initial(Last(fields))}

Init ==
  /\ sig \in Signatures
  /\ LET weights == IF IsHeader THEN Weights ELSE {0}
     IN  obj \in [args : InitialArgs(sig.fields), set : {{}}, weight : weights, size : weights]
  /\ payload = <<>> /\ at = "make" /\ result = <<>>

(***************************************************************************)
(* set_name, or name_set of a header, which also sets the flag.  A string  *)
(* the setter refuses leaves the object alone.                             *)
(***************************************************************************)
SetField ==
  /\ at = "make"
  /\ \E i \in DOMAIN sig.fields :
       /\ sig.fields[i] # "table"
       /\ \E v \in FieldValues[sig.fields[i]] :
            /\ Accepts(sig.fields[i], v)
            /\ obj' = [obj EXCEPT !.args[i] = v, !.set = @ \cup IF IsHeader THEN {i} ELSE {}]
  /\ UNCHANGED <<sig, payload, at, result>>

(* name_clear, which headers have.                                         *)
ClearField ==
  /\ at = "make" /\ IsHeader
  /\ \E i \in DOMAIN sig.fields :
       obj' = [obj EXCEPT !.args[i] = Blank(sig.fields[i]), !.set = @ \ {i}]
  /\ UNCHANGED <<sig, payload, at, result>>

(* A key that table_entry refuses never gets as far as insert.             *)
InsertEntry ==
  /\ at = "make"
  /\ \E i \in DOMAIN sig.fields, key \in Keys, v \in Values :
       /\ sig.fields[i] = "table" /\ ValidateKeyName(key)
       /\ Cardinality(DOMAIN obj.args[i]) < MaxEntries
       /\ obj' = [obj EXCEPT !.args[i] = Insert(@, key, v)]
  /\ UNCHANGED <<sig, payload, at, result>>

(* A method becomes a frame; a header is written to a stream of any size.  *)
Send ==
  /\ at = "make"
  /\ \/ /\ IsHeader /\ payload' = WriteHeader(sig, obj) /\ at' = "sent"
        /\ UNCHANGED obj
     \/ /\ ~IsHeader
        /\ \E leftover \in Leftovers :
             LET frame == CreateFromMethod(sig, obj.args, leftover)
             IN  \/ frame.ok /\ payload' = frame.v /\ at' = "sent"
                 \/ ~frame.ok /\ at' = "unsent" /\ UNCHANGED payload
        /\ UNCHANGED obj
  /\ UNCHANGED <<sig, result>>

(* adapt_reader; what the frame holds behind the last field is not read.   *)
Receive ==
  /\ at = "sent"
  /\ LET r == IF IsHeader THEN ReadHeader(Known, payload) ELSE ReadMethod(Known, payload)
     IN  \/ r.ok /\ at' = "done" /\ result' = r.v
         \/ ~r.ok /\ at' = "unread" /\ UNCHANGED result
  /\ UNCHANGED <<sig, obj, payload>>

Next == SetField \/ ClearField \/ InsertEntry \/ Send \/ Receive

Spec == Init /\ [][Next]_vars

-----------------------------------------------------------------------------
TablesArePortable ==
  \A i \in DOMAIN sig.fields :
    sig.fields[i] = "table" => \A key \in DOMAIN obj.args[i] : Portable(obj.args[i][key])

(***************************************************************************)
(* A method with portable tables is read back as it was written, its       *)
(* arguments behind a bit field or a table as well, unless the reader does *)
(* not know it, and then it is refused.                                    *)
(***************************************************************************)
RoundTrip ==
  ~IsHeader /\ TablesArePortable =>
    /\ at # "unsent"
    /\ at = "unread" => sig \notin Known
    /\ at = "done"   => result = [sig |-> sig, args |-> obj.args]

(***************************************************************************)
(* The size create_from_method allocates is the size write fills: no octet *)
(* of the frame is what happened to be in memory.                          *)
(***************************************************************************)
FrameIsFilled ==
  ~IsHeader /\ TablesArePortable /\ at = "sent" =>
    payload = WriteMethod(sig, obj.args)

(***************************************************************************)
(* A header arrives with the properties it was given, whichever they are,  *)
(* and none besides.  Tables do not count: an empty one is sent, one with  *)
(* entries never is.                                                       *)
(***************************************************************************)
Properties(h) == {i \in h.set : sig.fields[i] # "table"}

HeaderRoundTrip ==
  IsHeader =>
    /\ at = "unread" => sig \notin Known
    /\ at = "done" =>
         /\ result.sig = sig /\ result.weight = obj.weight /\ result.size = obj.size
         /\ Properties(result) = Properties(obj)
         /\ \A i \in Properties(obj) : result.args[i] = obj.args[i]

(* A method is as long as get_serialized_size says.                        *)
SizeIsWritten ==
  ~IsHeader => Len(WriteMethod(sig, obj.args)) = SerializedSize(sig, obj.args)

=============================================================================
