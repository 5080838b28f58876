---------------------------- MODULE MCMarshalling ----------------------------
(***************************************************************************)
(* One method for each thing that can go wrong: a table with a string      *)
(* behind it, and bit fields of two, of five and of one bit between        *)
(* numbers and strings.  A header with a table between two properties, and *)
(* one of each that the reader does not know.  One or two values of every  *)
(* field type, with the boundaries of the signed ones, and one level of    *)
(* nesting.                                                                *)
(***************************************************************************)
EXTENDS Marshalling

Signature(kind, class, id, fields) ==
  [kind |-> kind, class |-> class, id |-> id, fields |-> fields]

StartOk == Signature("method", 10, 11, <<"table", "shortstr">>)
Declare == Signature("method", 40, 10, <<"bit", "bit", "short", "bit", "bit", "bit", "bit",
                                         "bit", "shortstr", "bit">>)
Tune    == Signature("method", 10, 30, <<"short", "long", "octet", "longstr">>)
Blocked == Signature("method", 10, 60, <<"shortstr">>)
Basic   == Signature("header", 60, 0, <<"shortstr", "table", "octet", "timestamp">>)
Stream  == Signature("header", 80, 0, <<"longlong">>)

MCKnown == {StartOk, Declare, Tune, Basic}
MCSignatures == MCKnown \cup {Blocked, Stream}

MCFieldValues ==
  [octet |-> {0, 13}, short |-> {0, 195}, long |-> {38415}, longlong |-> {7},
   timestamp |-> {0, 38416},
   shortstr |-> {<<8, 1, 2, 3>>, <<1, 0>>, [i \in 1 .. 14 |-> 1]},
   longstr |-> {<<0, 1>>}, bit |-> BOOLEAN]

(* Two keys of which one is the prefix of the other, and one too long.     *)
MCKeys == {<<1>>, <<1, 0>>, <<1, 0, 0>>}

Scalars ==
  {Integral("boolean", 1),
   Integral("int8", -7), Integral("int8", 6),
   Integral("int16", -1), Integral("int32", -19208), Integral("int64", -1),
   Integral("float", 5), Integral("timestamp", 15),
   LongString(<<>>), LongString(<<1, 0>>), Void}

Unportable ==
  {Integral("double", 14 ^ 4), Integral("double", 1),
   Decimal(1, -2), Bytes(<<0, 0, 0, 1, 5>>), Bytes(<<3>>)}

Elements == {Integral("int8", 6), Void}

Nested ==
  {FieldTableOf(EmptyTable)}
  \cup {FieldTableOf(<<1>> :> v) : v \in Elements \cup {Decimal(0, 1)}}
  \cup {FieldArray(a) : a \in {<<>>} \cup {<<v>> : v \in Elements \cup {Decimal(0, 1)}}}
  \cup {FieldTableOf(<<1>> :> FieldArray(<<Void>>))}

MCValues == Scalars \cup Unportable \cup Nested

=============================================================================
