------------------------------- MODULE Methods -------------------------------
(***************************************************************************)
(* The methods and content headers codegen.py generates: how their fields  *)
(* are counted, written and read, and the frame create_from_method makes   *)
(* of a method.  What the generator is fed with, the protocol's classes,   *)
(* is a constant of Marshalling; here a signature is a record:             *)
(*   kind    "method" or "header"                                          *)
(*   class, id  CLASS_ID and METHOD_ID; a header has no id of its own      *)
(*   fields  the resolved domains of its arguments or properties, in order *)
(***************************************************************************)
EXTENDS FieldTable

CONSTANT OctetBits  \* 8 in the code: a smaller one goes with a smaller Base

ASSUME BitsAssumption == OctetBits \in Nat \ {0} /\ 2 ^ OctetBits <= Base

(* The integral domains and sizeof their C++ types.                        *)
Sizeof == [octet |-> 1, short |-> 2, long |-> 4, longlong |-> 8, timestamp |-> 8]

Domains == DOMAIN Sizeof \cup {"shortstr", "longstr", "bit", "table"}

(***************************************************************************)
(* validate_shortstring and validate_longstring, which the setters call.   *)
(* The limit of a long string is out of reach.                             *)
(***************************************************************************)
ValidateShortString(s) == Len(s) <= Base - 1 /\ 0 \notin {s[i] : i \in DOMAIN s}

Accepts(domain, v) == domain = "shortstr" => ValidateShortString(v)

-----------------------------------------------------------------------------
(***************************************************************************)
(* Bit fields.  Arguments of domain bit that follow one another share an   *)
(* integer, the first of them in its lowest bit.  The generator refuses    *)
(* more than 64.  The bits are set with an int that is shifted, which is   *)
(* sound up to bit 31: runs are assumed to fit in an int.                  *)
(***************************************************************************)
IsBit(fields, i) == i \in DOMAIN fields /\ fields[i] = "bit"

RunStart(fields, i) ==
  CHOOSE s \in 1 .. i : (\A j \in s .. i : IsBit(fields, j)) /\ ~IsBit(fields, s - 1)

BitsNumber(fields, i) == i - RunStart(fields, i)

RunEnd(fields, i) ==
  CHOOSE e \in i .. Len(fields) : (\A j \in i .. e : IsBit(fields, j)) /\ ~IsBit(fields, e + 1)

BitsLength(fields, i) == (RunEnd(fields, i) - RunStart(fields, i)) + 1

IsLastBit(fields, i) == BitsNumber(fields, i) = BitsLength(fields, i) - 1

(* In octets, where the generator counts in bits.                          *)
BitfieldSize(length) == Min({w \in {1, 2, 4, 8} : length <= w * OctetBits})

RunsFit(fields) ==
  \A i \in DOMAIN fields : IsBit(fields, i) => BitsLength(fields, i) <= 4 * OctetBits

(* set_bit, into an integer where the bit is clear, and get_bit.           *)
SetBit(bits, val, position) == IF val THEN bits + 2 ^ position ELSE bits
GetBit(bits, position)      == (bits \div 2 ^ position) % 2 = 1

Packed(vals) ==
  FoldLeftDomain(LAMBDA bits, k : SetBit(bits, vals[k], k - 1), 0, vals)

-----------------------------------------------------------------------------
(* Methods: get_serialized_size, write and read.                           *)
FieldSize(domain, v) ==
  CASE domain \in DOMAIN Sizeof -> Sizeof[domain]
    [] domain = "shortstr"      -> 1 + Len(v)
    [] domain = "longstr"       -> 4 + Len(v)
    [] domain = "table"         -> TableSize(v)

Indices(fields) == [i \in DOMAIN fields |-> i]

(* Mutant of SerializedSize: every bit is counted.                         *)
SerializedSizeOfBits(sig, args) ==
  2 + 2 + Total(Indices(sig.fields), LAMBDA i :
            IF IsBit(sig.fields, i) THEN BitfieldSize(BitsLength(sig.fields, i))
                                    ELSE FieldSize(sig.fields[i], args[i]))

SerializedSize(sig, args) ==
  2 + 2 + Total(Indices(sig.fields), LAMBDA i :
            CASE ~IsBit(sig.fields, i) -> FieldSize(sig.fields[i], args[i])
              [] IsLastBit(sig.fields, i) -> BitfieldSize(BitsLength(sig.fields, i))
              [] OTHER -> 0)

WriteField(domain, v) ==
  CASE domain \in DOMAIN Sizeof -> Octets(v, Sizeof[domain])
    [] domain = "shortstr"      -> WriteShortString(v)
    [] domain = "longstr"       -> WriteLongString(v)
    [] domain = "table"         -> WriteTable(v)

WriteMethod(sig, args) ==
  Octets(sig.class, 2) \o Octets(sig.id, 2) \o
  Concat(Indices(sig.fields), LAMBDA i :
    CASE ~IsBit(sig.fields, i) -> WriteField(sig.fields[i], args[i])
      [] IsLastBit(sig.fields, i) ->
           Octets(Packed(SubSeq(args, RunStart(sig.fields, i), i)),
                  BitfieldSize(BitsLength(sig.fields, i)))
      [] OTHER -> <<>>)

ReadField(domain, s) ==
  CASE domain \in DOMAIN Sizeof -> ReadUint(s, Sizeof[domain])
    [] domain = "shortstr"      -> ReadShortString(s)
    [] domain = "longstr"       -> ReadLongString(s)
    [] domain = "table"         -> ReadTable(s)

(* Fields are read in order, and given to their setters.                   *)
RECURSIVE ReadFields(_, _, _)
ReadFields(fields, args, s) ==
  LET i      == Len(args) + 1
      length == BitsLength(fields, i)
  IN  CASE i > Len(fields)  -> Reads(args, s)
        [] IsBit(fields, i) ->
             Then(ReadUint(s, BitfieldSize(length)), LAMBDA r :
               ReadFields(fields, args \o [k \in 1 .. length |-> GetBit(r.v, k - 1)], r.rest))
        [] OTHER ->
             Then(ReadField(fields[i], s), LAMBDA r :
               IF Accepts(fields[i], r.v) THEN ReadFields(fields, Append(args, r.v), r.rest)
               ELSE Fails)

(* method::read; a class or a method that was not generated is refused.    *)
ReadMethod(known, s) ==
  Then(ReadUint(s, 2), LAMBDA c : Then(ReadUint(c.rest, 2), LAMBDA m :
    LET match == {sig \in known : sig.kind = "method" /\ sig.class = c.v /\ sig.id = m.v}
    IN  IF match = {} THEN Fails
        ELSE LET sig == CHOOSE sig \in match : TRUE
             IN  Then(ReadFields(sig.fields, <<>>, m.rest), LAMBDA r :
                   Reads([sig |-> sig, args |-> r.v], r.rest))))

(***************************************************************************)
(* frame::create_from_method writes into a buffer of the size the method   *)
(* counts.  A method that writes more makes the stream fail, which write   *)
(* reports; after one that writes less the buffer keeps the octets new     *)
(* char[] has left in it, of which leftover stands for each.               *)
(***************************************************************************)
CreateFromMethod(sig, args, leftover) ==
  LET written == WriteMethod(sig, args)
      size    == SerializedSize(sig, args)
  IN  IF Len(written) > size THEN Fails
      ELSE Reads(written \o [i \in 1 .. size - Len(written) |-> leftover], <<>>)

-----------------------------------------------------------------------------
(***************************************************************************)
(* Content headers.  A header carries the fields whose flags are set.  A   *)
(* table has no flag of its own: it counts as set while it is empty.       *)
(***************************************************************************)
IsSet(sig, h, i) == IF sig.fields[i] = "table" THEN h.args[i] = EmptyTable ELSE i \in h.set

(* BF_name: the position of the property, counted from zero.               *)
Flags(set) == SumSet({2 ^ (i - 1) : i \in set})

(* Mutant of FlagsWritten: the flags of tables are not brought up to date. *)
FlagsWrittenStale(sig, h) == h.set

(* write first brings the flags of the tables up to date.                  *)
FlagsWritten(sig, h) == {i \in DOMAIN sig.fields : IsSet(sig, h, i)}

WriteHeader(sig, h) ==
  Octets(sig.class, 2) \o Octets(h.weight, 2) \o Octets(h.size, 8)
  \o Octets(Flags(FlagsWritten(sig, h)), 2)
  \o Concat(Indices(sig.fields), LAMBDA i :
       IF IsSet(sig, h, i) THEN WriteField(sig.fields[i], h.args[i]) ELSE <<>>)

(***************************************************************************)
(* What has no flag is left as the constructor made it; strings are not    *)
(* validated.                                                              *)
(***************************************************************************)
Blank(domain) ==
  CASE domain \in {"shortstr", "longstr"} -> <<>>
    [] domain = "table"                   -> EmptyTable
    [] OTHER                              -> 0

RECURSIVE ReadProperties(_, _, _, _)
ReadProperties(fields, set, args, s) ==
  LET i == Len(args) + 1
  IN  CASE i > Len(fields) -> Reads(args, s)
        [] i \in set       -> Then(ReadField(fields[i], s), LAMBDA r :
                                ReadProperties(fields, set, Append(args, r.v), r.rest))
        [] OTHER           -> ReadProperties(fields, set, Append(args, Blank(fields[i])), s)

(* properties::read and the read of the class it finds.                    *)
ReadHeader(known, s) ==
  Then(ReadUint(s, 2), LAMBDA c : Then(ReadUint(c.rest, 2), LAMBDA weight :
    Then(ReadUint(weight.rest, 8), LAMBDA size : Then(ReadUint(size.rest, 2), LAMBDA flags :
      LET match == {sig \in known : sig.kind = "header" /\ sig.class = c.v}
      IN  IF match = {} THEN Fails
          ELSE LET sig == CHOOSE sig \in match : TRUE
                   set == {i \in DOMAIN sig.fields : GetBit(flags.v, i - 1)}
               IN  Then(ReadProperties(sig.fields, set, <<>>, flags.rest), LAMBDA r :
                     Reads([sig |-> sig, weight |-> weight.v, size |-> size.v,
                            set |-> set, args |-> r.v], r.rest))))))

=============================================================================
