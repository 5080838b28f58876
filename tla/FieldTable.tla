------------------------------ MODULE FieldTable ------------------------------
(***************************************************************************)
(* Field tables: table, table_entry and the part of wireformat that writes *)
(* and reads them, as operators.  Methods and Marshalling use them.        *)
(*                                                                         *)
(* Reading returns an outcome: whether it succeeded, and if so the value   *)
(* read and what is left of the stream.  Every failure is a runtime_error. *)
(***************************************************************************)
EXTENDS Octets

CONSTANT MaxKey  \* 128 in the code

(***************************************************************************)
(* table_entry::field_type.  The octet that stands for a type is its       *)
(* position here, an ASCII letter in the code.                             *)
(***************************************************************************)
FieldTypes == <<"boolean", "int8", "int16", "int32", "int64", "float", "double",
                "timestamp", "decimal", "longstring", "fieldarray", "fieldtable",
                "void", "bytes">>

ASSUME FieldTableAssumption ==
  Base >= Len(FieldTypes) /\ MaxKey \in 0 .. Base - 2

TypeOctet(type) == (CHOOSE i \in DOMAIN FieldTypes : FieldTypes[i] = type) - 1

(***************************************************************************)
(* field_value_t.  An integer, and the bit pattern of a float or a double, *)
(* is n; a string or a vector of bytes is s; a nested array is a, a nested *)
(* table m.                                                                *)
(***************************************************************************)
Integral(type, n)   == [type |-> type, n |-> n]
Decimal(scale, n)   == [type |-> "decimal", scale |-> scale, n |-> n]
LongString(s)       == [type |-> "longstring", s |-> s]
Bytes(s)            == [type |-> "bytes", s |-> s]
Void                == [type |-> "void"]
FieldArray(a)       == [type |-> "fieldarray", a |-> a]
FieldTableOf(m)     == [type |-> "fieldtable", m |-> m]

Width == [boolean |-> 1, int8 |-> 1, int16 |-> 2, int32 |-> 4, int64 |-> 8,
          float |-> 4, double |-> 8, timestamp |-> 8]

Signed == {"int8", "int16", "int32", "int64"}

(* A table is a std::map from keys to values: its entries are in key order. *)
EmptyTable == <<>>

KeyLess(j, k) ==
  \/ IsStrictPrefix(j, k)
  \/ \E i \in DOMAIN j \cap DOMAIN k : Take(j, i - 1) = Take(k, i - 1) /\ j[i] < k[i]

KeysInOrder(t) == SetToSortSeq(DOMAIN t, KeyLess)

Concat(s, Write(_)) == FlattenSeq([i \in DOMAIN s |-> Write(s[i])])
Total(s, Size(_))   == FoldLeft(LAMBDA n, x : n + Size(x), 0, s)

(* table::insert: std::map::insert keeps the entry that is there.          *)
Insert(t, key, value) == IF key \in DOMAIN t THEN t ELSE (key :> value) @@ t

(* What the constructors of table_entry accept.                            *)
ValidateKeyName(key) == Len(key) <= MaxKey

-----------------------------------------------------------------------------
(***************************************************************************)
(* Sizes: datatype_size_counter and the wireformat_size functions.  A      *)
(* decimal counts sizeof(std::pair<uint8_t, int32_t>), which is padded to  *)
(* eight; a field array counts its elements only.                          *)
(***************************************************************************)
RECURSIVE DataSize(_)

WireformatDataSize(v) == 1 + DataSize(v)

(* Mutant of TableSize: the length octet of a key is not counted.          *)
TableSizeShort(t) ==
  4 + Total(KeysInOrder(t), LAMBDA key : Len(key) + WireformatDataSize(t[key]))

TableSize(t) ==
  4 + Total(KeysInOrder(t), LAMBDA key : 1 + Len(key) + WireformatDataSize(t[key]))

DataSize(v) ==
  CASE v.type \in DOMAIN Width              -> Width[v.type]
    [] v.type = "decimal"                   -> 8
    [] v.type \in {"longstring", "bytes"}   -> 4 + Len(v.s)
    [] v.type = "fieldarray"                -> Total(v.a, WireformatDataSize)
    [] v.type = "fieldtable"                -> TableSize(v.m)
    [] v.type = "void"                      -> 0

-----------------------------------------------------------------------------
(***************************************************************************)
(* Writing: table_value_writer, write_table, write_table_entry and the     *)
(* strings.  The length in front of an array or a table is the counted     *)
(* size.                                                                   *)
(***************************************************************************)
WriteShortString(s) == Octets(Len(s), 1) \o s
WriteLongString(s)  == Octets(Len(s), 4) \o s

RECURSIVE WriteValue(_)

WriteTable(t) ==
  Octets(TableSize(t) - 4, 4)
  \o Concat(KeysInOrder(t), LAMBDA key : WriteShortString(key) \o WriteValue(t[key]))

WriteValue(v) ==
  <<TypeOctet(v.type)>> \o
  CASE v.type \in DOMAIN Width   -> Octets(v.n, Width[v.type])
    [] v.type = "decimal"        -> Octets(v.scale, 1) \o Octets(v.n, 4)
    [] v.type = "longstring"     -> WriteLongString(v.s)
    [] v.type = "bytes"          -> v.s
    [] v.type = "fieldarray"     -> Octets(Total(v.a, WireformatDataSize), 4)
                                    \o Concat(v.a, WriteValue)
    [] v.type = "fieldtable"     -> WriteTable(v.m)
    [] v.type = "void"           -> <<>>

-----------------------------------------------------------------------------
(* Reading.                                                                *)
Fails           == [ok |-> FALSE]
Reads(v, rest)  == [ok |-> TRUE, v |-> v, rest |-> rest]
Then(r, Use(_)) == IF r.ok THEN Use(r) ELSE Fails

ReadOctets(s, n) == IF Len(s) < n THEN Fails ELSE Reads(Take(s, n), Drop(s, n))

ReadUint(s, w) == Then(ReadOctets(s, w), LAMBDA r : Reads(Number(r.v), r.rest))

ReadShortString(s) == Then(ReadUint(s, 1), LAMBDA r : ReadOctets(r.rest, r.v))
ReadLongString(s)  == Then(ReadUint(s, 4), LAMBDA r : ReadOctets(r.rest, r.v))

(***************************************************************************)
(* What the bits of an integral type mean to the reader.  A double is read *)
(* through a pointer to float: what counts is the float in its lower half, *)
(* which is zero exactly if that half is.                                  *)
(***************************************************************************)
OtherDouble == -1

Meaning(type, n) ==
  CASE type = "boolean" -> IF n = 0 THEN 0 ELSE 1
    [] type \in Signed  -> IF 2 * (n \div Base ^ (Width[type] - 1)) >= Base
                           THEN (n - (Base ^ Width[type] - 1)) - 1 ELSE n
    [] type = "double"  -> IF n % Base ^ 4 = 0 THEN 0 ELSE OtherDouble
    [] OTHER            -> n

RECURSIVE ReadValue(_), ReadElements(_, _), ReadEntries(_, _)

(***************************************************************************)
(* The loop of a field array tests eof(), which no read that succeeds      *)
(* sets: after the last element one more is read, and fails.               *)
(***************************************************************************)
ReadElements(s, a) ==
  Then(ReadValue(s), LAMBDA r : ReadElements(r.rest, Append(a, r.v)))

(* The loop of a table looks ahead.  table_entry may refuse the key.       *)
ReadEntries(s, t) ==
  IF s = <<>> THEN Reads(t, s)
  ELSE Then(ReadShortString(s), LAMBDA k :
         Then(ReadValue(k.rest), LAMBDA r :
           IF ValidateKeyName(k.v) THEN ReadEntries(r.rest, Insert(t, k.v, r.v)) ELSE Fails))

ReadTable(s) ==
  Then(ReadLongString(s), LAMBDA r :
    Then(ReadEntries(r.v, EmptyTable), LAMBDA t : Reads(t.v, r.rest)))

ReadData(type, s) ==
  CASE type \in DOMAIN Width   -> Then(ReadUint(s, Width[type]), LAMBDA r :
                                    Reads(Integral(type, Meaning(type, r.v)), r.rest))
    [] type = "decimal"        -> Then(ReadUint(s, 1), LAMBDA r :
                                    Then(ReadUint(r.rest, 4), LAMBDA q :
                                      Reads(Decimal(r.v, Meaning("int32", q.v)), q.rest)))
    [] type = "longstring"     -> Then(ReadLongString(s), LAMBDA r :
                                    Reads(LongString(r.v), r.rest))
    [] type = "bytes"          -> Then(ReadLongString(s), LAMBDA r :
                                    Reads(Bytes(r.v), r.rest))
    [] type = "fieldarray"     -> Then(ReadLongString(s), LAMBDA r :
                                    Then(ReadElements(r.v, <<>>), LAMBDA a :
                                      Reads(FieldArray(a.v), r.rest)))
    [] type = "fieldtable"     -> Then(ReadTable(s), LAMBDA r :
                                    Reads(FieldTableOf(r.v), r.rest))
    [] type = "void"           -> Reads(Void, s)

(* read_field_value; an octet that is no field type is refused.            *)
ReadValue(s) ==
  Then(ReadUint(s, 1), LAMBDA r :
    IF r.v + 1 \in DOMAIN FieldTypes THEN ReadData(FieldTypes[r.v + 1], r.rest) ELSE Fails)

-----------------------------------------------------------------------------
(***************************************************************************)
(* The values the code writes as it counts them, and reads as it writes    *)
(* them.  The others: a decimal is counted at eight octets and takes five, *)
(* a field array inside a table is counted without its length and can not  *)
(* be read, bytes are counted with a length and written without, and a     *)
(* double is read as a float.                                              *)
(***************************************************************************)
RECURSIVE Portable(_)
Portable(v) ==
  CASE v.type \in {"decimal", "fieldarray", "bytes", "double"} -> FALSE
    [] v.type = "fieldtable" -> \A key \in DOMAIN v.m : Portable(v.m[key])
    [] OTHER -> TRUE

=============================================================================
