------------------------------- MODULE Octets -------------------------------
(***************************************************************************)
(* Integers on the wire: wireformat::write_uintN and read_uintN, which     *)
(* swap to network order.  Base is 256 in the code; a smaller one keeps    *)
(* eight octets within TLC's integers.                                     *)
(***************************************************************************)
EXTENDS Integers, SequencesExt

CONSTANTS
  Base,
  LittleEndian  \* TRUE where BOOST_LITTLE_ENDIAN is defined

ASSUME BaseAssumption == Base \in Nat /\ Base > 1
ASSUME EndianAssumption == LittleEndian \in BOOLEAN

Octet == 0 .. Base - 1

(* byteswap; a macro that leaves its argument alone on a big-endian host.  *)
ByteSwap(octets) == IF LittleEndian THEN Reverse(octets) ELSE octets

(***************************************************************************)
(* An integer of w octets in the host's memory: n modulo Base^w.           *)
(***************************************************************************)
InMemory(n, w) ==
  [i \in 1 .. w |-> (n \div Base ^ (IF LittleEndian THEN i - 1 ELSE w - i)) % Base]

FromMemory(octets) ==
  FoldLeft(LAMBDA n, o : n * Base + o, 0, IF LittleEndian THEN Reverse(octets) ELSE octets)

Octets(n, w)   == ByteSwap(InMemory(n, w))
Number(octets) == FromMemory(ByteSwap(octets))

Take(octets, n) == SubSeq(octets, 1, n)
Drop(octets, n) == SubSeq(octets, n + 1, Len(octets))

=============================================================================
