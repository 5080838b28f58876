---------------------------- MODULE FramingProofs ----------------------------
(***************************************************************************)
(* From octets to frames, for any payloads and any number of frames,       *)
(* for every way in which the octets may arrive, on hosts of either byte   *)
(* order: integers are read as they were written, and the frames           *)
(* dispatched are those sent, up to the first bad one, where and only      *)
(* where frame_builder throws.                                             *)
(***************************************************************************)
EXTENDS Framing, TLAPS

(***************************************************************************)
(* FoldLeft(op, base, s) is the value at DOMAIN s of a function on sets of *)
(* indices that takes the greatest index off.  Such a function for the     *)
(* numbers 1 .. m is made from one for 1 .. m - 1; for the two and four    *)
(* octets of the integers of a frame header that gives their value.        *)
(***************************************************************************)
Folds(g, s, D) ==
  g = [T \in SUBSET D |-> IF T = {} THEN 0 ELSE g[T \ {Max(T)}] * Base + s[Max(T)]]

Folded(s) == FoldLeft(LAMBDA n, o : n * Base + o, 0, s)

LEMMA FoldIs ==
  ASSUME NEW s
  PROVE  Folded(s) = (CHOOSE g : Folds(g, s, DOMAIN s))[DOMAIN s]
BY DEF Folded, FoldLeft, MapThenFoldSet, Folds

LEMMA MaxIs ==
  ASSUME NEW k \in Nat, NEW T \in SUBSET (1 .. k + 1), k + 1 \in T
  PROVE  Max(T) = k + 1
<1>1. \A x \in T : k + 1 >= x
  OBVIOUS
<1>2. \E x \in T : \A y \in T : x >= y
  BY <1>1
<1>3. Max(T) \in T /\ \A y \in T : Max(T) >= y
  BY <1>2 DEF Max
<1>4. PICK m \in T : m = Max(T)
  BY <1>3
<1>5. m >= k + 1 /\ k + 1 >= m /\ m \in Int
  BY <1>1, <1>3, <1>4
<1> QED BY <1>4, <1>5

LEMMA FoldGrows ==
  ASSUME NEW k \in Nat, NEW m, m = k + 1, NEW s, NEW g, Folds(g, s, 1 .. k)
  PROVE  \E h : Folds(h, s, 1 .. m)
<1> DEFINE h == [T \in SUBSET (1 .. k + 1) |->
                   IF k + 1 \in T THEN g[T \ {k + 1}] * Base + s[k + 1] ELSE g[T]]
<1>1. ASSUME NEW T \in SUBSET (1 .. k + 1)
      PROVE  h[T] = IF T = {} THEN 0 ELSE h[T \ {Max(T)}] * Base + s[Max(T)]
  <2>1. CASE k + 1 \in T
    <3>1. Max(T) = k + 1
      BY <2>1, MaxIs
    <3>2. h[T] = g[T \ {k + 1}] * Base + s[k + 1]
      BY <2>1
    <3>3. h[T \ {k + 1}] = g[T \ {k + 1}]
      OBVIOUS
    <3> QED BY <2>1, <3>1, <3>2, <3>3
  <2>2. CASE k + 1 \notin T
    <3>1. T \in SUBSET (1 .. k) /\ h[T] = g[T]
      BY <2>2
    <3>2. g[T] = IF T = {} THEN 0 ELSE g[T \ {Max(T)}] * Base + s[Max(T)]
      BY <3>1 DEF Folds
    <3>3. h[T \ {Max(T)}] = g[T \ {Max(T)}]
      BY <2>2
    <3> QED BY <3>1, <3>2, <3>3
  <2> QED BY <2>1, <2>2
<1>2. Folds(h, s, 1 .. k + 1)
  BY <1>1 DEF Folds
<1> QED BY <1>2, Zenon

LEMMA FoldNone ==
  ASSUME NEW s
  PROVE  \E g : Folds(g, s, 1 .. 0)
<1> DEFINE g == [T \in SUBSET (1 .. 0) |-> 0]
<1>1. \A T \in SUBSET (1 .. 0) : T = {}
  OBVIOUS
<1>2. Folds(g, s, 1 .. 0)
  BY <1>1 DEF Folds
<1> QED BY <1>2

LEMMA FoldExists ==
  ASSUME NEW s
  PROVE  /\ \E g : Folds(g, s, 1 .. 2)
         /\ \E g : Folds(g, s, 1 .. 4)
<1>1. \E g : Folds(g, s, 1 .. 1)
  <2>1. PICK g : Folds(g, s, 1 .. 0)
    BY FoldNone
  <2>2. 0 \in Nat /\ 1 = 0 + 1
    OBVIOUS
  <2> QED BY <2>1, <2>2, FoldGrows, Zenon
<1>2. \E g : Folds(g, s, 1 .. 2)
  <2>1. PICK g : Folds(g, s, 1 .. 1)
    BY <1>1
  <2>2. 1 \in Nat /\ 2 = 1 + 1
    OBVIOUS
  <2> QED BY <2>1, <2>2, FoldGrows, Zenon
<1>3. \E g : Folds(g, s, 1 .. 3)
  <2>1. PICK g : Folds(g, s, 1 .. 2)
    BY <1>2
  <2>2. 2 \in Nat /\ 3 = 2 + 1
    OBVIOUS
  <2> QED BY <2>1, <2>2, FoldGrows, Zenon
<1>4. \E g : Folds(g, s, 1 .. 4)
  <2>1. PICK g : Folds(g, s, 1 .. 3)
    BY <1>3
  <2>2. 3 \in Nat /\ 4 = 3 + 1
    OBVIOUS
  <2> QED BY <2>1, <2>2, FoldGrows, Zenon
<1> QED BY <1>2, <1>4

(* One step of the fold: the m-th octet is appended to the number.         *)
Steps(g, s, k, m) == g[1 .. m] = g[1 .. k] * Base + s[m]

LEMMA FoldStep ==
  ASSUME NEW k \in Nat, NEW n \in Nat, NEW m, m = k + 1, m <= n, NEW s, NEW g,
         Folds(g, s, 1 .. n)
  PROVE  Steps(g, s, k, m)
<1>1. 1 .. m \in SUBSET (1 .. n) /\ 1 .. m \in SUBSET (1 .. k + 1) /\ m \in 1 .. m
  OBVIOUS
<1>2. Max(1 .. m) = m
  BY <1>1, MaxIs
<1>3. (1 .. m) \ {m} = 1 .. k
  OBVIOUS
<1>4. g[1 .. m] = g[(1 .. m) \ {Max(1 .. m)}] * Base + s[Max(1 .. m)]
  BY <1>1 DEF Folds
<1> QED BY <1>2, <1>3, <1>4 DEF Steps

LEMMA FoldStart ==
  ASSUME NEW n \in Nat, NEW s, NEW g, Folds(g, s, 1 .. n)
  PROVE  g[1 .. 0] = 0
BY DEF Folds

(* Two octets and four octets, most significant first.                     *)
LEMMA Fold2 ==
  ASSUME NEW s \in Seq(Octet), Len(s) = 2
  PROVE  Folded(s) = s[1] * Base + s[2]
<1>1. DOMAIN s = 1 .. 2 /\ s[1] \in Nat /\ s[2] \in Nat /\ Base \in Nat
  <2>1. DOMAIN s = 1 .. 2 /\ s[1] \in Octet /\ s[2] \in Octet
    OBVIOUS
  <2>2. Octet \subseteq Nat /\ Base \in Nat
    BY BaseAssumption DEF Octet
  <2> QED BY <2>1, <2>2
<1>2. PICK g : g = (CHOOSE h : Folds(h, s, 1 .. 2))
  OBVIOUS
<1>3. Folds(g, s, 1 .. 2) /\ Folded(s) = g[1 .. 2]
  BY <1>1, <1>2, FoldIs, FoldExists
<1>4. g[1 .. 0] = 0
  BY <1>3, FoldStart
<1>5. Steps(g, s, 0, 1)
  <2>1. 0 \in Nat /\ 2 \in Nat /\ 1 = 0 + 1 /\ 1 <= 2
    OBVIOUS
  <2> QED BY <1>3, <2>1, FoldStep, Zenon
<1>6. Steps(g, s, 1, 2)
  <2>1. 1 \in Nat /\ 2 \in Nat /\ 2 = 1 + 1 /\ 2 <= 2
    OBVIOUS
  <2> QED BY <1>3, <2>1, FoldStep, Zenon
<1> QED BY <1>1, <1>3, <1>4, <1>5, <1>6 DEF Steps

LEMMA Fold4 ==
  ASSUME NEW s \in Seq(Octet), Len(s) = 4
  PROVE  Folded(s) = ((s[1] * Base + s[2]) * Base + s[3]) * Base + s[4]
<1>1. /\ DOMAIN s = 1 .. 4 /\ \A i \in 1 .. 4 : s[i] \in Nat
      /\ Base \in Nat
  <2>1. DOMAIN s = 1 .. 4 /\ \A i \in 1 .. 4 : s[i] \in Octet
    OBVIOUS
  <2>2. Octet \subseteq Nat /\ Base \in Nat
    BY BaseAssumption DEF Octet
  <2> QED BY <2>1, <2>2
<1>2. PICK g : g = (CHOOSE h : Folds(h, s, 1 .. 4))
  OBVIOUS
<1>3. Folds(g, s, 1 .. 4) /\ Folded(s) = g[1 .. 4]
  BY <1>1, <1>2, FoldIs, FoldExists
<1>4. g[1 .. 0] = 0
  BY <1>3, FoldStart
<1>5. Steps(g, s, 0, 1)
  <2>1. 0 \in Nat /\ 4 \in Nat /\ 1 = 0 + 1 /\ 1 <= 4
    OBVIOUS
  <2> QED BY <1>3, <2>1, FoldStep, Zenon
<1>6. Steps(g, s, 1, 2)
  <2>1. 1 \in Nat /\ 4 \in Nat /\ 2 = 1 + 1 /\ 2 <= 4
    OBVIOUS
  <2> QED BY <1>3, <2>1, FoldStep, Zenon
<1>7. Steps(g, s, 2, 3)
  <2>1. 2 \in Nat /\ 4 \in Nat /\ 3 = 2 + 1 /\ 3 <= 4
    OBVIOUS
  <2> QED BY <1>3, <2>1, FoldStep, Zenon
<1>8. Steps(g, s, 3, 4)
  <2>1. 3 \in Nat /\ 4 \in Nat /\ 4 = 3 + 1 /\ 4 <= 4
    OBVIOUS
  <2> QED BY <1>3, <2>1, FoldStep, Zenon
<1> QED BY <1>1, <1>3, <1>4, <1>5, <1>6, <1>7, <1>8 DEF Steps

(***************************************************************************)
(* Both byte orders write the most significant octet first and read it     *)
(* first: what the host swaps on the way out it swaps on the way in.       *)
(***************************************************************************)
LEMMA ReverseTwice ==
  ASSUME NEW S, NEW s \in Seq(S)
  PROVE  Reverse(Reverse(s)) = s
<1>1. Reverse(s) \in Seq(S) /\ Len(Reverse(s)) = Len(s)
  BY DEF Reverse
<1> QED BY <1>1 DEF Reverse

LEMMA NumberIsFolded ==
  ASSUME NEW s \in Seq(Octet)
  PROVE  Number(s) = Folded(s)
BY ReverseTwice DEF Number, ByteSwap, FromMemory, Folded

DigitsOf(s, n, w) == s = [i \in 1 .. w |-> (n \div Base ^ (w - i)) % Base]

LEMMA OctetsAre ==
  ASSUME NEW n, NEW w \in Nat
  PROVE  DigitsOf(Octets(n, w), n, w)
<1>1. CASE LittleEndian
  BY <1>1 DEF Octets, ByteSwap, InMemory, Reverse, DigitsOf
<1>2. CASE ~LittleEndian
  BY <1>2 DEF Octets, ByteSwap, InMemory, DigitsOf
<1> QED BY <1>1, <1>2

(***************************************************************************)
(* The digits of a number to the base 256.                                 *)
(***************************************************************************)
LEMMA Powers ==
  ASSUME Base = 256
  PROVE  /\ Base ^ 0 = 1 /\ Base ^ 1 = 256 /\ Base ^ 2 = 65536
         /\ Base ^ 3 = 16777216 /\ Base ^ 4 = 4294967296
BY SMT

LEMMA Digits4 ==
  ASSUME NEW n \in Nat, n < 4294967296
  PROVE  ((((n \div 16777216) % 256) * 256 + ((n \div 65536) % 256)) * 256
           + ((n \div 256) % 256)) * 256 + (n % 256) = n
BY SMT

LEMMA Digits2 ==
  ASSUME NEW n \in Nat, n < 65536
  PROVE  ((n \div 256) % 256) * 256 + (n % 256) = n
BY SMT

LEMMA SequenceOf ==
  ASSUME NEW S, NEW n \in Nat, NEW s \in [1 .. n -> S]
  PROVE  s \in Seq(S) /\ Len(s) = n
OBVIOUS

Digits4Of(s, n) ==
  /\ s \in Seq(Octet) /\ Len(s) = 4
  /\ s[1] = (n \div Base ^ 3) % Base /\ s[2] = (n \div Base ^ 2) % Base
  /\ s[3] = (n \div Base ^ 1) % Base /\ s[4] = (n \div Base ^ 0) % Base

Digits2Of(s, n) ==
  /\ s \in Seq(Octet) /\ Len(s) = 2
  /\ s[1] = (n \div Base ^ 1) % Base /\ s[2] = (n \div Base ^ 0) % Base

LEMMA OctetsAre4 ==
  ASSUME Base = 256, NEW n \in Nat
  PROVE  Digits4Of(Octets(n, 4), n)
<1>1. PICK s : s = Octets(n, 4)
  OBVIOUS
<1>2. s = [i \in 1 .. 4 |-> (n \div Base ^ (4 - i)) % Base]
  <2>1. 4 \in Nat
    OBVIOUS
  <2>2. DigitsOf(Octets(n, 4), n, 4)
    BY <2>1, OctetsAre, Zenon
  <2> QED BY <1>1, <2>2, Zenon DEF DigitsOf
<1>3. /\ DOMAIN s = 1 .. 4
      /\ s[1] = (n \div Base ^ 3) % Base /\ s[2] = (n \div Base ^ 2) % Base
      /\ s[3] = (n \div Base ^ 1) % Base /\ s[4] = (n \div Base ^ 0) % Base
  BY <1>2
<1>4. /\ s[1] = (n \div 16777216) % 256 /\ s[2] = (n \div 65536) % 256
      /\ s[3] = (n \div 256) % 256 /\ s[4] = n % 256
  BY <1>3, Powers, SMT
<1>5. \A i \in 1 .. 4 : s[i] \in Octet
  <2>1. s[1] \in Octet /\ s[2] \in Octet /\ s[3] \in Octet /\ s[4] \in Octet
    BY <1>4, SMT DEF Octet
  <2> QED BY <2>1
<1>6. s \in Seq(Octet) /\ Len(s) = 4
  <2>1. s = [i \in 1 .. 4 |-> s[i]]
    BY <1>2
  <2>2. s \in [1 .. 4 -> Octet] /\ 4 \in Nat
    BY <2>1, <1>5
  <2> QED BY <2>2, SequenceOf, Zenon
<1> QED BY <1>1, <1>3, <1>6, ZenonT(60) DEF Digits4Of

LEMMA OctetsAre2 ==
  ASSUME Base = 256, NEW n \in Nat
  PROVE  Digits2Of(Octets(n, 2), n)
<1>1. PICK s : s = Octets(n, 2)
  OBVIOUS
<1>2. s = [i \in 1 .. 2 |-> (n \div Base ^ (2 - i)) % Base]
  <2>1. 2 \in Nat
    OBVIOUS
  <2>2. DigitsOf(Octets(n, 2), n, 2)
    BY <2>1, OctetsAre, Zenon
  <2> QED BY <1>1, <2>2, Zenon DEF DigitsOf
<1>3. /\ DOMAIN s = 1 .. 2
      /\ s[1] = (n \div Base ^ 1) % Base /\ s[2] = (n \div Base ^ 0) % Base
  BY <1>2
<1>4. s[1] = (n \div 256) % 256 /\ s[2] = n % 256
  BY <1>3, Powers, SMT
<1>5. \A i \in 1 .. 2 : s[i] \in Octet
  <2>1. s[1] \in Octet /\ s[2] \in Octet
    BY <1>4, SMT DEF Octet
  <2> QED BY <2>1
<1>6. s \in Seq(Octet) /\ Len(s) = 2
  <2>1. s = [i \in 1 .. 2 |-> s[i]]
    BY <1>2
  <2>2. s \in [1 .. 2 -> Octet] /\ 2 \in Nat
    BY <2>1, <1>5
  <2> QED BY <2>2, SequenceOf, Zenon
<1> QED BY <1>1, <1>3, <1>6, ZenonT(60) DEF Digits2Of

LEMMA NumberOfOctets4 ==
  ASSUME Base = 256, NEW n \in Nat, n < Base ^ 4
  PROVE  Number(Octets(n, 4)) = n
<1>1. PICK s : s = Octets(n, 4)
  OBVIOUS
<1>2. s \in Seq(Octet) /\ Len(s) = 4
  BY <1>1, OctetsAre4, ZenonT(60) DEF Digits4Of
<1>3. Number(s) = ((s[1] * Base + s[2]) * Base + s[3]) * Base + s[4]
  BY <1>2, Fold4, NumberIsFolded
<1>4. n < 4294967296
  BY Powers, SMT
<1>5. PICK a \in Int : a = (n \div 16777216) % 256
  BY SMT
<1>6. PICK b \in Int : b = (n \div 65536) % 256
  BY SMT
<1>7. PICK c \in Int : c = (n \div 256) % 256
  BY SMT
<1>8. PICK d \in Int : d = n % 256
  BY SMT
<1>9. s[1] = a /\ s[2] = b /\ s[3] = c /\ s[4] = d
  <2>1. /\ s[1] = (n \div Base ^ 3) % Base /\ s[2] = (n \div Base ^ 2) % Base
        /\ s[3] = (n \div Base ^ 1) % Base /\ s[4] = (n \div Base ^ 0) % Base
    <3>1. Digits4Of(s, n)
      BY <1>1, OctetsAre4, Zenon
    <3> QED BY <3>1, Zenon DEF Digits4Of
  <2> QED BY <2>1, <1>5, <1>6, <1>7, <1>8, Powers, SMT
<1>10. ((a * 256 + b) * 256 + c) * 256 + d = n
  BY <1>4, <1>5, <1>6, <1>7, <1>8, Digits4, SMT
<1>11. Number(s) = n
  BY <1>3, <1>9, <1>10, SMT
<1> QED BY <1>1, <1>11, Zenon

LEMMA NumberOfOctets2 ==
  ASSUME Base = 256, NEW n \in Nat, n < Base ^ 2
  PROVE  Number(Octets(n, 2)) = n
<1>1. PICK s : s = Octets(n, 2)
  OBVIOUS
<1>2. s \in Seq(Octet) /\ Len(s) = 2
  BY <1>1, OctetsAre2, ZenonT(60) DEF Digits2Of
<1>3. Number(s) = s[1] * Base + s[2]
  BY <1>2, Fold2, NumberIsFolded
<1>4. n < 65536
  BY Powers, SMT
<1>5. PICK c \in Int : c = (n \div 256) % 256
  BY SMT
<1>6. PICK d \in Int : d = n % 256
  BY SMT
<1>7. s[1] = c /\ s[2] = d
  <2>1. s[1] = (n \div Base ^ 1) % Base /\ s[2] = (n \div Base ^ 0) % Base
    <3>1. Digits2Of(s, n)
      BY <1>1, OctetsAre2, Zenon
    <3> QED BY <3>1, Zenon DEF Digits2Of
  <2> QED BY <2>1, <1>5, <1>6, Powers, SMT
<1>8. c * 256 + d = n
  BY <1>4, <1>5, <1>6, Digits2, SMT
<1>9. Number(s) = n
  BY <1>3, <1>7, <1>8, SMT
<1> QED BY <1>1, <1>9, Zenon

(***************************************************************************)
(* read_uint16 and read_uint32 return what write_uint16 and write_uint32   *)
(* were given, on hosts of either byte order.                              *)
(***************************************************************************)
THEOREM IntegersComeBack ==
  ASSUME Base = 256
  PROVE  /\ \A n \in Nat : n < Base ^ 2 => Number(Octets(n, 2)) = n
         /\ \A n \in Nat : n < Base ^ 4 => Number(Octets(n, 4)) = n
BY NumberOfOctets2, NumberOfOctets4, Zenon

-----------------------------------------------------------------------------
(***************************************************************************)
(* Base is 256 in the code; a payload's length is a uint32_t.              *)
(***************************************************************************)
Sized ==
  /\ Base = 256
  /\ \A p \in Payloads : Len(p) < Base ^ 4

Frames == [type : SentTypes, channel : ChannelNumbers, payload : Payloads]

(* What stands where in the octets of a frame, right or wrong.             *)
LaidOut(o, f, fault) ==
  /\ o \in Seq(Octet) /\ Len(o) = HeaderSize + Len(f.payload)
  /\ o[1] = IF fault = "type" THEN 0 ELSE f.type
  /\ \A j \in 1 .. 2 : o[1 + j] = Octets(f.channel, 2)[j]
  /\ \A j \in 1 .. 4 : o[3 + j] = Octets(Len(f.payload), 4)[j]
  /\ \A j \in 1 .. Len(f.payload) : o[7 + j] = f.payload[j]
  /\ o[Len(o)] = IF fault = "end" THEN 0 ELSE FRAME_END

LEMMA SentFrames ==
  ASSUME Sized, NEW f \in Frames
  PROVE  /\ f.type \in FrameTypes /\ f.type \in Octet /\ f.type # 0
         /\ f.channel \in Nat /\ f.channel < Base ^ 2
         /\ f.payload \in Seq(Octet) /\ Len(f.payload) \in Nat /\ Len(f.payload) < Base ^ 4
         /\ FRAME_END \in Octet /\ FRAME_END # 0 /\ 0 \in Octet
<1>1. f.type \in FrameTypes /\ f.payload \in Seq(Octet) /\ Len(f.payload) < Base ^ 4
  BY FramingAssumption DEF Frames, Sized
<1>2. f.channel \in Nat /\ f.channel < Base ^ 2
  <2>1. PICK m \in Int : m = Base ^ 2
    BY Powers, SMT DEF Sized
  <2>2. f.channel \in 0 .. m - 1
    BY <2>1, FramingAssumption, Zenon DEF Frames
  <2> QED BY <2>1, <2>2
<1>3. f.type \in Octet /\ f.type # 0 /\ FRAME_END \in Octet /\ FRAME_END # 0 /\ 0 \in Octet
  BY <1>1 DEF Sized, FrameTypes, METHOD_TYPE, HEADER_TYPE, BODY_TYPE, HEARTBEAT_TYPE,
              FRAME_END, Octet
<1> QED BY <1>1, <1>2, <1>3

(* x is a followed by b.                                                   *)
Joined(x, S, a, b) ==
  /\ x \in Seq(S) /\ Len(x) = Len(a) + Len(b)
  /\ \A i \in 1 .. Len(a) : x[i] = a[i]
  /\ \A i \in Len(a) + 1 .. Len(x) : x[i] = b[i - Len(a)]

LEMMA Concatenation ==
  ASSUME NEW S, NEW a \in Seq(S), NEW b \in Seq(S)
  PROVE  Joined(a \o b, S, a, b)
BY DEF Joined

LEMMA Single ==
  ASSUME NEW S, NEW x \in S
  PROVE  <<x>> \in Seq(S) /\ Len(<<x>>) = 1 /\ <<x>>[1] = x
OBVIOUS

LEMMA Layout ==
  ASSUME Sized, NEW f \in Frames
  PROVE  LaidOut(GetSequence(f), f, "none")
<1>1. PICK a \in Seq(Octet) : a = <<f.type>> /\ Len(a) = 1 /\ a[1] = f.type
  BY SentFrames, Single, Zenon
<1>2. PICK c \in Seq(Octet) : c = Octets(f.channel, 2) /\ Len(c) = 2
  <2>1. Digits2Of(Octets(f.channel, 2), f.channel)
    BY OctetsAre2, SentFrames DEF Sized
  <2> QED BY <2>1, Zenon DEF Digits2Of
<1>3. PICK d \in Seq(Octet) : d = Octets(Len(f.payload), 4) /\ Len(d) = 4
  <2>1. Digits4Of(Octets(Len(f.payload), 4), Len(f.payload))
    BY OctetsAre4, SentFrames DEF Sized
  <2> QED BY <2>1, Zenon DEF Digits4Of
<1>4. PICK p \in Seq(Octet) : p = f.payload
  BY SentFrames
<1>5. PICK e \in Seq(Octet) : e = <<FRAME_END>> /\ Len(e) = 1 /\ e[1] = FRAME_END
  BY SentFrames, Single, Zenon
<1>6. PICK x : x = a \o c /\ Joined(x, Octet, a, c)
  BY Concatenation, Zenon
<1>7. x \in Seq(Octet) /\ Len(x) = 3 /\ x[1] = a[1] /\ x[2] = c[1] /\ x[3] = c[2]
  <2>1. x \in Seq(Octet) /\ Len(x) = 3
    <3>1. x \in Seq(Octet) /\ Len(x) = Len(a) + Len(c) /\ Len(a) = 1 /\ Len(c) = 2
      BY <1>1, <1>2, <1>6, Zenon DEF Joined
    <3> QED BY <3>1
  <2>2. 1 \in 1 .. Len(a) /\ 2 \in Len(a) + 1 .. Len(x) /\ 3 \in Len(a) + 1 .. Len(x)
    BY <1>1, <2>1
  <2>3. x[1] = a[1] /\ x[2] = c[2 - Len(a)] /\ x[3] = c[3 - Len(a)]
    BY <1>6, <2>2, Zenon DEF Joined
  <2>4. 2 - Len(a) = 1 /\ 3 - Len(a) = 2
    BY <1>1
  <2> QED BY <2>1, <2>3, <2>4
<1>8. PICK y : y = x \o d /\ Joined(y, Octet, x, d)
  BY <1>7, Concatenation, Zenon
<1>9. y \in Seq(Octet) /\ Len(y) = 7 /\ y[1] = x[1] /\ y[2] = x[2] /\ y[3] = x[3]
      /\ y[4] = d[1] /\ y[5] = d[2] /\ y[6] = d[3] /\ y[7] = d[4]
  <2>1. y \in Seq(Octet) /\ Len(y) = 7
    <3>1. y \in Seq(Octet) /\ Len(y) = Len(x) + Len(d) /\ Len(x) = 3 /\ Len(d) = 4
      BY <1>3, <1>7, <1>8, Zenon DEF Joined
    <3> QED BY <3>1
  <2>2. /\ 1 \in 1 .. Len(x) /\ 2 \in 1 .. Len(x) /\ 3 \in 1 .. Len(x)
        /\ 4 \in Len(x) + 1 .. Len(y) /\ 5 \in Len(x) + 1 .. Len(y)
        /\ 6 \in Len(x) + 1 .. Len(y) /\ 7 \in Len(x) + 1 .. Len(y)
    BY <1>7, <2>1
  <2>3. /\ y[1] = x[1] /\ y[2] = x[2] /\ y[3] = x[3]
        /\ y[4] = d[4 - Len(x)] /\ y[5] = d[5 - Len(x)]
        /\ y[6] = d[6 - Len(x)] /\ y[7] = d[7 - Len(x)]
    BY <1>8, <2>2, Zenon DEF Joined
  <2>4. 4 - Len(x) = 1 /\ 5 - Len(x) = 2 /\ 6 - Len(x) = 3 /\ 7 - Len(x) = 4
    BY <1>7
  <2> QED BY <2>1, <2>3, <2>4
<1>10. PICK z : z = y \o p /\ Joined(z, Octet, y, p)
  BY <1>9, Concatenation, Zenon
<1>11. PICK n \in Nat : n = Len(p)
  OBVIOUS
<1>12. z \in Seq(Octet) /\ Len(z) = 7 + n /\ (\A j \in 1 .. 7 : z[j] = y[j])
       /\ \A j \in 8 .. 7 + n : z[j] = p[j - 7]
  <2>1. z \in Seq(Octet) /\ Len(z) = Len(y) + Len(p)
    BY <1>10, Zenon DEF Joined
  <2>2. Len(z) = 7 + n
    BY <1>9, <1>11, <2>1
  <2>3. \A j \in 1 .. Len(y) : z[j] = y[j]
    BY <1>10, Zenon DEF Joined
  <2>4. ASSUME NEW j \in 8 .. 7 + n
        PROVE  z[j] = p[j - 7]
    <3>1. j \in Len(y) + 1 .. Len(z) /\ j - Len(y) = j - 7
      BY <1>9, <2>2
    <3> QED BY <1>10, <3>1, Zenon DEF Joined
  <2> QED BY <1>9, <2>1, <2>2, <2>3, <2>4, Zenon
<1>13. PICK o : o = z \o e /\ Joined(o, Octet, z, e)
  BY <1>12, Concatenation, Zenon
<1>14. o \in Seq(Octet) /\ Len(o) = 8 + n /\ (\A j \in 1 .. 7 : o[j] = y[j])
       /\ (\A j \in 8 .. 7 + n : o[j] = p[j - 7]) /\ o[8 + n] = e[1]
  <2>1. o \in Seq(Octet) /\ Len(o) = Len(z) + Len(e)
    BY <1>13, Zenon DEF Joined
  <2>2. Len(o) = 8 + n
    BY <1>5, <1>12, <2>1
  <2>3. ASSUME NEW j \in 1 .. 7 + n
        PROVE  o[j] = z[j]
    <3>1. j \in 1 .. Len(z)
      BY <1>12
    <3> QED BY <1>13, <3>1, Zenon DEF Joined
  <2>4. o[8 + n] = e[1]
    <3>1. 8 + n \in Len(z) + 1 .. Len(o) /\ (8 + n) - Len(z) = 1
      BY <1>12, <2>2
    <3>2. o[8 + n] = e[(8 + n) - Len(z)]
      BY <1>13, <3>1, Zenon DEF Joined
    <3> QED BY <3>1, <3>2
  <2>5. (\A j \in 1 .. 7 : j \in 1 .. 7 + n) /\ (\A j \in 8 .. 7 + n : j \in 1 .. 7 + n)
    OBVIOUS
  <2> QED BY <1>12, <2>1, <2>2, <2>3, <2>4, <2>5, Zenon
<1>15. GetSequence(f) = o
  BY <1>1, <1>2, <1>3, <1>4, <1>5, <1>6, <1>8, <1>10, <1>13, Zenon DEF GetSequence
<1>16. /\ o[1] = f.type /\ o[2] = c[1] /\ o[3] = c[2]
       /\ o[4] = d[1] /\ o[5] = d[2] /\ o[6] = d[3] /\ o[7] = d[4]
  <2>1. /\ 1 \in 1 .. 7 /\ 2 \in 1 .. 7 /\ 3 \in 1 .. 7 /\ 4 \in 1 .. 7
        /\ 5 \in 1 .. 7 /\ 6 \in 1 .. 7 /\ 7 \in 1 .. 7
    OBVIOUS
  <2> QED BY <1>1, <1>7, <1>9, <1>14, <2>1, Zenon
<1>17. (\A j \in 1 .. 2 : o[1 + j] = c[j]) /\ (\A j \in 1 .. 4 : o[3 + j] = d[j])
  BY <1>16
<1>18. \A j \in 1 .. n : o[7 + j] = p[j]
  BY <1>14
<1> QED BY <1>2, <1>3, <1>4, <1>5, <1>11, <1>14, <1>15, <1>16, <1>17, <1>18
        DEF LaidOut, HeaderSize

LEMMA WireLayout ==
  ASSUME Sized, NEW f \in Frames, NEW fault \in Faults
  PROVE  LaidOut(OnWire(f, fault), f, fault)
<1>1. PICK o : o = GetSequence(f) /\ LaidOut(o, f, "none")
  BY Layout
<1>2. o \in Seq(Octet) /\ Len(o) \in Nat
  <2>1. o \in Seq(Octet)
    BY <1>1, Zenon DEF LaidOut
  <2> QED BY <2>1
<1>3. CASE fault = "none"
  BY <1>1, <1>3 DEF OnWire
<1>4. PICK n \in Nat : n = Len(f.payload)
  BY SentFrames
<1>5. Len(o) = 8 + n
  BY <1>1, <1>4 DEF LaidOut, HeaderSize
<1>6. CASE fault = "type"
  <2>1. PICK w : w = [o EXCEPT ![1] = 0]
    OBVIOUS
  <2>2. w \in Seq(Octet) /\ Len(w) = Len(o) /\ w[1] = 0 /\ \A j \in 2 .. Len(o) : w[j] = o[j]
    BY <1>2, <1>5, <2>1, SentFrames
  <2>3. OnWire(f, fault) = w
    BY <1>1, <1>6, <2>1 DEF OnWire
  <2>4. /\ \A j \in 1 .. 2 : w[1 + j] = o[1 + j]
        /\ \A j \in 1 .. 4 : w[3 + j] = o[3 + j]
        /\ \A j \in 1 .. n : w[7 + j] = o[7 + j]
        /\ w[Len(w)] = o[Len(o)]
    BY <1>5, <2>2
  <2>5. LaidOut(w, f, fault)
    BY <1>1, <1>4, <1>6, <2>2, <2>4 DEF LaidOut
  <2> QED BY <2>3, <2>5
<1>7. CASE fault = "end"
  <2>1. PICK w : w = [o EXCEPT ![Len(o)] = 0]
    OBVIOUS
  <2>2. w \in Seq(Octet) /\ Len(w) = Len(o) /\ w[Len(o)] = 0 /\ \A j \in 1 .. Len(o) - 1 : w[j] = o[j]
    BY <1>2, <1>5, <2>1, SentFrames
  <2>3. OnWire(f, fault) = w
    BY <1>1, <1>7, <2>1 DEF OnWire
  <2>4. /\ w[1] = o[1]
        /\ \A j \in 1 .. 2 : w[1 + j] = o[1 + j]
        /\ \A j \in 1 .. 4 : w[3 + j] = o[3 + j]
        /\ \A j \in 1 .. n : w[7 + j] = o[7 + j]
        /\ w[Len(w)] = 0
    BY <1>5, <2>2
  <2>5. LaidOut(w, f, fault)
    BY <1>1, <1>4, <1>7, <2>2, <2>4 DEF LaidOut
  <2> QED BY <2>3, <2>5
<1> QED BY <1>3, <1>6, <1>7 DEF Faults

-----------------------------------------------------------------------------
(* Octets of the entry e of sent.                                          *)
Octs(e) == OnWire(e.f, e.fault)

Entries == [f : Frames, fault : Faults]

(***************************************************************************)
(* at[k] is where, in the octets s not read yet, the k-th frame ends; the  *)
(* frame after the lo-th begins at start, below 0 when part of it has been *)
(* read.                                                                   *)
(***************************************************************************)
Cuts(at, fs, s, lo, start) ==
  /\ lo \in 0 .. Len(fs)
  /\ at \in [lo .. Len(fs) -> Int]
  /\ at[lo] = start /\ at[Len(fs)] = Len(s)
  /\ \A k \in lo .. Len(fs) : at[k] <= Len(s)
  /\ \A k \in lo + 1 .. Len(fs) :
       /\ at[k] = at[k - 1] + Len(Octs(fs[k]))
       /\ \A j \in 1 .. Len(Octs(fs[k])) :
            at[k - 1] + j >= 1 => s[at[k - 1] + j] = Octs(fs[k])[j]

LEMMA EntryOctets ==
  ASSUME Sized, NEW e \in Entries
  PROVE  Octs(e) \in Seq(Octet) /\ Len(Octs(e)) \in Nat /\ Len(Octs(e)) = 8 + Len(e.f.payload)
<1>1. LaidOut(Octs(e), e.f, e.fault) /\ e.f \in Frames
  BY WireLayout DEF Octs, Entries
<1> QED BY <1>1 DEF LaidOut, HeaderSize

(* Octets read off the front move the cuts; none is crossed unseen.        *)
LEMMA CutsDrop ==
  ASSUME Sized, NEW fs \in Seq(Entries), NEW s \in Seq(Octet), NEW at, NEW lo, NEW start \in Int,
         Cuts(at, fs, s, lo, start), NEW n \in 0 .. Len(s)
  PROVE  \E to : Cuts(to, fs, Drop(s, n), lo, start - n)
<1> DEFINE to == [k \in lo .. Len(fs) |-> at[k] - n]
<1> DEFINE r == Drop(s, n)
<1>1. lo \in 0 .. Len(fs) /\ at \in [lo .. Len(fs) -> Int] /\ at[lo] = start /\ at[Len(fs)] = Len(s)
  BY DEF Cuts
<1>2. r \in Seq(Octet) /\ Len(r) = Len(s) - n /\ \A i \in 1 .. Len(s) - n : r[i] = s[i + n]
  BY DEF Drop
<1>3. to \in [lo .. Len(fs) -> Int] /\ to[lo] = start - n /\ to[Len(fs)] = Len(r)
  BY <1>1, <1>2
<1>4. ASSUME NEW k \in lo .. Len(fs)
      PROVE  to[k] <= Len(r)
  <2>1. at[k] <= Len(s) /\ at[k] \in Int
    BY <1>1 DEF Cuts
  <2> QED BY <2>1, <1>2
<1>5. ASSUME NEW k \in lo + 1 .. Len(fs)
      PROVE  /\ to[k] = to[k - 1] + Len(Octs(fs[k]))
             /\ \A j \in 1 .. Len(Octs(fs[k])) :
                  to[k - 1] + j >= 1 => r[to[k - 1] + j] = Octs(fs[k])[j]
  <2>1. PICK o : o = Octs(fs[k]) /\ o \in Seq(Octet) /\ Len(o) \in Nat
    BY <1>1, EntryOctets
  <2>2. k \in lo .. Len(fs) /\ k - 1 \in lo .. Len(fs) /\ k \in Int
    BY <1>1
  <2>3. PICK a \in Int : a = at[k - 1]
    BY <1>1, <2>2
  <2>4. at[k] = a + Len(o) /\ at[k] <= Len(s)
        /\ \A j \in 1 .. Len(o) : a + j >= 1 => s[a + j] = o[j]
    BY <2>1, <2>2, <2>3, Zenon DEF Cuts
  <2>5. to[k] = at[k] - n /\ to[k - 1] = a - n
    BY <2>2, <2>3
  <2>6. ASSUME NEW j \in 1 .. Len(o), a - n + j >= 1
        PROVE  r[(a - n) + j] = o[j]
    <3>1. a - n + j \in 1 .. Len(s) - n /\ a + j >= 1
      BY <2>1, <2>4, <2>6
    <3>2. r[(a - n) + j] = s[(a - n) + j + n]
      BY <3>1, <1>2
    <3> QED BY <2>4, <3>1, <3>2
  <2>7. to[k] = (a - n) + Len(o)
    BY <2>1, <2>4, <2>5
  <2> HIDE DEF to, r
  <2> QED BY <2>1, <2>5, <2>6, <2>7, Zenon
<1>6. Cuts(to, fs, r, lo, start - n)
  BY <1>1, <1>3, <1>4, <1>5, Zenon DEF Cuts
<1> QED BY <1>6, Zenon

(* A frame sent adds a cut at the end.                                     *)
LEMMA CutsGrow ==
  ASSUME Sized, NEW fs \in Seq(Entries), NEW s \in Seq(Octet), NEW at, NEW lo, NEW start \in Int,
         Cuts(at, fs, s, lo, start), NEW e \in Entries
  PROVE  \E to : Cuts(to, Append(fs, e), s \o Octs(e), lo, start)
<1>1. PICK w : w = Octs(e) /\ w \in Seq(Octet) /\ Len(w) \in Nat
  BY EntryOctets, Zenon
<1>2. PICK m \in Nat : m = Len(fs)
  OBVIOUS
<1>3. PICK n \in Nat : n = Len(s)
  OBVIOUS
<1>4. lo \in 0 .. m /\ at \in [lo .. m -> Int] /\ at[lo] = start /\ at[m] = n
  BY <1>2, <1>3, Zenon DEF Cuts
<1>5. PICK gs : gs = Append(fs, e) /\ Len(gs) = m + 1 /\ gs[m + 1] = e
        /\ \A k \in 1 .. m : gs[k] = fs[k]
  <2>1. /\ Len(Append(fs, e)) = Len(fs) + 1 /\ Append(fs, e)[Len(fs) + 1] = e
        /\ \A k \in 1 .. Len(fs) : Append(fs, e)[k] = fs[k]
    OBVIOUS
  <2> QED BY <1>2, <2>1, Zenon
<1>6. PICK r : r = s \o w /\ Len(r) = n + Len(w) /\ (\A i \in 1 .. n : r[i] = s[i])
        /\ \A i \in n + 1 .. n + Len(w) : r[i] = w[i - n]
  <2>1. Joined(s \o w, Octet, s, w)
    BY <1>1, Concatenation, Zenon
  <2> QED BY <1>3, <2>1, Zenon DEF Joined
<1>7. PICK to : to = [k \in lo .. m + 1 |-> IF k <= m THEN at[k] ELSE n + Len(w)]
  OBVIOUS
<1>8. /\ to \in [lo .. m + 1 -> Int] /\ lo \in 0 .. m + 1
      /\ to[lo] = start /\ to[m + 1] = Len(r)
      /\ \A k \in lo .. m : to[k] = at[k]
  <2>1. \A k \in lo .. m : at[k] \in Int
    BY <1>4
  <2> QED BY <1>1, <1>4, <1>6, <1>7, <2>1
<1>9. ASSUME NEW k \in lo .. m + 1
      PROVE  to[k] <= Len(r)
  <2>1. CASE k = m + 1
    BY <1>1, <1>6, <1>8, <2>1
  <2>2. CASE k \in lo .. m
    <3>1. at[k] <= n /\ at[k] \in Int
      BY <1>2, <1>3, <1>4, <2>2 DEF Cuts
    <3> QED BY <1>1, <1>6, <1>8, <2>2, <3>1
  <2> QED BY <1>4, <2>1, <2>2
<1>10. ASSUME NEW k \in lo + 1 .. m + 1
       PROVE  /\ to[k] = to[k - 1] + Len(Octs(gs[k]))
              /\ \A j \in 1 .. Len(Octs(gs[k])) :
                   to[k - 1] + j >= 1 => r[to[k - 1] + j] = Octs(gs[k])[j]
  <2>1. CASE k = m + 1
    <3>1. to[k - 1] = n /\ Octs(gs[k]) = w /\ to[k] = n + Len(w)
      BY <1>1, <1>4, <1>5, <1>6, <1>8, <2>1
    <3>2. \A j \in 1 .. Len(w) : r[n + j] = w[j]
      BY <1>1, <1>6, SMTT(30)
    <3> QED BY <3>1, <3>2, Zenon
  <2>2. CASE k \in lo + 1 .. m
    <3>1. PICK o : o = Octs(fs[k])
      OBVIOUS
    <3>2. k \in 1 .. m /\ k \in lo .. m /\ k - 1 \in lo .. m
      BY <1>4, <2>2
    <3>3. o \in Seq(Octet) /\ Len(o) \in Nat /\ Octs(gs[k]) = o
      BY <1>2, <1>5, <3>1, <3>2, EntryOctets
    <3>4. PICK a \in Int : a = at[k - 1]
      BY <1>4, <3>2
    <3>5. /\ at[k] = a + Len(o) /\ at[k] <= n
          /\ \A j \in 1 .. Len(o) : a + j >= 1 => s[a + j] = o[j]
      BY <1>2, <1>3, <2>2, <3>1, <3>2, <3>4, Zenon DEF Cuts
    <3>6. to[k] = a + Len(o) /\ to[k - 1] = a
      BY <1>8, <3>2, <3>4, <3>5
    <3>7. ASSUME NEW j \in 1 .. Len(o), a + j >= 1
          PROVE  r[a + j] = o[j]
      <4>1. a + j \in 1 .. n
        BY <3>3, <3>5, <3>7
      <4> QED BY <1>6, <3>5, <3>7, <4>1, Zenon
    <3> QED BY <3>3, <3>6, <3>7, Zenon
  <2> QED BY <1>4, <2>1, <2>2
<1>11. Cuts(to, gs, r, lo, start)
  BY <1>5, <1>8, <1>9, <1>10, Zenon DEF Cuts
<1> QED BY <1>1, <1>5, <1>6, <1>11, Zenon

(* The first frame is done with.                                           *)
LEMMA CutsNext ==
  ASSUME Sized, NEW fs \in Seq(Entries), NEW s \in Seq(Octet), NEW at, NEW lo, NEW start \in Int,
         Cuts(at, fs, s, lo, start), lo < Len(fs)
  PROVE  \E to : Cuts(to, fs, s, lo + 1, start + Len(Octs(fs[lo + 1])))
<1>1. PICK m \in Nat : m = Len(fs)
  OBVIOUS
<1>2. lo \in 0 .. m /\ at \in [lo .. m -> Int] /\ at[lo] = start /\ at[m] = Len(s)
  BY <1>1, Zenon DEF Cuts
<1>3. PICK to : to = [k \in lo + 1 .. m |-> at[k]]
  OBVIOUS
<1>4. \A k \in lo .. m : at[k] \in Int
  BY <1>2
<1>5. lo + 1 \in 0 .. m /\ to \in [lo + 1 .. m -> Int] /\ to[m] = at[m]
      /\ to[lo + 1] = at[lo + 1] /\ \A k \in lo + 1 .. m : to[k] = at[k] /\ k \in lo .. m
  BY <1>1, <1>2, <1>3, <1>4
<1>6. at[lo + 1] = start + Len(Octs(fs[lo + 1]))
  <2>1. lo + 1 \in lo + 1 .. Len(fs) /\ (lo + 1) - 1 = lo
    BY <1>1, <1>2
  <2> QED BY <1>2, <2>1 DEF Cuts
<1>7. ASSUME NEW k \in (lo + 1) + 1 .. m
      PROVE  /\ to[k] = to[k - 1] + Len(Octs(fs[k]))
             /\ \A j \in 1 .. Len(Octs(fs[k])) :
                  to[k - 1] + j >= 1 => s[to[k - 1] + j] = Octs(fs[k])[j]
  <2>1. k \in lo + 1 .. m /\ k - 1 \in lo + 1 .. m
    BY <1>2
  <2>2. to[k] = at[k] /\ to[k - 1] = at[k - 1]
    BY <1>5, <2>1, Zenon
  <2> QED BY <1>1, <2>1, <2>2, Zenon DEF Cuts
<1>8. Cuts(to, fs, s, lo + 1, start + Len(Octs(fs[lo + 1])))
  BY <1>1, <1>2, <1>5, <1>6, <1>7, Zenon DEF Cuts
<1> QED BY <1>8, Zenon

(* All octets of the first frame are there but those already read.         *)
LEMMA CutsFirst ==
  ASSUME Sized, NEW fs \in Seq(Entries), NEW s \in Seq(Octet), NEW at, NEW lo, NEW start \in Int,
         Cuts(at, fs, s, lo, start), lo < Len(fs)
  PROVE  /\ lo + 1 \in 1 .. Len(fs)
         /\ start + Len(Octs(fs[lo + 1])) <= Len(s)
         /\ \A j \in 1 .. Len(Octs(fs[lo + 1])) :
              start + j >= 1 => s[start + j] = Octs(fs[lo + 1])[j]
<1>1. PICK m \in Nat : m = Len(fs)
  OBVIOUS
<1>2. PICK k : k = lo + 1
  OBVIOUS
<1>3. lo \in 0 .. m /\ at[lo] = start
  BY <1>1, Zenon DEF Cuts
<1>4. k \in 1 .. m /\ k \in lo + 1 .. m /\ k \in lo .. m /\ k - 1 = lo
  BY <1>1, <1>2, <1>3
<1>5. at[k] = at[k - 1] + Len(Octs(fs[k])) /\ at[k] <= Len(s)
      /\ \A j \in 1 .. Len(Octs(fs[k])) :
           at[k - 1] + j >= 1 => s[at[k - 1] + j] = Octs(fs[k])[j]
  BY <1>1, <1>4, Zenon DEF Cuts
<1> QED BY <1>1, <1>2, <1>3, <1>4, <1>5, Zenon

-----------------------------------------------------------------------------
LEMMA SameSequence ==
  ASSUME NEW S, NEW a \in Seq(S), NEW b \in Seq(S), Len(a) = Len(b),
         \A i \in 1 .. Len(a) : a[i] = b[i]
  PROVE  a = b
OBVIOUS

(* x is the n elements of s from the a-th on.                              *)
SubOf(x, s, a, n) ==
  Len(x) = n /\ \A i \in 1 .. n : x[i] = s[a + i - 1]

LEMMA SubSequence ==
  ASSUME NEW S, NEW s \in Seq(S), NEW a \in 1 .. Len(s), NEW b \in a .. Len(s)
  PROVE  SubSeq(s, a, b) \in Seq(S) /\ SubOf(SubSeq(s, a, b), s, a, b - a + 1)
BY DEF SubOf

(* What the builder reads in the first eight octets of the frame e.        *)
HeaderOf(h, e) ==
  /\ h[1] = IF e.fault = "type" THEN 0 ELSE e.f.type
  /\ Number(SubSeq(h, 2, 3)) = e.f.channel
  /\ Number(SubSeq(h, 4, 7)) = Len(e.f.payload)
  /\ h[HeaderSize] = IF Len(e.f.payload) > 0 THEN e.f.payload[1]
                     ELSE IF e.fault = "end" THEN 0 ELSE FRAME_END

LEMMA HeaderOfFrame ==
  ASSUME Sized, NEW e \in Entries, NEW h \in Seq(Octet), Len(h) = HeaderSize,
         \A i \in 1 .. HeaderSize : h[i] = Octs(e)[i]
  PROVE  HeaderOf(h, e)
<1>1. e.f \in Frames /\ e.fault \in Faults
  BY DEF Entries
<1>2. PICK o : o = Octs(e) /\ LaidOut(o, e.f, e.fault)
  BY <1>1, WireLayout, Zenon DEF Octs
<1>3. h[1] = o[1] /\ h[2] = o[2] /\ h[3] = o[3] /\ h[4] = o[4] /\ h[5] = o[5]
      /\ h[6] = o[6] /\ h[7] = o[7] /\ h[8] = o[8]
  <2>1. 1 \in 1 .. 8 /\ 2 \in 1 .. 8 /\ 3 \in 1 .. 8 /\ 4 \in 1 .. 8 /\ 5 \in 1 .. 8
        /\ 6 \in 1 .. 8 /\ 7 \in 1 .. 8 /\ 8 \in 1 .. 8
    OBVIOUS
  <2> QED BY <1>2, <2>1, Zenon DEF HeaderSize
<1>4. Number(SubSeq(h, 2, 3)) = e.f.channel
  <2>1. PICK c : c = Octets(e.f.channel, 2) /\ c \in Seq(Octet) /\ Len(c) = 2
    <3>1. Digits2Of(Octets(e.f.channel, 2), e.f.channel)
      BY <1>1, OctetsAre2, SentFrames DEF Sized
    <3> QED BY <3>1, Zenon DEF Digits2Of
  <2>2. PICK x : x = SubSeq(h, 2, 3)
    OBVIOUS
  <2>3. x \in Seq(Octet) /\ Len(x) = 2 /\ x[1] = h[2] /\ x[2] = h[3]
    <3>1. 2 \in 1 .. Len(h) /\ 3 \in 2 .. Len(h) /\ 3 - 2 + 1 = 2 /\ 1 \in 1 .. 2 /\ 2 \in 1 .. 2
          /\ 2 + 1 - 1 = 2 /\ 2 + 2 - 1 = 3
      BY DEF HeaderSize
    <3>2. x \in Seq(Octet) /\ SubOf(x, h, 2, 3 - 2 + 1)
      BY <2>2, <3>1, SubSequence, ZenonT(60)
    <3> QED BY <3>1, <3>2, ZenonT(60) DEF SubOf
  <2>4. o[2] = c[1] /\ o[3] = c[2]
    <3>1. o[1 + 1] = c[1] /\ o[1 + 2] = c[2]
      <4>1. 1 \in 1 .. 2 /\ 2 \in 1 .. 2
        OBVIOUS
      <4> QED BY <1>2, <2>1, <4>1, Zenon DEF LaidOut
    <3> QED BY <3>1
  <2>5. x = c
    <3>1. \A i \in 1 .. 2 : x[i] = c[i]
      BY <1>3, <2>3, <2>4
    <3> QED BY <2>1, <2>3, <3>1, SameSequence, ZenonT(60)
  <2>6. Number(c) = e.f.channel
    BY <1>1, <2>1, NumberOfOctets2, SentFrames, ZenonT(60) DEF Sized
  <2> QED BY <2>2, <2>5, <2>6, Zenon
<1>5. Number(SubSeq(h, 4, 7)) = Len(e.f.payload)
  <2>1. PICK c : c = Octets(Len(e.f.payload), 4) /\ c \in Seq(Octet) /\ Len(c) = 4
    <3>1. Digits4Of(Octets(Len(e.f.payload), 4), Len(e.f.payload))
      BY <1>1, OctetsAre4, SentFrames DEF Sized
    <3> QED BY <3>1, Zenon DEF Digits4Of
  <2>2. PICK x : x = SubSeq(h, 4, 7)
    OBVIOUS
  <2>3. x \in Seq(Octet) /\ Len(x) = 4 /\ x[1] = h[4] /\ x[2] = h[5] /\ x[3] = h[6] /\ x[4] = h[7]
    <3>1. 4 \in 1 .. Len(h) /\ 7 \in 4 .. Len(h) /\ 7 - 4 + 1 = 4
          /\ 1 \in 1 .. 4 /\ 2 \in 1 .. 4 /\ 3 \in 1 .. 4 /\ 4 \in 1 .. 4
          /\ 4 + 1 - 1 = 4 /\ 4 + 2 - 1 = 5 /\ 4 + 3 - 1 = 6 /\ 4 + 4 - 1 = 7
      BY DEF HeaderSize
    <3>2. x \in Seq(Octet) /\ SubOf(x, h, 4, 7 - 4 + 1)
      BY <2>2, <3>1, SubSequence, ZenonT(60)
    <3> QED BY <3>1, <3>2, ZenonT(60) DEF SubOf
  <2>4. o[4] = c[1] /\ o[5] = c[2] /\ o[6] = c[3] /\ o[7] = c[4]
    <3>1. o[3 + 1] = c[1] /\ o[3 + 2] = c[2] /\ o[3 + 3] = c[3] /\ o[3 + 4] = c[4]
      <4>1. 1 \in 1 .. 4 /\ 2 \in 1 .. 4 /\ 3 \in 1 .. 4 /\ 4 \in 1 .. 4
        OBVIOUS
      <4> QED BY <1>2, <2>1, <4>1, Zenon DEF LaidOut
    <3> QED BY <3>1
  <2>5. x = c
    <3>1. \A i \in 1 .. 4 : x[i] = c[i]
      BY <1>3, <2>3, <2>4
    <3>2. Len(x) = Len(c) /\ \A i \in 1 .. Len(x) : x[i] = c[i]
      BY <2>1, <2>3, <3>1, Zenon
    <3> QED BY <2>1, <2>3, <3>2, SameSequence, Zenon
  <2>6. Number(c) = Len(e.f.payload)
    BY <1>1, <2>1, NumberOfOctets4, SentFrames, Zenon DEF Sized
  <2> QED BY <2>2, <2>5, <2>6, Zenon
<1>6. PICK n \in Nat : n = Len(e.f.payload)
  BY <1>1, SentFrames
<1>7. CASE n > 0
  <2>1. 1 \in 1 .. Len(e.f.payload)
    BY <1>6, <1>7
  <2>2. o[7 + 1] = e.f.payload[1]
    BY <1>2, <2>1, Zenon DEF LaidOut
  <2> QED BY <1>2, <1>3, <1>4, <1>5, <1>6, <1>7, <2>2 DEF LaidOut, HeaderOf, HeaderSize
<1>8. CASE n = 0
  <2>1. Len(o) = 8
    BY <1>2, <1>6, <1>8 DEF LaidOut, HeaderSize
  <2> QED BY <1>2, <1>3, <1>4, <1>5, <1>6, <1>8, <2>1 DEF LaidOut, HeaderOf, HeaderSize
<1> QED BY <1>6, <1>7, <1>8

(* What it makes of the rest: the octet read ahead, and all but the last.  *)
LEMMA BodyOfFrame ==
  ASSUME Sized, NEW e \in Entries, NEW body \in Seq(Octet), NEW x \in Seq(Octet),
         Len(e.f.payload) > 0, Len(body) = Len(e.f.payload), body[1] = e.f.payload[1],
         Len(x) = Len(e.f.payload),
         \A i \in 1 .. Len(x) : x[i] = Octs(e)[HeaderSize + i]
  PROVE  /\ <<Head(body)>> \o Front(x) = e.f.payload
         /\ Last(x) = IF e.fault = "end" THEN 0 ELSE FRAME_END
<1>1. e.f \in Frames /\ e.fault \in Faults
  BY DEF Entries
<1>2. PICK o : o = Octs(e) /\ LaidOut(o, e.f, e.fault)
  BY <1>1, WireLayout, Zenon DEF Octs
<1>3. PICK p \in Seq(Octet) : p = e.f.payload
  BY <1>1, SentFrames
<1>4. PICK n \in Nat : n = Len(p) /\ n > 0
  BY <1>3
<1>5. Len(o) = 8 + n /\ \A i \in 1 .. n : o[7 + i] = p[i]
  BY <1>2, <1>3, <1>4 DEF LaidOut, HeaderSize
<1>6. \A i \in 1 .. n : x[i] = o[8 + i]
  BY <1>2, <1>3, <1>4 DEF HeaderSize
<1>7. Last(x) = o[Len(o)]
  <2>1. Last(x) = x[n]
    BY <1>3, <1>4 DEF Last
  <2>2. x[n] = o[8 + n]
    BY <1>4, <1>6
  <2> QED BY <1>5, <2>1, <2>2
<1>8. PICK y : y = Front(x) /\ y \in Seq(Octet) /\ Len(y) = n - 1 /\ \A i \in 1 .. n - 1 : y[i] = x[i]
  <2>1. /\ Front(x) \in Seq(Octet) /\ Len(Front(x)) = n - 1
        /\ \A i \in 1 .. n - 1 : Front(x)[i] = x[i]
    BY <1>3, <1>4 DEF Front
  <2> QED BY <2>1, Zenon
<1>9. PICK a : a = <<Head(body)>> /\ a \in Seq(Octet) /\ Len(a) = 1 /\ a[1] = p[1]
  <2>1. Head(body) = p[1] /\ p[1] \in Octet
    BY <1>3, <1>4
  <2> QED BY <2>1, Single, Zenon
<1>10. PICK z : z = a \o y /\ Joined(z, Octet, a, y)
  BY <1>8, <1>9, Concatenation, Zenon
<1>11. z \in Seq(Octet) /\ Len(z) = n
  <2>1. z \in Seq(Octet) /\ Len(z) = Len(a) + Len(y)
    BY <1>10, Zenon DEF Joined
  <2> QED BY <1>4, <1>8, <1>9, <2>1
<1>12. ASSUME NEW i \in 1 .. n
       PROVE  z[i] = p[i]
  <2>1. CASE i = 1
    <3>1. 1 \in 1 .. Len(a)
      BY <1>9
    <3>2. z[1] = a[1]
      BY <1>10, <3>1, Zenon DEF Joined
    <3> QED BY <1>9, <2>1, <3>2
  <2>2. CASE i # 1
    <3>1. i \in Len(a) + 1 .. Len(z) /\ i - Len(a) = i - 1 /\ i - 1 \in 1 .. n - 1 /\ i - 1 \in 1 .. n
      BY <1>9, <1>11, <2>2
    <3>2. z[i] = y[i - 1]
      BY <1>10, <3>1, Zenon DEF Joined
    <3>3. y[i - 1] = x[i - 1] /\ x[i - 1] = o[8 + (i - 1)]
      BY <1>6, <1>8, <3>1, Zenon
    <3>4. o[7 + i] = p[i] /\ 8 + (i - 1) = 7 + i
      BY <1>5
    <3> QED BY <3>2, <3>3, <3>4, Zenon
  <2> QED BY <2>1, <2>2
<1>13. z = p
  BY <1>4, <1>11, <1>12, SameSequence, Zenon
<1> QED BY <1>2, <1>3, <1>7, <1>8, <1>9, <1>10, <1>13, Zenon DEF LaidOut

-----------------------------------------------------------------------------
Builders ==
  [state   : {"invalid", "valid_header", "valid_both"},
   header  : [1 .. HeaderSize -> Octet],
   type    : FrameTypes \cup {0},
   channel : 0 .. Base ^ 2 - 1,
   body    : Seq(Octet),
   end     : Octet]

(* The header of the frame e has been read, with the first octet of its    *)
(* payload.                                                                *)
Filled(b, e) ==
  /\ b.state = "valid_header" /\ b.type = e.f.type /\ b.channel = e.f.channel
  /\ Len(e.f.payload) > 0
  /\ Len(b.body) = Len(e.f.payload) /\ b.body[1] = e.f.payload[1]

(* The frame e, which has no payload, has been read.                       *)
Complete(b, e) ==
  b.state = "valid_both" /\ CreateFrame(b) = e.f /\ b.body = <<>>

LEMMA ResetBuilder ==
  ASSUME Sized, NEW b \in Builders
  PROVE  Reset(b) \in Builders /\ Reset(b).state = "invalid"
<1>1. 0 \in Octet /\ 0 \in 0 .. Base ^ 2 - 1
  <2>1. PICK m \in Int : m = Base ^ 2 /\ m > 0
    BY Powers, SMT DEF Sized
  <2>2. 0 \in 0 .. m - 1
    BY <2>1
  <2> QED BY <2>1, <2>2 DEF Octet, Sized
<1>2. [i \in 1 .. HeaderSize |-> 0] \in [1 .. HeaderSize -> Octet]
  BY <1>1
<1>3. PICK zeros \in [1 .. HeaderSize -> Octet] : zeros = [i \in 1 .. HeaderSize |-> 0]
  BY <1>2
<1>4. Reset(b) = [b EXCEPT !.state = "invalid", !.header = zeros, !.channel = 0,
                           !.body = <<>>, !.end = 0]
  BY <1>3, Zenon DEF Reset
<1>5. <<>> \in Seq(Octet)
  OBVIOUS
<1> QED BY <1>1, <1>4, <1>5 DEF Builders

(***************************************************************************)
(* validate_header, given the header of the frame e, throws, or waits for  *)
(* the body, or has the frame complete.                                    *)
(***************************************************************************)
LEMMA HeaderStep ==
  ASSUME Sized, NEW e \in Entries, NEW b \in Builders, b.state = "invalid",
         HeaderOf(b.header, e)
  PROVE  \/ ValidateHeader(b).thrown = TRUE /\ e.fault # "none"
         \/ /\ ValidateHeader(b).thrown = FALSE /\ e.fault # "type"
            /\ ValidateHeader(b).builder \in Builders
            /\ Filled(ValidateHeader(b).builder, e)
         \/ /\ ValidateHeader(b).thrown = FALSE /\ e.fault = "none"
            /\ ValidateHeader(b).builder \in Builders
            /\ Complete(ValidateHeader(b).builder, e)
<1>1. e.f \in Frames /\ e.fault \in Faults
  BY DEF Entries
<1>2. PICK p \in Seq(Octet) : p = e.f.payload
  BY <1>1, SentFrames
<1>3. /\ b.header[1] = IF e.fault = "type" THEN 0 ELSE e.f.type
      /\ Number(SubSeq(b.header, 2, 3)) = e.f.channel
      /\ Number(SubSeq(b.header, 4, 7)) = Len(p)
      /\ b.header[HeaderSize] = IF Len(p) > 0 THEN p[1]
                                ELSE IF e.fault = "end" THEN 0 ELSE FRAME_END
  BY <1>2, Zenon DEF HeaderOf
<1>4. e.f.type \in FrameTypes /\ FRAME_END # 0 /\ ~HasFrameType(0)
  BY <1>1, SentFrames DEF HasFrameType, FrameTypes, METHOD_TYPE, HEADER_TYPE, BODY_TYPE, HEARTBEAT_TYPE
<1>5. CASE e.fault = "type"
  <2>1. ValidateHeader(b) = Throws(b)
    BY <1>3, <1>4, <1>5, Zenon DEF ValidateHeader
  <2> QED BY <2>1, <1>5 DEF Throws
<1>6. CASE e.fault # "type"
  <2>1. PICK r : r = [b EXCEPT !.type = e.f.type, !.channel = e.f.channel]
    OBVIOUS
  <2>2. e.f.channel \in 0 .. Base ^ 2 - 1
    BY <1>1, FramingAssumption DEF Frames
  <2>3. r \in Builders /\ r.state = "invalid" /\ r.type = e.f.type /\ r.channel = e.f.channel
    BY <1>4, <2>1, <2>2, Zenon DEF Builders
  <2>4. HasFrameType(b.header[1]) /\ b.header[1] = e.f.type
    BY <1>3, <1>4, <1>6 DEF HasFrameType
  <2>5. ValidateHeader(b) =
          IF Len(p) > 0
          THEN Returns([r EXCEPT !.state = "valid_header",
                                 !.body  = <<b.header[HeaderSize]>> \o [i \in 1 .. Len(p) - 1 |-> 0]])
          ELSE IF b.header[HeaderSize] # FRAME_END THEN Throws(r)
          ELSE Returns([r EXCEPT !.state = "valid_both", !.body = <<>>])
    BY <1>3, <2>1, <2>4, Zenon DEF ValidateHeader
  <2>6. CASE Len(p) > 0
    <3>1. PICK a \in Seq(Octet) : a = <<b.header[HeaderSize]>> /\ Len(a) = 1 /\ a[1] = p[1]
      <4>1. b.header[HeaderSize] = p[1] /\ p[1] \in Octet
        BY <1>3, <2>6
      <4> QED BY <4>1, Single, Zenon
    <3>2. PICK z \in Seq(Octet) : z = [i \in 1 .. Len(p) - 1 |-> 0] /\ Len(z) = Len(p) - 1
      <4>1. 0 \in Octet /\ Len(p) - 1 \in Nat
        BY <1>1, <2>6, SentFrames
      <4>2. [i \in 1 .. Len(p) - 1 |-> 0] \in [1 .. Len(p) - 1 -> Octet]
        BY <4>1
      <4> QED BY <4>1, <4>2, SequenceOf, ZenonT(60)
    <3>3. PICK y : y = a \o z /\ Joined(y, Octet, a, z)
      BY Concatenation, Zenon
    <3>4. y \in Seq(Octet) /\ Len(y) = Len(p) /\ y[1] = p[1]
      <4>1. y \in Seq(Octet) /\ Len(y) = Len(a) + Len(z)
        BY <3>3, Zenon DEF Joined
      <4>2. 1 \in 1 .. Len(a)
        BY <3>1
      <4>3. y[1] = a[1]
        BY <3>3, <4>2, Zenon DEF Joined
      <4>4. Len(y) = Len(p)
        BY <3>1, <3>2, <4>1
      <4> QED BY <3>1, <4>1, <4>3, <4>4, Zenon
    <3>5. PICK v : v = [r EXCEPT !.state = "valid_header", !.body = y]
      OBVIOUS
    <3>6. v \in Builders /\ v.state = "valid_header" /\ v.type = r.type /\ v.channel = r.channel
          /\ v.body = y
      BY <2>3, <3>4, <3>5, Zenon DEF Builders
    <3>7. ValidateHeader(b) = Returns(v)
      BY <2>5, <2>6, <3>1, <3>2, <3>3, <3>5, Zenon
    <3>8. Filled(v, e)
      BY <1>2, <2>3, <2>6, <3>4, <3>6, Zenon DEF Filled
    <3>9. Returns(v).thrown = FALSE /\ Returns(v).builder = v
      BY DEF Returns
    <3> QED BY <1>6, <3>6, <3>7, <3>8, <3>9, Zenon
  <2>7. CASE ~(Len(p) > 0)
    <3>1. CASE e.fault = "end"
      <4>1. ValidateHeader(b) = Throws(r)
        BY <1>3, <1>4, <2>5, <2>7, <3>1, Zenon
      <4> QED BY <3>1, <4>1 DEF Throws
    <3>2. CASE e.fault = "none"
      <4>1. PICK v : v = [r EXCEPT !.state = "valid_both", !.body = <<>>]
        OBVIOUS
      <4>2. <<>> \in Seq(Octet)
        OBVIOUS
      <4>3. v \in Builders /\ v.state = "valid_both" /\ v.type = r.type /\ v.channel = r.channel
            /\ v.body = <<>>
        BY <2>3, <4>1, <4>2, Zenon DEF Builders
      <4>4. ValidateHeader(b) = Returns(v)
        BY <1>3, <2>5, <2>7, <3>2, <4>1 
      <4>5. p = <<>>
        BY <2>7
      <4>6. CreateFrame(v) = e.f
        BY <1>1, <1>2, <2>3, <4>3, <4>5 DEF CreateFrame, Frames
      <4>7. Complete(v, e)
        BY <4>3, <4>6, Zenon DEF Complete
      <4>8. Returns(v).thrown = FALSE /\ Returns(v).builder = v
        BY DEF Returns
      <4> QED BY <3>2, <4>3, <4>4, <4>7, <4>8, Zenon
    <3> QED BY <1>1, <1>6, <3>1, <3>2 DEF Faults
  <2> QED BY <2>6, <2>7
<1> QED BY <1>5, <1>6

-----------------------------------------------------------------------------
(***************************************************************************)
(* The invariant: the builder is empty or holds what has been read of the  *)
(* next frame, and the octets not read yet are cut where the frames sent   *)
(* end.  While a body is awaited, eight octets of its frame are gone.      *)
(***************************************************************************)
BuilderFits ==
  /\ want = "header" => builder.state = "invalid"
  /\ want = "body" => /\ Len(got) < Len(sent) /\ sent[Len(got) + 1].fault # "type"
                      /\ Filled(builder, sent[Len(got) + 1])

Start == IF want = "header" THEN 0 ELSE -HeaderSize

StreamHolds ==
  want # "dead" => \E at : Cuts(at, sent, wire \o unsent, Len(got), Start)

FramingInv == TypeOK /\ Faithful /\ ThrowsOnlyAtFault /\ BuilderFits /\ StreamHolds

GotFrames == [type : FrameTypes, channel : 0 .. Base ^ 2 - 1, payload : Seq(Octet)]

LEMMA Types ==
  /\ TypeOK <=> /\ sent \in Seq(Entries) /\ unsent \in Seq(Octet) /\ wire \in Seq(Octet)
                /\ builder \in Builders /\ want \in {"header", "body", "dead"}
                /\ got \in Seq(GotFrames)
  /\ TypeOK' <=> /\ sent' \in Seq(Entries) /\ unsent' \in Seq(Octet) /\ wire' \in Seq(Octet)
                 /\ builder' \in Builders /\ want' \in {"header", "body", "dead"}
                 /\ got' \in Seq(GotFrames)
BY Zenon DEF TypeOK, Entries, Frames, Builders, GotFrames

LEMMA Start1 ==
  /\ want = "header" => Start = 0
  /\ want = "body" => Start = -8
  /\ want' = "header" => Start' = 0
  /\ want' = "body" => Start' = -8
BY DEF Start, HeaderSize

LEMMA FramingInit ==
  ASSUME Sized, Init
  PROVE  FramingInv
<1>1. 0 \in Octet /\ 0 \in 0 .. Base ^ 2 - 1
  <2>1. PICK m \in Int : m = Base ^ 2 /\ m > 0
    BY Powers, SMT DEF Sized
  <2>2. 0 \in 0 .. m - 1
    BY <2>1
  <2> QED BY <2>1, <2>2 DEF Octet, Sized
<1>2. builder \in Builders /\ builder.state = "invalid"
  <2>1. PICK zeros \in [1 .. HeaderSize -> Octet] : zeros = [i \in 1 .. HeaderSize |-> 0]
    BY <1>1
  <2>2. builder = [state |-> "invalid", header |-> zeros, type |-> 0, channel |-> 0,
                   body |-> <<>>, end |-> 0]
    BY <2>1 DEF Init, Reset
  <2>3. <<>> \in Seq(Octet)
    OBVIOUS
  <2> QED BY <1>1, <2>2, <2>3 DEF Builders
<1>3. TypeOK
  <2>1. <<>> \in Seq(Entries) /\ <<>> \in Seq(Octet) /\ <<>> \in Seq(GotFrames)
    OBVIOUS
  <2> QED BY <1>2, <2>1, Types, Zenon DEF Init
<1>4. Faithful /\ ThrowsOnlyAtFault /\ BuilderFits
  BY <1>2 DEF Init, Faithful, Sound, ThrowsOnlyAtFault, BuilderFits
<1>5. StreamHolds
  <2>1. PICK at : at = [k \in 0 .. 0 |-> 0]
    OBVIOUS
  <2>2. wire \o unsent = <<>> /\ sent = <<>> /\ Len(got) = 0 /\ Start = 0
    BY DEF Init, Start
  <2>3. Cuts(at, <<>>, <<>>, 0, 0)
    BY <2>1 DEF Cuts
  <2> QED BY <2>2, <2>3, Zenon DEF StreamHolds
<1> QED BY <1>3, <1>4, <1>5 DEF FramingInv

LEMMA TakeDrop ==
  ASSUME NEW S, NEW a \in Seq(S), NEW n \in 0 .. Len(a)
  PROVE  /\ Take(a, n) \in Seq(S) /\ Len(Take(a, n)) = n /\ \A i \in 1 .. n : Take(a, n)[i] = a[i]
         /\ Drop(a, n) \in Seq(S) /\ Len(Drop(a, n)) = Len(a) - n
         /\ \A i \in 1 .. Len(a) - n : Drop(a, n)[i] = a[n + i]
         /\ Take(a, n) \o Drop(a, n) = a
<1>1. PICK x : x = Take(a, n)
  OBVIOUS
<1>2. PICK y : y = Drop(a, n)
  OBVIOUS
<1>3. x \in Seq(S) /\ Len(x) = n /\ \A i \in 1 .. n : x[i] = a[i]
  BY <1>1 DEF Take
<1>4. y \in Seq(S) /\ Len(y) = Len(a) - n /\ \A i \in 1 .. Len(a) - n : y[i] = a[n + i]
  BY <1>2 DEF Drop
<1>5. PICK z : z = x \o y /\ Joined(z, S, x, y)
  BY <1>3, <1>4, Concatenation, Zenon
<1>6. PICK m \in Nat : m = Len(a)
  OBVIOUS
<1>7. z \in Seq(S) /\ Len(z) = m
  <2>1. z \in Seq(S) /\ Len(z) = Len(x) + Len(y)
    BY <1>5, Zenon DEF Joined
  <2> QED BY <1>3, <1>4, <1>6, <2>1
<1>8. ASSUME NEW i \in 1 .. m
      PROVE  z[i] = a[i]
  <2>1. CASE i \in 1 .. n
    BY <1>3, <1>5, <2>1, Zenon DEF Joined
  <2>2. CASE i \notin 1 .. n
    <3>1. i \in Len(x) + 1 .. Len(z) /\ i - Len(x) \in 1 .. Len(a) - n /\ n + (i - Len(x)) = i
      BY <1>3, <1>6, <1>7, <2>2
    <3>2. z[i] = y[i - Len(x)]
      BY <1>5, <3>1, Zenon DEF Joined
    <3>3. y[i - Len(x)] = a[n + (i - Len(x))]
      BY <1>4, <3>1, Zenon
    <3> QED BY <3>1, <3>2, <3>3, Zenon
  <2> QED BY <2>1, <2>2
<1>9. z = a
  BY <1>6, <1>7, <1>8, SameSequence, Zenon
<1> QED BY <1>1, <1>2, <1>3, <1>4, <1>5, <1>9, Zenon

LEMMA DropFirst ==
  ASSUME NEW S, NEW a \in Seq(S), NEW b \in Seq(S), NEW n \in 0 .. Len(a)
  PROVE  Drop(a, n) \o b = Drop(a \o b, n) /\ n \in 0 .. Len(a \o b)
<1>1. PICK x : x = Take(a, n) /\ x \in Seq(S) /\ Len(x) = n
  BY TakeDrop, ZenonT(60)
<1>2. PICK y : y = Drop(a, n) /\ y \in Seq(S) /\ x \o y = a
  BY <1>1, TakeDrop, Zenon
<1>3. a \o b \in Seq(S) /\ Len(a \o b) = Len(a) + Len(b)
  OBVIOUS
<1>4. n \in 0 .. Len(a \o b)
  BY <1>3
<1>5. PICK u : u = Drop(a \o b, n) /\ u \in Seq(S) /\ Len(u) = (Len(a) + Len(b)) - n
        /\ \A i \in 1 .. (Len(a) + Len(b)) - n : u[i] = (a \o b)[n + i]
  <2>1. PICK w \in Seq(S) : w = a \o b
    BY <1>3
  <2>2. /\ Drop(w, n) \in Seq(S) /\ Len(Drop(w, n)) = Len(w) - n
        /\ \A i \in 1 .. Len(w) - n : Drop(w, n)[i] = w[n + i]
    BY <1>4, <2>1, TakeDrop, Zenon
  <2> QED BY <1>3, <2>1, <2>2, Zenon
<1>6. PICK v : v = y \o b /\ Joined(v, S, y, b)
  BY <1>2, Concatenation, Zenon
<1>7. Len(y) = Len(a) - n /\ \A i \in 1 .. Len(a) - n : y[i] = a[n + i]
  BY <1>2, TakeDrop, Zenon
<1>8. v \in Seq(S) /\ Len(v) = Len(u)
  <2>1. v \in Seq(S) /\ Len(v) = Len(y) + Len(b)
    BY <1>6, Zenon DEF Joined
  <2> QED BY <1>5, <1>7, <2>1
<1>9. PICK w : w = a \o b /\ Joined(w, S, a, b)
  BY Concatenation, Zenon
<1>10. ASSUME NEW i \in 1 .. Len(u)
       PROVE  u[i] = v[i]
  <2>1. u[i] = w[n + i]
    BY <1>5, <1>9, <1>10, Zenon
  <2>2. CASE i \in 1 .. Len(y)
    <3>1. v[i] = y[i] /\ y[i] = a[n + i]
      BY <1>6, <1>7, <2>2, Zenon DEF Joined
    <3>2. n + i \in 1 .. Len(a)
      BY <1>7, <2>2
    <3>3. w[n + i] = a[n + i]
      BY <1>9, <3>2, Zenon DEF Joined
    <3> QED BY <2>1, <3>1, <3>3
  <2>3. CASE i \notin 1 .. Len(y)
    <3>1. /\ i \in Len(y) + 1 .. Len(v) /\ n + i \in Len(a) + 1 .. Len(w)
          /\ (n + i) - Len(a) = i - Len(y)
      BY <1>3, <1>5, <1>7, <1>8, <1>9, <2>3
    <3>2. v[i] = b[i - Len(y)] /\ w[n + i] = b[(n + i) - Len(a)]
      BY <1>6, <1>9, <3>1, Zenon DEF Joined
    <3> QED BY <2>1, <3>1, <3>2, Zenon
  <2> QED BY <2>2, <2>3
<1>11. u = v
  BY <1>5, <1>8, <1>10, SameSequence, Zenon
<1> QED BY <1>2, <1>4, <1>5, <1>6, <1>11, Zenon

(* What a longer history leaves true of the frames it had.                 *)
LEMMA SentGrows ==
  ASSUME NEW e \in Entries, TypeOK, sent' = Append(sent, e)
  PROVE  /\ sent' \in Seq(Entries) /\ Len(sent') = Len(sent) + 1
         /\ \A i \in 1 .. Len(sent) : sent'[i] = sent[i]
<1>1. sent \in Seq(Entries)
  BY Types, Zenon
<1> QED BY <1>1

LEMMA PeerSendsKeeps ==
  ASSUME Sized, FramingInv, PeerSends
  PROVE  FramingInv'
<1>1. sent \in Seq(Entries) /\ unsent \in Seq(Octet) /\ wire \in Seq(Octet) /\ TypeOK
      /\ got \in Seq(GotFrames)
  BY Types, Zenon DEF FramingInv
<1>2. PICK e \in Entries : sent' = Append(sent, e) /\ unsent' = unsent \o Octs(e)
  <2>1. PICK t \in SentTypes, c \in ChannelNumbers, p \in Payloads, fault \in Faults :
          LET f == [type |-> t, channel |-> c, payload |-> p]
          IN  sent' = Append(sent, [f |-> f, fault |-> fault]) /\ unsent' = unsent \o OnWire(f, fault)
    BY Zenon DEF PeerSends
  <2>2. PICK f : f = [type |-> t, channel |-> c, payload |-> p]
    OBVIOUS
  <2>3. PICK e : e = [f |-> f, fault |-> fault]
    OBVIOUS
  <2>4. f \in Frames
    BY <2>2 DEF Frames
  <2>5. e \in Entries /\ e.f = f /\ e.fault = fault
    BY <2>3, <2>4 DEF Entries
  <2> QED BY <2>1, <2>2, <2>3, <2>5, Zenon DEF Octs
<1>3. wire' = wire /\ builder' = builder /\ want' = want /\ got' = got
  BY Zenon DEF PeerSends
<1>4. /\ sent' \in Seq(Entries) /\ Len(sent') = Len(sent) + 1
      /\ \A i \in 1 .. Len(sent) : sent'[i] = sent[i]
  BY <1>1, <1>2, SentGrows, Zenon
<1>5. Octs(e) \in Seq(Octet)
  BY EntryOctets, Zenon
<1>6. TypeOK'
  <2>1. unsent' \in Seq(Octet)
    BY <1>1, <1>2, <1>5
  <2> QED BY <1>1, <1>3, <1>4, <2>1, Types, Zenon
<1>7. Len(got) \in Nat /\ Len(sent) \in Nat /\ Len(got) <= Len(sent)
  BY <1>1 DEF FramingInv, Faithful, Sound
<1>8. Faithful'
  <2>1. DOMAIN got = 1 .. Len(got) /\ \A i \in 1 .. Len(got) : i \in 1 .. Len(sent)
    BY <1>1, <1>7
  <2>2. \A i \in 1 .. Len(got) : sent[i].fault = "none" /\ got[i] = sent[i].f
    BY <2>1, Zenon DEF FramingInv, Faithful, Sound
  <2>3. Len(got) <= Len(sent')
    BY <1>4, <1>7
  <2> QED BY <1>3, <1>4, <2>1, <2>2, <2>3, Zenon DEF Faithful, Sound
<1>9. ASSUME Len(got) < Len(sent)
      PROVE  Len(got) < Len(sent') /\ sent'[Len(got) + 1] = sent[Len(got) + 1]
  BY <1>4, <1>7, <1>9
<1>10. ThrowsOnlyAtFault'
  BY <1>3, <1>9, Zenon DEF FramingInv, ThrowsOnlyAtFault
<1>11. BuilderFits'
  BY <1>3, <1>9, Zenon DEF FramingInv, BuilderFits
<1>12. StreamHolds'
  <2>1. SUFFICES ASSUME want # "dead"
                 PROVE  \E to : Cuts(to, sent', wire' \o unsent', Len(got'), Start')
    BY <1>3, Zenon DEF StreamHolds
  <2>2. Start' = Start /\ Start \in Int
    BY <1>3 DEF Start, HeaderSize
  <2>3. PICK at : Cuts(at, sent, wire \o unsent, Len(got), Start)
    BY <2>1, Zenon DEF FramingInv, StreamHolds
  <2>4. wire' \o unsent' = (wire \o unsent) \o Octs(e)
    <3>1. wire \o (unsent \o Octs(e)) = (wire \o unsent) \o Octs(e)
      BY <1>1, <1>5
    <3> QED BY <1>2, <1>3, <3>1, Zenon
  <2>5. wire \o unsent \in Seq(Octet)
    BY <1>1
  <2>6. PICK st \in Int : st = Start
    BY <2>2
  <2>7. \E to : Cuts(to, Append(sent, e), (wire \o unsent) \o Octs(e), Len(got), st)
    BY <1>1, <2>3, <2>5, <2>6, CutsGrow, Zenon
  <2> QED BY <1>2, <1>3, <2>2, <2>4, <2>6, <2>7, Zenon
<1> QED BY <1>6, <1>8, <1>10, <1>11, <1>12 DEF FramingInv

LEMMA OctetsArriveKeeps ==
  ASSUME Sized, FramingInv, OctetsArrive
  PROVE  FramingInv'
<1>1. sent \in Seq(Entries) /\ unsent \in Seq(Octet) /\ wire \in Seq(Octet) /\ TypeOK
  BY Types, Zenon DEF FramingInv
<1>2. PICK n \in 1 .. Len(unsent) : wire' = wire \o Take(unsent, n) /\ unsent' = Drop(unsent, n)
  BY Zenon DEF OctetsArrive
<1>3. sent' = sent /\ builder' = builder /\ want' = want /\ got' = got
  BY Zenon DEF OctetsArrive
<1>4. n \in 0 .. Len(unsent)
  BY <1>1
<1>5. Take(unsent, n) \in Seq(Octet) /\ Drop(unsent, n) \in Seq(Octet)
      /\ Take(unsent, n) \o Drop(unsent, n) = unsent
  BY <1>1, <1>4, TakeDrop, Zenon
<1>6. TypeOK'
  <2>1. wire' \in Seq(Octet)
    BY <1>1, <1>2, <1>5
  <2> QED BY <1>1, <1>2, <1>3, <1>5, <2>1, Types, Zenon
<1>7. wire' \o unsent' = wire \o unsent
  <2>1. PICK x \in Seq(Octet), y \in Seq(Octet) : x = Take(unsent, n) /\ y = Drop(unsent, n)
    BY <1>5, Zenon
  <2>2. wire \o (x \o y) = (wire \o x) \o y
    BY <1>1, SMTT(30)
  <2> QED BY <1>2, <1>5, <2>1, <2>2, Zenon
<1>8. Start' = Start
  BY <1>3 DEF Start
<1>9. Faithful' /\ ThrowsOnlyAtFault' /\ BuilderFits'
  BY <1>3, Zenon DEF FramingInv, Faithful, Sound, ThrowsOnlyAtFault, BuilderFits
<1>10. StreamHolds'
  BY <1>3, <1>7, <1>8, Zenon DEF FramingInv, StreamHolds
<1> QED BY <1>6, <1>9, <1>10 DEF FramingInv

(* The frame e is delivered, or found out.                                 *)
LEMMA DeliverKeeps ==
  ASSUME Sized, TypeOK, Faithful, Len(got) < Len(sent),
         NEW e, e = sent[Len(got) + 1], NEW b \in Builders, Deliver(b),
         BodyIsValid(b) => e.fault = "none" /\ CreateFrame(b) = e.f,
         ~BodyIsValid(b) => e.fault # "none",
         sent' = sent, wire' \in Seq(Octet), unsent' \in Seq(Octet),
         \E to : Cuts(to, sent, wire' \o unsent', Len(got) + 1, 0)
  PROVE  FramingInv'
<1>1. sent \in Seq(Entries) /\ got \in Seq(GotFrames) /\ builder \in Builders
  BY Types, Zenon
<1>2. PICK n \in Nat : n = Len(got)
  BY <1>1
<1>3. n + 1 \in 1 .. Len(sent) /\ e \in Entries
  BY <1>1, <1>2
<1>4. CASE ~BodyIsValid(b)
  <2>1. want' = "dead" /\ builder' = builder /\ got' = got
    BY <1>4, Zenon DEF Deliver, Dies
  <2>2. TypeOK'
    BY <1>1, <2>1, Types, Zenon
  <2>3. Faithful'
    BY <2>1, Zenon DEF Faithful, Sound
  <2>4. ThrowsOnlyAtFault'
    BY <1>4, <2>1, Zenon DEF ThrowsOnlyAtFault
  <2>5. BuilderFits' /\ StreamHolds'
    BY <2>1 DEF BuilderFits, StreamHolds
  <2> QED BY <2>2, <2>3, <2>4, <2>5 DEF FramingInv
<1>5. CASE BodyIsValid(b)
  <2>1. /\ got' = Append(got, e.f) /\ builder' = Reset(b) /\ want' = "header"
        /\ e.fault = "none"
    BY <1>5, Zenon DEF Deliver
  <2>2. e.f \in GotFrames
    <3>1. e.f \in Frames
      BY <1>3 DEF Entries
    <3> QED BY <3>1, FramingAssumption DEF Frames, GotFrames
  <2>3. /\ got' \in Seq(GotFrames) /\ Len(got') = n + 1 /\ DOMAIN got' = 1 .. n + 1
        /\ got'[n + 1] = e.f /\ DOMAIN got = 1 .. n /\ \A i \in 1 .. n : got'[i] = got[i]
    BY <1>1, <1>2, <2>1, <2>2
  <2>4. Reset(b) \in Builders /\ Reset(b).state = "invalid"
    BY ResetBuilder
  <2>5. TypeOK'
    BY <1>1, <2>1, <2>3, <2>4, Types, Zenon
  <2>6. Faithful'
    <3>1. ASSUME NEW i \in 1 .. n + 1
          PROVE  sent[i].fault = "none" /\ got'[i] = sent[i].f
      <4>1. CASE i \in 1 .. n
        BY <1>2, <2>3, <4>1, Zenon DEF Faithful, Sound
      <4>2. CASE i = n + 1
        BY <1>2, <2>1, <2>3, <4>2, Zenon
      <4> QED BY <4>1, <4>2
    <3>2. n + 1 <= Len(sent)
      BY <1>3
    <3> QED BY <2>3, <3>1, <3>2, Zenon DEF Faithful, Sound
  <2>7. ThrowsOnlyAtFault' /\ BuilderFits'
    BY <2>1, <2>4 DEF ThrowsOnlyAtFault, BuilderFits
  <2>8. StreamHolds'
    <3>1. Start' = 0
      BY <2>1, Start1, Zenon
    <3> QED BY <1>2, <2>3, <3>1, Zenon DEF StreamHolds
  <2> QED BY <2>5, <2>6, <2>7, <2>8 DEF FramingInv
<1> QED BY <1>4, <1>5

LEMMA HeaderReadKeeps ==
  ASSUME Sized, FramingInv, OnFrameHeaderRead
  PROVE  FramingInv'
<1>1. sent \in Seq(Entries) /\ unsent \in Seq(Octet) /\ wire \in Seq(Octet) /\ TypeOK
      /\ got \in Seq(GotFrames) /\ builder \in Builders /\ Faithful /\ BuilderFits
  BY Types, Zenon DEF FramingInv
<1>2. /\ want = "header" /\ Len(wire) >= HeaderSize /\ wire' = Drop(wire, HeaderSize)
      /\ sent' = sent /\ unsent' = unsent
  BY Zenon DEF OnFrameHeaderRead
<1>3. PICK n \in Nat : n = Len(got)
  BY <1>1
<1>4. PICK s \in Seq(Octet) : s = wire \o unsent /\ Joined(s, Octet, wire, unsent)
  <2>1. wire \o unsent \in Seq(Octet)
    BY <1>1
  <2> QED BY <1>1, <2>1, Concatenation, Zenon
<1>5. PICK at : Cuts(at, sent, s, n, 0)
  <2>1. Start = 0
    BY <1>2, Start1, Zenon
  <2>2. want # "dead"
    BY <1>2
  <2> QED BY <1>3, <1>4, <2>1, <2>2, Zenon DEF FramingInv, StreamHolds
<1>6. Len(wire) \in Nat /\ Len(wire) >= 8 /\ 8 \in 0 .. Len(wire) /\ Len(s) >= Len(wire) /\ Len(s) \in Nat
  <2>1. Len(s) = Len(wire) + Len(unsent)
    BY <1>4, Zenon DEF Joined
  <2> QED BY <1>1, <1>2, <2>1 DEF HeaderSize
<1>7. n < Len(sent)
  <2>1. n \in 0 .. Len(sent) /\ at[n] = 0 /\ at[Len(sent)] = Len(s)
    BY <1>5, Zenon DEF Cuts
  <2>2. n # Len(sent)
    BY <1>6, <2>1
  <2> QED BY <1>1, <2>1, <2>2
<1>8. PICK e \in Entries : e = sent[n + 1]
  BY <1>1, <1>7
<1>9. PICK o \in Seq(Octet) : o = Octs(e) /\ Len(o) = 8 + Len(e.f.payload)
  BY EntryOctets, Zenon
<1>10. PICK p \in Seq(Octet) : p = e.f.payload
  <2>1. e.f \in Frames
    BY DEF Entries
  <2> QED BY <2>1, SentFrames
<1>11. \A j \in 1 .. Len(o) : 0 + j >= 1 => s[0 + j] = o[j]
  <2>1. 0 \in Int
    OBVIOUS
  <2>2. \A j \in 1 .. Len(Octs(sent[n + 1])) : 0 + j >= 1 => s[0 + j] = Octs(sent[n + 1])[j]
    BY <1>1, <1>5, <1>7, <2>1, CutsFirst, SMTT(60)
  <2> QED BY <1>8, <1>9, <2>2, Zenon
<1>12. PICK h : h = Take(wire, HeaderSize) /\ h \in Seq(Octet) /\ Len(h) = 8
         /\ \A i \in 1 .. 8 : h[i] = wire[i]
  <2>1. 8 \in 0 .. Len(wire)
    BY <1>6
  <2>2. /\ Take(wire, 8) \in Seq(Octet) /\ Len(Take(wire, 8)) = 8
        /\ \A i \in 1 .. 8 : Take(wire, 8)[i] = wire[i]
    BY <1>1, <2>1, TakeDrop, ZenonT(60)
  <2> QED BY <2>2, Zenon DEF HeaderSize
<1>13. ASSUME NEW i \in 1 .. 8
       PROVE  h[i] = o[i]
  <2>1. i \in 1 .. Len(wire) /\ i \in 1 .. Len(o) /\ 0 + i = i /\ i >= 1
    BY <1>6, <1>9, <1>10
  <2>2. s[i] = wire[i]
    BY <1>4, <2>1, Zenon DEF Joined
  <2>3. s[0 + i] = o[i]
    BY <1>11, <2>1, Zenon
  <2> QED BY <1>12, <2>1, <2>2, <2>3, Zenon
<1>14. HeaderOf(h, e)
  BY <1>9, <1>12, <1>13, HeaderOfFrame, Zenon DEF HeaderSize
<1>15. PICK b \in Builders : b = [builder EXCEPT !.header = h] /\ b.state = "invalid" /\ b.header = h
  <2>1. h \in [1 .. HeaderSize -> Octet]
    BY <1>12 DEF HeaderSize
  <2>2. builder.state = "invalid"
    BY <1>1, <1>2 DEF BuilderFits
  <2>3. [builder EXCEPT !.header = h] \in Builders
    BY <1>1, <2>1 DEF Builders
  <2>4. [builder EXCEPT !.header = h].header = h /\ [builder EXCEPT !.header = h].state = builder.state
    BY <1>1, <2>1 DEF Builders
  <2> QED BY <2>2, <2>3, <2>4, Zenon
<1>16. PICK v : v = ValidateHeader(b)
  OBVIOUS
<1>17. \/ v.thrown /\ Dies
       \/ ~v.thrown /\ IsBodyReadRequired(v.builder) /\ builder' = v.builder /\ want' = "body"
          /\ got' = got
       \/ ~v.thrown /\ ~IsBodyReadRequired(v.builder) /\ Deliver(v.builder)
  BY <1>12, <1>15, <1>16, Zenon DEF OnFrameHeaderRead
<1>18. \/ v.thrown = TRUE /\ e.fault # "none"
       \/ v.thrown = FALSE /\ e.fault # "type" /\ v.builder \in Builders /\ Filled(v.builder, e)
       \/ v.thrown = FALSE /\ e.fault = "none" /\ v.builder \in Builders /\ Complete(v.builder, e)
  BY <1>14, <1>15, <1>16, HeaderStep, Zenon
<1>19. wire' \in Seq(Octet) /\ unsent' \in Seq(Octet) /\ wire' \o unsent' = Drop(s, 8) /\ 8 \in 0 .. Len(s)
  <2>1. Drop(wire, 8) \in Seq(Octet) /\ Drop(wire, 8) \o unsent = Drop(wire \o unsent, 8)
        /\ 8 \in 0 .. Len(wire \o unsent)
    <3>1. Drop(wire, 8) \in Seq(Octet)
      BY <1>1, <1>6, TakeDrop, Zenon
    <3>2. Drop(wire, 8) \o unsent = Drop(wire \o unsent, 8) /\ 8 \in 0 .. Len(wire \o unsent)
      BY <1>1, <1>6, DropFirst
    <3> QED BY <3>1, <3>2, Zenon
  <2> QED BY <1>1, <1>2, <1>4, <2>1, Zenon DEF HeaderSize
<1>20. PICK to : Cuts(to, sent, Drop(s, 8), n, -8)
  <2>1. 0 \in Int /\ 0 - 8 = -8
    OBVIOUS
  <2>2. \E to : Cuts(to, sent, Drop(s, 8), n, 0 - 8)
    BY <1>1, <1>5, <1>19, <2>1, CutsDrop, Zenon
  <2> QED BY <2>1, <2>2, Zenon
<1>21. CASE v.thrown
  <2>1. want' = "dead" /\ builder' = builder /\ got' = got /\ e.fault # "none"
    BY <1>17, <1>18, <1>21, Zenon DEF Dies
  <2>2. TypeOK'
    BY <1>1, <1>2, <1>19, <2>1, Types, Zenon
  <2>3. Faithful'
    BY <1>1, <1>2, <2>1, Zenon DEF Faithful, Sound
  <2>4. ThrowsOnlyAtFault'
    BY <1>2, <1>3, <1>7, <1>8, <2>1, Zenon DEF ThrowsOnlyAtFault
  <2>5. BuilderFits' /\ StreamHolds'
    BY <2>1 DEF BuilderFits, StreamHolds
  <2> QED BY <2>2, <2>3, <2>4, <2>5 DEF FramingInv
<1>22. CASE ~v.thrown /\ Filled(v.builder, e)
  <2>1. IsBodyReadRequired(v.builder)
    BY <1>10, <1>22 DEF IsBodyReadRequired, Filled
  <2>2. builder' = v.builder /\ want' = "body" /\ got' = got /\ v.builder \in Builders
        /\ e.fault # "type"
    BY <1>17, <1>18, <1>22, <2>1, Zenon
  <2>3. TypeOK'
    BY <1>1, <1>2, <1>19, <2>2, Types, Zenon
  <2>4. Faithful'
    BY <1>1, <1>2, <2>2, Zenon DEF Faithful, Sound
  <2>5. ThrowsOnlyAtFault'
    BY <2>2 DEF ThrowsOnlyAtFault
  <2>6. BuilderFits'
    <3>1. want' # "header"
      BY <2>2
    <3> QED BY <1>2, <1>3, <1>7, <1>8, <1>22, <2>2, <3>1, Zenon DEF BuilderFits
  <2>7. StreamHolds'
    <3>1. Start' = -8
      BY <2>2, Start1, Zenon
    <3> QED BY <1>2, <1>3, <1>19, <1>20, <2>2, <3>1, Zenon DEF StreamHolds
  <2> QED BY <2>3, <2>4, <2>5, <2>6, <2>7 DEF FramingInv
<1>23. CASE ~v.thrown /\ Complete(v.builder, e)
  <2>1. ~IsBodyReadRequired(v.builder) /\ BodyIsValid(v.builder) /\ CreateFrame(v.builder) = e.f
    BY <1>23 DEF IsBodyReadRequired, Complete, BodyIsValid
  <2>2. Deliver(v.builder)
    BY <1>17, <1>23, <2>1, Zenon
  <2>3. v.builder \in Builders /\ e.fault = "none"
    <3>1. ~Filled(v.builder, e)
      BY <1>23 DEF Filled, Complete
    <3> QED BY <1>18, <1>23, <3>1, Zenon
  <2>4. PICK c \in Builders : c = v.builder
    BY <2>3
  <2>5. Len(o) = 8
    <3>1. Len(p) = 0
      BY <1>10, <1>23 DEF Complete, CreateFrame
    <3> QED BY <1>9, <1>10, <3>1
  <2>6. \E up : Cuts(up, sent, wire' \o unsent', n + 1, 0)
    <3>1. -8 \in Int /\ -8 + Len(o) = 0
      BY <2>5
    <3>2. PICK r \in Seq(Octet) : r = Drop(s, 8)
      BY <1>19, TakeDrop, Zenon
    <3>3. \E up : Cuts(up, sent, r, n + 1, -8 + Len(Octs(sent[n + 1])))
      BY <1>1, <1>7, <1>20, <3>1, <3>2, CutsNext, Zenon
    <3> QED BY <1>8, <1>9, <1>19, <3>1, <3>2, <3>3, Zenon
  <2> QED BY <1>1, <1>2, <1>3, <1>7, <1>8, <1>19, <2>1, <2>2, <2>3, <2>4, <2>6, DeliverKeeps, Zenon
<1> QED BY <1>18, <1>21, <1>22, <1>23

LEMMA BodyReadKeeps ==
  ASSUME Sized, FramingInv, OnFrameBodyRead
  PROVE  FramingInv'
<1>1. sent \in Seq(Entries) /\ unsent \in Seq(Octet) /\ wire \in Seq(Octet) /\ TypeOK
      /\ got \in Seq(GotFrames) /\ builder \in Builders /\ Faithful /\ BuilderFits
  BY Types, Zenon DEF FramingInv
<1>2. PICK x : x = Take(wire, BodyBufferSize(builder)) /\ Deliver(FillBody(builder, x))
  BY Zenon DEF OnFrameBodyRead
<1>3. /\ want = "body" /\ Len(wire) >= BodyBufferSize(builder)
      /\ wire' = Drop(wire, BodyBufferSize(builder)) /\ sent' = sent /\ unsent' = unsent
  BY Zenon DEF OnFrameBodyRead
<1>4. PICK n \in Nat : n = Len(got)
  BY <1>1
<1>5. n < Len(sent) /\ sent[n + 1].fault # "type" /\ Filled(builder, sent[n + 1])
  BY <1>1, <1>3, <1>4, Zenon DEF BuilderFits
<1>6. PICK e \in Entries : e = sent[n + 1]
  BY <1>1, <1>5
<1>7. PICK p \in Seq(Octet) : p = e.f.payload
  <2>1. e.f \in Frames
    BY DEF Entries
  <2> QED BY <2>1, SentFrames
<1>8. PICK m \in Nat : m = Len(p) /\ m > 0
  BY <1>5, <1>6, <1>7 DEF Filled
<1>9. PICK y \in Seq(Octet) : y = builder.body /\ Len(y) = m /\ y[1] = p[1]
  BY <1>1, <1>5, <1>6, <1>7, <1>8 DEF Filled, Builders
<1>10. BodyBufferSize(builder) = m
  BY <1>8, <1>9 DEF BodyBufferSize
<1>11. PICK o \in Seq(Octet) : o = Octs(e) /\ Len(o) = 8 + m
  BY <1>7, <1>8, EntryOctets, Zenon
<1>12. PICK s \in Seq(Octet) : s = wire \o unsent /\ Joined(s, Octet, wire, unsent)
  <2>1. wire \o unsent \in Seq(Octet)
    BY <1>1
  <2> QED BY <1>1, <2>1, Concatenation, Zenon
<1>13. PICK at : Cuts(at, sent, s, n, -8)
  <2>1. Start = -8
    BY <1>3, Start1, Zenon
  <2>2. want # "dead"
    BY <1>3
  <2> QED BY <1>4, <1>12, <2>1, <2>2, Zenon DEF FramingInv, StreamHolds
<1>14. \A j \in 1 .. Len(o) : -8 + j >= 1 => s[-8 + j] = o[j]
  <2>1. -8 \in Int
    OBVIOUS
  <2>2. \A j \in 1 .. Len(Octs(sent[n + 1])) : -8 + j >= 1 => s[-8 + j] = Octs(sent[n + 1])[j]
    BY <1>1, <1>5, <1>13, <2>1, CutsFirst, SMTT(60)
  <2> QED BY <1>6, <1>11, <2>2, Zenon
<1>15. m \in 0 .. Len(wire)
  BY <1>1, <1>3, <1>8, <1>10
<1>16. x \in Seq(Octet) /\ Len(x) = m /\ \A i \in 1 .. m : x[i] = wire[i]
  <2>1. /\ Take(wire, m) \in Seq(Octet) /\ Len(Take(wire, m)) = m
        /\ \A i \in 1 .. m : Take(wire, m)[i] = wire[i]
    BY <1>1, <1>15, TakeDrop
  <2> QED BY <1>2, <1>10, <2>1, Zenon
<1>17. ASSUME NEW i \in 1 .. m
       PROVE  x[i] = o[8 + i]
  <2>1. i \in 1 .. Len(wire) /\ 8 + i \in 1 .. Len(o) /\ -8 + (8 + i) = i /\ i >= 1
    BY <1>11, <1>15
  <2>2. s[i] = wire[i]
    BY <1>12, <2>1, Zenon DEF Joined
  <2>3. s[-8 + (8 + i)] = o[8 + i]
    <3>1. -8 + (8 + i) >= 1
      BY <2>1
    <3> QED BY <1>14, <2>1, <3>1, Zenon
  <2> QED BY <1>16, <2>1, <2>2, <2>3, Zenon
<1>18. <<Head(y)>> \o Front(x) = p /\ Last(x) = IF e.fault = "end" THEN 0 ELSE FRAME_END
  <2>1. \A i \in 1 .. Len(x) : x[i] = Octs(e)[HeaderSize + i]
    BY <1>11, <1>16, <1>17, Zenon DEF HeaderSize
  <2>2. Len(p) > 0 /\ Len(y) = Len(p) /\ Len(x) = Len(p)
    BY <1>8, <1>9, <1>16
  <2> QED BY <1>7, <1>9, <1>16, <2>1, <2>2, BodyOfFrame, Zenon
<1>19. Last(x) \in Octet
  BY <1>8, <1>16 DEF Last
<1>20. PICK b : b = FillBody(builder, x)
  OBVIOUS
<1>21. b = [builder EXCEPT !.body = p, !.end = Last(x)]
  BY <1>9, <1>18, <1>20, Zenon DEF FillBody
<1>22. b \in Builders /\ b.state = builder.state /\ b.type = builder.type
       /\ b.channel = builder.channel /\ b.body = p /\ b.end = Last(x)
  BY <1>1, <1>19, <1>21, Zenon DEF Builders
<1>23. BodyIsValid(b) <=> e.fault # "end"
  <2>1. FRAME_END # 0
    BY DEF FRAME_END
  <2>2. b.state = "valid_header"
    BY <1>5, <1>22, Zenon DEF Filled
  <2> QED BY <1>18, <1>22, <2>1, <2>2 DEF BodyIsValid
<1>24. e.fault # "type" /\ e.fault \in Faults
  BY <1>5, <1>6 DEF Entries
<1>25. CreateFrame(b) = e.f
  <2>1. e.f \in Frames
    BY DEF Entries
  <2>2. b.type = e.f.type /\ b.channel = e.f.channel /\ b.body = e.f.payload
    BY <1>5, <1>6, <1>7, <1>22, Zenon DEF Filled
  <2> QED BY <2>1, <2>2 DEF CreateFrame, Frames
<1>26. (BodyIsValid(b) => e.fault = "none") /\ (~BodyIsValid(b) => e.fault # "none")
  BY <1>23, <1>24 DEF Faults
<1>27. wire' \in Seq(Octet) /\ unsent' \in Seq(Octet) /\ wire' \o unsent' = Drop(s, m)
       /\ m \in 0 .. Len(s)
  <2>1. Drop(wire, m) \in Seq(Octet)
    BY <1>1, <1>15, TakeDrop, Zenon
  <2>2. Drop(wire, m) \o unsent = Drop(wire \o unsent, m) /\ m \in 0 .. Len(wire \o unsent)
    BY <1>1, <1>15, DropFirst
  <2> QED BY <1>1, <1>3, <1>10, <1>12, <2>1, <2>2, Zenon
<1>28. \E up : Cuts(up, sent, wire' \o unsent', n + 1, 0)
  <2>1. -8 \in Int /\ -8 - m \in Int /\ (-8 - m) + Len(o) = 0
    BY <1>11
  <2>2. PICK r \in Seq(Octet) : r = Drop(s, m)
    BY <1>27, TakeDrop, Zenon
  <2>3. PICK to : Cuts(to, sent, r, n, -8 - m)
    BY <1>1, <1>13, <1>27, <2>1, <2>2, CutsDrop, Zenon
  <2>4. \E up : Cuts(up, sent, r, n + 1, (-8 - m) + Len(Octs(sent[n + 1])))
    BY <1>1, <1>5, <2>1, <2>3, CutsNext, Zenon
  <2> QED BY <1>6, <1>11, <1>27, <2>1, <2>2, <2>4, Zenon
<1> QED BY <1>1, <1>2, <1>3, <1>4, <1>5, <1>6, <1>20, <1>22, <1>25, <1>26, <1>27, <1>28,
           DeliverKeeps, Zenon

LEMMA FramingInvariant ==
  ASSUME Sized
  PROVE  Spec => []FramingInv
<1>1. Init => FramingInv
  BY FramingInit
<1>2. FramingInv /\ [Next]_vars => FramingInv'
  <2>1. SUFFICES ASSUME FramingInv, [Next]_vars
                 PROVE  FramingInv'
    OBVIOUS
  <2>2. CASE PeerSends
    BY <2>1, <2>2, PeerSendsKeeps
  <2>3. CASE OctetsArrive
    BY <2>1, <2>3, OctetsArriveKeeps
  <2>4. CASE OnFrameHeaderRead
    BY <2>1, <2>4, HeaderReadKeeps
  <2>5. CASE OnFrameBodyRead
    BY <2>1, <2>5, BodyReadKeeps
  <2>6. CASE UNCHANGED vars
    <3>1. /\ sent' = sent /\ unsent' = unsent /\ wire' = wire /\ builder' = builder
          /\ want' = want /\ got' = got
      BY <2>6 DEF vars
    <3>2. TypeOK'
      BY <2>1, <3>1, Types, Zenon DEF FramingInv
    <3>3. Faithful' /\ ThrowsOnlyAtFault' /\ BuilderFits'
      BY <2>1, <3>1, Zenon DEF FramingInv, Faithful, Sound, ThrowsOnlyAtFault, BuilderFits
    <3>4. Start' = Start
      BY <3>1 DEF Start
    <3>5. StreamHolds'
      BY <2>1, <3>1, <3>4, Zenon DEF FramingInv, StreamHolds
    <3> QED BY <3>2, <3>3, <3>5 DEF FramingInv
  <2> QED BY <2>1, <2>2, <2>3, <2>4, <2>5, <2>6, Zenon DEF Next
<1> QED BY <1>1, <1>2, PTL DEF Spec

(***************************************************************************)
(* What frame_builder keeps and dispatches is of the right type: a channel *)
(* is a uint16_t, and a frame dispatched has one of the four types.        *)
(***************************************************************************)
THEOREM FramingIsTyped ==
  ASSUME Sized
  PROVE  Spec => []TypeOK
<1>1. FramingInv => TypeOK
  BY DEF FramingInv
<1> QED BY <1>1, FramingInvariant, PTL

(***************************************************************************)
(* dispatch_frame is given the frames the peer sent, in order and octet    *)
(* for octet, however they were split on the way, up to the first bad one. *)
(***************************************************************************)
THEOREM FramesArriveFaithfully ==
  ASSUME Sized
  PROVE  Spec => []Faithful
<1>1. FramingInv => Faithful
  BY DEF FramingInv
<1> QED BY <1>1, FramingInvariant, PTL

(***************************************************************************)
(* validate_header and validate_body throw at a bad frame only, and at the *)
(* bad frame itself: never early, and never a frame late.                  *)
(***************************************************************************)
THEOREM OnlyBadFramesThrow ==
  ASSUME Sized
  PROVE  Spec => []ThrowsOnlyAtFault
<1>1. FramingInv => ThrowsOnlyAtFault
  BY DEF FramingInv
<1> QED BY <1>1, FramingInvariant, PTL
LEMMA NoReadIsStuck ==
  ASSUME Sized, FramingInv
  PROVE  NothingIsStuck
<1>1. sent \in Seq(Entries) /\ unsent \in Seq(Octet) /\ wire \in Seq(Octet)
      /\ got \in Seq(GotFrames) /\ builder \in Builders /\ want \in {"header", "body", "dead"}
  BY Types, Zenon DEF FramingInv
<1>2. PICK n \in Nat : n = Len(got) /\ n <= Len(sent)
  <2>1. Len(got) <= Len(sent)
    BY Zenon DEF FramingInv, Faithful, Sound
  <2> QED BY <1>1, <2>1
<1>3. PICK s \in Seq(Octet) : s = wire \o unsent /\ Len(s) = Len(wire) + Len(unsent)
  <2>1. wire \o unsent \in Seq(Octet) /\ Len(wire \o unsent) = Len(wire) + Len(unsent)
    BY <1>1
  <2> QED BY <2>1, Zenon
<1>4. CASE want # "dead" /\ n < Len(sent)
  <2>1. PICK at : Cuts(at, sent, s, n, Start)
    BY <1>2, <1>3, <1>4, Zenon DEF FramingInv, StreamHolds
  <2>2. PICK e \in Entries : e = sent[n + 1]
    BY <1>1, <1>2, <1>4
  <2>3. Start \in Int /\ Start = IF want = "header" THEN 0 ELSE -8
    BY DEF Start, HeaderSize
  <2>4. Start + Len(Octs(e)) <= Len(s)
    BY <1>1, <1>2, <1>4, <2>1, <2>2, <2>3, CutsFirst
  <2>5. PICK m \in Nat : m = Len(e.f.payload)
    <3>1. e.f \in Frames
      BY DEF Entries
    <3> QED BY <3>1, SentFrames
  <2>6. Len(Octs(e)) = 8 + m
    BY <2>5, EntryOctets
  <2>7. want = "body" => BodyBufferSize(builder) = m
    <3>1. want = "body" => Len(builder.body) = m
      BY <1>2, <2>2, <2>5, Zenon DEF FramingInv, BuilderFits, Filled
    <3> QED BY <2>5, <3>1 DEF BodyBufferSize
  <2>8. Len(s) >= Asked
    <3>1. want = "header" => Asked = 8
      BY DEF Asked, HeaderSize
    <3>2. want = "body" => Asked = m
      BY <2>7 DEF Asked
    <3>3. PICK l \in Nat : l = Len(s)
      OBVIOUS
    <3>4. (want = "header" \/ want = "body") /\ Start + (8 + m) <= l
      BY <1>1, <1>4, <2>4, <2>6, <3>3
    <3>5. m \in Nat /\ l \in Nat
      OBVIOUS
    <3>6. CASE want = "header"
      <4>1. Start = 0 /\ Asked = 8
        BY <2>3, <3>1, <3>6
      <4> QED BY <3>3, <3>4, <3>5, <4>1
    <3>7. CASE want = "body"
      <4>1. Start = -8 /\ Asked = m
        BY <2>3, <3>2, <3>7
      <4> QED BY <3>3, <3>4, <3>5, <4>1
    <3> QED BY <3>4, <3>6, <3>7
  <2> QED BY <1>2, <1>3, <1>4, <2>8, Zenon DEF NothingIsStuck
<1>5. CASE want # "dead" /\ ~(n < Len(sent))
  <2>1. want = "header" /\ n = Len(sent)
    BY <1>1, <1>2, <1>5 DEF FramingInv, BuilderFits
  <2>2. PICK at : Cuts(at, sent, s, n, 0)
    BY <1>2, <1>3, <1>5, <2>1 DEF FramingInv, StreamHolds, Start
  <2>3. Len(s) = 0
    BY <2>1, <2>2 DEF Cuts
  <2>4. wire = <<>> /\ unsent = <<>>
    BY <1>1, <1>3, <2>3
  <2> QED BY <1>2, <1>5, <2>1, <2>4 DEF NothingIsStuck
<1> QED BY <1>4, <1>5 DEF NothingIsStuck

(***************************************************************************)
(* Whatever the sizes of the frames and wherever the kernel splits them,   *)
(* the two async_reads, of eight octets and of get_body_buffer, never ask  *)
(* for more than the frame they read: what Delivered needs besides         *)
(* fairness.                                                               *)
(***************************************************************************)
THEOREM NoReadWaitsForNextFrame ==
  ASSUME Sized
  PROVE  Spec => []NothingIsStuck
<1>1. FramingInv => NothingIsStuck
  BY NoReadIsStuck
<1> QED BY <1>1, FramingInvariant, PTL

=============================================================================
