---------------------------- MODULE TransportProofs ----------------------------
(***************************************************************************)
(* Frames on their way between the channels and the broker: which there    *)
(* are, how often, and in which order, whatever carries them.  A step of   *)
(* the io thread, of the kernel or of the broker is then described by the  *)
(* frames it adds or takes, and proofs about the protocol need not look    *)
(* into the io_service's queue again.                                      *)
(***************************************************************************)
EXTENDS ConnectionProofs

Occurs(x, s) == \E j \in DOMAIN s : s[j] = x
Once(x, s)   == \A j, k \in DOMAIN s : s[j] = x /\ s[k] = x => j = k

(* The frames of the writes the kernel has accepted in part.               *)
FramesOf(p) == [j \in DOMAIN p |-> p[j].f]

(***************************************************************************)
(* Frames for the broker: posted, partly written, or accepted.             *)
(***************************************************************************)
Carried(f, q, p, o) == Occurs(Write(f), q) \/ Occurs(f, FramesOf(p)) \/ Occurs(f, o)

CarriedOnce(f, q, p, o) ==
  /\ Once(Write(f), q) /\ Once(f, FramesOf(p)) /\ Once(f, o)
  /\ Occurs(Write(f), q) => ~Occurs(f, FramesOf(p)) /\ ~Occurs(f, o)
  /\ Occurs(f, FramesOf(p)) => ~Occurs(f, o)

Outward(f)     == Carried(f, ioq, pend, out)
OutwardOnce(f) == CarriedOnce(f, ioq, pend, out)

(***************************************************************************)
(* Frames from the broker: sent, or read and waiting for their handler.    *)
(* There is one such handler at most, ahead of all that is still in.       *)
(***************************************************************************)
Inward(f) == Occurs(ReadBody(TRUE, f), ioq) \/ Occurs(f, in)

Behind(f, g) ==
  \/ Occurs(ReadBody(TRUE, f), ioq) /\ Occurs(g, in)
  \/ \E j, k \in DOMAIN in : j < k /\ in[j] = f /\ in[k] = g

(***************************************************************************)
(* What a step may do to them.  Frames may be lost in any step; Garbage is *)
(* not counted.                                                            *)
(***************************************************************************)
RealFrames == Frames \ {Garbage}

OutKept ==
  \A f \in RealFrames : /\ Outward(f)' => Outward(f)
                        /\ OutwardOnce(f) => OutwardOnce(f)'

OutAdds(g) ==
  \A f \in RealFrames : /\ Outward(f)' => Outward(f) \/ f = g
                        /\ OutwardOnce(f) /\ (f = g => ~Outward(f)) => OutwardOnce(f)'

OutTakes(g) == OutKept /\ (g \in RealFrames /\ OutwardOnce(g) => ~Outward(g)')

InKept ==
  \A f, g \in Frames : /\ Inward(f)' => Inward(f)
                       /\ Behind(f, g)' => Behind(f, g)

InAdds(h) ==
  \A f, g \in Frames : /\ Inward(f)' => Inward(f) \/ f = h
                       /\ Behind(f, g)' => Behind(f, g) \/ (g = h /\ Inward(f))

InTakes(h) == InKept /\ \A f \in Frames : Inward(f)' => Behind(h, f)

-----------------------------------------------------------------------------
(* Sequences.                                                              *)
LEMMA OccursInTail ==
  ASSUME NEW S, NEW s \in Seq(S), s # <<>>, NEW x
  PROVE  /\ Occurs(x, s) <=> Head(s) = x \/ Occurs(x, Tail(s))
         /\ Once(x, s) => Once(x, Tail(s))
         /\ Once(x, s) /\ Head(s) = x => ~Occurs(x, Tail(s))
<1>1. /\ s \in [1 .. Len(s) -> S] /\ Len(s) \in Nat /\ Len(s) # 0 /\ Head(s) = s[1]
      /\ DOMAIN Tail(s) = 1 .. Len(s) - 1
      /\ \A j \in 1 .. Len(s) - 1 : Tail(s)[j] = s[j + 1]
  OBVIOUS
<1>2. Occurs(x, s) => Head(s) = x \/ Occurs(x, Tail(s))
  <2>1. ASSUME NEW j \in DOMAIN s, s[j] = x, Head(s) # x
        PROVE  Occurs(x, Tail(s))
    <3>1. j - 1 \in DOMAIN Tail(s) /\ Tail(s)[j - 1] = x
      BY <1>1, <2>1
    <3> QED BY <3>1 DEF Occurs
  <2> QED BY <2>1 DEF Occurs
<1>3. Head(s) = x \/ Occurs(x, Tail(s)) => Occurs(x, s)
  BY <1>1 DEF Occurs
<1>4. Once(x, s) => Once(x, Tail(s))
  BY <1>1 DEF Once
<1>5. Once(x, s) /\ Head(s) = x => ~Occurs(x, Tail(s))
  BY <1>1 DEF Once, Occurs
<1> QED BY <1>2, <1>3, <1>4, <1>5

LEMMA OccursInAppend ==
  ASSUME NEW S, NEW s \in Seq(S), NEW y \in S, NEW x
  PROVE  /\ Occurs(x, Append(s, y)) <=> x = y \/ Occurs(x, s)
         /\ Once(x, s) /\ (x = y => ~Occurs(x, s)) => Once(x, Append(s, y))
<1>1. /\ DOMAIN s = 1 .. Len(s) /\ Len(s) \in Nat
      /\ DOMAIN Append(s, y) = 1 .. Len(s) + 1
      /\ Append(s, y)[Len(s) + 1] = y
      /\ \A j \in 1 .. Len(s) : Append(s, y)[j] = s[j]
  OBVIOUS
<1>2. Occurs(x, Append(s, y)) <=> x = y \/ Occurs(x, s)
  BY <1>1 DEF Occurs
<1>3. Once(x, s) /\ (x = y => ~Occurs(x, s)) => Once(x, Append(s, y))
  BY <1>1 DEF Occurs, Once
<1> QED BY <1>2, <1>3

(* Completions of writes are neither writes nor reads.                     *)
LEMMA OccursInGrown ==
  ASSUME NEW q \in Seq(Handlers), NEW r \in Seq(Handlers), QueueGrows(q, r),
         NEW x, x.h # "on_write_frame"
  PROVE  /\ Occurs(x, r) <=> Occurs(x, q)
         /\ Once(x, q) => Once(x, r)
<1>1. /\ DOMAIN q = 1 .. Len(q) /\ DOMAIN r = 1 .. Len(r) /\ Len(q) \in Nat /\ Len(r) \in Nat
      /\ Len(q) <= Len(r) /\ \A j \in 1 .. Len(q) : r[j] = q[j]
      /\ \A j \in DOMAIN r : j \notin DOMAIN q => r[j] # x
  BY DEF QueueGrows
<1> QED BY <1>1 DEF Occurs, Once


-----------------------------------------------------------------------------
(***************************************************************************)
(* Writing.  The frames of unfinished writes stay what they are when the   *)
(* writes are spoiled.                                                     *)
(***************************************************************************)
LEMMA SameSequence ==
  ASSUME NEW S, NEW s \in Seq(S), NEW t \in Seq(S), Len(s) = Len(t),
         \A j \in 1 .. Len(s) : s[j] = t[j]
  PROVE  s = t
<1>1. s \in [1 .. Len(s) -> S] /\ t \in [1 .. Len(t) -> S]
  OBVIOUS
<1> QED BY <1>1

LEMMA FramesOfType ==
  ASSUME NEW p \in Seq(PendingWrites)
  PROVE  /\ FramesOf(p) \in Seq(Frames) /\ Len(FramesOf(p)) = Len(p) /\ Len(p) \in Nat
         /\ \A j \in 1 .. Len(p) : FramesOf(p)[j] = p[j].f
<1>1. /\ p \in [1 .. Len(p) -> PendingWrites] /\ DOMAIN p = 1 .. Len(p) /\ Len(p) \in Nat
      /\ \A j \in DOMAIN p : p[j] \in PendingWrites
  OBVIOUS
<1>2. /\ FramesOf(p) \in [1 .. Len(p) -> Frames]
      /\ \A j \in 1 .. Len(p) : FramesOf(p)[j] = p[j].f
  BY <1>1 DEF FramesOf, PendingWrites
<1> QED BY <1>1, <1>2

LEMMA FramesOfSpoiled ==
  ASSUME NEW p \in Seq(PendingWrites)
  PROVE  FramesOf(Spoiled(p)) = FramesOf(p)
<1>1. \A j \in DOMAIN p : p[j] \in PendingWrites
  OBVIOUS
<1>2. /\ DOMAIN Spoiled(p) = DOMAIN p
      /\ \A j \in DOMAIN p : Spoiled(p)[j] = [p[j] EXCEPT !.clean = FALSE]
  BY Zenon DEF Spoiled
<1>3. \A j \in DOMAIN p : Spoiled(p)[j].f = p[j].f
  BY <1>1, <1>2 DEF PendingWrites
<1> QED BY <1>2, <1>3, Zenon DEF FramesOf

LEMMA FramesOfAppend ==
  ASSUME NEW p \in Seq(PendingWrites), NEW x \in PendingWrites
  PROVE  FramesOf(Append(p, x)) = Append(FramesOf(p), x.f)
<1> DEFINE s == FramesOf(Append(p, x))
           t == Append(FramesOf(p), x.f)
<1>1. /\ Append(p, x) \in Seq(PendingWrites) /\ Len(Append(p, x)) = Len(p) + 1
      /\ Len(p) \in Nat
      /\ \A j \in 1 .. Len(p) : Append(p, x)[j] = p[j]
      /\ Append(p, x)[Len(p) + 1] = x
  OBVIOUS
<1>2. x.f \in Frames
  BY DEF PendingWrites
<1>3. /\ s \in Seq(Frames) /\ Len(s) = Len(p) + 1
      /\ \A j \in 1 .. Len(p) + 1 : s[j] = Append(p, x)[j].f
  <2>1. /\ s \in Seq(Frames) /\ Len(s) = Len(Append(p, x))
        /\ \A j \in 1 .. Len(Append(p, x)) : s[j] = Append(p, x)[j].f
    BY <1>1, FramesOfType
  <2> HIDE DEF s
  <2> QED BY <1>1, <2>1
<1>4. /\ t \in Seq(Frames) /\ Len(t) = Len(p) + 1 /\ t[Len(p) + 1] = x.f
      /\ \A j \in 1 .. Len(p) : t[j] = p[j].f
  BY <1>2, FramesOfType
<1> HIDE DEF s, t
<1>5. \A j \in 1 .. Len(p) + 1 : s[j] = t[j]
  BY <1>1, <1>3, <1>4
<1>6. s = t
  BY <1>3, <1>4, <1>5, SameSequence
<1> QED BY <1>6 DEF s, t

LEMMA FramesOfTail ==
  ASSUME NEW p \in Seq(PendingWrites), p # <<>>
  PROVE  /\ FramesOf(p) # <<>> /\ FramesOf(Tail(p)) = Tail(FramesOf(p))
         /\ Head(FramesOf(p)) = Head(p).f
<1> DEFINE s == FramesOf(Tail(p))
           t == Tail(FramesOf(p))
<1>1. /\ Tail(p) \in Seq(PendingWrites) /\ Len(Tail(p)) = Len(p) - 1
      /\ Len(p) \in Nat /\ Len(p) # 0 /\ Head(p) = p[1]
      /\ \A j \in 1 .. Len(p) - 1 : Tail(p)[j] = p[j + 1]
  OBVIOUS
<1>2. /\ FramesOf(p) \in Seq(Frames) /\ Len(FramesOf(p)) = Len(p)
      /\ \A j \in 1 .. Len(p) : FramesOf(p)[j] = p[j].f
  BY FramesOfType
<1>3. FramesOf(p) # <<>> /\ Head(FramesOf(p)) = Head(p).f
  BY <1>1, <1>2
<1>4. /\ s \in Seq(Frames) /\ Len(s) = Len(p) - 1
      /\ \A j \in 1 .. Len(p) - 1 : s[j] = Tail(p)[j].f
  <2>1. /\ s \in Seq(Frames) /\ Len(s) = Len(Tail(p))
        /\ \A j \in 1 .. Len(Tail(p)) : s[j] = Tail(p)[j].f
    BY <1>1, FramesOfType
  <2> HIDE DEF s
  <2> QED BY <1>1, <2>1
<1>5. /\ t \in Seq(Frames) /\ Len(t) = Len(p) - 1
      /\ \A j \in 1 .. Len(p) - 1 : t[j] = FramesOf(p)[j + 1]
  BY <1>1, <1>2, <1>3
<1> HIDE DEF s, t
<1>6. \A j \in 1 .. Len(p) - 1 : s[j] = t[j]
  BY <1>1, <1>2, <1>4, <1>5
<1>7. s = t
  BY <1>4, <1>5, <1>6, SameSequence
<1> QED BY <1>3, <1>7 DEF s, t

(* What a write leaves behind.                                             *)
Puts(f, w, v) ==
  /\ QueueGrows(w.q, v.q) /\ v \in WriteStates
  /\ \/ v.out = w.out /\ FramesOf(v.pend) = FramesOf(w.pend)
     \/ /\ \E g \in {f, Garbage} : v.out = Append(w.out, g)
        /\ FramesOf(v.pend) = FramesOf(w.pend)
     \/ v.out = w.out /\ FramesOf(v.pend) = Append(FramesOf(w.pend), f)

LEMMA BeginWritePuts ==
  ASSUME NEW f \in Frames, NEW w \in WriteStates, NEW v \in BeginWriteFrame(f, w),
         w.writeq = <<>>, state \in {"open", "closed"}
  PROVE  Puts(f, w, v)
<1>1. QueueGrows(w.q, v.q) /\ v \in WriteStates
  BY BeginWriteFollows DEF Follows
<1>2. CASE state # "open"
  <2>1. v = w
    BY <1>2 DEF BeginWriteFrame
  <2> QED BY <1>1, <2>1 DEF Puts
<1>3. CASE state = "open"
  <2>1. Append(w.writeq, f) = <<f>> /\ Head(<<f>>) = f /\ Tail(<<f>>) = <<>>
    OBVIOUS
  <2>2. [w EXCEPT !.writeq = <<>>] = w
    BY DEF WriteStates
  <2>3. v \in AsyncWrite(f, w)
    BY <1>3, <2>1, <2>2 DEF BeginWriteFrame
  <2>4. w.pend \in Seq(PendingWrites)
    BY DEF WriteStates
  <2>5. CASE sock = "broken"
    <3>1. v.out = w.out /\ v.pend = w.pend
      BY <2>3, <2>5 DEF AsyncWrite, WriteStates
    <3> QED BY <1>1, <3>1 DEF Puts
  <2>6. CASE /\ v.out = Append(w.out, IF w.pend = <<>> THEN f ELSE Garbage)
             /\ v.pend = Spoiled(w.pend)
    BY <1>1, <2>4, <2>6, FramesOfSpoiled DEF Puts
  <2>7. CASE v.out = w.out /\ v.pend = Append(Spoiled(w.pend), [f |-> f, clean |-> TRUE])
    <3>1. Spoiled(w.pend) \in Seq(PendingWrites) /\ [f |-> f, clean |-> TRUE] \in PendingWrites
      BY <2>4, SpoiledType DEF PendingWrites
    <3>2. FramesOf(v.pend) = Append(FramesOf(w.pend), f)
      BY <2>4, <2>7, <3>1, FramesOfSpoiled, FramesOfAppend
    <3> QED BY <1>1, <2>7, <3>2 DEF Puts
  <2>8. \/ sock = "broken"
        \/ /\ v.out = Append(w.out, IF w.pend = <<>> THEN f ELSE Garbage)
           /\ v.pend = Spoiled(w.pend)
        \/ v.out = w.out /\ v.pend = Append(Spoiled(w.pend), [f |-> f, clean |-> TRUE])
    BY <2>3 DEF AsyncWrite, WriteStates
  <2> QED BY <2>5, <2>6, <2>7, <2>8
<1> QED BY <1>2, <1>3

-----------------------------------------------------------------------------
(***************************************************************************)
(* Frames for the broker, as handlers take them from the queue and writes  *)
(* put them into pend or out.                                              *)
(***************************************************************************)
LEMMA CarriedAfterTake ==
  ASSUME NEW q \in Seq(Handlers), q # <<>>, NEW p, NEW o, NEW f
  PROVE  /\ Carried(f, Tail(q), p, o) => Carried(f, q, p, o)
         /\ CarriedOnce(f, q, p, o) => CarriedOnce(f, Tail(q), p, o)
         /\ CarriedOnce(f, q, p, o) /\ Head(q) = Write(f) => ~Carried(f, Tail(q), p, o)
<1>1. /\ Occurs(Write(f), q) <=> Head(q) = Write(f) \/ Occurs(Write(f), Tail(q))
      /\ Once(Write(f), q) => Once(Write(f), Tail(q))
      /\ Once(Write(f), q) /\ Head(q) = Write(f) => ~Occurs(Write(f), Tail(q))
  BY OccursInTail, Zenon
<1> QED BY <1>1, Zenon DEF Carried, CarriedOnce

(* Completions take the place of no frame.                                 *)
LEMMA CarriedGrown ==
  ASSUME NEW q \in Seq(Handlers), NEW r \in Seq(Handlers), QueueGrows(q, r), NEW p, NEW o,
         NEW f
  PROVE  /\ Carried(f, r, p, o) => Carried(f, q, p, o)
         /\ CarriedOnce(f, q, p, o) => CarriedOnce(f, r, p, o)
<1>1. Write(f).h # "on_write_frame"
  BY DEF Write
<1>2. /\ Occurs(Write(f), r) <=> Occurs(Write(f), q)
      /\ Once(Write(f), q) => Once(Write(f), r)
  BY <1>1, OccursInGrown
<1> QED BY <1>2, Zenon DEF Carried, CarriedOnce

LEMMA CarriedAfterPut ==
  ASSUME NEW g \in Frames, NEW w \in WriteStates, NEW v, Puts(g, w, v), NEW f \in RealFrames
  PROVE  /\ Carried(f, v.q, v.pend, v.out) => Carried(f, w.q, w.pend, w.out) \/ f = g
         /\ CarriedOnce(f, w.q, w.pend, w.out)
              /\ (f = g => ~Carried(f, w.q, w.pend, w.out))
            => CarriedOnce(f, v.q, v.pend, v.out)
<1>1. /\ w.q \in Seq(Handlers) /\ v.q \in Seq(Handlers) /\ QueueGrows(w.q, v.q)
      /\ w.out \in Seq(Frames) /\ FramesOf(w.pend) \in Seq(Frames)
  BY FramesOfType DEF Puts, WriteStates
<1>2. /\ Carried(f, v.q, w.pend, w.out) => Carried(f, w.q, w.pend, w.out)
      /\ CarriedOnce(f, w.q, w.pend, w.out) => CarriedOnce(f, v.q, w.pend, w.out)
  BY <1>1, CarriedGrown
<1>3. CASE v.out = w.out /\ FramesOf(v.pend) = FramesOf(w.pend)
  BY <1>2, <1>3, Zenon DEF Carried, CarriedOnce
<1>4. ASSUME NEW x \in {g, Garbage}, v.out = Append(w.out, x),
             FramesOf(v.pend) = FramesOf(w.pend)
      PROVE  /\ Carried(f, v.q, v.pend, v.out) => Carried(f, v.q, w.pend, w.out) \/ f = g
             /\ CarriedOnce(f, v.q, w.pend, w.out)
                  /\ (f = g => ~Carried(f, v.q, w.pend, w.out))
                => CarriedOnce(f, v.q, v.pend, v.out)
  <2>1. x \in Frames /\ (f = x => f = g)
    BY FrameType DEF RealFrames
  <2>2. /\ Occurs(f, v.out) <=> f = x \/ Occurs(f, w.out)
        /\ Once(f, w.out) /\ (f = x => ~Occurs(f, w.out)) => Once(f, v.out)
    BY <1>1, <1>4, <2>1, OccursInAppend
  <2> QED BY <1>4, <2>1, <2>2, Zenon DEF Carried, CarriedOnce
<1>5. ASSUME v.out = w.out, FramesOf(v.pend) = Append(FramesOf(w.pend), g)
      PROVE  /\ Carried(f, v.q, v.pend, v.out) => Carried(f, v.q, w.pend, w.out) \/ f = g
             /\ CarriedOnce(f, v.q, w.pend, w.out)
                  /\ (f = g => ~Carried(f, v.q, w.pend, w.out))
                => CarriedOnce(f, v.q, v.pend, v.out)
  <2>1. /\ Occurs(f, FramesOf(v.pend)) <=> f = g \/ Occurs(f, FramesOf(w.pend))
        /\ Once(f, FramesOf(w.pend)) /\ (f = g => ~Occurs(f, FramesOf(w.pend)))
           => Once(f, FramesOf(v.pend))
    BY <1>1, <1>5, OccursInAppend
  <2> QED BY <1>5, <2>1, Zenon DEF Carried, CarriedOnce
<1> QED BY <1>2, <1>3, <1>4, <1>5, Zenon DEF Puts

(* A handler that writes g.                                                *)
LEMMA HandlerPuts ==
  ASSUME Basics, ioq # <<>>, NEW g \in Frames, NEW w \in BeginWriteFrame(g, Writing),
         Written(w)
  PROVE  OutAdds(g) /\ (Head(ioq) = Write(g) => OutKept)
<1>1. /\ MgrTypeOK /\ NeverQueued /\ ioq \in Seq(Handlers) /\ state \in {"open", "closed"}
      /\ Writing \in WriteStates /\ Writing.writeq = <<>>
  BY WritingType DEF Basics, TypeOK, MgrTypeOK
<1>2. Puts(g, Writing, w)
  BY <1>1, BeginWritePuts
<1>3. /\ Writing.q = Tail(ioq) /\ Writing.pend = pend /\ Writing.out = out
      /\ w.q = ioq' /\ w.pend = pend' /\ w.out = out'
  BY DEF Writing, Written
<1>4. ASSUME NEW f \in RealFrames
      PROVE  /\ Outward(f)' => Carried(f, Tail(ioq), pend, out) \/ f = g
             /\ CarriedOnce(f, Tail(ioq), pend, out)
                  /\ (f = g => ~Carried(f, Tail(ioq), pend, out))
                => OutwardOnce(f)'
  <2>1. /\ Carried(f, w.q, w.pend, w.out)
             => Carried(f, Writing.q, Writing.pend, Writing.out) \/ f = g
        /\ CarriedOnce(f, Writing.q, Writing.pend, Writing.out)
             /\ (f = g => ~Carried(f, Writing.q, Writing.pend, Writing.out))
           => CarriedOnce(f, w.q, w.pend, w.out)
    BY <1>1, <1>2, CarriedAfterPut
  <2>2. /\ Carried(f, w.q, w.pend, w.out) <=> Outward(f)'
        /\ CarriedOnce(f, w.q, w.pend, w.out) <=> OutwardOnce(f)'
    BY <1>3 DEF Outward, OutwardOnce, Carried, CarriedOnce
  <2> QED BY <1>3, <2>1, <2>2, Zenon
<1>5. \A f : /\ Carried(f, Tail(ioq), pend, out) => Outward(f)
             /\ OutwardOnce(f) => CarriedOnce(f, Tail(ioq), pend, out)
             /\ OutwardOnce(f) /\ Head(ioq) = Write(f) => ~Carried(f, Tail(ioq), pend, out)
  BY <1>1, CarriedAfterTake, Zenon DEF Outward, OutwardOnce
<1>6. OutAdds(g)
  BY <1>4, <1>5, Zenon DEF OutAdds
<1>7. ASSUME Head(ioq) = Write(g)
      PROVE  OutKept
  <2>1. Outward(g)
    <3>1. Occurs(Write(g), ioq)
      BY <1>1, <1>7 DEF Occurs
    <3> QED BY <3>1, Zenon DEF Outward, Carried
  <2> QED BY <1>4, <1>5, <1>7, <2>1, Zenon DEF OutKept
<1> QED BY <1>6, <1>7

(* A handler that writes nothing.                                          *)
LEMMA HandlerOutKept ==
  ASSUME Basics, ioq # <<>>, ioq' = Tail(ioq), out' = out, FramesOf(pend') = FramesOf(pend)
  PROVE  OutKept
<1>1. ioq \in Seq(Handlers)
  BY DEF Basics, TypeOK, MgrTypeOK
<1>2. \A f : /\ Carried(f, Tail(ioq), pend, out) => Outward(f)
             /\ OutwardOnce(f) => CarriedOnce(f, Tail(ioq), pend, out)
  BY <1>1, CarriedAfterTake, Zenon DEF Outward, OutwardOnce
<1>3. \A f : /\ Outward(f)' <=> Carried(f, Tail(ioq), pend, out)
             /\ OutwardOnce(f)' <=> CarriedOnce(f, Tail(ioq), pend, out)
  BY Zenon DEF Outward, OutwardOnce, Carried, CarriedOnce
<1> QED BY <1>2, <1>3, Zenon DEF OutKept

LEMMA JustWrittenOutKept ==
  ASSUME Basics, ioq # <<>>, Written(Writing)
  PROVE  OutKept
<1>1. ioq' = Tail(ioq) /\ out' = out /\ pend' = pend
  BY DEF Written, Writing
<1> QED BY <1>1, HandlerOutKept

(* Other steps that post a handler, or none.                               *)
LEMMA PostedOutKept ==
  ASSUME Basics, NEW x \in Handlers, ioq' = Append(ioq, x), UNCHANGED <<pend, out>>
  PROVE  /\ x.h # "begin_write_frame" => OutKept
         /\ \A g \in Frames : x = Write(g) => OutAdds(g)
<1>1. ioq \in Seq(Handlers)
  BY DEF Basics, TypeOK, MgrTypeOK
<1>2. \A f : /\ Occurs(Write(f), ioq') <=> Write(f) = x \/ Occurs(Write(f), ioq)
             /\ Once(Write(f), ioq) /\ (Write(f) = x => ~Occurs(Write(f), ioq))
                => Once(Write(f), ioq')
  BY <1>1, OccursInAppend, Zenon
<1>3. \A f : /\ FramesOf(pend') = FramesOf(pend) /\ Occurs(f, out') <=> Occurs(f, out)
             /\ Once(f, out') <=> Once(f, out)
  OBVIOUS
<1>4. ASSUME x.h # "begin_write_frame"
      PROVE  OutKept
  <2>1. \A f : Write(f) # x
    BY <1>4 DEF Write
  <2> QED BY <1>2, <1>3, <2>1, Zenon DEF OutKept, Outward, OutwardOnce, Carried, CarriedOnce
<1>5. ASSUME NEW g \in Frames, x = Write(g)
      PROVE  OutAdds(g)
  <2>1. \A f : Write(f) = x => f = g
    BY <1>5 DEF Write
  <2> QED BY <1>2, <1>3, <1>5, <2>1, Zenon
          DEF OutAdds, Outward, OutwardOnce, Carried, CarriedOnce
<1> QED BY <1>4, <1>5

(* The kernel takes the rest of a frame, or loses it.                      *)
LEMMA WriteCompletesOutKept ==
  ASSUME Basics, WriteCompletes \/ WriteFails
  PROVE  OutKept
<1>1. /\ ioq \in Seq(Handlers) /\ pend \in Seq(PendingWrites) /\ out \in Seq(Frames)
      /\ FramesOf(pend) \in Seq(Frames)
  BY FramesOfType DEF Basics, TypeOK, MgrTypeOK, PendingWrites
<1>2. /\ pend # <<>> /\ pend' = Tail(pend)
      /\ \E ok \in BOOLEAN : ioq' = Append(ioq, Wrote(ok))
      /\ out' = out \/ \E g \in {Head(pend).f, Garbage} : out' = Append(out, g)
  BY DEF WriteCompletes, WriteFails
<1>3. /\ FramesOf(pend) # <<>> /\ FramesOf(pend') = Tail(FramesOf(pend))
      /\ Head(FramesOf(pend)) = Head(pend).f
  BY <1>1, <1>2, FramesOfTail
<1>4. PICK ok \in BOOLEAN : ioq' = Append(ioq, Wrote(ok))
  BY <1>2
<1> DEFINE g == Head(pend).f
<1>5. g \in Frames
  <2>1. Head(pend) \in PendingWrites
    BY <1>1, <1>2
  <2> QED BY <2>1 DEF PendingWrites
<1>6. ASSUME NEW f \in RealFrames
      PROVE  /\ Occurs(Write(f), ioq') <=> Occurs(Write(f), ioq)
             /\ Once(Write(f), ioq) => Once(Write(f), ioq')
  <2>1. Write(f) # Wrote(ok)
    BY DEF Write, Wrote
  <2>2. Wrote(ok) \in Handlers
    BY HandlerTypes, Zenon
  <2> QED BY <1>1, <1>4, <2>1, <2>2, OccursInAppend, Zenon
<1>7. ASSUME NEW f \in RealFrames
      PROVE  /\ Occurs(f, FramesOf(pend)) <=> f = g \/ Occurs(f, FramesOf(pend'))
             /\ Once(f, FramesOf(pend)) => Once(f, FramesOf(pend'))
             /\ Once(f, FramesOf(pend)) /\ f = g => ~Occurs(f, FramesOf(pend'))
  BY <1>1, <1>3, OccursInTail
<1>8. ASSUME NEW f \in RealFrames
      PROVE  /\ Occurs(f, out') => f = g \/ Occurs(f, out)
             /\ Once(f, out) /\ (f = g => ~Occurs(f, out)) => Once(f, out')
  <2>1. CASE out' = out
    BY <2>1, Zenon
  <2>2. ASSUME NEW x \in {g, Garbage}, out' = Append(out, x)
        PROVE  /\ Occurs(f, out') => f = g \/ Occurs(f, out)
               /\ Once(f, out) /\ (f = g => ~Occurs(f, out)) => Once(f, out')
    <3>1. x \in Frames /\ (f = x => f = g)
      BY <1>5, <2>2, FrameType DEF RealFrames
    <3>2. /\ Occurs(f, out') <=> f = x \/ Occurs(f, out)
          /\ Once(f, out) /\ (f = x => ~Occurs(f, out)) => Once(f, out')
      BY <1>1, <2>2, <3>1, OccursInAppend
    <3> QED BY <3>1, <3>2, Zenon
  <2> QED BY <1>2, <2>1, <2>2
<1> HIDE DEF g
<1> QED BY <1>6, <1>7, <1>8, Zenon DEF OutKept, Outward, OutwardOnce, Carried, CarriedOnce

(* The broker reads a frame.                                               *)
LEMMA ReceivedOutTakes ==
  ASSUME Basics, out # <<>>, out' = Tail(out), UNCHANGED <<ioq, pend>>
  PROVE  \A g \in Frames : g = Request => OutTakes(g)
<1>1. out \in Seq(Frames)
  BY DEF Basics, TypeOK, MgrTypeOK
<1>2. \A f : /\ Occurs(f, out) <=> Request = f \/ Occurs(f, out')
             /\ Once(f, out) => Once(f, out')
             /\ Once(f, out) /\ Request = f => ~Occurs(f, out')
  BY <1>1, OccursInTail, Zenon DEF Request
<1>3. \A f : /\ Occurs(Write(f), ioq') <=> Occurs(Write(f), ioq)
             /\ Once(Write(f), ioq') <=> Once(Write(f), ioq)
             /\ Occurs(f, FramesOf(pend')) <=> Occurs(f, FramesOf(pend))
             /\ Once(f, FramesOf(pend')) <=> Once(f, FramesOf(pend))
  OBVIOUS
<1>4. OutKept
  BY <1>2, <1>3, Zenon DEF OutKept, Outward, OutwardOnce, Carried, CarriedOnce
<1>5. \A g : g = Request /\ OutwardOnce(g) => ~Outward(g)'
  BY <1>2, <1>3, Zenon DEF Outward, OutwardOnce, Carried, CarriedOnce
<1> QED BY <1>4, <1>5, Zenon DEF OutTakes

(* The frames the kernel has accepted are lost.                            *)
LEMMA LostOutKept ==
  ASSUME out' = <<>>, UNCHANGED <<ioq, pend>>
  PROVE  OutKept
<1>1. \A f : ~Occurs(f, out') /\ Once(f, out')
  BY DEF Occurs, Once
<1>2. \A f : /\ Occurs(Write(f), ioq') <=> Occurs(Write(f), ioq)
             /\ Once(Write(f), ioq') <=> Once(Write(f), ioq)
             /\ Occurs(f, FramesOf(pend')) <=> Occurs(f, FramesOf(pend))
             /\ Once(f, FramesOf(pend')) <=> Once(f, FramesOf(pend))
  OBVIOUS
<1> QED BY <1>1, <1>2, Zenon DEF OutKept, Outward, OutwardOnce, Carried, CarriedOnce

LEMMA SameOutKept ==
  ASSUME UNCHANGED <<ioq, pend, out>>
  PROVE  OutKept
BY Zenon DEF OutKept, Outward, OutwardOnce, Carried, CarriedOnce

-----------------------------------------------------------------------------
(***************************************************************************)
(* Frames from the broker.                                                 *)
(***************************************************************************)
LEMMA BehindIsInward ==
  \A f, g : Behind(f, g) => Inward(f) /\ Inward(g)
BY Zenon DEF Behind, Inward, Occurs

(* A handler takes itself out of the queue.                                *)
LEMMA RunTakes ==
  ASSUME Basics, HandlerRuns, NEW x, x.h # "on_write_frame"
  PROVE  Occurs(x, ioq') => Occurs(x, ioq)
<1>1. /\ ioq \in Seq(Handlers) /\ ioq # <<>> /\ Tail(ioq) \in Seq(Handlers)
      /\ ioq' \in Seq(Handlers) /\ QueueGrows(Tail(ioq), ioq')
  BY DEF Basics, TypeOK, MgrTypeOK, HandlerRuns
<1>2. Occurs(x, ioq') => Occurs(x, Tail(ioq))
  BY <1>1, OccursInGrown
<1>3. Occurs(x, Tail(ioq)) => Occurs(x, ioq)
  BY <1>1, OccursInTail
<1> QED BY <1>2, <1>3

LEMMA HandlerInKept ==
  ASSUME Basics, HandlerRuns, in' = in
  PROVE  InKept
<1>1. ASSUME NEW f
      PROVE  Occurs(ReadBody(TRUE, f), ioq') => Occurs(ReadBody(TRUE, f), ioq)
  <2>1. ReadBody(TRUE, f).h # "on_write_frame"
    BY DEF ReadBody
  <2> QED BY <2>1, RunTakes
<1> QED BY <1>1, Zenon DEF InKept, Inward, Behind

(* The handler of the frame the broker sent first.                         *)
LEMMA HandlerInTakes ==
  ASSUME Basics, ReadExclusive, HandlerRuns, in' = in, NEW h, Head(ioq) = ReadBody(TRUE, h)
  PROVE  InTakes(h)
<1>1. ioq \in Seq(Handlers) /\ ioq # <<>> /\ ioq' \in Seq(Handlers)
  BY DEF Basics, TypeOK, MgrTypeOK, HandlerRuns
<1>2. ReadHandlers' = {}
  <2>1. Head(ioq).h \in ReadNames
    BY DEF ReadBody, ReadNames
  <2>2. /\ \A i : i \in ReadHandlers' => i \in Nat \ {0} /\ i + 1 \in ReadHandlers
        /\ 1 \in ReadHandlers
    BY <1>1, <2>1, ReadsAfterRun
  <2> QED BY <2>2 DEF ReadExclusive
<1>3. ASSUME NEW f
      PROVE  ~Occurs(ReadBody(TRUE, f), ioq')
  <2>1. \A j \in DOMAIN ioq' : ioq'[j].h # "on_frame_body_read"
    BY <1>2 DEF ReadHandlers
  <2> QED BY <2>1 DEF Occurs, ReadBody
<1>4. Occurs(ReadBody(TRUE, h), ioq)
  <2>1. 1 \in DOMAIN ioq /\ ioq[1] = Head(ioq)
    BY <1>1
  <2> QED BY <2>1, Zenon DEF Occurs
<1>5. InKept
  BY HandlerInKept
<1>6. ASSUME NEW f \in Frames, Inward(f)'
      PROVE  Behind(h, f)
  BY <1>3, <1>4, <1>6 DEF Inward, Behind
<1> QED BY <1>5, <1>6 DEF InTakes

(* A handler is posted, or none; no frame is read.                         *)
LEMMA PostedInKept ==
  ASSUME Basics, in' = in,
         \/ ioq' = ioq
         \/ \E x \in Handlers : /\ ioq' = Append(ioq, x)
                                /\ \A f : x # ReadBody(TRUE, f)
  PROVE  InKept
<1>1. ioq \in Seq(Handlers)
  BY DEF Basics, TypeOK, MgrTypeOK
<1>2. \A f : Occurs(ReadBody(TRUE, f), ioq') <=> Occurs(ReadBody(TRUE, f), ioq)
  <2>1. CASE ioq' = ioq
    BY <2>1
  <2>2. ASSUME NEW x \in Handlers, ioq' = Append(ioq, x), \A f : x # ReadBody(TRUE, f)
        PROVE  \A f : Occurs(ReadBody(TRUE, f), ioq') <=> Occurs(ReadBody(TRUE, f), ioq)
    BY <1>1, <2>2, OccursInAppend, Zenon
  <2> QED BY <2>1, <2>2
<1> QED BY <1>2, Zenon DEF InKept, Inward, Behind

(* The first frame is read.                                                *)
LEMMA BodyArrivesInKept ==
  ASSUME Basics, BodyArrives
  PROVE  InKept
<1> DEFINE h == Head(in)
<1>1. /\ ioq \in Seq(Handlers) /\ in \in Seq(Frames) /\ in # <<>>
      /\ ioq' = Append(ioq, ReadBody(TRUE, h)) /\ in' = Tail(in)
  BY DEF Basics, TypeOK, MgrTypeOK, BodyArrives
<1>2. h \in Frames /\ ReadBody(TRUE, h) \in Handlers
  <2>1. h \in Frames
    BY <1>1
  <2> QED BY <2>1, HandlerTypes, Zenon
<1>3. /\ Len(in) \in Nat /\ DOMAIN in = 1 .. Len(in) /\ 1 \in DOMAIN in /\ in[1] = h
      /\ DOMAIN in' = 1 .. Len(in) - 1
      /\ \A j \in 1 .. Len(in) - 1 : in'[j] = in[j + 1]
  BY <1>1
<1> HIDE DEF h
<1>4. \A f : Occurs(ReadBody(TRUE, f), ioq') => f = h \/ Occurs(ReadBody(TRUE, f), ioq)
  <2>1. \A f : ReadBody(TRUE, f) = ReadBody(TRUE, h) => f = h
    BY DEF ReadBody
  <2> QED BY <1>1, <1>2, <2>1, OccursInAppend, Zenon
<1>5. \A f : Occurs(f, in') => Occurs(f, in)
  BY <1>3 DEF Occurs
<1>6. Occurs(h, in)
  BY <1>3 DEF Occurs
<1>7. ASSUME NEW f, NEW g, Behind(f, g)'
      PROVE  Behind(f, g)
  <2>1. CASE Occurs(ReadBody(TRUE, f), ioq) /\ Occurs(g, in')
    BY <1>5, <2>1 DEF Behind
  <2>2. CASE f = h /\ Occurs(g, in')
    <3>1. PICK j \in DOMAIN in' : in'[j] = g
      BY <2>2 DEF Occurs
    <3>2. 1 < j + 1 /\ j + 1 \in DOMAIN in /\ in[j + 1] = g
      BY <1>3, <3>1
    <3> QED BY <1>3, <2>2, <3>2 DEF Behind
  <2>3. CASE \E j, k \in DOMAIN in' : j < k /\ in'[j] = f /\ in'[k] = g
    <3>1. PICK j \in DOMAIN in', k \in DOMAIN in' : j < k /\ in'[j] = f /\ in'[k] = g
      BY <2>3
    <3>2. /\ j + 1 < k + 1 /\ j + 1 \in DOMAIN in /\ k + 1 \in DOMAIN in
          /\ in[j + 1] = f /\ in[k + 1] = g
      BY <1>3, <3>1
    <3> QED BY <3>2 DEF Behind
  <2> QED BY <1>4, <1>7, <2>1, <2>2, <2>3 DEF Behind
<1>8. \A f : Inward(f)' => Inward(f)
  BY <1>4, <1>5, <1>6, Zenon DEF Inward
<1> QED BY <1>7, <1>8 DEF InKept

(* The broker sends a frame.                                               *)
LEMMA SentInAdds ==
  ASSUME Basics, NEW h \in Frames, in' = Append(in, h), UNCHANGED ioq
  PROVE  InAdds(h)
<1>1. /\ in \in Seq(Frames) /\ Len(in) \in Nat /\ DOMAIN in = 1 .. Len(in)
      /\ DOMAIN in' = 1 .. Len(in) + 1 /\ in'[Len(in) + 1] = h
      /\ \A j \in 1 .. Len(in) : in'[j] = in[j]
  BY DEF Basics, TypeOK, MgrTypeOK
<1>2. \A f : /\ Occurs(f, in') <=> f = h \/ Occurs(f, in)
             /\ Occurs(ReadBody(TRUE, f), ioq') <=> Occurs(ReadBody(TRUE, f), ioq)
  BY <1>1, OccursInAppend
<1>3. \A f : Inward(f)' => Inward(f) \/ f = h
  BY <1>2, Zenon DEF Inward
<1>4. ASSUME NEW f, NEW g, Behind(f, g)'
      PROVE  Behind(f, g) \/ (g = h /\ Inward(f))
  <2>1. CASE Occurs(ReadBody(TRUE, f), ioq) /\ Occurs(g, in')
    BY <1>2, <2>1, Zenon DEF Behind, Inward
  <2>2. CASE \E j, k \in DOMAIN in' : j < k /\ in'[j] = f /\ in'[k] = g
    <3>1. PICK j \in DOMAIN in', k \in DOMAIN in' : j < k /\ in'[j] = f /\ in'[k] = g
      BY <2>2
    <3>2. j \in DOMAIN in /\ in[j] = f
      BY <1>1, <3>1
    <3>3. (k \in DOMAIN in /\ in[k] = g) \/ g = h
      BY <1>1, <3>1
    <3> QED BY <3>1, <3>2, <3>3, Zenon DEF Behind, Inward, Occurs
  <2> QED BY <1>2, <1>4, <2>1, <2>2 DEF Behind
<1> QED BY <1>3, <1>4 DEF InAdds

(* What has not been read yet may be lost from some frame on, or the       *)
(* frame without a body that is first be read.                             *)
LEMMA LostInKept ==
  ASSUME Basics, NEW n \in 0 .. Len(in), in' = SubSeq(in, 1, n), UNCHANGED ioq
  PROVE  InKept
<1>1. /\ in \in Seq(Frames) /\ Len(in) \in Nat /\ DOMAIN in = 1 .. Len(in)
      /\ DOMAIN in' = 1 .. n /\ \A j \in 1 .. n : in'[j] = in[j]
  BY DEF Basics, TypeOK, MgrTypeOK
<1>2. \A f : /\ Occurs(f, in') => Occurs(f, in)
             /\ Occurs(ReadBody(TRUE, f), ioq') <=> Occurs(ReadBody(TRUE, f), ioq)
  BY <1>1 DEF Occurs
<1>3. \A j \in DOMAIN in' : j \in DOMAIN in /\ in'[j] = in[j]
  BY <1>1
<1> QED BY <1>2, <1>3, Zenon DEF InKept, Inward, Behind

LEMMA HeaderArrivesInKept ==
  ASSUME Basics, HeaderArrives
  PROVE  InKept
<1>1. /\ ioq \in Seq(Handlers) /\ in \in Seq(Frames) /\ in # <<>> /\ Len(in) \in Nat
      /\ ioq' = Append(ioq, ReadHeader(TRUE, Head(in))) /\ (in' = in \/ in' = Tail(in))
  BY DEF Basics, TypeOK, MgrTypeOK, HeaderArrives
<1>2. ReadHeader(TRUE, Head(in)) \in Handlers
  <2>1. Head(in) \in Frames
    BY <1>1
  <2> QED BY <2>1, HandlerTypes, Zenon
<1>3. \A f : ReadBody(TRUE, f) # ReadHeader(TRUE, Head(in))
  BY DEF ReadBody, ReadHeader
<1>4. \A f : Occurs(ReadBody(TRUE, f), ioq') <=> Occurs(ReadBody(TRUE, f), ioq)
  BY <1>1, <1>2, <1>3, OccursInAppend, Zenon
<1>5. CASE in' = in
  BY <1>4, <1>5, Zenon DEF InKept, Inward, Behind
<1>6. CASE in' = Tail(in)
  <2>1. /\ DOMAIN in = 1 .. Len(in) /\ DOMAIN in' = 1 .. Len(in) - 1
        /\ \A j \in 1 .. Len(in) - 1 : in'[j] = in[j + 1]
    BY <1>1, <1>6
  <2>2. \A f : Occurs(f, in') => Occurs(f, in)
    <3>1. \A j \in DOMAIN in' : j + 1 \in DOMAIN in /\ in[j + 1] = in'[j]
      BY <1>1, <2>1
    <3> QED BY <3>1, Zenon DEF Occurs
  <2>3. ASSUME NEW f, NEW g, Behind(f, g)'
        PROVE  Behind(f, g)
    <3>1. CASE Occurs(ReadBody(TRUE, f), ioq') /\ Occurs(g, in')
      BY <1>4, <2>2, <3>1 DEF Behind
    <3>2. CASE \E j, k \in DOMAIN in' : j < k /\ in'[j] = f /\ in'[k] = g
      <4>1. PICK j \in DOMAIN in', k \in DOMAIN in' : j < k /\ in'[j] = f /\ in'[k] = g
        BY <3>2
      <4>2. /\ j + 1 < k + 1 /\ j + 1 \in DOMAIN in /\ k + 1 \in DOMAIN in
            /\ in[j + 1] = f /\ in[k + 1] = g
        BY <1>1, <2>1, <4>1
      <4> QED BY <4>2 DEF Behind
    <3> QED BY <2>3, <3>1, <3>2 DEF Behind
  <2> QED BY <1>4, <2>2, <2>3, Zenon DEF InKept, Inward
<1> QED BY <1>1, <1>5, <1>6

=============================================================================
