------------------------- MODULE SpeakerRingProofs -------------------------
(***************************************************************************)
(* What SpeakerRing keeps for any ring, any block and any chunks.          *)
(*                                                                         *)
(* Every device frame between the read and the write position belongs to   *)
(* one outstanding handle, whose span says which frame of its chunk it is; *)
(* what a chunk has been heard of is the part of its span behind the read  *)
(* position.                                                               *)
(***************************************************************************)
EXTENDS SpeakerRing, FiniteSetTheorems, NaturalsInduction, TLAPS

Rates  == {s.rate : s \in Shapes}
Handle == [order : Nat, gen : Nat, len : Nat, start : Int, end : Int]

Waiting == [at : {"waiting"}, gen : Nat, len : Nat, rate : Rates, final : BOOLEAN]
Writing == [at : {"writing"}, gen : Nat, len : Nat, order : Nat, offset : Nat]
Copying == [at : {"copying"}, from : Int, n : Int]

(* Types, and the ledger: who made a handle, and how many there may be. *)
LedgerInv ==
  /\ genSeq \in 0..MaxGenerations /\ invalidated \subseteq 1..genSeq
  /\ outstanding \subseteq Handle
  /\ IsFiniteSet(outstanding) /\ Cardinality(outstanding) <= Capacity
  /\ owners \in Seq(1..genSeq)
  /\ \A h \in outstanding : h.order \in 1..chunks /\ owners[h.order] = h.gen
  /\ \A h, k \in outstanding : h.order = k.order => h = k
  /\ \A h, k \in outstanding : h.gen = k.gen
  /\ call \in {Nothing} \cup Waiting \cup Writing
  /\ call # Nothing => call.gen \in 1..genSeq
  /\ call.at = "writing" =>
       /\ call.order \in 1..chunks /\ owners[call.order] = call.gen
       /\ call.offset <= call.len /\ \A h \in outstanding : h.gen = call.gen
  /\ phase \in {"running", "closed"}
  /\ phase = "closed" => outstanding = {} /\ call = Nothing /\ callback = Nothing
  /\ heard \in Seq(Nat) /\ Len(heard) <= chunks
  /\ resampler \in Rates \cup {0}
  /\ harm \subseteq Harms

(* The two positions and the callback between them, torn or not. *)
PositionsInv ==
  /\ write \in Int /\ read \in Int /\ maxPresented \in Int
  /\ write - read \in (-BlockSize)..(RingSize + BlockSize)
  /\ callback \in {Nothing} \cup Copying
  /\ callback # Nothing =>
       /\ callback.from = read
       /\ callback.n \in (-BlockSize)..BlockSize /\ callback.n <= write - read
       /\ callback.n < 0 => write - read <= RingSize
  /\ "torn" \notin harm =>
       /\ read <= write /\ write - read <= RingSize
       /\ maxPresented <= read
       /\ callback # Nothing => callback.n > 0

(* The frame at a position. *)
At(r, p) == r[p % RingSize]

(* Nothing of a stopped generation is between the positions. *)
SilenceInv ==
  harm \cap {"torn", "failed"} = {} =>
    /\ \A h \in outstanding : h.gen \notin invalidated
    /\ \A p \in read..(write - 1) :
         LET o == At(ring, p).order
         IN  o \in 1..chunks /\ owners[o] \notin invalidated

Unharmed == phase = "running" /\ harm \cap {"torn", "cut", "others"} = {}

(* Spans follow each other in the order of the handles. *)
SpansInOrder ==
  /\ \A h \in outstanding : h.end = h.start + h.len
  /\ \A h, k \in outstanding : h.order < k.order => h.end <= k.start

(* What is queued is of outstanding handles, frame by frame. *)
QueuedIsSpanned ==
  \A p \in read..(write - 1) :
    \E h \in outstanding :
      h.start <= p /\ p < h.end /\ At(ring, p) = Frame(h.order, p - h.start)

(* What has been heard of a handle is the part of its span already read. *)
HeardOfSpan(h) == Greatest(0, Least(h.len, read - h.start))
HeardIsSpan == \A h \in outstanding : HeardOf(h.order) = HeardOfSpan(h)

(* The last handle reaches as far as what is written; the schedule() in    *)
(* progress is writing it, and apart from it every handle is written.      *)
IsLast(h) == h \in outstanding /\ \A k \in outstanding : k.order <= h.order
LastIsWritten ==
  /\ \A h \in outstanding : IsLast(h) => h.end >= write
  /\ call.at = "writing" /\ call.gen \notin invalidated =>
       \E h \in outstanding :
         /\ IsLast(h) /\ h.order = call.order /\ h.gen = call.gen /\ h.len = call.len
         /\ h.start + call.offset = write /\ call.offset < call.len
  /\ call.at # "writing" =>
       \A h \in outstanding : h.gen \notin invalidated => h.end <= write

SpansInv ==
  Unharmed => SpansInOrder /\ QueuedIsSpanned /\ HeardIsSpan /\ LastIsWritten

RingInv == LedgerInv /\ PositionsInv /\ SilenceInv /\ SpansInv

---------------------------------------------------------------------------
(* Slots of the ring. *)

LEMMA Sizes ==
  /\ Capacity \in Nat \ {0} /\ RingSize \in Nat \ {0} /\ BlockSize \in Nat \ {0}
  /\ TailLength \in Nat /\ MaxGenerations \in Nat /\ MaxChunks \in Nat
  /\ \A s \in Shapes : s.len \in Nat /\ s.rate \in Rates /\ s.final \in BOOLEAN
  /\ 0 \notin Rates
BY SpeakerAssumption DEF Rates

(* Positions less than a ring apart have slots of their own. *)
LEMMA SlotsApart ==
  ASSUME NEW p \in Int, NEW q \in Int, p < q, q < p + RingSize
  PROVE  p % RingSize # q % RingSize
<1> SUFFICES ASSUME p % RingSize = q % RingSize PROVE FALSE
  OBVIOUS
<1>1. \A x \in Int : x \div RingSize \in Int /\ x % RingSize = x - RingSize * (x \div RingSize)
  BY Sizes
<1>2. PICK a \in Int : p % RingSize = p - RingSize * a
  BY <1>1
<1>3. PICK b \in Int : q % RingSize = q - RingSize * b
  BY <1>1
<1>4. RingSize * (b - a) = q - p
  BY <1>2, <1>3, Sizes
<1> QED
  BY <1>4, Sizes

LEMMA SlotInRing ==
  ASSUME NEW p \in Int
  PROVE  p % RingSize \in 0..(RingSize - 1)
BY Sizes

(* _ring_write() puts its frames where they belong ... *)
LEMMA RingHolds ==
  ASSUME NEW r, NEW pos \in Int, NEW n \in Nat, n <= RingSize,
         NEW frames, DOMAIN frames = 1..n
  PROVE  \A p \in pos..(pos + n - 1) :
            At(RingWith(r, pos, frames), p) = frames[p - pos + 1]
<1> DEFINE Is(s) == {i \in DOMAIN frames : (pos + i - 1) % RingSize = s}
           after == RingWith(r, pos, frames)
           Top(is) == CHOOSE i \in is : \A j \in is : j <= i
<1> SUFFICES ASSUME NEW p \in pos..(pos + n - 1)
             PROVE  At(after, p) = frames[p - pos + 1]
  OBVIOUS
<1>1. p - pos + 1 \in 1..n /\ pos + (p - pos + 1) - 1 = p /\ p \in Int
  OBVIOUS
<1>2. \A i \in 1..n : (pos + i - 1) % RingSize = p % RingSize => i = p - pos + 1
  <2> SUFFICES ASSUME NEW i \in 1..n, i # p - pos + 1
               PROVE  (pos + i - 1) % RingSize # p % RingSize
    OBVIOUS
  <2>1. PICK q \in Int : q = pos + i - 1
    OBVIOUS
  <2>2. q # p /\ p \in Int /\ q < p + RingSize /\ p < q + RingSize
    BY <2>1, Sizes
  <2>3. p % RingSize # q % RingSize
    BY <2>2, SlotsApart
  <2> QED
    BY <2>1, <2>3
<1>3. Is(p % RingSize) = {p - pos + 1}
  BY <1>1, <1>2
<1>4. Top(Is(p % RingSize)) = p - pos + 1
  <2>1. Top({p - pos + 1}) = p - pos + 1
    BY <1>1
  <2> QED
    BY <1>3, <2>1
<1>5. At(after, p) = frames[Top(Is(p % RingSize))]
  <2>1. p % RingSize \in 0..(RingSize - 1)
    BY <1>1, SlotInRing
  <2> QED
    BY <1>3, <2>1 DEF RingWith, At
<1> HIDE DEF after, Is, Top
<1> QED
  BY <1>4, <1>5

(* ... and spares the others. *)
LEMMA RingSpares ==
  ASSUME NEW r, NEW pos \in Int, NEW n \in Nat, n <= RingSize,
         NEW frames, DOMAIN frames = 1..n
  PROVE  \A p \in (pos + n - RingSize)..(pos - 1) :
            At(RingWith(r, pos, frames), p) = At(r, p)
<1> SUFFICES ASSUME NEW p \in (pos + n - RingSize)..(pos - 1)
             PROVE  At(RingWith(r, pos, frames), p) = At(r, p)
  OBVIOUS
<1>1. p \in Int /\ p % RingSize \in 0..(RingSize - 1)
  <2>1. p \in Int
    BY Sizes
  <2> QED
    BY <2>1, SlotInRing
<1>2. \A i \in 1..n : (pos + i - 1) % RingSize # p % RingSize
  <2> SUFFICES ASSUME NEW i \in 1..n PROVE (pos + i - 1) % RingSize # p % RingSize
    OBVIOUS
  <2>1. PICK q \in Int : q = pos + i - 1
    OBVIOUS
  <2>2. p < q /\ q < p + RingSize
    BY <1>1, <2>1, Sizes
  <2> QED
    BY <1>1, <2>1, <2>2, SlotsApart
<1>3. {i \in DOMAIN frames : (pos + i - 1) % RingSize = p % RingSize} = {}
  BY <1>2
<1> QED
  BY <1>1, <1>3 DEF RingWith, At

---------------------------------------------------------------------------
(* The steps of schedule(). *)

LEMMA WriteLoopFacts ==
  ASSUME PositionsInv, NEW c \in Writing, c.offset <= c.len,
         NEW pos \in Int, NEW r, WriteLoop(c, pos, r)
  PROVE  \E n \in Nat :
           /\ write' = pos + n
           /\ n <= c.len - c.offset /\ (n > 0 => write' - read <= RingSize)
           /\ \/ call' = Nothing
              \/ c.offset + n < c.len /\ call' = [c EXCEPT !.offset = @ + n]
           /\ pos - read \in 0..RingSize =>
                /\ n <= RingSize
                /\ ring' = RingWith(r, pos, [i \in 1..n |-> Frame(c.order, c.offset + i - 1)])
                /\ call' = Nothing => c.offset + n = c.len
<1> DEFINE m == Room(c, pos)
<1>1. read \in Int
  BY DEF PositionsInv
<1>2. m \in Nat /\ m <= c.len - c.offset /\ (m > 0 => pos + m - read <= RingSize)
  BY <1>1, Sizes DEF Room, Greatest, Least, Writing
<1>3. pos - read \in 0..RingSize => m <= RingSize /\ ~((pos % RingSize) + m > 2 * RingSize)
  <2>1. PICK s \in 0..(RingSize - 1) : s = pos % RingSize
    BY SlotInRing
  <2> HIDE DEF m
  <2> QED
    BY <1>1, <1>2, <2>1, Sizes
<1> HIDE DEF m
<1>4. CASE (pos % RingSize) + m > 2 * RingSize
  <2>1. call' = Nothing /\ write' = pos
    BY <1>4 DEF WriteLoop, m
  <2>2. write' = pos + 0 /\ 0 <= c.len - c.offset /\ ~(pos - read \in 0..RingSize)
    BY <1>3, <1>4, <2>1 DEF Writing
  <2> QED
    <3> WITNESS 0 \in Nat
    <3> QED
      BY <2>1, <2>2
<1>5. CASE ~((pos % RingSize) + m > 2 * RingSize)
  <2>1. /\ write' = pos + m
        /\ ring' = RingWith(r, pos, [i \in 1..m |-> Frame(c.order, c.offset + i - 1)])
        /\ call' = IF c.offset + m = c.len THEN Nothing ELSE [c EXCEPT !.offset = @ + m]
    BY <1>5 DEF WriteLoop, m
  <2>2. c.offset + m # c.len => c.offset + m < c.len
    BY <1>2 DEF Writing
  <2>3. c.offset + m # c.len => call' # Nothing
    BY <2>1 DEF Writing, Nothing
  <2> QED
    <3>1. m \in Nat
      BY <1>2
    <3>2. m > 0 => write' - read <= RingSize
      <4>1. write' = pos + m
        BY <2>1
      <4> QED
        BY <1>1, <1>2, <4>1
    <3>3. \/ call' = Nothing
          \/ c.offset + m < c.len /\ call' = [c EXCEPT !.offset = @ + m]
      BY <2>1, <2>2
    <3>4. call' = Nothing => c.offset + m = c.len
      BY <2>3
    <3> WITNESS m \in Nat
    <3> QED
      BY <1>2, <1>3, <2>1, <3>2, <3>3, <3>4
<1> QED
  BY <1>4, <1>5

LEMMA LeastNumber ==
  ASSUME NEW T \in SUBSET Nat, T # {}
  PROVE  \E x \in T : \A y \in T : x <= y
<1> DEFINE R == {ss \in Nat \X Nat : ss[1] < ss[2]}
<1>1. IsWellFoundedOn(R, Nat)
  BY NatLessThanWellFounded DEF OpToRel
<1> HIDE DEF R
<1>2. PICK x \in T : \A y \in T : ~(<<y, x>> \in R)
  BY <1>1, WFMin, Zenon
<1>3. \A y \in T : ~(y < x)
  BY <1>2 DEF R
<1> QED
  BY <1>3

LEMMA LastExists ==
  ASSUME LedgerInv, outstanding # {}
  PROVE  IsLast(LastHandle)
<1> DEFINE Behind(n) == \E h \in outstanding : chunks - h.order = n
           Gaps == {n \in Nat : Behind(n)}
<1>1. \A h \in outstanding : chunks - h.order \in Nat /\ h.order \in Nat /\ chunks \in Nat
  <2>1. chunks \in Nat /\ \A h \in outstanding : h.order \in 1..chunks
    BY DEF LedgerInv, chunks
  <2> QED
    BY <2>1
<1>2. Gaps # {}
  BY <1>1
<1>3. PICK n \in Gaps : \A m \in Gaps : n <= m
  <2> HIDE DEF Gaps
  <2>1. Gaps \in SUBSET Nat
    BY DEF Gaps
  <2> QED
    BY <1>2, <2>1, LeastNumber
<1>4. PICK h \in outstanding : chunks - h.order = n
  BY <1>3
<1>5. \A k \in outstanding : k.order <= h.order
  BY <1>1, <1>3, <1>4
<1> QED
  BY <1>4, <1>5 DEF LastHandle, IsLast

LEMMA TailFacts ==
  ASSUME LedgerInv, PositionsInv, NEW rate
  PROVE  /\ TailOwed(rate) \in Nat /\ TailWritten(rate) \in 0..TailOwed(rate)
         /\ TailWritten(rate) > 0 => write + TailWritten(rate) - read <= RingSize
         /\ TailOwed(rate) # 0 => outstanding # {}
<1>1. TailOwed(rate) \in Nat /\ (TailOwed(rate) # 0 => outstanding # {})
  BY Sizes DEF TailOwed
<1> QED
  BY <1>1, Sizes DEF TailWritten, Least, Greatest, Space, PositionsInv

(* The record of a chunk whose writing begins. *)
Started(c) == [at |-> "writing", gen |-> c.gen, len |-> c.len, order |-> chunks + 1,
               offset |-> 0]

(* schedule() moves the write position over the tail and n frames of the   *)
(* chunk, and the slots in between hold them.                              *)
LEMMA EnterFacts ==
  ASSUME LedgerInv, PositionsInv, NEW c \in Waiting, c.gen \notin invalidated, Enter(c)
  PROVE  \E n \in Nat :
           LET fits == TailWritten(c.rate)
               from == write + fits
           IN  /\ write' = from + n /\ n <= c.len /\ (n > 0 => write' - read <= RingSize)
               /\ \/ call' = Nothing
                  \/ n < c.len /\ call' = [Started(c) EXCEPT !.offset = n]
               /\ "torn" \notin harm =>
                    /\ call' = Nothing => n = c.len
                    /\ write' - read <= RingSize
                    /\ \A p \in read..(write - 1) :
                         At(ring', p) = At(ring, p)
                    /\ \A p \in write..(from - 1) :
                         At(ring', p)
                           = Frame(LastHandle.order, LastHandle.len + (p - write))
                    /\ \A p \in from..(write' - 1) :
                         At(ring', p) = Frame(chunks + 1, p - from)
<1> DEFINE fits == TailWritten(c.rate)
           from == write + fits
           tail == [i \in 1..fits |-> Frame(LastHandle.order, LastHandle.len + i - 1)]
           tailed == RingWith(ring, write, tail)
           body(n) == [i \in 1..n |-> Frame(chunks + 1, 0 + i - 1)]
<1>1. Started(c) \in Writing /\ Started(c).offset = 0 /\ Started(c).len = c.len
      /\ Started(c).order = chunks + 1 /\ c.len \in Nat
  BY DEF Started, Writing, Waiting, LedgerInv, chunks
<1>2. fits \in Nat /\ (fits > 0 => from - read <= RingSize) /\ write \in Int /\ read \in Int
  BY TailFacts DEF PositionsInv
<1>3. WriteLoop(Started(c), from, tailed)
  BY DEF Enter, Started
<1>4. from \in Int
  BY <1>2
<1>5. PICK n \in Nat :
        /\ write' = from + n
        /\ n <= c.len - 0 /\ (n > 0 => write' - read <= RingSize)
        /\ \/ call' = Nothing
           \/ 0 + n < c.len /\ call' = [Started(c) EXCEPT !.offset = @ + n]
        /\ from - read \in 0..RingSize =>
             /\ n <= RingSize
             /\ ring' = RingWith(tailed, from, body(n))
             /\ call' = Nothing => 0 + n = c.len
  <2> DEFINE x == Started(c)
             written(n) == [i \in 1..n |-> Frame(x.order, x.offset + i - 1)]
  <2> HIDE DEF fits, from, tail, tailed
  <2>1. x \in Writing /\ x.offset <= x.len
    BY <1>1
  <2>2. PICK n \in Nat :
          /\ write' = from + n
          /\ n <= x.len - x.offset /\ (n > 0 => write' - read <= RingSize)
          /\ \/ call' = Nothing
             \/ x.offset + n < x.len /\ call' = [x EXCEPT !.offset = @ + n]
          /\ from - read \in 0..RingSize =>
               /\ n <= RingSize
               /\ ring' = RingWith(tailed, from, written(n))
               /\ call' = Nothing => x.offset + n = x.len
    <3> HIDE DEF x
    <3> QED
      BY <1>3, <1>4, <2>1, WriteLoopFacts, ZenonT(30) DEF x
  <2>3. written(n) = body(n)
    BY <1>1
  <2> HIDE DEF written, body
  <2>4. n <= c.len - 0 /\ 0 + n = x.offset + n /\ x.len = c.len
    BY <1>1, <2>2
  <2> QED
    BY <2>2, <2>3, <2>4
<1>6. call' = Nothing \/ (n < c.len /\ call' = [Started(c) EXCEPT !.offset = n])
  BY <1>1, <1>5
<1>7. ASSUME "torn" \notin harm
      PROVE  /\ call' = Nothing => n = c.len
             /\ write' - read <= RingSize
             /\ \A p \in read..(write - 1) : At(ring', p) = At(ring, p)
             /\ \A p \in write..(from - 1) :
                  At(ring', p) = Frame(LastHandle.order, LastHandle.len + (p - write))
             /\ \A p \in from..(write' - 1) :
                  At(ring', p) = Frame(chunks + 1, p - from)
  <2>1. read <= write /\ write - read <= RingSize
    BY <1>7 DEF PositionsInv
  <2>2. from - read \in 0..RingSize /\ fits <= RingSize
    BY <1>2, <2>1, Sizes
  <2>3. /\ n <= RingSize /\ ring' = RingWith(tailed, from, body(n))
        /\ call' = Nothing => n = c.len
    BY <1>1, <1>5, <2>2
  <2>4. DOMAIN tail = 1..fits /\ DOMAIN body(n) = 1..n
    OBVIOUS
  <2>5. /\ \A p \in write..(write + fits - 1) : At(tailed, p) = tail[p - write + 1]
        /\ \A p \in (write + fits - RingSize)..(write - 1) :
              At(tailed, p) = At(ring, p)
    <3> HIDE DEF tail, fits
    <3>1. \A p \in write..(write + fits - 1) : At(tailed, p) = tail[p - write + 1]
      BY <1>2, <2>2, <2>4, RingHolds
    <3>2. \A p \in (write + fits - RingSize)..(write - 1) : At(tailed, p) = At(ring, p)
      BY <1>2, <2>2, <2>4, RingSpares
    <3> QED
      BY <3>1, <3>2
  <2>6. /\ \A p \in from..(from + n - 1) : At(ring', p) = body(n)[p - from + 1]
        /\ \A p \in (from + n - RingSize)..(from - 1) :
              At(ring', p) = At(tailed, p)
    <3> HIDE DEF tailed, from, body
    <3>1. \A p \in from..(from + n - 1) : At(ring', p) = body(n)[p - from + 1]
      BY <1>4, <2>3, <2>4, RingHolds
    <3>2. \A p \in (from + n - RingSize)..(from - 1) :
             At(ring', p) = At(tailed, p)
      BY <1>4, <2>3, <2>4, RingSpares
    <3> QED
      BY <3>1, <3>2
  <2>7. \A p \in write..(from - 1) :
           tail[p - write + 1] = Frame(LastHandle.order, LastHandle.len + (p - write))
    <3> SUFFICES ASSUME NEW p \in write..(from - 1)
                 PROVE  tail[p - write + 1]
                          = Frame(LastHandle.order, LastHandle.len + (p - write))
      OBVIOUS
    <3>1. outstanding # {}
      BY <1>2, TailFacts DEF fits
    <3>2. LastHandle.len \in Nat
      BY <3>1, LastExists DEF IsLast, LedgerInv, Handle
    <3>3. p - write + 1 \in 1..fits
          /\ LastHandle.len + (p - write + 1) - 1 = LastHandle.len + (p - write)
      BY <1>2, <3>2
    <3> HIDE DEF fits
    <3> QED
      BY <3>3
  <2>8. \A p \in from..(from + n - 1) : body(n)[p - from + 1] = Frame(chunks + 1, p - from)
    <3> SUFFICES ASSUME NEW p \in from..(from + n - 1)
                 PROVE  body(n)[p - from + 1] = Frame(chunks + 1, p - from)
      OBVIOUS
    <3>1. p - from + 1 \in 1..n /\ 0 + (p - from + 1) - 1 = p - from
      BY <1>4
    <3> HIDE DEF from
    <3> QED
      BY <3>1
  <2>9. write' = from + n /\ write' - read <= RingSize
    BY <1>2, <1>4, <1>5, <2>2
  <2>10. /\ \A p \in read..(write - 1) : At(ring', p) = At(ring, p)
         /\ \A p \in write..(from - 1) : At(ring', p) = At(tailed, p)
    <3> HIDE DEF tailed, fits
    <3>1. \A p \in read..(from - 1) : p \in (from + n - RingSize)..(from - 1)
      BY <1>2, <1>4, <2>9, Sizes
    <3>2. \A p \in read..(write - 1) :
             p \in (write + fits - RingSize)..(write - 1) /\ p \in read..(from - 1)
      BY <1>2, <1>4, <2>9, Sizes
    <3>3. \A p \in write..(from - 1) : p \in read..(from - 1)
      BY <1>2, <1>4, <2>1
    <3> QED
      BY <2>5, <2>6, <3>1, <3>2, <3>3
  <2> QED
    <3> HIDE DEF tailed, tail, body, from
    <3>1. ASSUME NEW p \in write..(from - 1)
          PROVE  At(ring', p) = Frame(LastHandle.order, LastHandle.len + (p - write))
      <4>1. At(ring', p) = At(tailed, p)
        BY <2>10
      <4>2. At(tailed, p) = tail[p - write + 1]
        <5>1. p \in write..(write + fits - 1)
          BY <1>2 DEF from
        <5> HIDE DEF fits
        <5> QED
          BY <2>5, <5>1
      <4> QED
        BY <2>7, <4>1, <4>2
    <3>2. ASSUME NEW p \in from..(write' - 1)
          PROVE  At(ring', p) = Frame(chunks + 1, p - from)
      <4>1. p \in from..(from + n - 1)
        BY <1>4, <2>9
      <4>2. At(ring', p) = body(n)[p - from + 1]
        BY <2>6, <4>1
      <4> QED
        BY <2>8, <4>1, <4>2
    <3> QED
      BY <2>3, <2>9, <2>10, <3>1, <3>2, Zenon
<1> QED
  <2> WITNESS n \in Nat
  <2> QED
    BY <1>5, <1>6, <1>7, <1>1

(* The tail lengthens the last handle and leaves the others as they are. *)
Lengthened(h, k) == [h EXCEPT !.end = @ + k, !.len = @ + k]

LEMMA LengthenedFacts ==
  ASSUME NEW h \in Handle, NEW k \in Nat
  PROVE  /\ Lengthened(h, k) \in Handle
         /\ Lengthened(h, k).order = h.order /\ Lengthened(h, k).gen = h.gen
         /\ Lengthened(h, k).start = h.start
         /\ Lengthened(h, k).end = h.end + k /\ Lengthened(h, k).len = h.len + k
<1>1. PICK e \in Int : e = h.end + k
  BY DEF Handle
<1>2. PICK l \in Nat : l = h.len + k
  BY DEF Handle
<1>3. [h EXCEPT !.end = e, !.len = l] \in Handle
  BY DEF Handle
<1>4. Lengthened(h, k) \in Handle
  BY <1>1, <1>2, <1>3 DEF Lengthened
<1> QED
  BY <1>4 DEF Lengthened, Handle

LEMMA TailedHandles ==
  ASSUME LedgerInv, PositionsInv, NEW rate
  PROVE  LET after == WithTail(rate)
             owed  == TailOwed(rate)
         IN  /\ after \subseteq Handle
             /\ IsFiniteSet(after) /\ Cardinality(after) <= Cardinality(outstanding)
             /\ \A t \in after :
                  \/ t \in outstanding /\ (owed = 0 \/ t.order < LastHandle.order)
                  \/ owed # 0 /\ t = Lengthened(LastHandle, owed)
<1>1. TailOwed(rate) \in Nat /\ (TailOwed(rate) # 0 => IsLast(LastHandle))
  <2>1. TailOwed(rate) \in Nat /\ (TailOwed(rate) # 0 => outstanding # {})
    BY TailFacts
  <2>2. ASSUME TailOwed(rate) # 0 PROVE IsLast(LastHandle)
    <3>1. outstanding # {}
      BY <2>1, <2>2
    <3> QED
      BY <3>1, LastExists
  <2> QED
    BY <2>1, <2>2
<1>2. CASE TailOwed(rate) = 0
  <2>1. Cardinality(outstanding) \in Nat
    BY FS_CardinalityType DEF LedgerInv
  <2> QED
    BY <1>2, <2>1 DEF WithTail, LedgerInv
<1>3. CASE TailOwed(rate) # 0
  <2> DEFINE L == LastHandle
             others == outstanding \ {L}
             T == Lengthened(L, TailOwed(rate))
  <2>1. WithTail(rate) = others \cup {T}
    BY <1>3 DEF WithTail, Lengthened
  <2>2. L \in outstanding /\ \A k \in outstanding : k.order <= L.order
    BY <1>1, <1>3 DEF IsLast
  <2>3. T \in Handle
    BY <1>1, <2>2, LengthenedFacts DEF LedgerInv
  <2>4. /\ IsFiniteSet(others) /\ Cardinality(others) = Cardinality(outstanding) - 1
        /\ Cardinality(outstanding) \in Nat /\ Cardinality(others) \in Nat
    BY <2>2, FS_RemoveElement, FS_CardinalityType DEF LedgerInv
  <2>5. IsFiniteSet(others \cup {T})
        /\ Cardinality(others \cup {T}) <= Cardinality(others) + 1
    <3> HIDE DEF T, others
    <3>1. /\ IsFiniteSet(others \cup {T})
          /\ Cardinality(others \cup {T})
               = IF T \in others THEN Cardinality(others) ELSE Cardinality(others) + 1
      BY <2>4, FS_AddElement
    <3> QED
      BY <2>4, <3>1
  <2>6. \A t \in others : t \in outstanding /\ t.order < L.order
    BY <2>2 DEF LedgerInv, Handle
  <2> QED
    <3>1. others \cup {T} \subseteq Handle
      BY <2>3 DEF LedgerInv
    <3>2. Cardinality(others \cup {T}) <= Cardinality(outstanding)
      BY <2>4, <2>5
    <3> HIDE DEF T, others
    <3>3. \A t \in others \cup {T} :
            \/ t \in outstanding /\ t.order < L.order
            \/ t = T
      BY <2>6
    <3> QED
      BY <1>3, <2>1, <2>5, <3>1, <3>2, <3>3 DEF T
<1> QED
  BY <1>2, <1>3

LEMMA EnterLedger ==
  ASSUME LedgerInv, PositionsInv, phase = "running",
         NEW c \in Waiting, c.gen \in 1..genSeq, Schedulable(c.gen), Enter(c),
         UNCHANGED <<genSeq, invalidated, callback, phase, heard>>
  PROVE  LedgerInv'
<1>1. CASE c.gen \in invalidated
  <2>1. /\ call' = Nothing
        /\ UNCHANGED <<outstanding, write, ring, resampler, owners, harm>>
    BY <1>1 DEF Enter
  <2> QED
    BY <2>1 DEF LedgerInv, Nothing, chunks
<1>2. CASE c.gen \notin invalidated
  <2> DEFINE H == NewHandle(c)
             after == WithTail(c.rate)
  <2>1. /\ outstanding' = after \cup {H} /\ owners' = Append(owners, c.gen)
        /\ resampler' \in Rates \cup {0}
        /\ harm' \subseteq harm \cup {"cut"}
    BY <1>2 DEF Enter, Waiting
  <2>2. /\ Len(owners) \in Nat /\ owners' \in Seq(1..genSeq) /\ Len(owners') = Len(owners) + 1
        /\ owners'[Len(owners) + 1] = c.gen
        /\ \A o \in 1..Len(owners) : owners'[o] = owners[o]
    BY <2>1 DEF LedgerInv
  <2>3. H \in Handle /\ H.order = Len(owners) + 1 /\ H.gen = c.gen
    BY <2>2, TailFacts DEF NewHandle, Handle, chunks, Waiting, PositionsInv
  <2>4. /\ after \subseteq Handle
        /\ IsFiniteSet(after) /\ Cardinality(after) <= Cardinality(outstanding)
        /\ \A t \in after : \E h \in outstanding :
             /\ t.order = h.order /\ t.gen = h.gen
             /\ \/ t = h /\ (TailOwed(c.rate) = 0 \/ t.order < LastHandle.order)
                \/ TailOwed(c.rate) # 0 /\ h = LastHandle /\ t = Lengthened(h, TailOwed(c.rate))
    <3>1. TailOwed(c.rate) \in Nat
      BY TailFacts
    <3>2. TailOwed(c.rate) # 0 => LastHandle \in outstanding /\ LastHandle \in Handle
      BY LastExists, TailFacts DEF IsLast, LedgerInv
    <3>3. /\ after \subseteq Handle
          /\ IsFiniteSet(after) /\ Cardinality(after) <= Cardinality(outstanding)
      BY TailedHandles
    <3>4. ASSUME NEW t \in after
          PROVE  \E h \in outstanding :
                   /\ t.order = h.order /\ t.gen = h.gen
                   /\ \/ t = h /\ (TailOwed(c.rate) = 0 \/ t.order < LastHandle.order)
                      \/ TailOwed(c.rate) # 0 /\ h = LastHandle
                         /\ t = Lengthened(h, TailOwed(c.rate))
      BY <3>1, <3>2, TailedHandles, LengthenedFacts
    <3> QED
      BY <3>3, <3>4
  <2>5. \A t, u \in after : t.order = u.order => t = u
    <3> SUFFICES ASSUME NEW t \in after, NEW u \in after, t.order = u.order PROVE t = u
      OBVIOUS
    <3>1. PICK h \in outstanding : 
             /\ t.order = h.order
             /\ \/ t = h /\ (TailOwed(c.rate) = 0 \/ t.order < LastHandle.order)
                \/ TailOwed(c.rate) # 0 /\ h = LastHandle /\ t = Lengthened(h, TailOwed(c.rate))
      BY <2>4
    <3>2. PICK k \in outstanding : 
             /\ u.order = k.order
             /\ \/ u = k /\ (TailOwed(c.rate) = 0 \/ u.order < LastHandle.order)
                \/ TailOwed(c.rate) # 0 /\ k = LastHandle /\ u = Lengthened(k, TailOwed(c.rate))
      BY <2>4
    <3>3. h = k /\ h.order \in Nat
      BY <3>1, <3>2 DEF LedgerInv, Handle
    <3> QED
      BY <3>1, <3>2, <3>3
  <2>6. \A t \in after : t.order \in 1..Len(owners) /\ owners[t.order] = t.gen /\ t.gen = c.gen
    BY <1>2, <2>4 DEF LedgerInv, chunks, Schedulable
  <2>7. IsFiniteSet(outstanding') /\ Cardinality(outstanding') <= Capacity
    <3>1. Cardinality(outstanding) < Capacity /\ Cardinality(outstanding) \in Nat
      BY <1>2, FS_CardinalityType DEF Schedulable, LedgerInv
    <3>2. Cardinality(after) \in Nat
      BY <2>4, FS_CardinalityType
    <3> HIDE DEF after, H
    <3>3. /\ IsFiniteSet(after \cup {H})
          /\ Cardinality(after \cup {H})
               = IF H \in after THEN Cardinality(after) ELSE Cardinality(after) + 1
      BY <2>4, FS_AddElement
    <3> QED
      BY <2>1, <2>4, <3>1, <3>2, <3>3, Sizes
  <2> HIDE DEF after, H
  <2>8. \A h \in outstanding' : h.order \in 1..Len(owners') /\ owners'[h.order] = h.gen
    BY <2>1, <2>2, <2>3, <2>6
  <2>9. /\ \A h, k \in outstanding' : h.order = k.order => h = k
        /\ \A h, k \in outstanding' : h.gen = k.gen
    BY <2>1, <2>2, <2>3, <2>5, <2>6
  <2>10. \A h \in outstanding' : h.gen = c.gen
    BY <2>1, <2>3, <2>6
  <2>11. PICK n \in Nat :
           /\ n <= c.len
           /\ \/ call' = Nothing
              \/ n < c.len /\ call' = [Started(c) EXCEPT !.offset = n]
    BY <1>2, EnterFacts
  <2>12. CASE call' = Nothing
    <3>1. /\ call' \in {Nothing} \cup Waiting \cup Writing
          /\ call'.at # "writing"
      BY <2>12 DEF Nothing
    <3> QED
      BY <2>1, <2>2, <2>3, <2>4, <2>7, <2>8, <2>9, <2>12, <3>1 DEF LedgerInv, chunks, Harms
  <2>13. CASE n < c.len /\ call' = [Started(c) EXCEPT !.offset = n]
    <3>1. /\ call' \in Writing /\ call'.order = Len(owners) + 1 /\ call'.gen = c.gen
          /\ call'.offset <= call'.len
      BY <2>2, <2>13 DEF Started, Writing, Waiting, chunks
    <3> QED
      BY <2>1, <2>2, <2>3, <2>4, <2>7, <2>8, <2>9, <2>10, <2>13, <3>1 DEF LedgerInv, chunks, Harms
  <2> QED
    BY <2>11, <2>12, <2>13
<1> QED
  BY <1>1, <1>2

---------------------------------------------------------------------------
(* The ledger and the types, step by step. *)

(* Handles that leave, and generations that are issued or invalidated. *)
LEMMA LedgerShrinks ==
  ASSUME LedgerInv, outstanding' \subseteq outstanding, genSeq' \in genSeq..MaxGenerations,
         invalidated' \subseteq 1..genSeq', call' \in {call, Nothing},
         resampler' \in Rates \cup {0}, harm' \subseteq Harms,
         heard' \in Seq(Nat), Len(heard') <= chunks,
         phase' \in {"running", "closed"},
         phase' = "closed" => outstanding' = {} /\ call' = Nothing /\ callback' = Nothing,
         UNCHANGED owners
  PROVE  LedgerInv'
<1>1. genSeq' \in 0..MaxGenerations /\ 1..genSeq \subseteq 1..genSeq'
  BY Sizes DEF LedgerInv
<1>2. owners' \in Seq(1..genSeq')
  <2>1. owners \in Seq(1..genSeq)
    BY DEF LedgerInv
  <2>2. \A S, T : S \subseteq T => Seq(S) \subseteq Seq(T)
    OBVIOUS
  <2> QED
    BY <1>1, <2>1, <2>2
<1>3. IsFiniteSet(outstanding') /\ Cardinality(outstanding') <= Capacity
  <2>1. /\ IsFiniteSet(outstanding') /\ Cardinality(outstanding') <= Cardinality(outstanding)
        /\ Cardinality(outstanding) \in Nat
    BY FS_Subset, FS_CardinalityType DEF LedgerInv
  <2>2. Cardinality(outstanding') \in Nat
    BY <2>1, FS_CardinalityType
  <2> QED
    BY <2>1, <2>2, Sizes DEF LedgerInv
<1>4. /\ call' \in {Nothing} \cup Waiting \cup Writing
      /\ call' # Nothing => call'.gen \in 1..genSeq'
      /\ call'.at = "writing" =>
           /\ call'.order \in 1..chunks' /\ owners'[call'.order] = call'.gen
           /\ call'.offset <= call'.len /\ \A h \in outstanding' : h.gen = call'.gen
  <2>1. CASE call' = call
    BY <1>1, <2>1 DEF LedgerInv, chunks
  <2>2. CASE call' = Nothing
    BY <2>2 DEF Nothing
  <2> QED
    BY <2>1, <2>2
<1> QED
  BY <1>1, <1>2, <1>3, <1>4 DEF LedgerInv, chunks

(* A call that goes on: it waits, or has written a little more. *)
LEMMA LedgerCallGoesOn ==
  ASSUME LedgerInv, UNCHANGED <<ledger, resampler, harm, heard, phase, owners, callback>>,
         \/ call' \in Waiting /\ call'.gen \in 1..genSeq
         \/ /\ call' \in Writing /\ call.at = "writing" /\ call'.offset <= call'.len
            /\ call'.order = call.order /\ call'.gen = call.gen,
         phase = "running"
  PROVE  LedgerInv'
<1>1. /\ call' \in {Nothing} \cup Waiting \cup Writing
      /\ call'.gen \in 1..genSeq
  BY DEF LedgerInv, Nothing
<1>2. call'.at = "writing" =>
        /\ call'.order \in 1..chunks' /\ owners'[call'.order] = call'.gen
        /\ call'.offset <= call'.len /\ \A h \in outstanding' : h.gen = call'.gen
  BY DEF LedgerInv, chunks, Waiting, ledger
<1> QED
  BY <1>1, <1>2 DEF LedgerInv, chunks, ledger

LEMMA WriteOnFacts ==
  ASSUME LedgerInv, PositionsInv, WriteOn, call.gen \notin invalidated
  PROVE  \E n \in Nat :
           /\ write' = write + n
           /\ call.offset + n <= call.len /\ (n > 0 => write' - read <= RingSize)
           /\ \/ call' = Nothing
              \/ call.offset + n < call.len /\ call' = [call EXCEPT !.offset = @ + n]
           /\ "torn" \notin harm =>
                /\ write' - read <= RingSize
                /\ call' = Nothing => call.offset + n = call.len
                /\ \A p \in read..(write - 1) : At(ring', p) = At(ring, p)
                /\ \A p \in write..(write' - 1) :
                     At(ring', p) = Frame(call.order, call.offset + (p - write))
<1> DEFINE body(n) == [i \in 1..n |-> Frame(call.order, call.offset + i - 1)]
<1>1. call \in Writing /\ call.offset <= call.len /\ call.offset \in Nat /\ call.len \in Nat
  BY DEF WriteOn, LedgerInv, Nothing, Waiting, Writing
<1>2. WriteLoop(call, write, ring)
  BY DEF WriteOn
<1>3. write \in Int /\ read \in Int
  BY DEF PositionsInv
<1>4. PICK n \in Nat :
        /\ write' = write + n
        /\ n <= call.len - call.offset /\ (n > 0 => write' - read <= RingSize)
        /\ \/ call' = Nothing
           \/ call.offset + n < call.len /\ call' = [call EXCEPT !.offset = @ + n]
        /\ write - read \in 0..RingSize =>
             /\ n <= RingSize
             /\ ring' = RingWith(ring, write, body(n))
             /\ call' = Nothing => call.offset + n = call.len
  BY <1>1, <1>2, <1>3, WriteLoopFacts, ZenonT(30)
<1>5. call.offset + n <= call.len
  BY <1>1, <1>4
<1>6. ASSUME "torn" \notin harm
      PROVE  /\ write' - read <= RingSize
             /\ call' = Nothing => call.offset + n = call.len
             /\ \A p \in read..(write - 1) : At(ring', p) = At(ring, p)
             /\ \A p \in write..(write' - 1) :
                  At(ring', p) = Frame(call.order, call.offset + (p - write))
  <2>1. write - read \in 0..RingSize
    BY <1>3, <1>6, Sizes DEF PositionsInv
  <2>2. n <= RingSize /\ ring' = RingWith(ring, write, body(n))
        /\ (call' = Nothing => call.offset + n = call.len)
    BY <1>4, <2>1
  <2>3. DOMAIN body(n) = 1..n
    OBVIOUS
  <2>4. write' = write + n /\ write' - read <= RingSize
    BY <1>3, <1>4, <2>1
  <2> HIDE DEF body
  <2>5. \A p \in write..(write + n - 1) : At(ring', p) = body(n)[p - write + 1]
    BY <1>3, <2>2, <2>3, RingHolds
  <2>6. \A p \in (write + n - RingSize)..(write - 1) : At(ring', p) = At(ring, p)
    BY <1>3, <2>2, <2>3, RingSpares
  <2>7. ASSUME NEW p \in read..(write - 1) PROVE At(ring', p) = At(ring, p)
    <3>1. p \in (write + n - RingSize)..(write - 1)
      BY <1>3, <2>4, Sizes
    <3> QED
      BY <2>6, <3>1
  <2>8. ASSUME NEW p \in write..(write' - 1)
        PROVE  At(ring', p) = Frame(call.order, call.offset + (p - write))
    <3>1. p \in write..(write + n - 1) /\ p - write + 1 \in 1..n
          /\ call.offset + (p - write + 1) - 1 = call.offset + (p - write)
      BY <1>1, <1>3, <2>4
    <3>2. body(n)[p - write + 1] = Frame(call.order, call.offset + (p - write))
      BY <3>1 DEF body
    <3> QED
      BY <2>5, <3>1, <3>2
  <2> QED
    BY <2>2, <2>4, <2>7, <2>8
<1> QED
  <2> WITNESS n \in Nat
  <2> QED
    BY <1>4, <1>5, <1>6

LEMMA WriteOnLedger == ASSUME LedgerInv, PositionsInv, WriteOn PROVE LedgerInv'
<1>1. /\ UNCHANGED <<genSeq, invalidated, outstanding, resampler, harm, heard, phase, owners,
                     callback>>
      /\ phase = "running"
  BY DEF WriteOn, ledger, history, LedgerInv, Nothing
<1>2. CASE call' = Nothing
  BY <1>1, <1>2, LedgerShrinks DEF LedgerInv, chunks
<1>3. CASE call' # Nothing
  <2>1. call.gen \notin invalidated
    BY <1>3 DEF WriteOn
  <2>2. PICK n \in Nat : call.offset + n < call.len /\ call' = [call EXCEPT !.offset = @ + n]
    BY <1>3, <2>1, WriteOnFacts
  <2>3. call \in Writing /\ call.at = "writing"
    BY DEF WriteOn, LedgerInv, Nothing, Waiting
  <2>4. /\ call' \in Writing /\ call'.offset = call.offset + n /\ call'.order = call.order
        /\ call'.gen = call.gen /\ call'.len = call.len
    BY <2>2, <2>3 DEF Writing
  <2>5. call'.offset <= call'.len
    BY <2>2, <2>3, <2>4 DEF Writing
  <2> QED
    BY <1>1, <2>3, <2>4, <2>5, LedgerCallGoesOn DEF ledger
<1> QED
  BY <1>2, <1>3

(* The callback counts the frames it copied. *)
LEMMA HeardType ==
  ASSUME LedgerInv, PositionsInv, callback # Nothing
  PROVE  HeardAfter(Copied) \in Seq(Nat) /\ Len(HeardAfter(Copied)) = chunks
<1>1. callback.n \in Int /\ chunks \in Nat
  BY DEF PositionsInv, Copying, LedgerInv, chunks
<1>2. DOMAIN Copied = 1..callback.n
  BY DEF Copied
<1>3. ASSUME NEW o \in 1..chunks
      PROVE  HeardOf(o) + Cardinality({i \in DOMAIN Copied : Copied[i].order = o}) \in Nat
  <2>1. HeardOf(o) \in Nat
    BY DEF HeardOf, LedgerInv
  <2>2. IsFiniteSet(1..callback.n)
    BY <1>1, FS_Interval
  <2>3. {i \in DOMAIN Copied : Copied[i].order = o} \subseteq 1..callback.n
    BY <1>2
  <2>4. Cardinality({i \in DOMAIN Copied : Copied[i].order = o}) \in Nat
    BY <2>2, <2>3, FS_Subset, FS_CardinalityType
  <2> QED
    BY <2>1, <2>4
<1> DEFINE f(o) == HeardOf(o) + Cardinality({i \in DOMAIN Copied : Copied[i].order = o})
<1>4. HeardAfter(Copied) = [o \in 1..chunks |-> f(o)]
  BY DEF HeardAfter
<1> HIDE DEF f
<1> QED
  BY <1>1, <1>3, <1>4 DEF f

LEMMA EnterOrWait ==
  ASSUME LedgerInv, PositionsInv,
         Admit \/ \E g \in 1..genSeq, s \in Shapes : CallSchedule(g, s)
  PROVE  /\ phase = "running"
         /\ UNCHANGED <<genSeq, invalidated, read, maxPresented, callback, phase, heard>>
         /\ call = Nothing \/ call \in Waiting
         /\ \/ \E c \in Waiting : c.gen \in 1..genSeq /\ Schedulable(c.gen) /\ Enter(c)
            \/ /\ call' \in Waiting /\ call'.gen \in 1..genSeq /\ call = Nothing
               /\ UNCHANGED <<outstanding, write, ring, resampler, owners, harm>>
<1>1. CASE Admit
  BY <1>1 DEF Admit, LedgerInv, Writing, Nothing
<1>2. ASSUME NEW g \in 1..genSeq, NEW s \in Shapes, CallSchedule(g, s)
      PROVE  /\ phase = "running" /\ call = Nothing
             /\ UNCHANGED <<genSeq, invalidated, read, maxPresented, callback, phase, heard>>
             /\ \/ \E c \in Waiting : c.gen \in 1..genSeq /\ Schedulable(c.gen) /\ Enter(c)
                \/ /\ call' \in Waiting /\ call'.gen \in 1..genSeq
                   /\ UNCHANGED <<outstanding, write, ring, resampler, owners, harm>>
  <2> DEFINE c == [at |-> "waiting", gen |-> g, len |-> s.len, rate |-> s.rate,
                   final |-> s.final]
  <2>1. c \in Waiting /\ c.gen = g
    BY Sizes DEF Waiting, LedgerInv
  <2>2. IF Schedulable(g) THEN Enter(c)
        ELSE call' = c /\ UNCHANGED <<outstanding, write, ring, resampler, owners, harm>>
    BY <1>2 DEF CallSchedule
  <2> HIDE DEF c
  <2> QED
    BY <1>2, <2>1, <2>2 DEF CallSchedule
<1> QED
  BY <1>1, <1>2

LEMMA LedgerNext == LedgerInv /\ PositionsInv /\ [Next]_vars => LedgerInv'
<1> SUFFICES ASSUME LedgerInv, PositionsInv, [Next]_vars PROVE LedgerInv'
  OBVIOUS
<1>1. CASE Admit \/ \E g \in 1..genSeq, s \in Shapes : CallSchedule(g, s)
  <2>1. ASSUME NEW c \in Waiting, c.gen \in 1..genSeq, Schedulable(c.gen), Enter(c)
        PROVE  LedgerInv'
    BY <1>1, <2>1, EnterOrWait, EnterLedger
  <2>2. CASE /\ call' \in Waiting /\ call'.gen \in 1..genSeq /\ call = Nothing
             /\ UNCHANGED <<outstanding, write, ring, resampler, owners, harm>>
    BY <1>1, <2>2, EnterOrWait, LedgerCallGoesOn DEF ledger
  <2> QED
    BY <1>1, <2>1, <2>2, EnterOrWait
<1>2. CASE WriteOn
  BY <1>2, WriteOnLedger
<1>3. CASE AskGeneration
  <2>1. genSeq' \in genSeq..MaxGenerations /\ 1..genSeq \subseteq 1..genSeq'
    BY <1>3, Sizes DEF AskGeneration, LedgerInv
  <2> QED
    BY <1>3, <2>1, LedgerShrinks DEF AskGeneration, LedgerInv, chunks, history
<1>4. CASE CallbackBegin
  <2>1. UNCHANGED <<genSeq, invalidated, outstanding, call, resampler, phase, owners, heard,
                    harm>> /\ phase # "closed"
    BY <1>4 DEF CallbackBegin, ledger, history
  <2> QED
    BY <2>1, Sizes, LedgerShrinks DEF LedgerInv, chunks
<1>5. CASE CallbackEnd
  <2>1. UNCHANGED <<genSeq, invalidated, outstanding, call, resampler, phase, owners, harm>>
        /\ heard' = HeardAfter(Copied) /\ callback # Nothing /\ callback' = Nothing
    BY <1>5 DEF CallbackEnd, ledger
  <2>2. heard' \in Seq(Nat) /\ Len(heard') <= chunks
    BY <2>1, HeardType DEF chunks, LedgerInv
  <2> QED
    BY <2>1, <2>2, Sizes, LedgerShrinks DEF LedgerInv, chunks
<1>6. CASE \E p \in PresentedNow : Progress(p)
  <2>1. UNCHANGED <<genSeq, invalidated, call, callback, resampler, phase, owners, heard,
                    harm>> /\ outstanding' \subseteq outstanding
    BY <1>6 DEF Progress, history
  <2> QED
    BY <2>1, Sizes, LedgerShrinks DEF LedgerInv, chunks
<1>7. CASE \E g \in 1..genSeq : Stop(g) \/ StopRaises(g)
  <2>1. /\ UNCHANGED <<genSeq, call, phase, owners, heard>> /\ phase = "running"
        /\ outstanding' \subseteq outstanding /\ invalidated' \subseteq 1..genSeq
        /\ resampler' \in Rates \cup {0} /\ harm' \subseteq Harms
    BY <1>7 DEF Stop, StopRaises, history, HarmOfStop, LedgerInv, Harms
  <2> QED
    BY <2>1, Sizes, LedgerShrinks DEF LedgerInv, chunks
<1>8. CASE Close
  BY <1>8, Sizes, LedgerShrinks DEF Close, LedgerInv, chunks, history
<1>9. CASE UNCHANGED vars
  BY <1>9, Sizes, LedgerShrinks DEF vars, ledger, history, LedgerInv, chunks
<1> QED
  BY <1>1, <1>2, <1>3, <1>4, <1>5, <1>6, <1>7, <1>8, <1>9 DEF Next

---------------------------------------------------------------------------
(* The positions. *)

LEMMA PositionsNext == LedgerInv /\ PositionsInv /\ [Next]_vars => PositionsInv'
<1> SUFFICES ASSUME LedgerInv, PositionsInv, [Next]_vars PROVE PositionsInv'
  OBVIOUS
<1>1. ASSUME UNCHANGED <<read, maxPresented, callback>>, harm \subseteq harm',
             write' = write \/ (write' \in Int /\ write' >= write /\ write' - read <= RingSize)
      PROVE  PositionsInv'
  BY <1>1, Sizes DEF PositionsInv
<1>2. CASE Admit \/ \E g \in 1..genSeq, s \in Shapes : CallSchedule(g, s)
  <2>1. UNCHANGED <<read, maxPresented, callback>>
    BY <1>2, EnterOrWait
  <2>2. ASSUME NEW c \in Waiting, Enter(c) PROVE PositionsInv'
    <3>1. CASE c.gen \in invalidated
      BY <1>1, <2>1, <2>2, <3>1 DEF Enter
    <3>2. CASE c.gen \notin invalidated
      <4>1. PICK n \in Nat :
               write' = write + TailWritten(c.rate) + n /\ (n > 0 => write' - read <= RingSize)
        BY <2>2, <3>2, EnterFacts
      <4>2. TailWritten(c.rate) \in Nat
            /\ (TailWritten(c.rate) > 0 => write + TailWritten(c.rate) - read <= RingSize)
        BY TailFacts
      <4>3. write' = write \/ (write' \in Int /\ write' >= write /\ write' - read <= RingSize)
        BY <4>1, <4>2 DEF PositionsInv
      <4>4. harm \subseteq harm'
        BY <2>2, <3>2 DEF Enter
      <4> QED
        BY <1>1, <2>1, <4>3, <4>4
    <3> QED
      BY <3>1, <3>2
  <2> QED
    BY <1>1, <1>2, <2>1, <2>2, EnterOrWait
<1>3. CASE WriteOn
  <2>1. UNCHANGED <<read, maxPresented, callback, harm>>
    BY <1>3 DEF WriteOn
  <2>2. CASE call.gen \in invalidated
    BY <1>1, <1>3, <2>1, <2>2 DEF WriteOn
  <2>3. CASE call.gen \notin invalidated
    <3>1. PICK n \in Nat : write' = write + n /\ (n > 0 => write' - read <= RingSize)
      BY <1>3, <2>3, WriteOnFacts
    <3>2. write' = write \/ (write' \in Int /\ write' >= write /\ write' - read <= RingSize)
      BY <3>1 DEF PositionsInv
    <3> QED
      BY <1>1, <2>1, <3>2
  <2> QED
    BY <2>2, <2>3
<1>4. CASE CallbackBegin
  <2>1. UNCHANGED <<write, read, maxPresented, harm>> /\ write # read
        /\ callback' = [at |-> "copying", from |-> read, n |-> Least(BlockSize, write - read)]
    BY <1>4 DEF CallbackBegin
  <2>2. callback'.from = read /\ callback'.n = Least(BlockSize, write - read)
        /\ Least(BlockSize, write - read) \in Int /\ callback' \in Copying
    BY <2>1, Sizes DEF Least, PositionsInv, Copying
  <2> QED
    BY <2>1, <2>2, Sizes DEF PositionsInv, Least
<1>5. CASE CallbackEnd
  <2>1. UNCHANGED <<write, maxPresented, harm>> /\ callback # Nothing /\ callback' = Nothing
        /\ read' = callback.from + callback.n /\ callback \in Copying /\ callback.n \in Int
    BY <1>5 DEF CallbackEnd, PositionsInv, Copying
  <2> QED
    BY <2>1, Sizes DEF PositionsInv
<1>6. ASSUME NEW p \in PresentedNow, Progress(p) PROVE PositionsInv'
  <2>1. UNCHANGED <<write, read, callback, harm>> /\ maxPresented' = p
    BY <1>6 DEF Progress
  <2>2. p \in Int /\ p <= read
    BY DEF PresentedNow, Least, PositionsInv
  <2> QED
    BY <2>1, <2>2 DEF PositionsInv
<1>7. ASSUME NEW g \in 1..genSeq, Stop(g) PROVE PositionsInv'
  <2>1. /\ write' = read /\ maxPresented' = read' /\ callback' = Nothing
        /\ read' = IF callback = Nothing THEN read ELSE callback.from + callback.n
        /\ harm' = harm \cup HarmOfStop(g)
    BY <1>7 DEF Stop, WriteAfterStop
  <2>2. CASE callback = Nothing
    BY <2>1, <2>2, Sizes DEF PositionsInv
  <2>3. CASE callback # Nothing
    <3>1. read' = read + callback.n /\ callback.n \in (-BlockSize)..BlockSize
      BY <2>1, <2>3 DEF PositionsInv
    <3>2. "torn" \in harm'
      BY <2>1, <2>3 DEF PositionsInv, HarmOfStop, Harms
    <3> QED
      BY <2>1, <3>1, <3>2, Sizes DEF PositionsInv
  <2> QED
    BY <2>2, <2>3
<1>8. CASE AskGeneration \/ (\E g \in 1..genSeq : StopRaises(g)) \/ UNCHANGED vars
  <2>1. UNCHANGED <<write, read, maxPresented, callback>> /\ harm \subseteq harm'
    BY <1>8 DEF AskGeneration, StopRaises, vars
  <2> QED
    BY <1>1, <2>1
<1>9. CASE Close
  BY <1>9 DEF Close, PositionsInv
<1> QED
  BY <1>2, <1>3, <1>4, <1>5, <1>6, <1>7, <1>8, <1>9 DEF Next

---------------------------------------------------------------------------
(* Silence after a stop. *)

LEMMA SilenceFrame ==
  ASSUME PositionsInv, SilenceInv, harm \subseteq harm', outstanding' \subseteq outstanding,
         UNCHANGED <<invalidated, write, ring, owners>>, read' \in Int, read <= read'
  PROVE  SilenceInv'
<1> SUFFICES ASSUME harm' \cap {"torn", "failed"} = {}
             PROVE  /\ \A h \in outstanding' : h.gen \notin invalidated
                    /\ \A p \in read'..(write - 1) :
                         At(ring, p).order \in 1..chunks
                         /\ owners[At(ring, p).order] \notin invalidated
  BY DEF SilenceInv, chunks
<1>1. harm \cap {"torn", "failed"} = {}
  OBVIOUS
<1>2. \A p \in read'..(write - 1) : p \in read..(write - 1)
  BY DEF PositionsInv
<1> QED
  BY <1>1, <1>2 DEF SilenceInv

LEMMA EnterSilence ==
  ASSUME LedgerInv, PositionsInv, SilenceInv, NEW c \in Waiting, c.gen \in 1..genSeq,
         Schedulable(c.gen), Enter(c), UNCHANGED <<genSeq, invalidated, read>>
  PROVE  SilenceInv'
<1>1. CASE c.gen \in invalidated
  BY <1>1, SilenceFrame DEF Enter, PositionsInv
<1>2. CASE c.gen \notin invalidated
  <2> SUFFICES ASSUME harm' \cap {"torn", "failed"} = {}
               PROVE  /\ \A h \in outstanding' : h.gen \notin invalidated
                      /\ \A p \in read..(write' - 1) :
                           LET o == At(ring', p).order
                           IN  o \in 1..chunks' /\ owners'[o] \notin invalidated
    BY DEF SilenceInv
  <2>1. outstanding' = WithTail(c.rate) \cup {NewHandle(c)} /\ owners' = Append(owners, c.gen)
        /\ harm \subseteq harm'
    BY <1>2 DEF Enter
  <2>2. "torn" \notin harm
    BY <2>1
  <2>3. /\ \A h \in outstanding : h.gen \notin invalidated
        /\ \A p \in read..(write - 1) :
             At(ring, p).order \in 1..chunks /\ owners[At(ring, p).order] \notin invalidated
    BY <2>1 DEF SilenceInv
  <2>4. /\ chunks \in Nat /\ chunks' = chunks + 1 /\ owners'[chunks + 1] = c.gen
        /\ \A o \in 1..chunks : owners'[o] = owners[o]
    BY <2>1 DEF LedgerInv, chunks
  <2>5. \A h \in outstanding' : h.gen \notin invalidated
    <3>1. \A t \in WithTail(c.rate) : t.gen \notin invalidated
      <4>1. TailOwed(c.rate) # 0 => LastHandle \in outstanding /\ LastHandle \in Handle
        BY LastExists, TailFacts DEF IsLast, LedgerInv
      <4>2. TailOwed(c.rate) \in Nat
        BY TailFacts
      <4> SUFFICES ASSUME NEW t \in WithTail(c.rate) PROVE t.gen \notin invalidated
        OBVIOUS
      <4>3. CASE t \in outstanding
        BY <2>3, <4>3
      <4>4. CASE TailOwed(c.rate) # 0 /\ t = Lengthened(LastHandle, TailOwed(c.rate))
        BY <2>3, <4>1, <4>2, <4>4, LengthenedFacts
      <4> QED
        BY <4>3, <4>4, TailedHandles
    <3> QED
      BY <1>2, <2>1, <3>1 DEF NewHandle
  <2>6. PICK n \in Nat :
           LET from == write + TailWritten(c.rate)
           IN  /\ write' = from + n
               /\ \A p \in read..(write - 1) : At(ring', p) = At(ring, p)
               /\ \A p \in write..(from - 1) :
                    At(ring', p) = Frame(LastHandle.order, LastHandle.len + (p - write))
               /\ \A p \in from..(write' - 1) : At(ring', p) = Frame(chunks + 1, p - from)
    BY <1>2, <2>2, EnterFacts
  <2> DEFINE from == write + TailWritten(c.rate)
  <2>7. from \in Int /\ write \in Int /\ read \in Int
    BY TailFacts DEF PositionsInv
  <2>8. ASSUME NEW p \in read..(write' - 1)
        PROVE  LET o == At(ring', p).order
               IN  o \in 1..chunks' /\ owners'[o] \notin invalidated
    <3>1. CASE p \in read..(write - 1)
      BY <2>3, <2>4, <2>6, <3>1
    <3>2. CASE p \in write..(from - 1)
      <4>1. TailOwed(c.rate) # 0
        BY <2>7, <3>2, TailFacts
      <4>2. LastHandle \in outstanding
        BY <4>1, LastExists, TailFacts DEF IsLast
      <4>3. LastHandle.order \in 1..chunks /\ owners[LastHandle.order] \notin invalidated
        BY <2>3, <4>2 DEF LedgerInv
      <4>4. At(ring', p).order = LastHandle.order
        BY <2>6, <3>2 DEF Frame
      <4> QED
        BY <2>4, <4>3, <4>4
    <3>3. CASE p \in from..(write' - 1)
      <4>1. At(ring', p).order = chunks + 1
        BY <2>6, <3>3 DEF Frame
      <4> QED
        BY <1>2, <2>4, <4>1
    <3>4. p \in read..(write - 1) \/ p \in write..(from - 1) \/ p \in from..(write' - 1)
      <4> HIDE DEF from
      <4> QED
        BY <2>7
    <3> QED
      BY <3>1, <3>2, <3>3, <3>4
  <2> QED
    BY <2>5, <2>8
<1> QED
  BY <1>1, <1>2

LEMMA WriteOnSilence ==
  ASSUME LedgerInv, PositionsInv, SilenceInv, WriteOn
  PROVE  SilenceInv'
<1>0. UNCHANGED <<invalidated, outstanding, owners, read, harm>>
  BY DEF WriteOn, ledger, history
<1>1. CASE call.gen \in invalidated
  BY <1>0, <1>1, SilenceFrame DEF WriteOn, PositionsInv
<1>2. CASE call.gen \notin invalidated
  <2> SUFFICES ASSUME harm \cap {"torn", "failed"} = {}
               PROVE  /\ \A h \in outstanding : h.gen \notin invalidated
                      /\ \A p \in read..(write' - 1) :
                           LET o == At(ring', p).order
                           IN  o \in 1..chunks /\ owners[o] \notin invalidated
    BY <1>0 DEF SilenceInv, chunks
  <2>1. /\ \A h \in outstanding : h.gen \notin invalidated
        /\ \A p \in read..(write - 1) :
             At(ring, p).order \in 1..chunks /\ owners[At(ring, p).order] \notin invalidated
    BY DEF SilenceInv
  <2>2. PICK n \in Nat :
          /\ write' = write + n
          /\ \A p \in read..(write - 1) : At(ring', p) = At(ring, p)
          /\ \A p \in write..(write' - 1) :
               At(ring', p) = Frame(call.order, call.offset + (p - write))
    BY <1>2, WriteOnFacts
  <2>3. call.order \in 1..chunks /\ owners[call.order] = call.gen
    BY DEF WriteOn, LedgerInv
  <2>4. ASSUME NEW p \in read..(write' - 1)
        PROVE  LET o == At(ring', p).order IN o \in 1..chunks /\ owners[o] \notin invalidated
    <3>1. CASE p \in read..(write - 1)
      BY <2>1, <2>2, <3>1
    <3>2. CASE p \in write..(write' - 1)
      <4>1. At(ring', p).order = call.order
        BY <2>2, <3>2 DEF Frame
      <4> QED
        BY <1>2, <2>3, <4>1
    <3> QED
      BY <2>2, <3>1, <3>2 DEF PositionsInv
  <2> QED
    BY <2>1, <2>4
<1> QED
  BY <1>1, <1>2

LEMMA SilenceNext == LedgerInv /\ PositionsInv /\ SilenceInv /\ [Next]_vars => SilenceInv'
<1> SUFFICES ASSUME LedgerInv, PositionsInv, SilenceInv, [Next]_vars PROVE SilenceInv'
  OBVIOUS
<1>0. read \in Int
  BY DEF PositionsInv
<1>1. CASE Admit \/ \E g \in 1..genSeq, s \in Shapes : CallSchedule(g, s)
  <2>1. ASSUME NEW c \in Waiting, c.gen \in 1..genSeq, Schedulable(c.gen), Enter(c)
        PROVE  SilenceInv'
    BY <1>1, <2>1, EnterOrWait, EnterSilence
  <2>2. CASE UNCHANGED <<outstanding, write, ring, resampler, owners, harm>>
    BY <1>0, <1>1, <2>2, EnterOrWait, SilenceFrame
  <2> QED
    BY <1>1, <2>1, <2>2, EnterOrWait
<1>2. CASE WriteOn
  BY <1>2, WriteOnSilence
<1>3. CASE CallbackEnd
  <2>1. UNCHANGED <<invalidated, outstanding, write, ring, owners, harm>>
        /\ callback # Nothing /\ read' = callback.from + callback.n
    BY <1>3 DEF CallbackEnd, ledger
  <2>2. CASE "torn" \in harm
    BY <2>1, <2>2 DEF SilenceInv
  <2>3. CASE "torn" \notin harm
    <3>1. read' \in Int /\ read <= read'
      BY <2>1, <2>3 DEF PositionsInv, Copying
    <3> QED
      BY <2>1, <3>1, SilenceFrame
  <2> QED
    BY <2>2, <2>3
<1>4. ASSUME NEW g \in 1..genSeq, Stop(g) PROVE SilenceInv'
  <2> SUFFICES ASSUME harm' \cap {"torn", "failed"} = {}
               PROVE  /\ \A h \in outstanding' : h.gen \notin invalidated'
                      /\ read'..(write' - 1) = {}
    BY DEF SilenceInv
  <2>1. harm \subseteq harm' /\ ("torn" \notin harm' => callback = Nothing)
    BY <1>4 DEF Stop, HarmOfStop, Harms, PositionsInv
  <2>2. \A h \in outstanding : h.gen \notin invalidated
    BY <2>1 DEF SilenceInv
  <2>3. write' = read' /\ read' \in Int
    BY <1>0, <1>4, <2>1 DEF Stop, WriteAfterStop
  <2> QED
    BY <1>4, <2>2, <2>3 DEF Stop
<1>5. CASE \E g \in 1..genSeq : StopRaises(g)
  BY <1>5 DEF StopRaises, SilenceInv
<1>6. CASE AskGeneration \/ CallbackBegin \/ Close \/ UNCHANGED vars
           \/ \E p \in PresentedNow : Progress(p)
  <2>1. UNCHANGED <<invalidated, write, ring, owners, harm, read>>
        /\ outstanding' \subseteq outstanding
    BY <1>6 DEF AskGeneration, CallbackBegin, Close, Progress, vars, ledger, history
  <2> QED
    BY <1>0, <2>1, SilenceFrame
<1> QED
  BY <1>1, <1>2, <1>3, <1>4, <1>5, <1>6 DEF Next

---------------------------------------------------------------------------
(* The spans. *)

(* A callback counts exactly the part of a span that it passes over.       *)
LEMMA CountInSpan ==
  ASSUME LedgerInv, PositionsInv, SpansInOrder, QueuedIsSpanned,
         callback # Nothing, "torn" \notin harm, NEW h \in outstanding
  PROVE  LET lo == Greatest(1, h.start - read + 1)
             hi == Least(callback.n, h.end - read)
         IN  Cardinality({i \in DOMAIN Copied : Copied[i].order = h.order})
               = IF lo > hi THEN 0 ELSE hi - lo + 1
<1> DEFINE lo == Greatest(1, h.start - read + 1)
           hi == Least(callback.n, h.end - read)
<1>1. /\ read \in Int /\ write \in Int /\ callback.n \in Nat /\ callback.n <= write - read
      /\ callback.from = read
  BY DEF PositionsInv, Copying
<1>2. outstanding \subseteq Handle /\ h \in Handle
  BY DEF LedgerInv
<1>3. lo \in Int /\ hi \in Int
  BY <1>1, <1>2 DEF Greatest, Least, Handle
<1>4. ASSUME NEW i \in 1..callback.n
      PROVE  Copied[i].order = h.order <=> (h.start <= read + i - 1 /\ read + i - 1 < h.end)
  <2> DEFINE p == read + i - 1
  <2>1. p \in read..(write - 1) /\ p \in Int
    BY <1>1
  <2>2. Copied[i] = At(ring, p)
    BY <1>1 DEF Copied, At
  <2>3. PICK k \in outstanding : 
          k.start <= p /\ p < k.end /\ At(ring, p) = Frame(k.order, p - k.start)
    BY <2>1 DEF QueuedIsSpanned
  <2>4. Copied[i].order = k.order
    BY <2>2, <2>3 DEF Frame
  <2> HIDE DEF p
  <2>5. (h.start <= p /\ p < h.end) => h = k
    <3> SUFFICES ASSUME h.start <= p, p < h.end, h # k PROVE FALSE
      OBVIOUS
    <3>1. h.order < k.order \/ k.order < h.order
      BY <1>2 DEF LedgerInv, Handle
    <3>2. h.end <= k.start \/ k.end <= h.start
      BY <3>1 DEF SpansInOrder
    <3> QED
      BY <1>2, <2>1, <2>3, <3>2 DEF Handle
  <2>6. Copied[i].order = h.order => h = k
    BY <2>4 DEF LedgerInv
  <2> QED
    BY <2>3, <2>4, <2>5, <2>6 DEF p
<1>5. {i \in DOMAIN Copied : Copied[i].order = h.order} = lo..hi
  <2>1. DOMAIN Copied = 1..callback.n
    BY DEF Copied
  <2>2. \A i \in Int : i \in lo..hi <=> i \in 1..callback.n /\ h.start <= read + i - 1
                                        /\ read + i - 1 < h.end
    BY <1>1, <1>2 DEF Greatest, Least, Handle
  <2> HIDE DEF lo, hi
  <2> QED
    BY <1>3, <1>4, <2>1, <2>2
<1> HIDE DEF lo, hi
<1>6. Cardinality(lo..hi) = IF lo > hi THEN 0 ELSE hi - lo + 1
  BY <1>3, FS_Interval
<1> QED
  BY <1>5, <1>6 DEF lo, hi

LEMMA CallbackEndSpans ==
  ASSUME LedgerInv, PositionsInv, SpansInv, CallbackEnd
  PROVE  SpansInv'
<1> SUFFICES ASSUME Unharmed'
             PROVE  (SpansInOrder /\ QueuedIsSpanned /\ HeardIsSpan /\ LastIsWritten)'
  BY DEF SpansInv
<1>1. /\ UNCHANGED <<invalidated, outstanding, call, write, ring, phase, owners, harm>>
      /\ callback # Nothing /\ read' = callback.from + callback.n
      /\ heard' = HeardAfter(Copied)
  BY DEF CallbackEnd, ledger
<1>2. "torn" \notin harm /\ SpansInOrder /\ QueuedIsSpanned /\ HeardIsSpan /\ LastIsWritten
  BY <1>1 DEF SpansInv, Unharmed
<1>3. /\ read \in Int /\ write \in Int /\ callback.n \in Nat /\ read' = read + callback.n
      /\ callback.n <= write - read
  BY <1>1, <1>2 DEF PositionsInv, Copying
<1>4. SpansInOrder' /\ LastIsWritten'
  BY <1>1, <1>2 DEF SpansInOrder, LastIsWritten, IsLast
<1>5. QueuedIsSpanned'
  <2>1. \A p \in read'..(write - 1) : p \in read..(write - 1)
    BY <1>3
  <2> QED
    BY <1>1, <1>2, <2>1 DEF QueuedIsSpanned, At
<1>6. HeardIsSpan'
  <2> SUFFICES ASSUME NEW h \in outstanding PROVE HeardOf(h.order)' = HeardOfSpan(h)'
    BY <1>1 DEF HeardIsSpan
  <2> DEFINE more == Cardinality({i \in DOMAIN Copied : Copied[i].order = h.order})
  <2>1. h \in Handle /\ h.end = h.start + h.len /\ HeardOf(h.order) = HeardOfSpan(h)
    BY <1>2 DEF LedgerInv, SpansInOrder, HeardIsSpan
  <2>2. HeardOf(h.order)' = HeardOf(h.order) + more
    <3>1. h.order \in 1..chunks
      BY DEF LedgerInv
    <3>2. heard' = [o \in 1..chunks |-> 
                      HeardOf(o) + Cardinality({i \in DOMAIN Copied : Copied[i].order = o})]
      BY <1>1 DEF HeardAfter
    <3> QED
      BY <3>1, <3>2 DEF HeardOf
  <2>3. more = LET lo == Greatest(1, h.start - read + 1)
                   hi == Least(callback.n, h.end - read)
               IN  IF lo > hi THEN 0 ELSE hi - lo + 1
    BY <1>1, <1>2, CountInSpan
  <2> HIDE DEF more
  <2>4. HeardOfSpan(h)' = Greatest(0, Least(h.len, read + callback.n - h.start))
    BY <1>3, <2>1 DEF HeardOfSpan, Greatest, Least, Handle
  <2> QED
    BY <1>3, <2>1, <2>2, <2>3, <2>4 DEF HeardOfSpan, Greatest, Least, Handle
<1> QED
  BY <1>4, <1>5, <1>6

LEMMA ProgressSpans ==
  ASSUME LedgerInv, PositionsInv, SpansInv, NEW q \in PresentedNow, Progress(q)
  PROVE  SpansInv'
<1> SUFFICES ASSUME Unharmed'
             PROVE  (SpansInOrder /\ QueuedIsSpanned /\ HeardIsSpan /\ LastIsWritten)'
  BY DEF SpansInv
<1>1. /\ UNCHANGED <<invalidated, call, write, read, ring, phase, owners, heard, harm>>
      /\ outstanding # {}
      /\ \A h \in outstanding : h \in outstanding' <=> ~(q >= h.end)
      /\ outstanding' \subseteq outstanding
  BY DEF Progress, Finished, history
<1>2. "torn" \notin harm /\ SpansInOrder /\ QueuedIsSpanned /\ HeardIsSpan /\ LastIsWritten
  BY <1>1 DEF SpansInv, Unharmed
<1>3. /\ read \in Int /\ write \in Int /\ read <= write /\ q \in Int /\ q <= read
      /\ outstanding \subseteq Handle
  BY <1>2 DEF PositionsInv, PresentedNow, Least, LedgerInv
<1>4. SpansInOrder' /\ HeardIsSpan'
  BY <1>1, <1>2 DEF SpansInOrder, HeardIsSpan, HeardOf, HeardOfSpan
<1>5. QueuedIsSpanned'
  <2> SUFFICES ASSUME NEW p \in read..(write - 1)
               PROVE  \E h \in outstanding' :
                        h.start <= p /\ p < h.end /\ At(ring, p) = Frame(h.order, p - h.start)
    BY <1>1 DEF QueuedIsSpanned, At
  <2>1. PICK h \in outstanding :
          h.start <= p /\ p < h.end /\ At(ring, p) = Frame(h.order, p - h.start)
    BY <1>2 DEF QueuedIsSpanned
  <2>2. ~(q >= h.end)
    BY <1>3, <2>1 DEF Handle
  <2> QED
    BY <1>1, <2>1, <2>2
<1>6. LastIsWritten'
  <2>1. ASSUME NEW h, IsLast(h)' PROVE h.end >= write
    <3>1. PICK l : IsLast(l)
      BY <1>1, LastExists
    <3>2. l \in outstanding /\ l \in Handle /\ l.end >= write
      BY <1>2, <1>3, <3>1 DEF LastIsWritten, IsLast
    <3>3. h \in outstanding /\ h \in outstanding' /\ h \in Handle /\ ~(q >= h.end)
      BY <1>1, <1>3, <2>1 DEF IsLast
    <3>4. CASE h.order = l.order
      BY <3>2, <3>3, <3>4 DEF LedgerInv
    <3>5. CASE h.order < l.order
      <4>1. h.end <= l.start /\ l.end = l.start + l.len
        BY <1>2, <3>2, <3>3, <3>5 DEF SpansInOrder
      <4>2. ~(q >= l.end)
        BY <1>3, <3>2, <3>3, <4>1 DEF Handle
      <4>3. l.order <= h.order
        BY <1>1, <2>1, <3>2, <4>2 DEF IsLast
      <4> QED
        BY <3>2, <3>3, <3>5, <4>3 DEF Handle
    <3>6. h.order <= l.order
      BY <3>1, <3>3 DEF IsLast
    <3> QED
      BY <3>2, <3>3, <3>4, <3>5, <3>6 DEF Handle
  <2>2. ASSUME call.at = "writing", call.gen \notin invalidated
        PROVE  \E h \in outstanding' :
                 /\ IsLast(h)' /\ h.order = call.order /\ h.gen = call.gen /\ h.len = call.len
                 /\ h.start + call.offset = write /\ call.offset < call.len
    <3>1. PICK h \in outstanding :
             /\ IsLast(h) /\ h.order = call.order /\ h.gen = call.gen /\ h.len = call.len
             /\ h.start + call.offset = write /\ call.offset < call.len
      BY <1>2, <2>2 DEF LastIsWritten
    <3>2. h.end = h.start + h.len /\ h \in Handle /\ call \in Writing
      BY <1>2, <1>3, <2>2 DEF SpansInOrder, LedgerInv, Nothing, Waiting
    <3>3. ~(q >= h.end)
      BY <1>3, <3>1, <3>2 DEF Handle, Writing
    <3>4. h \in outstanding' /\ IsLast(h)'
      BY <1>1, <3>1, <3>3 DEF IsLast
    <3> QED
      BY <3>1, <3>4
  <2>3. call.at # "writing" =>
          \A h \in outstanding' : h.gen \notin invalidated => h.end <= write
    BY <1>1, <1>2 DEF LastIsWritten
  <2> QED
    BY <1>1, <2>1, <2>2, <2>3 DEF LastIsWritten
<1> QED
  BY <1>4, <1>5, <1>6

(* Steps that leave positions, ring and handles alone. *)
LEMMA SpansFrame ==
  ASSUME LedgerInv, SpansInv, UNCHANGED <<outstanding, write, read, ring, heard, owners>>,
         phase' = "closed" \/ phase' = phase, harm \subseteq harm',
         invalidated \subseteq invalidated',
         \/ call' = call
         \/ call.at # "writing" /\ call'.at # "writing"
         \/ call.at = "writing" /\ call.gen \in invalidated /\ call'.at # "writing"
  PROVE  SpansInv'
<1> SUFFICES ASSUME Unharmed'
             PROVE  (SpansInOrder /\ QueuedIsSpanned /\ HeardIsSpan /\ LastIsWritten)'
  BY DEF SpansInv
<1>1. SpansInOrder /\ QueuedIsSpanned /\ HeardIsSpan /\ LastIsWritten
  BY DEF SpansInv, Unharmed
<1>2. SpansInOrder' /\ QueuedIsSpanned' /\ HeardIsSpan'
  BY <1>1 DEF SpansInOrder, QueuedIsSpanned, HeardIsSpan, HeardOf, HeardOfSpan, At
<1>3. LastIsWritten'
  <2>1. \A h \in outstanding : IsLast(h)' <=> IsLast(h)
    BY DEF IsLast
  <2>2. call.at = "writing" => \A h \in outstanding : h.gen = call.gen
    BY DEF LedgerInv
  <2> QED
    BY <1>1, <2>1, <2>2 DEF LastIsWritten
<1> QED
  BY <1>2, <1>3

LEMMA StopSpans ==
  ASSUME LedgerInv, PositionsInv, SpansInv, NEW g \in 1..genSeq, Stop(g)
  PROVE  SpansInv'
<1> SUFFICES ASSUME Unharmed'
             PROVE  (SpansInOrder /\ QueuedIsSpanned /\ HeardIsSpan /\ LastIsWritten)'
  BY DEF SpansInv
<1>1. /\ UNCHANGED <<call, ring, phase, owners, heard>> /\ phase = "running"
      /\ outstanding' = {h \in outstanding : h.gen # g}
      /\ invalidated' = invalidated \cup {g} /\ write' = read
      /\ harm' = harm \cup HarmOfStop(g)
  BY DEF Stop, WriteAfterStop
<1>2. "torn" \notin harm /\ SpansInOrder /\ QueuedIsSpanned /\ HeardIsSpan /\ LastIsWritten
  BY <1>1 DEF SpansInv, Unharmed
<1>3. callback = Nothing /\ \A h \in outstanding : h.gen # g => ~(h.end > read)
  <2>1. "torn" \notin HarmOfStop(g) /\ "others" \notin HarmOfStop(g)
    BY <1>1 DEF Unharmed
  <2> QED
    BY <1>2, <2>1 DEF HarmOfStop, Harms, PositionsInv
<1>4. read' = read /\ read \in Int /\ write \in Int /\ read <= write /\ outstanding \subseteq Handle
  BY <1>2, <1>3 DEF Stop, PositionsInv, LedgerInv
<1>5. SpansInOrder' /\ HeardIsSpan'
  BY <1>1, <1>2, <1>4 DEF SpansInOrder, HeardIsSpan, HeardOf, HeardOfSpan
<1>6. QueuedIsSpanned'
  BY <1>1, <1>4 DEF QueuedIsSpanned
<1>7. LastIsWritten'
  <2>1. ASSUME NEW h \in outstanding', IsLast(h)' PROVE h.end >= read
    <3>1. IsLast(h)
      BY <1>1, <2>1 DEF IsLast, LedgerInv
    <3> QED
      BY <1>1, <1>2, <1>4, <3>1 DEF LastIsWritten, Handle
  <2>2. ~(call.at = "writing" /\ call.gen \notin invalidated')
    <3> SUFFICES ASSUME call.at = "writing", call.gen \notin invalidated' PROVE FALSE
      OBVIOUS
    <3>1. PICK h \in outstanding :
             /\ h.gen = call.gen /\ h.len = call.len
             /\ h.start + call.offset = write /\ call.offset < call.len
      BY <1>1, <1>2 DEF LastIsWritten
    <3>2. h.end = h.start + h.len /\ h \in Handle /\ call \in Writing
      BY <1>2, <1>4 DEF SpansInOrder, LedgerInv, Nothing, Waiting
    <3>3. h.gen # g
      BY <1>1, <3>1
    <3> QED
      BY <1>3, <1>4, <3>1, <3>2, <3>3 DEF Handle, Writing
  <2>3. \A h \in outstanding' : h.end <= read
    BY <1>1, <1>3, <1>4 DEF Handle
  <2> QED
    BY <1>1, <2>1, <2>2, <2>3 DEF LastIsWritten
<1> QED
  BY <1>5, <1>6, <1>7

LEMMA WriteOnSpans ==
  ASSUME LedgerInv, PositionsInv, SpansInv, WriteOn, call.gen \notin invalidated
  PROVE  SpansInv'
<1> SUFFICES ASSUME Unharmed'
             PROVE  (SpansInOrder /\ QueuedIsSpanned /\ HeardIsSpan /\ LastIsWritten)'
  BY DEF SpansInv
<1>1. /\ UNCHANGED <<invalidated, outstanding, read, phase, owners, heard, harm>>
      /\ call.at = "writing"
  BY DEF WriteOn, ledger, history
<1>2. "torn" \notin harm /\ SpansInOrder /\ QueuedIsSpanned /\ HeardIsSpan /\ LastIsWritten
  BY <1>1 DEF SpansInv, Unharmed
<1>3. PICK n \in Nat :
        /\ write' = write + n
        /\ call.offset + n <= call.len
        /\ \/ call' = Nothing
           \/ call.offset + n < call.len /\ call' = [call EXCEPT !.offset = @ + n]
        /\ call' = Nothing => call.offset + n = call.len
        /\ \A p \in read..(write - 1) : At(ring', p) = At(ring, p)
        /\ \A p \in write..(write' - 1) :
             At(ring', p) = Frame(call.order, call.offset + (p - write))
  BY <1>2, WriteOnFacts
<1>4. PICK l \in outstanding :
        /\ IsLast(l) /\ l.order = call.order /\ l.gen = call.gen /\ l.len = call.len
        /\ l.start + call.offset = write /\ call.offset < call.len
  BY <1>1, <1>2 DEF LastIsWritten
<1>5. /\ read \in Int /\ write \in Int /\ outstanding \subseteq Handle /\ l \in Handle
      /\ call \in Writing /\ l.end = l.start + l.len
  BY <1>1, <1>2 DEF PositionsInv, LedgerInv, SpansInOrder, Nothing, Waiting
<1>6. SpansInOrder' /\ HeardIsSpan'
  BY <1>1, <1>2 DEF SpansInOrder, HeardIsSpan, HeardOf, HeardOfSpan
<1>7. QueuedIsSpanned'
  <2> SUFFICES ASSUME NEW p \in read..(write' - 1)
               PROVE  \E h \in outstanding :
                        h.start <= p /\ p < h.end /\ At(ring', p) = Frame(h.order, p - h.start)
    BY <1>1 DEF QueuedIsSpanned, At
  <2>1. CASE p \in read..(write - 1)
    BY <1>2, <1>3, <2>1 DEF QueuedIsSpanned
  <2>2. CASE p \in write..(write' - 1)
    <3>1. l.start <= p /\ p < l.end /\ call.offset + (p - write) = p - l.start
      BY <1>3, <1>4, <1>5, <2>2 DEF Handle, Writing
    <3>2. At(ring', p) = Frame(l.order, p - l.start)
      BY <1>3, <1>4, <2>2, <3>1
    <3> QED
      BY <3>1, <3>2
  <2> QED
    BY <1>3, <1>5, <2>1, <2>2
<1>8. LastIsWritten'
  <2>1. \A h \in outstanding : IsLast(h)' <=> IsLast(h)
    BY <1>1 DEF IsLast
  <2>2. \A h \in outstanding : IsLast(h) => h = l
    BY <1>4, <1>5 DEF IsLast, LedgerInv, Handle
  <2>3. l.end >= write'
    BY <1>3, <1>4, <1>5 DEF Handle, Writing
  <2>4. CASE call' = Nothing
    <3>1. \A h \in outstanding : h.end <= write'
      <4> SUFFICES ASSUME NEW h \in outstanding PROVE h.end <= write'
        OBVIOUS
      <4>1. l.end = write'
        BY <1>3, <1>4, <1>5, <2>4 DEF Handle, Writing
      <4>2. CASE h.order = l.order
        BY <4>1, <4>2, <1>5 DEF LedgerInv, Handle
      <4>3. CASE h.order < l.order
        <5>1. h.end <= l.start
          BY <1>2, <4>3 DEF SpansInOrder
        <5> QED
          BY <1>3, <1>5, <4>1, <5>1 DEF Handle
      <4>4. h.order <= l.order /\ h.order \in Nat /\ l.order \in Nat
        BY <1>4, <1>5 DEF IsLast, Handle
      <4> QED
        BY <4>2, <4>3, <4>4
    <3>2. call'.at # "writing"
      BY <2>4 DEF Nothing
    <3> QED
      BY <1>1, <2>1, <2>2, <2>3, <3>1, <3>2 DEF LastIsWritten
  <2>5. CASE call.offset + n < call.len /\ call' = [call EXCEPT !.offset = @ + n]
    <3>1. /\ call'.at = "writing" /\ call'.gen = call.gen /\ call'.order = call.order
          /\ call'.len = call.len /\ call'.offset = call.offset + n
      BY <1>5, <2>5 DEF Writing
    <3>2. l.start + call'.offset = write' /\ call'.offset < call'.len
      BY <1>3, <1>4, <1>5, <2>5, <3>1 DEF Handle, Writing
    <3>3. IsLast(l)'
      BY <1>4, <2>1
    <3> QED
      BY <1>1, <1>4, <2>1, <2>2, <2>3, <3>1, <3>2, <3>3 DEF LastIsWritten
  <2> QED
    BY <1>3, <2>4, <2>5
<1> QED
  BY <1>6, <1>7, <1>8

(* The tail continues the last span, the chunk begins one after it.        *)
LEMMA EnterSpans ==
  ASSUME LedgerInv, PositionsInv, SpansInv, call.at # "writing",
         NEW c \in Waiting, c.gen \in 1..genSeq, c.gen \notin invalidated,
         Schedulable(c.gen), Enter(c),
         UNCHANGED <<genSeq, invalidated, read, phase, heard>>
  PROVE  SpansInv'
<1> SUFFICES ASSUME Unharmed'
             PROVE  (SpansInOrder /\ QueuedIsSpanned /\ HeardIsSpan /\ LastIsWritten)'
  BY DEF SpansInv
<1> DEFINE owed == TailOwed(c.rate)
           from == write + TailWritten(c.rate)
           L == LastHandle
           T == Lengthened(L, owed)
           H == NewHandle(c)
           after == WithTail(c.rate)
<1>1. /\ outstanding' = after \cup {H} /\ owners' = Append(owners, c.gen)
      /\ harm' = IF TailWritten(c.rate) < owed THEN harm \cup {"cut"} ELSE harm
  BY DEF Enter
<1>2. "torn" \notin harm /\ SpansInOrder /\ QueuedIsSpanned /\ HeardIsSpan /\ LastIsWritten
  BY <1>1 DEF SpansInv, Unharmed
<1>3. owed \in Nat /\ from = write + owed /\ (owed # 0 => IsLast(L))
  <2>1. TailWritten(c.rate) = owed /\ owed \in Nat
    <3>1. owed \in Nat /\ TailWritten(c.rate) \in 0..owed
      BY TailFacts
    <3>2. "cut" \notin harm'
      BY DEF Unharmed
    <3>3. ~(TailWritten(c.rate) < owed)
      BY <1>1, <3>2
    <3> HIDE DEF owed
    <3> QED
      BY <3>1, <3>3
  <2>2. ASSUME owed # 0 PROVE IsLast(L)
    <3>1. outstanding # {}
      BY <2>2, TailFacts
    <3> QED
      BY <3>1, LastExists
  <2> QED
    BY <2>1, <2>2
<1>4. PICK n \in Nat :
        /\ write' = from + n /\ n <= c.len
        /\ \/ call' = Nothing
           \/ n < c.len /\ call' = [Started(c) EXCEPT !.offset = n]
        /\ call' = Nothing => n = c.len
        /\ \A p \in read..(write - 1) : At(ring', p) = At(ring, p)
        /\ \A p \in write..(from - 1) : At(ring', p) = Frame(L.order, L.len + (p - write))
        /\ \A p \in from..(write' - 1) : At(ring', p) = Frame(chunks + 1, p - from)
  BY <1>2, EnterFacts
<1>5. /\ read \in Int /\ write \in Int /\ read <= write /\ outstanding \subseteq Handle
      /\ from \in Int /\ from >= write /\ chunks \in Nat /\ c.len \in Nat
  BY <1>2, <1>3 DEF PositionsInv, LedgerInv, chunks, Waiting
<1>6. /\ \A h \in outstanding : h.end <= write /\ h.end = h.start + h.len
      /\ \A h \in outstanding : IsLast(h) => h.end = write
  <2>1. \A h \in outstanding : h.gen \notin invalidated
    BY DEF Schedulable
  <2> QED
    BY <1>2, <1>5, <2>1 DEF SpansInOrder, LastIsWritten, Handle
<1>7. H = [order |-> chunks + 1, gen |-> c.gen, len |-> c.len, start |-> from,
           end |-> from + c.len]
  BY DEF NewHandle
<1>8. owed # 0 => /\ L \in outstanding /\ L \in Handle /\ T \in Handle
                  /\ T.order = L.order /\ T.start = L.start /\ T.end = from
                  /\ T.len = L.len + owed /\ T.end = T.start + T.len /\ L.end = write
                  /\ L.start + L.len = write
  <2> SUFFICES ASSUME owed # 0
               PROVE  /\ L \in outstanding /\ L \in Handle /\ T \in Handle
                      /\ T.order = L.order /\ T.start = L.start /\ T.end = from
                      /\ T.len = L.len + owed /\ T.end = T.start + T.len /\ L.end = write
                      /\ L.start + L.len = write
    OBVIOUS
  <2>1. L \in outstanding /\ L \in Handle /\ L.end = write
    BY <1>3, <1>5, <1>6 DEF IsLast
  <2>2. /\ T \in Handle /\ T.order = L.order /\ T.start = L.start /\ T.end = L.end + owed
        /\ T.len = L.len + owed
    BY <1>3, <2>1, LengthenedFacts
  <2> HIDE DEF T, from
  <2> QED
    BY <1>3, <1>6, <2>1, <2>2 DEF Handle
<1>9. /\ \A t \in after : \/ t \in outstanding /\ (owed = 0 \/ t.order < L.order)
                          \/ owed # 0 /\ t = T
      /\ \A h \in outstanding : h \in after \/ (owed # 0 /\ h = L)
      /\ owed # 0 => T \in after
  <2>1. \A t \in after : \/ t \in outstanding /\ (owed = 0 \/ t.order < L.order)
                         \/ owed # 0 /\ t = T
    BY TailedHandles
  <2>2. /\ \A h \in outstanding : h \in after \/ (owed # 0 /\ h = L)
        /\ owed # 0 => T \in after
    BY DEF WithTail, Lengthened
  <2> QED
    BY <2>1, <2>2
<1>10. \A h \in outstanding : h.order \in 1..chunks
  BY DEF LedgerInv
<1> HIDE DEF owed, from, L, T, H, after
<1>11. SpansInOrder'
  <2>1. \A h \in outstanding' : h.end = h.start + h.len
    BY <1>1, <1>5, <1>6, <1>7, <1>8, <1>9
  <2>2. ASSUME NEW h \in outstanding', NEW k \in outstanding', h.order < k.order
        PROVE  h.end <= k.start
    <3>1. CASE k = H
      <4>1. CASE h = H
        BY <1>5, <1>7, <2>2, <3>1, <4>1
      <4>2. CASE h \in outstanding
        <5>1. h.end <= write /\ h.end \in Int
          BY <1>5, <1>6, <4>2 DEF Handle
        <5> QED
          BY <1>5, <1>7, <3>1, <5>1
      <4>3. CASE owed # 0 /\ h = T
        BY <1>5, <1>7, <1>8, <3>1, <4>3
      <4> QED
        BY <1>1, <1>9, <4>1, <4>2, <4>3
    <3>2. CASE h = H /\ k # H
      <4>1. k.order \in 1..chunks
        BY <1>1, <1>8, <1>9, <1>10, <3>2
      <4> QED
        BY <1>5, <1>7, <2>2, <3>2, <4>1
    <3>3. CASE h # H /\ k # H
      <4>1. CASE h \in outstanding /\ k \in outstanding
        BY <1>2, <2>2, <4>1 DEF SpansInOrder
      <4>2. CASE h \in outstanding /\ owed # 0 /\ k = T
        BY <1>2, <1>8, <2>2, <4>2 DEF SpansInOrder
      <4>3. CASE owed # 0 /\ h = T /\ k # T
        <5>1. k \in outstanding /\ k.order < L.order /\ h.order = L.order
          BY <1>1, <1>8, <1>9, <3>3, <4>3
        <5> QED
          BY <1>5, <1>8, <2>2, <4>3, <5>1 DEF Handle
      <4>4. CASE h = T /\ k = T /\ owed # 0
        BY <1>8, <2>2, <4>4 DEF Handle
      <4> QED
        BY <1>1, <1>9, <3>3, <4>1, <4>2, <4>3, <4>4
    <3> QED
      BY <3>1, <3>2, <3>3
  <2> QED
    BY <2>1, <2>2 DEF SpansInOrder
<1>12. QueuedIsSpanned'
  <2> SUFFICES ASSUME NEW p \in read..(write' - 1)
               PROVE  \E h \in outstanding' :
                        h.start <= p /\ p < h.end /\ At(ring', p) = Frame(h.order, p - h.start)
    BY DEF QueuedIsSpanned, At
  <2>1. CASE p \in read..(write - 1)
    <3>1. PICK h \in outstanding :
            h.start <= p /\ p < h.end /\ At(ring, p) = Frame(h.order, p - h.start)
      BY <1>2, <2>1 DEF QueuedIsSpanned
    <3>2. At(ring', p) = Frame(h.order, p - h.start)
      BY <1>4, <2>1, <3>1
    <3>3. CASE h \in after
      BY <1>1, <3>1, <3>2, <3>3
    <3>4. CASE owed # 0 /\ h = L
      <4>1. T.start <= p /\ p < T.end /\ At(ring', p) = Frame(T.order, p - T.start)
        BY <1>5, <1>8, <2>1, <3>1, <3>2, <3>4
      <4> QED
        BY <1>1, <1>9, <3>4, <4>1
    <3> QED
      BY <1>9, <3>3, <3>4
  <2>2. CASE p \in write..(from - 1)
    <3>1. owed # 0
      BY <1>3, <1>5, <2>2
    <3>2. T.start <= p /\ p < T.end /\ L.len + (p - write) = p - T.start
      BY <1>5, <1>8, <2>2, <3>1 DEF Handle
    <3>3. At(ring', p) = Frame(T.order, p - T.start)
      BY <1>4, <1>8, <2>2, <3>1, <3>2
    <3> QED
      BY <1>1, <1>9, <3>1, <3>2, <3>3
  <2>3. CASE p \in from..(write' - 1)
    <3>1. H.start <= p /\ p < H.end
      BY <1>4, <1>5, <1>7, <2>3
    <3>2. At(ring', p) = Frame(H.order, p - H.start)
      BY <1>4, <1>7, <2>3
    <3> QED
      BY <1>1, <3>1, <3>2
  <2> QED
    BY <1>4, <1>5, <2>1, <2>2, <2>3
<1>13. HeardIsSpan'
  <2> SUFFICES ASSUME NEW h \in outstanding' PROVE HeardOf(h.order) = HeardOfSpan(h)
    BY DEF HeardIsSpan, HeardOf, HeardOfSpan
  <2>1. CASE h \in outstanding
    BY <1>2, <2>1 DEF HeardIsSpan
  <2>2. CASE owed # 0 /\ h = T
    <3>1. HeardOf(L.order) = HeardOfSpan(L)
      BY <1>2, <1>8, <2>2 DEF HeardIsSpan
    <3>2. HeardOfSpan(T) = HeardOfSpan(L)
      BY <1>3, <1>5, <1>8, <2>2 DEF HeardOfSpan, Greatest, Least, Handle
    <3> QED
      BY <1>8, <2>2, <3>1, <3>2
  <2>3. CASE h = H
    <3>1. chunks + 1 \notin DOMAIN heard
      BY <1>5 DEF LedgerInv
    <3>2. HeardOf(H.order) = 0
      BY <1>7, <3>1 DEF HeardOf
    <3>3. HeardOfSpan(H) = 0
      BY <1>5, <1>7 DEF HeardOfSpan, Greatest, Least
    <3> QED
      BY <2>3, <3>2, <3>3
  <2> QED
    BY <1>1, <1>9, <2>1, <2>2, <2>3
<1>14. LastIsWritten'
  <2>0. PICK x : x = H
    OBVIOUS
  <2>1. x \in outstanding' /\ x.order = chunks + 1 /\ x.end = from + c.len /\ x.start = from
        /\ x.gen = c.gen /\ x.len = c.len
    BY <1>1, <1>7, <2>0
  <2>2. \A h \in outstanding' : h = x \/ (h.order \in 1..chunks /\ h.end <= from /\ h.end \in Int)
    BY <1>1, <1>5, <1>6, <1>8, <1>9, <1>10, <2>0 DEF Handle
  <2>3. IsLast(x)' /\ \A h \in outstanding' : IsLast(h)' => h = x
    <3>1. ASSUME NEW k \in outstanding' PROVE k.order <= x.order
      BY <1>5, <2>1, <2>2
    <3>2. ASSUME NEW h \in outstanding', IsLast(h)' PROVE h = x
      <4>1. x.order <= h.order
        BY <2>1, <3>2 DEF IsLast
      <4> QED
        BY <1>5, <2>1, <2>2, <4>1
    <3> QED
      BY <2>1, <3>1, <3>2 DEF IsLast
  <2>4. x.end >= write' /\ write' \in Int
    BY <1>4, <1>5, <2>1
  <2>5. CASE call' = Nothing
    <3>1. call'.at # "writing"
      BY <2>5 DEF Nothing
    <3>2. \A h \in outstanding' : h.end <= write'
      BY <1>4, <1>5, <2>1, <2>2, <2>5
    <3> QED
      BY <2>3, <2>4, <3>1, <3>2 DEF LastIsWritten
  <2>6. CASE n < c.len /\ call' = [Started(c) EXCEPT !.offset = n]
    <3>1. /\ call'.at = "writing" /\ call'.gen = c.gen /\ call'.order = chunks + 1
          /\ call'.len = c.len /\ call'.offset = n
      BY <2>6 DEF Started
    <3>2. x.start + call'.offset = write' /\ call'.offset < call'.len
      BY <1>4, <2>1, <2>6, <3>1
    <3>3. \A h \in outstanding' : IsLast(h)' => h.end >= write'
      BY <2>3, <2>4
    <3> QED
      BY <2>1, <2>3, <3>1, <3>2, <3>3 DEF LastIsWritten
  <2> QED
    BY <1>4, <2>5, <2>6
<1> QED
  BY <1>11, <1>12, <1>13, <1>14

LEMMA SpansNext == LedgerInv /\ PositionsInv /\ SpansInv /\ [Next]_vars => SpansInv'
<1> SUFFICES ASSUME LedgerInv, PositionsInv, SpansInv, [Next]_vars PROVE SpansInv'
  OBVIOUS
<1>1. CASE Admit \/ \E g \in 1..genSeq, s \in Shapes : CallSchedule(g, s)
  <2>1. /\ phase = "running" /\ call.at # "writing"
        /\ UNCHANGED <<genSeq, invalidated, read, maxPresented, callback, phase, heard>>
    BY <1>1, EnterOrWait DEF Nothing, Waiting
  <2>2. ASSUME NEW c \in Waiting, c.gen \in 1..genSeq, Schedulable(c.gen), Enter(c)
        PROVE  SpansInv'
    <3>1. CASE c.gen \in invalidated
      BY <2>1, <2>2, <3>1, SpansFrame DEF Enter, Nothing
    <3>2. CASE c.gen \notin invalidated
      BY <2>1, <2>2, <3>2, EnterSpans
    <3> QED
      BY <3>1, <3>2
  <2>3. CASE /\ call' \in Waiting
             /\ UNCHANGED <<outstanding, write, ring, resampler, owners, harm>>
    BY <2>1, <2>3, SpansFrame DEF Waiting
  <2> QED
    BY <1>1, <2>2, <2>3, EnterOrWait
<1>2. CASE WriteOn
  <2>1. CASE call.gen \in invalidated
    <3>1. /\ UNCHANGED <<outstanding, write, read, ring, heard, owners, phase, harm, invalidated>>
          /\ call.at = "writing" /\ call'.at # "writing"
      BY <1>2, <2>1 DEF WriteOn, ledger, history, Nothing
    <3> QED
      BY <2>1, <3>1, SpansFrame
  <2> QED
    BY <1>2, <2>1, WriteOnSpans
<1>3. CASE CallbackEnd
  BY <1>3, CallbackEndSpans
<1>4. ASSUME NEW p \in PresentedNow, Progress(p) PROVE SpansInv'
  BY <1>4, ProgressSpans
<1>5. ASSUME NEW g \in 1..genSeq, Stop(g) PROVE SpansInv'
  BY <1>5, StopSpans
<1>6. CASE AskGeneration \/ CallbackBegin \/ (\E g \in 1..genSeq : StopRaises(g))
           \/ UNCHANGED vars
  <2>1. /\ UNCHANGED <<outstanding, write, read, ring, heard, owners, phase, call>>
        /\ harm \subseteq harm' /\ invalidated \subseteq invalidated'
    BY <1>6 DEF AskGeneration, CallbackBegin, StopRaises, vars, ledger, history
  <2> QED
    BY <2>1, SpansFrame
<1>7. CASE Close
  BY <1>7 DEF Close, SpansInv, Unharmed
<1> QED
  BY <1>1, <1>2, <1>3, <1>4, <1>5, <1>6, <1>7 DEF Next

LEMMA RingInit == Init => RingInv
<1> SUFFICES ASSUME Init PROVE RingInv
  OBVIOUS
<1>1. LedgerInv
  <2>1. Cardinality(outstanding) = 0 /\ IsFiniteSet(outstanding)
    BY FS_EmptySet DEF Init
  <2> QED
    BY <2>1, Sizes DEF Init, LedgerInv, chunks, Nothing, Harms
<1>2. PositionsInv
  BY Sizes DEF Init, PositionsInv
<1>3. SilenceInv
  BY DEF Init, SilenceInv
<1>4. SpansInv
  BY DEF Init, SpansInv, SpansInOrder, QueuedIsSpanned, HeardIsSpan, LastIsWritten, IsLast,
         Nothing
<1> QED
  BY <1>1, <1>2, <1>3, <1>4 DEF RingInv

LEMMA RingNext == RingInv /\ [Next]_vars => RingInv'
BY LedgerNext, PositionsNext, SilenceNext, SpansNext DEF RingInv

LEMMA RingAlways == Spec => []RingInv
BY RingInit, RingNext, PTL DEF Spec

---------------------------------------------------------------------------
(* What the invariant says of the runs' properties. *)

LEMMA TypesHold == LedgerInv /\ PositionsInv => TypeOK
<1> SUFFICES ASSUME LedgerInv, PositionsInv PROVE TypeOK
  OBVIOUS
<1>1. call.at \in {"none", "waiting", "writing"}
  BY DEF LedgerInv, Nothing, Waiting, Writing
<1> QED
  BY <1>1 DEF LedgerInv, PositionsInv, TypeOK, Rates

(* The frame at the read position is the first one not heard of its chunk; *)
(* any other continues the frame before it or begins the next chunk.       *)
LEMMA DueHolds == RingInv => RingHoldsWhatIsDue
<1> SUFFICES ASSUME RingInv, phase # "closed", harm \cap {"torn", "cut", "others"} = {}
             PROVE  RingHoldsWhatIsDue
  BY DEF RingHoldsWhatIsDue
<1>1. /\ LedgerInv /\ PositionsInv
      /\ SpansInOrder /\ QueuedIsSpanned /\ HeardIsSpan
  BY DEF RingInv, SpansInv, Unharmed, LedgerInv
<1>2. read \in Int /\ write \in Int /\ read <= write /\ write - read <= RingSize
  BY <1>1 DEF PositionsInv
<1>3. ASSUME NEW p \in read..(write - 1)
      PROVE  LET due  == At(ring, p)
                 last == At(ring, p - 1)
             IN  IF p = read THEN due.frame = HeardOf(due.order)
                 ELSE \/ due.order = last.order /\ due.frame = last.frame + 1
                      \/ /\ due.order > last.order /\ due.frame = 0
                         /\ \E h \in outstanding :
                              h.order = last.order /\ h.len = last.frame + 1
  <2>1. PICK h \in outstanding :
          h.start <= p /\ p < h.end /\ At(ring, p) = Frame(h.order, p - h.start)
    BY <1>1, <1>3 DEF QueuedIsSpanned
  <2>2. p \in Int /\ h \in Handle /\ h.end = h.start + h.len
    BY <1>1, <1>2 DEF LedgerInv, SpansInOrder
  <2>3. At(ring, p).order = h.order /\ At(ring, p).frame = p - h.start
    BY <2>1 DEF Frame
  <2>4. CASE p = read
    <3>1. HeardOf(h.order) = HeardOfSpan(h)
      BY <1>1 DEF HeardIsSpan
    <3>2. HeardOfSpan(h) = read - h.start
      BY <1>2, <2>1, <2>2, <2>4 DEF HeardOfSpan, Greatest, Least, Handle
    <3> QED
      BY <2>3, <2>4, <3>1, <3>2
  <2>5. CASE p # read
    <3>1. p - 1 \in read..(write - 1)
      BY <1>2, <2>2, <2>5
    <3>2. PICK k \in outstanding :
            k.start <= p - 1 /\ p - 1 < k.end /\ At(ring, p - 1) = Frame(k.order, (p - 1) - k.start)
      BY <1>1, <3>1 DEF QueuedIsSpanned
    <3>3. k \in Handle /\ k.end = k.start + k.len
      BY <1>1 DEF LedgerInv, SpansInOrder
    <3>4. At(ring, p - 1).order = k.order /\ At(ring, p - 1).frame = (p - 1) - k.start
      BY <3>2 DEF Frame
    <3>5. CASE h = k
      <4>1. p - h.start = ((p - 1) - k.start) + 1
        BY <2>2, <3>5 DEF Handle
      <4> QED
        BY <2>3, <2>5, <3>4, <3>5, <4>1
    <3>6. CASE h # k
      <4>1. h.order # k.order
        BY <1>1, <3>6 DEF LedgerInv
      <4>2. ~(h.order < k.order)
        <5>1. h.order < k.order => h.end <= k.start
          BY <1>1 DEF SpansInOrder
        <5> QED
          BY <2>1, <2>2, <3>2, <3>3, <5>1 DEF Handle
      <4>3. k.order < h.order
        BY <2>2, <3>3, <4>1, <4>2 DEF Handle
      <4>4. k.end <= h.start
        BY <1>1, <4>3 DEF SpansInOrder
      <4>5. p - h.start = 0 /\ k.len = ((p - 1) - k.start) + 1
        BY <2>1, <2>2, <3>2, <3>3, <4>4 DEF Handle
      <4>6. h.order > k.order
        BY <2>2, <3>3, <4>3 DEF Handle
      <4> QED
        BY <2>3, <2>5, <3>4, <4>5, <4>6
    <3> QED
      BY <3>5, <3>6
  <2> QED
    BY <2>4, <2>5
<1> QED
  BY <1>2, <1>3 DEF RingHoldsWhatIsDue, At

(* A position that may count as presented has been read, and the span of a *)
(* handle behind it has been heard.                                        *)
LEMMA ReceiptsHold == RingInv => ReceiptsAreHeard
<1> SUFFICES ASSUME RingInv, harm \cap {"torn", "cut", "others"} = {},
                    NEW p \in PresentedNow, NEW h \in outstanding
             PROVE  /\ Presented(h, p) <= HeardOf(h.order)
                    /\ Finished(h, p) => HeardOf(h.order) = h.len
  BY DEF ReceiptsAreHeard
<1>1. phase = "running"
  BY DEF RingInv, LedgerInv
<1>2. LedgerInv /\ PositionsInv /\ SpansInOrder /\ HeardIsSpan
  BY <1>1 DEF RingInv, SpansInv, Unharmed
<1>3. read \in Int /\ maxPresented \in Int
  BY <1>2 DEF PositionsInv
<1>4. p \in Int /\ p <= read
  BY <1>3 DEF PresentedNow, Least, Greatest
<1>5. h \in Handle /\ h.end = h.start + h.len
  BY <1>2 DEF LedgerInv, SpansInOrder
<1>6. HeardOf(h.order) = HeardOfSpan(h)
  BY <1>2 DEF HeardIsSpan
<1> QED
  BY <1>3, <1>4, <1>5, <1>6 DEF Presented, Finished, HeardOfSpan, Greatest, Least, Handle

(* A chunk that a callback takes frames of has one between the positions.  *)
LEMMA TakenIsQueued ==
  ASSUME LedgerInv, PositionsInv, CallbackEnd,
         NEW o \in DOMAIN heard', heard'[o] > HeardOf(o)
  PROVE  o \in 1..chunks /\ \E p \in read..(write - 1) : At(ring, p).order = o
<1> DEFINE taken == {i \in DOMAIN Copied : Copied[i].order = o}
<1>1. callback # Nothing /\ heard' = HeardAfter(Copied)
  BY DEF CallbackEnd
<1>2. o \in 1..chunks /\ heard'[o] = HeardOf(o) + Cardinality(taken)
  BY <1>1 DEF HeardAfter
<1>3. HeardOf(o) \in Nat
  BY DEF HeardOf, LedgerInv
<1>4. taken # {}
  <2>1. taken = {} => Cardinality(taken) = 0
    BY FS_EmptySet
  <2> HIDE DEF taken
  <2> QED
    BY <1>2, <1>3, <2>1
<1>5. PICK i \in DOMAIN Copied : Copied[i].order = o
  BY <1>4
<1>6. /\ read \in Int /\ write \in Int /\ callback.n \in Int
      /\ callback.from = read /\ callback.n <= write - read
  BY <1>1 DEF PositionsInv, Copying
<1>7. i \in 1..callback.n /\ Copied[i] = ring[(read + i - 1) % RingSize]
  BY <1>6 DEF Copied
<1>8. PICK p \in Int : p = read + i - 1
  BY <1>6, <1>7
<1>9. p \in read..(write - 1) /\ At(ring, p).order = o
  BY <1>5, <1>6, <1>7, <1>8 DEF At
<1> QED
  BY <1>2, <1>9

(* Only a callback takes frames, and it finds none of a stopped generation. *)
LEMMA StoppedStep ==
  RingInv /\ [Next]_vars =>
    (harm \cap {"torn", "failed"} = {} =>
       \A o \in DOMAIN heard' : heard'[o] > HeardOf(o) => owners[o] \notin invalidated)
<1> SUFFICES ASSUME RingInv, [Next]_vars, harm \cap {"torn", "failed"} = {},
                    NEW o \in DOMAIN heard', heard'[o] > HeardOf(o)
             PROVE  owners[o] \notin invalidated
  OBVIOUS
<1>1. LedgerInv /\ PositionsInv /\ SilenceInv
  BY DEF RingInv
<1>2. CASE heard' = heard
  <2>1. heard'[o] = HeardOf(o) /\ heard'[o] \in Nat
    BY <1>1, <1>2 DEF HeardOf, LedgerInv
  <2> QED
    BY <2>1
<1>3. CASE CallbackEnd
  <2>1. PICK p \in read..(write - 1) : At(ring, p).order = o
    BY <1>1, <1>3, TakenIsQueued
  <2> QED
    BY <1>1, <2>1 DEF SilenceInv
<1>4. heard' = heard \/ CallbackEnd
  BY DEF Next, vars, history, AskGeneration, CallSchedule, Enter, Admit, WriteOn,
         CallbackBegin, Progress, Stop, StopRaises, Close
<1> QED
  BY <1>2, <1>3, <1>4

---------------------------------------------------------------------------

(***************************************************************************)
(* SpeakerSink's ring (audio_io.py schedule, _ring_write, _callback, stop) *)
(* for any ring, block and chunks: positions and ledger stay within bounds *)
(* and, unless a stop cut a callback in two, dropped another generation's  *)
(* audio or a tail did not fit, the frames between the read and the write  *)
(* position are exactly those due, none skipped, repeated or overwritten.  *)
(***************************************************************************)
THEOREM SpeakerRingIsSound == Spec => []RingIsSound
<1>1. RingInv => RingIsSound
  BY TypesHold, DueHolds DEF RingInv, RingIsSound
<1> QED
  BY <1>1, RingAlways, PTL

(***************************************************************************)
(* The receipts of SpeakerSink (audio_io.py _apply_presented, _on_progress) *)
(* never report a frame the callback has not taken, and a handle completes *)
(* only when its chunk has been taken to the last frame, for whatever      *)
(* the sound card's time makes of the presented position.                  *)
(***************************************************************************)
THEOREM SpeakerReceiptsAreHeard == Spec => []ReceiptsAreHeard
BY ReceiptsHold, RingAlways, PTL

(***************************************************************************)
(* stop() silences (audio_io.py stop, _callback): the callback takes no    *)
(* frame of a generation once it is invalidated, unless an earlier stop    *)
(* cut a callback in two or raised half-way.                               *)
(***************************************************************************)
THEOREM SpeakerStoppedIsNotHeard == Spec => StoppedIsNotHeard
<1>1. RingInv /\ [Next]_vars =>
        [harm \cap {"torn", "failed"} = {} =>
           \A o \in DOMAIN heard' :
             heard'[o] > HeardOf(o) => owners[o] \notin invalidated]_vars
  BY StoppedStep
<1> QED
  BY <1>1, RingAlways, PTL DEF Spec, StoppedIsNotHeard

---------------------------------------------------------------------------
(* The contract of AudioSink. *)

(* The last chunk of which something was heard. *)
LEMMA LastSoundedFacts ==
  ASSUME NEW counts \in Seq(Nat)
  PROVE  /\ LastSounded(counts) \in Nat
         /\ \A o \in DOMAIN counts : counts[o] > 0 => o <= LastSounded(counts)
         /\ LastSounded(counts) # 0 =>
              LastSounded(counts) \in DOMAIN counts /\ counts[LastSounded(counts)] > 0
<1> DEFINE sounded == {o \in DOMAIN counts : counts[o] > 0}
           Gaps == {n \in Nat : \E o \in sounded : Len(counts) - o = n}
<1>1. DOMAIN counts = 1..Len(counts) /\ Len(counts) \in Nat
  OBVIOUS
<1>2. CASE sounded = {}
  <2>1. LastSounded(counts) = 0
    BY <1>2 DEF LastSounded
  <2> QED
    BY <1>2, <2>1
<1>3. CASE sounded # {}
  <2>1. \A o \in sounded : Len(counts) - o \in Gaps
    BY <1>1
  <2>2. Gaps # {} /\ Gaps \in SUBSET Nat
    BY <1>3, <2>1
  <2>3. PICK n \in Gaps : \A m \in Gaps : n <= m
    <3> HIDE DEF Gaps
    <3> QED
      BY <2>2, LeastNumber
  <2>4. PICK top \in sounded : Len(counts) - top = n
    BY <2>3
  <2>5. \A o \in sounded : o <= top
    BY <1>1, <2>1, <2>3, <2>4
  <2>6. /\ LastSounded(counts) \in sounded
        /\ \A o \in sounded : o <= LastSounded(counts)
    <3>1. LastSounded(counts) = CHOOSE o \in sounded : \A k \in sounded : k <= o
      BY <1>3 DEF LastSounded
    <3> HIDE DEF sounded
    <3> QED
      BY <2>4, <2>5, <3>1
  <2> HIDE DEF Gaps
  <2> QED
    BY <1>1, <2>6
<1> QED
  BY <1>2, <1>3

(* What the contract sees of the handles hs: their numbers, and those in   *)
(* which nothing sounds.                                                   *)
Seen(hs) == {[order |-> h.order, gen |-> h.gen] : h \in hs}
Empty(hs) == {h.order : h \in {k \in hs : k.len = 0}}

LEMMA SeenFacts ==
  ASSUME NEW hs \in SUBSET Handle, IsFiniteSet(hs)
  PROVE  /\ IsFiniteSet(Seen(hs)) /\ Cardinality(Seen(hs)) <= Cardinality(hs)
         /\ \A c \in Seen(hs) : \E h \in hs : c.order = h.order /\ c.gen = h.gen
<1>1. \A c \in Seen(hs) : \E h \in hs : c.order = h.order /\ c.gen = h.gen
  BY DEF Seen
<1> DEFINE f == [h \in hs |-> [order |-> h.order, gen |-> h.gen]]
<1>2. f \in Surjection(hs, Seen(hs))
  BY DEF Seen, Surjection
<1> QED
  BY <1>1, <1>2, FS_Surjection

(* The contract counts with an instance of Cardinality.                    *)
LEMMA SameCount ==
  ASSUME NEW S
  PROVE  Contract!Cardinality(S) = Cardinality(S)
BY DEF Contract!Cardinality, Cardinality

(* schedule() from the end of the wait on: the tail of another rate changes *)
(* no number and no generation.                                            *)
LEMMA EnterAccepts ==
  ASSUME LedgerInv, PositionsInv,
         NEW c \in Waiting, c.gen \in 1..genSeq, Schedulable(c.gen), Enter(c),
         UNCHANGED <<genSeq, invalidated, heard>>
  PROVE  Contract!Accept(c.gen) \/ UNCHANGED Contract!vars
<1>1. CASE c.gen \in invalidated
  <2>1. UNCHANGED <<outstanding, owners>>
    BY <1>1 DEF Enter
  <2> QED
    BY <2>1 DEF Contract!vars, chunks
<1>2. CASE c.gen \notin invalidated
  <2> DEFINE new == NewHandle(c)
             after == WithTail(c.rate)
  <2>1. /\ outstanding' = after \cup {new} /\ owners' = Append(owners, c.gen)
    BY <1>2 DEF Enter
  <2>2. chunks \in Nat /\ chunks' = chunks + 1
    BY <2>1 DEF LedgerInv, chunks
  <2>3. new.order = chunks + 1 /\ new.gen = c.gen
    BY DEF NewHandle
  <2>4. Seen(after) = Seen(outstanding) /\ Empty(after) \subseteq Empty(outstanding)
    <3>1. TailOwed(c.rate) \in Nat
      BY TailFacts
    <3>2. CASE TailOwed(c.rate) = 0
      BY <3>2 DEF WithTail
    <3>3. CASE TailOwed(c.rate) # 0
      <4> DEFINE L == LastHandle
                 T == Lengthened(L, TailOwed(c.rate))
      <4>1. after = (outstanding \ {L}) \cup {T}
        BY <3>3 DEF WithTail, Lengthened
      <4>2. L \in outstanding /\ L \in Handle
        <5>1. outstanding # {}
          BY <3>3, TailFacts
        <5> QED
          BY <5>1, LastExists DEF IsLast, LedgerInv
      <4>3. T.order = L.order /\ T.gen = L.gen /\ T.len = L.len + TailOwed(c.rate)
        BY <3>1, <4>2, LengthenedFacts
      <4>4. T.len # 0
        BY <3>1, <3>3, <4>2, <4>3 DEF Handle
      <4> HIDE DEF L, T, after
      <4>5. Seen(after) = Seen(outstanding)
        BY <4>1, <4>2, <4>3 DEF Seen
      <4>6. Empty(after) \subseteq Empty(outstanding)
        BY <4>1, <4>4 DEF Empty
      <4> QED
        BY <4>5, <4>6
    <3> QED
      BY <3>2, <3>3
  <2> HIDE DEF new, after
  <2>5. Seen(outstanding') = Seen(outstanding) \cup {[order |-> chunks', gen |-> c.gen]}
    BY <2>1, <2>2, <2>3, <2>4 DEF Seen
  <2>6. Empty(outstanding') \subseteq Empty(outstanding) \cup {chunks'}
    BY <2>1, <2>2, <2>3, <2>4 DEF Empty
  <2>7. /\ Cardinality(outstanding) < Capacity
        /\ \A h \in outstanding : h.gen = c.gen
    BY <1>2 DEF Schedulable
  <2>8. /\ Cardinality(Seen(outstanding)) < Capacity
        /\ \A k \in Seen(outstanding) : k.gen = c.gen
    <3>1. /\ outstanding \in SUBSET Handle /\ IsFiniteSet(outstanding)
          /\ Cardinality(outstanding) \in Nat
      BY FS_CardinalityType DEF LedgerInv
    <3>2. Cardinality(Seen(outstanding)) <= Cardinality(outstanding)
          /\ \A k \in Seen(outstanding) : \E h \in outstanding : k.gen = h.gen
      BY <3>1, SeenFacts
    <3>3. Cardinality(Seen(outstanding)) \in Nat
      BY <3>1, SeenFacts, FS_CardinalityType
    <3> QED
      BY <2>7, <3>1, <3>2, <3>3, Sizes
  <2>9. Contract!Cardinality(Seen(outstanding)) < Capacity
    BY <2>8, SameCount
  <2>10. UNCHANGED <<genSeq, invalidated, LastSounded(heard)>>
    OBVIOUS
  <2> QED
    BY <1>2, <2>2, <2>5, <2>6, <2>8, <2>9, <2>10 DEF Contract!Accept, Seen, Empty
<1> QED
  BY <1>1, <1>2

(* The first sample of a chunk that a callback takes is of one that is      *)
(* outstanding.                                                            *)
LEMMA CallbackBegins ==
  ASSUME RingInv, CallbackEnd, harm = {}
  PROVE  (\E c \in Seen(outstanding) : Contract!Begin(c)) \/ UNCHANGED Contract!vars
<1>1. /\ UNCHANGED <<genSeq, invalidated, outstanding, owners>>
      /\ callback # Nothing /\ heard' = HeardAfter(Copied)
  BY DEF CallbackEnd, ledger
<1>2. LedgerInv /\ PositionsInv /\ QueuedIsSpanned
  <2>1. phase = "running"
    BY <1>1 DEF RingInv, LedgerInv
  <2> QED
    BY <2>1 DEF RingInv, SpansInv, Unharmed
<1>3. heard \in Seq(Nat) /\ heard' \in Seq(Nat) /\ Len(heard) <= chunks /\ Len(heard') = chunks
      /\ chunks \in Nat
  BY <1>1, <1>2, HeardType DEF LedgerInv, chunks
<1>4. \A o \in DOMAIN heard : o \in DOMAIN heard' /\ heard'[o] >= heard[o]
  <2> SUFFICES ASSUME NEW o \in DOMAIN heard PROVE o \in DOMAIN heard' /\ heard'[o] >= heard[o]
    OBVIOUS
  <2> DEFINE more == Cardinality({i \in DOMAIN Copied : Copied[i].order = o})
  <2>1. o \in 1..chunks /\ o \in DOMAIN heard' /\ heard[o] \in Nat /\ HeardOf(o) = heard[o]
    BY <1>3 DEF HeardOf
  <2>2. heard'[o] = heard[o] + more
    BY <1>1, <2>1 DEF HeardAfter
  <2>3. more \in Nat
    <3>1. DOMAIN Copied = 1..callback.n /\ callback.n \in Int
      BY <1>1, <1>2 DEF Copied, PositionsInv, Copying
    <3>2. IsFiniteSet(1..callback.n)
      BY <3>1, FS_Interval
    <3>3. {i \in DOMAIN Copied : Copied[i].order = o} \subseteq 1..callback.n
      BY <3>1
    <3> QED
      BY <3>2, <3>3, FS_Subset, FS_CardinalityType
  <2> HIDE DEF more
  <2> QED
    BY <2>1, <2>2, <2>3
<1> DEFINE old == LastSounded(heard)
           new == LastSounded(heard')
<1>5. /\ old \in Nat /\ new \in Nat
      /\ \A o \in DOMAIN heard : heard[o] > 0 => o <= old
      /\ \A o \in DOMAIN heard' : heard'[o] > 0 => o <= new
      /\ old # 0 => old \in DOMAIN heard /\ heard[old] > 0
      /\ new # 0 => new \in DOMAIN heard' /\ heard'[new] > 0
  BY <1>3, LastSoundedFacts
<1> HIDE DEF old, new
<1>6. CASE new = old
  <2>1. LastSounded(heard)' = LastSounded(heard)
    BY <1>6 DEF old, new
  <2> QED
    BY <1>1, <2>1 DEF Contract!vars, chunks
<1>7. CASE new # old
  <2>1. old < new
    <3>1. old # 0 => old \in DOMAIN heard' /\ heard'[old] > 0
      <4>1. ASSUME old # 0 PROVE old \in DOMAIN heard' /\ heard'[old] > 0
        <5>1. old \in DOMAIN heard /\ heard[old] > 0 /\ heard[old] \in Nat
          BY <1>3, <1>5, <4>1
        <5>2. old \in DOMAIN heard' /\ heard'[old] >= heard[old] /\ heard'[old] \in Nat
          BY <1>3, <1>4, <5>1
        <5> QED
          BY <5>1, <5>2
      <4> QED
        BY <4>1
    <3> QED
      BY <1>5, <1>7, <3>1
  <2>2. new \in DOMAIN heard' /\ heard'[new] > HeardOf(new)
    <3>1. new \in DOMAIN heard' /\ heard'[new] > 0
      BY <1>5, <2>1
    <3>2. HeardOf(new) = 0
      <4>1. new \in DOMAIN heard => heard[new] = 0
        BY <1>3, <1>5, <2>1
      <4> QED
        BY <4>1 DEF HeardOf
    <3> QED
      BY <3>1, <3>2
  <2>3. PICK p \in read..(write - 1) : At(ring, p).order = new
    BY <1>2, <2>2, TakenIsQueued
  <2>4. PICK h \in outstanding : At(ring, p) = Frame(h.order, p - h.start)
    BY <1>2, <2>3 DEF QueuedIsSpanned
  <2>5. h.order = new
    BY <2>3, <2>4 DEF Frame
  <2> DEFINE c == [order |-> h.order, gen |-> h.gen]
  <2>6. c \in Seen(outstanding) /\ c.order = new
    BY <2>5 DEF Seen
  <2>7. LastSounded(heard) < c.order /\ LastSounded(heard)' = c.order
    BY <2>1, <2>6 DEF old, new
  <2> HIDE DEF c
  <2>8. Contract!Begin(c)
    BY <1>1, <2>6, <2>7 DEF Contract!Begin, Seen, chunks
  <2> QED
    BY <2>6, <2>8
<1> QED
  BY <1>6, <1>7

(* Whatever completes has been heard, and all that comes after it stays.   *)
LEMMA ProgressCompletes ==
  ASSUME RingInv, NEW q \in PresentedNow, Progress(q), harm = {}
  PROVE  Contract!Complete
<1>1. /\ UNCHANGED <<genSeq, invalidated, owners, heard>> /\ outstanding # {}
      /\ outstanding' = {h \in outstanding : ~(q >= h.end)}
  BY DEF Progress, Finished, history
<1>2. LedgerInv /\ PositionsInv /\ SpansInOrder /\ HeardIsSpan
  <2>1. phase = "running"
    BY <1>1 DEF RingInv, LedgerInv
  <2> QED
    BY <2>1 DEF RingInv, SpansInv, Unharmed
<1>3. q \in Int /\ read \in Int /\ q <= read /\ outstanding \subseteq Handle
  BY <1>2 DEF PositionsInv, PresentedNow, Least, Greatest, LedgerInv
<1>4. heard \in Seq(Nat)
  BY <1>2 DEF LedgerInv
<1>5. ASSUME NEW h \in outstanding, q >= h.end
      PROVE  /\ h.order <= LastSounded(heard) \/ h.len = 0
             /\ \A k \in outstanding' : h.order < k.order
  <2>1. h \in Handle /\ h.end = h.start + h.len /\ h.len \in Nat
    BY <1>2, <1>3 DEF SpansInOrder, Handle
  <2>2. h.len # 0 => HeardOf(h.order) > 0
    <3>1. HeardOf(h.order) = Greatest(0, Least(h.len, read - h.start))
      BY <1>2 DEF HeardIsSpan, HeardOfSpan
    <3> QED
      BY <1>3, <1>5, <2>1, <3>1 DEF Greatest, Least, Handle
  <2>3. HeardOf(h.order) > 0 => h.order <= LastSounded(heard)
    BY <1>4, LastSoundedFacts DEF HeardOf
  <2>4. ASSUME NEW k \in outstanding' PROVE h.order < k.order
    <3>1. k \in outstanding /\ ~(q >= k.end) /\ k \in Handle
      BY <1>1, <1>3
    <3>2. k.end = k.start + k.len
      BY <1>2, <3>1 DEF SpansInOrder
    <3>3. k.order # h.order
      BY <1>2, <1>5, <3>1 DEF LedgerInv
    <3>4. ~(k.order < h.order)
      <4> SUFFICES ASSUME k.order < h.order PROVE FALSE
        OBVIOUS
      <4>1. k.end <= h.start
        BY <1>2, <3>1 DEF SpansInOrder
      <4> QED
        BY <1>3, <1>5, <2>1, <3>1, <4>1 DEF Handle
    <3> QED
      BY <2>1, <3>1, <3>3, <3>4 DEF Handle
  <2> QED
    BY <2>2, <2>3, <2>4
<1>6. /\ outstanding' \subseteq outstanding
      /\ \A h \in outstanding \ outstanding' : q >= h.end
  BY <1>1
<1>7. Seen(outstanding') \subseteq Seen(outstanding)
      /\ Empty(outstanding') \subseteq Empty(outstanding)
  BY <1>6 DEF Seen, Empty
<1>8. ASSUME NEW c \in Seen(outstanding) \ Seen(outstanding')
      PROVE  /\ c.order <= LastSounded(heard) \/ c.order \in Empty(outstanding)
             /\ \A other \in Seen(outstanding') : c.order < other.order
  <2>1. PICK h \in outstanding : c = [order |-> h.order, gen |-> h.gen]
    BY <1>8 DEF Seen
  <2>2. h \notin outstanding'
    BY <1>8, <2>1 DEF Seen
  <2>3. /\ h.order <= LastSounded(heard) \/ h.len = 0
        /\ \A k \in outstanding' : h.order < k.order
    BY <1>5, <1>6, <2>2
  <2>4. h.len = 0 => c.order \in Empty(outstanding)
    BY <2>1 DEF Empty
  <2> QED
    BY <2>1, <2>3, <2>4 DEF Seen
<1> QED
  BY <1>1, <1>7, <1>8 DEF Contract!Complete, Seen, Empty, chunks

(* A stop resolves the handles of its own generation, harmed or not.       *)
LEMMA StopStops ==
  ASSUME NEW g \in 1..genSeq, Stop(g)
  PROVE  Contract!Stop(g)
<1>1. /\ UNCHANGED <<genSeq, owners, heard>> /\ invalidated' = invalidated \cup {g}
      /\ outstanding' = {h \in outstanding : h.gen # g}
  BY DEF Stop
<1>2. Seen(outstanding') = {c \in Seen(outstanding) : c.gen # g}
  BY <1>1 DEF Seen
<1>3. Empty(outstanding') \subseteq Empty(outstanding)
  BY <1>1 DEF Empty
<1> QED
  BY <1>1, <1>2, <1>3 DEF Contract!Stop, Seen, Empty, chunks

LEMMA ContractInit == Init => Contract!Init
<1> SUFFICES ASSUME Init PROVE Contract!Init
  OBVIOUS
<1>1. genSeq = 0 /\ invalidated = {} /\ outstanding = {} /\ owners = <<>> /\ heard = <<>>
  BY DEF Init
<1>2. LastSounded(heard) = 0 /\ chunks = 0
  BY <1>1 DEF LastSounded, chunks
<1>3. {[order |-> h.order, gen |-> h.gen] : h \in outstanding} = {}
      /\ {h.order : h \in {k \in outstanding : k.len = 0}} = {}
  BY <1>1
<1> QED
  BY <1>1, <1>2, <1>3 DEF Contract!Init

LEMMA ContractStep ==
  RingInv /\ [Next]_vars => (harm' = {} => Contract!Next \/ UNCHANGED Contract!vars)
<1> SUFFICES ASSUME RingInv, [Next]_vars, harm' = {}
             PROVE  Contract!Next \/ UNCHANGED Contract!vars
  OBVIOUS
<1>1. LedgerInv /\ PositionsInv
  BY DEF RingInv
<1>2. CASE Admit \/ \E g \in 1..genSeq, s \in Shapes : CallSchedule(g, s)
  <2>1. UNCHANGED <<genSeq, invalidated, heard>>
    BY <1>1, <1>2, EnterOrWait
  <2>2. ASSUME NEW c \in Waiting, c.gen \in 1..genSeq, Schedulable(c.gen), Enter(c)
        PROVE  Contract!Next \/ UNCHANGED Contract!vars
    BY <1>1, <2>1, <2>2, EnterAccepts DEF Contract!Next
  <2>3. CASE UNCHANGED <<outstanding, owners>>
    BY <2>1, <2>3 DEF Contract!vars, chunks
  <2> QED
    BY <1>1, <1>2, <2>2, <2>3, EnterOrWait
<1>3. CASE WriteOn \/ CallbackBegin \/ UNCHANGED vars
  <2>1. UNCHANGED <<genSeq, invalidated, outstanding, owners, heard>>
    BY <1>3 DEF WriteOn, CallbackBegin, ledger, history, vars
  <2> QED
    BY <2>1 DEF Contract!vars, chunks
<1>4. CASE AskGeneration
  <2>1. genSeq' = genSeq + 1 /\ UNCHANGED <<invalidated, outstanding, owners, heard>>
    BY <1>4 DEF AskGeneration, history
  <2>2. Contract!NewGeneration
    BY <2>1 DEF Contract!NewGeneration, chunks
  <2> QED
    BY <2>2 DEF Contract!Next
<1>5. CASE CallbackEnd
  <2>1. harm = {}
    BY <1>5 DEF CallbackEnd
  <2>2. (\E c \in Seen(outstanding) : Contract!Begin(c)) \/ UNCHANGED Contract!vars
    BY <1>5, <2>1, CallbackBegins
  <2> QED
    BY <2>2 DEF Contract!Next, Seen
<1>6. CASE \E q \in PresentedNow : Progress(q)
  <2>1. harm = {}
    BY <1>6 DEF Progress
  <2> QED
    BY <1>6, <2>1, ProgressCompletes DEF Contract!Next
<1>7. ASSUME NEW g \in 1..genSeq, Stop(g) PROVE Contract!Next
  BY <1>7, StopStops DEF Contract!Next
<1>8. ASSUME NEW g \in 1..genSeq, StopRaises(g) PROVE FALSE
  BY <1>8 DEF StopRaises
<1>9. CASE Close
  <2>1. outstanding' = {} /\ UNCHANGED <<genSeq, invalidated, owners, heard>>
    BY <1>9 DEF Close, history
  <2>2. Contract!Close
    BY <2>1 DEF Contract!Close, chunks
  <2> QED
    BY <2>2 DEF Contract!Next
<1> QED
  BY <1>2, <1>3, <1>4, <1>5, <1>6, <1>7, <1>8, <1>9 DEF Next

(***************************************************************************)
(* The speaker is an AudioSink (types.py): until a stop meets a callback,  *)
(* raises, or drops what another generation queued, and until a tail does  *)
(* not fit, it does what PlaybackContract allows, for any ring, block and  *)
(* chunks, those without sound included.                                   *)
(***************************************************************************)
THEOREM SpeakerKeepsContract == Spec => KeepsContract
<1>1. RingInv /\ [Next]_vars =>
        [harm' = {} => Contract!Next \/ UNCHANGED Contract!vars]_vars
  BY ContractStep
<1> QED
  BY <1>1, ContractInit, RingAlways, PTL DEF Spec, KeepsContract

=============================================================================
