-------------------------- MODULE ByteStreamProofs --------------------------
(* Facts about the byte streams, the integers on them and the headers of   *)
(* messages, for every Base.                                               *)
EXTENDS MessageFrame, TLAPS

LOCAL INSTANCE WellFoundedInduction

(* Induction over the numbers, with a set in the place of a predicate      *)
LEMMA SetInduction ==
  ASSUME NEW S, 0 \in S, \A n \in Nat : n \in S => n + 1 \in S
  PROVE  Nat \subseteq S
<1> DEFINE T == {n \in Nat : n \notin S}
           R == OpToRel(<, Nat)
<1>1. SUFFICES ASSUME T # {} PROVE FALSE
  OBVIOUS
<1>2. T \subseteq Nat
  OBVIOUS
<1>3. IsWellFoundedOn(R, Nat)
  BY NatLessThanWellFounded
<1> HIDE DEF T, R
<1>4. PICK x \in T : \A y \in T : ~(<<y, x>> \in R)
  BY <1>1, <1>2, <1>3, WFMin
<1>5. x \in Nat /\ x \notin S /\ x # 0
  BY DEF T
<1>6. x - 1 \in Nat /\ (x - 1) + 1 = x
  BY <1>5
<1>7. x - 1 \notin S
  BY <1>5, <1>6
<1>8. x - 1 \in T
  BY <1>6, <1>7 DEF T
<1>9. <<x - 1, x>> \in R
  BY <1>5, <1>6 DEF R, OpToRel
<1> QED  BY <1>4, <1>8, <1>9

(* Division by Base stays within the naturals, and remainders are digits.  *)
LEMMA DigitLemma ==
  ASSUME NEW v \in Nat
  PROVE  v \div Base \in Nat /\ v % Base \in Nat /\ v % Base < Base
BY BaseAssumption

LEMMA QuotLemma ==
  ASSUME NEW v \in Nat
  PROVE  Quot1(v) \in Nat /\ Quot2(v) \in Nat /\ Quot3(v) \in Nat /\ Quot4(v) \in Nat
<1>1. Quot1(v) \in Nat  BY DigitLemma DEF Quot1
<1>2. Quot2(v) \in Nat  BY <1>1, DigitLemma DEF Quot2
<1>3. Quot3(v) \in Nat  BY <1>2, DigitLemma DEF Quot3
<1>4. Quot4(v) \in Nat  BY <1>3, DigitLemma DEF Quot4
<1> QED  BY <1>1, <1>2, <1>3, <1>4

(* What the encoders of uint16 and uint32 write: two and four bytes.       *)
LEMMA U16BytesLemma ==
  ASSUME NEW v \in Nat
  PROVE  U16Bytes(v) \in Seq(Nat) /\ Len(U16Bytes(v)) = 2
<1>1. v % Base \in Nat /\ Quot1(v) % Base \in Nat
  BY DigitLemma, QuotLemma
<1> QED  BY <1>1 DEF U16Bytes

LEMMA U32BytesLemma ==
  ASSUME NEW v \in Nat
  PROVE  U32Bytes(v) \in Seq(Nat) /\ Len(U32Bytes(v)) = 4
<1>1. /\ v % Base \in Nat /\ Quot1(v) % Base \in Nat
      /\ Quot2(v) % Base \in Nat /\ Quot3(v) % Base \in Nat
  BY DigitLemma, QuotLemma
<1> QED  BY <1>1 DEF U32Bytes

(* uint16_t and uint32_t have at least one value, so reducing modulo their *)
(* range gives a natural number.                                           *)
LEMMA RangeLemma ==
  /\ U16Range \in Nat \ {0} /\ U32Range \in Nat \ {0}
  /\ \A v \in Nat : v % U16Range \in Nat /\ v % U32Range \in Nat
<1>1. \A a, b \in Nat \ {0} : a * b \in Nat \ {0}
  OBVIOUS
<1>2. Base \in Nat \ {0}
  BY BaseAssumption
<1>3. Base * Base \in Nat \ {0}
  BY <1>1, <1>2
<1>4. Base * Base * Base \in Nat \ {0}
  BY <1>1, <1>2, <1>3
<1>5. Base * Base * Base * Base \in Nat \ {0}
  BY <1>1, <1>2, <1>4
<1>6. U16Range \in Nat \ {0} /\ U32Range \in Nat \ {0}
  BY <1>3, <1>5 DEF U16Range, U32Range
<1>7. \A v \in Nat, r \in Nat \ {0} : v % r \in Nat
  OBVIOUS
<1> QED  BY <1>6, <1>7

(* A number that fits a uint32 is kept. *)
LEMMA SmallMod ==
  ASSUME NEW k \in Nat, k < U32Range
  PROVE  k % U32Range = k
BY RangeLemma

(* Quotient and remainder, and that there is only one of each.              *)
LEMMA DivModLemma ==
  ASSUME NEW a \in Nat, NEW n \in Nat \ {0}
  PROVE  /\ a \div n \in Nat /\ a % n \in 0..(n - 1) /\ a = n * (a \div n) + (a % n)
OBVIOUS

LEMMA DivModUnique ==
  ASSUME NEW n \in Nat \ {0}, NEW q \in Int, NEW p \in Int,
         NEW r \in 0..(n - 1), NEW t \in 0..(n - 1), n * q + r = n * p + t
  PROVE  q = p /\ r = t
<1>1. n * (q - p) = t - r
  OBVIOUS
<1>2. t - r < n /\ t - r > -n
  OBVIOUS
<1>3. ASSUME q - p >= 1 PROVE FALSE
  <2>1. n * (q - p) >= n * 1
    BY <1>3
  <2> QED  BY <2>1, <1>1, <1>2
<1>4. ASSUME q - p <= -1 PROVE FALSE
  <2>1. n * (p - q) >= n * 1
    BY <1>4
  <2> QED  BY <2>1, <1>1, <1>2
<1>5. q = p
  BY <1>3, <1>4
<1> QED  BY <1>5

LEMMA DivModIs ==
  ASSUME NEW a \in Nat, NEW n \in Nat \ {0}, NEW q \in Int, NEW r \in 0..(n - 1),
         a = n * q + r
  PROVE  a % n = r /\ a \div n = q
BY DivModLemma, DivModUnique

(* What is smaller than a product has a quotient smaller than the factor.  *)
LEMMA DivLess ==
  ASSUME NEW a \in Nat, NEW n \in Nat \ {0}, NEW k \in Nat, a < n * k
  PROVE  a \div n < k
<1> DEFINE q == a \div n
<1>1. q \in Nat /\ n * q <= a
  <2>1. q \in Nat /\ a % n \in 0..(n - 1) /\ a = n * q + (a % n)
    BY DivModLemma
  <2> HIDE DEF q
  <2> DEFINE r == a % n
  <2> HIDE DEF r
  <2>2. r \in Nat /\ n * q \in Nat /\ a = n * q + r
    BY <2>1 DEF r
  <2> QED  BY <2>1, <2>2
<1> HIDE DEF q
<1>2. ASSUME k <= q  PROVE FALSE
  <2>1. n * k <= n * q
    <3>1. n * (q - k) >= 0
      BY <1>1, <1>2
    <3>2. n * (q - k) = n * q - n * k
      BY <1>1
    <3>3. n * q \in Int /\ n * k \in Int
      BY <1>1
    <3> QED  BY <3>1, <3>2, <3>3
  <2>2. n * q \in Int /\ n * k \in Int
    BY <1>1
  <2> QED  BY <1>1, <2>1, <2>2
<1>3. q < k
  BY <1>1, <1>2
<1> QED  BY <1>3 DEF q

(* One digit more                                                          *)
LEMMA DigitStep ==
  ASSUME NEW v \in Nat
  PROVE  v = (v % Base) + Base * (v \div Base)
<1>1. Base \in Nat \ {0}
  BY BaseAssumption
<1> DEFINE q == v \div Base
           r == v % Base
<1>2. q \in Nat /\ r \in Nat /\ v = Base * q + r
  BY <1>1, DivModLemma
<1> HIDE DEF q, r
<1>3. v = r + Base * q
  BY <1>1, <1>2
<1> QED  BY <1>3 DEF q, r

(* Reading undoes writing, for whatever the width can hold.                *)
LEMMA U16RoundTrip ==
  ASSUME NEW v \in Nat, v < U16Range
  PROVE  U16Value(U16Bytes(v)) = v
<1>1. Base \in Nat \ {0} /\ v < Base * Base
  BY BaseAssumption DEF U16Range
<1>2. Quot1(v) \in Nat /\ Quot1(v) < Base
  BY <1>1, DivLess, QuotLemma DEF Quot1
<1>3. Quot1(v) % Base = Quot1(v)
  BY <1>1, <1>2
<1>4. v = (v % Base) + Base * Quot1(v)
  BY DigitStep DEF Quot1
<1>5. U16Value(U16Bytes(v)) = (v % Base) + Base * (Quot1(v) % Base)
  BY DEF U16Value, U16Bytes
<1> QED  BY <1>3, <1>4, <1>5, Zenon

LEMMA U32RoundTrip ==
  ASSUME NEW v \in Nat, v < U32Range
  PROVE  U32Value(U32Bytes(v)) = v
<1> DEFINE a == Quot1(v)
           b == Quot2(v)
           c == Quot3(v)
<1>1. Base \in Nat \ {0} /\ Base * Base \in Nat /\ Base * (Base * Base) \in Nat
  <2>1. Base \in Nat \ {0}
    BY BaseAssumption
  <2>2. \A i, j \in Nat : i * j \in Nat
    OBVIOUS
  <2> QED  BY <2>1, <2>2
<1>2. v < Base * (Base * (Base * Base))
  <2>1. \A i, j, k \in Nat : (i * j) * k = i * (j * k)
    OBVIOUS
  <2>2. ((Base * Base) * Base) * Base = Base * (Base * (Base * Base))
    <3>1. ((Base * Base) * Base) * Base = (Base * Base) * (Base * Base)
      BY <1>1, <2>1
    <3>2. (Base * Base) * (Base * Base) = Base * (Base * (Base * Base))
      BY <1>1, <2>1
    <3> QED  BY <3>1, <3>2, Zenon
  <2>3. U32Range = ((Base * Base) * Base) * Base
    BY DEF U32Range
  <2> QED  BY <2>2, <2>3
<1>3. a \in Nat /\ b \in Nat /\ c \in Nat
  BY QuotLemma
<1>4. a < Base * (Base * Base)
  BY <1>1, <1>2, DivLess DEF Quot1
<1>5. b < Base * Base
  BY <1>1, <1>3, <1>4, DivLess DEF Quot2
<1>6. c < Base
  BY <1>1, <1>3, <1>5, DivLess DEF Quot3
<1>7. v = (v % Base) + Base * a
  BY DigitStep DEF Quot1
<1>8. a = (a % Base) + Base * b
  BY <1>3, DigitStep DEF Quot2
<1>9. b = (b % Base) + Base * c
  BY <1>3, DigitStep DEF Quot3
<1>10. U32Value(U32Bytes(v)) =
         (v % Base) + Base * ((a % Base) + Base * ((b % Base) + Base * (c % Base)))
  BY DEF U32Value, U32Bytes
<1> HIDE DEF a, b, c
<1>11. c % Base = c
  BY <1>1, <1>3, <1>6
<1> QED  BY <1>7, <1>8, <1>9, <1>10, <1>11, Zenon

(* A counter that is reduced at every step is the reduced sum.             *)
LEMMA ModAddLemma ==
  ASSUME NEW a \in Nat, NEW b \in Nat, NEW n \in Nat \ {0}
  PROVE  ((a % n) + b) % n = (a + b) % n
<1> DEFINE q == a \div n
           r == a % n
           p == (r + b) \div n
           t == (r + b) % n
<1>1. q \in Nat /\ r \in 0..(n - 1) /\ a = n * q + r
  BY DivModLemma
<1>2. r + b \in Nat
  BY <1>1
<1>3. p \in Nat /\ t \in 0..(n - 1) /\ r + b = n * p + t
  BY <1>2, DivModLemma
<1> HIDE DEF q, r, p, t
<1>4. a + b = n * (q + p) + t
  BY <1>1, <1>3
<1>5. (a + b) % n = t
  <2> DEFINE k == q + p
             c == a + b
  <2>1. k \in Int /\ c \in Nat /\ c = n * k + t
    BY <1>1, <1>3, <1>4
  <2> HIDE DEF k, c
  <2>2. c % n = t
    BY <1>3, <2>1, DivModIs
  <2> QED  BY <2>2 DEF c
<1> QED  BY <1>5 DEF t, r

(* Reducing modulo the square keeps the two lowest digits.                 *)
LEMMA TwoDigitsLemma ==
  ASSUME NEW v \in Nat, NEW n \in Nat \ {0}
  PROVE  LET u == v % (n * n) IN u % n = v % n /\ (u \div n) % n = (v \div n) % n
<1> DEFINE q == v \div n
           r == v % n
           p == q \div n
           t == q % n
           u == v % (n * n)
<1>1. q \in Nat /\ r \in 0..(n - 1) /\ v = n * q + r
  BY DivModLemma
<1>2. p \in Nat /\ t \in 0..(n - 1) /\ q = n * p + t
  BY <1>1, DivModLemma
<1>3. n * n \in Nat \ {0}
  OBVIOUS
<1> HIDE DEF q, r, p, t
<1>4. v = (n * n) * p + (n * t + r)
  BY <1>1, <1>2
<1>5. n * t + r \in Nat /\ n * t + r < n * n
  <2>1. n * t <= n * (n - 1)
    BY <1>2
  <2>2. n * (n - 1) = n * n - n
    OBVIOUS
  <2>3. n * t \in Nat /\ n * n \in Nat
    BY <1>2
  <2> QED  BY <1>1, <2>1, <2>2, <2>3
<1>6. u = n * t + r
  <2> DEFINE m == n * n
             w == n * t + r
  <2>1. m \in Nat \ {0} /\ w \in 0..(m - 1) /\ v = m * p + w /\ p \in Int
    BY <1>2, <1>3, <1>4, <1>5
  <2> HIDE DEF m, w
  <2>2. v % m = w
    BY <2>1, DivModIs
  <2> QED  BY <2>2 DEF u, m, w
<1>7. u \in Nat /\ t \in Int
  BY <1>5, <1>6, <1>2
<1> HIDE DEF u
<1>8. u % n = r /\ u \div n = t
  BY <1>1, <1>6, <1>7, DivModIs
<1>9. t % n = t
  BY <1>2
<1> QED  BY <1>8, <1>9 DEF u, r, t, q
(* A uint16 counter that has wrapped goes out as the number it stands for. *)
LEMMA U16BytesMod ==
  ASSUME NEW v \in Nat
  PROVE  U16Bytes(v % U16Range) = U16Bytes(v)
<1>1. Base \in Nat \ {0}
  BY BaseAssumption
<1>2. LET u == v % (Base * Base)
      IN  u % Base = v % Base /\ (u \div Base) % Base = (v \div Base) % Base
  BY <1>1, TwoDigitsLemma
<1> QED  BY <1>2 DEF U16Bytes, U16Range, Quot1

(* write(bytes) keeps the stream well formed, moves by all of the bytes or *)
(* not at all, and leaves every cell in front of it alone.                 *)
LEMMA WriteLemma ==
  ASSUME NEW s, IsByteWriter(s), NEW b \in Seq(Nat)
  PROVE  /\ IsByteWriter(Write(s, b))
         /\ Write(s, b).lim = s.lim
         /\ Write(s, b).pos = IF Fits(s, Len(b)) THEN s.pos + Len(b) ELSE s.pos
         /\ s.pos <= Write(s, b).pos
         /\ DOMAIN Write(s, b).mem = DOMAIN s.mem
         /\ \A i \in DOMAIN s.mem : i < s.pos => Write(s, b).mem[i] = s.mem[i]
<1>1. CASE ~Fits(s, Len(b))
  BY <1>1 DEF Write, IsByteWriter
<1>2. CASE Fits(s, Len(b))
  <2> DEFINE m == [i \in DOMAIN s.mem |->
                     IF s.pos <= i /\ i < s.pos + Len(b)
                     THEN b[i - s.pos + 1] ELSE s.mem[i]]
  <2>1. Write(s, b) = [mem |-> m, pos |-> s.pos + Len(b), lim |-> s.lim]
    BY <1>2 DEF Write
  <2>2. DOMAIN s.mem = 0..(s.lim - 1) /\ s.lim \in Nat /\ s.pos \in 0..s.lim
    BY DEF IsByteWriter
  <2>3. m \in [0..(s.lim - 1) -> Nat]
    <3> SUFFICES ASSUME NEW i \in 0..(s.lim - 1) PROVE m[i] \in Nat
      BY <2>2
    <3>1. CASE s.pos <= i /\ i < s.pos + Len(b)
      BY <3>1, <2>2
    <3>2. CASE ~(s.pos <= i /\ i < s.pos + Len(b))
      BY <3>2, <2>2 DEF IsByteWriter
    <3> QED  BY <3>1, <3>2
  <2>4. Len(b) \in Nat /\ s.pos + Len(b) \in 0..s.lim
    BY <1>2, <2>2 DEF Fits
  <2>5. IsByteWriter(Write(s, b))
    BY <2>1, <2>2, <2>3, <2>4 DEF IsByteWriter
  <2>6. \A i \in DOMAIN s.mem : i < s.pos => m[i] = s.mem[i]
    BY <2>2
  <2> HIDE DEF m
  <2> QED  BY <1>2, <2>1, <2>2, <2>3, <2>4, <2>5, <2>6
<1> QED  BY <1>1, <1>2

(* position(p): the cells stay as they are.                                *)
LEMMA MoveToLemma ==
  ASSUME NEW s, IsByteWriter(s), NEW p \in Nat
  PROVE  /\ IsByteWriter(MoveTo(s, p))
         /\ MoveTo(s, p).lim = s.lim
         /\ MoveTo(s, p).mem = s.mem
         /\ MoveTo(s, p).pos = IF p <= s.lim THEN p ELSE s.pos
BY DEF MoveTo, IsByteWriter

-----------------------------------------------------------------------------
(* What the cells of a stream hold                                         *)

(* The bytes b are in the buffer of s from position p on.                  *)
Holds(s, p, b) ==
  /\ p + Len(b) <= s.lim
  /\ \A i \in 1..Len(b) : s.mem[p + i - 1] = b[i]

(* Every cell after a write: the new byte, or the old one.                 *)
LEMMA WriteCells ==
  ASSUME NEW s, IsByteWriter(s), NEW b \in Seq(Nat), NEW i \in 0..(s.lim - 1)
  PROVE  Write(s, b).mem[i] = IF Fits(s, Len(b)) /\ s.pos <= i /\ i < s.pos + Len(b)
                              THEN b[i - s.pos + 1] ELSE s.mem[i]
<1>1. DOMAIN s.mem = 0..(s.lim - 1)
  BY DEF IsByteWriter
<1>2. CASE ~Fits(s, Len(b))
  BY <1>2 DEF Write
<1>3. CASE Fits(s, Len(b))
  BY <1>1, <1>3 DEF Write
<1> QED  BY <1>2, <1>3

(* What was written is there.                                              *)
LEMMA HoldsWritten ==
  ASSUME NEW s, IsByteWriter(s), NEW b \in Seq(Nat), Fits(s, Len(b))
  PROVE  Holds(Write(s, b), s.pos, b)
<1>1. s.pos \in Nat /\ s.lim \in Nat /\ s.pos + Len(b) <= s.lim
  BY DEF IsByteWriter, Fits
<1>2. Write(s, b).lim = s.lim
  BY WriteLemma
<1>3. ASSUME NEW i \in 1..Len(b)
      PROVE  Write(s, b).mem[s.pos + i - 1] = b[i]
  <2>1. /\ s.pos + i - 1 \in 0..(s.lim - 1)
        /\ s.pos <= s.pos + i - 1 /\ s.pos + i - 1 < s.pos + Len(b)
        /\ (s.pos + i - 1) - s.pos + 1 = i
    BY <1>1
  <2> QED  BY <2>1, WriteCells
<1> QED  BY <1>1, <1>2, <1>3 DEF Holds

(* What was written elsewhere stays there.                                 *)
LEMMA HoldsKept ==
  ASSUME NEW s, IsByteWriter(s), NEW b \in Seq(Nat),
         NEW p \in Nat, NEW a \in Seq(Nat), Holds(s, p, a),
         p + Len(a) <= s.pos \/ s.pos + Len(b) <= p
  PROVE  Holds(Write(s, b), p, a)
<1>1. s.pos \in Nat /\ s.lim \in Nat /\ p + Len(a) <= s.lim
  BY DEF IsByteWriter, Holds
<1>2. Write(s, b).lim = s.lim
  BY WriteLemma
<1>3. ASSUME NEW i \in 1..Len(a)
      PROVE  Write(s, b).mem[p + i - 1] = a[i]
  <2>1. /\ p + i - 1 \in 0..(s.lim - 1)
        /\ ~(s.pos <= p + i - 1 /\ p + i - 1 < s.pos + Len(b))
    BY <1>1
  <2>2. Write(s, b).mem[p + i - 1] = s.mem[p + i - 1]
    BY <2>1, WriteCells
  <2> QED  BY <2>2 DEF Holds
<1> QED  BY <1>1, <1>2, <1>3 DEF Holds

(* A write that fits, in one statement.                                    *)
LEMMA WriteFits ==
  ASSUME NEW s, IsByteWriter(s), NEW b \in Seq(Nat), s.pos + Len(b) <= s.lim
  PROVE  /\ IsByteWriter(Write(s, b))
         /\ Write(s, b).lim = s.lim
         /\ Write(s, b).pos = s.pos + Len(b)
         /\ Holds(Write(s, b), s.pos, b)
         /\ \A p \in Nat, a \in Seq(Nat) :
              Holds(s, p, a) /\ (p + Len(a) <= s.pos \/ s.pos + Len(b) <= p)
                => Holds(Write(s, b), p, a)
<1>1. Fits(s, Len(b))
  BY DEF Fits
<1> QED  BY <1>1, WriteLemma, HoldsWritten, HoldsKept

LEMMA HoldsMoved ==
  ASSUME NEW s, IsByteWriter(s), NEW q \in Nat, NEW p, NEW a, Holds(s, p, a)
  PROVE  Holds(MoveTo(s, q), p, a)
<1>1. MoveTo(s, q).lim = s.lim /\ MoveTo(s, q).mem = s.mem
  BY MoveToLemma
<1> QED  BY <1>1 DEF Holds

LEMMA ConcatLemma ==
  ASSUME NEW a \in Seq(Nat), NEW b \in Seq(Nat)
  PROVE  a \o b \in Seq(Nat) /\ Len(a \o b) = Len(a) + Len(b)
OBVIOUS

(* Two byte strings that follow each other are one, and the other way      *)
(* round.                                                                  *)
LEMMA HoldsConcat ==
  ASSUME NEW s, IsByteWriter(s), NEW p \in Nat, NEW a \in Seq(Nat), NEW b \in Seq(Nat)
  PROVE  /\ a \o b \in Seq(Nat) /\ Len(a \o b) = Len(a) + Len(b)
         /\ Holds(s, p, a) /\ Holds(s, p + Len(a), b) => Holds(s, p, a \o b)
         /\ Holds(s, p, a \o b) => Holds(s, p, a) /\ Holds(s, p + Len(a), b)
<1>1. /\ a \o b \in Seq(Nat) /\ Len(a \o b) = Len(a) + Len(b)
      /\ Len(a) \in Nat /\ Len(b) \in Nat /\ s.lim \in Nat
      /\ \A i \in 1..(Len(a) + Len(b)) :
           (a \o b)[i] = IF i <= Len(a) THEN a[i] ELSE b[i - Len(a)]
  BY DEF IsByteWriter
<1>2. ASSUME Holds(s, p, a), Holds(s, p + Len(a), b)
      PROVE  Holds(s, p, a \o b)
  <2>1. p + (Len(a) + Len(b)) <= s.lim
    BY <1>1, <1>2 DEF Holds
  <2>2. ASSUME NEW i \in 1..(Len(a) + Len(b))
        PROVE  s.mem[p + i - 1] = (a \o b)[i]
    <3>1. CASE i <= Len(a)
      BY <1>1, <1>2, <3>1 DEF Holds
    <3>2. CASE ~(i <= Len(a))
      <4>1. i - Len(a) \in 1..Len(b) /\ (p + Len(a)) + (i - Len(a)) - 1 = p + i - 1
        BY <1>1, <3>2
      <4>2. s.mem[(p + Len(a)) + (i - Len(a)) - 1] = b[i - Len(a)]
        BY <1>2, <4>1 DEF Holds
      <4> QED  BY <1>1, <3>2, <4>1, <4>2
    <3> QED  BY <3>1, <3>2
  <2> QED  BY <1>1, <2>1, <2>2 DEF Holds
<1>3. ASSUME Holds(s, p, a \o b)
      PROVE  Holds(s, p, a) /\ Holds(s, p + Len(a), b)
  <2>1. p + (Len(a) + Len(b)) <= s.lim
    BY <1>1, <1>3 DEF Holds
  <2>2. \A i \in 1..(Len(a) + Len(b)) : s.mem[p + i - 1] = (a \o b)[i]
    BY <1>1, <1>3 DEF Holds
  <2>3. Holds(s, p, a)
    <3>1. ASSUME NEW i \in 1..Len(a)
          PROVE  s.mem[p + i - 1] = a[i]
      <4>1. i \in 1..(Len(a) + Len(b)) /\ i <= Len(a)
        BY <1>1
      <4> QED  BY <1>1, <2>2, <4>1
    <3>2. p + Len(a) <= s.lim
      BY <1>1, <2>1
    <3> QED  BY <3>1, <3>2 DEF Holds
  <2>4. ASSUME NEW i \in 1..Len(b)
        PROVE  s.mem[(p + Len(a)) + i - 1] = b[i]
    <3>1. /\ Len(a) + i \in 1..(Len(a) + Len(b)) /\ ~(Len(a) + i <= Len(a))
          /\ p + (Len(a) + i) - 1 = (p + Len(a)) + i - 1 /\ (Len(a) + i) - Len(a) = i
      BY <1>1
    <3> QED  BY <1>1, <2>2, <3>1
  <2>5. (p + Len(a)) + Len(b) <= s.lim
    BY <1>1, <2>1
  <2> QED  BY <2>3, <2>4, <2>5 DEF Holds
<1> QED  BY <1>1, <1>2, <1>3

(* Slice returns what is there.                                            *)
LEMMA HoldsSlice ==
  ASSUME NEW s, NEW p \in Nat, NEW b \in Seq(Nat), Holds(s, p, b)
  PROVE  Slice(s, p, p + Len(b)) = b
<1>1. (p + Len(b)) - p = Len(b) /\ Len(b) \in Nat
  OBVIOUS
<1>2. b = [i \in 1..Len(b) |-> b[i]]
  OBVIOUS
<1>3. \A i \in 1..Len(b) : s.mem[p + i - 1] = b[i]
  BY DEF Holds
<1>4. [i \in 1..Len(b) |-> s.mem[p + i - 1]] = [i \in 1..Len(b) |-> b[i]]
  BY <1>3
<1> QED  BY <1>1, <1>2, <1>4 DEF Slice

(* A part of a byte string is where that part of it is.                    *)
LEMMA HoldsPart ==
  ASSUME NEW s, IsByteWriter(s), NEW p \in Nat, NEW b \in Seq(Nat), Holds(s, p, b),
         NEW from \in 0..Len(b), NEW to \in from..Len(b)
  PROVE  /\ SubSeq(b, from + 1, to) \in Seq(Nat)
         /\ Len(SubSeq(b, from + 1, to)) = to - from
         /\ Holds(s, p + from, SubSeq(b, from + 1, to))
<1> DEFINE c == SubSeq(b, from + 1, to)
<1>1. /\ from \in Nat /\ to \in Nat /\ from <= to /\ to <= Len(b) /\ Len(b) \in Nat
      /\ s.lim \in Nat /\ p + Len(b) <= s.lim
  BY DEF IsByteWriter, Holds
<1>2. /\ c \in Seq(Nat) /\ Len(c) = to - from
      /\ \A i \in 1..(to - from) : c[i] = b[from + i]
  BY <1>1
<1> HIDE DEF c
<1>3. ASSUME NEW i \in 1..Len(c)
      PROVE  s.mem[(p + from) + i - 1] = c[i]
  <2>1. from + i \in 1..Len(b) /\ p + (from + i) - 1 = (p + from) + i - 1
    BY <1>1, <1>2
  <2>2. s.mem[p + (from + i) - 1] = b[from + i]
    BY <2>1 DEF Holds
  <2> QED  BY <1>2, <2>1, <2>2
<1>4. (p + from) + Len(c) <= s.lim
  BY <1>1, <1>2
<1>5. Holds(s, p + from, c)
  BY <1>3, <1>4 DEF Holds
<1> QED  BY <1>2, <1>5 DEF c

LEMMA ConcatAssociates ==
  ASSUME NEW a \in Seq(Nat), NEW b \in Seq(Nat), NEW c \in Seq(Nat)
  PROVE  (a \o b) \o c = a \o (b \o c)
OBVIOUS

LEMMA HoldsNothing ==
  ASSUME NEW s, NEW p \in Nat, p <= s.lim
  PROVE  Holds(s, p, <<>>)
BY DEF Holds

(* Writing on at the end of what is there                                  *)
LEMMA WriteOn ==
  ASSUME NEW s, IsByteWriter(s), NEW p \in Nat, NEW a \in Seq(Nat), Holds(s, p, a),
         s.pos = p + Len(a), NEW b \in Seq(Nat), Fits(s, Len(b))
  PROVE  /\ IsByteWriter(Write(s, b)) /\ Write(s, b).lim = s.lim
         /\ Holds(Write(s, b), p, a \o b)
         /\ Write(s, b).pos = p + Len(a \o b)
<1>1. p + Len(a) <= s.pos /\ s.pos + Len(b) <= s.lim
  BY DEF Fits
<1>2. /\ IsByteWriter(Write(s, b)) /\ Write(s, b).lim = s.lim
      /\ Write(s, b).pos = s.pos + Len(b) /\ Holds(Write(s, b), s.pos, b)
      /\ Holds(Write(s, b), p, a)
  BY <1>1, WriteFits
<1>3. Holds(Write(s, b), p, a \o b) /\ Len(a \o b) = Len(a) + Len(b)
  BY <1>2, HoldsConcat, Zenon
<1>4. Write(s, b).pos = p + (Len(a) + Len(b))
  BY <1>2
<1> QED  BY <1>2, <1>3, <1>4, Zenon

(* Overwriting one field of a record with another of the same length       *)
LEMMA WriteOver ==
  ASSUME NEW s, IsByteWriter(s), NEW p \in Nat,
         NEW a \in Seq(Nat), NEW b \in Seq(Nat), NEW c \in Seq(Nat),
         Holds(s, p, (a \o b) \o c), NEW d \in Seq(Nat), Len(d) = Len(b),
         NEW t, t = Write(MoveTo(s, p + Len(a)), d)
  PROVE  /\ IsByteWriter(t) /\ t.lim = s.lim
         /\ t.pos = p + Len(a \o d)
         /\ Holds(t, p, (a \o d) \o c)
<1> DEFINE q == p + Len(a)
           m == MoveTo(s, q)
<1>1. /\ a \o b \in Seq(Nat) /\ Len(a \o b) = Len(a) + Len(b)
      /\ Holds(s, p, a \o b) /\ Holds(s, p + Len(a \o b), c)
  BY HoldsConcat, Zenon
<1>2. Holds(s, p, a) /\ Holds(s, q, b)
  BY <1>1, HoldsConcat, Zenon
<1>3. Holds(s, p + (Len(a) + Len(b)), c)
  BY <1>1, Zenon
<1>4. q \in Nat /\ q + Len(b) <= s.lim /\ q <= s.lim /\ s.lim \in Nat
  BY <1>2 DEF Holds, IsByteWriter
<1>5. IsByteWriter(m) /\ m.lim = s.lim /\ m.pos = q
  BY <1>4, MoveToLemma
<1>6. Holds(m, p, a) /\ Holds(m, p + (Len(a) + Len(b)), c)
  BY <1>2, <1>3, <1>4, HoldsMoved
<1> HIDE DEF m, q
<1>7. /\ IsByteWriter(t) /\ t.lim = m.lim /\ t.pos = q + Len(d) /\ Holds(t, q, d)
  BY <1>4, <1>5, WriteFits DEF m, q
<1>8. Holds(t, p, a) /\ Holds(t, p + (Len(a) + Len(b)), c)
  <2>1. /\ p + Len(a) <= m.pos /\ m.pos + Len(d) <= p + (Len(a) + Len(b))
        /\ p + (Len(a) + Len(b)) \in Nat
    BY <1>5 DEF q
  <2> QED  BY <1>5, <1>6, <2>1, HoldsKept DEF m, q
<1>9. a \o d \in Seq(Nat) /\ Len(a \o d) = Len(a) + Len(d)
  BY ConcatLemma, Zenon
<1>10. Holds(t, p, a \o d)
  BY <1>7, <1>8, HoldsConcat, Zenon DEF q
<1>11. Holds(t, p + Len(a \o d), c)
  BY <1>8, <1>9, Zenon
<1>12. Holds(t, p, (a \o d) \o c)
  BY <1>7, <1>9, <1>10, <1>11, HoldsConcat, Zenon
<1>13. p + (Len(a) + Len(d)) = q + Len(d)
  BY DEF q
<1>14. t.pos = p + Len(a \o d)
  BY <1>7, <1>9, <1>13, Zenon
<1> QED  BY <1>5, <1>7, <1>12, <1>14, Zenon

-----------------------------------------------------------------------------
(* What the operations of MessageWriterBase do to the stream               *)

(* t is the same buffer as s, and the same bytes in front of p.            *)
Behind(s, t, p) ==
  /\ IsByteWriter(t)
  /\ t.lim = s.lim
  /\ \A i \in 0..(p - 1) : i < s.lim => t.mem[i] = s.mem[i]

(* A write at p or further on leaves the bytes in front of p.              *)
LEMMA WriteBehind ==
  ASSUME NEW s, NEW t, NEW p \in Nat, Behind(s, t, p), p <= t.pos,
         NEW b \in Seq(Nat)
  PROVE  /\ Behind(s, Write(t, b), p)
         /\ t.pos <= Write(t, b).pos
         /\ p <= Write(t, b).pos
<1>1. IsByteWriter(t) /\ t.pos \in Nat /\ t.lim \in Nat /\ DOMAIN t.mem = 0..(t.lim - 1)
  BY DEF Behind, IsByteWriter
<1>2. /\ IsByteWriter(Write(t, b)) /\ Write(t, b).lim = t.lim
      /\ t.pos <= Write(t, b).pos
      /\ \A i \in DOMAIN t.mem : i < t.pos => Write(t, b).mem[i] = t.mem[i]
  BY <1>1, WriteLemma
<1>3. Write(t, b).pos \in Nat
  BY <1>2 DEF IsByteWriter
<1>4. ASSUME NEW i \in 0..(p - 1), i < s.lim
      PROVE  Write(t, b).mem[i] = s.mem[i]
  <2>1. t.lim = s.lim /\ t.mem[i] = s.mem[i]
    BY <1>4 DEF Behind
  <2>2. i \in DOMAIN t.mem /\ i < t.pos
    BY <1>1, <1>4, <2>1
  <2> QED  BY <1>2, <2>1, <2>2
<1>5. Behind(s, Write(t, b), p)
  BY <1>1, <1>2, <1>4 DEF Behind
<1> QED  BY <1>1, <1>2, <1>3, <1>5

(* Moving changes no byte.                                                 *)
LEMMA MoveBehind ==
  ASSUME NEW s, NEW t, NEW p \in Nat, Behind(s, t, p), NEW q \in Nat
  PROVE  /\ Behind(s, MoveTo(t, q), p)
         /\ q <= s.lim => MoveTo(t, q).pos = q
         /\ t.pos <= q => t.pos <= MoveTo(t, q).pos
<1>1. IsByteWriter(t) /\ t.lim = s.lim
  BY DEF Behind
<1>2. /\ IsByteWriter(MoveTo(t, q)) /\ MoveTo(t, q).lim = t.lim
      /\ MoveTo(t, q).mem = t.mem
      /\ MoveTo(t, q).pos = IF q <= t.lim THEN q ELSE t.pos
  BY <1>1, MoveToLemma
<1>3. t.pos \in Nat
  BY <1>1 DEF IsByteWriter
<1> QED  BY <1>1, <1>2, <1>3 DEF Behind

LEMMA SameBehind ==
  ASSUME NEW s, IsByteWriter(s), NEW p \in Nat
  PROVE  Behind(s, s, p) /\ s.pos \in Nat /\ s.lim \in Nat /\ s.pos <= s.lim
BY DEF Behind, IsByteWriter

(* Encoder << MessageHeader                                                *)
LEMMA HeaderBehind ==
  ASSUME NEW s, NEW t, NEW p \in Nat, Behind(s, t, p), p <= t.pos,
         NEW h \in Headers
  PROVE  /\ Behind(s, WriteHeader(t, h), p)
         /\ t.pos <= WriteHeader(t, h).pos
<1> DEFINE t1 == Write(t, U32Bytes(h.messageSize))
           t2 == Write(t1, <<h.type>>)
           t3 == Write(t2, U16Bytes(h.tag))
<1>1. h.messageSize \in Nat /\ h.type \in Nat /\ h.tag \in Nat
  BY DEF Headers
<1>2. /\ U32Bytes(h.messageSize) \in Seq(Nat) /\ <<h.type>> \in Seq(Nat)
      /\ U16Bytes(h.tag) \in Seq(Nat)
  BY <1>1, U32BytesLemma, U16BytesLemma
<1>3. Behind(s, t1, p) /\ t.pos <= t1.pos /\ p <= t1.pos
  BY <1>2, WriteBehind
<1>4. Behind(s, t2, p) /\ t1.pos <= t2.pos /\ p <= t2.pos
  BY <1>2, <1>3, WriteBehind
<1>5. Behind(s, t3, p) /\ t2.pos <= t3.pos
  BY <1>2, <1>4, WriteBehind
<1>6. t.pos \in Nat /\ t1.pos \in Nat /\ t2.pos \in Nat /\ t3.pos \in Nat
  BY <1>3, <1>4, <1>5 DEF Behind, IsByteWriter
<1> QED  BY <1>3, <1>4, <1>5, <1>6 DEF WriteHeader

(* Overwriting a count leaves the stream where it was.                     *)
LEMMA PatchBehind ==
  ASSUME NEW s, NEW t, NEW p \in Nat, Behind(s, t, p),
         NEW q \in Nat, p <= q, q <= s.lim, NEW b \in Seq(Nat)
  PROVE  Behind(s, Patch(t, q, b), p) /\ Patch(t, q, b).pos = t.pos
<1>1. Behind(s, MoveTo(t, q), p) /\ MoveTo(t, q).pos = q
  BY MoveBehind
<1>2. Behind(s, Write(MoveTo(t, q), b), p)
  BY <1>1, WriteBehind
<1>3. t.pos \in Nat /\ t.pos <= s.lim
  BY DEF Behind, IsByteWriter
<1> QED  BY <1>2, <1>3, MoveBehind DEF Patch

(* updateMessageSize comes back to where it was called.                    *)
LEMMA UpdateBehind ==
  ASSUME NEW s, NEW t, NEW p \in Nat, Behind(s, t, p), p <= t.pos,
         NEW h \in Headers
  PROVE  /\ Behind(s, updateMessageSize(t, p, h).out, p)
         /\ updateMessageSize(t, p, h).out.pos = t.pos
         /\ updateMessageSize(t, p, h).header \in Headers
<1> DEFINE size == t.pos - p
           h2 == [messageSize |-> size % U32Range, type |-> h.type, tag |-> h.tag]
<1>1. t.pos \in Nat /\ t.pos <= s.lim /\ s.lim \in Nat /\ size \in Nat /\ p <= s.lim
  BY DEF Behind, IsByteWriter
<1>2. h2 \in Headers
  BY <1>1, RangeLemma DEF Headers
<1>3. CASE t.pos = p \/ h.messageSize = size
  BY <1>3 DEF updateMessageSize
<1>4. CASE ~(t.pos = p \/ h.messageSize = size)
  <2>1. Behind(s, MoveTo(t, p), p) /\ MoveTo(t, p).pos = p
    BY <1>1, MoveBehind
  <2>2. Behind(s, WriteHeader(MoveTo(t, p), h2), p)
    BY <1>2, <2>1, HeaderBehind
  <2>3. /\ Behind(s, MoveTo(WriteHeader(MoveTo(t, p), h2), t.pos), p)
        /\ MoveTo(WriteHeader(MoveTo(t, p), h2), t.pos).pos = t.pos
    BY <1>1, <2>2, MoveBehind
  <2>4. updateMessageSize(t, p, h)
          = [out |-> MoveTo(WriteHeader(MoveTo(t, p), h2), t.pos), header |-> h2]
    BY <1>4 DEF updateMessageSize
  <2> QED  BY <1>2, <2>3, <2>4
<1> QED  BY <1>3, <1>4

LEMMA HeaderSizeLemma == headerSize = 7
BY DEF headerSize

(* Bytes in front of p are still there when only p and beyond was written. *)
LEMMA BehindHolds ==
  ASSUME NEW s, NEW t, NEW p \in Nat, Behind(s, t, p), s.lim \in Nat,
         NEW q \in Nat, NEW a \in Seq(Nat), Holds(s, q, a), q + Len(a) <= p
  PROVE  Holds(t, q, a)
<1>1. t.lim = s.lim /\ q + Len(a) <= s.lim
  BY DEF Behind, Holds
<1>2. ASSUME NEW i \in 1..Len(a)
      PROVE  t.mem[q + i - 1] = a[i]
  <2>1. q + i - 1 \in 0..(p - 1) /\ q + i - 1 < s.lim
    BY <1>1
  <2>2. t.mem[q + i - 1] = s.mem[q + i - 1]
    BY <2>1 DEF Behind
  <2> QED  BY <2>2 DEF Holds
<1> QED  BY <1>1, <1>2 DEF Holds

(* The three fields of a header and their size                             *)
LEMMA HeaderBytesLemma ==
  ASSUME NEW h \in Headers
  PROVE  /\ U32Bytes(h.messageSize) \in Seq(Nat) /\ Len(U32Bytes(h.messageSize)) = 4
         /\ <<h.type>> \in Seq(Nat) /\ Len(<<h.type>>) = 1
         /\ U16Bytes(h.tag) \in Seq(Nat) /\ Len(U16Bytes(h.tag)) = 2
         /\ HeaderBytes(h) \in Seq(Nat) /\ Len(HeaderBytes(h)) = 7
<1>1. h.messageSize \in Nat /\ h.type \in Nat /\ h.tag \in Nat
  BY DEF Headers
<1>2. /\ U32Bytes(h.messageSize) \in Seq(Nat) /\ Len(U32Bytes(h.messageSize)) = 4
      /\ U16Bytes(h.tag) \in Seq(Nat) /\ Len(U16Bytes(h.tag)) = 2
  BY <1>1, U32BytesLemma, U16BytesLemma
<1>3. <<h.type>> \in Seq(Nat) /\ Len(<<h.type>>) = 1
  BY <1>1
<1> DEFINE b1 == U32Bytes(h.messageSize)
           b2 == <<h.type>>
           b3 == U16Bytes(h.tag)
<1> HIDE DEF b1, b2, b3
<1>4. b1 \in Seq(Nat) /\ b2 \in Seq(Nat) /\ b3 \in Seq(Nat)
  BY <1>2, <1>3 DEF b1, b2, b3
<1>5. b1 \o b2 \in Seq(Nat) /\ Len(b1 \o b2) = Len(b1) + Len(b2)
  BY <1>4, ConcatLemma
<1>6. (b1 \o b2) \o b3 \in Seq(Nat) /\ Len((b1 \o b2) \o b3) = Len(b1 \o b2) + Len(b3)
  BY <1>4, <1>5, ConcatLemma
<1>7. HeaderBytes(h) = (b1 \o b2) \o b3
  BY DEF HeaderBytes, b1, b2, b3
<1>8. (Len(b1) + Len(b2)) + Len(b3) = 7
  BY <1>2, <1>3 DEF b1, b2, b3
<1>9. HeaderBytes(h) \in Seq(Nat) /\ Len(HeaderBytes(h)) = 7
  BY <1>5, <1>6, <1>7, <1>8, Zenon
<1> QED  BY <1>2, <1>3, <1>9

(* Encoder << MessageHeader, where there is room: the header is there, and *)
(* what follows it is left alone.                                          *)
LEMMA WriteHeaderLemma ==
  ASSUME NEW s, IsByteWriter(s), NEW h \in Headers, s.pos + 7 <= s.lim
  PROVE  /\ IsByteWriter(WriteHeader(s, h))
         /\ WriteHeader(s, h).lim = s.lim
         /\ WriteHeader(s, h).pos = s.pos + 7
         /\ Holds(WriteHeader(s, h), s.pos, HeaderBytes(h))
         /\ \A p \in Nat, a \in Seq(Nat) :
              s.pos + 7 <= p /\ Holds(s, p, a) => Holds(WriteHeader(s, h), p, a)
<1> DEFINE b1 == U32Bytes(h.messageSize)
           b2 == <<h.type>>
           b3 == U16Bytes(h.tag)
           s1 == Write(s, b1)
           s2 == Write(s1, b2)
           s3 == Write(s2, b3)
<1>1. /\ b1 \in Seq(Nat) /\ Len(b1) = 4
      /\ b2 \in Seq(Nat) /\ Len(b2) = 1
      /\ b3 \in Seq(Nat) /\ Len(b3) = 2
  BY HeaderBytesLemma
<1>2. s.pos \in Nat /\ s.lim \in Nat
  BY DEF IsByteWriter
<1> HIDE DEF b1, b2, b3
<1>3. IsByteWriter(s1) /\ s1.lim = s.lim /\ s1.pos = s.pos + 4 /\ Holds(s1, s.pos, b1)
  <2>1. s.pos + Len(b1) <= s.lim
    BY <1>1, <1>2
  <2> QED  BY <1>1, <2>1, WriteFits
<1> HIDE DEF s1
<1>4. IsByteWriter(s2) /\ s2.lim = s.lim /\ s2.pos = s.pos + 5 /\ Holds(s2, s.pos + 4, b2)
  <2>1. s1.pos + Len(b2) <= s1.lim /\ s1.pos + Len(b2) = s.pos + 5
    BY <1>1, <1>2, <1>3
  <2>2. IsByteWriter(s2) /\ s2.lim = s1.lim /\ s2.pos = s1.pos + Len(b2) /\ Holds(s2, s1.pos, b2)
    BY <1>1, <1>3, <2>1, WriteFits
  <2> HIDE DEF s2
  <2> QED  BY <1>3, <2>1, <2>2
<1> HIDE DEF s2
<1>5. IsByteWriter(s3) /\ s3.lim = s.lim /\ s3.pos = s.pos + 7 /\ Holds(s3, s.pos + 5, b3)
  <2>1. s2.pos + Len(b3) <= s2.lim /\ s2.pos + Len(b3) = s.pos + 7
    BY <1>1, <1>2, <1>4
  <2>2. IsByteWriter(s3) /\ s3.lim = s2.lim /\ s3.pos = s2.pos + Len(b3) /\ Holds(s3, s2.pos, b3)
    BY <1>1, <1>4, <2>1, WriteFits
  <2> HIDE DEF s3
  <2> QED  BY <1>4, <2>1, <2>2
<1>6. Holds(s3, s.pos, (b1 \o b2) \o b3)
  <2>1. Holds(s2, s.pos, b1)
    <3>1. s.pos + Len(b1) <= s1.pos
      BY <1>1, <1>2, <1>3
    <3> QED  BY <1>1, <1>2, <1>3, <3>1, HoldsKept DEF s2
  <2>2. Holds(s3, s.pos, b1) /\ Holds(s3, s.pos + Len(b1), b2)
    <3>1. /\ s.pos + Len(b1) <= s2.pos /\ (s.pos + 4) + Len(b2) <= s2.pos
          /\ s.pos + 4 \in Nat /\ s.pos + Len(b1) = s.pos + 4
      BY <1>1, <1>2, <1>4
    <3> QED  BY <1>1, <1>2, <1>4, <2>1, <3>1, HoldsKept DEF s3
  <2>3. Holds(s3, s.pos + (Len(b1) + Len(b2)), b3)
    <3>1. s.pos + (Len(b1) + Len(b2)) = s.pos + 5
      BY <1>1, <1>2
    <3> QED  BY <1>5, <3>1
  <2> HIDE DEF s3
  <2>4. Holds(s3, s.pos, b1 \o b2) /\ b1 \o b2 \in Seq(Nat) /\ Len(b1 \o b2) = Len(b1) + Len(b2)
    BY <1>1, <1>2, <1>5, <2>2, HoldsConcat, Zenon
  <2> QED  BY <1>1, <1>2, <1>5, <2>3, <2>4, HoldsConcat, Zenon
<1>7. ASSUME NEW p \in Nat, NEW a \in Seq(Nat), s.pos + 7 <= p, Holds(s, p, a)
      PROVE  Holds(s3, p, a)
  <2>1. s.pos + Len(b1) <= p /\ s1.pos + Len(b2) <= p /\ s2.pos + Len(b3) <= p
    BY <1>1, <1>2, <1>3, <1>4, <1>7
  <2>2. Holds(s1, p, a)
    BY <1>1, <1>7, <2>1, HoldsKept DEF s1
  <2>3. Holds(s2, p, a)
    BY <1>1, <1>3, <2>1, <2>2, HoldsKept DEF s2
  <2> QED  BY <1>1, <1>4, <2>1, <2>3, HoldsKept DEF s3
<1> HIDE DEF s3
<1>8. WriteHeader(s, h) = s3 /\ HeaderBytes(h) = (b1 \o b2) \o b3
  BY DEF WriteHeader, HeaderBytes, b1, b2, b3, s1, s2, s3
<1> QED  BY <1>5, <1>6, <1>7, <1>8

(* updateMessageSize, where the header is in front of the stream: memory   *)
(* and wire have the size, also after the early return, and nothing behind *)
(* the header changes.                                                     *)
LEMMA UpdateWire ==
  ASSUME NEW s, IsByteWriter(s), s.lim < U32Range, NEW p \in Nat, p + 7 <= s.pos,
         NEW h \in Headers
  PROVE  LET u == updateMessageSize(s, p, h)
         IN  /\ u.header.messageSize = s.pos - p
             /\ u.out.pos = s.pos /\ u.out.lim = s.lim
             /\ Holds(s, p, HeaderBytes(h)) => Holds(u.out, p, HeaderBytes(u.header))
             /\ \A q \in Nat, a \in Seq(Nat) :
                  p + 7 <= q /\ Holds(s, q, a) => Holds(u.out, q, a)
<1> DEFINE size == s.pos - p
           h2   == [messageSize |-> size % U32Range, type |-> h.type, tag |-> h.tag]
           back == MoveTo(s, p)
           w    == WriteHeader(back, h2)
           u    == updateMessageSize(s, p, h)
<1>1. s.pos \in Nat /\ s.lim \in Nat /\ s.pos <= s.lim /\ size \in Nat /\ s.pos # p
  BY DEF IsByteWriter
<1>2. size % U32Range = size
  <2>1. U32Range \in Nat \ {0} /\ size < U32Range
    BY <1>1, RangeLemma
  <2> QED  BY <1>1, <2>1
<1>3. h2 \in Headers /\ h2.messageSize = size
  BY <1>1, <1>2 DEF Headers
<1>4. CASE h.messageSize = size
  <2>1. u = [out |-> s, header |-> h]
    BY <1>4 DEF updateMessageSize
  <2> QED  BY <1>4, <2>1
<1>5. CASE h.messageSize # size
  <2>1. u = [out |-> MoveTo(w, s.pos), header |-> h2]
    BY <1>1, <1>5 DEF updateMessageSize
  <2>2. IsByteWriter(back) /\ back.pos = p /\ back.lim = s.lim
    <3>1. p <= s.lim
      BY <1>1
    <3> QED  BY <3>1, MoveToLemma
  <2> HIDE DEF back, h2
  <2>3. /\ IsByteWriter(w) /\ w.lim = s.lim /\ Holds(w, p, HeaderBytes(h2))
        /\ \A q \in Nat, a \in Seq(Nat) : p + 7 <= q /\ Holds(back, q, a) => Holds(w, q, a)
    BY <1>1, <1>3, <2>2, WriteHeaderLemma
  <2>4. \A q, a : Holds(s, q, a) => Holds(back, q, a)
    BY HoldsMoved, Zenon DEF back
  <2> HIDE DEF w
  <2>5. MoveTo(w, s.pos).pos = s.pos /\ MoveTo(w, s.pos).lim = s.lim
    BY <1>1, <2>3, MoveToLemma
  <2>6. \A q, a : Holds(w, q, a) => Holds(MoveTo(w, s.pos), q, a)
    BY <1>1, <2>3, HoldsMoved
  <2> HIDE DEF u
  <2>7. u.header = h2 /\ u.out = MoveTo(w, s.pos)
    BY <2>1
  <2> QED  BY <1>3, <2>3, <2>4, <2>5, <2>6, <2>7 DEF u, size
<1> QED  BY <1>4, <1>5
=============================================================================
