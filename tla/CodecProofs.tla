----------------------------- MODULE CodecProofs -----------------------------
(***************************************************************************)
(* Decoder reads back what Encoder wrote, for every Base, every message    *)
(* layout, every value of every field, of any length its size prefix can   *)
(* tell, and whatever follows in the buffer: CodecRoundTrip.               *)
(*                                                                         *)
(* The bytes of a message are made of the bytes of its fields and these    *)
(* of the pieces that Encoder writes; FlattenSeq and the recursive         *)
(* functions of ReadAll are unfolded step by step, and the reader's        *)
(* position is at every step the sum of the sizes of what was written.     *)
(*                                                                         *)
(* Behind it: what parseMessageHeader makes of any bytes, and which errors *)
(* parseBody can report when it was given what the header says; and the    *)
(* fields of a struct as the users of Codec know them, with the fields     *)
(* that a partial writer adds, up to StructRoundTrip.                      *)
(***************************************************************************)
EXTENDS MessageParser, ByteStreamProofs

LOCAL INSTANCE SequencesExt

LEMMA BoundedInduction ==
  ASSUME NEW n \in Nat, NEW S, 0 \in S, \A i \in 1..n : i - 1 \in S => i \in S
  PROVE  \A i \in 0..n : i \in S
<1> DEFINE U == {i \in Nat : i <= n => i \in S}
<1>1. 0 \in U
  OBVIOUS
<1>2. ASSUME NEW i \in Nat, i \in U  PROVE i + 1 \in U
  <2>1. SUFFICES ASSUME i + 1 <= n  PROVE i + 1 \in S
    OBVIOUS
  <2>2. i \in S /\ i + 1 \in 1..n /\ (i + 1) - 1 = i
    BY <1>2, <2>1
  <2> QED  BY <2>2
<1>3. Nat \subseteq U
  <2> HIDE DEF U
  <2> QED  BY <1>1, <1>2, SetInduction
<1> QED  BY <1>3

(* Flatten *)
LEMMA FlattenExists ==
  ASSUME NEW s
  PROVE \A n \in Nat : \E f : f = [i \in 1..n |-> IF i = 1 THEN s[i] ELSE f[i-1] \o s[i]]
<1> DEFINE Next(x, i) == x \o s[i]
           Is(f, n) == f = [i \in 1..n |-> IF i = 1 THEN s[i] ELSE Next(f[i-1], i)]
           S == {n \in Nat : \E f : Is(f, n)}
<1> SUFFICES \A n \in Nat : n \in S
  OBVIOUS
<1> HIDE DEF Next
<1>1. 0 \in S
  <2>1. Is(<<>>, 0)
    OBVIOUS
  <2> QED  BY <2>1
<1>2. ASSUME NEW n \in Nat, n \in S  PROVE n + 1 \in S
  <2>1. PICK f : Is(f, n)
    BY <1>2
  <2> DEFINE g == [i \in 1..(n + 1) |-> IF i = 1 THEN s[i] ELSE Next(f[i-1], i)]
  <2>2. \A i \in 1..n : g[i] = f[i]
    BY <2>1
  <2>3. \A i \in 1..(n + 1) : i = 1 \/ i - 1 \in 1..n
    OBVIOUS
  <2>4. Is(g, n + 1)
    BY <2>2, <2>3
  <2>5. n + 1 \in Nat
    OBVIOUS
  <2> HIDE DEF Is, g
  <2> QED  BY <2>4, <2>5
<1> HIDE DEF S
<1> QED  BY <1>1, <1>2, SetInduction

LEMMA FlattenLemma ==
  ASSUME NEW E, NEW s \in Seq(Seq(E))
  PROVE  \E f \in [0..Len(s) -> Seq(E)] :
           /\ f[0] = <<>>
           /\ \A i \in 1..Len(s) : f[i] = f[i - 1] \o s[i]
           /\ FlattenSeq(s) = f[Len(s)]
<1> DEFINE n == Len(s)
<1>1. n \in Nat /\ \A i \in 1..n : s[i] \in Seq(E)
  OBVIOUS
<1>2. CASE n = 0
  <2>1. s = <<>> /\ FlattenSeq(s) = s
    BY <1>2 DEF FlattenSeq
  <2> DEFINE g == [i \in 0..0 |-> <<>>]
  <2>2. g \in [0..n -> Seq(E)] /\ g[0] = <<>> /\ 1..n = {}
    BY <1>2
  <2> QED BY <1>2, <2>1, <2>2
<1>3. CASE n # 0
  <2> DEFINE Is(h) == h = [i \in 1..n |-> IF i = 1 THEN s[i] ELSE h[i-1] \o s[i]]
             h == CHOOSE h : Is(h)
  <2>1. FlattenSeq(s) = h[n]
    BY <1>3 DEF FlattenSeq
  <2>2. Is(h)
    <3>1. \E g : Is(g)
      BY <1>1, FlattenExists
    <3> QED  BY <3>1
  <2> HIDE DEF h
  <2> DEFINE f == [i \in 0..n |-> IF i = 0 THEN <<>> ELSE h[i]]
  <2>3. \A i \in 1..n : f[i] = h[i]
    BY <1>1
  <2>4. \A i \in 1..n : f[i - 1] = IF i = 1 THEN <<>> ELSE h[i - 1]
    BY <1>1
  <2>5. f[0] = <<>> /\ f[n] = h[n]
    BY <1>1, <1>3
  <2> HIDE DEF f
  <2>6. \A i \in 1..n : f[i] = f[i - 1] \o s[i]
    <3>1. \A q \in Seq(E) : <<>> \o q = q
      OBVIOUS
    <3> DEFINE Next(x, i) == x \o s[i]
    <3>2. h = [i \in 1..n |-> IF i = 1 THEN s[i] ELSE Next(h[i-1], i)]
      BY <2>2
    <3>3. \A i \in 1..n : Next(<<>>, i) = s[i]
      BY <1>1, <3>1
    <3> HIDE DEF Next
    <3>4. \A i \in 1..n : h[i] = IF i = 1 THEN s[i] ELSE Next(h[i-1], i)
      BY <3>2
    <3>5. \A i \in 1..n : f[i] = Next(f[i - 1], i)
      BY <2>3, <2>4, <3>3, <3>4
    <3> QED BY <3>5 DEF Next
  <2> DEFINE S == {j \in 0..n : f[j] \in Seq(E)}
  <2>7. \A i \in 0..n : i \in S
    <3>0. <<>> \in Seq(E) /\ 0 \in 0..n
      BY <1>1
    <3>1. 0 \in S
      BY <3>0, <2>5
    <3>2. ASSUME NEW i \in 1..n, i - 1 \in S PROVE i \in S
      <4>1. f[i - 1] \in Seq(E) /\ s[i] \in Seq(E) /\ i \in 0..n
        BY <1>1, <3>2
      <4>2. f[i] = f[i - 1] \o s[i]
        BY <2>6
      <4>3. f[i - 1] \o s[i] \in Seq(E)
        BY <4>1
      <4> QED BY <4>1, <4>2, <4>3
    <3> HIDE DEF S
    <3> QED BY <1>1, <3>1, <3>2, BoundedInduction
  <2>8. f \in [0..n -> Seq(E)]
    <3>1. f = [i \in 0..n |-> f[i]]
      BY DEF f
    <3> QED BY <2>7, <3>1
  <2> QED BY <2>1, <2>5, <2>6, <2>8
<1> QED BY <1>2, <1>3

(* There is only one such function. *)
LEMMA FlattenUnique ==
  ASSUME NEW E, NEW s \in Seq(Seq(E)), NEW g, g[0] = <<>>,
         \A i \in 1..Len(s) : g[i] = g[i - 1] \o s[i]
  PROVE  FlattenSeq(s) = g[Len(s)]
<1>1. PICK f \in [0..Len(s) -> Seq(E)] :
           /\ f[0] = <<>>
           /\ \A i \in 1..Len(s) : f[i] = f[i - 1] \o s[i]
           /\ FlattenSeq(s) = f[Len(s)]
  BY FlattenLemma
<1> DEFINE n == Len(s)
           S == {i \in 0..n : f[i] = g[i]}
<1>2. n \in Nat
  OBVIOUS
<1>3. 0 \in S
  BY <1>1, <1>2
<1>4. ASSUME NEW i \in 1..n, i - 1 \in S  PROVE i \in S
  <2>1. f[i - 1] = g[i - 1] /\ i \in 0..n
    BY <1>4
  <2>2. f[i] = f[i - 1] \o s[i] /\ g[i] = g[i - 1] \o s[i]
    BY <1>1
  <2> QED  BY <2>1, <2>2
<1>5. \A i \in 0..n : i \in S
  <2> HIDE DEF S, n
  <2> QED  BY <1>2, <1>3, <1>4, BoundedInduction
<1>6. n \in S
  <2> HIDE DEF S, n
  <2>1. n \in 0..n
    BY <1>2
  <2> QED  BY <1>5, <2>1
<1> QED  BY <1>1, <1>6

LEMMA FlattenType ==
  ASSUME NEW E, NEW s \in Seq(Seq(E))
  PROVE  FlattenSeq(s) \in Seq(E)
<1>1. PICK f \in [0..Len(s) -> Seq(E)] : FlattenSeq(s) = f[Len(s)]
  BY FlattenLemma
<1>2. Len(s) \in 0..Len(s)
  OBVIOUS
<1> QED  BY <1>1, <1>2

LEMMA FlattenNothing == FlattenSeq(<<>>) = <<>>
BY DEF FlattenSeq

LEMMA FlattenOne ==
  ASSUME NEW E, NEW x \in Seq(E)
  PROVE  FlattenSeq(<<x>>) = x
<1> DEFINE g == [i \in 0..1 |-> IF i = 0 THEN <<>> ELSE x]
<1>1. <<x>> \in Seq(Seq(E)) /\ Len(<<x>>) = 1 /\ <<x>>[1] = x
  OBVIOUS
<1>2. g[0] = <<>> /\ g[1] = x
  OBVIOUS
<1>3. <<>> \o x = x
  OBVIOUS
<1> HIDE DEF g
<1>4. \A i \in 1..Len(<<x>>) : g[i] = g[i - 1] \o <<x>>[i]
  <2>1. \A i \in 1..1 : i = 1 /\ i - 1 = 0
    OBVIOUS
  <2> QED  BY <1>1, <1>2, <1>3, <2>1, Zenon
<1>5. FlattenSeq(<<x>>) = g[Len(<<x>>)]
  BY <1>1, <1>2, <1>4, FlattenUnique
<1> QED  BY <1>1, <1>2, <1>5

LEMMA ConcatCells ==
  ASSUME NEW E, NEW a \in Seq(E), NEW b \in Seq(E)
  PROVE  /\ a \o b \in Seq(E) /\ Len(a \o b) = Len(a) + Len(b)
         /\ \A i \in 1..Len(a) : (a \o b)[i] = a[i]
         /\ \A i \in 1..Len(b) : (a \o b)[Len(a) + i] = b[i]
OBVIOUS

LEMMA ConcatAssoc ==
  ASSUME NEW E, NEW a \in Seq(E), NEW b \in Seq(E), NEW c \in Seq(E)
  PROVE  (a \o b) \o c = a \o (b \o c)
OBVIOUS

LEMMA FlattenConcat ==
  ASSUME NEW E, NEW s \in Seq(Seq(E)), NEW t \in Seq(Seq(E))
  PROVE  FlattenSeq(s \o t) = FlattenSeq(s) \o FlattenSeq(t)
<1> DEFINE m == Len(s)
           n == Len(t)
           u == s \o t
           a == FlattenSeq(s)
<1>1. m \in Nat /\ n \in Nat
  OBVIOUS
<1>2. /\ u \in Seq(Seq(E)) /\ Len(u) = m + n
      /\ \A i \in 1..m : u[i] = s[i]
      /\ \A i \in 1..n : u[m + i] = t[i]
  BY ConcatCells
<1>3. PICK f :
           /\ f \in [0..m -> Seq(E)]
           /\ f[0] = <<>>
           /\ \A i \in 1..m : f[i] = f[i - 1] \o s[i]
           /\ a = f[m]
  BY FlattenLemma
<1>4. PICK h :
           /\ h \in [0..n -> Seq(E)]
           /\ h[0] = <<>>
           /\ \A i \in 1..n : h[i] = h[i - 1] \o t[i]
           /\ FlattenSeq(t) = h[n]
  BY FlattenLemma
<1>5. a \in Seq(E) /\ a \o <<>> = a
  <2>1. a \in Seq(E)
    BY FlattenType
  <2> QED  BY <2>1
<1>6. \A i \in 1..n : t[i] \in Seq(E)
  OBVIOUS
<1> HIDE DEF m, n, u, a
<1> DEFINE g == [i \in 0..(m + n) |-> IF i <= m THEN f[i] ELSE a \o h[i - m]]
<1>7. g[0] = <<>>
  BY <1>1, <1>3
<1>8. g[m + n] = a \o h[n]
  <2>1. CASE n = 0
    <3>1. m + n = m /\ m \in 0..(m + n) /\ m <= m
      BY <1>1, <2>1
    <3> QED  BY <1>3, <1>4, <1>5, <2>1, <3>1
  <2>2. CASE n # 0
    <3>1. m + n \in 0..(m + n) /\ ~(m + n <= m) /\ (m + n) - m = n
      BY <1>1, <2>2
    <3> QED  BY <3>1
  <2> QED  BY <2>1, <2>2
<1>9. ASSUME NEW i \in 1..(m + n)  PROVE g[i] = g[i - 1] \o u[i]
  <2>1. CASE i <= m
    <3>1. i \in 1..m /\ i \in 0..(m + n) /\ i - 1 \in 0..(m + n) /\ i - 1 <= m
      BY <1>1, <2>1
    <3>2. g[i] = f[i] /\ g[i - 1] = f[i - 1]
      BY <2>1, <3>1
    <3> QED  BY <1>2, <1>3, <3>1, <3>2
  <2>2. CASE ~(i <= m)
    <3> DEFINE j == i - m
    <3>1. /\ j \in 1..n /\ i = m + j /\ i \in 0..(m + n) /\ i - 1 \in 0..(m + n)
          /\ (i - 1) - m = j - 1 /\ j - 1 \in 0..n
      BY <1>1, <2>2
    <3>2. g[i] = a \o h[j]
      BY <2>2, <3>1
    <3>3. g[i - 1] = a \o h[j - 1]
      <4>1. CASE j = 1
        <5>1. i - 1 = m /\ j - 1 = 0 /\ m <= m
          BY <1>1, <3>1, <4>1
        <5> QED  BY <1>3, <1>4, <1>5, <3>1, <5>1
      <4>2. CASE j # 1
        <5>1. ~(i - 1 <= m)
          BY <1>1, <3>1, <4>2
        <5> QED  BY <3>1, <5>1
      <4> QED  BY <4>1, <4>2
    <3>4. u[i] = t[j] /\ h[j] = h[j - 1] \o t[j]
      BY <1>2, <1>4, <3>1
    <3>5. h[j - 1] \in Seq(E) /\ t[j] \in Seq(E)
      BY <1>4, <1>6, <3>1
    <3> HIDE DEF j, g
    <3>6. a \o (h[j - 1] \o t[j]) = (a \o h[j - 1]) \o t[j]
      <4> DEFINE x == h[j - 1]
                 y == t[j]
      <4>1. a \in Seq(E) /\ x \in Seq(E) /\ y \in Seq(E)
        BY <1>5, <3>5
      <4> HIDE DEF x, y
      <4>2. (a \o x) \o y = a \o (x \o y)
        BY <4>1, ConcatAssoc
      <4> QED  BY <4>2 DEF x, y
    <3> QED  BY <3>2, <3>3, <3>4, <3>6, Zenon
  <2> QED  BY <2>1, <2>2
<1> HIDE DEF g
<1>10. \A i \in 1..Len(u) : g[i] = g[i - 1] \o u[i]
  BY <1>2, <1>9
<1>11. FlattenSeq(u) = g[Len(u)]
  BY <1>2, <1>7, <1>10, FlattenUnique
<1> QED  BY <1>2, <1>4, <1>8, <1>11, Zenon DEF u, a

LEMMA FlattenHead ==
  ASSUME NEW E, NEW s \in Seq(Seq(E)), s # <<>>
  PROVE  FlattenSeq(s) = Head(s) \o FlattenSeq(Tail(s))
<1>1. Head(s) \in Seq(E) /\ Tail(s) \in Seq(Seq(E)) /\ s = <<Head(s)>> \o Tail(s)
  OBVIOUS
<1>2. <<Head(s)>> \in Seq(Seq(E))
  BY <1>1
<1>3. FlattenSeq(<<Head(s)>> \o Tail(s)) = FlattenSeq(<<Head(s)>>) \o FlattenSeq(Tail(s))
  BY <1>1, <1>2, FlattenConcat
<1>4. FlattenSeq(<<Head(s)>>) = Head(s)
  BY <1>1, FlattenOne
<1> QED  BY <1>1, <1>3, <1>4, Zenon

(* Flattening twice *)
LEMMA FlattenTwice ==
  ASSUME NEW E, NEW x \in Seq(Seq(Seq(E)))
  PROVE  /\ [i \in DOMAIN x |-> FlattenSeq(x[i])] \in Seq(Seq(E))
         /\ FlattenSeq(FlattenSeq(x)) = FlattenSeq([i \in DOMAIN x |-> FlattenSeq(x[i])])
<1> DEFINE y == [i \in DOMAIN x |-> FlattenSeq(x[i])]
           n == Len(x)
<1>1. n \in Nat /\ DOMAIN x = 1..n /\ \A i \in 1..n : x[i] \in Seq(Seq(E))
  OBVIOUS
<1>2. \A i \in 1..n : FlattenSeq(x[i]) \in Seq(E)
  BY <1>1, FlattenType
<1>3. y \in Seq(Seq(E)) /\ Len(y) = n /\ \A i \in 1..n : y[i] = FlattenSeq(x[i])
  BY <1>1, <1>2
<1>4. PICK f \in [0..n -> Seq(Seq(E))] :
           /\ f[0] = <<>>
           /\ \A i \in 1..n : f[i] = f[i - 1] \o x[i]
           /\ FlattenSeq(x) = f[n]
  BY FlattenLemma
<1> DEFINE g == [i \in 0..n |-> FlattenSeq(f[i])]
<1> HIDE DEF n
<1>5. g[0] = <<>> /\ g[n] = FlattenSeq(FlattenSeq(x))
  BY <1>1, <1>4, FlattenNothing
<1>6. \A i \in 1..n : i \in 0..n /\ i - 1 \in 0..n
  BY <1>1
<1>7. ASSUME NEW i \in 1..n  PROVE g[i] = g[i - 1] \o y[i]
  <2>1. g[i] = FlattenSeq(f[i]) /\ g[i - 1] = FlattenSeq(f[i - 1])
    BY <1>6
  <2>2. f[i - 1] \in Seq(Seq(E)) /\ x[i] \in Seq(Seq(E)) /\ f[i] = f[i - 1] \o x[i]
    BY <1>1, <1>4, <1>6
  <2>3. FlattenSeq(f[i - 1] \o x[i]) = FlattenSeq(f[i - 1]) \o FlattenSeq(x[i])
    BY <2>2, FlattenConcat, Zenon
  <2> HIDE DEF y, g
  <2> QED  BY <1>3, <2>1, <2>2, <2>3, Zenon
<1> HIDE DEF y, g
<1>8. FlattenSeq(y) = g[Len(y)]
  BY <1>3, <1>5, <1>7, FlattenUnique
<1> QED  BY <1>3, <1>5, <1>8 DEF y

-----------------------------------------------------------------------------
(* p has the bytes b behind its first at ones.                             *)
Has(p, at, b) == at + Len(b) <= Len(p) /\ \A k \in 1..Len(b) : p[at + k] = b[k]

LEMMA HasParts ==
  ASSUME NEW p \in Seq(Nat), NEW at \in Nat, NEW a \in Seq(Nat), NEW b \in Seq(Nat),
         Has(p, at, a \o b)
  PROVE  Has(p, at, a) /\ Has(p, at + Len(a), b)
<1> DEFINE c == a \o b
           l == Len(a)
           m == Len(b)
           n == Len(p)
<1>1. /\ Len(c) = l + m /\ l \in Nat /\ m \in Nat /\ n \in Nat
      /\ \A i \in 1..l : c[i] = a[i]
      /\ \A i \in 1..m : c[l + i] = b[i]
  BY ConcatCells
<1>2. at + Len(c) <= n /\ \A k \in 1..Len(c) : p[at + k] = c[k]
  BY DEF Has
<1> HIDE DEF c, l, m, n
<1>3. at + l <= n /\ (at + l) + m <= n
  BY <1>1, <1>2
<1>4. \A k \in 1..l : p[at + k] = a[k]
  BY <1>1, <1>2
<1>5. \A k \in 1..m : p[(at + l) + k] = b[k]
  <2>1. \A k \in 1..m : l + k \in 1..(l + m) /\ at + (l + k) = (at + l) + k
    BY <1>1
  <2> QED  BY <1>1, <1>2, <2>1
<1> QED  BY <1>3, <1>4, <1>5 DEF Has, l, m, n

LEMMA HasIs ==
  ASSUME NEW p \in Seq(Nat), NEW at \in Nat, NEW b \in Seq(Nat), Has(p, at, b)
  PROVE  SubSeq(p, at + 1, at + Len(b)) = b
<1> DEFINE n == Len(b)
           t == SubSeq(p, at + 1, at + n)
<1>1. n \in Nat /\ at + n <= Len(p) /\ \A k \in 1..n : p[at + k] = b[k]
  BY DEF Has
<1>2. t \in Seq(Nat) /\ Len(t) = n
  <2>1. \A a, c \in Nat : a <= c /\ c <= Len(p) =>
          SubSeq(p, a + 1, c) \in Seq(Nat) /\ Len(SubSeq(p, a + 1, c)) = c - a
    OBVIOUS
  <2> HIDE DEF n
  <2>2. at + n \in Nat /\ at <= at + n /\ (at + n) - at = n
    BY <1>1
  <2> QED  BY <1>1, <2>1, <2>2
<1>3. \A i \in 1..n : t[i] = p[at + i]
  BY <1>1
<1> HIDE DEF t
<1>4. t = [i \in 1..Len(t) |-> t[i]] /\ b = [i \in 1..Len(b) |-> b[i]]
  BY <1>2
<1>5. t = b
  BY <1>1, <1>2, <1>3, <1>4
<1> QED  BY <1>5 DEF t

(* One more field is read behind those before it. *)
ReadOn(p, r, l) ==
  IF r.ok THEN [ok |-> Decode(p, r.next, l.kind).ok, next |-> Decode(p, r.next, l.kind).next,
                val |-> With(r.val, l.key, Decode(p, r.next, l.kind).val)]
          ELSE r

Unread == [ok |-> TRUE, next |-> 0, val |-> << >>]

DecodeRun(p, s, f) ==
  /\ f[0] = Unread
  /\ \A i \in 1..Len(s) : f[i] = ReadOn(p, f[i - 1], s[i])
  /\ DecodeAll(p, s) = f[Len(s)]

(* DecodeAll goes through the fields one by one. *)
LEMMA DecodeLemma ==
  ASSUME NEW p, NEW s, Len(s) \in Nat
  PROVE  \E f : DecodeRun(p, s, f)
<1> DEFINE Is(f, n) == f = [i \in 0..n |-> IF i = 0 THEN Unread ELSE ReadOn(p, f[i - 1], s[i])]
           S == {n \in Nat : \E f : Is(f, n)}
           h == CHOOSE f : Is(f, Len(s))
<1>1. 0 \in S
  <2> DEFINE g == [i \in 0..0 |-> Unread]
  <2>1. Is(g, 0)
    OBVIOUS
  <2> QED  BY <2>1
<1>2. ASSUME NEW n \in Nat, n \in S  PROVE n + 1 \in S
  <2>1. PICK f : Is(f, n)
    BY <1>2
  <2> DEFINE g == [i \in 0..(n + 1) |-> IF i = 0 THEN Unread ELSE ReadOn(p, f[i - 1], s[i])]
  <2>2. \A i \in 0..n : g[i] = f[i]
    BY <2>1
  <2>3. \A i \in 0..(n + 1) : i = 0 \/ i - 1 \in 0..n
    OBVIOUS
  <2>4. Is(g, n + 1)
    BY <2>2, <2>3
  <2>5. n + 1 \in Nat
    OBVIOUS
  <2> HIDE DEF Is, g
  <2> QED  BY <2>4, <2>5
<1>3. Len(s) \in S
  <2> HIDE DEF S
  <2> QED  BY <1>1, <1>2, SetInduction
<1>4. DecodeAll(p, s) = h[Len(s)]
  BY DEF DecodeAll, ReadAll, ReadOn, Unread
<1>5. Is(h, Len(s))
  <2> HIDE DEF Is
  <2> QED  BY <1>3
<1> HIDE DEF h
<1>6. h[0] = Unread /\ \A i \in 1..Len(s) : h[i] = ReadOn(p, h[i - 1], s[i])
  BY <1>5
<1>7. DecodeRun(p, s, h)
  BY <1>4, <1>6 DEF DecodeRun
<1> QED  BY <1>7

(* Eight digits: the low four and the high four. *)
LEMMA SplitU64 ==
  ASSUME NEW v \in Nat
  PROVE  v = U32Value(U32Bytes(v)) + Base * Base * Base * Base * Quot4(v)
<1> DEFINE q1 == Quot1(v)
           q2 == Quot2(v)
           q3 == Quot3(v)
           q4 == Quot4(v)
           d0 == v % Base
           d1 == q1 % Base
           d2 == q2 % Base
           d3 == q3 % Base
<1>1. /\ q1 \in Nat /\ q2 \in Nat /\ q3 \in Nat /\ q4 \in Nat
  BY QuotLemma
<1>2. Base \in Nat /\ d0 \in Nat /\ d1 \in Nat /\ d2 \in Nat /\ d3 \in Nat
  BY <1>1, DigitLemma, BaseAssumption
<1>3. v = d0 + Base * q1
  BY DigitStep DEF Quot1
<1>4. q1 = d1 + Base * q2
  BY <1>1, DigitStep DEF Quot2
<1>5. q2 = d2 + Base * q3
  BY <1>1, DigitStep DEF Quot3
<1>6. q3 = d3 + Base * q4
  BY <1>1, DigitStep DEF Quot4
<1>7. U32Value(U32Bytes(v)) = d0 + Base * (d1 + Base * (d2 + Base * d3))
  BY DEF U32Value, U32Bytes
<1> HIDE DEF q1, q2, q3, q4, d0, d1, d2, d3
<1>8. v = d0 + Base * (d1 + Base * (d2 + Base * (d3 + Base * q4)))
  BY <1>3, <1>4, <1>5, <1>6
<1>9. \A a, b, c, d, e, x \in Nat :
        a + x * (b + x * (c + x * (d + x * e)))
          = (a + x * (b + x * (c + x * d))) + x * x * x * x * e
  OBVIOUS
<1>10. v = (d0 + Base * (d1 + Base * (d2 + Base * d3))) + Base * Base * Base * Base * q4
  BY <1>1, <1>2, <1>8, <1>9
<1> QED  BY <1>7, <1>10 DEF q4

LEMMA HighHalf ==
  ASSUME NEW v \in Nat, v < U64Range
  PROVE  Quot4(v) \in Nat /\ Quot4(v) < U32Range
<1>1. Base \in Nat \ {0} /\ Quot1(v) \in Nat /\ Quot2(v) \in Nat /\ Quot3(v) \in Nat /\ Quot4(v) \in Nat
  BY BaseAssumption, QuotLemma
<1>2. U32Range \in Nat
  BY RangeLemma
<1> DEFINE r == U32Range
<1>3. U64Range = Base * (Base * (Base * (Base * r)))
  <2>1. \A x, y \in Nat : (x * x * x * x) * y = x * (x * (x * (x * y)))
    OBVIOUS
  <2>2. U64Range = (Base * Base * Base * Base) * r
    BY DEF U64Range, U32Range
  <2> HIDE DEF r
  <2> QED  BY <1>1, <1>2, <2>1, <2>2 DEF r
<1> HIDE DEF r
<1>4. \A x \in Nat : Base * x \in Nat
  BY <1>1
<1>5. r \in Nat /\ Base * r \in Nat /\ Base * (Base * r) \in Nat /\ Base * (Base * (Base * r)) \in Nat
  BY <1>2, <1>4 DEF r
<1>6. Quot1(v) < Base * (Base * (Base * r))
  BY <1>1, <1>3, <1>5, DivLess DEF Quot1
<1>7. Quot2(v) < Base * (Base * r)
  BY <1>1, <1>5, <1>6, DivLess DEF Quot2
<1>8. Quot3(v) < Base * r
  BY <1>1, <1>5, <1>7, DivLess DEF Quot3
<1>9. Quot4(v) < r
  BY <1>1, <1>5, <1>8, DivLess DEF Quot4
<1> QED  BY <1>1, <1>9 DEF r

LEMMA U64Cells ==
  ASSUME NEW v \in Nat
  PROVE  /\ U64Bytes(v) \in Seq(Nat) /\ Len(U64Bytes(v)) = 8
         /\ U32Value(U64Bytes(v)) = U32Value(U32Bytes(v))
         /\ SubSeq(U64Bytes(v), 5, 8) = U32Bytes(Quot4(v))
<1> DEFINE a == U32Bytes(v)
           b == U32Bytes(Quot4(v))
           c == a \o b
<1>0. a \in Seq(Nat) /\ b \in Seq(Nat)
  BY U32BytesLemma, QuotLemma
<1>1. Len(a) = 4 /\ Len(b) = 4
  BY U32BytesLemma, QuotLemma
<1>2. U64Bytes(v) = c
  BY DEF U64Bytes
<1> HIDE DEF a, b, c
<1>3. /\ c \in Seq(Nat) /\ Len(c) = Len(a) + Len(b)
      /\ \A i \in 1..Len(a) : c[i] = a[i]
      /\ \A i \in 1..Len(b) : c[Len(a) + i] = b[i]
  BY <1>0, ConcatCells DEF c
<1>4. Len(c) = 8
  BY <1>1, <1>3
<1>5. c[1] = a[1] /\ c[2] = a[2] /\ c[3] = a[3] /\ c[4] = a[4]
  BY <1>1, <1>3
<1>6. U32Value(c) = U32Value(a)
  BY <1>5 DEF U32Value
<1>7. Has(c, 4, b)
  BY <1>1, <1>3, <1>4 DEF Has
<1>8. SubSeq(c, 4 + 1, 4 + Len(b)) = b
  BY <1>0, <1>3, <1>7, HasIs
<1>9. 4 + 1 = 5 /\ 4 + Len(b) = 8
  BY <1>1
<1> QED  BY <1>2, <1>3, <1>4, <1>6, <1>8, <1>9 DEF a, b

LEMMA U64RoundTrip ==
  ASSUME NEW v \in Nat, v < U64Range
  PROVE  U64Value(U64Bytes(v)) = v
<1>1. U32Value(U32Bytes(Quot4(v))) = Quot4(v)
  BY HighHalf, U32RoundTrip
<1>2. U64Value(U64Bytes(v)) = U32Value(U32Bytes(v)) + Base * Base * Base * Base * Quot4(v)
  BY <1>1, U64Cells DEF U64Value
<1> QED  BY <1>2, SplitU64

Read(v, n) == [ok |-> TRUE, next |-> n, val |-> v]

LEMMA BytesRead ==
  ASSUME NEW p \in Seq(Nat), NEW at \in Nat, NEW b \in Seq(Nat), Has(p, at, b)
  PROVE  ReadBytes(p, at, Len(b)) = Read(b, at + Len(b))
<1>1. at + Len(b) <= Len(p)
  BY DEF Has
<1>2. SubSeq(p, at + 1, at + Len(b)) = b
  BY HasIs
<1> QED  BY <1>1, <1>2 DEF ReadBytes, Read

LEMMA IntBytes ==
  ASSUME NEW kind \in Integer, NEW v, IsValue(kind, v)
  PROVE  /\ EncodeInt(kind, v) \in Seq(Nat) /\ Len(EncodeInt(kind, v)) = Width[kind]
         /\ IntValue(kind, EncodeInt(kind, v)) = v
<1>1. v \in Nat
  BY DEF IsValue, Integer
<1>2. CASE kind = "u8"
  <2>1. EncodeInt(kind, v) = <<v>> /\ Width[kind] = 1
    BY <1>2 DEF EncodeInt, Width
  <2>2. IntValue(kind, <<v>>) = v
    BY <1>2 DEF IntValue
  <2>3. <<v>> \in Seq(Nat) /\ Len(<<v>>) = 1
    BY <1>1
  <2> QED  BY <2>1, <2>2, <2>3, Zenon
<1>3. CASE kind = "u16"
  <2>1. EncodeInt(kind, v) = U16Bytes(v) /\ Width[kind] = 2
    BY <1>3 DEF EncodeInt, Width
  <2>2. IntValue(kind, U16Bytes(v)) = U16Value(U16Bytes(v))
    BY <1>3 DEF IntValue
  <2>3. v < U16Range
    BY <1>3 DEF IsValue
  <2> QED  BY <1>1, <2>1, <2>2, <2>3, U16BytesLemma, U16RoundTrip
<1>4. CASE kind = "u32"
  <2>1. EncodeInt(kind, v) = U32Bytes(v) /\ Width[kind] = 4
    BY <1>4 DEF EncodeInt, Width
  <2>2. IntValue(kind, U32Bytes(v)) = U32Value(U32Bytes(v))
    BY <1>4 DEF IntValue
  <2>3. v < U32Range
    BY <1>4 DEF IsValue
  <2> QED  BY <1>1, <2>1, <2>2, <2>3, U32BytesLemma, U32RoundTrip
<1>5. CASE kind = "u64"
  <2>1. EncodeInt(kind, v) = U64Bytes(v) /\ Width[kind] = 8
    BY <1>5 DEF EncodeInt, Width
  <2>2. IntValue(kind, U64Bytes(v)) = U64Value(U64Bytes(v))
    BY <1>5 DEF IntValue
  <2>3. v < U64Range
    BY <1>5 DEF IsValue
  <2> QED  BY <1>1, <2>1, <2>2, <2>3, U64Cells, U64RoundTrip
<1> QED  BY <1>2, <1>3, <1>4, <1>5 DEF Integer

LEMMA IntRead ==
  ASSUME NEW p \in Seq(Nat), NEW at \in Nat, NEW kind \in Integer, NEW v, IsValue(kind, v),
         Has(p, at, EncodeInt(kind, v))
  PROVE  ReadInt(p, at, kind) = Read(v, at + Len(EncodeInt(kind, v)))
<1> DEFINE b == EncodeInt(kind, v)
           w == Width[kind]
<1>1. b \in Seq(Nat) /\ Len(b) = w /\ IntValue(kind, b) = v
  BY IntBytes
<1>2. ReadBytes(p, at, w) = Read(b, at + w)
  BY <1>1, BytesRead
<1> HIDE DEF b, w
<1>3. ReadInt(p, at, kind) = [Read(b, at + w) EXCEPT !.val = IntValue(kind, @)]
  BY <1>2 DEF ReadInt, Read, w
<1>4. ReadInt(p, at, kind) = Read(v, at + w)
  BY <1>1, <1>3 DEF Read
<1> QED  BY <1>1, <1>4 DEF b

(* A size and as many bytes *)
LEMMA SizedRead ==
  ASSUME NEW p \in Seq(Nat), NEW at \in Nat, NEW kind \in Integer, NEW v \in Seq(Nat),
         IsValue(kind, Len(v)), Has(p, at, EncodeInt(kind, Len(v)) \o v)
  PROVE  ReadSized(p, at, kind) = Read(v, at + Len(EncodeInt(kind, Len(v)) \o v))
<1> DEFINE b == EncodeInt(kind, Len(v))
           n == Len(b)
<1>1. b \in Seq(Nat)
  BY IntBytes
<1>2. Has(p, at, b) /\ Has(p, at + n, v)
  <2> HIDE DEF b
  <2> QED  BY <1>1, HasParts DEF b
<1>3. ReadInt(p, at, kind) = Read(Len(v), at + n)
  BY <1>2, IntRead
<1> HIDE DEF b
<1>4. n \in Nat /\ Len(v) \in Nat /\ at + n \in Nat /\ Len(b \o v) = n + Len(v)
  BY <1>1, ConcatCells
<1>5. ReadBytes(p, at + n, Len(v)) = Read(v, (at + n) + Len(v))
  BY <1>2, <1>4, BytesRead
<1>6. (at + n) + Len(v) = at + Len(b \o v)
  BY <1>4
<1> HIDE DEF n
<1>7. ReadSized(p, at, kind) = ReadBytes(p, at + n, Len(v))
  BY <1>3 DEF ReadSized, Read
<1> QED  BY <1>5, <1>6, <1>7 DEF b

(* The elements of a path and of a list of qids *)
ReadStringOn(p, r, i) ==
  IF r.ok THEN [ok |-> ReadString(p, r.next, i).ok, next |-> ReadString(p, r.next, i).next,
                val |-> Append(r.val, ReadString(p, r.next, i).val)]
          ELSE r

ReadQidOn(p, r, i) ==
  IF r.ok THEN [ok |-> ReadQid(p, r.next, i).ok, next |-> ReadQid(p, r.next, i).next,
                val |-> Append(r.val, ReadQid(p, r.next, i).val)]
          ELSE r

ReadStrings(p, at, s) ==
  ReadAll(p, at, ReadString, LAMBDA r, i, v : Append(r, v), << >>, s)

ReadQids(p, at, s) ==
  ReadAll(p, at, ReadQid, LAMBDA r, i, v : Append(r, v), << >>, s)

(* The fields of a qid *)
ReadFieldOn(p, r, f) ==
  IF r.ok THEN [ok |-> ReadInt(p, r.next, QidStruct[f]).ok,
                next |-> ReadInt(p, r.next, QidStruct[f]).next,
                val |-> With(r.val, f, ReadInt(p, r.next, QidStruct[f]).val)]
          ELSE r

StringsRun(p, at, s, f) ==
  /\ f[0] = Read(<< >>, at)
  /\ \A i \in 1..Len(s) : f[i] = ReadStringOn(p, f[i - 1], s[i])
  /\ ReadStrings(p, at, s) = f[Len(s)]

(* The strings of a path are read one by one. *)
LEMMA StringsLemma ==
  ASSUME NEW p, NEW at, NEW s, Len(s) \in Nat
  PROVE  \E f : StringsRun(p, at, s, f)
<1> DEFINE Is(f, m) == f = [i \in 0..m |-> IF i = 0 THEN Read(<< >>, at) ELSE ReadStringOn(p, f[i - 1], s[i])]
           S == {m \in Nat : \E f : Is(f, m)}
           h == CHOOSE f : Is(f, Len(s))
<1>1. 0 \in S
  <2> DEFINE g == [i \in 0..0 |-> Read(<< >>, at)]
  <2>1. Is(g, 0)
    OBVIOUS
  <2> QED  BY <2>1
<1>2. ASSUME NEW m \in Nat, m \in S  PROVE m + 1 \in S
  <2>1. PICK f : Is(f, m)
    BY <1>2
  <2> DEFINE g == [i \in 0..(m + 1) |-> IF i = 0 THEN Read(<< >>, at) ELSE ReadStringOn(p, f[i - 1], s[i])]
  <2>2. \A i \in 0..m : g[i] = f[i]
    BY <2>1
  <2>3. \A i \in 0..(m + 1) : i = 0 \/ i - 1 \in 0..m
    OBVIOUS
  <2>4. Is(g, m + 1)
    BY <2>2, <2>3
  <2>5. m + 1 \in Nat
    OBVIOUS
  <2> HIDE DEF Is, g
  <2> QED  BY <2>4, <2>5
<1>3. Len(s) \in S
  <2> HIDE DEF S
  <2> QED  BY <1>1, <1>2, SetInduction
<1>4. ReadStrings(p, at, s) = h[Len(s)]
  BY DEF ReadStrings, ReadAll, ReadStringOn, Read
<1>5. Is(h, Len(s))
  <2> HIDE DEF Is
  <2> QED  BY <1>3
<1> HIDE DEF h
<1>6. h[0] = Read(<< >>, at) /\ \A i \in 1..Len(s) : h[i] = ReadStringOn(p, h[i - 1], s[i])
  BY <1>5
<1>7. StringsRun(p, at, s, h)
  BY <1>4, <1>6 DEF StringsRun
<1> QED  BY <1>7

QidsRun(p, at, s, f) ==
  /\ f[0] = Read(<< >>, at)
  /\ \A i \in 1..Len(s) : f[i] = ReadQidOn(p, f[i - 1], s[i])
  /\ ReadQids(p, at, s) = f[Len(s)]

(* So are the qids of a list, *)
LEMMA QidsLemma ==
  ASSUME NEW p, NEW at, NEW s, Len(s) \in Nat
  PROVE  \E f : QidsRun(p, at, s, f)
<1> DEFINE Is(f, m) == f = [i \in 0..m |-> IF i = 0 THEN Read(<< >>, at) ELSE ReadQidOn(p, f[i - 1], s[i])]
           S == {m \in Nat : \E f : Is(f, m)}
           h == CHOOSE f : Is(f, Len(s))
<1>1. 0 \in S
  <2> DEFINE g == [i \in 0..0 |-> Read(<< >>, at)]
  <2>1. Is(g, 0)
    OBVIOUS
  <2> QED  BY <2>1
<1>2. ASSUME NEW m \in Nat, m \in S  PROVE m + 1 \in S
  <2>1. PICK f : Is(f, m)
    BY <1>2
  <2> DEFINE g == [i \in 0..(m + 1) |-> IF i = 0 THEN Read(<< >>, at) ELSE ReadQidOn(p, f[i - 1], s[i])]
  <2>2. \A i \in 0..m : g[i] = f[i]
    BY <2>1
  <2>3. \A i \in 0..(m + 1) : i = 0 \/ i - 1 \in 0..m
    OBVIOUS
  <2>4. Is(g, m + 1)
    BY <2>2, <2>3
  <2>5. m + 1 \in Nat
    OBVIOUS
  <2> HIDE DEF Is, g
  <2> QED  BY <2>4, <2>5
<1>3. Len(s) \in S
  <2> HIDE DEF S
  <2> QED  BY <1>1, <1>2, SetInduction
<1>4. ReadQids(p, at, s) = h[Len(s)]
  BY DEF ReadQids, ReadAll, ReadQidOn, Read
<1>5. Is(h, Len(s))
  <2> HIDE DEF Is
  <2> QED  BY <1>3
<1> HIDE DEF h
<1>6. h[0] = Read(<< >>, at) /\ \A i \in 1..Len(s) : h[i] = ReadQidOn(p, h[i - 1], s[i])
  BY <1>5
<1>7. QidsRun(p, at, s, h)
  BY <1>4, <1>6 DEF QidsRun
<1> QED  BY <1>7

(* and the fields of a qid. *)
LEMMA QidLemma ==
  ASSUME NEW p, NEW at, NEW j, Len(QidDec) \in Nat
  PROVE  \E f : /\ f[0] = Read(<< >>, at)
                /\ \A i \in 1..Len(QidDec) : f[i] = ReadFieldOn(p, f[i - 1], QidDec[i])
                /\ ReadQid(p, at, j) = f[Len(QidDec)]
<1> DEFINE Is(f, m) == f = [i \in 0..m |-> IF i = 0 THEN Read(<< >>, at) ELSE ReadFieldOn(p, f[i - 1], QidDec[i])]
           S == {m \in Nat : \E f : Is(f, m)}
           h == CHOOSE f : Is(f, Len(QidDec))
<1>1. 0 \in S
  <2> DEFINE g == [i \in 0..0 |-> Read(<< >>, at)]
  <2>1. Is(g, 0)
    OBVIOUS
  <2> QED  BY <2>1
<1>2. ASSUME NEW m \in Nat, m \in S  PROVE m + 1 \in S
  <2>1. PICK f : Is(f, m)
    BY <1>2
  <2> DEFINE g == [i \in 0..(m + 1) |-> IF i = 0 THEN Read(<< >>, at) ELSE ReadFieldOn(p, f[i - 1], QidDec[i])]
  <2>2. \A i \in 0..m : g[i] = f[i]
    BY <2>1
  <2>3. \A i \in 0..(m + 1) : i = 0 \/ i - 1 \in 0..m
    OBVIOUS
  <2>4. Is(g, m + 1)
    BY <2>2, <2>3
  <2>5. m + 1 \in Nat
    OBVIOUS
  <2> HIDE DEF Is, g
  <2> QED  BY <2>4, <2>5
<1>3. Len(QidDec) \in S
  <2> HIDE DEF S
  <2> QED  BY <1>1, <1>2, SetInduction
<1>4. ReadQid(p, at, j) = h[Len(QidDec)]
  BY DEF ReadAll, ReadFieldOn, Read, ReadQid
<1>5. Is(h, Len(QidDec))
  <2> HIDE DEF Is
  <2> QED  BY <1>3
<1> HIDE DEF h
<1>6. h[0] = Read(<< >>, at) /\ \A i \in 1..Len(QidDec) : h[i] = ReadFieldOn(p, h[i - 1], QidDec[i])
  BY <1>5
<1> QED  BY <1>4, <1>6

LEMMA HasPieces ==
  ASSUME NEW p \in Seq(Nat), NEW at \in Nat, NEW y \in Seq(Seq(Nat)), Has(p, at, FlattenSeq(y))
  PROVE  \E pos \in [0..Len(y) -> Nat] :
           /\ pos[0] = at
           /\ pos[Len(y)] = at + Len(FlattenSeq(y))
           /\ \A i \in 1..Len(y) : pos[i] = pos[i - 1] + Len(y[i]) /\ Has(p, pos[i - 1], y[i])
<1> DEFINE n == Len(y)
<1>1. n \in Nat /\ \A i \in 1..n : y[i] \in Seq(Nat)
  OBVIOUS
<1>2. PICK F : /\ F \in [0..n -> Seq(Nat)]
               /\ F[0] = <<>>
               /\ \A i \in 1..n : F[i] = F[i - 1] \o y[i]
               /\ FlattenSeq(y) = F[n]
  BY FlattenLemma
<1> HIDE DEF n
<1> DEFINE S == {j \in 0..n : Has(p, at, F[n - j])}
<1>3. 0 \in S
  <2>1. n - 0 = n /\ 0 \in 0..n
    BY <1>1
  <2> QED  BY <1>2, <2>1
<1>4. ASSUME NEW j \in 1..n, j - 1 \in S  PROVE j \in S
  <2> DEFINE i == n - (j - 1)
  <2>1. i \in 1..n /\ i - 1 = n - j /\ i \in 0..n /\ i - 1 \in 0..n /\ j \in 0..n
    BY <1>1
  <2>2. Has(p, at, F[i])
    BY <1>4
  <2> HIDE DEF i
  <2>3. F[i] = F[i - 1] \o y[i] /\ F[i - 1] \in Seq(Nat) /\ y[i] \in Seq(Nat)
    BY <1>1, <1>2, <2>1
  <2>4. Has(p, at, F[i - 1] \o y[i])
    BY <2>2, <2>3
  <2>5. Has(p, at, F[i - 1])
    BY <2>3, <2>4, HasParts
  <2> QED  BY <2>1, <2>5
<1>5. \A j \in 0..n : j \in S
  <2> HIDE DEF S
  <2> QED  BY <1>1, <1>3, <1>4, BoundedInduction
<1>6. \A i \in 0..n : Has(p, at, F[i])
  <2>1. \A i \in 0..n : n - i \in 0..n /\ n - (n - i) = i
    BY <1>1
  <2> QED  BY <1>5, <2>1
<1> DEFINE pos == [i \in 0..n |-> at + Len(F[i])]
<1>7. \A i \in 0..n : Len(F[i]) \in Nat
  BY <1>2
<1>8. pos \in [0..n -> Nat]
  BY <1>7
<1>9. pos[0] = at /\ pos[n] = at + Len(FlattenSeq(y))
  <2>1. 0 \in 0..n /\ n \in 0..n /\ Len(<<>>) = 0 /\ at + 0 = at
    BY <1>1
  <2> QED  BY <1>2, <2>1
<1>10. ASSUME NEW i \in 1..n  PROVE pos[i] = pos[i - 1] + Len(y[i]) /\ Has(p, pos[i - 1], y[i])
  <2>1. i \in 0..n /\ i - 1 \in 0..n
    BY <1>1
  <2>2. F[i] = F[i - 1] \o y[i] /\ F[i - 1] \in Seq(Nat) /\ y[i] \in Seq(Nat)
    BY <1>1, <1>2, <2>1
  <2>3. Has(p, at, F[i - 1] \o y[i])
    BY <1>6, <2>1, <2>2
  <2>4. Has(p, at + Len(F[i - 1]), y[i])
    BY <2>2, <2>3, HasParts
  <2>5. Len(F[i]) = Len(F[i - 1]) + Len(y[i])
    BY <2>2, ConcatCells
  <2>6. pos[i] = at + Len(F[i]) /\ pos[i - 1] = at + Len(F[i - 1])
    BY <2>1
  <2>7. Len(F[i - 1]) \in Nat /\ Len(y[i]) \in Nat
    BY <1>7, <2>1, <2>2
  <2> DEFINE l == Len(F[i - 1])
             k == Len(y[i])
  <2>9. l \in Nat /\ k \in Nat
    BY <2>7
  <2> HIDE DEF l, k, pos
  <2>8. at + (l + k) = (at + l) + k
    BY <2>9
  <2> QED  BY <2>4, <2>5, <2>6, <2>8, Zenon DEF l, k
<1> HIDE DEF pos
<1> QED  BY <1>8, <1>9, <1>10 DEF n

-----------------------------------------------------------------------------
LEMMA FlattenTwo ==
  ASSUME NEW E, NEW x \in Seq(E), NEW y \in Seq(E)
  PROVE  <<x, y>> \in Seq(Seq(E)) /\ FlattenSeq(<<x, y>>) = x \o y
<1>0. <<x>> \in Seq(Seq(E)) /\ <<y>> \in Seq(Seq(E))
  OBVIOUS
<1>1. <<x, y>> = <<x>> \o <<y>>
  <2> DEFINE a == <<x>>
             b == <<y>>
             c == a \o b
  <2>1. Len(a) = 1 /\ Len(b) = 1 /\ a[1] = x /\ b[1] = y
    OBVIOUS
  <2> HIDE DEF a, b
  <2>2. /\ c \in Seq(Seq(E)) /\ Len(c) = Len(a) + Len(b)
        /\ \A i \in 1..Len(a) : c[i] = a[i]
        /\ \A i \in 1..Len(b) : c[Len(a) + i] = b[i]
    BY <1>0, ConcatCells DEF a, b
  <2> HIDE DEF c
  <2>3. Len(c) = 2 /\ c[1] = x /\ c[2] = y
    BY <2>1, <2>2
  <2>4. c = <<x, y>>
    <3>1. c = [i \in 1..Len(c) |-> c[i]]
      BY <2>2
    <3>2. <<x, y>> = [i \in 1..2 |-> IF i = 1 THEN x ELSE y]
      OBVIOUS
    <3>3. \A i \in 1..2 : c[i] = IF i = 1 THEN x ELSE y
      BY <2>3
    <3> QED  BY <2>3, <3>1, <3>2, <3>3
  <2> QED  BY <2>4 DEF a, b, c
<1>2. FlattenSeq(<<x>> \o <<y>>) = FlattenSeq(<<x>>) \o FlattenSeq(<<y>>)
  BY <1>0, FlattenConcat
<1>3. FlattenSeq(<<x>>) = x /\ FlattenSeq(<<y>>) = y
  BY FlattenOne
<1>4. <<x, y>> \in Seq(Seq(E))
  OBVIOUS
<1> QED  BY <1>1, <1>2, <1>3, <1>4, Zenon

(* A string on the wire *)
Sized(v) == EncodeInt("u16", Len(v)) \o v

LEMMA StringWire ==
  ASSUME NEW v \in Strings
  PROVE  /\ EncodeString(v) \in Seq(Seq(Nat)) /\ FlattenSeq(EncodeString(v)) = Sized(v)
         /\ Sized(v) \in Seq(Nat) /\ IsValue("u16", Len(v)) /\ v \in Seq(Nat)
<1>1. v \in Seq(Nat) /\ Len(v) \in Nat /\ Len(v) < U16Range
  BY DEF Strings
<1>2. IsValue("u16", Len(v))
  BY <1>1 DEF IsValue, Kinds
<1>3. U16Bytes(Len(v)) \in Seq(Nat)
  BY <1>1, U16BytesLemma
<1>4. EncodeInt("u16", Len(v)) = U16Bytes(Len(v))
  BY DEF EncodeInt
<1>5. EncodeString(v) \in Seq(Seq(Nat)) /\ FlattenSeq(EncodeString(v)) = U16Bytes(Len(v)) \o v
  BY <1>1, <1>3, FlattenTwo DEF EncodeString
<1>6. U16Bytes(Len(v)) \o v \in Seq(Nat)
  BY <1>1, <1>3, ConcatCells
<1> QED  BY <1>1, <1>2, <1>4, <1>5, <1>6 DEF Sized

LEMMA StringRead ==
  ASSUME NEW p \in Seq(Nat), NEW at \in Nat, NEW v \in Strings, Has(p, at, Sized(v)), NEW i
  PROVE  ReadString(p, at, i) = Read(v, at + Len(Sized(v)))
<1>1. IsValue("u16", Len(v)) /\ v \in Seq(Nat) /\ "u16" \in Integer
  BY StringWire DEF Integer
<1> QED  BY <1>1, SizedRead DEF ReadString, Sized

LEMMA AppendPrefix ==
  ASSUME NEW E, NEW v \in Seq(E), NEW i \in 1..Len(v)
  PROVE  Append(SubSeq(v, 1, i - 1), v[i]) = SubSeq(v, 1, i)
<1> DEFINE n == Len(v)
           a == SubSeq(v, 1, i - 1)
           b == Append(a, v[i])
           c == SubSeq(v, 1, i)
<1>1. n \in Nat /\ i \in 1..n /\ i - 1 \in Nat /\ v[i] \in E
  OBVIOUS
<1>2. a \in Seq(E) /\ Len(a) = i - 1 /\ \A j \in 1..(i - 1) : a[j] = v[j]
  BY <1>1
<1>3. c \in Seq(E) /\ Len(c) = i /\ \A j \in 1..i : c[j] = v[j]
  BY <1>1
<1> HIDE DEF a, c
<1>4. b \in Seq(E) /\ Len(b) = Len(a) + 1 /\ b[Len(a) + 1] = v[i] /\ \A j \in 1..Len(a) : b[j] = a[j]
  BY <1>1, <1>2
<1> HIDE DEF b
<1>5. (i - 1) + 1 = i
  OBVIOUS
<1>6. \A j \in 1..i : b[j] = c[j]
  BY <1>1, <1>2, <1>3, <1>4
<1>7. b = [j \in 1..Len(b) |-> b[j]] /\ c = [j \in 1..Len(c) |-> c[j]]
  BY <1>3, <1>4
<1>8. b = c
  BY <1>2, <1>3, <1>4, <1>5, <1>6, <1>7
<1> QED  BY <1>8 DEF a, b, c

-----------------------------------------------------------------------------
(* A qid on the wire *)
QidWire(q) == FlattenSeq(EncodeQid(q))

LEMMA QidFields ==
  ASSUME NEW q \in Qids
  PROVE  /\ Len(QidDec) = 3 /\ QidDec[1] = "type" /\ QidDec[2] = "version" /\ QidDec[3] = "path"
         /\ QidStruct["type"] = "u8" /\ QidStruct["version"] = "u32" /\ QidStruct["path"] = "u64"
         /\ IsValue("u8", q["type"]) /\ IsValue("u32", q["version"]) /\ IsValue("u64", q["path"])
         /\ Len(EncodeQid(q)) = 3
         /\ EncodeQid(q)[1] = EncodeInt("u8", q["type"])
         /\ EncodeQid(q)[2] = EncodeInt("u32", q["version"])
         /\ EncodeQid(q)[3] = EncodeInt("u64", q["path"])
         /\ EncodeQid(q) \in Seq(Seq(Nat))
<1>1. /\ Len(QidDec) = 3 /\ QidDec[1] = "type" /\ QidDec[2] = "version" /\ QidDec[3] = "path"
      /\ QidStruct["type"] = "u8" /\ QidStruct["version"] = "u32" /\ QidStruct["path"] = "u64"
      /\ DOMAIN QidEnc = 1..3 /\ QidEnc[1] = "type" /\ QidEnc[2] = "version" /\ QidEnc[3] = "path"
  BY DEF QidDec, QidEnc, QidStruct
<1>2. /\ q["type"] \in Nat /\ q["version"] \in Nat /\ q["path"] \in Nat
      /\ q["version"] < U32Range /\ q["path"] < U64Range
  BY DEF Qids
<1>3. IsValue("u8", q["type"]) /\ IsValue("u32", q["version"]) /\ IsValue("u64", q["path"])
  BY <1>2 DEF IsValue, Kinds
<1>4. /\ EncodeInt("u8", q["type"]) \in Seq(Nat) /\ EncodeInt("u32", q["version"]) \in Seq(Nat)
      /\ EncodeInt("u64", q["path"]) \in Seq(Nat)
  BY <1>3, IntBytes DEF Integer
<1> DEFINE e == EncodeQid(q)
<1>5. e = [i \in 1..3 |-> EncodeInt(QidStruct[QidEnc[i]], q[QidEnc[i]])]
  BY <1>1 DEF EncodeQid
<1>6. /\ e[1] = EncodeInt("u8", q["type"]) /\ e[2] = EncodeInt("u32", q["version"])
      /\ e[3] = EncodeInt("u64", q["path"])
  BY <1>1, <1>5
<1>7. \A i \in 1..3 : e[i] \in Seq(Nat)
  <2>1. \A i \in 1..3 : i = 1 \/ i = 2 \/ i = 3
    OBVIOUS
  <2> HIDE DEF e
  <2> QED  BY <1>4, <1>6, <2>1, Zenon
<1>8. e \in Seq(Seq(Nat)) /\ Len(e) = 3
  <2>1. e = [i \in 1..3 |-> e[i]]
    BY <1>5
  <2> HIDE DEF e
  <2> QED  BY <1>7, <2>1
<1> QED  BY <1>1, <1>3, <1>6, <1>8

LEMMA FieldStep ==
  ASSUME NEW p \in Seq(Nat), NEW a \in Nat, NEW m, NEW f, NEW v, NEW kind \in Integer,
         QidStruct[f] = kind, IsValue(kind, v), Has(p, a, EncodeInt(kind, v))
  PROVE  ReadFieldOn(p, Read(m, a), f) = Read(With(m, f, v), a + Len(EncodeInt(kind, v)))
<1> DEFINE r == ReadInt(p, a, kind)
           n == a + Len(EncodeInt(kind, v))
<1>1. r = Read(v, n)
  BY IntRead
<1> HIDE DEF r, n
<1>2. ReadFieldOn(p, Read(m, a), f) = [ok |-> r.ok, next |-> r.next, val |-> With(m, f, r.val)]
  BY DEF ReadFieldOn, Read, r
<1>3. ReadFieldOn(p, Read(m, a), f) = Read(With(m, f, v), n)
  BY <1>1, <1>2 DEF Read
<1> QED  BY <1>3 DEF n

LEMMA QidRead ==
  ASSUME NEW p \in Seq(Nat), NEW at \in Nat, NEW q \in Qids, Has(p, at, QidWire(q)), NEW j
  PROVE  ReadQid(p, at, j) = Read(q, at + Len(QidWire(q)))
<1> DEFINE e == EncodeQid(q)
<1>1. e \in Seq(Seq(Nat)) /\ Len(e) = 3
  BY QidFields
<1>2. PICK pos : /\ pos \in [0..3 -> Nat] /\ pos[0] = at /\ pos[3] = at + Len(QidWire(q))
                 /\ \A i \in 1..3 : pos[i] = pos[i - 1] + Len(e[i]) /\ Has(p, pos[i - 1], e[i])
  <2> HIDE DEF e
  <2>1. Has(p, at, FlattenSeq(e)) /\ QidWire(q) = FlattenSeq(e)
    BY DEF QidWire, e
  <2>2. \E pos \in [0..Len(e) -> Nat] :
           /\ pos[0] = at
           /\ pos[Len(e)] = at + Len(FlattenSeq(e))
           /\ \A i \in 1..Len(e) : pos[i] = pos[i - 1] + Len(e[i]) /\ Has(p, pos[i - 1], e[i])
    BY <1>1, <2>1, HasPieces
  <2> QED  BY <1>1, <2>1, <2>2
<1>3. PICK f : /\ f[0] = Read(<< >>, at)
               /\ \A i \in 1..3 : f[i] = ReadFieldOn(p, f[i - 1], QidDec[i])
               /\ ReadQid(p, at, j) = f[3]
  <2>1. Len(QidDec) = 3 /\ Len(QidDec) \in Nat
    BY QidFields
  <2>2. \E f : /\ f[0] = Read(<< >>, at)
                /\ \A i \in 1..Len(QidDec) : f[i] = ReadFieldOn(p, f[i - 1], QidDec[i])
                /\ ReadQid(p, at, j) = f[Len(QidDec)]
    BY <2>1, QidLemma
  <2> QED  BY <2>1, <2>2
<1>4. /\ pos[0] \in Nat /\ pos[1] \in Nat /\ pos[2] \in Nat
      /\ pos[1] = pos[0] + Len(e[1]) /\ Has(p, pos[0], e[1])
      /\ pos[2] = pos[1] + Len(e[2]) /\ Has(p, pos[1], e[2])
      /\ pos[3] = pos[2] + Len(e[3]) /\ Has(p, pos[2], e[3])
  <2> HIDE DEF e
  <2> QED  BY <1>2
<1>5. /\ f[1] = ReadFieldOn(p, f[0], "type") /\ f[2] = ReadFieldOn(p, f[1], "version")
      /\ f[3] = ReadFieldOn(p, f[2], "path")
  BY <1>3, QidFields
<1> DEFINE m1 == With(<< >>, "type", q["type"])
           m2 == With(m1, "version", q["version"])
           m3 == With(m2, "path", q["path"])
<1>6. "u8" \in Integer /\ "u32" \in Integer /\ "u64" \in Integer
  BY DEF Integer
<1>7. m3 = q
  <2>1. q = [k \in {"type", "version", "path"} |-> q[k]]
    BY DEF Qids
  <2>2. m1 = [k \in {"type"} |-> q[k]]
    BY DEF With
  <2> HIDE DEF m1
  <2>3. m2 = [k \in {"type", "version"} |-> q[k]]
    BY <2>2 DEF With
  <2> HIDE DEF m2
  <2>4. m3 = [k \in {"type", "version", "path"} |-> q[k]]
    BY <2>3 DEF With
  <2> QED  BY <2>1, <2>4
<1> HIDE DEF e, m1, m2, m3
<1>8. f[1] = Read(m1, pos[1])
  <2>1. e[1] = EncodeInt("u8", q["type"]) /\ QidStruct["type"] = "u8" /\ IsValue("u8", q["type"])
    BY QidFields DEF e
  <2>2. f[0] = Read(<< >>, pos[0])
    BY <1>2, <1>3
  <2>3. ReadFieldOn(p, Read(<< >>, pos[0]), "type")
          = Read(With(<< >>, "type", q["type"]), pos[0] + Len(EncodeInt("u8", q["type"])))
    <3> DEFINE m == << >>
               w == q["type"]
               a == pos[0]
               g == "type"
               kind == "u8"
    <3>1. Has(p, a, EncodeInt(kind, w)) /\ a \in Nat /\ kind \in Integer /\ QidStruct[g] = kind /\ IsValue(kind, w)
      BY <1>4, <1>6, <2>1
    <3> HIDE DEF m, w, a, g, kind
    <3>2. ReadFieldOn(p, Read(m, a), g) = Read(With(m, g, w), a + Len(EncodeInt(kind, w)))
      BY <3>1, FieldStep
    <3> QED  BY <3>2, Zenon DEF m, w, a, g, kind
  <2> QED  BY <1>4, <1>5, <2>1, <2>2, <2>3, Zenon DEF m1
<1>9. f[2] = Read(m2, pos[2])
  <2>1. e[2] = EncodeInt("u32", q["version"]) /\ QidStruct["version"] = "u32" /\ IsValue("u32", q["version"])
    BY QidFields DEF e
  <2>2. f[1] = Read(m1, pos[1])
    BY <1>2, <1>3, <1>8
  <2>3. ReadFieldOn(p, Read(m1, pos[1]), "version")
          = Read(With(m1, "version", q["version"]), pos[1] + Len(EncodeInt("u32", q["version"])))
    <3> DEFINE m == m1
               w == q["version"]
               a == pos[1]
               g == "version"
               kind == "u32"
    <3>1. Has(p, a, EncodeInt(kind, w)) /\ a \in Nat /\ kind \in Integer /\ QidStruct[g] = kind /\ IsValue(kind, w)
      BY <1>4, <1>6, <2>1
    <3> HIDE DEF m, w, a, g, kind
    <3>2. ReadFieldOn(p, Read(m, a), g) = Read(With(m, g, w), a + Len(EncodeInt(kind, w)))
      BY <3>1, FieldStep
    <3> QED  BY <3>2, Zenon DEF m, w, a, g, kind
  <2> QED  BY <1>4, <1>5, <2>1, <2>2, <2>3, Zenon DEF m2
<1>10. f[3] = Read(m3, pos[3])
  <2>1. e[3] = EncodeInt("u64", q["path"]) /\ QidStruct["path"] = "u64" /\ IsValue("u64", q["path"])
    BY QidFields DEF e
  <2>2. f[2] = Read(m2, pos[2])
    BY <1>2, <1>3, <1>9
  <2>3. ReadFieldOn(p, Read(m2, pos[2]), "path")
          = Read(With(m2, "path", q["path"]), pos[2] + Len(EncodeInt("u64", q["path"])))
    <3> DEFINE m == m2
               w == q["path"]
               a == pos[2]
               g == "path"
               kind == "u64"
    <3>1. Has(p, a, EncodeInt(kind, w)) /\ a \in Nat /\ kind \in Integer /\ QidStruct[g] = kind /\ IsValue(kind, w)
      BY <1>4, <1>6, <2>1
    <3> HIDE DEF m, w, a, g, kind
    <3>2. ReadFieldOn(p, Read(m, a), g) = Read(With(m, g, w), a + Len(EncodeInt(kind, w)))
      BY <3>1, FieldStep
    <3> QED  BY <3>2, Zenon DEF m, w, a, g, kind
  <2> QED  BY <1>4, <1>5, <2>1, <2>2, <2>3, Zenon DEF m3
<1> QED  BY <1>2, <1>3, <1>7, <1>10

-----------------------------------------------------------------------------
(* A path *)
LEMMA PathRead ==
  ASSUME NEW p \in Seq(Nat), NEW at \in Nat, NEW v \in Seq(Strings), NEW s, Len(s) = Len(v),
         NEW y \in Seq(Seq(Nat)), Len(y) = Len(v), \A i \in 1..Len(v) : y[i] = Sized(v[i]),
         Has(p, at, FlattenSeq(y))
  PROVE  ReadStrings(p, at, s) = Read(v, at + Len(FlattenSeq(y)))
<1> DEFINE n == Len(v)
<1>1. n \in Nat /\ \A i \in 1..n : v[i] \in Strings
  OBVIOUS
<1>2. PICK pos : /\ pos \in [0..n -> Nat] /\ pos[0] = at /\ pos[n] = at + Len(FlattenSeq(y))
                 /\ \A i \in 1..n : pos[i] = pos[i - 1] + Len(y[i]) /\ Has(p, pos[i - 1], y[i])
  BY HasPieces
<1>3. PICK f : /\ f[0] = Read(<< >>, at)
               /\ \A i \in 1..n : f[i] = ReadStringOn(p, f[i - 1], s[i])
               /\ ReadStrings(p, at, s) = f[n]
  <2>1. Len(s) = n /\ Len(s) \in Nat
    OBVIOUS
  <2>2. \E f : StringsRun(p, at, s, f)
    BY <2>1, StringsLemma
  <2> HIDE DEF n
  <2> QED  BY <2>1, <2>2 DEF StringsRun
<1> DEFINE S == {i \in 0..n : f[i] = Read(SubSeq(v, 1, i), pos[i])}
<1>4. 0 \in S
  <2>1. 0 \in 0..n /\ SubSeq(v, 1, 0) = << >>
    BY <1>1
  <2> QED  BY <1>2, <1>3, <2>1
<1>5. ASSUME NEW i \in 1..n, i - 1 \in S  PROVE i \in S
  <2>1. i \in 0..n /\ i - 1 \in 0..n /\ f[i - 1] = Read(SubSeq(v, 1, i - 1), pos[i - 1])
    BY <1>1, <1>5
  <2>2. /\ v[i] \in Strings /\ pos[i - 1] \in Nat /\ Has(p, pos[i - 1], Sized(v[i]))
        /\ pos[i] = pos[i - 1] + Len(Sized(v[i]))
    BY <1>1, <1>2, <2>1
  <2>3. ReadString(p, pos[i - 1], s[i]) = Read(v[i], pos[i])
    BY <2>2, StringRead
  <2>4. f[i] = ReadStringOn(p, f[i - 1], s[i])
    BY <1>3
  <2> DEFINE a == pos[i - 1]
             b == pos[i]
             q == SubSeq(v, 1, i - 1)
             e == v[i]
             k == s[i]
             r == ReadString(p, a, k)
  <2> HIDE DEF a, b, q, e, k, r
  <2>5. r = Read(e, b) /\ f[i] = ReadStringOn(p, Read(q, a), k)
    BY <2>1, <2>3, <2>4 DEF a, b, q, e, k, r
  <2>6. ReadStringOn(p, Read(q, a), k) = [ok |-> r.ok, next |-> r.next, val |-> Append(q, r.val)]
    BY DEF ReadStringOn, Read, r
  <2>7. f[i] = Read(Append(q, e), b)
    BY <2>5, <2>6 DEF Read
  <2>8. Append(SubSeq(v, 1, i - 1), v[i]) = SubSeq(v, 1, i)
    BY AppendPrefix
  <2> QED  BY <2>1, <2>7, <2>8 DEF q, e, b
<1>6. \A i \in 0..n : i \in S
  <2> HIDE DEF S, n
  <2> QED  BY <1>1, <1>4, <1>5, BoundedInduction
<1>7. f[n] = Read(SubSeq(v, 1, n), pos[n])
  <2>1. n \in 0..n
    BY <1>1
  <2> QED  BY <1>6, <2>1
<1>8. SubSeq(v, 1, n) = v
  OBVIOUS
<1> QED  BY <1>2, <1>3, <1>7, <1>8

(* A list of qids *)
LEMMA QidsRead ==
  ASSUME NEW p \in Seq(Nat), NEW at \in Nat, NEW v \in Seq(Qids), NEW s, Len(s) = Len(v),
         NEW y \in Seq(Seq(Nat)), Len(y) = Len(v), \A i \in 1..Len(v) : y[i] = QidWire(v[i]),
         Has(p, at, FlattenSeq(y))
  PROVE  ReadQids(p, at, s) = Read(v, at + Len(FlattenSeq(y)))
<1> DEFINE n == Len(v)
<1>1. n \in Nat /\ \A i \in 1..n : v[i] \in Qids
  OBVIOUS
<1>2. PICK pos : /\ pos \in [0..n -> Nat] /\ pos[0] = at /\ pos[n] = at + Len(FlattenSeq(y))
                 /\ \A i \in 1..n : pos[i] = pos[i - 1] + Len(y[i]) /\ Has(p, pos[i - 1], y[i])
  BY HasPieces
<1>3. PICK f : /\ f[0] = Read(<< >>, at)
               /\ \A i \in 1..n : f[i] = ReadQidOn(p, f[i - 1], s[i])
               /\ ReadQids(p, at, s) = f[n]
  <2>1. Len(s) = n /\ Len(s) \in Nat
    OBVIOUS
  <2>2. \E f : QidsRun(p, at, s, f)
    BY <2>1, QidsLemma
  <2> HIDE DEF n
  <2> QED  BY <2>1, <2>2 DEF QidsRun
<1> DEFINE S == {i \in 0..n : f[i] = Read(SubSeq(v, 1, i), pos[i])}
<1>4. 0 \in S
  <2>1. 0 \in 0..n /\ SubSeq(v, 1, 0) = << >>
    BY <1>1
  <2> QED  BY <1>2, <1>3, <2>1
<1>5. ASSUME NEW i \in 1..n, i - 1 \in S  PROVE i \in S
  <2>1. i \in 0..n /\ i - 1 \in 0..n /\ f[i - 1] = Read(SubSeq(v, 1, i - 1), pos[i - 1])
    BY <1>1, <1>5
  <2>2. /\ v[i] \in Qids /\ pos[i - 1] \in Nat /\ Has(p, pos[i - 1], QidWire(v[i]))
        /\ pos[i] = pos[i - 1] + Len(QidWire(v[i]))
    BY <1>1, <1>2, <2>1
  <2>3. ReadQid(p, pos[i - 1], s[i]) = Read(v[i], pos[i])
    BY <2>2, QidRead
  <2>4. f[i] = ReadQidOn(p, f[i - 1], s[i])
    BY <1>3
  <2> DEFINE a == pos[i - 1]
             b == pos[i]
             q == SubSeq(v, 1, i - 1)
             e == v[i]
             k == s[i]
             r == ReadQid(p, a, k)
  <2> HIDE DEF a, b, q, e, k, r
  <2>5. r = Read(e, b) /\ f[i] = ReadQidOn(p, Read(q, a), k)
    BY <2>1, <2>3, <2>4 DEF a, b, q, e, k, r
  <2>6. ReadQidOn(p, Read(q, a), k) = [ok |-> r.ok, next |-> r.next, val |-> Append(q, r.val)]
    BY DEF ReadQidOn, Read, r
  <2>7. f[i] = Read(Append(q, e), b)
    BY <2>5, <2>6 DEF Read
  <2>8. Append(SubSeq(v, 1, i - 1), v[i]) = SubSeq(v, 1, i)
    BY AppendPrefix
  <2> QED  BY <2>1, <2>7, <2>8 DEF q, e, b
<1>6. \A i \in 0..n : i \in S
  <2> HIDE DEF S, n
  <2> QED  BY <1>1, <1>4, <1>5, BoundedInduction
<1>7. f[n] = Read(SubSeq(v, 1, n), pos[n])
  <2>1. n \in 0..n
    BY <1>1
  <2> QED  BY <1>6, <2>1
<1>8. SubSeq(v, 1, n) = v
  OBVIOUS
<1> QED  BY <1>2, <1>3, <1>7, <1>8

(* What a field is on the wire *)
Wire(kind, v) == FlattenSeq(Encode(kind, v))

(* A count, then the elements *)
LEMMA CountedWire ==
  ASSUME NEW h \in Seq(Nat), NEW z \in Seq(Seq(Seq(Nat))), NEW y,
         y = [i \in DOMAIN z |-> FlattenSeq(z[i])]
  PROVE  /\ <<h>> \o FlattenSeq(z) \in Seq(Seq(Nat)) /\ y \in Seq(Seq(Nat))
         /\ FlattenSeq(<<h>> \o FlattenSeq(z)) = h \o FlattenSeq(y)
         /\ FlattenSeq(y) \in Seq(Nat)
<1>1. <<h>> \in Seq(Seq(Nat))
  OBVIOUS
<1>2. FlattenSeq(z) \in Seq(Seq(Nat))
  BY FlattenType
<1>3. <<h>> \o FlattenSeq(z) \in Seq(Seq(Nat))
  <2> DEFINE a == <<h>>
             b == FlattenSeq(z)
  <2> HIDE DEF a, b
  <2>1. a \in Seq(Seq(Nat)) /\ b \in Seq(Seq(Nat))
    BY <1>1, <1>2 DEF a, b
  <2>2. a \o b \in Seq(Seq(Nat))
    BY <2>1
  <2> QED  BY <2>2 DEF a, b
<1>4. FlattenSeq(<<h>> \o FlattenSeq(z)) = FlattenSeq(<<h>>) \o FlattenSeq(FlattenSeq(z))
  BY <1>1, <1>2, FlattenConcat
<1>5. FlattenSeq(<<h>>) = h
  BY FlattenOne
<1>6. y \in Seq(Seq(Nat)) /\ FlattenSeq(FlattenSeq(z)) = FlattenSeq(y)
  BY FlattenTwice, Zenon
<1>7. FlattenSeq(y) \in Seq(Nat)
  BY <1>6, FlattenType
<1> QED  BY <1>3, <1>4, <1>5, <1>6, <1>7, Zenon

LEMMA EncodeKinds ==
  ASSUME NEW kind, NEW v
  PROVE  /\ kind \in Integer => Encode(kind, v) = <<EncodeInt(kind, v)>>
         /\ kind = "str"  => Encode(kind, v) = EncodeString(v)
         /\ kind = "data" => Encode(kind, v) = <<U32Bytes(Len(v)), v>>
         /\ kind = "path" => Encode(kind, v) = <<U16Bytes(Len(v))>> \o FlattenSeq([i \in DOMAIN v |-> EncodeString(v[i])])
         /\ kind = "qids" => Encode(kind, v) = <<U16Bytes(Len(v))>> \o FlattenSeq([i \in DOMAIN v |-> EncodeQid(v[i])])
<1>1. kind \in Integer => Encode(kind, v) = <<EncodeInt(kind, v)>>
  BY DEF Encode, Integer
<1>2. kind = "str"  => Encode(kind, v) = EncodeString(v)
  BY DEF Encode, Integer
<1>3. kind = "data" => Encode(kind, v) = <<U32Bytes(Len(v)), v>>
  BY DEF Encode, Integer
<1>4. kind = "path" => Encode(kind, v) = <<U16Bytes(Len(v))>> \o FlattenSeq([i \in DOMAIN v |-> EncodeString(v[i])])
  BY DEF Encode, Integer
<1>5. kind = "qids" => Encode(kind, v) = <<U16Bytes(Len(v))>> \o FlattenSeq([i \in DOMAIN v |-> EncodeQid(v[i])])
  BY DEF Encode, Integer
<1> QED  BY <1>1, <1>2, <1>3, <1>4, <1>5, Zenon

LEMMA DecodeKinds ==
  ASSUME NEW p, NEW at, NEW kind
  PROVE  /\ kind \in Integer => Decode(p, at, kind) = ReadInt(p, at, kind)
         /\ kind = "str"  => Decode(p, at, kind) = ReadSized(p, at, "u16")
         /\ kind = "data" => Decode(p, at, kind) = ReadSized(p, at, "u32")
         /\ kind = "path" => Decode(p, at, kind) =
              LET n == ReadInt(p, at, "u16") IN IF n.ok THEN ReadStrings(p, n.next, [i \in 1..n.val |-> i]) ELSE n
         /\ kind = "qids" => Decode(p, at, kind) =
              LET n == ReadInt(p, at, "u16") IN IF n.ok THEN ReadQids(p, n.next, [i \in 1..n.val |-> i]) ELSE n
<1>1. kind \in Integer => Decode(p, at, kind) = ReadInt(p, at, kind)
  BY DEF Decode, Integer
<1>2. kind = "str"  => Decode(p, at, kind) = ReadSized(p, at, "u16")
  BY DEF Decode, Integer
<1>3. kind = "data" => Decode(p, at, kind) = ReadSized(p, at, "u32")
  BY DEF Decode, Integer
<1>4. kind = "path" => Decode(p, at, kind) =
              LET n == ReadInt(p, at, "u16") IN IF n.ok THEN ReadStrings(p, n.next, [i \in 1..n.val |-> i]) ELSE n
  BY DEF Decode, Integer, ReadStrings, ReadCounted
<1>5. kind = "qids" => Decode(p, at, kind) =
              LET n == ReadInt(p, at, "u16") IN IF n.ok THEN ReadQids(p, n.next, [i \in 1..n.val |-> i]) ELSE n
  BY DEF Decode, Integer, ReadQids, ReadCounted
<1> QED  BY <1>1, <1>2, <1>3, <1>4, <1>5, Zenon

(* What each type of field is on the wire, and that it is read back *)
LEMMA IntLeaf ==
  ASSUME NEW kind \in Integer, NEW v, IsValue(kind, v)
  PROVE  /\ Encode(kind, v) \in Seq(Seq(Nat))
         /\ \A p \in Seq(Nat), at \in Nat :
              Has(p, at, Wire(kind, v)) => Decode(p, at, kind) = Read(v, at + Len(Wire(kind, v)))
<1> DEFINE e == EncodeInt(kind, v)
<1>1. e \in Seq(Nat)
  BY IntBytes
<1>2. Encode(kind, v) = <<e>>
  BY EncodeKinds
<1>3. <<e>> \in Seq(Seq(Nat)) /\ FlattenSeq(<<e>>) = e
  <2> HIDE DEF e
  <2> QED  BY <1>1, FlattenOne
<1>4. Wire(kind, v) = e
  BY <1>2, <1>3 DEF Wire
<1>5. ASSUME NEW p \in Seq(Nat), NEW at \in Nat, Has(p, at, e)
      PROVE  Decode(p, at, kind) = Read(v, at + Len(e))
  <2>1. ReadInt(p, at, kind) = Read(v, at + Len(e))
    BY <1>5, IntRead
  <2> QED  BY <2>1, DecodeKinds
<1> HIDE DEF e
<1> QED  BY <1>2, <1>3, <1>4, <1>5

LEMMA StrLeaf ==
  ASSUME NEW v, IsValue("str", v)
  PROVE  /\ Encode("str", v) \in Seq(Seq(Nat))
         /\ \A p \in Seq(Nat), at \in Nat :
              Has(p, at, Wire("str", v)) => Decode(p, at, "str") = Read(v, at + Len(Wire("str", v)))
<1> DEFINE e == Sized(v)
<1>1. v \in Strings
  BY DEF IsValue
<1>2. Encode("str", v) = EncodeString(v)
  BY EncodeKinds
<1>3. EncodeString(v) \in Seq(Seq(Nat)) /\ FlattenSeq(EncodeString(v)) = e
  BY <1>1, StringWire
<1>4. Wire("str", v) = e
  BY <1>2, <1>3 DEF Wire
<1>5. ASSUME NEW p \in Seq(Nat), NEW at \in Nat, Has(p, at, e)
      PROVE  Decode(p, at, "str") = Read(v, at + Len(e))
  <2>1. ReadString(p, at, 0) = Read(v, at + Len(e))
    BY <1>1, <1>5, StringRead
  <2>2. Decode(p, at, "str") = ReadSized(p, at, "u16")
    BY DecodeKinds
  <2> QED  BY <2>1, <2>2 DEF ReadString
<1> HIDE DEF e
<1> QED  BY <1>2, <1>3, <1>4, <1>5

LEMMA DataLeaf ==
  ASSUME NEW v, IsValue("data", v)
  PROVE  /\ Encode("data", v) \in Seq(Seq(Nat))
         /\ \A p \in Seq(Nat), at \in Nat :
              Has(p, at, Wire("data", v)) => Decode(p, at, "data") = Read(v, at + Len(Wire("data", v)))
<1> DEFINE h == EncodeInt("u32", Len(v))
           e == h \o v
<1>1. v \in Seq(Nat) /\ Len(v) \in Nat /\ Len(v) < U32Range /\ "u32" \in Integer
  BY DEF IsValue, Integer
<1>2. IsValue("u32", Len(v))
  BY <1>1 DEF IsValue, Kinds
<1>3. Encode("data", v) = <<U32Bytes(Len(v)), v>>
  BY EncodeKinds
<1>4. h = U32Bytes(Len(v))
  BY DEF EncodeInt
<1>5. h \in Seq(Nat)
  BY <1>1, <1>2, IntBytes
<1>6. <<h, v>> \in Seq(Seq(Nat)) /\ FlattenSeq(<<h, v>>) = e
  <2> HIDE DEF h
  <2> QED  BY <1>1, <1>5, FlattenTwo
<1>7. Encode("data", v) = <<h, v>>
  BY <1>3, <1>4, Zenon
<1>8. Wire("data", v) = e
  <2> HIDE DEF h, e
  <2> QED  BY <1>6, <1>7 DEF Wire
<1>9. ASSUME NEW p \in Seq(Nat), NEW at \in Nat, Has(p, at, e)
      PROVE  Decode(p, at, "data") = Read(v, at + Len(e))
  <2>1. ReadSized(p, at, "u32") = Read(v, at + Len(e))
    BY <1>1, <1>2, <1>9, SizedRead
  <2>2. Decode(p, at, "data") = ReadSized(p, at, "u32")
    BY DecodeKinds
  <2> QED  BY <2>1, <2>2, Zenon
<1> HIDE DEF e, h
<1> QED  BY <1>6, <1>7, <1>8, <1>9

LEMMA PathLeaf ==
  ASSUME NEW v, IsValue("path", v)
  PROVE  /\ Encode("path", v) \in Seq(Seq(Nat))
         /\ \A p \in Seq(Nat), at \in Nat :
              Has(p, at, Wire("path", v)) => Decode(p, at, "path") = Read(v, at + Len(Wire("path", v)))
<1> DEFINE n == Len(v)
           h == EncodeInt("u16", n)
           z == [i \in DOMAIN v |-> EncodeString(v[i])]
           y == [i \in DOMAIN z |-> FlattenSeq(z[i])]
           b == FlattenSeq(y)
           e == h \o b
<1>1. /\ v \in Seq(Strings) /\ n \in Nat /\ n < U16Range /\ "u16" \in Integer /\ DOMAIN v = 1..n
      /\ \A i \in 1..n : v[i] \in Strings
  BY DEF IsValue, Integer
<1>2. IsValue("u16", n)
  BY <1>1 DEF IsValue, Kinds
<1>3. /\ DOMAIN z = 1..n /\ DOMAIN y = 1..n
      /\ \A i \in 1..n : z[i] = EncodeString(v[i]) /\ y[i] = FlattenSeq(z[i])
  BY <1>1, Zenon
<1>4. \A i \in 1..n : z[i] \in Seq(Seq(Nat)) /\ y[i] = Sized(v[i])
  <2> HIDE DEF z, y, n
  <2>1. ASSUME NEW i \in 1..n  PROVE z[i] \in Seq(Seq(Nat)) /\ y[i] = Sized(v[i])
    <3>1. v[i] \in Strings /\ z[i] = EncodeString(v[i]) /\ y[i] = FlattenSeq(z[i])
      BY <1>1, <1>3
    <3>2. EncodeString(v[i]) \in Seq(Seq(Nat)) /\ FlattenSeq(EncodeString(v[i])) = Sized(v[i])
      BY <3>1, StringWire
    <3> QED  BY <3>1, <3>2
  <2> QED  BY <2>1
<1>5. z = [i \in 1..n |-> z[i]] /\ y = [i \in 1..n |-> y[i]]
  BY <1>1, Zenon
<1>6. z \in Seq(Seq(Seq(Nat))) /\ Len(y) = n
  <2>1. Len([i \in 1..n |-> y[i]]) = n
    <3> HIDE DEF y, n
    <3> QED  BY <1>1
  <2> HIDE DEF z, y, n
  <2>2. z \in Seq(Seq(Seq(Nat)))
    BY <1>1, <1>4, <1>5
  <2> QED  BY <1>5, <2>1, <2>2
<1>7. h = U16Bytes(n)
  BY DEF EncodeInt
<1>8. h \in Seq(Nat)
  BY <1>1, <1>2, IntBytes
<1>9. Encode("path", v) = <<h>> \o FlattenSeq(z)
  <2>1. Encode("path", v) = <<U16Bytes(Len(v))>> \o FlattenSeq([i \in DOMAIN v |-> EncodeString(v[i])])
    BY EncodeKinds
  <2>2. U16Bytes(Len(v)) = h
    BY <1>7
  <2> HIDE DEF h
  <2> QED  BY <2>1, <2>2, Zenon
<1>10. y = [i \in DOMAIN z |-> FlattenSeq(z[i])]
  OBVIOUS
<1> HIDE DEF z, y, h, n
<1>11. /\ <<h>> \o FlattenSeq(z) \in Seq(Seq(Nat)) /\ y \in Seq(Seq(Nat))
       /\ FlattenSeq(<<h>> \o FlattenSeq(z)) = e
       /\ b \in Seq(Nat)
  BY <1>6, <1>8, <1>10, CountedWire
<1> HIDE DEF b, e
<1>12. Wire("path", v) = e /\ Encode("path", v) \in Seq(Seq(Nat))
  BY <1>9, <1>11 DEF Wire
<1>13. ASSUME NEW p \in Seq(Nat), NEW at \in Nat, Has(p, at, e)
       PROVE  Decode(p, at, "path") = Read(v, at + Len(e))
  <2> DEFINE l == Len(h)
             s == [i \in 1..n |-> i]
             c == ReadInt(p, at, "u16")
  <2>1. Has(p, at, h \o b)
    BY <1>13 DEF e
  <2>2. Has(p, at, h) /\ Has(p, at + l, b)
    BY <1>8, <1>11, <2>1, HasParts
  <2>3. c = Read(n, at + l)
    BY <1>1, <1>2, <2>2, IntRead DEF h
  <2>4. Decode(p, at, "path") = IF c.ok THEN ReadStrings(p, c.next, [i \in 1..c.val |-> i]) ELSE c
    BY DecodeKinds, Zenon
  <2>5. l \in Nat /\ at + l \in Nat /\ Len(s) = n /\ Len(e) = l + Len(b) /\ Len(b) \in Nat
    <3>1. l \in Nat /\ at + l \in Nat /\ Len(b) \in Nat
      BY <1>8, <1>11
    <3>2. Len(s) = n
      BY <1>1
    <3>3. Len(e) = l + Len(b)
      BY <1>8, <1>11, ConcatCells DEF e
    <3> QED  BY <3>1, <3>2, <3>3
  <2>6. c.ok /\ c.next = at + l /\ c.val = n
    <3> HIDE DEF c
    <3> QED  BY <2>3 DEF Read
  <2> HIDE DEF c
  <2>7. Decode(p, at, "path") = ReadStrings(p, at + l, s)
    BY <2>4, <2>6
  <2> DEFINE a == at + l
  <2> HIDE DEF s, l
  <2>8. Has(p, a, FlattenSeq(y)) /\ a \in Nat
    BY <2>2, <2>5 DEF b
  <2> HIDE DEF a
  <2>9. ReadStrings(p, a, s) = Read(v, a + Len(FlattenSeq(y)))
    <3>1. Len(s) = Len(v) /\ Len(y) = Len(v) /\ \A i \in 1..Len(v) : y[i] = Sized(v[i])
      BY <1>4, <1>6, <2>5 DEF n
    <3>2. v \in Seq(Strings) /\ y \in Seq(Seq(Nat))
      BY <1>1, <1>11
    <3> QED  BY <2>8, <3>1, <3>2, PathRead, Zenon
  <2>10. (at + l) + Len(b) = at + (l + Len(b))
    <3> DEFINE k == Len(b)
    <3>1. k \in Nat
      BY <2>5
    <3> HIDE DEF k
    <3>2. (at + l) + k = at + (l + k)
      BY <2>5, <3>1
    <3> QED  BY <3>2 DEF k
  <2> QED  BY <2>5, <2>7, <2>9, <2>10 DEF a, b
<1> QED  BY <1>12, <1>13

LEMMA QidListLeaf ==
  ASSUME NEW v, IsValue("qids", v)
  PROVE  /\ Encode("qids", v) \in Seq(Seq(Nat))
         /\ \A p \in Seq(Nat), at \in Nat :
              Has(p, at, Wire("qids", v)) => Decode(p, at, "qids") = Read(v, at + Len(Wire("qids", v)))
<1> DEFINE n == Len(v)
           h == EncodeInt("u16", n)
           z == [i \in DOMAIN v |-> EncodeQid(v[i])]
           y == [i \in DOMAIN z |-> FlattenSeq(z[i])]
           b == FlattenSeq(y)
           e == h \o b
<1>1. /\ v \in Seq(Qids) /\ n \in Nat /\ n < U16Range /\ "u16" \in Integer /\ DOMAIN v = 1..n
      /\ \A i \in 1..n : v[i] \in Qids
  BY DEF IsValue, Integer
<1>2. IsValue("u16", n)
  BY <1>1 DEF IsValue, Kinds
<1>3. /\ DOMAIN z = 1..n /\ DOMAIN y = 1..n
      /\ \A i \in 1..n : z[i] = EncodeQid(v[i]) /\ y[i] = FlattenSeq(z[i])
  BY <1>1, Zenon
<1>4. \A i \in 1..n : z[i] \in Seq(Seq(Nat)) /\ y[i] = QidWire(v[i])
  <2> HIDE DEF z, y, n
  <2>1. ASSUME NEW i \in 1..n  PROVE z[i] \in Seq(Seq(Nat)) /\ y[i] = QidWire(v[i])
    <3>1. v[i] \in Qids /\ z[i] = EncodeQid(v[i]) /\ y[i] = FlattenSeq(z[i])
      BY <1>1, <1>3
    <3>2. EncodeQid(v[i]) \in Seq(Seq(Nat)) /\ FlattenSeq(EncodeQid(v[i])) = QidWire(v[i])
      BY <3>1, QidFields DEF QidWire
    <3> QED  BY <3>1, <3>2
  <2> QED  BY <2>1
<1>5. z = [i \in 1..n |-> z[i]] /\ y = [i \in 1..n |-> y[i]]
  BY <1>1, Zenon
<1>6. z \in Seq(Seq(Seq(Nat))) /\ Len(y) = n
  <2>1. Len([i \in 1..n |-> y[i]]) = n
    <3> HIDE DEF y, n
    <3> QED  BY <1>1
  <2> HIDE DEF z, y, n
  <2>2. z \in Seq(Seq(Seq(Nat)))
    BY <1>1, <1>4, <1>5
  <2> QED  BY <1>5, <2>1, <2>2
<1>7. h = U16Bytes(n)
  BY DEF EncodeInt
<1>8. h \in Seq(Nat)
  BY <1>1, <1>2, IntBytes
<1>9. Encode("qids", v) = <<h>> \o FlattenSeq(z)
  <2>1. Encode("qids", v) = <<U16Bytes(Len(v))>> \o FlattenSeq([i \in DOMAIN v |-> EncodeQid(v[i])])
    BY EncodeKinds
  <2>2. U16Bytes(Len(v)) = h
    BY <1>7
  <2> HIDE DEF h
  <2> QED  BY <2>1, <2>2, Zenon
<1>10. y = [i \in DOMAIN z |-> FlattenSeq(z[i])]
  OBVIOUS
<1> HIDE DEF z, y, h, n
<1>11. /\ <<h>> \o FlattenSeq(z) \in Seq(Seq(Nat)) /\ y \in Seq(Seq(Nat))
       /\ FlattenSeq(<<h>> \o FlattenSeq(z)) = e
       /\ b \in Seq(Nat)
  BY <1>6, <1>8, <1>10, CountedWire
<1> HIDE DEF b, e
<1>12. Wire("qids", v) = e /\ Encode("qids", v) \in Seq(Seq(Nat))
  BY <1>9, <1>11 DEF Wire
<1>13. ASSUME NEW p \in Seq(Nat), NEW at \in Nat, Has(p, at, e)
       PROVE  Decode(p, at, "qids") = Read(v, at + Len(e))
  <2> DEFINE l == Len(h)
             s == [i \in 1..n |-> i]
             c == ReadInt(p, at, "u16")
  <2>1. Has(p, at, h \o b)
    BY <1>13 DEF e
  <2>2. Has(p, at, h) /\ Has(p, at + l, b)
    BY <1>8, <1>11, <2>1, HasParts
  <2>3. c = Read(n, at + l)
    BY <1>1, <1>2, <2>2, IntRead DEF h
  <2>4. Decode(p, at, "qids") = IF c.ok THEN ReadQids(p, c.next, [i \in 1..c.val |-> i]) ELSE c
    BY DecodeKinds, Zenon
  <2>5. l \in Nat /\ at + l \in Nat /\ Len(s) = n /\ Len(e) = l + Len(b) /\ Len(b) \in Nat
    <3>1. l \in Nat /\ at + l \in Nat /\ Len(b) \in Nat
      BY <1>8, <1>11
    <3>2. Len(s) = n
      BY <1>1
    <3>3. Len(e) = l + Len(b)
      BY <1>8, <1>11, ConcatCells DEF e
    <3> QED  BY <3>1, <3>2, <3>3
  <2>6. c.ok /\ c.next = at + l /\ c.val = n
    <3> HIDE DEF c
    <3> QED  BY <2>3 DEF Read
  <2> HIDE DEF c
  <2>7. Decode(p, at, "qids") = ReadQids(p, at + l, s)
    BY <2>4, <2>6
  <2> DEFINE a == at + l
  <2> HIDE DEF s, l
  <2>8. Has(p, a, FlattenSeq(y)) /\ a \in Nat
    BY <2>2, <2>5 DEF b
  <2> HIDE DEF a
  <2>9. ReadQids(p, a, s) = Read(v, a + Len(FlattenSeq(y)))
    <3>1. Len(s) = Len(v) /\ Len(y) = Len(v) /\ \A i \in 1..Len(v) : y[i] = QidWire(v[i])
      BY <1>4, <1>6, <2>5 DEF n
    <3>2. v \in Seq(Qids) /\ y \in Seq(Seq(Nat))
      BY <1>1, <1>11
    <3> QED  BY <2>8, <3>1, <3>2, QidsRead, Zenon
  <2>10. (at + l) + Len(b) = at + (l + Len(b))
    <3> DEFINE k == Len(b)
    <3>1. k \in Nat
      BY <2>5
    <3> HIDE DEF k
    <3>2. (at + l) + k = at + (l + k)
      BY <2>5, <3>1
    <3> QED  BY <3>2 DEF k
  <2> QED  BY <2>5, <2>7, <2>9, <2>10 DEF a, b
<1> QED  BY <1>12, <1>13

(* Every field is read back as it was written. *)
LEMMA FieldRead ==
  ASSUME NEW kind \in Kinds, NEW v, IsValue(kind, v)
  PROVE  /\ Encode(kind, v) \in Seq(Seq(Nat))
         /\ \A p \in Seq(Nat), at \in Nat :
              Has(p, at, Wire(kind, v)) => Decode(p, at, kind) = Read(v, at + Len(Wire(kind, v)))
<1>1. kind \in Integer \/ kind = "str" \/ kind = "data" \/ kind = "path" \/ kind = "qids"
  BY DEF Kinds, Integer
<1>2. CASE kind \in Integer
  BY <1>2, IntLeaf, Zenon
<1>3. CASE kind = "str"
  BY <1>3, StrLeaf, Zenon
<1>4. CASE kind = "data"
  BY <1>4, DataLeaf, Zenon
<1>5. CASE kind = "path"
  BY <1>5, PathLeaf, Zenon
<1>6. CASE kind = "qids"
  BY <1>6, QidListLeaf, Zenon
<1> QED  BY <1>1, <1>2, <1>3, <1>4, <1>5, <1>6, Zenon

Keys(leaves, n) == {leaves[i].key : i \in 1..n}

LEMMA HasValuesLemma ==
  ASSUME NEW leaves, NEW val, HasValues(leaves, val)
  PROVE  /\ Len(leaves) \in Nat /\ DOMAIN leaves = 1..Len(leaves)
         /\ \A i \in 1..Len(leaves) :
              leaves[i].kind \in Kinds /\ IsValue(leaves[i].kind, val[leaves[i].key])
<1> DEFINE L == [key : DOMAIN val, kind : Kinds]
<1>1. leaves \in Seq(L) /\ \A i \in DOMAIN leaves : IsValue(leaves[i].kind, val[leaves[i].key])
  BY DEF HasValues
<1>2. \A l \in L : l.kind \in Kinds
  OBVIOUS
<1> HIDE DEF L
<1>3. Len(leaves) \in Nat /\ DOMAIN leaves = 1..Len(leaves) /\ \A i \in 1..Len(leaves) : leaves[i] \in L
  BY <1>1
<1> QED  BY <1>1, <1>2, <1>3

(* y: the bytes of each field of a message *)
OnWire(leaves, val, y) ==
  /\ y \in Seq(Seq(Nat)) /\ Len(y) = Len(leaves)
  /\ \A i \in 1..Len(leaves) : y[i] = Wire(leaves[i].kind, val[leaves[i].key])
  /\ FlattenSeq(EncodeAll(leaves, val)) = FlattenSeq(y)

LEMMA MessageWire ==
  ASSUME NEW leaves, NEW val, HasValues(leaves, val)
  PROVE  /\ EncodeAll(leaves, val) \in Seq(Seq(Nat))
         /\ \E y : OnWire(leaves, val, y)
<1> DEFINE n == Len(leaves)
           z == [i \in DOMAIN leaves |-> Encode(leaves[i].kind, val[leaves[i].key])]
           y == [i \in DOMAIN z |-> FlattenSeq(z[i])]
<1>1. /\ n \in Nat /\ DOMAIN leaves = 1..n
      /\ \A i \in 1..n : leaves[i].kind \in Kinds /\ IsValue(leaves[i].kind, val[leaves[i].key])
  BY HasValuesLemma
<1>2. /\ DOMAIN z = 1..n /\ DOMAIN y = 1..n
      /\ \A i \in 1..n : z[i] = Encode(leaves[i].kind, val[leaves[i].key]) /\ y[i] = FlattenSeq(z[i])
  BY <1>1, Zenon
<1>3. z = [i \in 1..n |-> z[i]] /\ y = [i \in 1..n |-> y[i]]
  BY <1>1, Zenon
<1>4. y = [i \in DOMAIN z |-> FlattenSeq(z[i])] /\ EncodeAll(leaves, val) = FlattenSeq(z)
  BY Zenon DEF EncodeAll
<1> HIDE DEF n, z, y
<1>5. \A i \in 1..n : z[i] \in Seq(Seq(Nat)) /\ y[i] = Wire(leaves[i].kind, val[leaves[i].key])
  <2>1. ASSUME NEW i \in 1..n
        PROVE  z[i] \in Seq(Seq(Nat)) /\ y[i] = Wire(leaves[i].kind, val[leaves[i].key])
    <3> DEFINE kind == leaves[i].kind
               v == val[leaves[i].key]
    <3>1. kind \in Kinds /\ IsValue(kind, v) /\ z[i] = Encode(kind, v) /\ y[i] = FlattenSeq(z[i])
      BY <1>1, <1>2
    <3> HIDE DEF kind, v
    <3>2. Encode(kind, v) \in Seq(Seq(Nat))
      BY <3>1, FieldRead
    <3> QED  BY <3>1, <3>2 DEF Wire, kind, v
  <2> QED  BY <2>1
<1>6. z \in Seq(Seq(Seq(Nat)))
  BY <1>1, <1>3, <1>5
<1>7. y \in Seq(Seq(Nat)) /\ FlattenSeq(FlattenSeq(z)) = FlattenSeq(y)
  BY <1>4, <1>6, FlattenTwice
<1>8. Len(y) = n
  BY <1>1, <1>2, <1>7
<1>9. FlattenSeq(z) \in Seq(Seq(Nat))
  BY <1>6, FlattenType
<1>10. OnWire(leaves, val, y)
  BY <1>4, <1>5, <1>7, <1>8 DEF OnWire, n
<1> QED  BY <1>4, <1>9, <1>10

(* Decoder >> undoes Encoder <<: fields in any order, of any of the types  *)
(* the two know, with any value the type can hold, are read back, and the  *)
(* reader stops where they end, whatever follows in the buffer.            *)
THEOREM CodecRoundTrip ==
  ASSUME NEW leaves, NEW val, HasValues(leaves, val), NEW p \in Seq(Nat),
         Has(p, 0, FlattenSeq(EncodeAll(leaves, val)))
  PROVE  DecodeAll(p, leaves) = Read([k \in Keys(leaves, Len(leaves)) |-> val[k]],
                                     Len(FlattenSeq(EncodeAll(leaves, val))))
<1> DEFINE n == Len(leaves)
           w == FlattenSeq(EncodeAll(leaves, val))
           m(i) == [k \in Keys(leaves, i) |-> val[k]]
<1>1. /\ n \in Nat
      /\ \A i \in 1..n : leaves[i].kind \in Kinds /\ IsValue(leaves[i].kind, val[leaves[i].key])
  BY HasValuesLemma
<1>2. PICK y : /\ y \in Seq(Seq(Nat)) /\ Len(y) = n /\ w = FlattenSeq(y)
               /\ \A i \in 1..n : y[i] = Wire(leaves[i].kind, val[leaves[i].key])
  <2>1. \E y : OnWire(leaves, val, y)
    BY MessageWire
  <2> QED  BY <2>1 DEF OnWire
<1> HIDE DEF n, w
<1>3. PICK pos : /\ pos \in [0..n -> Nat] /\ pos[0] = 0 /\ pos[n] = 0 + Len(FlattenSeq(y))
                 /\ \A i \in 1..n : pos[i] = pos[i - 1] + Len(y[i]) /\ Has(p, pos[i - 1], y[i])
  <2>1. Has(p, 0, FlattenSeq(y)) /\ 0 \in Nat
    BY <1>2 DEF w
  <2>2. \E pos \in [0..Len(y) -> Nat] :
           /\ pos[0] = 0
           /\ pos[Len(y)] = 0 + Len(FlattenSeq(y))
           /\ \A i \in 1..Len(y) : pos[i] = pos[i - 1] + Len(y[i]) /\ Has(p, pos[i - 1], y[i])
    BY <1>2, <2>1, HasPieces
  <2> QED  BY <1>2, <2>2
<1>4. PICK f : /\ f[0] = Unread
               /\ \A i \in 1..n : f[i] = ReadOn(p, f[i - 1], leaves[i])
               /\ DecodeAll(p, leaves) = f[n]
  <2>1. \E f : DecodeRun(p, leaves, f)
    BY <1>1, DecodeLemma DEF n
  <2> QED  BY <2>1 DEF DecodeRun, n
<1> DEFINE S == {i \in 0..n : f[i] = Read(m(i), pos[i])}
<1>5. 0 \in S
  <2>1. 0 \in 0..n /\ Keys(leaves, 0) = {}
    BY <1>1 DEF Keys
  <2>2. m(0) = << >>
    BY <2>1
  <2> QED  BY <1>3, <1>4, <2>1, <2>2 DEF Unread, Read
<1>6. ASSUME NEW i \in 1..n, i - 1 \in S  PROVE i \in S
  <2> DEFINE l == leaves[i]
             kind == l.kind
             key == l.key
             v == val[key]
             a == pos[i - 1]
             q == m(i - 1)
  <2>1. i \in 0..n /\ i - 1 \in 0..n /\ f[i - 1] = Read(q, a)
    BY <1>1, <1>6
  <2>2. a \in Nat /\ pos[i] = a + Len(Wire(kind, v)) /\ Has(p, a, Wire(kind, v))
        /\ kind \in Kinds /\ IsValue(kind, v)
    BY <1>1, <1>2, <1>3, <2>1
  <2>3. f[i] = ReadOn(p, Read(q, a), l)
    BY <1>4, <2>1
  <2>4. Keys(leaves, i) = Keys(leaves, i - 1) \cup {key}
    <3>1. 1..i = 1..(i - 1) \cup {i}
      OBVIOUS
    <3> QED  BY <3>1, Zenon DEF Keys
  <2>5. With(q, key, v) = m(i)
    BY <2>4 DEF With
  <2>7. l.kind = kind /\ l.key = key
    OBVIOUS
  <2> HIDE DEF l, kind, key, v, a, q, m
  <2>6. ReadOn(p, Read(q, a), l) = Read(With(q, key, v), a + Len(Wire(kind, v)))
    <3> DEFINE r == Decode(p, a, kind)
               e == a + Len(Wire(kind, v))
    <3>1. r = Read(v, e)
      BY <2>2, FieldRead
    <3> HIDE DEF r, e
    <3>2. ReadOn(p, Read(q, a), l) = [ok |-> r.ok, next |-> r.next, val |-> With(q, key, r.val)]
      BY <2>7 DEF ReadOn, Read, r
    <3>3. ReadOn(p, Read(q, a), l) = Read(With(q, key, v), e)
      BY <3>1, <3>2 DEF Read
    <3> QED  BY <3>3 DEF e
  <2> QED  BY <2>1, <2>2, <2>3, <2>5, <2>6
<1>7. \A i \in 0..n : i \in S
  <2> HIDE DEF S
  <2> QED  BY <1>1, <1>5, <1>6, BoundedInduction
<1>8. f[n] = Read(m(n), pos[n])
  <2>1. n \in 0..n
    BY <1>1
  <2> QED  BY <1>7, <2>1
<1>9. 0 + Len(FlattenSeq(y)) = Len(w)
  <2>1. FlattenSeq(y) \in Seq(Nat)
    BY <1>2, FlattenType
  <2>2. Len(FlattenSeq(y)) \in Nat
    BY <2>1
  <2> QED  BY <1>2, <2>2
<1> QED  BY <1>3, <1>4, <1>8, <1>9 DEF n, w

-----------------------------------------------------------------------------
(* Sequences of bytes                                                      *)

LEMMA ElementLemma ==
  ASSUME NEW b \in Seq(Nat)
  PROVE  \A i \in 1..Len(b) : b[i] \in Nat
OBVIOUS

LEMMA FunctionLemma ==
  ASSUME NEW b \in Seq(Nat)
  PROVE  b \in [1..Len(b) -> Nat]
OBVIOUS

LEMMA U32ValueLemma ==
  ASSUME NEW b \in Seq(Nat), Len(b) = 4
  PROVE  U32Value(b) \in Nat
<1>1. b[1] \in Nat /\ b[2] \in Nat /\ b[3] \in Nat /\ b[4] \in Nat /\ Base \in Nat
  <2>1. \A i \in 1..Len(b) : b[i] \in Nat
    BY ElementLemma
  <2>2. 1 \in 1..4 /\ 2 \in 1..4 /\ 3 \in 1..4 /\ 4 \in 1..4
    OBVIOUS
  <2>3. Base \in Nat
    BY BaseAssumption
  <2> QED  BY <2>1, <2>2, <2>3, Zenon
<1>2. \A i, j \in Nat : i + Base * j \in Nat
  <2>1. \A k, j \in Nat : k * j \in Nat
    OBVIOUS
  <2>2. \A i, k \in Nat : i + k \in Nat
    OBVIOUS
  <2> QED  BY <1>1, <2>1, <2>2, Zenon
<1>3. b[3] + Base * b[4] \in Nat
  BY <1>1, <1>2
<1>4. b[2] + Base * (b[3] + Base * b[4]) \in Nat
  BY <1>1, <1>2, <1>3
<1>5. b[1] + Base * (b[2] + Base * (b[3] + Base * b[4])) \in Nat
  BY <1>1, <1>2, <1>4
<1> QED  BY <1>5 DEF U32Value

LEMMA ReadIntLemma ==
  ASSUME NEW p \in Seq(Nat), NEW i \in Nat
  PROVE  /\ ReadInt(p, i, "u32").ok = (i + 4 <= Len(p))
         /\ ReadInt(p, i, "u32").next = i + 4
         /\ i + 4 <= Len(p) => ReadInt(p, i, "u32").val = U32Value(SubSeq(p, i + 1, i + 4))
         /\ ReadInt(p, i, "u8").ok = (i + 1 <= Len(p))
         /\ ReadInt(p, i, "u8").next = i + 1
         /\ i + 1 <= Len(p) => ReadInt(p, i, "u8").val = SubSeq(p, i + 1, i + 1)[1]
         /\ ReadInt(p, i, "u16").ok = (i + 2 <= Len(p))
         /\ ReadInt(p, i, "u16").next = i + 2
         /\ i + 2 <= Len(p) => ReadInt(p, i, "u16").val = U16Value(SubSeq(p, i + 1, i + 2))
<1>1. Width["u32"] = 4 /\ Width["u8"] = 1 /\ Width["u16"] = 2
  BY DEF Width
<1>2. \A b : /\ IntValue("u32", b) = U32Value(b)
             /\ IntValue("u8", b) = b[1]
             /\ IntValue("u16", b) = U16Value(b)
  BY DEF IntValue
<1> QED  BY <1>1, <1>2 DEF ReadInt, ReadBytes

-----------------------------------------------------------------------------
(* Headers                                                                 *)

(* parseMessageHeader looks at seven bytes.                                *)
LEMMA ParseHeaderLemma ==
  ASSUME NEW b \in Seq(Nat)
  PROVE  /\ ~(7 <= Len(b)) => parseMessageHeader(b) = [err |-> "NoData"]
         /\ 7 <= Len(b) =>
              /\ U32Value(SubSeq(b, 1, 4)) \in Nat
              /\ parseMessageHeader(b) =
                   IF U32Value(SubSeq(b, 1, 4)) < 7
                   THEN [err |-> "IllFormedHeader_FrameTooShort"]
                   ELSE [err |-> "none", messageSize |-> U32Value(SubSeq(b, 1, 4)),
                         type |-> SubSeq(b, 5, 5)[1], tag |-> U16Value(SubSeq(b, 6, 7))]
<1> DEFINE size == ReadInt(b, 0, "u32")
           type == ReadInt(b, size.next, "u8")
           tag  == ReadInt(b, type.next, "u16")
<1>1. size.next = 4 /\ (7 <= Len(b) => size.val = U32Value(SubSeq(b, 1, 4)))
  <2>1. 0 \in Nat /\ 0 + 4 = 4 /\ 0 + 1 = 1 /\ (7 <= Len(b) => 4 <= Len(b))
    OBVIOUS
  <2> QED  BY <2>1, ReadIntLemma, Zenon
<1>2. type.next = 5 /\ (7 <= Len(b) => type.val = SubSeq(b, 5, 5)[1])
  <2>1. 4 \in Nat /\ 4 + 1 = 5 /\ (7 <= Len(b) => 5 <= Len(b))
    OBVIOUS
  <2> QED  BY <1>1, <2>1, ReadIntLemma, Zenon
<1>3. tag.ok = (7 <= Len(b)) /\ (7 <= Len(b) => tag.val = U16Value(SubSeq(b, 6, 7)))
  <2>1. 5 \in Nat /\ 5 + 1 = 6 /\ 5 + 2 = 7
    OBVIOUS
  <2> QED  BY <1>2, <2>1, ReadIntLemma, Zenon
<1>4. headerSize = 7
  BY DEF headerSize
<1>5. parseMessageHeader(b) =
        IF ~tag.ok THEN [err |-> "NoData"]
        ELSE IF size.val < headerSize THEN [err |-> "IllFormedHeader_FrameTooShort"]
        ELSE [err |-> "none", messageSize |-> size.val, type |-> type.val, tag |-> tag.val]
  BY DEF parseMessageHeader
<1> HIDE DEF size, type, tag
<1>6. ASSUME 7 <= Len(b)  PROVE U32Value(SubSeq(b, 1, 4)) \in Nat
  <2>1. SubSeq(b, 1, 4) \in Seq(Nat) /\ Len(SubSeq(b, 1, 4)) = 4
    BY <1>6
  <2> QED  BY <2>1, U32ValueLemma
<1> QED  BY <1>1, <1>2, <1>3, <1>4, <1>5, <1>6

LEMMA SameHeader ==
  ASSUME NEW b \in Seq(Nat), NEW c \in Seq(Nat), 7 <= Len(b), 7 <= Len(c),
         \A i \in 1..7 : b[i] = c[i]
  PROVE  parseMessageHeader(b) = parseMessageHeader(c)
<1>1. SubSeq(b, 1, 4) = SubSeq(c, 1, 4)
  OBVIOUS
<1>2. SubSeq(b, 5, 5) = SubSeq(c, 5, 5)
  OBVIOUS
<1>3. SubSeq(b, 6, 7) = SubSeq(c, 6, 7)
  OBVIOUS
<1> QED  BY <1>1, <1>2, <1>3, ParseHeaderLemma, Zenon

(* What a header can be                                                    *)
LEMMA HeaderCases ==
  ASSUME NEW b \in Seq(Nat)
  PROVE  LET h == parseMessageHeader(b)
         IN  /\ h.err \in {"none", "NoData", "IllFormedHeader_FrameTooShort"}
             /\ h.err = "none" =>
                  h.messageSize \in Nat /\ 7 <= h.messageSize /\ 7 <= Len(b)
<1>1. CASE ~(7 <= Len(b))
  <2>1. parseMessageHeader(b) = [err |-> "NoData"]
    BY <1>1, ParseHeaderLemma
  <2> QED  BY <2>1
<1>2. CASE 7 <= Len(b)
  <2> DEFINE n == U32Value(SubSeq(b, 1, 4))
  <2>1. /\ n \in Nat
        /\ parseMessageHeader(b) =
             IF n < 7 THEN [err |-> "IllFormedHeader_FrameTooShort"]
             ELSE [err |-> "none", messageSize |-> n,
                   type |-> SubSeq(b, 5, 5)[1], tag |-> U16Value(SubSeq(b, 6, 7))]
    BY <1>2, ParseHeaderLemma
  <2> HIDE DEF n
  <2>2. CASE n < 7
    BY <2>1, <2>2
  <2>3. CASE ~(n < 7)
    BY <1>2, <2>1, <2>3
  <2> QED  BY <2>2, <2>3
<1> QED  BY <1>1, <1>2

(* The errors of a parser that was given as much as the header says        *)
LEMMA ParseErrors ==
  ASSUME NEW parser, NEW h, NEW payload, h.messageSize \in Nat, 7 <= h.messageSize,
         Len(payload) = h.messageSize - 7,
         parser.max \in Nat, h.messageSize <= 7 + parser.max, 7 + parser.max < U32Range
  PROVE  parseBody(parser, h, payload).err \in {"none", "NoData", "UnsupportedMessageType"}
<1>1. (7 + parser.max) % U32Range = 7 + parser.max
  BY SmallMod
<1>2. maxMessageSize(parser) = 7 + parser.max
  BY <1>1 DEF maxMessageSize, headerSize
<1>3. validateHeader(h, Len(payload), maxMessageSize(parser)) = "none"
  BY <1>2 DEF validateHeader, payloadSize, headerSize
<1>4. \A v, d, n, p : DecodeAs(v, d, n, p).err \in {"none", "NoData"}
  BY DEF DecodeAs, Accepted, Rejected
<1> QED  BY <1>3, <1>4 DEF parseBody, Rejected

(* A byte of a part of a message                                           *)
LEMMA WindowLemma ==
  ASSUME NEW b \in Seq(Nat), NEW p \in Nat, NEW n \in Nat, p + n <= Len(b), NEW i \in 1..n
  PROVE  SubSeq(b, p + 1, p + n)[i] = b[p + i]
OBVIOUS

(* Cutting a sequence                                                      *)
LEMMA PartIs ==
  ASSUME NEW s \in Seq(Nat), NEW p \in Nat, NEW a \in Seq(Nat), p + Len(a) <= Len(s),
         \A i \in 1..Len(a) : s[p + i] = a[i]
  PROVE  SubSeq(s, p + 1, p + Len(a)) = a
<1> DEFINE n == Len(a)
           t == SubSeq(s, p + 1, p + n)
<1>1. n \in Nat /\ p + n <= Len(s)
  OBVIOUS
<1>2. t \in Seq(Nat) /\ Len(t) = n
  BY <1>1
<1>3. \A i \in 1..n : t[i] = a[i]
  BY <1>1, WindowLemma
<1> HIDE DEF t
<1>4. t = [i \in 1..Len(t) |-> t[i]] /\ a = [i \in 1..Len(a) |-> a[i]]
  BY <1>2
<1>5. t = a
  BY <1>2, <1>3, <1>4
<1> QED  BY <1>5 DEF t

LEMMA TwoParts ==
  ASSUME NEW a \in Seq(Nat), NEW b \in Seq(Nat)
  PROVE  /\ \A i \in 1..Len(a) : (a \o b)[i] = a[i]
         /\ \A i \in 1..Len(b) : (a \o b)[Len(a) + i] = b[i]
OBVIOUS

LEMMA ThreeParts ==
  ASSUME NEW a \in Seq(Nat), NEW b \in Seq(Nat), NEW c \in Seq(Nat),
         Len(a) = 4, Len(b) = 1, Len(c) = 2
  PROVE  /\ \A i \in 1..4 : ((a \o b) \o c)[0 + i] = a[i]
         /\ ((a \o b) \o c)[5] = b[1]
         /\ \A i \in 1..2 : ((a \o b) \o c)[5 + i] = c[i]
<1> DEFINE d == a \o b
           e == d \o c
<1>1. d \in Seq(Nat) /\ Len(d) = Len(a) + Len(b)
  BY ConcatLemma, Zenon
<1>2. /\ \A i \in 1..Len(a) : d[i] = a[i]
      /\ \A i \in 1..Len(b) : d[Len(a) + i] = b[i]
  BY TwoParts, Zenon
<1>3. /\ \A i \in 1..Len(d) : e[i] = d[i]
      /\ \A i \in 1..Len(c) : e[Len(d) + i] = c[i]
  BY <1>1, TwoParts, Zenon
<1> HIDE DEF d, e
<1>4. Len(d) = 5
  BY <1>1
<1>5. \A i \in 1..4 : 0 + i = i /\ i \in 1..5
  OBVIOUS
<1>6. 5 \in 1..5
  OBVIOUS
<1>7. \A i \in 1..4 : e[0 + i] = a[i]
  BY <1>2, <1>3, <1>4, <1>5, Zenon
<1>8. e[5] = b[1]
  <2>1. 1 \in 1..Len(b) /\ Len(a) + 1 = 5
    OBVIOUS
  <2>2. d[Len(a) + 1] = b[1]
    BY <1>2, <2>1, Zenon
  <2>3. e[5] = d[5]
    BY <1>3, <1>4, <1>6, Zenon
  <2> QED  BY <2>1, <2>2, <2>3, Zenon
<1>9. \A i \in 1..2 : e[5 + i] = c[i]
  BY <1>3, <1>4, Zenon
<1> QED  BY <1>7, <1>8, <1>9 DEF d, e

(* The bytes of a header, one by one                                       *)
LEMMA HeaderCells ==
  ASSUME NEW h \in Headers
  PROVE  /\ SubSeq(HeaderBytes(h), 1, 4) = U32Bytes(h.messageSize)
         /\ SubSeq(HeaderBytes(h), 5, 5)[1] = h.type
         /\ SubSeq(HeaderBytes(h), 6, 7) = U16Bytes(h.tag)
<1> DEFINE a == U32Bytes(h.messageSize)
           c == U16Bytes(h.tag)
<1>1. a \in Seq(Nat) /\ Len(a) = 4 /\ c \in Seq(Nat) /\ Len(c) = 2 /\ h.type \in Nat
  BY HeaderBytesLemma DEF Headers
<1>2. HeaderBytes(h) = (a \o <<h.type>>) \o c
  BY DEF HeaderBytes
<1> HIDE DEF a, c
<1>3. /\ <<h.type>> \in Seq(Nat) /\ Len(<<h.type>>) = 1 /\ <<h.type>>[1] = h.type
      /\ HeaderBytes(h) \in Seq(Nat) /\ Len(HeaderBytes(h)) = 7
  BY <1>1, HeaderBytesLemma
<1> DEFINE b == <<h.type>>
           s == HeaderBytes(h)
<1> HIDE DEF b, s
<1>4. /\ \A i \in 1..4 : s[0 + i] = a[i]
      /\ s[5] = b[1]
      /\ \A i \in 1..2 : s[5 + i] = c[i]
  <2>1. b \in Seq(Nat) /\ Len(b) = 1 /\ s = (a \o b) \o c
    BY <1>2, <1>3 DEF b, s
  <2>2. /\ \A i \in 1..4 : ((a \o b) \o c)[0 + i] = a[i]
        /\ ((a \o b) \o c)[5] = b[1]
        /\ \A i \in 1..2 : ((a \o b) \o c)[5 + i] = c[i]
    BY <1>1, <2>1, ThreeParts, Zenon
  <2> QED  BY <2>1, <2>2, Zenon
<1>5. SubSeq(s, 0 + 1, 0 + 4) = a
  BY <1>1, <1>3, <1>4, PartIs DEF s
<1>6. SubSeq(s, 5 + 1, 5 + 2) = c
  BY <1>1, <1>3, <1>4, PartIs DEF s
<1>7. SubSeq(s, 4 + 1, 4 + 1)[1] = s[4 + 1]
  <2>1. s \in Seq(Nat) /\ 4 \in Nat /\ 1 \in Nat /\ 4 + 1 <= Len(s) /\ 1 \in 1..1
    BY <1>3 DEF s
  <2> QED  BY <2>1, WindowLemma, Zenon
<1>8. 0 + 1 = 1 /\ 0 + 4 = 4 /\ 4 + 1 = 5 /\ 5 + 1 = 6 /\ 5 + 2 = 7
  OBVIOUS
<1> QED  BY <1>3, <1>4, <1>5, <1>6, <1>7, <1>8, Zenon DEF a, b, c, s

(* parseMessageHeader undoes Encoder << MessageHeader.                     *)
LEMMA HeaderRoundTrip ==
  ASSUME NEW h \in Headers, h.messageSize < U32Range, 7 <= h.messageSize, h.tag < U16Range
  PROVE  parseMessageHeader(HeaderBytes(h)) =
           [err |-> "none", messageSize |-> h.messageSize, type |-> h.type, tag |-> h.tag]
<1> DEFINE b == HeaderBytes(h)
<1>1. b \in Seq(Nat) /\ Len(b) = 7 /\ h.messageSize \in Nat /\ h.tag \in Nat
  BY HeaderBytesLemma DEF Headers
<1>2. U32Value(SubSeq(b, 1, 4)) = h.messageSize
  BY <1>1, HeaderCells, U32RoundTrip
<1>3. U16Value(SubSeq(b, 6, 7)) = h.tag
  BY <1>1, HeaderCells, U16RoundTrip
<1>4. SubSeq(b, 5, 5)[1] = h.type
  BY HeaderCells
<1> HIDE DEF b
<1>5. parseMessageHeader(b) =
        IF U32Value(SubSeq(b, 1, 4)) < 7
        THEN [err |-> "IllFormedHeader_FrameTooShort"]
        ELSE [err |-> "none", messageSize |-> U32Value(SubSeq(b, 1, 4)),
              type |-> SubSeq(b, 5, 5)[1], tag |-> U16Value(SubSeq(b, 6, 7))]
  <2>1. 7 <= Len(b)
    BY <1>1
  <2> QED  BY <1>1, <2>1, ParseHeaderLemma
<1>6. ~(h.messageSize < 7)
  BY <1>1
<1> QED  BY <1>2, <1>3, <1>4, <1>5, <1>6 DEF b

LEMMA BodySize ==
  ASSUME NEW b \in Seq(Nat), 7 <= Len(b)
  PROVE  Len(SubSeq(b, 7 + 1, Len(b))) \in Nat /\ 7 + Len(SubSeq(b, 7 + 1, Len(b))) = Len(b)
<1>1. Len(b) \in Nat
  OBVIOUS
<1>2. \A n \in Nat : n <= Len(b) => Len(SubSeq(b, n + 1, Len(b))) = Len(b) - n
  OBVIOUS
<1>3. Len(SubSeq(b, 7 + 1, Len(b))) = Len(b) - 7
  BY <1>2, Zenon
<1> DEFINE l == Len(SubSeq(b, 7 + 1, Len(b)))
           m == Len(b)
<1> HIDE DEF l, m
<1>4. l = m - 7 /\ m \in Nat /\ 7 <= m
  BY <1>1, <1>3 DEF l, m
<1>5. l \in Nat /\ 7 + l = m
  BY <1>4
<1> QED  BY <1>5 DEF l, m

(* The cells behind the header                                             *)
LEMMA BodyCells ==
  ASSUME NEW d \in Seq(Nat), 7 <= Len(d)
  PROVE  LET p == SubSeq(d, 7 + 1, Len(d))
         IN  /\ p \in Seq(Nat) /\ Len(p) \in Nat /\ 7 + Len(p) = Len(d)
             /\ \A i \in 1..Len(p) : p[i] = d[7 + i]
<1> DEFINE p == SubSeq(d, 7 + 1, Len(d))
           m == Len(d)
           n == Len(p)
<1>1. p \in Seq(Nat)
  OBVIOUS
<1>2. n \in Nat /\ 7 + n = m
  BY BodySize
<1>3. m \in Nat /\ 7 \in Nat
  OBVIOUS
<1>4. ASSUME NEW i \in 1..n  PROVE p[i] = d[7 + i]
  <2>1. SubSeq(d, 7 + 1, 7 + n)[i] = d[7 + i]
    <3>1. 7 + n <= Len(d) /\ n \in Nat /\ i \in 1..n /\ 7 \in Nat
      <4> HIDE DEF n
      <4> QED  BY <1>2, <1>3 DEF m
    <3> HIDE DEF n
    <3> QED  BY <3>1, WindowLemma
  <2>2. SubSeq(d, 7 + 1, 7 + n) = p
    <3> HIDE DEF n
    <3> QED  BY <1>2, Zenon
  <2> HIDE DEF p
  <2> QED  BY <2>1, <2>2, Zenon
<1> QED  BY <1>1, <1>2, <1>4, Zenon

(* validateHeader lets a message of its size pass.                         *)
LEMMA RightSize ==
  ASSUME NEW h, NEW n \in Nat, NEW max \in Nat, h.messageSize = 7 + n, h.messageSize <= max
  PROVE  validateHeader(h, n, max) = "none"
BY HeaderSizeLemma DEF validateHeader, payloadSize

-----------------------------------------------------------------------------
(* The fields of a message, put together from parts                        *)

PathWire(v) == [i \in DOMAIN v |-> Sized(v[i])]

LEMMA StrWire ==
  ASSUME NEW v, IsValue("str", v)
  PROVE  Wire("str", v) = U16Bytes(Len(v)) \o v
<1>1. v \in Strings
  BY DEF IsValue
<1>2. Encode("str", v) = EncodeString(v)
  BY EncodeKinds
<1>3. FlattenSeq(EncodeString(v)) = Sized(v)
  BY <1>1, StringWire
<1>4. EncodeInt("u16", Len(v)) = U16Bytes(Len(v))
  BY DEF EncodeInt
<1> QED  BY <1>2, <1>3, <1>4 DEF Wire, Sized

LEMMA DataWire ==
  ASSUME NEW v, IsValue("data", v)
  PROVE  Wire("data", v) = U32Bytes(Len(v)) \o v
<1>1. v \in Seq(Nat) /\ Len(v) \in Nat
  BY DEF IsValue
<1>2. U32Bytes(Len(v)) \in Seq(Nat)
  BY <1>1, U32BytesLemma
<1>3. Encode("data", v) = <<U32Bytes(Len(v)), v>>
  BY EncodeKinds
<1>4. FlattenSeq(<<U32Bytes(Len(v)), v>>) = U32Bytes(Len(v)) \o v
  <2> DEFINE h == U32Bytes(Len(v))
  <2> HIDE DEF h
  <2>1. h \in Seq(Nat)
    BY <1>2 DEF h
  <2>2. FlattenSeq(<<h, v>>) = h \o v
    BY <1>1, <2>1, FlattenTwo
  <2> QED  BY <2>2 DEF h
<1> QED  BY <1>3, <1>4, Zenon DEF Wire

LEMMA PathWireLemma ==
  ASSUME NEW v, IsValue("path", v)
  PROVE  /\ Wire("path", v) = U16Bytes(Len(v)) \o FlattenSeq(PathWire(v))
         /\ PathWire(v) \in Seq(Seq(Nat)) /\ FlattenSeq(PathWire(v)) \in Seq(Nat)
<1> DEFINE n == Len(v)
           h == U16Bytes(n)
           z == [i \in DOMAIN v |-> EncodeString(v[i])]
           y == PathWire(v)
<1>1. v \in Seq(Strings) /\ n \in Nat /\ DOMAIN v = 1..n /\ \A i \in 1..n : v[i] \in Strings
  BY DEF IsValue
<1>2. DOMAIN z = 1..n /\ \A i \in 1..n : z[i] = EncodeString(v[i])
  BY <1>1, Zenon
<1>3. z = [i \in 1..n |-> z[i]]
  BY <1>1, Zenon
<1>4. Encode("path", v) = <<h>> \o FlattenSeq(z)
  BY EncodeKinds
<1>5. h \in Seq(Nat)
  BY <1>1, U16BytesLemma
<1>6. y = [i \in 1..n |-> Sized(v[i])]
  BY <1>1, Zenon DEF PathWire
<1> HIDE DEF z, h, n, y
<1>7. \A i \in 1..n : z[i] \in Seq(Seq(Nat)) /\ FlattenSeq(z[i]) = Sized(v[i])
  <2>1. ASSUME NEW i \in 1..n  PROVE z[i] \in Seq(Seq(Nat)) /\ FlattenSeq(z[i]) = Sized(v[i])
    <3>1. v[i] \in Strings /\ z[i] = EncodeString(v[i])
      BY <1>1, <1>2
    <3> QED  BY <3>1, StringWire
  <2> QED  BY <2>1
<1>8. z \in Seq(Seq(Seq(Nat)))
  BY <1>1, <1>3, <1>7
<1>9. y = [i \in DOMAIN z |-> FlattenSeq(z[i])]
  BY <1>2, <1>6, <1>7
<1>10. /\ FlattenSeq(<<h>> \o FlattenSeq(z)) = h \o FlattenSeq(y)
       /\ y \in Seq(Seq(Nat)) /\ FlattenSeq(y) \in Seq(Nat)
  BY <1>5, <1>8, <1>9, CountedWire
<1> QED  BY <1>4, <1>10 DEF Wire, h, n, y

(* The values count at the fields only.                                    *)
LEMMA EncodeAllSame ==
  ASSUME NEW leaves, NEW val, NEW w, \A i \in DOMAIN leaves : w[leaves[i].key] = val[leaves[i].key]
  PROVE  EncodeAll(leaves, w) = EncodeAll(leaves, val)
BY DEF EncodeAll

LEMMA EncodeAllParts ==
  ASSUME NEW a, NEW b, NEW val, HasValues(a, val), HasValues(b, val)
  PROVE  /\ HasValues(a \o b, val)
         /\ FlattenSeq(EncodeAll(a \o b, val)) = FlattenSeq(EncodeAll(a, val)) \o FlattenSeq(EncodeAll(b, val))
<1> DEFINE L == [key : DOMAIN val, kind : Kinds]
           m == Len(a)
           n == Len(b)
           c == a \o b
           x(s) == [i \in DOMAIN s |-> Encode(s[i].kind, val[s[i].key])]
<1>1. a \in Seq(L) /\ b \in Seq(L)
  BY DEF HasValues
<1>2. /\ m \in Nat /\ DOMAIN a = 1..m /\ n \in Nat /\ DOMAIN b = 1..n
      /\ \A i \in 1..m : a[i].kind \in Kinds /\ IsValue(a[i].kind, val[a[i].key])
      /\ \A i \in 1..n : b[i].kind \in Kinds /\ IsValue(b[i].kind, val[b[i].key])
  BY HasValuesLemma
<1> HIDE DEF L
<1>3. /\ c \in Seq(L) /\ Len(c) = Len(a) + Len(b)
      /\ \A i \in 1..Len(a) : c[i] = a[i]
      /\ \A i \in 1..Len(b) : c[Len(a) + i] = b[i]
  BY <1>1, ConcatCells
<1>4. DOMAIN c = 1..(m + n)
  <2> HIDE DEF c
  <2> QED  BY <1>3
<1> HIDE DEF c, m, n
<1>5. \A i \in 1..(m + n) : i \in 1..m \/ (i - m \in 1..n /\ i = m + (i - m))
  BY <1>2
<1>6. \A i \in 1..(m + n) : c[i].kind \in Kinds /\ IsValue(c[i].kind, val[c[i].key])
  BY <1>2, <1>3, <1>5 DEF m, n
<1>7. HasValues(c, val)
  BY <1>3, <1>4, <1>6 DEF HasValues, L
<1>8. x(a) \in Seq(Seq(Seq(Nat))) /\ x(b) \in Seq(Seq(Seq(Nat))) /\ x(c) \in Seq(Seq(Seq(Nat)))
  <2>1. ASSUME NEW s, NEW k \in Nat, DOMAIN s = 1..k,
               \A i \in 1..k : s[i].kind \in Kinds /\ IsValue(s[i].kind, val[s[i].key])
        PROVE  x(s) \in Seq(Seq(Seq(Nat)))
    <3> DEFINE e == x(s)
    <3>1. e = [i \in 1..k |-> Encode(s[i].kind, val[s[i].key])]
      BY <2>1, Zenon
    <3>2. \A i \in 1..k : Encode(s[i].kind, val[s[i].key]) \in Seq(Seq(Nat))
      BY <2>1, FieldRead
    <3> HIDE DEF e
    <3>3. e \in [1..k -> Seq(Seq(Nat))]
      BY <3>1, <3>2
    <3>4. e \in Seq(Seq(Seq(Nat)))
      BY <3>3
    <3> QED  BY <3>4 DEF e
  <2>2. m + n \in Nat
    BY <1>2
  <2> HIDE DEF x
  <2> QED  BY <1>2, <1>4, <1>6, <2>1, <2>2
<1>9. x(c) = x(a) \o x(b)
  <2> DEFINE xa == x(a)
             xb == x(b)
             xc == x(c)
             d == xa \o xb
  <2>1. /\ DOMAIN xa = 1..m /\ \A i \in 1..m : xa[i] = Encode(a[i].kind, val[a[i].key])
        /\ DOMAIN xb = 1..n /\ \A i \in 1..n : xb[i] = Encode(b[i].kind, val[b[i].key])
        /\ DOMAIN xc = 1..(m + n) /\ \A i \in 1..(m + n) : xc[i] = Encode(c[i].kind, val[c[i].key])
    BY <1>2, <1>4, Zenon
  <2>2. xa \in Seq(Seq(Seq(Nat))) /\ xb \in Seq(Seq(Seq(Nat))) /\ xc \in Seq(Seq(Seq(Nat)))
    BY <1>8
  <2> HIDE DEF xa, xb, xc
  <2>3. Len(xa) = m /\ Len(xb) = n /\ Len(xc) = m + n
    BY <1>2, <2>1, <2>2
  <2>4. /\ d \in Seq(Seq(Seq(Nat))) /\ Len(d) = Len(xa) + Len(xb)
        /\ \A i \in 1..Len(xa) : d[i] = xa[i]
        /\ \A i \in 1..Len(xb) : d[Len(xa) + i] = xb[i]
    BY <2>2, ConcatCells
  <2> HIDE DEF d
  <2>5. \A i \in 1..m : c[i] = a[i]
    BY <1>3 DEF m
  <2>6. \A i \in 1..n : c[m + i] = b[i]
    BY <1>3 DEF m, n
  <2>7. ASSUME NEW i \in 1..(m + n)  PROVE xc[i] = d[i]
    <3>1. CASE i \in 1..m
      BY <2>1, <2>3, <2>4, <2>5, <3>1
    <3>2. CASE i - m \in 1..n /\ i = m + (i - m)
      <4>1. c[i] = b[i - m] /\ d[i] = xb[i - m]
        BY <2>3, <2>4, <2>6, <3>2
      <4> QED  BY <2>1, <3>2, <4>1
    <3> QED  BY <1>5, <3>1, <3>2
  <2>8. xc = [i \in 1..Len(xc) |-> xc[i]] /\ d = [i \in 1..Len(d) |-> d[i]]
    BY <2>2, <2>4
  <2>9. xc = d
    BY <2>3, <2>4, <2>7, <2>8
  <2> QED  BY <2>9 DEF xa, xb, xc, d
<1>10. EncodeAll(a, val) = FlattenSeq(x(a)) /\ EncodeAll(b, val) = FlattenSeq(x(b)) /\ EncodeAll(c, val) = FlattenSeq(x(c))
  BY DEF EncodeAll
<1> DEFINE xa == x(a)
           xb == x(b)
<1>11. xa \in Seq(Seq(Seq(Nat))) /\ xb \in Seq(Seq(Seq(Nat))) /\ EncodeAll(a, val) = FlattenSeq(xa)
       /\ EncodeAll(b, val) = FlattenSeq(xb) /\ EncodeAll(c, val) = FlattenSeq(xa \o xb)
  BY <1>8, <1>9, <1>10
<1> HIDE DEF x, xa, xb
<1>12. FlattenSeq(xa \o xb) = FlattenSeq(xa) \o FlattenSeq(xb)
  BY <1>11, FlattenConcat
<1>13. FlattenSeq(xa) \in Seq(Seq(Nat)) /\ FlattenSeq(xb) \in Seq(Seq(Nat))
  BY <1>11, FlattenType
<1>14. FlattenSeq(FlattenSeq(xa) \o FlattenSeq(xb)) = FlattenSeq(FlattenSeq(xa)) \o FlattenSeq(FlattenSeq(xb))
  BY <1>13, FlattenConcat
<1> QED  BY <1>7, <1>11, <1>12, <1>14, Zenon DEF c

LEMMA OneLeaf ==
  ASSUME NEW val, NEW key \in DOMAIN val, NEW kind \in Kinds, IsValue(kind, val[key])
  PROVE  /\ HasValues(Leaf(key, kind), val)
         /\ FlattenSeq(EncodeAll(Leaf(key, kind), val)) = Wire(kind, val[key])
<1> DEFINE s == Leaf(key, kind)
           e == Encode(kind, val[key])
<1>1. s \in Seq([key : DOMAIN val, kind : Kinds]) /\ DOMAIN s = {1} /\ s[1].key = key /\ s[1].kind = kind
  BY DEF Leaf
<1> HIDE DEF s
<1>2. HasValues(s, val)
  BY <1>1 DEF HasValues
<1>3. e \in Seq(Seq(Nat))
  BY FieldRead
<1>4. EncodeAll(s, val) = FlattenSeq([i \in {1} |-> e])
  BY <1>1 DEF EncodeAll
<1> HIDE DEF e
<1>5. [i \in {1} |-> e] = <<e>>
  <2>1. <<e>> = [i \in 1..1 |-> e]
    OBVIOUS
  <2>2. 1..1 = {1}
    OBVIOUS
  <2> QED  BY <2>1, <2>2, Zenon
<1>6. EncodeAll(s, val) = e
  BY <1>3, <1>4, <1>5, FlattenOne
<1> QED  BY <1>2, <1>6 DEF s, e, Wire

(* val is the value of a struct with these fields.                         *)
IsStruct(leaves, val) ==
  HasValues(leaves, val) /\ val = [k \in Keys(leaves, Len(leaves)) |-> val[k]]

LEMMA LargerSet ==
  ASSUME NEW S, NEW T, S \subseteq T, NEW s \in Seq(S)
  PROVE  s \in Seq(T)
<1>1. s \in [1..Len(s) -> S] /\ Len(s) \in Nat
  OBVIOUS
<1>2. s \in [1..Len(s) -> T]
  BY <1>1
<1> QED  BY <1>1, <1>2

(* None of these fields has the name.                                      *)
Fresh(leaves, key) == \A i \in DOMAIN leaves : leaves[i].key # key

(* One more field behind the others                                        *)
LEMMA AddField ==
  ASSUME NEW a, NEW val, IsStruct(a, val), NEW key, NEW kind \in Kinds,
         NEW v, IsValue(kind, v), Fresh(a, key)
  PROVE  /\ IsStruct(a \o Leaf(key, kind), With(val, key, v))
         /\ FlattenSeq(EncodeAll(a \o Leaf(key, kind), With(val, key, v)))
              = FlattenSeq(EncodeAll(a, val)) \o Wire(kind, v)
<1> DEFINE w == With(val, key, v)
           l == Leaf(key, kind)
           b == a \o l
           n == Len(a)
           L == [key : DOMAIN w, kind : Kinds]
<1>1. /\ n \in Nat /\ DOMAIN a = 1..n /\ HasValues(a, val)
      /\ val = [k \in Keys(a, n) |-> val[k]]
  BY HasValuesLemma DEF IsStruct
<1>2. key \notin Keys(a, n) /\ \A i \in 1..n : a[i].key \in Keys(a, n) /\ a[i].key # key
  BY <1>1 DEF Keys, Fresh
<1>3. DOMAIN val = Keys(a, n)
  BY <1>1
<1>4. w = [k \in Keys(a, n) \cup {key} |-> IF k \in Keys(a, n) THEN val[k] ELSE v]
  BY <1>3 DEF With
<1>5. w[key] = v /\ \A i \in 1..n : w[a[i].key] = val[a[i].key]
  BY <1>2, <1>4
<1>6. w = [k \in Keys(a, n) \cup {key} |-> w[k]]
  BY <1>4
<1>0. DOMAIN val \subseteq DOMAIN w /\ key \in DOMAIN w
  BY <1>3, <1>4
<1> HIDE DEF w
<1>7. HasValues(a, w) /\ EncodeAll(a, w) = EncodeAll(a, val)
  <2>1. \A i \in DOMAIN a : w[a[i].key] = val[a[i].key]
    BY <1>1, <1>5
  <2>2. HasValues(a, w)
    <3>1. a \in Seq([key : DOMAIN val, kind : Kinds])
      BY <1>1 DEF HasValues
    <3>2. [key : DOMAIN val, kind : Kinds] \subseteq [key : DOMAIN w, kind : Kinds]
      BY <1>0
    <3>3. a \in Seq([key : DOMAIN w, kind : Kinds])
      BY <3>1, <3>2, LargerSet
    <3> QED  BY <1>1, <2>1, <3>3 DEF HasValues
  <2> QED  BY <2>1, <2>2, EncodeAllSame
<1>8. HasValues(l, w) /\ FlattenSeq(EncodeAll(l, w)) = Wire(kind, v)
  <2>1. key \in DOMAIN w /\ IsValue(kind, w[key])
    BY <1>0, <1>5
  <2>2. HasValues(l, w) /\ FlattenSeq(EncodeAll(l, w)) = Wire(kind, w[key])
    BY <2>1, OneLeaf
  <2> QED  BY <1>5, <2>2
<1>9. l \in Seq(L) /\ Len(l) = 1 /\ l[1].key = key
  BY <1>0 DEF Leaf
<1>10. a \in Seq(L)
  BY <1>7 DEF HasValues
<1> HIDE DEF l, L, n
<1>11. /\ HasValues(b, w)
       /\ FlattenSeq(EncodeAll(b, w)) = FlattenSeq(EncodeAll(a, w)) \o FlattenSeq(EncodeAll(l, w))
  <2>1. HasValues(a, w) /\ HasValues(l, w)
    BY <1>7, <1>8
  <2> QED  BY <2>1, EncodeAllParts
<1>12. Keys(b, Len(b)) = Keys(a, n) \cup {key}
  <2>1. /\ Len(b) = Len(a) + Len(l)
        /\ \A i \in 1..Len(a) : b[i] = a[i]
        /\ \A i \in 1..Len(l) : b[Len(a) + i] = l[i]
    <3>1. a \in Seq(L) /\ l \in Seq(L)
      BY <1>9, <1>10
    <3> QED  BY <3>1, ConcatCells
  <2> HIDE DEF b
  <2>2. Len(b) = n + 1 /\ (\A i \in 1..n : b[i] = a[i]) /\ b[n + 1] = l[1]
    BY <1>1, <1>9, <2>1 DEF n
  <2>3. 1..(n + 1) = 1..n \cup {n + 1}
    BY <1>1
  <2>4. Keys(b, n + 1) = {b[i].key : i \in 1..n} \cup {b[n + 1].key}
    BY <2>3, Zenon DEF Keys
  <2>5. {b[i].key : i \in 1..n} = Keys(a, n)
    BY <2>2 DEF Keys
  <2> QED  BY <1>9, <2>2, <2>4, <2>5
<1> HIDE DEF b
<1>13. w = [k \in Keys(b, Len(b)) |-> w[k]]
  BY <1>6, <1>12
<1>14. IsStruct(b, w)
  BY <1>11, <1>13 DEF IsStruct
<1>15. FlattenSeq(EncodeAll(b, w)) = FlattenSeq(EncodeAll(a, val)) \o Wire(kind, v)
  BY <1>7, <1>8, <1>11
<1> QED  BY <1>14, <1>15 DEF b, l, w

(* A struct, and its bytes                                                 *)
IsWritten(leaves, val, bytes) ==
  IsStruct(leaves, val) /\ FlattenSeq(EncodeAll(leaves, val)) = bytes

LEMMA AddedIsWritten ==
  ASSUME NEW a, NEW val, NEW key, NEW kind, NEW v,
         IsStruct(a, val), kind \in Kinds, IsValue(kind, v), Fresh(a, key)
  PROVE  IsWritten(a \o Leaf(key, kind), With(val, key, v),
                   FlattenSeq(EncodeAll(a, val)) \o Wire(kind, v))
<1>1. IsStruct(a \o Leaf(key, kind), With(val, key, v))
  BY AddField
<1>2. FlattenSeq(EncodeAll(a \o Leaf(key, kind), With(val, key, v)))
        = FlattenSeq(EncodeAll(a, val)) \o Wire(kind, v)
  BY AddField
<1> QED  BY <1>1, <1>2, Zenon DEF IsWritten

LEMMA Extended ==
  ASSUME NEW a, NEW val, NEW f, NEW key, NEW kind, NEW v,
         IsWritten(a, val, f), kind \in Kinds, IsValue(kind, v), Fresh(a, key)
  PROVE  IsWritten(a \o Leaf(key, kind), With(val, key, v), f \o Wire(kind, v))
<1>1. IsStruct(a, val) /\ FlattenSeq(EncodeAll(a, val)) = f
  BY DEF IsWritten
<1>2. IsWritten(a \o Leaf(key, kind), With(val, key, v),
                FlattenSeq(EncodeAll(a, val)) \o Wire(kind, v))
  BY <1>1, AddedIsWritten
<1> QED  BY <1>1, <1>2, Zenon

(* A struct that Encoder wrote field by field is what decode of            *)
(* parse_helper.hpp makes of the bytes: the same fields, the same values   *)
(* and no others, whatever follows.                                        *)
THEOREM StructRoundTrip ==
  ASSUME NEW leaves, NEW val, IsStruct(leaves, val), NEW p \in Seq(Nat),
         Has(p, 0, FlattenSeq(EncodeAll(leaves, val)))
  PROVE  DecodeAll(p, leaves) = Read(val, Len(FlattenSeq(EncodeAll(leaves, val))))
<1>1. HasValues(leaves, val) /\ val = [k \in Keys(leaves, Len(leaves)) |-> val[k]]
  BY DEF IsStruct
<1>2. DecodeAll(p, leaves) = Read([k \in Keys(leaves, Len(leaves)) |-> val[k]],
                                  Len(FlattenSeq(EncodeAll(leaves, val))))
  BY <1>1, CodecRoundTrip
<1> QED  BY <1>1, <1>2, Zenon

(* The struct that was written is the struct that is read.                 *)
LEMMA StructAccepted ==
  ASSUME NEW ver, NEW dir, NEW name, NEW val, NEW b,
         IsWritten(DecLeaves[ver][dir][name], val, b), NEW p \in Seq(Nat), Has(p, 0, b)
  PROVE  DecodeAs(ver, dir, name, p) = Accepted(name, val)
<1> DEFINE leaves == DecLeaves[ver][dir][name]
<1>1. IsStruct(leaves, val) /\ Has(p, 0, FlattenSeq(EncodeAll(leaves, val)))
  BY DEF IsWritten
<1>2. DecodeAll(p, leaves) = Read(val, Len(FlattenSeq(EncodeAll(leaves, val))))
  <2> HIDE DEF leaves
  <2> QED  BY <1>1, StructRoundTrip
<1>3. DecodeAll(p, leaves).ok = TRUE /\ DecodeAll(p, leaves).val = val
  <2> HIDE DEF leaves
  <2> QED  BY <1>2 DEF Read
<1> QED  BY <1>3, Zenon DEF DecodeAs
==============================================================================
