-------------------------- MODULE DirReadingProofs --------------------------
(***************************************************************************)
(* Proofs for DirReading, for every directory, whatever the values of the  *)
(* entries, and for all counts and buffers.                                *)
(*                                                                         *)
(* protocolSize(Stat) is shown to be the number of bytes Encoder << Stat   *)
(* writes (StatSize), so the offsets a client asks for are the boundaries  *)
(* DirListingWriter meets; the answer under construction is shown to be a  *)
(* Read response with the bytes of consecutive entries at any time         *)
(* (AnswerIs), and the client to find those entries in it (StatsRead).     *)
(***************************************************************************)
EXTENDS DirReading, DirListingProofs, CodecProofs

LOCAL INSTANCE SequencesExt

-----------------------------------------------------------------------------
(* How many bytes a Stat takes *)

(* The bytes of an entry                                                   *)
StatBytes(stat) == FlattenSeq(EncodeAll(StatFields(EncNested), stat))

Bytes(leaves, val) == FlattenSeq(EncodeAll(leaves, val))

(* How many bytes a field takes                                            *)
LEMMA WireSize ==
  ASSUME NEW kind, NEW v, IsValue(kind, v)
  PROVE  /\ kind \in Integer => Wire(kind, v) \in Seq(Nat) /\ Len(Wire(kind, v)) = Width[kind]
         /\ kind = "str" => /\ Wire(kind, v) \in Seq(Nat) /\ Len(v) \in Nat
                            /\ Len(Wire(kind, v)) = protocolSizeString(v)
<1>1. ASSUME kind \in Integer
      PROVE  Wire(kind, v) \in Seq(Nat) /\ Len(Wire(kind, v)) = Width[kind]
  <2>1. EncodeInt(kind, v) \in Seq(Nat) /\ Len(EncodeInt(kind, v)) = Width[kind]
    BY <1>1, IntBytes
  <2>2. Wire(kind, v) = EncodeInt(kind, v)
    <3>1. FlattenSeq(<<EncodeInt(kind, v)>>) = EncodeInt(kind, v)
      BY <2>1, FlattenOne
    <3>2. Encode(kind, v) = <<EncodeInt(kind, v)>>
      BY <1>1, EncodeKinds
    <3> QED  BY <3>1, <3>2, Zenon DEF Wire
  <2> QED  BY <2>1, <2>2, Zenon
<1>2. ASSUME kind = "str"
      PROVE  /\ Wire(kind, v) \in Seq(Nat) /\ Len(v) \in Nat
             /\ Len(Wire(kind, v)) = protocolSizeString(v)
  <2>1. Wire("str", v) = U16Bytes(Len(v)) \o v
    BY <1>2, StrWire
  <2>0. v \in Strings
    BY <1>2, Zenon DEF IsValue
  <2>2. v \in Seq(Nat) /\ Len(v) \in Nat
    BY <2>0 DEF Strings
  <2>3. U16Bytes(Len(v)) \in Seq(Nat) /\ Len(U16Bytes(Len(v))) = 2
    BY <2>2, U16BytesLemma
  <2> DEFINE b == U16Bytes(Len(v))
  <2> HIDE DEF b
  <2>4. b \o v \in Seq(Nat) /\ Len(b \o v) = 2 + Len(v)
    BY <2>2, <2>3, ConcatLemma DEF b
  <2> QED  BY <1>2, <2>1, <2>2, <2>4, Zenon DEF b, protocolSizeString
<1> QED  BY <1>1, <1>2

(* A struct and one more field                                             *)
Known(a, val, n) ==
  HasValues(a, val) /\ Bytes(a, val) \in Seq(Nat) /\ n \in Nat /\ Len(Bytes(a, val)) = n

IsField(key, kind, val) == key \in DOMAIN val /\ kind \in Kinds /\ IsValue(kind, val[key])

(* One more field adds as many bytes as its type, or its string, takes.    *)
LEMMA OneMore ==
  ASSUME NEW a, NEW val, NEW n, Known(a, val, n), NEW key, NEW kind, IsField(key, kind, val)
  PROVE  /\ kind \in Integer => Known(a \o Leaf(key, kind), val, n + Width[kind])
         /\ kind = "str" => Known(a \o Leaf(key, kind), val, n + protocolSizeString(val[key]))
<1> DEFINE b == Leaf(key, kind)
           w == Wire(kind, val[key])
           x == Bytes(a, val)
<1>1. HasValues(b, val) /\ FlattenSeq(EncodeAll(b, val)) = w
  BY OneLeaf DEF IsField
<1>2. HasValues(a, val) /\ x \in Seq(Nat) /\ n \in Nat /\ Len(x) = n
  BY DEF Known
<1> HIDE DEF b, w
<1>3. HasValues(a \o b, val) /\ Bytes(a \o b, val) = x \o w
  BY <1>1, <1>2, EncodeAllParts DEF Bytes
<1> HIDE DEF x
<1>4. ASSUME NEW m \in Nat, w \in Seq(Nat), Len(w) = m
      PROVE  Known(a \o b, val, n + m)
  <2>1. x \o w \in Seq(Nat) /\ Len(x \o w) = Len(x) + Len(w)
    BY <1>2, <1>4, ConcatLemma, Zenon
  <2>2. n + m \in Nat
    BY <1>2, <1>4
  <2> QED  BY <1>2, <1>3, <1>4, <2>1, <2>2, Zenon DEF Known
<1>5. IsValue(kind, val[key])
  BY DEF IsField
<1>6. CASE kind \in Integer
  <2>1. w \in Seq(Nat) /\ Len(w) = Width[kind]
    BY <1>5, <1>6, WireSize DEF w
  <2>2. Width[kind] \in Nat
    BY <1>6 DEF Width, Integer
  <2>3. kind # "str"
    BY <1>6 DEF Integer
  <2> QED  BY <1>4, <2>1, <2>2, <2>3, Zenon DEF b
<1>7. CASE kind = "str"
  <2>1. w \in Seq(Nat) /\ Len(w) = protocolSizeString(val[key]) /\ Len(val[key]) \in Nat
    BY <1>5, <1>7, WireSize DEF w
  <2>2. protocolSizeString(val[key]) \in Nat
    BY <2>1 DEF protocolSizeString
  <2>3. kind \notin Integer
    BY <1>7 DEF Integer
  <2> QED  BY <1>4, <1>7, <2>1, <2>2, <2>3, Zenon DEF b
<1> QED  BY <1>6, <1>7

(* ... of each of the widths                                               *)
LEMMA OneMoreInt ==
  ASSUME NEW a, NEW val, NEW n, Known(a, val, n), NEW key, NEW kind, IsField(key, kind, val)
  PROVE  /\ kind = "u8"  => Known(a \o Leaf(key, kind), val, n + 1)
         /\ kind = "u16" => Known(a \o Leaf(key, kind), val, n + 2)
         /\ kind = "u32" => Known(a \o Leaf(key, kind), val, n + 4)
         /\ kind = "u64" => Known(a \o Leaf(key, kind), val, n + 8)
<1>1. kind \in Integer => Known(a \o Leaf(key, kind), val, n + Width[kind])
  BY OneMore
<1>2. /\ kind = "u8" => kind \in Integer /\ Width[kind] = 1
      /\ kind = "u16" => kind \in Integer /\ Width[kind] = 2
      /\ kind = "u32" => kind \in Integer /\ Width[kind] = 4
      /\ kind = "u64" => kind \in Integer /\ Width[kind] = 8
  BY DEF Integer, Width
<1> QED  BY <1>1, <1>2, Zenon

(* The last field of a struct                                              *)
LEMMA LastField ==
  ASSUME NEW T, NEW a \in Seq(T), NEW key, NEW kind, [key |-> key, kind |-> kind] \in T,
         NEW val, HasValues(a \o Leaf(key, kind), val)
  PROVE  /\ HasValues(a, val) /\ IsField(key, kind, val)
         /\ a \o Leaf(key, kind) \in Seq(T)
<1> DEFINE L == [key : DOMAIN val, kind : Kinds]
           b == Leaf(key, kind)
           m == Len(a)
           c == a \o b
<1>1. b \in Seq(T) /\ Len(b) = 1 /\ b[1] = [key |-> key, kind |-> kind]
  BY DEF Leaf
<1> HIDE DEF b
<1>2. /\ c \in Seq(T) /\ Len(c) = Len(a) + Len(b)
      /\ \A i \in 1..Len(a) : c[i] = a[i]
      /\ \A i \in 1..Len(b) : c[Len(a) + i] = b[i]
  BY <1>1, ConcatCells
<1>3. c \in Seq(L) /\ \A i \in DOMAIN c : IsValue(c[i].kind, val[c[i].key])
  BY DEF HasValues, b
<1> HIDE DEF c, L
<1>4. m \in Nat /\ Len(c) = m + 1 /\ DOMAIN c = 1..(m + 1) /\ m + 1 \in 1..(m + 1)
  BY <1>1, <1>2, <1>3
<1>5. /\ \A i \in 1..m : a[i] = c[i] /\ a[i] \in L /\ IsValue(a[i].kind, val[a[i].key])
  BY <1>2, <1>3, <1>4
<1>6. a = [i \in 1..m |-> a[i]] /\ DOMAIN a = 1..m
  OBVIOUS
<1>7. a \in Seq(L)
  BY <1>4, <1>5, <1>6
<1>8. HasValues(a, val)
  BY <1>5, <1>6, <1>7, Zenon DEF HasValues, L
<1>9. c[m + 1] = [key |-> key, kind |-> kind]
  <2>1. 1 \in 1..Len(b)
    BY <1>1
  <2> QED  BY <1>1, <1>2, <2>1
<1>10. c[m + 1] \in L /\ IsValue(c[m + 1].kind, val[c[m + 1].key])
  BY <1>3, <1>4
<1>11. key \in DOMAIN val /\ kind \in Kinds /\ IsValue(kind, val[key])
  BY <1>9, <1>10 DEF L
<1> QED  BY <1>2, <1>8, <1>11, Zenon DEF IsField, b, c

(* ... and a struct of one field                                           *)
LEMMA FirstField ==
  ASSUME NEW T, NEW key, NEW kind, [key |-> key, kind |-> kind] \in T,
         NEW val, HasValues(Leaf(key, kind), val)
  PROVE  Leaf(key, kind) \in Seq(T) /\ IsField(key, kind, val)
<1> DEFINE b == Leaf(key, kind)
           L == [key : DOMAIN val, kind : Kinds]
<1>1. b \in Seq(T) /\ Len(b) = 1 /\ b[1] = [key |-> key, kind |-> kind] /\ DOMAIN b = {1}
  BY DEF Leaf
<1>2. b \in Seq(L) /\ \A i \in DOMAIN b : IsValue(b[i].kind, val[b[i].key])
  BY DEF HasValues
<1> HIDE DEF b, L
<1>3. b[1] \in L /\ IsValue(b[1].kind, val[b[1].key])
  <2>1. 1 \in DOMAIN b /\ 1 \in 1..Len(b)
    BY <1>1
  <2>2. b[1] \in L
    BY <1>2, <2>1
  <2> QED  BY <1>2, <2>1, <2>2, Zenon
<1>4. key \in DOMAIN val /\ kind \in Kinds /\ IsValue(kind, val[key])
  BY <1>1, <1>3 DEF L
<1> QED  BY <1>1, <1>4, Zenon DEF IsField, b

(* The leaves of a Stat up to the first, the second, ... of them           *)
P1 == Leaf(<<"size">>, "u16")
P2 == P1 \o Leaf(<<"type">>, "u16")
P3 == P2 \o Leaf(<<"dev">>, "u32")
P4 == P3 \o Leaf(<<"qid", "type">>, "u8")
P5 == P4 \o Leaf(<<"qid", "version">>, "u32")
P6 == P5 \o Leaf(<<"qid", "path">>, "u64")
P7 == P6 \o Leaf(<<"mode">>, "u32")
P8 == P7 \o Leaf(<<"atime">>, "u32")
P9 == P8 \o Leaf(<<"mtime">>, "u32")
P10 == P9 \o Leaf(<<"length">>, "u64")
P11 == P10 \o Leaf(<<"name">>, "str")
P12 == P11 \o Leaf(<<"uid">>, "str")
P13 == P12 \o Leaf(<<"gid">>, "str")
P14 == P13 \o Leaf(<<"muid">>, "str")

StatKeys == {<<"size">>, <<"type">>, <<"dev">>, <<"qid", "type">>, <<"qid", "version">>,
             <<"qid", "path">>, <<"mode">>, <<"atime">>, <<"mtime">>, <<"length">>, <<"name">>,
             <<"uid">>, <<"gid">>, <<"muid">>}

StatLeaf == [key : StatKeys, kind : Kinds]

(* Leaves of a Stat, from the first one on                                 *)
Begins(a) ==
  a \in Seq(StatLeaf) /\ 1 <= Len(a) /\ a[1] = [key |-> <<"size">>, kind |-> "u16"]

(* One more leaf                                                           *)
LEMMA LeafAdded ==
  ASSUME NEW a, Begins(a), NEW key \in StatKeys, NEW kind \in Kinds
  PROVE  Begins(a \o Leaf(key, kind))
<1> DEFINE b == Leaf(key, kind)
           c == a \o b
<1>1. b \in Seq(StatLeaf) /\ Len(b) = 1
  BY DEF Leaf, StatLeaf
<1>2. a \in Seq(StatLeaf) /\ Len(a) \in Nat /\ 1 <= Len(a) /\ 1 \in 1..Len(a)
  BY DEF Begins
<1> HIDE DEF b
<1>3. c \in Seq(StatLeaf) /\ Len(c) = Len(a) + Len(b) /\ \A i \in 1..Len(a) : c[i] = a[i]
  BY <1>1, <1>2, ConcatCells
<1> HIDE DEF c
<1>4. 1 <= Len(c)
  BY <1>1, <1>2, <1>3
<1>5. c[1] = a[1]
  BY <1>2, <1>3
<1> QED  BY <1>3, <1>4, <1>5, Zenon DEF Begins, b, c

(* ... which are written and read in one order.                            *)
LEMMA StatLeavesAre ==
  StatFields(EncNested) = P14 /\ StatFields(DecNested) = P14
BY StatAgrees DEF P1, P2, P3, P4, P5, P6, P7, P8, P9, P10, P11, P12, P13, P14

(* All of these begin with the size of the Stat.                           *)
LEMMA StatBegins ==
  /\ Begins(P1) /\ Begins(P2) /\ Begins(P3) /\ Begins(P4) /\ Begins(P5) /\ Begins(P6)
  /\ Begins(P7) /\ Begins(P8) /\ Begins(P9) /\ Begins(P10) /\ Begins(P11) /\ Begins(P12)
  /\ Begins(P13) /\ Begins(P14)
<1>1. Begins(P1)
  BY DEF P1, Begins, Leaf, StatLeaf, StatKeys, Kinds
<1>2. Begins(P2)
  <2>1. <<"type">> \in StatKeys /\ "u16" \in Kinds
    BY DEF StatKeys, Kinds
  <2> QED  BY <1>1, <2>1, LeafAdded, Zenon DEF P2
<1>3. Begins(P3)
  <2>1. <<"dev">> \in StatKeys /\ "u32" \in Kinds
    BY DEF StatKeys, Kinds
  <2> QED  BY <1>2, <2>1, LeafAdded, Zenon DEF P3
<1>4. Begins(P4)
  <2>1. <<"qid", "type">> \in StatKeys /\ "u8" \in Kinds
    BY DEF StatKeys, Kinds
  <2> QED  BY <1>3, <2>1, LeafAdded, Zenon DEF P4
<1>5. Begins(P5)
  <2>1. <<"qid", "version">> \in StatKeys /\ "u32" \in Kinds
    BY DEF StatKeys, Kinds
  <2> QED  BY <1>4, <2>1, LeafAdded, Zenon DEF P5
<1>6. Begins(P6)
  <2>1. <<"qid", "path">> \in StatKeys /\ "u64" \in Kinds
    BY DEF StatKeys, Kinds
  <2> QED  BY <1>5, <2>1, LeafAdded, Zenon DEF P6
<1>7. Begins(P7)
  <2>1. <<"mode">> \in StatKeys /\ "u32" \in Kinds
    BY DEF StatKeys, Kinds
  <2> QED  BY <1>6, <2>1, LeafAdded, Zenon DEF P7
<1>8. Begins(P8)
  <2>1. <<"atime">> \in StatKeys /\ "u32" \in Kinds
    BY DEF StatKeys, Kinds
  <2> QED  BY <1>7, <2>1, LeafAdded, Zenon DEF P8
<1>9. Begins(P9)
  <2>1. <<"mtime">> \in StatKeys /\ "u32" \in Kinds
    BY DEF StatKeys, Kinds
  <2> QED  BY <1>8, <2>1, LeafAdded, Zenon DEF P9
<1>10. Begins(P10)
  <2>1. <<"length">> \in StatKeys /\ "u64" \in Kinds
    BY DEF StatKeys, Kinds
  <2> QED  BY <1>9, <2>1, LeafAdded, Zenon DEF P10
<1>11. Begins(P11)
  <2>1. <<"name">> \in StatKeys /\ "str" \in Kinds
    BY DEF StatKeys, Kinds
  <2> QED  BY <1>10, <2>1, LeafAdded, Zenon DEF P11
<1>12. Begins(P12)
  <2>1. <<"uid">> \in StatKeys /\ "str" \in Kinds
    BY DEF StatKeys, Kinds
  <2> QED  BY <1>11, <2>1, LeafAdded, Zenon DEF P12
<1>13. Begins(P13)
  <2>1. <<"gid">> \in StatKeys /\ "str" \in Kinds
    BY DEF StatKeys, Kinds
  <2> QED  BY <1>12, <2>1, LeafAdded, Zenon DEF P13
<1>14. Begins(P14)
  <2>1. <<"muid">> \in StatKeys /\ "str" \in Kinds
    BY DEF StatKeys, Kinds
  <2> QED  BY <1>13, <2>1, LeafAdded, Zenon DEF P14
<1> QED  BY <1>1, <1>2, <1>3, <1>4, <1>5, <1>6, <1>7, <1>8, <1>9, <1>10, <1>11, <1>12, <1>13, <1>14

(* A Stat has a value for every one of them.                               *)
LEMMA StatFieldsKnown ==
  ASSUME NEW stat, HasValues(P14, stat)
  PROVE  /\ HasValues(P1, stat)
         /\ IsField(<<"size">>, "u16", stat)
         /\ IsField(<<"type">>, "u16", stat)
         /\ IsField(<<"dev">>, "u32", stat)
         /\ IsField(<<"qid", "type">>, "u8", stat)
         /\ IsField(<<"qid", "version">>, "u32", stat)
         /\ IsField(<<"qid", "path">>, "u64", stat)
         /\ IsField(<<"mode">>, "u32", stat)
         /\ IsField(<<"atime">>, "u32", stat)
         /\ IsField(<<"mtime">>, "u32", stat)
         /\ IsField(<<"length">>, "u64", stat)
         /\ IsField(<<"name">>, "str", stat)
         /\ IsField(<<"uid">>, "str", stat)
         /\ IsField(<<"gid">>, "str", stat)
         /\ IsField(<<"muid">>, "str", stat)
<1>1. ASSUME NEW a, Begins(a), NEW key \in StatKeys, NEW kind \in Kinds,
             HasValues(a \o Leaf(key, kind), stat)
      PROVE  HasValues(a, stat) /\ IsField(key, kind, stat)
  <2>1. a \in Seq(StatLeaf) /\ [key |-> key, kind |-> kind] \in StatLeaf
    BY <1>1 DEF Begins, StatLeaf
  <2> QED  BY <1>1, <2>1, LastField
<1>2. HasValues(P13, stat) /\ IsField(<<"muid">>, "str", stat)
  <2>1. <<"muid">> \in StatKeys /\ "str" \in Kinds
    BY DEF StatKeys, Kinds
  <2> QED  BY <1>1, <2>1, StatBegins, Zenon DEF P14
<1>3. HasValues(P12, stat) /\ IsField(<<"gid">>, "str", stat)
  <2>1. <<"gid">> \in StatKeys /\ "str" \in Kinds
    BY DEF StatKeys, Kinds
  <2> QED  BY <1>1, <1>2, <2>1, StatBegins, Zenon DEF P13
<1>4. HasValues(P11, stat) /\ IsField(<<"uid">>, "str", stat)
  <2>1. <<"uid">> \in StatKeys /\ "str" \in Kinds
    BY DEF StatKeys, Kinds
  <2> QED  BY <1>1, <1>3, <2>1, StatBegins, Zenon DEF P12
<1>5. HasValues(P10, stat) /\ IsField(<<"name">>, "str", stat)
  <2>1. <<"name">> \in StatKeys /\ "str" \in Kinds
    BY DEF StatKeys, Kinds
  <2> QED  BY <1>1, <1>4, <2>1, StatBegins, Zenon DEF P11
<1>6. HasValues(P9, stat) /\ IsField(<<"length">>, "u64", stat)
  <2>1. <<"length">> \in StatKeys /\ "u64" \in Kinds
    BY DEF StatKeys, Kinds
  <2> QED  BY <1>1, <1>5, <2>1, StatBegins, Zenon DEF P10
<1>7. HasValues(P8, stat) /\ IsField(<<"mtime">>, "u32", stat)
  <2>1. <<"mtime">> \in StatKeys /\ "u32" \in Kinds
    BY DEF StatKeys, Kinds
  <2> QED  BY <1>1, <1>6, <2>1, StatBegins, Zenon DEF P9
<1>8. HasValues(P7, stat) /\ IsField(<<"atime">>, "u32", stat)
  <2>1. <<"atime">> \in StatKeys /\ "u32" \in Kinds
    BY DEF StatKeys, Kinds
  <2> QED  BY <1>1, <1>7, <2>1, StatBegins, Zenon DEF P8
<1>9. HasValues(P6, stat) /\ IsField(<<"mode">>, "u32", stat)
  <2>1. <<"mode">> \in StatKeys /\ "u32" \in Kinds
    BY DEF StatKeys, Kinds
  <2> QED  BY <1>1, <1>8, <2>1, StatBegins, Zenon DEF P7
<1>10. HasValues(P5, stat) /\ IsField(<<"qid", "path">>, "u64", stat)
  <2>1. <<"qid", "path">> \in StatKeys /\ "u64" \in Kinds
    BY DEF StatKeys, Kinds
  <2> QED  BY <1>1, <1>9, <2>1, StatBegins, Zenon DEF P6
<1>11. HasValues(P4, stat) /\ IsField(<<"qid", "version">>, "u32", stat)
  <2>1. <<"qid", "version">> \in StatKeys /\ "u32" \in Kinds
    BY DEF StatKeys, Kinds
  <2> QED  BY <1>1, <1>10, <2>1, StatBegins, Zenon DEF P5
<1>12. HasValues(P3, stat) /\ IsField(<<"qid", "type">>, "u8", stat)
  <2>1. <<"qid", "type">> \in StatKeys /\ "u8" \in Kinds
    BY DEF StatKeys, Kinds
  <2> QED  BY <1>1, <1>11, <2>1, StatBegins, Zenon DEF P4
<1>13. HasValues(P2, stat) /\ IsField(<<"dev">>, "u32", stat)
  <2>1. <<"dev">> \in StatKeys /\ "u32" \in Kinds
    BY DEF StatKeys, Kinds
  <2> QED  BY <1>1, <1>12, <2>1, StatBegins, Zenon DEF P3
<1>14. HasValues(P1, stat) /\ IsField(<<"type">>, "u16", stat)
  <2>1. <<"type">> \in StatKeys /\ "u16" \in Kinds
    BY DEF StatKeys, Kinds
  <2> QED  BY <1>1, <1>13, <2>1, StatBegins, Zenon DEF P2
<1>15. IsField(<<"size">>, "u16", stat)
  <2>1. [key |-> <<"size">>, kind |-> "u16"] \in StatLeaf
    BY DEF StatLeaf, StatKeys, Kinds
  <2> QED  BY <1>14, <2>1, FirstField DEF P1
<1> QED  BY <1>2, <1>3, <1>4, <1>5, <1>6, <1>7, <1>8, <1>9, <1>10, <1>11, <1>12, <1>13, <1>14, <1>15, Zenon

(* protocolSize(Stat) is the number of bytes that Encoder << Stat writes.  *)
LEMMA StatSize ==
  ASSUME NEW stat, HasValues(StatFields(EncNested), stat)
  PROVE  /\ StatBytes(stat) \in Seq(Nat) /\ Len(StatBytes(stat)) = protocolSize(stat)
         /\ protocolSize(stat) \in Nat \ {0}
<1> DEFINE a == protocolSizeString(stat[<<"name">>])
           b == protocolSizeString(stat[<<"uid">>])
           c == protocolSizeString(stat[<<"gid">>])
           d == protocolSizeString(stat[<<"muid">>])
<1>0. /\ HasValues(P1, stat)
      /\ IsField(<<"size">>, "u16", stat)
      /\ IsField(<<"type">>, "u16", stat)
      /\ IsField(<<"dev">>, "u32", stat)
      /\ IsField(<<"qid", "type">>, "u8", stat)
      /\ IsField(<<"qid", "version">>, "u32", stat)
      /\ IsField(<<"qid", "path">>, "u64", stat)
      /\ IsField(<<"mode">>, "u32", stat)
      /\ IsField(<<"atime">>, "u32", stat)
      /\ IsField(<<"mtime">>, "u32", stat)
      /\ IsField(<<"length">>, "u64", stat)
      /\ IsField(<<"name">>, "str", stat)
      /\ IsField(<<"uid">>, "str", stat)
      /\ IsField(<<"gid">>, "str", stat)
      /\ IsField(<<"muid">>, "str", stat)
  BY StatLeavesAre, StatFieldsKnown, Zenon
<1>1. Known(P1, stat, 2)
  <2>1. FlattenSeq(EncodeAll(P1, stat)) = Wire("u16", stat[<<"size">>])
    BY <1>0, OneLeaf DEF IsField, P1
  <2>2. /\ Wire("u16", stat[<<"size">>]) \in Seq(Nat)
        /\ Len(Wire("u16", stat[<<"size">>])) = Width["u16"]
    BY <1>0, WireSize DEF IsField, Integer
  <2>3. Width["u16"] = 2 /\ 2 \in Nat
    BY DEF Width
  <2> QED  BY <1>0, <2>1, <2>2, <2>3, Zenon DEF Known, Bytes
<1>2. Known(P2, stat, 4)
  <2>1. Known(P2, stat, 2 + 2)
    BY <1>0, <1>1, OneMoreInt, Zenon DEF P2
  <2>2. 2 + 2 = 4
    OBVIOUS
  <2> QED  BY <2>1, <2>2, Zenon
<1>3. Known(P3, stat, 8)
  <2>1. Known(P3, stat, 4 + 4)
    BY <1>0, <1>2, OneMoreInt, Zenon DEF P3
  <2>2. 4 + 4 = 8
    OBVIOUS
  <2> QED  BY <2>1, <2>2, Zenon
<1>4. Known(P4, stat, 9)
  <2>1. Known(P4, stat, 8 + 1)
    BY <1>0, <1>3, OneMoreInt, Zenon DEF P4
  <2>2. 8 + 1 = 9
    OBVIOUS
  <2> QED  BY <2>1, <2>2, Zenon
<1>5. Known(P5, stat, 13)
  <2>1. Known(P5, stat, 9 + 4)
    BY <1>0, <1>4, OneMoreInt, Zenon DEF P5
  <2>2. 9 + 4 = 13
    OBVIOUS
  <2> QED  BY <2>1, <2>2, Zenon
<1>6. Known(P6, stat, 21)
  <2>1. Known(P6, stat, 13 + 8)
    BY <1>0, <1>5, OneMoreInt, Zenon DEF P6
  <2>2. 13 + 8 = 21
    OBVIOUS
  <2> QED  BY <2>1, <2>2, Zenon
<1>7. Known(P7, stat, 25)
  <2>1. Known(P7, stat, 21 + 4)
    BY <1>0, <1>6, OneMoreInt, Zenon DEF P7
  <2>2. 21 + 4 = 25
    OBVIOUS
  <2> QED  BY <2>1, <2>2, Zenon
<1>8. Known(P8, stat, 29)
  <2>1. Known(P8, stat, 25 + 4)
    BY <1>0, <1>7, OneMoreInt, Zenon DEF P8
  <2>2. 25 + 4 = 29
    OBVIOUS
  <2> QED  BY <2>1, <2>2, Zenon
<1>9. Known(P9, stat, 33)
  <2>1. Known(P9, stat, 29 + 4)
    BY <1>0, <1>8, OneMoreInt, Zenon DEF P9
  <2>2. 29 + 4 = 33
    OBVIOUS
  <2> QED  BY <2>1, <2>2, Zenon
<1>10. Known(P10, stat, 41)
  <2>1. Known(P10, stat, 33 + 8)
    BY <1>0, <1>9, OneMoreInt, Zenon DEF P10
  <2>2. 33 + 8 = 41
    OBVIOUS
  <2> QED  BY <2>1, <2>2, Zenon
<1>11. Known(P11, stat, 41 + a)
  BY <1>0, <1>10, OneMore, Zenon DEF P11
<1>12. Known(P12, stat, (41 + a) + b)
  BY <1>0, <1>11, OneMore, Zenon DEF P12
<1>13. Known(P13, stat, ((41 + a) + b) + c)
  BY <1>0, <1>12, OneMore, Zenon DEF P13
<1>14. Known(P14, stat, (((41 + a) + b) + c) + d)
  BY <1>0, <1>13, OneMore, Zenon DEF P14
<1>15. a \in Nat /\ b \in Nat /\ c \in Nat /\ d \in Nat
  <2>1. ASSUME NEW v, IsValue("str", v)  PROVE protocolSizeString(v) \in Nat
    <3>1. Len(v) \in Nat
      BY <2>1, WireSize
    <3> QED  BY <3>1 DEF protocolSizeString
  <2> QED  BY <1>0, <2>1, Zenon DEF IsField
<1>16. protocolSize(stat) = (((41 + a) + b) + c) + d
  <2>1. protocolSize(stat) = 2 + 2 + 4 + protocolSizeQid + 4 + 4 + 4 + 8 + a + b + c + d
    BY Zenon DEF protocolSize
  <2> HIDE DEF a, b, c, d
  <2> QED  BY <1>15, <2>1 DEF protocolSizeQid
<1>17. StatBytes(stat) = Bytes(P14, stat)
  BY StatLeavesAre, Zenon DEF StatBytes, Bytes
<1>18. StatBytes(stat) \in Seq(Nat) /\ Len(StatBytes(stat)) = protocolSize(stat)
  BY <1>14, <1>16, <1>17, Zenon DEF Known
<1> HIDE DEF a, b, c, d
<1>19. protocolSize(stat) \in Nat \ {0}
  BY <1>15, <1>16
<1> QED  BY <1>18, <1>19

-----------------------------------------------------------------------------
(* What the server writes *)

(* The chunks kept by WriteAll, one more                                   *)
KeptOn(s, b, c) == IF Fits(s, Len(b) + Len(c)) THEN b \o c ELSE b

KeptIs(s, x, n, k) == k = [i \in 0..n |-> IF i = 0 THEN <<>> ELSE KeptOn(s, k[i - 1], x[i])]

(* The recursive function of WriteAll, cell by cell                        *)
LEMMA KeptCells ==
  ASSUME NEW s, NEW x, NEW n \in Nat, NEW k, KeptIs(s, x, n, k)
  PROVE  k[0] = <<>> /\ \A i \in 1..n : k[i] = KeptOn(s, k[i - 1], x[i])
<1> DEFINE R(i) == IF i = 0 THEN <<>> ELSE KeptOn(s, k[i - 1], x[i])
<1>1. k = [i \in 0..n |-> R(i)]
  BY Zenon DEF KeptIs
<1>2. 0 \in 0..n /\ \A i \in 1..n : i \in 0..n /\ i # 0
  OBVIOUS
<1>3. \A i \in 0..n : k[i] = R(i)
  <2> HIDE DEF R
  <2> QED  BY <1>1
<1>4. k[0] = <<>>
  BY <1>2, <1>3, Zenon
<1>5. \A i \in 1..n : k[i] = KeptOn(s, k[i - 1], x[i])
  BY <1>2, <1>3, Zenon
<1> QED  BY <1>4, <1>5

(* Chunks for which there is room are written as one.                      *)
LEMMA WriteAllFits ==
  ASSUME NEW s, IsByteWriter(s), NEW x \in Seq(Seq(Nat)), s.pos + Len(FlattenSeq(x)) <= s.lim
  PROVE  WriteAll(s, x) = Write(s, FlattenSeq(x))
<1> DEFINE n == Len(x)
           p == FlattenSeq(x)
           h == CHOOSE k : KeptIs(s, x, n, k)
<1>1. n \in Nat /\ \A i \in 1..n : x[i] \in Seq(Nat)
  OBVIOUS
<1>2. PICK f \in [0..n -> Seq(Nat)] :
           /\ f[0] = <<>>
           /\ \A i \in 1..n : f[i] = f[i - 1] \o x[i]
           /\ p = f[n]
  BY FlattenLemma
<1>3. s.pos \in Nat /\ s.lim \in Nat
  BY DEF IsByteWriter
<1>4. \A i \in 1..n : i \in 0..n /\ i - 1 \in 0..n
  BY <1>1
<1>5. \A i \in 1..n : Len(f[i]) = Len(f[i - 1]) + Len(x[i])
  <2> SUFFICES ASSUME NEW i \in 1..n  PROVE Len(f[i]) = Len(f[i - 1]) + Len(x[i])
    OBVIOUS
  <2>1. f[i - 1] \in Seq(Nat) /\ x[i] \in Seq(Nat) /\ f[i] = f[i - 1] \o x[i]
    BY <1>1, <1>2, <1>4
  <2> QED  BY <2>1, ConcatLemma, Zenon
<1>6. p \in Seq(Nat) /\ Len(p) \in Nat /\ Has(p, 0, p)
  <2>1. p \in Seq(Nat)
    BY FlattenType
  <2> HIDE DEF p
  <2>2. Len(p) \in Nat /\ \A k \in 1..Len(p) : 0 + k = k
    BY <2>1
  <2>3. 0 + Len(p) <= Len(p)
    BY <2>2
  <2>4. \A k \in 1..Len(p) : p[0 + k] = p[k]
    BY <2>2
  <2> QED  BY <2>1, <2>2, <2>3, <2>4 DEF Has
<1>7. PICK pos \in [0..n -> Nat] :
        /\ pos[0] = 0
        /\ \A i \in 1..n : pos[i] = pos[i - 1] + Len(x[i]) /\ Has(p, pos[i - 1], x[i])
  <2>1. 0 \in Nat
    OBVIOUS
  <2> QED  BY <1>6, <2>1, HasPieces
<1> HIDE DEF p
<1>8. \A i \in 0..n : Len(f[i]) = pos[i]
  <2> DEFINE S == {i \in Nat : Len(f[i]) = pos[i]}
  <2>1. 0 \in S
    BY <1>2, <1>7
  <2>2. \A i \in 1..n : i - 1 \in S => i \in S
    <3> SUFFICES ASSUME NEW i \in 1..n, Len(f[i - 1]) = pos[i - 1]
                 PROVE  Len(f[i]) = pos[i] /\ i \in Nat
      OBVIOUS
    <3>1. i \in Nat
      BY <1>1
    <3>2. Len(f[i]) = pos[i]
      BY <1>5, <1>7, Zenon
    <3> QED  BY <3>1, <3>2
  <2>3. \A i \in 0..n : i \in S
    <3> HIDE DEF S
    <3> QED  BY <1>1, <2>1, <2>2, BoundedInduction
  <2> QED  BY <2>3
<1>9. \A i \in 1..n : Fits(s, Len(f[i - 1]) + Len(x[i]))
  <2> SUFFICES ASSUME NEW i \in 1..n  PROVE s.pos + (Len(f[i - 1]) + Len(x[i])) <= s.lim
    BY DEF Fits
  <2>1. Len(f[i - 1]) = pos[i - 1] /\ pos[i - 1] \in Nat /\ Len(x[i]) \in Nat
    BY <1>1, <1>4, <1>7, <1>8
  <2>2. pos[i - 1] + Len(x[i]) <= Len(p)
    BY <1>7 DEF Has
  <2>3. s.pos + Len(p) <= s.lim
    BY DEF p
  <2> DEFINE a == pos[i - 1]
             b == Len(x[i])
             c == Len(p)
  <2>4. a \in Nat /\ b \in Nat /\ c \in Nat /\ a + b <= c /\ s.pos + c <= s.lim
    BY <1>6, <2>1, <2>2, <2>3
  <2> HIDE DEF a, b, c
  <2>5. s.pos + (a + b) <= s.lim
    BY <1>3, <2>4
  <2> QED  BY <2>1, <2>5 DEF a, b
<1>10. \A i \in 1..n : f[i] = KeptOn(s, f[i - 1], x[i])
  BY <1>2, <1>9, Zenon DEF KeptOn
<1>11. KeptIs(s, x, n, f)
  <2>2. f = [i \in 0..n |-> f[i]]
    BY <1>2
  <2>3. \A i \in 0..n : i = 0 \/ i \in 1..n
    BY <1>1
  <2>4. \A i \in 0..n : f[i] = IF i = 0 THEN <<>> ELSE KeptOn(s, f[i - 1], x[i])
    BY <1>2, <1>10, <2>3, Zenon
  <2> DEFINE R(i) == IF i = 0 THEN <<>> ELSE KeptOn(s, f[i - 1], x[i])
  <2>5. \A i \in 0..n : f[i] = R(i)
    BY <2>4, Zenon
  <2> HIDE DEF R
  <2>6. f = [i \in 0..n |-> R(i)]
    BY <2>2, <2>5
  <2> QED  BY <2>6, Zenon DEF KeptIs, R
<1>12. KeptIs(s, x, n, h)
  BY <1>11, Zenon
<1>13. WriteAll(s, x) = Write(s, h[n])
  BY Zenon DEF WriteAll, KeptIs, KeptOn
<1> HIDE DEF h
<1>14. h[0] = <<>> /\ \A i \in 1..n : h[i] = KeptOn(s, h[i - 1], x[i])
  BY <1>1, <1>12, KeptCells
<1>15. \A i \in 0..n : h[i] = f[i]
  <2> DEFINE S == {i \in Nat : h[i] = f[i]}
  <2>1. 0 \in S
    BY <1>2, <1>14
  <2>2. \A i \in 1..n : i - 1 \in S => i \in S
    <3> SUFFICES ASSUME NEW i \in 1..n, h[i - 1] = f[i - 1]  PROVE h[i] = f[i] /\ i \in Nat
      OBVIOUS
    <3>1. i \in Nat
      BY <1>1
    <3>2. h[i] = f[i]
      BY <1>10, <1>14, Zenon
    <3> QED  BY <3>1, <3>2
  <2>3. \A i \in 0..n : i \in S
    <3> HIDE DEF S
    <3> QED  BY <1>1, <2>1, <2>2, BoundedInduction
  <2> QED  BY <2>3
<1>16. h[n] = p
  <2>1. n \in 0..n
    BY <1>1
  <2> QED  BY <1>2, <1>15, <2>1, Zenon
<1> QED  BY <1>13, <1>16, Zenon DEF p

-----------------------------------------------------------------------------
(* What the client reads behind the last entry *)

(* Behind the last entry there is none.                                    *)
LEMMA NoStat == DecodeAll(<<>>, StatFields(DecNested)).ok = FALSE
<1> DEFINE n == Len(P14)
<1>1. P14 \in Seq(StatLeaf) /\ 1 <= n /\ P14[1] = [key |-> <<"size">>, kind |-> "u16"]
  BY StatBegins DEF Begins
<1>2. n \in Nat /\ P14[1].kind = "u16"
  BY <1>1
<1>3. PICK f : DecodeRun(<<>>, P14, f)
  BY <1>2, DecodeLemma
<1>4. /\ f[0] = Unread
      /\ \A i \in 1..n : f[i] = ReadOn(<<>>, f[i - 1], P14[i])
      /\ DecodeAll(<<>>, P14) = f[n]
  BY <1>3 DEF DecodeRun
<1>5. Decode(<<>>, 0, "u16").ok = FALSE
  <2>1. <<>> \in Seq(Nat) /\ 0 \in Nat /\ Len(<<>>) = 0
    OBVIOUS
  <2>2. ReadInt(<<>>, 0, "u16").ok = (0 + 2 <= Len(<<>>))
    BY <2>1, ReadIntLemma
  <2>3. (0 + 2 <= Len(<<>>)) = FALSE
    BY <2>1
  <2>4. Decode(<<>>, 0, "u16") = ReadInt(<<>>, 0, "u16")
    BY DecodeKinds DEF Integer
  <2> QED  BY <2>2, <2>3, <2>4, Zenon
<1>6. f[1].ok = FALSE
  <2>1. 1 \in 1..n /\ 1 - 1 = 0
    BY <1>1, <1>2
  <2>2. f[1] = ReadOn(<<>>, f[1 - 1], P14[1])
    BY <1>4, <2>1, Zenon
  <2>3. f[1] = ReadOn(<<>>, Unread, P14[1])
    BY <1>4, <2>1, <2>2, Zenon
  <2>4. Unread.ok = TRUE /\ Unread.next = 0
    BY DEF Unread
  <2>5. ReadOn(<<>>, Unread, P14[1]).ok = Decode(<<>>, 0, "u16").ok
    BY <1>2, <2>4 DEF ReadOn
  <2> QED  BY <1>5, <2>3, <2>5, Zenon
<1> HIDE DEF n
<1>7. \A i \in 0..n : i # 0 => f[i].ok = FALSE
  <2> DEFINE S == {i \in Nat : i # 0 => f[i].ok = FALSE}
  <2>1. 0 \in S
    OBVIOUS
  <2>2. \A i \in 1..n : i - 1 \in S => i \in S
    <3> SUFFICES ASSUME NEW i \in 1..n, i - 1 \in S  PROVE f[i].ok = FALSE /\ i \in Nat
      OBVIOUS
    <3>1. i \in Nat
      BY <1>2
    <3>2. CASE i = 1
      BY <1>6, <3>1, <3>2
    <3>3. CASE i # 1
      <4>1. i - 1 # 0
        BY <3>1, <3>3
      <4>2. f[i - 1].ok = FALSE
        BY <4>1
      <4>3. f[i] = ReadOn(<<>>, f[i - 1], P14[i])
        BY <1>4 DEF n
      <4>4. f[i] = f[i - 1]
        BY <4>2, <4>3, Zenon DEF ReadOn
      <4> QED  BY <3>1, <4>2, <4>4
    <3> QED  BY <3>2, <3>3
  <2>3. \A i \in 0..n : i \in S
    <3> HIDE DEF S
    <3> QED  BY <1>2, <2>1, <2>2, BoundedInduction DEF n
  <2> QED  BY <2>3
<1>8. n \in 0..n /\ n # 0
  BY <1>1, <1>2 DEF n
<1>9. f[n].ok = FALSE
  BY <1>7, <1>8, Zenon
<1> QED  BY <1>4, <1>9, StatLeavesAre, Zenon DEF n

-----------------------------------------------------------------------------
(* The bytes of consecutive entries, and the boundaries between them *)

(* The bytes of the entries behind the first g ones, up to the k-th of a   *)
(* directory, and the number of bytes of its first n entries               *)
StatChunks(d, g, k)  == [i \in 1..(k - g) |-> StatBytes(d[g + i])]
Entries(d, g, k) == FlattenSeq(StatChunks(d, g, k))
SizeTo(d, n)     == Len(Entries(d, 0, n))

(* The entries of a directory are Stat values.                             *)
LEMMA DirLemma ==
  ASSUME NEW d \in Dirs
  PROVE  /\ Len(d) \in Nat /\ DOMAIN d = 1..Len(d) /\ d \in Seq({d[i] : i \in DOMAIN d})
         /\ \A i \in 1..Len(d) :
              /\ IsStruct(StatFields(EncNested), d[i])
              /\ StatBytes(d[i]) \in Seq(Nat)
              /\ Len(StatBytes(d[i])) = protocolSize(d[i])
              /\ protocolSize(d[i]) \in Nat \ {0}
<1> DEFINE L == StatFields(EncNested)
<1>1. d \in Seq({d[i] : i \in DOMAIN d}) /\ \A i \in DOMAIN d : IsStat(d[i])
  BY DirsAssumption
<1>2. Len(d) \in Nat /\ DOMAIN d = 1..Len(d)
  BY <1>1
<1>3. ASSUME NEW v, IsStat(v)  PROVE IsStruct(L, v)
  <2> HIDE DEF L
  <2>1. HasValues(L, v) /\ v = [k \in {L[i].key : i \in DOMAIN L} |-> v[k]]
    BY <1>3 DEF IsStat, L
  <2>2. DOMAIN L = 1..Len(L)
    BY <2>1, HasValuesLemma
  <2> QED  BY <2>1, <2>2, Zenon DEF IsStruct, Keys
<1>4. ASSUME NEW i \in 1..Len(d)
      PROVE  /\ IsStruct(L, d[i]) /\ StatBytes(d[i]) \in Seq(Nat)
             /\ Len(StatBytes(d[i])) = protocolSize(d[i]) /\ protocolSize(d[i]) \in Nat \ {0}
  <2>1. IsStruct(L, d[i])
    BY <1>1, <1>2, <1>3, Zenon
  <2> QED  BY <2>1, StatSize DEF IsStruct
<1> QED  BY <1>1, <1>2, <1>4

(* One byte string per entry                                               *)
LEMMA ChunksLemma ==
  ASSUME NEW d \in Dirs, NEW g \in Nat, NEW k \in g..Len(d)
  PROVE  /\ StatChunks(d, g, k) \in Seq(Seq(Nat)) /\ Len(StatChunks(d, g, k)) = k - g
         /\ Entries(d, g, k) \in Seq(Nat)
<1>1. Len(d) \in Nat /\ \A i \in 1..Len(d) : StatBytes(d[i]) \in Seq(Nat)
  BY DirLemma
<1>2. k - g \in Nat /\ \A i \in 1..(k - g) : g + i \in 1..Len(d)
  BY <1>1
<1>3. \A i \in 1..(k - g) : StatBytes(d[g + i]) \in Seq(Nat)
  BY <1>1, <1>2
<1> DEFINE m == k - g
<1>4. StatChunks(d, g, k) = [i \in 1..m |-> StatBytes(d[g + i])]
  BY Zenon DEF StatChunks
<1>5. [i \in 1..m |-> StatBytes(d[g + i])] \in [1..m -> Seq(Nat)]
  BY <1>3, Zenon
<1> HIDE DEF m
<1>6. StatChunks(d, g, k) \in [1..m -> Seq(Nat)] /\ m \in Nat
  BY <1>2, <1>4, <1>5 DEF m
<1>7. StatChunks(d, g, k) \in Seq(Seq(Nat)) /\ Len(StatChunks(d, g, k)) = m
  BY <1>6
<1> QED  BY <1>7, FlattenType, Zenon DEF m, Entries

(* No entries, no bytes                                                    *)
LEMMA EntriesNone ==
  ASSUME NEW d, NEW g \in Nat
  PROVE  Entries(d, g, g) = <<>>
<1>1. g - g = 0
  OBVIOUS
<1>2. StatChunks(d, g, g) = [i \in 1..0 |-> StatBytes(d[g + i])]
  BY <1>1, Zenon DEF StatChunks
<1>3. [i \in 1..0 |-> StatBytes(d[g + i])] = <<>>
  OBVIOUS
<1> QED  BY <1>2, <1>3, FlattenNothing, Zenon DEF Entries

(* One entry more                                                          *)
LEMMA EntriesMore ==
  ASSUME NEW d \in Dirs, NEW g \in Nat, NEW k \in g..Len(d), k < Len(d)
  PROVE  /\ Entries(d, g, k + 1) = Entries(d, g, k) \o StatBytes(d[k + 1])
         /\ Len(Entries(d, g, k + 1)) = Len(Entries(d, g, k)) + protocolSize(d[k + 1])
<1> DEFINE x == StatChunks(d, g, k)
           w == StatBytes(d[k + 1])
           m == k - g
           y == x \o <<w>>
<1>1. Len(d) \in Nat /\ k \in Nat /\ k + 1 \in 1..Len(d) /\ m \in Nat
      /\ (k + 1) - g = m + 1 /\ g + (m + 1) = k + 1
  BY DirLemma
<1>2. w \in Seq(Nat) /\ Len(w) = protocolSize(d[k + 1])
  BY <1>1, DirLemma
<1>3. x \in Seq(Seq(Nat)) /\ Len(x) = m /\ Entries(d, g, k) \in Seq(Nat)
  BY ChunksLemma
<1>3a. x = [i \in 1..m |-> StatBytes(d[g + i])]
  BY Zenon DEF StatChunks
<1>3b. \A i \in 1..m : x[i] = StatBytes(d[g + i])
  <2> HIDE DEF m, x
  <2> QED  BY <1>3a
<1> HIDE DEF x, w, m
<1>4. <<w>> \in Seq(Seq(Nat)) /\ Len(<<w>>) = 1 /\ <<w>>[1] = w
  BY <1>2
<1>5. /\ y \in Seq(Seq(Nat)) /\ Len(y) = Len(x) + Len(<<w>>)
      /\ \A i \in 1..Len(x) : y[i] = x[i]
      /\ \A i \in 1..Len(<<w>>) : y[Len(x) + i] = <<w>>[i]
  BY <1>3, <1>4, ConcatCells
<1> HIDE DEF y
<1>6. Len(y) = m + 1 /\ y[m + 1] = w /\ \A i \in 1..m : y[i] = StatBytes(d[g + i])
  <2>1. 1 \in 1..Len(<<w>>)
    BY <1>4
  <2>2. Len(y) = m + 1 /\ y[m + 1] = w
    BY <1>1, <1>3, <1>4, <1>5, <2>1
  <2>3. \A i \in 1..m : y[i] = StatBytes(d[g + i])
    BY <1>3, <1>3b, <1>5
  <2> QED  BY <2>2, <2>3
<1>7. y = [i \in 1..(m + 1) |-> StatBytes(d[g + i])]
  <2>1. y = [i \in 1..(m + 1) |-> y[i]]
    BY <1>5, <1>6
  <2>2. ASSUME NEW i \in 1..(m + 1)  PROVE y[i] = StatBytes(d[g + i])
    <3>1. i \in 1..m \/ i = m + 1
      BY <1>1
    <3>2. CASE i = m + 1
      BY <1>1, <1>6, <3>2, Zenon DEF w
    <3> QED  BY <1>6, <3>1, <3>2
  <2> QED  BY <2>1, <2>2, Zenon
<1>8. StatChunks(d, g, k + 1) = y
  BY <1>1, <1>7, Zenon DEF StatChunks
<1>9. FlattenSeq(y) = FlattenSeq(x) \o FlattenSeq(<<w>>)
  BY <1>3, <1>4, FlattenConcat DEF y
<1>10. FlattenSeq(<<w>>) = w
  BY <1>2, FlattenOne
<1>11. Entries(d, g, k + 1) = Entries(d, g, k) \o w
  BY <1>8, <1>9, <1>10, Zenon DEF Entries, x
<1>12. Len(Entries(d, g, k) \o w) = Len(Entries(d, g, k)) + Len(w)
  BY <1>2, <1>3, ConcatLemma
<1> QED  BY <1>2, <1>11, <1>12, Zenon DEF w

(* A boundary is behind the one before it, by the size of the entry.       *)
LEMMA SizeToLemma ==
  ASSUME NEW d \in Dirs
  PROVE  /\ SizeTo(d, 0) = 0
         /\ \A n \in 0..Len(d) : SizeTo(d, n) \in Nat
         /\ \A n \in 0..Len(d) : n < Len(d) =>
              n + 1 \in 0..Len(d) /\ SizeTo(d, n + 1) = SizeTo(d, n) + protocolSize(d[n + 1])
<1>1. Len(d) \in Nat
  BY DirLemma
<1>2. 0 \in Nat /\ Len(<<>>) = 0
  OBVIOUS
<1>3. SizeTo(d, 0) = 0
  BY <1>2, EntriesNone, Zenon DEF SizeTo
<1>4. ASSUME NEW n \in 0..Len(d)  PROVE SizeTo(d, n) \in Nat
  <2>1. Entries(d, 0, n) \in Seq(Nat)
    BY <1>2, ChunksLemma
  <2> QED  BY <2>1 DEF SizeTo
<1>5. ASSUME NEW n \in 0..Len(d), n < Len(d)
      PROVE  n + 1 \in 0..Len(d) /\ SizeTo(d, n + 1) = SizeTo(d, n) + protocolSize(d[n + 1])
  <2>1. n + 1 \in 0..Len(d)
    BY <1>1, <1>5
  <2>2. Len(Entries(d, 0, n + 1)) = Len(Entries(d, 0, n)) + protocolSize(d[n + 1])
    BY <1>2, <1>5, EntriesMore
  <2> QED  BY <2>1, <2>2, Zenon DEF SizeTo
<1> QED  BY <1>3, <1>4, <1>5

(* The entries between two boundaries                                      *)
LEMMA EntriesSize ==
  ASSUME NEW d \in Dirs, NEW g \in 0..Len(d)
  PROVE  \A k \in g..Len(d) : SizeTo(d, k) = SizeTo(d, g) + Len(Entries(d, g, k))
<1>1. Len(d) \in Nat /\ g \in Nat /\ Len(d) - g \in Nat
  BY DirLemma
<1> DEFINE m == Len(d) - g
           S == {i \in Nat : SizeTo(d, g + i) = SizeTo(d, g) + Len(Entries(d, g, g + i))}
<1>2. 0 \in S
  <2>1. g + 0 = g /\ Len(<<>>) = 0
    BY <1>1
  <2>2. SizeTo(d, g) \in Nat
    BY SizeToLemma
  <2>3. Len(Entries(d, g, g)) = 0
    BY <1>1, <2>1, EntriesNone, Zenon
  <2>4. SizeTo(d, g) = SizeTo(d, g) + Len(Entries(d, g, g))
    BY <2>2, <2>3
  <2> QED  BY <2>1, <2>4
<1>3. \A i \in 1..m : i - 1 \in S => i \in S
  <2> SUFFICES ASSUME NEW i \in 1..m, i - 1 \in S  PROVE i \in S
    OBVIOUS
  <2> DEFINE k == g + (i - 1)
             a == SizeTo(d, k)
             b == SizeTo(d, g)
             c == Len(Entries(d, g, k))
             e == protocolSize(d[k + 1])
  <2>1. /\ k \in 0..Len(d) /\ k \in g..Len(d) /\ k < Len(d) /\ k + 1 = g + i /\ i \in Nat
        /\ k + 1 \in 1..Len(d)
    BY <1>1
  <2>2. a = b + c
    OBVIOUS
  <2>3. SizeTo(d, k + 1) = a + e
    BY <2>1, SizeToLemma
  <2>4. Len(Entries(d, g, k + 1)) = c + e
    BY <1>1, <2>1, EntriesMore
  <2>5. b \in Nat /\ e \in Nat
    BY <2>1, SizeToLemma, DirLemma
  <2>6. c \in Nat
    <3>1. Entries(d, g, k) \in Seq(Nat)
      BY <1>1, <2>1, ChunksLemma
    <3> QED  BY <3>1
  <2> HIDE DEF a, b, c, e
  <2>7. a + e = b + (c + e)
    BY <2>2, <2>5, <2>6
  <2>8. SizeTo(d, g + i) = SizeTo(d, g) + Len(Entries(d, g, g + i))
    BY <2>1, <2>3, <2>4, <2>7, Zenon DEF b
  <2> QED  BY <2>1, <2>8
<1>4. \A i \in 0..m : i \in S
  <2> HIDE DEF S
  <2> QED  BY <1>1, <1>2, <1>3, BoundedInduction
<1>5. ASSUME NEW k \in g..Len(d)  PROVE SizeTo(d, k) = SizeTo(d, g) + Len(Entries(d, g, k))
  <2>1. k - g \in 0..m /\ g + (k - g) = k
    BY <1>1
  <2>2. k - g \in S
    BY <1>4, <2>1
  <2> QED  BY <2>1, <2>2
<1> QED  BY <1>5

(* More entries take more bytes.                                           *)
LEMMA SizeToGrows ==
  ASSUME NEW d \in Dirs, NEW j \in 0..Len(d)
  PROVE  \A i \in 0..Len(d) : i < j <=> SizeTo(d, i) < SizeTo(d, j)
<1>1. Len(d) \in Nat
  BY DirLemma
<1>2. ASSUME NEW a \in 0..Len(d), NEW b \in 0..Len(d), a <= b
      PROVE  SizeTo(d, a) <= SizeTo(d, b)
  <2>1. b \in a..Len(d) /\ a \in Nat
    BY <1>1, <1>2
  <2>2. SizeTo(d, b) = SizeTo(d, a) + Len(Entries(d, a, b))
    BY <2>1, EntriesSize
  <2>3. Len(Entries(d, a, b)) \in Nat
    <3>1. Entries(d, a, b) \in Seq(Nat)
      BY <2>1, ChunksLemma
    <3> QED  BY <3>1
  <2>4. SizeTo(d, a) \in Nat
    BY SizeToLemma
  <2> QED  BY <2>2, <2>3, <2>4
<1>3. ASSUME NEW i \in 0..Len(d), i < j  PROVE SizeTo(d, i) < SizeTo(d, j)
  <2>1. i + 1 \in 0..Len(d) /\ i + 1 <= j /\ i < Len(d) /\ i + 1 \in 1..Len(d)
    BY <1>1, <1>3
  <2>2. SizeTo(d, i + 1) <= SizeTo(d, j)
    BY <1>2, <2>1
  <2>3. SizeTo(d, i + 1) = SizeTo(d, i) + protocolSize(d[i + 1])
    BY <2>1, SizeToLemma
  <2>4. protocolSize(d[i + 1]) \in Nat \ {0}
    BY <2>1, DirLemma
  <2>5. SizeTo(d, i) \in Nat /\ SizeTo(d, j) \in Nat
    BY SizeToLemma
  <2> QED  BY <2>2, <2>3, <2>4, <2>5
<1>4. ASSUME NEW i \in 0..Len(d), SizeTo(d, i) < SizeTo(d, j)  PROVE i < j
  <2>1. SUFFICES ASSUME j <= i  PROVE FALSE
    BY <1>1
  <2>2. SizeTo(d, j) <= SizeTo(d, i)
    BY <1>2, <2>1
  <2>3. SizeTo(d, i) \in Nat /\ SizeTo(d, j) \in Nat
    BY SizeToLemma
  <2> QED  BY <1>4, <2>2, <2>3
<1> QED  BY <1>3, <1>4

-----------------------------------------------------------------------------
(* The client's loop over the data of an answer *)

(* The bytes behind the first ones                                         *)
LEMMA Remainder ==
  ASSUME NEW p \in Seq(Nat), NEW at \in Nat, NEW b \in Seq(Nat), Has(p, at, b)
  PROVE  SubSeq(p, at + 1, Len(p)) \in Seq(Nat) /\ Has(SubSeq(p, at + 1, Len(p)), 0, b)
<1> DEFINE q == SubSeq(p, at + 1, Len(p))
           n == Len(p)
           m == Len(b)
<1>1. n \in Nat /\ m \in Nat /\ at + m <= n /\ \A k \in 1..m : p[at + k] = b[k]
  BY DEF Has
<1>1a. at <= n
  <2> HIDE DEF n, m
  <2> QED  BY <1>1
<1>2. q \in Seq(Nat) /\ Len(q) = n - at
  <2>1. \A a \in Nat : a <= n =>
          SubSeq(p, a + 1, n) \in Seq(Nat) /\ Len(SubSeq(p, a + 1, n)) = n - a
    OBVIOUS
  <2> HIDE DEF n
  <2> QED  BY <1>1, <1>1a, <2>1 DEF n
<1>3. \A i \in 1..(n - at) : q[i] = p[at + i]
  BY <1>1, <1>1a
<1> HIDE DEF q, n, m
<1>4. 0 + m <= Len(q) /\ \A k \in 1..m : 0 + k = k /\ k \in 1..(n - at)
  BY <1>1, <1>2
<1>5. \A k \in 1..m : q[0 + k] = b[k]
  BY <1>1, <1>3, <1>4
<1>6. Has(q, 0, b)
  BY <1>4, <1>5 DEF Has, m
<1> QED  BY <1>2, <1>6 DEF q, n

(* Behind all of the bytes there are none.                                 *)
LEMMA NoRemainder ==
  ASSUME NEW p \in Seq(Nat)
  PROVE  SubSeq(p, Len(p) + 1, Len(p)) = <<>>
OBVIOUS

(* The client's loop over the data, one entry more                         *)
StatsOn(data, r) ==
  LET x == DecodeAll(SubSeq(data, r.at + 1, Len(data)), StatFields(DecNested))
  IN  IF x.ok THEN [at |-> r.at + x.next, stats |-> Append(r.stats, x.val)] ELSE r

NoStats == [at |-> 0, stats |-> << >>]

StatsRun(data, n, u) ==
  u = [i \in 0..n |-> IF i = 0 THEN NoStats ELSE StatsOn(data, u[i - 1])]

(* The recursive function of StatsIn, cell by cell                         *)
LEMMA StatsCells ==
  ASSUME NEW data, NEW n \in Nat, NEW u
  PROVE  StatsRun(data, n, u) <=>
           /\ u = [i \in 0..n |-> u[i]]
           /\ u[0] = NoStats
           /\ \A i \in 1..n : u[i] = StatsOn(data, u[i - 1])
<1> DEFINE R(i) == IF i = 0 THEN NoStats ELSE StatsOn(data, u[i - 1])
<1>1. StatsRun(data, n, u) <=> u = [i \in 0..n |-> R(i)]
  BY Zenon DEF StatsRun
<1>2. 0 \in 0..n /\ (\A i \in 1..n : i \in 0..n /\ i # 0) /\ \A i \in 0..n : i = 0 \/ i \in 1..n
  OBVIOUS
<1>3. ASSUME StatsRun(data, n, u)
      PROVE  /\ u = [i \in 0..n |-> u[i]] /\ u[0] = NoStats
             /\ \A i \in 1..n : u[i] = StatsOn(data, u[i - 1])
  <2>1. \A i \in 0..n : u[i] = R(i)
    <3> HIDE DEF R
    <3> QED  BY <1>1, <1>3
  <2>2. u = [i \in 0..n |-> u[i]]
    <3> HIDE DEF R
    <3> QED  BY <1>1, <1>3
  <2>3. u[0] = NoStats
    BY <1>2, <2>1, Zenon
  <2>4. \A i \in 1..n : u[i] = StatsOn(data, u[i - 1])
    BY <1>2, <2>1, Zenon
  <2> QED  BY <2>2, <2>3, <2>4
<1>4. ASSUME u = [i \in 0..n |-> u[i]], u[0] = NoStats,
             \A i \in 1..n : u[i] = StatsOn(data, u[i - 1])
      PROVE  StatsRun(data, n, u)
  <2>1. \A i \in 0..n : u[i] = R(i)
    BY <1>2, <1>4, Zenon
  <2> HIDE DEF R
  <2>2. u = [i \in 0..n |-> R(i)]
    BY <1>4, <2>1
  <2> QED  BY <1>1, <2>2
<1> QED  BY <1>3, <1>4

(* The entries of d behind the first g ones, i of them                     *)
Part(d, g, i) == [j \in 1..i |-> d[g + j]]

(* A part of a directory, entry by entry                                   *)
LEMMA PartLemma ==
  ASSUME NEW d \in Dirs, NEW g \in Nat, NEW k \in g..Len(d)
  PROVE  /\ Part(d, g, 0) = <<>>
         /\ \A i \in 1..(k - g) : Append(Part(d, g, i - 1), d[g + i]) = Part(d, g, i)
         /\ SubSeq(d, g + 1, k) = Part(d, g, k - g)
<1> DEFINE T == {d[i] : i \in DOMAIN d}
           n == Len(d)
<1>1. d \in Seq(T) /\ n \in Nat /\ DOMAIN d = 1..n
  BY DirLemma
<1>1a. \A i \in 1..n : d[i] \in T
  BY <1>1
<1>2. Part(d, g, 0) = <<>>
  BY DEF Part
<1>3. ASSUME NEW i \in 1..(k - g)
      PROVE  Append(Part(d, g, i - 1), d[g + i]) = Part(d, g, i)
  <2> DEFINE a == Part(d, g, i - 1)
             v == d[g + i]
             b == Append(a, v)
             m == i - 1
  <2> HIDE DEF T, n
  <2>1. m \in Nat /\ m + 1 = i /\ g + i \in 1..n /\ (\A j \in 1..m : g + j \in 1..n)
    BY <1>1 DEF n
  <2>2. a = [j \in 1..m |-> d[g + j]] /\ v \in T
    BY <1>1a, <2>1 DEF Part
  <2>3. a \in Seq(T) /\ Len(a) = m
    <3>1. [j \in 1..m |-> d[g + j]] \in [1..m -> T]
      BY <1>1a, <2>1
    <3>2. a \in [1..m -> T]
      BY <2>2, <3>1, Zenon
    <3>3. m \in Nat
      BY <2>1
    <3> HIDE DEF m, a
    <3> QED  BY <3>2, <3>3
  <2>4. \A j \in 1..m : a[j] = d[g + j]
    <3> HIDE DEF m, a
    <3> QED  BY <2>2
  <2> HIDE DEF a, v, m
  <2>5. b \in Seq(T) /\ Len(b) = m + 1 /\ b[m + 1] = v /\ \A j \in 1..m : b[j] = a[j]
    BY <2>1, <2>2, <2>3
  <2> HIDE DEF b
  <2>6. b = [j \in 1..(m + 1) |-> b[j]]
    BY <2>5
  <2>7. ASSUME NEW j \in 1..(m + 1)  PROVE b[j] = d[g + j]
    <3>1. j \in 1..m \/ j = m + 1
      BY <2>1
    <3> QED  BY <2>1, <2>4, <2>5, <3>1, Zenon DEF v
  <2>8. b = [j \in 1..(m + 1) |-> d[g + j]]
    BY <2>6, <2>7, Zenon
  <2> QED  BY <2>1, <2>8, Zenon DEF Part, a, b, v, m
<1>4. SubSeq(d, g + 1, k) = Part(d, g, k - g)
  <2> DEFINE s == SubSeq(d, g + 1, k)
             m == k - g
  <2>1. m \in Nat /\ g <= k /\ k <= n /\ k \in Nat
    BY <1>1
  <2>2. s \in Seq(T) /\ Len(s) = m
    <3>1. \A a, c \in Nat : a <= c /\ c <= n =>
            SubSeq(d, a + 1, c) \in Seq(T) /\ Len(SubSeq(d, a + 1, c)) = c - a
      <4> HIDE DEF T
      <4> QED  BY <1>1
    <3> HIDE DEF T, n
    <3> QED  BY <2>1, <3>1
  <2>3. \A j \in 1..m : s[j] = d[g + j]
    <3> HIDE DEF T
    <3>1. \A a, c \in Nat : a <= c /\ c <= n =>
            \A j \in 1..(c - a) : SubSeq(d, a + 1, c)[j] = d[a + j]
      BY <1>1
    <3> QED  BY <2>1, <3>1
  <2> HIDE DEF s, m, T
  <2>4. s = [j \in 1..m |-> s[j]]
    BY <2>2
  <2>5. s = [j \in 1..m |-> d[g + j]]
    BY <2>3, <2>4, Zenon
  <2> QED  BY <2>5, Zenon DEF Part, s, m
<1> QED  BY <1>2, <1>3, <1>4

(* The entries done are read, the next one is at a position                *)
UpTo(pos, done) == [at |-> pos, stats |-> done]

(* Reading one more entry                                                  *)
LEMMA OneStat ==
  ASSUME NEW p \in Seq(Nat), NEW at \in Nat, NEW done, NEW stat,
         IsStruct(StatFields(EncNested), stat), StatBytes(stat) \in Seq(Nat),
         Has(p, at, StatBytes(stat))
  PROVE  StatsOn(p, UpTo(at, done)) = UpTo(at + Len(StatBytes(stat)), Append(done, stat))
<1> DEFINE L == StatFields(EncNested)
           q == SubSeq(p, at + 1, Len(p))
           x == DecodeAll(q, L)
           r == UpTo(at, done)
<1>1. StatFields(DecNested) = L
  BY StatLeavesAre, Zenon
<1>2. r.at = at /\ r.stats = done
  BY DEF UpTo
<1>3. StatsOn(p, r) = IF x.ok THEN UpTo(at + x.next, Append(done, x.val)) ELSE r
  <2> HIDE DEF r
  <2> QED  BY <1>1, <1>2, Zenon DEF StatsOn, UpTo
<1>4. q \in Seq(Nat) /\ Has(q, 0, StatBytes(stat))
  BY Remainder
<1> HIDE DEF q
<1>5. IsStruct(L, stat) /\ StatBytes(stat) = FlattenSeq(EncodeAll(L, stat))
  BY DEF StatBytes
<1> HIDE DEF L
<1>6. x = Read(stat, Len(StatBytes(stat)))
  BY <1>4, <1>5, StructRoundTrip
<1> HIDE DEF x
<1>7. x.ok = TRUE /\ x.next = Len(StatBytes(stat)) /\ x.val = stat
  BY <1>6 DEF Read
<1> QED  BY <1>3, <1>7, Zenon

(* Behind the last entry nothing is read.                                  *)
LEMMA StatsEnd ==
  ASSUME NEW p \in Seq(Nat), NEW r, r.at = Len(p)
  PROVE  StatsOn(p, r) = r
<1> DEFINE x == DecodeAll(SubSeq(p, r.at + 1, Len(p)), StatFields(DecNested))
<1>1. SubSeq(p, r.at + 1, Len(p)) = <<>>
  BY NoRemainder, Zenon
<1>2. x.ok = FALSE
  BY <1>1, NoStat, Zenon
<1>3. StatsOn(p, r) = IF x.ok THEN [at |-> r.at + x.next, stats |-> Append(r.stats, x.val)] ELSE r
  BY Zenon DEF StatsOn
<1> HIDE DEF x
<1> QED  BY <1>2, <1>3, Zenon

(* The client finds in the data the entries that were put there.           *)
LEMMA StatsRead ==
  ASSUME dir \in Dirs, NEW g \in Nat, NEW k \in g..Len(dir)
  PROVE  StatsIn(Entries(dir, g, k)) = SubSeq(dir, g + 1, k)
<1> DEFINE y == StatChunks(dir, g, k)
           p == Entries(dir, g, k)
           n == Len(dir)
           m == k - g
           h == CHOOSE u : StatsRun(p, n, u)
<1>1. n \in Nat /\ m \in Nat /\ m <= n
  <2>1. n \in Nat
    BY DirLemma
  <2> QED  BY <2>1
<1>2. y \in Seq(Seq(Nat)) /\ Len(y) = m /\ p \in Seq(Nat) /\ p = FlattenSeq(y)
  BY ChunksLemma DEF Entries
<1>3. /\ Part(dir, g, 0) = <<>>
      /\ \A i \in 1..m : Append(Part(dir, g, i - 1), dir[g + i]) = Part(dir, g, i)
      /\ SubSeq(dir, g + 1, k) = Part(dir, g, m)
  BY PartLemma
<1>4. \A i \in 1..m : /\ y[i] = StatBytes(dir[g + i]) /\ y[i] \in Seq(Nat)
                      /\ IsStruct(StatFields(EncNested), dir[g + i])
  <2>1. \A i \in 1..m : g + i \in 1..n
    BY <1>1
  <2>2. \A i \in 1..m : /\ IsStruct(StatFields(EncNested), dir[g + i])
                        /\ StatBytes(dir[g + i]) \in Seq(Nat)
    BY <2>1, DirLemma
  <2>3. y = [i \in 1..m |-> StatBytes(dir[g + i])]
    BY Zenon DEF StatChunks
  <2> HIDE DEF y, m
  <2>4. \A i \in 1..m : y[i] = StatBytes(dir[g + i])
    BY <2>3
  <2> QED  BY <2>2, <2>4, Zenon
<1>5. StatsIn(p) = h[n].stats
  BY Zenon DEF StatsIn, StatsRun, StatsOn, NoStats
<1>6. Has(p, 0, p) /\ Len(p) \in Nat
  <2>1. p \in Seq(Nat)
    BY <1>2
  <2> HIDE DEF p
  <2>2. Len(p) \in Nat /\ \A j \in 1..Len(p) : 0 + j = j
    BY <2>1
  <2>3. 0 + Len(p) <= Len(p)
    BY <2>2
  <2> QED  BY <2>2, <2>3 DEF Has
<1>7. PICK pos \in [0..m -> Nat] :
           /\ pos[0] = 0
           /\ pos[m] = 0 + Len(p)
           /\ \A i \in 1..m : pos[i] = pos[i - 1] + Len(y[i]) /\ Has(p, pos[i - 1], y[i])
  <2>1. 0 \in Nat /\ Has(p, 0, FlattenSeq(y))
    BY <1>2, <1>6, Zenon
  <2> HIDE DEF y, p, m
  <2>2. \E pos \in [0..Len(y) -> Nat] :
           /\ pos[0] = 0
           /\ pos[Len(y)] = 0 + Len(FlattenSeq(y))
           /\ \A i \in 1..Len(y) : pos[i] = pos[i - 1] + Len(y[i]) /\ Has(p, pos[i - 1], y[i])
    BY <1>2, <2>1, HasPieces
  <2> QED  BY <1>2, <2>2, Zenon
<1> HIDE DEF y, p, n, m, h
<1>8. pos[m] = Len(p)
  BY <1>6, <1>7
<1> DEFINE R(i) == [at |-> pos[i], stats |-> Part(dir, g, i)]
           W(i) == IF i <= m THEN R(i) ELSE R(m)
           w == [i \in 0..n |-> W(i)]
<1>9. \A i \in 1..m : i - 1 \in 0..m /\ StatsOn(p, R(i - 1)) = R(i)
  <2> SUFFICES ASSUME NEW i \in 1..m
               PROVE  i - 1 \in 0..m /\ StatsOn(p, R(i - 1)) = R(i)
    OBVIOUS
  <2>1. i - 1 \in 0..m
    BY <1>1
  <2>2. pos[i - 1] \in Nat
    BY <1>7, <2>1
  <2>3. StatsOn(p, R(i - 1)) = [at |-> pos[i - 1] + Len(y[i]),
                                stats |-> Append(Part(dir, g, i - 1), dir[g + i])]
    <3>1. y[i] = StatBytes(dir[g + i]) /\ y[i] \in Seq(Nat)
          /\ IsStruct(StatFields(EncNested), dir[g + i])
      BY <1>4
    <3>2. Has(p, pos[i - 1], StatBytes(dir[g + i]))
      BY <1>7, <3>1, Zenon
    <3> DEFINE done == Part(dir, g, i - 1)
               at == pos[i - 1]
               v == dir[g + i]
    <3>3. p \in Seq(Nat) /\ at \in Nat /\ IsStruct(StatFields(EncNested), v)
          /\ StatBytes(v) \in Seq(Nat) /\ Has(p, at, StatBytes(v))
      BY <1>2, <2>2, <3>1, <3>2, Zenon
    <3> HIDE DEF done, at, v
    <3>4. StatsOn(p, UpTo(at, done)) = UpTo(at + Len(StatBytes(v)), Append(done, v))
      BY <3>3, OneStat
    <3> QED  BY <3>1, <3>4, Zenon DEF done, at, v, UpTo
  <2>4. pos[i - 1] + Len(y[i]) = pos[i]
    BY <1>7, Zenon
  <2>5. Append(Part(dir, g, i - 1), dir[g + i]) = Part(dir, g, i)
    BY <1>3, Zenon
  <2> QED  BY <2>1, <2>3, <2>4, <2>5, Zenon
<1>10. StatsOn(p, R(m)) = R(m)
  <2>1. R(m).at = Len(p)
    BY <1>8
  <2> QED  BY <1>2, <2>1, StatsEnd, Zenon
<1>11. R(0) = NoStats
  BY <1>3, <1>7, Zenon DEF NoStats
<1> HIDE DEF R
<1>12. W(0) = NoStats /\ \A i \in 1..n : W(i) = StatsOn(p, W(i - 1))
  <2>1. W(0) = NoStats
    BY <1>1, <1>11
  <2>2. ASSUME NEW i \in 1..n  PROVE W(i) = StatsOn(p, W(i - 1))
    <3>1. CASE i <= m
      <4>1. i \in 1..m /\ i - 1 <= m
        BY <1>1, <3>1
      <4>2. W(i) = R(i) /\ W(i - 1) = R(i - 1)
        BY <3>1, <4>1, Zenon
      <4> QED  BY <1>9, <4>1, <4>2, Zenon
    <3>2. CASE ~(i <= m)
      <4>1. W(i) = R(m)
        BY <3>2, Zenon
      <4>2. i - 1 = m \/ ~(i - 1 <= m)
        BY <1>1, <3>2
      <4>3. W(i - 1) = R(m)
        BY <4>2, Zenon
      <4> QED  BY <1>10, <4>1, <4>3, Zenon
    <3> QED  BY <3>1, <3>2
  <2> QED  BY <2>1, <2>2
<1> HIDE DEF W
<1>13. StatsRun(p, n, w)
  <2>1. \A i \in 0..n : w[i] = W(i)
    OBVIOUS
  <2>2. 0 \in 0..n /\ \A i \in 1..n : i \in 0..n /\ i - 1 \in 0..n
    BY <1>1
  <2>3. w = [i \in 0..n |-> w[i]]
    OBVIOUS
  <2> HIDE DEF w
  <2>4. w[0] = NoStats /\ \A i \in 1..n : w[i] = StatsOn(p, w[i - 1])
    BY <1>12, <2>1, <2>2, Zenon
  <2> QED  BY <1>1, <2>3, <2>4, StatsCells
<1>14. StatsRun(p, n, h)
  BY <1>13, Zenon DEF h
<1>15. h[0] = NoStats /\ \A i \in 1..n : h[i] = StatsOn(p, h[i - 1])
  BY <1>1, <1>14, StatsCells
<1>16. \A i \in 0..n : h[i] = W(i)
  <2> DEFINE S == {i \in Nat : h[i] = W(i)}
  <2>1. 0 \in S
    BY <1>12, <1>15
  <2>2. \A i \in 1..n : i - 1 \in S => i \in S
    <3> SUFFICES ASSUME NEW i \in 1..n, h[i - 1] = W(i - 1)  PROVE h[i] = W(i) /\ i \in Nat
      OBVIOUS
    <3>1. i \in Nat
      BY <1>1
    <3>2. h[i] = W(i)
      BY <1>12, <1>15, Zenon
    <3> QED  BY <3>1, <3>2
  <2>3. \A i \in 0..n : i \in S
    <3> HIDE DEF S
    <3> QED  BY <1>1, <2>1, <2>2, BoundedInduction
  <2> QED  BY <2>3
<1>17. W(n) = R(m)
  BY <1>1 DEF W
<1>18. h[n] = R(m)
  <2>1. n \in 0..n
    BY <1>1
  <2> QED  BY <1>16, <1>17, <2>1, Zenon
<1>19. R(m).stats = Part(dir, g, m)
  BY DEF R
<1> QED  BY <1>3, <1>5, <1>18, <1>19, Zenon DEF p

-----------------------------------------------------------------------------
(* The answer as a message *)

(* The value of a Read response                                            *)
ReadData(data) == [k \in {<<"data">>} |-> data]

(* The data is written as its size and its bytes.                          *)
LEMMA ReadWritten ==
  ASSUME NEW data \in Seq(Nat), Len(data) < U32Range
  PROVE  /\ IsWritten(DecLeaves["9P2000"]["Response"]["Read"], ReadData(data),
                      U32Bytes(Len(data)) \o data)
         /\ ReadData(data)[<<"data">>] = data
<1> DEFINE key == <<"data">>
           val == ReadData(data)
           b == Leaf(key, "data")
<1>1. key \in DOMAIN val /\ val[key] = data /\ DOMAIN val = {key}
  BY DEF ReadData
<1>2. IsValue("data", data) /\ "data" \in Kinds
  BY DEF IsValue, Kinds
<1>3. val = [k \in {key} |-> val[k]]
  BY DEF ReadData
<1>4. Len(b) = 1 /\ Keys(b, 1) = {key}
  BY DEF Leaf, Keys
<1> HIDE DEF key, val
<1>5. HasValues(b, val) /\ FlattenSeq(EncodeAll(b, val)) = Wire("data", val[key])
  BY <1>1, <1>2, OneLeaf
<1>6. Wire("data", data) = U32Bytes(Len(data)) \o data
  BY <1>2, DataWire
<1> HIDE DEF b
<1>7. IsStruct(b, val)
  BY <1>3, <1>4, <1>5, Zenon DEF IsStruct
<1>8. DecLeaves["9P2000"]["Response"]["Read"] = b
  BY StatAgrees, Zenon DEF b, key
<1>9. IsWritten(b, val, U32Bytes(Len(data)) \o data)
  BY <1>1, <1>5, <1>6, <1>7, Zenon DEF IsWritten
<1> QED  BY <1>1, <1>8, <1>9, Zenon DEF key, val

(* The stream s holds a Read response with the header h and this data.     *)
IsAnswer(s, h, data) ==
  /\ IsByteWriter(s) /\ 7 + s.lim < U32Range
  /\ h \in Headers /\ h.type = RRead /\ h.tag = Tag
  /\ h.messageSize = s.pos
  /\ data \in Seq(Nat) /\ s.pos = 11 + Len(data)
  /\ Holds(s, 0, HeaderBytes(h))
  /\ Holds(s, 7, U32Bytes(Len(data)))
  /\ Holds(s, 11, data)

(* ... and the client finds it there.                                      *)
LEMMA AnswerRead ==
  ASSUME NEW data, IsAnswer(out, header, data)
  PROVE  Answer = Accepted("Read", ReadData(data))
<1> DEFINE a == HeaderBytes(header)
           b == U32Bytes(Len(data))
           c == b \o data
           w == a \o c
           n == Len(data)
           head == parseMessageHeader(w)
           p == SubSeq(w, 7 + 1, Len(w))
<1>0. /\ IsByteWriter(out) /\ 7 + out.lim < U32Range
      /\ header \in Headers /\ header.type = RRead /\ header.tag = Tag
      /\ header.messageSize = out.pos
      /\ data \in Seq(Nat) /\ out.pos = 11 + Len(data)
      /\ Holds(out, 0, a) /\ Holds(out, 7, b) /\ Holds(out, 11, data)
  BY DEF IsAnswer
<1>1. n \in Nat /\ out.lim \in Nat /\ out.pos \in Nat /\ out.pos <= out.lim
  BY <1>0 DEF IsByteWriter
<1>2. a \in Seq(Nat) /\ Len(a) = 7 /\ b \in Seq(Nat) /\ Len(b) = 4
  BY <1>0, <1>1, HeaderBytesLemma, U32BytesLemma
<1> HIDE DEF a, b
<1>3. c \in Seq(Nat) /\ Len(c) = Len(b) + Len(data) /\ Holds(out, 7, c)
  <2>1. 7 \in Nat /\ 7 + Len(b) = 11
    BY <1>2
  <2>2. Holds(out, 7 + Len(b), data)
    BY <1>0, <2>1, Zenon
  <2> QED  BY <1>0, <1>2, <2>1, <2>2, HoldsConcat
<1> HIDE DEF c
<1>4. w \in Seq(Nat) /\ Len(w) = Len(a) + Len(c) /\ Holds(out, 0, w)
  <2>1. 0 \in Nat /\ 0 + Len(a) = 7
    BY <1>2
  <2>2. Holds(out, 0 + Len(a), c)
    BY <1>3, <2>1, Zenon
  <2> QED  BY <1>0, <1>2, <1>3, <2>1, <2>2, HoldsConcat
<1>5. /\ \A i \in 1..Len(a) : w[i] = a[i]
      /\ \A i \in 1..Len(c) : w[Len(a) + i] = c[i]
  BY <1>2, <1>3, TwoParts
<1>5a. Len(c) = 4 + n
  BY <1>2, <1>3, Zenon
<1> HIDE DEF w, n
<1>6. Len(w) = out.pos /\ Len(c) \in Nat /\ 7 <= Len(w) /\ Len(w) = 7 + Len(c) /\ 0 + Len(w) = out.pos
  BY <1>0, <1>1, <1>2, <1>4, <1>5a DEF n
<1>7. Slice(out, 0, out.pos) = w
  <2>1. 0 \in Nat
    OBVIOUS
  <2>2. Slice(out, 0, 0 + Len(w)) = w
    BY <1>4, <2>1, HoldsSlice
  <2> QED  BY <1>6, <2>2, Zenon
<1>8. head = [err |-> "none", messageSize |-> out.pos, type |-> RRead, tag |-> Tag]
  <2>1. parseMessageHeader(w) = parseMessageHeader(a)
    <3>1. 7 <= Len(a) /\ \A i \in 1..7 : w[i] = a[i]
      BY <1>2, <1>5
    <3> QED  BY <1>2, <1>4, <1>6, <3>1, SameHeader
  <2>2. header.messageSize < U32Range /\ 7 <= header.messageSize
    <3>1. U32Range \in Nat
      BY RangeLemma
    <3> QED  BY <1>0, <1>1, <1>6, <3>1
  <2>3. header.tag < U16Range
    <3>1. Base \in Nat /\ 2 <= Base
      BY BaseAssumption
    <3>2. 2 <= U16Range
      BY <3>1 DEF U16Range
    <3>3. U16Range \in Nat
      BY RangeLemma
    <3> QED  BY <1>0, <3>2, <3>3 DEF Tag
  <2>4. parseMessageHeader(a) =
           [err |-> "none", messageSize |-> header.messageSize, type |-> header.type, tag |-> header.tag]
    BY <1>0, <2>2, <2>3, HeaderRoundTrip DEF a
  <2> QED  BY <1>0, <2>1, <2>4, Zenon
<1>9. head.err = "none" /\ head.messageSize = out.pos /\ head.type = RRead
  BY <1>8
<1> HIDE DEF head
<1>10. p \in Seq(Nat) /\ Len(p) \in Nat /\ 7 + Len(p) = Len(w) /\ \A i \in 1..Len(p) : p[i] = w[7 + i]
  BY <1>4, <1>6, BodyCells
<1> HIDE DEF p
<1>11. Has(p, 0, c)
  <2>1. Len(p) = Len(c)
    BY <1>6, <1>10
  <2>2. 0 + Len(c) <= Len(p) /\ \A i \in 1..Len(c) : 0 + i = i
    BY <1>6, <2>1
  <2>3. \A i \in 1..Len(c) : p[i] = c[i]
    BY <1>2, <1>5, <1>10, <2>1, Zenon
  <2> QED  BY <2>2, <2>3, Zenon DEF Has
<1>12. validateHeader(head, Len(p), maxMessageSize(Client)) = "none"
  <2>1. maxMessageSize(Client) = (7 + out.lim) % U32Range
    BY HeaderSizeLemma DEF maxMessageSize, Client
  <2>2. 7 + out.lim \in Nat /\ (7 + out.lim) % U32Range = 7 + out.lim
    BY <1>0, <1>1, SmallMod
  <2>3. head.messageSize = 7 + Len(p) /\ head.messageSize <= 7 + out.lim
    <3>1. 7 + Len(p) = out.pos
      BY <1>6, <1>10, Zenon
    <3>2. out.pos <= 7 + out.lim
      BY <1>1
    <3> QED  BY <1>9, <3>1, <3>2, Zenon
  <2> QED  BY <1>10, <2>1, <2>2, <2>3, RightSize
<1>13. Client.ver = "9P2000" /\ Client.dir = "Response"
  BY DEF Client
<1>14. /\ head.type \in DOMAIN ParserTable[Client.ver][Client.dir]
       /\ ParserTable[Client.ver][Client.dir][head.type] = "Read"
  BY <1>9, <1>13, StatAgrees, Zenon
<1>15. parseBody(Client, head, p) = DecodeAs("9P2000", "Response", "Read", p)
  BY <1>12, <1>13, <1>14, Zenon DEF parseBody
<1>16. DecodeAs("9P2000", "Response", "Read", p) = Accepted("Read", ReadData(data))
  <2>1. Len(data) < U32Range
    <3>1. U32Range \in Nat
      BY RangeLemma
    <3> QED  BY <1>0, <1>1, <3>1 DEF n
  <2>2. IsWritten(DecLeaves["9P2000"]["Response"]["Read"], ReadData(data), c)
    BY <1>0, <2>1, ReadWritten DEF c, b
  <2> QED  BY <1>10, <1>11, <2>2, StructAccepted
<1>17. Answer = parseBody(Client, head, p)
  BY <1>7, <1>9, HeaderSizeLemma, Zenon DEF Answer, head, p
<1> QED  BY <1>15, <1>16, <1>17, Zenon

(* updateMessageSize keeps the type and the tag.                           *)
LEMMA KeepsType ==
  ASSUME NEW s, NEW p, NEW h
  PROVE  /\ updateMessageSize(s, p, h).header.type = h.type
         /\ updateMessageSize(s, p, h).header.tag = h.tag
BY DEF updateMessageSize

(* updateMessageSize over a message at the beginning of the buffer         *)
LEMMA UpdateAtZero ==
  ASSUME NEW s, IsByteWriter(s), s.lim < U32Range, 7 <= s.pos,
         NEW h \in Headers, Holds(s, 0, HeaderBytes(h)),
         NEW u, u = updateMessageSize(s, 0, h)
  PROVE  /\ IsByteWriter(u.out) /\ u.out.pos = s.pos /\ u.out.lim = s.lim
         /\ u.header \in Headers /\ u.header.messageSize = s.pos
         /\ u.header.type = h.type /\ u.header.tag = h.tag
         /\ Holds(u.out, 0, HeaderBytes(u.header))
         /\ \A q \in Nat, a \in Seq(Nat) : 7 <= q /\ Holds(s, q, a) => Holds(u.out, q, a)
<1>1. 0 \in Nat /\ 0 + 7 = 7
  OBVIOUS
<1>2. Behind(s, s, 0) /\ s.pos \in Nat /\ s.pos - 0 = s.pos /\ 0 <= s.pos
  <2>1. Behind(s, s, 0) /\ s.pos \in Nat
    BY <1>1, SameBehind
  <2> QED  BY <2>1
<1>3. Behind(s, u.out, 0) /\ u.out.pos = s.pos /\ u.header \in Headers
  BY <1>1, <1>2, UpdateBehind
<1>4. IsByteWriter(u.out)
  BY <1>3 DEF Behind
<1>5. 0 + 7 <= s.pos
  BY <1>1
<1>6. /\ u.header.messageSize = s.pos - 0
      /\ u.out.lim = s.lim
      /\ Holds(s, 0, HeaderBytes(h)) => Holds(u.out, 0, HeaderBytes(u.header))
      /\ \A q \in Nat, a \in Seq(Nat) : 0 + 7 <= q /\ Holds(s, q, a) => Holds(u.out, q, a)
  BY <1>1, <1>5, UpdateWire, Zenon
<1>7. u.header.type = h.type /\ u.header.tag = h.tag
  BY KeepsType
<1> QED  BY <1>1, <1>2, <1>3, <1>4, <1>6, <1>7, Zenon

(* The constructor leaves an answer without data.                          *)
LEMMA StartIsAnswer ==
  ASSUME NEW lim \in Limits, 11 <= lim, StartAnswer(lim)
  PROVE  IsAnswer(out', header', <<>>) /\ dataPosition' = 7 /\ out'.lim = lim
<1> DEFINE blank  == [mem |-> [i \in 0..(lim - 1) |-> 0], pos |-> 0, lim |-> lim]
           h      == [messageSize |-> headerSize, type |-> RRead, tag |-> Tag]
           headed == WriteHeader(blank, h)
           z      == U32Bytes(0)
           s      == Write(headed, z)
           u      == updateMessageSize(s, 0, h)
<1>1. lim \in Nat /\ 7 + lim < U32Range
  BY BuffersAssumption, HeaderSizeLemma
<1>2. out' = u.out /\ header' = u.header /\ dataPosition' = headed.pos
  BY Zenon DEF StartAnswer
<1>3. h \in Headers /\ h.type = RRead /\ h.tag = Tag
  BY StatAgrees, HeaderSizeLemma DEF Headers, Tag
<1>4. IsByteWriter(blank) /\ blank.pos = 0 /\ blank.lim = lim
  BY <1>1 DEF IsByteWriter
<1> HIDE DEF h, blank
<1>5. blank.pos + 7 <= blank.lim /\ blank.pos + 7 = 7
  BY <1>1, <1>4
<1>6. IsByteWriter(headed) /\ headed.lim = lim /\ headed.pos = 7 /\ Holds(headed, 0, HeaderBytes(h))
  BY <1>3, <1>4, <1>5, WriteHeaderLemma, Zenon
<1> HIDE DEF headed
<1>7. z \in Seq(Nat) /\ Len(z) = 4
  BY U32BytesLemma
<1>8. HeaderBytes(h) \in Seq(Nat) /\ Len(HeaderBytes(h)) = 7
  BY <1>3, HeaderBytesLemma
<1> HIDE DEF z
<1>9. /\ IsByteWriter(s) /\ s.lim = headed.lim /\ s.pos = headed.pos + Len(z)
      /\ Holds(s, headed.pos, z)
      /\ \A p \in Nat, a \in Seq(Nat) :
           Holds(headed, p, a) /\ (p + Len(a) <= headed.pos \/ headed.pos + Len(z) <= p) => Holds(s, p, a)
  <2>1. headed.pos + Len(z) <= headed.lim
    BY <1>1, <1>6, <1>7
  <2> QED  BY <1>6, <1>7, <2>1, WriteFits
<1> HIDE DEF s
<1>10. IsByteWriter(s) /\ s.lim = lim /\ s.pos = 11 /\ Holds(s, 7, z)
  BY <1>6, <1>7, <1>9
<1>11. Holds(s, 0, HeaderBytes(h))
  <2>1. 0 \in Nat /\ 0 + Len(HeaderBytes(h)) <= headed.pos
    BY <1>6, <1>8
  <2> QED  BY <1>6, <1>8, <1>9, <2>1, Zenon
<1>12. s.lim < U32Range /\ 7 <= s.pos
  <2>1. U32Range \in Nat
    BY RangeLemma
  <2> QED  BY <1>1, <1>10, <2>1
<1>13. /\ IsByteWriter(u.out) /\ u.out.pos = s.pos /\ u.out.lim = s.lim
       /\ u.header \in Headers /\ u.header.messageSize = s.pos
       /\ u.header.type = h.type /\ u.header.tag = h.tag
       /\ Holds(u.out, 0, HeaderBytes(u.header))
       /\ \A q \in Nat, a \in Seq(Nat) : 7 <= q /\ Holds(s, q, a) => Holds(u.out, q, a)
  BY <1>3, <1>10, <1>11, <1>12, UpdateAtZero
<1> HIDE DEF u
<1>14. Holds(u.out, 7, z)
  <2>1. 7 \in Nat /\ 7 <= 7
    OBVIOUS
  <2> QED  BY <1>7, <1>10, <1>13, <2>1, Zenon
<1>15. Holds(u.out, 11, <<>>)
  <2>1. 11 \in Nat /\ 11 <= u.out.lim
    BY <1>10, <1>13
  <2> QED  BY <2>1, HoldsNothing
<1>16. <<>> \in Seq(Nat) /\ Len(<<>>) = 0 /\ 11 = 11 + 0
  OBVIOUS
<1>17. /\ IsByteWriter(out') /\ 7 + out'.lim < U32Range
       /\ header' \in Headers /\ header'.type = RRead /\ header'.tag = Tag
       /\ header'.messageSize = out'.pos
       /\ <<>> \in Seq(Nat) /\ out'.pos = 11 + Len(<<>>)
       /\ Holds(out', 0, HeaderBytes(header'))
       /\ Holds(out', 7, U32Bytes(Len(<<>>)))
       /\ Holds(out', 11, <<>>)
  BY <1>1, <1>2, <1>3, <1>10, <1>13, <1>14, <1>15, <1>16, Zenon DEF z
<1>18. IsAnswer(out', header', <<>>)
  BY <1>17 DEF IsAnswer
<1> QED  BY <1>2, <1>6, <1>10, <1>13, <1>18, Zenon

(* updateDataSize, behind an entry for which there was room, leaves an     *)
(* answer with the entry.                                                  *)
LEMMA AddedToAnswer ==
  ASSUME NEW data, IsAnswer(out, header, data), NEW w \in Seq(Nat), out.pos + Len(w) <= out.lim,
         dataPosition = 7, updateDataSize(Write(out, w))
  PROVE  IsAnswer(out', header', data \o w) /\ out'.lim = out.lim
<1> DEFINE s == Write(out, w)
           e == data \o w
           n == Len(e)
           b == U32Bytes(n)
           m == MoveTo(s, 7)
           t == Write(m, b)
           q == MoveTo(t, s.pos)
           H == HeaderBytes(header)
           u == updateMessageSize(q, 0, header)
<1>0. /\ IsByteWriter(out) /\ 7 + out.lim < U32Range
      /\ header \in Headers /\ header.type = RRead /\ header.tag = Tag
      /\ data \in Seq(Nat) /\ out.pos = 11 + Len(data)
      /\ Holds(out, 0, H) /\ Holds(out, 11, data)
  BY DEF IsAnswer
<1>1. out.lim \in Nat /\ out.pos \in Nat /\ out.pos <= out.lim
  BY <1>0 DEF IsByteWriter
<1>2. H \in Seq(Nat) /\ Len(H) = 7
  BY <1>0, HeaderBytesLemma
<1>3. e \in Seq(Nat) /\ n \in Nat
  <2>1. e \in Seq(Nat)
    BY <1>0, ConcatLemma
  <2> HIDE DEF e
  <2> QED  BY <2>1
<1>4. IsByteWriter(s) /\ s.lim = out.lim /\ Holds(s, 11, e) /\ s.pos = 11 + n
  <2>1. Fits(out, Len(w)) /\ 11 \in Nat
    BY DEF Fits
  <2> QED  BY <1>0, <2>1, WriteOn
<1> HIDE DEF H
<1>5. Holds(s, 0, H)
  <2>1. 0 \in Nat /\ 0 + Len(H) <= out.pos
    <3>1. Len(data) \in Nat
      BY <1>0
    <3> QED  BY <1>0, <1>2, <3>1
  <2> QED  BY <1>0, <1>2, <2>1, HoldsKept
<1>6. updateDataSize(s) => out' = u.out /\ header' = u.header
  <2> HIDE DEF s, e
  <2>1. s.pos - dataPosition - 4 = n
    <3> HIDE DEF n
    <3> QED  BY <1>3, <1>4
  <2> HIDE DEF n
  <2>2. Patch(s, dataPosition, U32Bytes(s.pos - dataPosition - 4)) = q
    BY <2>1, Zenon DEF Patch
  <2> QED  BY <2>2, Zenon DEF updateDataSize
<1>7. out' = u.out /\ header' = u.header
  BY <1>6
<1> HIDE DEF s, e, n
<1>8. b \in Seq(Nat) /\ Len(b) = 4
  BY <1>3, U32BytesLemma
<1> HIDE DEF b
<1>9. s.pos \in Nat /\ 7 <= s.pos /\ s.pos <= s.lim /\ 11 <= s.lim /\ s.lim \in Nat
  <2>1. s.pos <= s.lim
    BY <1>4 DEF IsByteWriter
  <2> QED  BY <1>1, <1>3, <1>4, <2>1
<1>10. IsByteWriter(m) /\ m.lim = s.lim /\ m.pos = 7 /\ Holds(m, 0, H) /\ Holds(m, 11, e)
  <2>1. 7 \in Nat /\ 7 <= s.lim
    BY <1>9
  <2>2. IsByteWriter(m) /\ m.lim = s.lim /\ m.pos = IF 7 <= s.lim THEN 7 ELSE s.pos
    BY <1>4, <2>1, MoveToLemma
  <2>3. Holds(m, 0, H) /\ Holds(m, 11, e)
    BY <1>4, <1>5, <2>1, HoldsMoved
  <2> QED  BY <2>1, <2>2, <2>3, Zenon
<1> HIDE DEF m
<1>11. /\ IsByteWriter(t) /\ t.lim = m.lim /\ t.pos = m.pos + Len(b) /\ Holds(t, m.pos, b)
       /\ \A p \in Nat, a \in Seq(Nat) :
            Holds(m, p, a) /\ (p + Len(a) <= m.pos \/ m.pos + Len(b) <= p) => Holds(t, p, a)
  <2>1. m.pos + Len(b) <= m.lim
    BY <1>8, <1>9, <1>10
  <2> QED  BY <1>8, <1>10, <2>1, WriteFits
<1> HIDE DEF t
<1>12. IsByteWriter(t) /\ t.lim = s.lim /\ Holds(t, 7, b) /\ Holds(t, 0, H) /\ Holds(t, 11, e)
  <2>1. 0 \in Nat /\ 0 + Len(H) <= m.pos /\ 11 \in Nat /\ m.pos + Len(b) <= 11
    BY <1>2, <1>8, <1>10
  <2>2. Holds(t, 0, H)
    BY <1>2, <1>10, <1>11, <2>1, Zenon
  <2>3. Holds(t, 11, e)
    BY <1>3, <1>10, <1>11, <2>1, Zenon
  <2> QED  BY <1>10, <1>11, <2>2, <2>3, Zenon
<1>13. /\ IsByteWriter(q) /\ q.lim = s.lim /\ q.pos = s.pos
       /\ Holds(q, 7, b) /\ Holds(q, 0, H) /\ Holds(q, 11, e)
  <2>1. IsByteWriter(q) /\ q.lim = t.lim /\ q.pos = IF s.pos <= t.lim THEN s.pos ELSE t.pos
    BY <1>9, <1>12, MoveToLemma
  <2>2. Holds(q, 7, b) /\ Holds(q, 0, H) /\ Holds(q, 11, e)
    BY <1>9, <1>12, HoldsMoved
  <2>3. q.pos = s.pos
    BY <1>9, <1>12, <2>1, Zenon
  <2> QED  BY <1>12, <2>1, <2>2, <2>3, Zenon
<1> HIDE DEF q
<1>14. q.lim < U32Range /\ 7 <= q.pos
  <2>1. U32Range \in Nat
    BY RangeLemma
  <2> QED  BY <1>0, <1>1, <1>4, <1>9, <1>13, <2>1
<1>15. /\ IsByteWriter(u.out) /\ u.out.pos = q.pos /\ u.out.lim = q.lim
       /\ u.header \in Headers /\ u.header.messageSize = q.pos
       /\ u.header.type = header.type /\ u.header.tag = header.tag
       /\ Holds(u.out, 0, HeaderBytes(u.header))
       /\ \A p \in Nat, a \in Seq(Nat) : 7 <= p /\ Holds(q, p, a) => Holds(u.out, p, a)
  BY <1>0, <1>13, <1>14, UpdateAtZero DEF H
<1> HIDE DEF u
<1>16. Holds(u.out, 7, b) /\ Holds(u.out, 11, e)
  <2>1. 7 \in Nat /\ 7 <= 7 /\ 11 \in Nat /\ 7 <= 11
    OBVIOUS
  <2> QED  BY <1>3, <1>8, <1>13, <1>15, <2>1, Zenon
<1>17. /\ IsByteWriter(out') /\ 7 + out'.lim < U32Range
       /\ header' \in Headers /\ header'.type = RRead /\ header'.tag = Tag
       /\ header'.messageSize = out'.pos
       /\ e \in Seq(Nat) /\ out'.pos = 11 + Len(e)
       /\ Holds(out', 0, HeaderBytes(header'))
       /\ Holds(out', 7, U32Bytes(Len(e)))
       /\ Holds(out', 11, e)
  BY <1>0, <1>3, <1>4, <1>7, <1>13, <1>15, <1>16, Zenon DEF b, n
<1>18. IsAnswer(out', header', data \o w)
  BY <1>17 DEF IsAnswer, e
<1> QED  BY <1>4, <1>7, <1>13, <1>15, <1>18, Zenon

-----------------------------------------------------------------------------
(* The inductive invariant *)

(* The client has the first entries of the directory, and its offset is    *)
(* the boundary behind them.                                               *)
ClientInv ==
  /\ Len(got) \in 0..Len(dir) /\ got = SubSeq(dir, 1, Len(got))
  /\ clientOffset = SizeTo(dir, Len(got))
  /\ eof => got = dir

(* The answer holds the entries from there up to the k-th: up to the last  *)
(* one given to encode, while encode has not refused one.                  *)
AnswerIs(k) ==
  /\ IsAnswer(out, header, Entries(dir, Len(got), k))
  /\ size = Len(Entries(dir, Len(got), k))
  /\ more => k = IF seen > Len(got) THEN seen ELSE Len(got)
  /\ ~more => k > Len(got)

ServerInv ==
  /\ ListingInv
  /\ offset = clientOffset
  /\ seen \in 0..Len(dir) /\ traversed = SizeTo(dir, seen)
  /\ dataPosition = 7 /\ 11 + maxBytes <= out.lim
  /\ \A i \in 1..Len(dir) : protocolSize(dir[i]) <= maxBytes
  /\ \E k \in Len(got)..Len(dir) : AnswerIs(k)
  /\ pc = "parser" => ~more \/ seen = Len(dir)

DirInv ==
  /\ dir \in Dirs
  /\ ~tight => ClientInv /\ (pc \in {"server", "parser"} => ServerInv)

(* The invariant holds before the first request.                           *)
LEMMA InitDir == DInit => DirInv
<1> SUFFICES ASSUME DInit  PROVE DirInv
  OBVIOUS
<1>1. dir \in Dirs /\ pc = "client" /\ clientOffset = 0 /\ got = <<>> /\ eof = FALSE
  BY DEF DInit
<1>2. SizeTo(dir, 0) = 0 /\ Len(dir) \in Nat
  BY <1>1, SizeToLemma, DirLemma
<1>3. Len(got) = 0
  BY <1>1
<1>4. SubSeq(dir, 1, 0) = <<>>
  <2>1. SubSeq(dir, 0 + 1, 0) = Part(dir, 0, 0 - 0) /\ Part(dir, 0, 0) = <<>>
    <3>1. 0 \in Nat /\ 0 \in 0..Len(dir)
      BY <1>2
    <3> QED  BY <1>1, <3>1, PartLemma
  <2>2. 0 + 1 = 1 /\ 0 - 0 = 0
    OBVIOUS
  <2> QED  BY <2>1, <2>2, Zenon
<1>5. Len(got) \in 0..Len(dir)
  BY <1>2, <1>3
<1>6. ClientInv
  BY <1>1, <1>2, <1>3, <1>4, <1>5, Zenon DEF ClientInv
<1>7. pc \notin {"server", "parser"}
  BY <1>1
<1> QED  BY <1>1, <1>6, <1>7, Zenon DEF DirInv

(* The client and the directory stay as they are.                          *)
LEMMA SameClient ==
  ASSUME ClientInv, UNCHANGED <<dir, got, clientOffset, eof>>
  PROVE  ClientInv'
BY DEF ClientInv, SizeTo, Entries, StatChunks

(* The request: an empty answer is an answer with no entries.              *)
LEMMA AskDir ==
  ASSUME DirInv, NEW c \in Counts, NEW lim \in Limits, Ask(c, lim)
  PROVE  DirInv'
<1>1. /\ NewListing(c, clientOffset) /\ StartAnswer(lim) /\ pc' = "server"
      /\ tight' = (tight \/ lim < headerSize + 4 + c \/ \E n \in Biggest(dir) : n > c)
      /\ dir' = dir /\ clientOffset' = clientOffset /\ got' = got /\ eof' = eof
  BY DEF Ask
<1>2. dir \in Dirs /\ dir' \in Dirs
  BY <1>1 DEF DirInv
<1> SUFFICES ASSUME ~tight'  PROVE ClientInv' /\ ServerInv'
  BY <1>2 DEF DirInv
<1>3. ~tight /\ ~(lim < headerSize + 4 + c) /\ \A n \in Biggest(dir) : ~(n > c)
  BY <1>1
<1>4. ClientInv
  BY <1>3 DEF DirInv
<1>5. ClientInv'
  BY <1>1, <1>4, SameClient
<1>6. c \in Nat /\ lim \in Nat /\ 11 + c <= lim /\ 11 <= lim
  <2>1. c \in Nat /\ lim \in Nat
    BY ListingAssumption, BuffersAssumption
  <2> QED  BY <1>3, <2>1, HeaderSizeLemma
<1>7. Len(dir) \in Nat /\ Len(got) \in 0..Len(dir) /\ Len(got) \in Nat
      /\ Len(got) \in Len(got)..Len(dir) /\ 0 \in 0..Len(dir)
  <2>1. Len(dir) \in Nat /\ Len(got) \in 0..Len(dir)
    BY <1>2, <1>4, DirLemma DEF ClientInv
  <2> QED  BY <2>1
<1>8. clientOffset \in Nat
  BY <1>2, <1>4, <1>7, SizeToLemma DEF ClientInv
<1>9. ListingInv'
  BY <1>1, <1>8, NewListingStep
<1>10. IsAnswer(out', header', <<>>) /\ dataPosition' = 7 /\ out'.lim = lim
  BY <1>1, <1>6, StartIsAnswer
<1>11. /\ offset' = clientOffset /\ maxBytes' = c /\ traversed' = 0 /\ seen' = 0 /\ size' = 0
       /\ more' = TRUE
  BY <1>1 DEF NewListing
<1>12. \A i \in 1..Len(dir') : protocolSize(dir'[i]) <= maxBytes'
  <2> SUFFICES ASSUME NEW i \in 1..Len(dir)  PROVE protocolSize(dir[i]) <= c
    BY <1>1, <1>11
  <2>1. protocolSize(dir[i]) \in Nat /\ i \in DOMAIN dir
    BY <1>2, DirLemma
  <2>2. protocolSize(dir[i]) \in Biggest(dir)
    BY <2>1 DEF Biggest
  <2>3. ~(protocolSize(dir[i]) > c)
    BY <1>3, <2>2
  <2> QED  BY <1>6, <2>1, <2>3
<1>13. AnswerIs(Len(got))'
  <2> DEFINE g == Len(got)
  <2>1. Entries(dir', Len(got'), g') = <<>>
    BY <1>1, <1>7, EntriesNone, Zenon
  <2>2. size' = Len(Entries(dir', Len(got'), g'))
    BY <1>11, <2>1
  <2>3. Len(got)' = IF seen' > Len(got') THEN seen' ELSE Len(got')
    BY <1>1, <1>7, <1>11
  <2> QED  BY <1>10, <1>11, <2>1, <2>2, <2>3, Zenon DEF AnswerIs
<1>14. \E k \in Len(got')..Len(dir') : AnswerIs(k)'
  BY <1>1, <1>7, <1>13
<1>15. traversed' = SizeTo(dir', seen')
  BY <1>1, <1>2, <1>11, SizeToLemma, Zenon
<1>16. seen' \in 0..Len(dir') /\ 11 + maxBytes' <= out'.lim /\ pc' # "parser" /\ offset' = clientOffset'
  BY <1>1, <1>6, <1>7, <1>10, <1>11
<1>17. ServerInv'
  BY <1>9, <1>10, <1>12, <1>14, <1>15, <1>16, Zenon DEF ServerInv
<1> QED  BY <1>5, <1>17

(* encode meets the boundaries of the entries one after the other.         *)
LEMMA NextBoundary ==
  ASSUME dir \in Dirs, ClientInv, ServerInv, seen < Len(dir),
         NEW n, n = protocolSize(dir[seen + 1]), Traverse(n)
  PROVE  /\ n \in Nat \ {0} /\ n <= maxBytes
         /\ seen \in Nat /\ Len(dir) \in Nat /\ Len(got) \in 0..Len(dir) /\ Len(got) \in Nat
         /\ seen' = seen + 1 /\ seen + 1 \in 0..Len(dir) /\ seen + 1 \in 1..Len(dir)
         /\ traversed' = SizeTo(dir, seen + 1)
         /\ traversed' > offset <=> seen >= Len(got)
<1>1. Len(dir) \in Nat /\ seen \in 0..Len(dir) /\ Len(got) \in 0..Len(dir)
  BY DirLemma DEF ClientInv, ServerInv
<1>2. seen \in Nat /\ Len(got) \in Nat /\ seen + 1 \in 0..Len(dir) /\ seen + 1 \in 1..Len(dir)
  BY <1>1
<1>3. n \in Nat \ {0} /\ n <= maxBytes
  BY <1>2, DirLemma DEF ServerInv
<1>4. traversed' = traversed + n /\ seen' = seen + 1
  BY DEF Traverse
<1>5. SizeTo(dir, seen + 1) = SizeTo(dir, seen) + n
  BY <1>1, SizeToLemma
<1>6. traversed' = SizeTo(dir, seen + 1)
  BY <1>4, <1>5, Zenon DEF ServerInv
<1>7. offset = SizeTo(dir, Len(got))
  BY Zenon DEF ClientInv, ServerInv
<1>8. Len(got) < seen + 1 <=> SizeTo(dir, Len(got)) < SizeTo(dir, seen + 1)
  BY <1>1, <1>2, SizeToGrows
<1>9. traversed' > offset <=> seen >= Len(got)
  <2>1. SizeTo(dir, Len(got)) \in Nat /\ SizeTo(dir, seen + 1) \in Nat
    BY <1>1, <1>2, SizeToLemma
  <2>2. Len(got) < seen + 1 <=> seen >= Len(got)
    BY <1>2
  <2>3. traversed' > offset <=> SizeTo(dir, Len(got)) < SizeTo(dir, seen + 1)
    BY <1>6, <1>7, <2>1
  <2> QED  BY <1>8, <2>2, <2>3
<1> QED  BY <1>1, <1>2, <1>3, <1>4, <1>6, <1>9

(* What a step of encode leaves for the invariant to show                  *)
LEMMA ServerStep ==
  ASSUME dir \in Dirs, ClientInv, ServerInv, pc = "server", seen < Len(dir),
         Traverse(protocolSize(dir[seen + 1])), ListingInv', out'.lim = out.lim,
         UNCHANGED <<dir, dataPosition, pc, clientOffset, got, eof>>,
         NEW k \in Len(got)..Len(dir), AnswerIs(k)'
  PROVE  ServerInv'
<1>1. /\ seen' = seen + 1 /\ seen + 1 \in 0..Len(dir)
      /\ traversed' = SizeTo(dir, seen + 1)
  BY NextBoundary
<1>2. offset' = offset /\ maxBytes' = maxBytes
  BY DEF Traverse
<1>3. \E j \in Len(got')..Len(dir') : AnswerIs(j)'
  OBVIOUS
<1>4. seen' \in 0..Len(dir') /\ traversed' = SizeTo(dir', seen')
  BY <1>1, Zenon
<1>5. pc' # "parser"
  OBVIOUS
<1>6. offset' = clientOffset' /\ dataPosition' = 7 /\ 11 + maxBytes' <= out'.lim
  BY <1>2, Zenon DEF ServerInv
<1>7. \A i \in 1..Len(dir') : protocolSize(dir'[i]) <= maxBytes'
  BY <1>2, Zenon DEF ServerInv
<1> QED  BY <1>3, <1>4, <1>5, <1>6, <1>7, Zenon DEF ServerInv

(* An entry the client has already got: it is in front of the offset.      *)
LEMMA SkipDir ==
  ASSUME dir \in Dirs, ClientInv, ServerInv, pc = "server", seen < Len(dir),
         Skip(protocolSize(dir[seen + 1])),
         UNCHANGED <<out, header, dir, dataPosition, pc, clientOffset, got, eof>>
  PROVE  ServerInv'
<1> DEFINE n == protocolSize(dir[seen + 1])
           g == Len(got)
<1>1. Traverse(n) /\ traversed' <= offset /\ more' = TRUE /\ size' = size
  BY DEF Skip
<1>2. /\ n \in Nat \ {0} /\ seen \in Nat /\ g \in Nat /\ seen' = seen + 1
      /\ Len(dir) \in Nat /\ seen + 1 \in 0..Len(dir)
      /\ traversed' = SizeTo(dir, seen + 1)
      /\ traversed' > offset <=> seen >= g
  BY <1>1, NextBoundary
<1>3. ListingInv' /\ more
  BY <1>2, SkipStep DEF ServerInv
<1>4. ~(seen >= g)
  <2>1. traversed' \in Nat /\ offset \in Nat
    BY <1>2, <1>3, SizeToLemma DEF ServerInv, ListingInv, ListingTypeOK
  <2> QED  BY <1>1, <1>2, <2>1
<1>5. PICK k \in g..Len(dir) : AnswerIs(k)
  BY DEF ServerInv
<1>6. k = g /\ k = IF seen' > Len(got') THEN seen' ELSE Len(got')
  <2>1. k = IF seen > g THEN seen ELSE g
    BY <1>3, <1>5 DEF AnswerIs
  <2>2. ~(seen > g) /\ ~(seen + 1 > g)
    BY <1>2, <1>4
  <2> QED  BY <1>2, <2>1, <2>2, Zenon
<1>7. AnswerIs(k)'
  BY <1>1, <1>5, <1>6, Zenon DEF AnswerIs, Entries, StatChunks
<1> QED  BY <1>1, <1>3, <1>5, <1>7, ServerStep

(* An entry too many: there is one in the answer, or it would fit.         *)
LEMMA RefuseDir ==
  ASSUME dir \in Dirs, ClientInv, ServerInv, pc = "server", seen < Len(dir),
         Refuse(protocolSize(dir[seen + 1])),
         UNCHANGED <<out, header, dir, dataPosition, pc, clientOffset, got, eof>>
  PROVE  ServerInv'
<1> DEFINE n == protocolSize(dir[seen + 1])
           g == Len(got)
<1>1. Traverse(n) /\ Count(n) /\ encoded' > maxBytes /\ more' = FALSE /\ size' = size
  BY DEF Refuse
<1>2. n \in Nat \ {0} /\ n <= maxBytes /\ g \in Nat /\ Len(dir) \in Nat
  BY <1>1, NextBoundary
<1>3. ListingInv' /\ ListingInv
  BY <1>2, RefuseStep DEF ServerInv
<1>4. PICK k \in g..Len(dir) : AnswerIs(k)
  BY DEF ServerInv
<1>5. k > g
  <2>1. CASE ~more
    BY <1>4, <2>1 DEF AnswerIs
  <2>2. CASE more
    <3>1. encoded' = encoded + n /\ size = encoded /\ encoded \in Nat /\ maxBytes \in Nat
      BY <1>1, <1>2, <1>3, <2>2, CountLemma DEF ListingInv, Counted, ListingTypeOK
    <3>2. size # 0
      BY <1>1, <1>2, <3>1
    <3>3. k # g
      <4>1. SUFFICES ASSUME k = g  PROVE FALSE
        OBVIOUS
      <4>2. Entries(dir, g, k) = <<>>
        BY <1>2, <4>1, EntriesNone, Zenon
      <4>3. Len(<<>>) = 0
        OBVIOUS
      <4> QED  BY <1>4, <3>2, <4>2, <4>3, Zenon DEF AnswerIs
    <3> QED  BY <1>2, <3>3
  <2> QED  BY <2>1, <2>2
<1>6. AnswerIs(k)'
  BY <1>1, <1>4, <1>5, Zenon DEF AnswerIs, Entries, StatChunks
<1> QED  BY <1>1, <1>3, <1>4, <1>6, ServerStep

(* The next entry, for which there is room                                 *)
LEMMA PutDir ==
  ASSUME dir \in Dirs, ClientInv, ServerInv, pc = "server", seen < Len(dir),
         Put(protocolSize(dir[seen + 1])), updateDataSize(WriteStat(out, dir[seen + 1])),
         UNCHANGED <<dir, dataPosition, pc, clientOffset, got, eof>>
  PROVE  ServerInv'
<1> DEFINE n == protocolSize(dir[seen + 1])
           g == Len(got)
           w == StatBytes(dir[seen + 1])
           x == EncodeAll(StatFields(EncNested), dir[seen + 1])
           e == Entries(dir, g, seen)
<1>1. Traverse(n) /\ traversed' > offset /\ more' = TRUE /\ size' = size + n
  BY DEF Put
<1>2. /\ n \in Nat \ {0} /\ seen \in Nat /\ g \in Nat /\ seen' = seen + 1
      /\ Len(dir) \in Nat /\ seen + 1 \in 1..Len(dir) /\ seen >= g
  BY <1>1, NextBoundary
<1>3. ListingInv' /\ more
  BY <1>2, PutStep DEF ServerInv
<1>4. PICK k \in g..Len(dir) : AnswerIs(k)
  BY DEF ServerInv
<1>5. k = seen
  <2>1. k = IF seen > g THEN seen ELSE g
    BY <1>3, <1>4 DEF AnswerIs
  <2> QED  BY <1>2, <2>1
<1>6. IsAnswer(out, header, e) /\ size = Len(e)
  BY <1>4, <1>5, Zenon DEF AnswerIs
<1>7. w \in Seq(Nat) /\ Len(w) = n /\ x \in Seq(Seq(Nat))
  <2>1. w \in Seq(Nat) /\ Len(w) = n /\ IsStruct(StatFields(EncNested), dir[seen + 1])
    BY <1>2, DirLemma
  <2> QED  BY <2>1, MessageWire DEF IsStruct
<1>8. out.pos + Len(w) <= out.lim /\ IsByteWriter(out)
  <2>1. out.pos = 11 + size /\ IsByteWriter(out)
    BY <1>6, Zenon DEF IsAnswer
  <2>2. size' <= maxBytes' /\ maxBytes' = maxBytes /\ size \in Nat
    BY <1>1, <1>3 DEF ListingInv, WithinCount, Traverse, ServerInv, ListingTypeOK
  <2>3. 11 + maxBytes <= out.lim /\ maxBytes \in Nat
    BY DEF ServerInv, ListingInv, ListingTypeOK
  <2>4. out.lim \in Nat /\ out.pos \in Nat
    BY <2>1 DEF IsByteWriter
  <2>5. size + n <= maxBytes
    BY <1>1, <2>2
  <2>6. (11 + size) + n <= out.lim
    BY <1>2, <2>2, <2>3, <2>4, <2>5
  <2> QED  BY <1>7, <2>1, <2>6, Zenon
<1>9. WriteStat(out, dir[seen + 1]) = Write(out, w)
  <2>1. w = FlattenSeq(x)
    BY Zenon DEF StatBytes
  <2> HIDE DEF w, x
  <2>2. WriteAll(out, x) = Write(out, w)
    BY <1>7, <1>8, <2>1, WriteAllFits
  <2> QED  BY <2>2, Zenon DEF WriteStat, x
<1>10. updateDataSize(Write(out, w))
  BY <1>9, Zenon
<1>11. dataPosition = 7
  BY DEF ServerInv
<1>12. Entries(dir, g, seen + 1) = e \o w /\ Len(Entries(dir, g, seen + 1)) = Len(e) + n
  <2>1. seen \in g..Len(dir)
    BY <1>2
  <2> QED  BY <1>2, <2>1, EntriesMore
<1> HIDE DEF w, e, x
<1>13. IsAnswer(out', header', e \o w) /\ out'.lim = out.lim
  BY <1>6, <1>7, <1>8, <1>10, <1>11, AddedToAnswer
<1>14. PICK j \in g..Len(dir) : j = seen + 1
  BY <1>2
<1>15. AnswerIs(j)'
  <2>1. Entries(dir', Len(got'), j) = e \o w
    BY <1>12, <1>14, Zenon
  <2>2. size' = Len(Entries(dir', Len(got'), j))
    BY <1>1, <1>6, <1>12, <1>14, Zenon
  <2>3. j = IF seen' > Len(got') THEN seen' ELSE Len(got')
    BY <1>2, <1>14
  <2> QED  BY <1>1, <1>13, <2>1, <2>2, <2>3, Zenon DEF AnswerIs
<1> QED  BY <1>1, <1>3, <1>13, <1>14, <1>15, ServerStep

(* The client reads the data of the answer.                                *)
LEMMA AnswerIsRead ==
  ASSUME NEW k, AnswerIs(k)
  PROVE  /\ Answer.err = "none"
         /\ Answer.val[<<"data">>] = Entries(dir, Len(got), k)
<1> DEFINE d == Entries(dir, Len(got), k)
<1>1. IsAnswer(out, header, d)
  BY DEF AnswerIs
<1> HIDE DEF d
<1>2. Answer = Accepted("Read", ReadData(d))
  BY <1>1, AnswerRead
<1>3. Answer.err = "none" /\ Answer.val = ReadData(d)
  BY <1>2 DEF Accepted
<1>4. ReadData(d)[<<"data">>] = d
  BY DEF ReadData
<1> QED  BY <1>3, <1>4, Zenon DEF d

(* Consecutive parts of a directory are a part of it.                      *)
LEMMA PartsJoin ==
  ASSUME NEW d \in Dirs, NEW g \in 0..Len(d), NEW k \in g..Len(d)
  PROVE  /\ SubSeq(d, 1, g) \o SubSeq(d, g + 1, k) = SubSeq(d, 1, k)
         /\ Len(SubSeq(d, 1, k)) = k
         /\ SubSeq(d, 1, Len(d)) = d
<1> DEFINE T == {d[i] : i \in DOMAIN d}
           n == Len(d)
<1>1. d \in Seq(T) /\ n \in Nat
  BY DirLemma
<1> HIDE DEF T
<1>2. /\ \A a, c \in Nat : a <= c /\ c <= n =>
            /\ SubSeq(d, a + 1, c) \in Seq(T) /\ Len(SubSeq(d, a + 1, c)) = c - a
      /\ \A a, c \in Nat : a <= c /\ c <= n =>
            \A j \in 1..(c - a) : SubSeq(d, a + 1, c)[j] = d[a + j]
  BY <1>1
<1> DEFINE Cut(a, c) == SubSeq(d, a + 1, c)
<1>3. \A c \in Nat : c <= n =>
         Cut(0, c) \in Seq(T) /\ Len(Cut(0, c)) = c /\ \A j \in 1..c : Cut(0, c)[j] = d[j]
  <2> SUFFICES ASSUME NEW c \in Nat, c <= n
               PROVE  /\ Cut(0, c) \in Seq(T) /\ Len(Cut(0, c)) = c
                      /\ \A j \in 1..c : Cut(0, c)[j] = d[j]
    OBVIOUS
  <2>1. 0 \in Nat /\ 0 <= c /\ c - 0 = c /\ \A j \in 1..c : 0 + j = j
    OBVIOUS
  <2>2. Cut(0, c) \in Seq(T) /\ Len(Cut(0, c)) = c - 0
    BY <1>2, <2>1
  <2>3. \A j \in 1..(c - 0) : Cut(0, c)[j] = d[0 + j]
    BY <1>2, <2>1
  <2> QED  BY <2>1, <2>2, <2>3, Zenon
<1>4. g \in Nat /\ k \in Nat /\ g <= k /\ k <= n /\ g <= n
  BY <1>1
<1>5. /\ Cut(g, k) \in Seq(T) /\ Len(Cut(g, k)) = k - g
      /\ \A j \in 1..(k - g) : Cut(g, k)[j] = d[g + j]
  BY <1>2, <1>4
<1>6. Cut(0, n) = d
  <2>1. n \in Nat /\ n <= n
    BY <1>1
  <2>2. Cut(0, n) \in Seq(T) /\ Len(Cut(0, n)) = n /\ \A j \in 1..n : Cut(0, n)[j] = d[j]
    BY <1>3, <2>1
  <2> HIDE DEF Cut
  <2>3. Cut(0, n) = [j \in 1..n |-> Cut(0, n)[j]] /\ d = [j \in 1..n |-> d[j]]
    BY <1>1, <2>2
  <2> QED  BY <2>2, <2>3, Zenon
<1> HIDE DEF Cut
<1> DEFINE a == Cut(0, g)
           b == Cut(g, k)
           c == a \o b
           f == Cut(0, k)
<1>7. /\ a \in Seq(T) /\ Len(a) = g /\ \A j \in 1..g : a[j] = d[j]
      /\ f \in Seq(T) /\ Len(f) = k /\ \A j \in 1..k : f[j] = d[j]
  BY <1>3, <1>4
<1>7a. a \in Seq(T) /\ b \in Seq(T)
  BY <1>5, <1>7, Zenon
<1> HIDE DEF a, b
<1>8. /\ c \in Seq(T) /\ Len(c) = Len(a) + Len(b)
      /\ \A i \in 1..Len(a) : c[i] = a[i]
      /\ \A i \in 1..Len(b) : c[Len(a) + i] = b[i]
  BY <1>7a, ConcatCells
<1> HIDE DEF c, f, n
<1>9. Len(c) = k
  <2>1. Len(c) = g + (k - g)
    BY <1>5, <1>7, <1>8, Zenon DEF b
  <2> QED  BY <1>4, <2>1
<1>10. \A i \in 1..k : c[i] = f[i]
  <2> SUFFICES ASSUME NEW i \in 1..k  PROVE c[i] = d[i]
    BY <1>7
  <2>1. CASE i <= g
    <3>1. i \in 1..g
      BY <1>4, <2>1
    <3> QED  BY <1>7, <1>8, <3>1, Zenon
  <2>2. CASE ~(i <= g)
    <3>1. PICK j \in 1..(k - g) : g + j = i
      <4>1. i - g \in 1..(k - g) /\ g + (i - g) = i
        BY <1>4, <2>2
      <4> QED  BY <4>1
    <3>2. c[g + j] = b[j] /\ b[j] = d[g + j]
      BY <1>5, <1>7, <1>8, Zenon DEF b
    <3> QED  BY <3>1, <3>2, Zenon
  <2> QED  BY <2>1, <2>2
<1>11. c = [i \in 1..k |-> c[i]] /\ f = [i \in 1..k |-> f[i]]
  BY <1>7, <1>8, <1>9
<1>12. c = f
  BY <1>10, <1>11, Zenon
<1>13. 0 + 1 = 1
  OBVIOUS
<1> QED  BY <1>6, <1>7, <1>12, <1>13, Zenon DEF a, b, c, f, n, Cut

(* The client takes the entries; an empty answer leaves none to come.      *)
LEMMA ReceiveDir ==
  ASSUME dir \in Dirs, ClientInv, ServerInv, Receive
  PROVE  /\ ClientInv'
         /\ eof' \/ Len(got') > Len(got)
<1> DEFINE g == Len(got)
           r == IF Answer.err = "none" THEN Answer.val[<<"data">>] ELSE << >>
<1>1. /\ pc = "parser" /\ clientOffset' = clientOffset + Len(r)
      /\ got' = got \o StatsIn(r) /\ eof' = (r = << >>) /\ dir' = dir
  BY Zenon DEF Receive
<1>2. Len(dir) \in Nat /\ g \in 0..Len(dir) /\ g \in Nat
  <2>1. Len(dir) \in Nat /\ g \in 0..Len(dir)
    BY DirLemma DEF ClientInv
  <2> QED  BY <2>1
<1>3. PICK k \in g..Len(dir) : AnswerIs(k)
  BY DEF ServerInv
<1>4. r = Entries(dir, g, k)
  BY <1>3, AnswerIsRead, Zenon
<1>5. StatsIn(r) = SubSeq(dir, g + 1, k)
  BY <1>2, <1>4, StatsRead, Zenon
<1> HIDE DEF r
<1>6. got' = SubSeq(dir, 1, k) /\ Len(got') = k /\ SubSeq(dir, 1, Len(dir)) = dir
  <2>1. got = SubSeq(dir, 1, g)
    BY DEF ClientInv
  <2>2. /\ SubSeq(dir, 1, g) \o SubSeq(dir, g + 1, k) = SubSeq(dir, 1, k)
        /\ Len(SubSeq(dir, 1, k)) = k /\ SubSeq(dir, 1, Len(dir)) = dir
    BY <1>2, PartsJoin
  <2>3. got' = SubSeq(dir, 1, g) \o SubSeq(dir, g + 1, k)
    BY <1>1, <1>5, <2>1, Zenon
  <2> QED  BY <2>2, <2>3, Zenon
<1>7. clientOffset' = SizeTo(dir, k)
  <2>1. SizeTo(dir, k) = SizeTo(dir, g) + Len(Entries(dir, g, k))
    BY <1>2, EntriesSize
  <2> QED  BY <1>1, <1>4, <2>1, Zenon DEF ClientInv
<1>8. ASSUME eof'  PROVE k = Len(dir)
  <2>1. r = <<>>
    BY <1>1, <1>8
  <2>2. SizeTo(dir, k) = SizeTo(dir, g)
    <3>1. SizeTo(dir, k) = SizeTo(dir, g) + Len(Entries(dir, g, k))
      BY <1>2, EntriesSize
    <3>2. Len(Entries(dir, g, k)) = 0
      BY <1>4, <2>1
    <3>3. SizeTo(dir, g) \in Nat
      BY <1>2, SizeToLemma
    <3> QED  BY <3>1, <3>2, <3>3
  <2>3. ~(g < k)
    <3>1. k \in 0..Len(dir)
      BY <1>2
    <3>2. g < k <=> SizeTo(dir, g) < SizeTo(dir, k)
      BY <1>2, <3>1, SizeToGrows
    <3>3. SizeTo(dir, g) \in Nat
      BY <1>2, SizeToLemma
    <3> QED  BY <2>2, <3>2, <3>3
  <2>4. k = g
    BY <1>2, <2>3
  <2>5. more
    <3>1. ~more => k > g
      BY <1>3 DEF AnswerIs
    <3> QED  BY <1>2, <2>3, <3>1
  <2>6. seen = Len(dir)
    BY <1>1, <2>5 DEF ServerInv
  <2>7. k = IF seen > g THEN seen ELSE g
    BY <1>3, <2>5 DEF AnswerIs
  <2> QED  BY <1>2, <2>4, <2>6, <2>7
<1>9. Len(got') \in 0..Len(dir')
  BY <1>1, <1>2, <1>6
<1>10. eof' => got' = dir'
  BY <1>1, <1>6, <1>8, Zenon
<1>11. clientOffset' = SizeTo(dir', Len(got')) /\ got' = SubSeq(dir', 1, Len(got'))
  BY <1>1, <1>6, <1>7, Zenon
<1>12. ASSUME ~eof'  PROVE Len(got') > Len(got)
  <2>1. k # g
    <3>1. SUFFICES ASSUME k = g  PROVE FALSE
      OBVIOUS
    <3>2. r = <<>>
      BY <1>2, <1>4, <3>1, EntriesNone, Zenon
    <3> QED  BY <1>1, <1>12, <3>2
  <2>2. k > g
    BY <1>2, <2>1
  <2> QED  BY <1>6, <2>2, Zenon
<1> QED  BY <1>9, <1>10, <1>11, <1>12, Zenon DEF ClientInv

(* The invariant is inductive.                                             *)
LEMMA DirStep ==
  ASSUME DirInv, [DNext]_dirVars
  PROVE  DirInv'
<1>1. CASE \E c \in Counts, lim \in Limits : Ask(c, lim)
  BY <1>1, AskDir
<1>2. CASE encode
  <2>1. /\ pc = "server" /\ seen < Len(dir)
        /\ UNCHANGED <<dir, dataPosition, pc, clientOffset, got, eof, tight>>
        /\ \/ Skip(protocolSize(dir[seen + 1])) /\ UNCHANGED <<out, header>>
           \/ Refuse(protocolSize(dir[seen + 1])) /\ UNCHANGED <<out, header>>
           \/ Put(protocolSize(dir[seen + 1])) /\ updateDataSize(WriteStat(out, dir[seen + 1]))
    BY <1>2, Zenon DEF encode
  <2>2. dir \in Dirs /\ dir' = dir
    BY <2>1 DEF DirInv
  <2> SUFFICES ASSUME ~tight'  PROVE ClientInv' /\ ServerInv'
    BY <2>2 DEF DirInv
  <2>3. ClientInv /\ ServerInv
    BY <2>1 DEF DirInv
  <2>4. ClientInv'
    BY <2>1, <2>3, SameClient
  <2>5. ServerInv'
    BY <2>1, <2>2, <2>3, SkipDir, RefuseDir, PutDir
  <2> QED  BY <2>4, <2>5
<1>3. CASE Send
  <2>1. /\ pc = "server" /\ (~more \/ seen = Len(dir)) /\ pc' = "parser"
        /\ UNCHANGED <<listingVars, dir, out, header, dataPosition, clientOffset, got, eof, tight>>
    BY <1>3 DEF Send
  <2>2. dir \in Dirs /\ dir' = dir
    BY <2>1 DEF DirInv
  <2> SUFFICES ASSUME ~tight'  PROVE ClientInv' /\ ServerInv'
    BY <2>2 DEF DirInv
  <2>3. ClientInv /\ ServerInv
    BY <2>1 DEF DirInv
  <2>4. ClientInv'
    BY <2>1, <2>3, SameClient
  <2>5. ListingInv'
    BY <2>1, <2>3 DEF ServerInv, listingVars, ListingInv, ListingTypeOK, WithinCount, Counted,
                      ReachesEnd, Contiguous
  <2>6. \E k \in Len(got')..Len(dir') : AnswerIs(k)'
    <3>1. PICK k \in Len(got)..Len(dir) : AnswerIs(k)
      BY <2>3 DEF ServerInv
    <3>2. AnswerIs(k)'
      BY <2>1, <3>1 DEF AnswerIs, listingVars, Entries, StatChunks
    <3> QED  BY <2>1, <3>1, <3>2
  <2>7. /\ offset' = clientOffset' /\ seen' \in 0..Len(dir') /\ traversed' = SizeTo(dir', seen')
        /\ dataPosition' = 7 /\ 11 + maxBytes' <= out'.lim
        /\ \A i \in 1..Len(dir') : protocolSize(dir'[i]) <= maxBytes'
    BY <2>1, <2>3, Zenon DEF ServerInv, listingVars
  <2>8. ~more' \/ seen' = Len(dir')
    BY <2>1 DEF listingVars
  <2> QED  BY <2>4, <2>5, <2>6, <2>7, <2>8, Zenon DEF ServerInv
<1>4. CASE Receive
  <2>1. pc = "parser" /\ pc' = "client" /\ dir' = dir /\ tight' = tight
    BY <1>4 DEF Receive
  <2>2. pc' \notin {"server", "parser"}
    BY <2>1
  <2>3. ASSUME ~tight'  PROVE ClientInv'
    BY <1>4, <2>1, <2>3, ReceiveDir DEF DirInv
  <2> QED  BY <2>1, <2>2, <2>3 DEF DirInv
<1>5. CASE UNCHANGED dirVars
  <2>1. UNCHANGED <<dir, got, clientOffset, eof, out, header, dataPosition, pc, tight>>
        /\ UNCHANGED listingVars
    BY <1>5 DEF dirVars, listingVars
  <2>2. \A k : AnswerIs(k)' <=> AnswerIs(k)
    BY <2>1 DEF AnswerIs, listingVars, Entries, StatChunks
  <2>3. ListingInv' <=> ListingInv
    BY <2>1 DEF listingVars, ListingInv, ListingTypeOK, WithinCount, Counted, ReachesEnd, Contiguous
  <2>4. ServerInv' <=> ServerInv
    BY <2>1, <2>2, <2>3, Zenon DEF ServerInv, listingVars
  <2>5. ClientInv => ClientInv'
    BY <2>1, SameClient
  <2> QED  BY <2>1, <2>4, <2>5 DEF DirInv
<1> QED  BY <1>1, <1>2, <1>3, <1>4, <1>5 DEF DNext, Finished

(* ... and so it always holds.                                             *)
LEMMA DirInvariant == DSpec => []DirInv
<1>1. DirInv /\ [DNext]_dirVars => DirInv'
  BY DirStep
<1> QED  BY <1>1, InitDir, PTL DEF DSpec

(* However a server's answers are cut, and whatever the entries, a client  *)
(* could read the answer at any point of its construction, and would find  *)
(* as many bytes of data as protocolSize promised for the entries put.     *)
THEOREM DirAnswerHoldsListing == DSpec => []AnswerHoldsListing
<1>1. DirInv => AnswerHoldsListing
  <2> SUFFICES ASSUME DirInv, pc \in {"server", "parser"}, ~tight
               PROVE  Answer.err = "none" /\ Len(Answer.val[<<"data">>]) = size
    BY Zenon DEF AnswerHoldsListing
  <2>1. ServerInv
    BY DEF DirInv
  <2>2. PICK k \in Len(got)..Len(dir) : AnswerIs(k)
    BY <2>1 DEF ServerInv
  <2>3. /\ Answer.err = "none"
        /\ Answer.val[<<"data">>] = Entries(dir, Len(got), k)
    BY <2>2, AnswerIsRead, Zenon
  <2> QED  BY <2>2, <2>3, Zenon DEF AnswerIs
<1> QED  BY <1>1, DirInvariant, PTL

(* A client that goes on from the offset it has reached collects the       *)
(* entries of the directory in their order, each of them once.             *)
THEOREM DirEachEntryOnce == DSpec => []EachEntryOnce
<1>1. DirInv => EachEntryOnce
  <2> SUFFICES ASSUME DirInv, ~tight
               PROVE  Len(got) <= Len(dir) /\ got = SubSeq(dir, 1, Len(got))
    BY DEF EachEntryOnce
  <2>1. dir \in Dirs /\ ClientInv
    BY DEF DirInv
  <2>2. Len(got) \in 0..Len(dir) /\ got = SubSeq(dir, 1, Len(got)) /\ Len(dir) \in Nat
    BY <2>1, DirLemma DEF ClientInv
  <2> QED  BY <2>2
<1> QED  BY <1>1, DirInvariant, PTL

(* An empty answer is only given to a client that has the directory.       *)
THEOREM DirEmptyAnswerIsEnd == DSpec => []EmptyAnswerIsEnd
<1>1. DirInv => EmptyAnswerIsEnd
  BY DEF DirInv, ClientInv, EmptyAnswerIsEnd
<1> QED  BY <1>1, DirInvariant, PTL

-----------------------------------------------------------------------------
(* The refinement *)

(* Whatever the data, the client takes a sequence from it.                 *)
LEMMA StatsAreSequence ==
  ASSUME dir \in Dirs, NEW data
  PROVE  \E T : StatsIn(data) \in Seq(T)
<1> DEFINE n == Len(dir)
           E == {m \in Nat : \E f : StatsRun(data, m, f)}
           h == CHOOSE f : StatsRun(data, n, f)
<1>0. n \in Nat
  BY DirLemma
<1>1. 0 \in E
  <2> DEFINE w == [i \in 0..0 |-> NoStats]
  <2>1. 0 \in Nat /\ w = [i \in 0..0 |-> w[i]] /\ w[0] = NoStats
    OBVIOUS
  <2>2. \A i \in 1..0 : w[i] = StatsOn(data, w[i - 1])
    OBVIOUS
  <2> HIDE DEF w
  <2>3. StatsRun(data, 0, w)
    BY <2>1, <2>2, StatsCells
  <2> QED  BY <2>1, <2>3, Zenon
<1>2. \A m \in Nat : m \in E => m + 1 \in E
  <2> SUFFICES ASSUME NEW m \in Nat, m \in E  PROVE m + 1 \in E
    OBVIOUS
  <2>1. PICK f : StatsRun(data, m, f)
    OBVIOUS
  <2>2. f[0] = NoStats /\ \A i \in 1..m : f[i] = StatsOn(data, f[i - 1])
    BY <2>1, StatsCells
  <2> DEFINE v == StatsOn(data, f[m])
             w == [i \in 0..(m + 1) |-> IF i <= m THEN f[i] ELSE v]
  <2> HIDE DEF v
  <2>3. /\ w = [i \in 0..(m + 1) |-> w[i]] /\ w[m + 1] = v
        /\ \A i \in 0..m : w[i] = f[i]
    OBVIOUS
  <2> HIDE DEF w
  <2>4. w[0] = NoStats
    <3>1. 0 \in 0..m
      OBVIOUS
    <3> QED  BY <2>2, <2>3, <3>1, Zenon
  <2>5. ASSUME NEW i \in 1..(m + 1)  PROVE w[i] = StatsOn(data, w[i - 1])
    <3>1. CASE i = m + 1
      <4>1. i - 1 = m /\ m \in 0..m
        BY <3>1
      <4> QED  BY <2>3, <3>1, <4>1, Zenon DEF v
    <3>2. CASE i # m + 1
      <4>1. i \in 1..m /\ i \in 0..m /\ i - 1 \in 0..m
        BY <3>2
      <4> QED  BY <2>2, <2>3, <4>1, Zenon
    <3> QED  BY <3>1, <3>2
  <2>6. m + 1 \in Nat
    OBVIOUS
  <2>7. StatsRun(data, m + 1, w)
    BY <2>3, <2>4, <2>5, <2>6, StatsCells
  <2> QED  BY <2>6, <2>7, Zenon
<1>3. n \in E
  <2> HIDE DEF E
  <2> QED  BY <1>0, <1>1, <1>2, SetInduction
<1>4. StatsIn(data) = h[n].stats
  BY Zenon DEF StatsIn, StatsRun, StatsOn, NoStats
<1>5. StatsRun(data, n, h)
  BY <1>3, Zenon
<1> HIDE DEF h
<1>6. h[0] = NoStats /\ \A i \in 1..n : h[i] = StatsOn(data, h[i - 1])
  BY <1>0, <1>5, StatsCells
<1>7. \A i \in 0..n : \E T : h[i].stats \in Seq(T)
  <2> DEFINE S == {i \in Nat : \E T : h[i].stats \in Seq(T)}
  <2>1. 0 \in S
    <3>1. NoStats.stats = <<>> /\ <<>> \in Seq(Nat)
      BY DEF NoStats
    <3> QED  BY <1>6, <3>1, Zenon
  <2>2. \A i \in 1..n : i - 1 \in S => i \in S
    <3> SUFFICES ASSUME NEW i \in 1..n, i - 1 \in S  PROVE i \in S
      OBVIOUS
    <3> DEFINE r == h[i - 1]
               x == DecodeAll(SubSeq(data, r.at + 1, Len(data)), StatFields(DecNested))
    <3>1. i \in Nat
      BY <1>0
    <3>2. PICK T : r.stats \in Seq(T)
      OBVIOUS
    <3>3. h[i] = IF x.ok THEN [at |-> r.at + x.next, stats |-> Append(r.stats, x.val)] ELSE r
      BY <1>6, Zenon DEF StatsOn
    <3> HIDE DEF x, r
    <3>4. CASE x.ok
      <4>1. h[i].stats = Append(r.stats, x.val)
        BY <3>3, <3>4
      <4>2. r.stats \in Seq(T \cup {x.val})
        BY <3>2, LargerSet
      <4>3. Append(r.stats, x.val) \in Seq(T \cup {x.val})
        BY <4>2
      <4> QED  BY <3>1, <4>1, <4>3, Zenon
    <3>5. CASE ~x.ok
      BY <3>1, <3>2, <3>3, <3>5, Zenon
    <3> QED  BY <3>4, <3>5
  <2>3. \A i \in 0..n : i \in S
    <3> HIDE DEF S
    <3> QED  BY <1>0, <2>1, <2>2, BoundedInduction
  <2> QED  BY <2>3
<1>8. n \in 0..n
  BY <1>0
<1> QED  BY <1>4, <1>7, <1>8, Zenon

(* No data, no entries                                                     *)
LEMMA NoData ==
  ASSUME dir \in Dirs
  PROVE  StatsIn(<<>>) = <<>>
<1>1. 0 \in Nat /\ 0 \in 0..Len(dir)
  <2>1. Len(dir) \in Nat
    BY DirLemma
  <2> QED  BY <2>1
<1>2. Entries(dir, 0, 0) = <<>>
  BY <1>1, EntriesNone
<1>3. StatsIn(Entries(dir, 0, 0)) = SubSeq(dir, 0 + 1, 0)
  BY <1>1, StatsRead
<1>4. SubSeq(dir, 0 + 1, 0) = Part(dir, 0, 0 - 0) /\ Part(dir, 0, 0) = <<>>
  BY <1>1, PartLemma
<1>5. 0 - 0 = 0
  OBVIOUS
<1> QED  BY <1>2, <1>3, <1>4, <1>5, Zenon

(* The client's variables, whatever the room                               *)
ClientTypeOK ==
  /\ tight \in BOOLEAN /\ eof \in BOOLEAN
  /\ \E T : got \in Seq(T)
  /\ pc \in {"server", "parser"} => ~eof

(* The client adds to what it has got, and nothing at the end.             *)
LEMMA GotStep ==
  ASSUME DirInv, \E T : got \in Seq(T), Receive
  PROVE  /\ \E T : got' \in Seq(T)
         /\ eof' => got' = got
<1> DEFINE r == IF Answer.err = "none" THEN Answer.val[<<"data">>] ELSE << >>
<1>1. dir \in Dirs
  BY DEF DirInv
<1>2. got' = got \o StatsIn(r) /\ eof' = (r = <<>>)
  BY Zenon DEF Receive
<1> HIDE DEF r
<1>3. PICK T : got \in Seq(T)
  OBVIOUS
<1>4. PICK U : StatsIn(r) \in Seq(U)
  BY <1>1, StatsAreSequence
<1>5. got \in Seq(T \cup U) /\ StatsIn(r) \in Seq(T \cup U)
  BY <1>3, <1>4, LargerSet
<1>6. got' \in Seq(T \cup U)
  BY <1>2, <1>5, ConcatCells
<1>7. ASSUME eof'  PROVE got' = got
  <2>1. r = <<>>
    BY <1>2, <1>7
  <2>2. StatsIn(r) = <<>>
    BY <1>1, <2>1, NoData, Zenon
  <2>3. got \o <<>> = got
    BY <1>3
  <2> QED  BY <1>2, <2>2, <2>3, Zenon
<1> QED  BY <1>6, <1>7

(* ... are kept by every step.                                             *)
LEMMA ClientTypeStep ==
  ASSUME DirInv, ClientTypeOK, [DNext]_dirVars
  PROVE  ClientTypeOK'
<1>1. CASE \E c \in Counts, lim \in Limits : Ask(c, lim)
  <2>1. PICK c \in Counts, lim \in Limits : Ask(c, lim)
    BY <1>1
  <2>2. /\ ~eof /\ eof' = eof /\ got' = got
        /\ tight' = (tight \/ lim < headerSize + 4 + c \/ \E n \in Biggest(dir) : n > c)
    BY <2>1 DEF Ask
  <2>3. tight' \in BOOLEAN
    BY <2>2, Zenon
  <2> QED  BY <2>2, <2>3 DEF ClientTypeOK
<1>2. CASE encode
  BY <1>2 DEF encode, ClientTypeOK
<1>3. CASE Send
  BY <1>3 DEF Send, ClientTypeOK
<1>4. CASE Receive
  <2>1. pc' = "client" /\ tight' = tight
    BY <1>4 DEF Receive
  <2>2. \E T : got' \in Seq(T)
    BY <1>4, GotStep DEF ClientTypeOK
  <2>3. eof' \in BOOLEAN
    BY <1>4, Zenon DEF Receive
  <2>4. pc' \notin {"server", "parser"}
    BY <2>1
  <2> QED  BY <2>1, <2>2, <2>3, <2>4, Zenon DEF ClientTypeOK
<1>5. CASE UNCHANGED dirVars
  BY <1>5 DEF dirVars, ClientTypeOK
<1> QED  BY <1>1, <1>2, <1>3, <1>4, <1>5 DEF DNext, Finished

(* Every step is a step of DirectoryContents, or none.                     *)
LEMMA ListingStepLemma ==
  ASSUME DirInv, ClientTypeOK, [DNext]_dirVars
  PROVE  [Listing!Next]_(Listing!contents)
<1>0. dir \in Dirs
  BY DEF DirInv
<1>1. CASE \E c \in Counts, lim \in Limits : Ask(c, lim)
  <2>1. PICK c \in Counts, lim \in Limits : Ask(c, lim)
    BY <1>1
  <2>2. /\ ~eof /\ eof' = eof /\ got' = got /\ dir' = dir
        /\ tight' = (tight \/ lim < headerSize + 4 + c \/ \E n \in Biggest(dir) : n > c)
    BY <2>1 DEF Ask
  <2>3. tight' \in BOOLEAN /\ tight \in BOOLEAN /\ (tight => tight')
    BY <2>2, Zenon DEF ClientTypeOK
  <2>4. CASE tight' = tight
    BY <2>2, <2>4 DEF Listing!contents
  <2>5. CASE ~tight /\ tight'
    <3>1. tight' = TRUE
      BY <2>3, <2>5
    <3>2. Listing!RunShort
      BY <2>2, <2>5, <3>1 DEF Listing!RunShort
    <3> QED  BY <3>2 DEF Listing!Next
  <2> QED  BY <2>3, <2>4, <2>5
<1>2. CASE encode
  BY <1>2 DEF encode, Listing!contents
<1>3. CASE Send
  BY <1>3 DEF Send, Listing!contents
<1>4. CASE Receive
  <2>1. pc = "parser" /\ dir' = dir /\ tight' = tight /\ eof' \in BOOLEAN
    BY <1>4, Zenon DEF Receive
  <2>2. ~eof /\ eof = FALSE
    BY <2>1 DEF ClientTypeOK
  <2>3. eof' => got' = got
    BY <1>4, GotStep DEF ClientTypeOK
  <2>4. CASE tight
    <3>1. CASE eof'
      <4>1. eof' = TRUE
        BY <2>1, <3>1
      <4>2. Listing!End
        BY <2>1, <2>2, <2>3, <2>4, <3>1, <4>1 DEF Listing!End
      <4> QED  BY <4>2 DEF Listing!Next
    <3>2. CASE ~eof'
      <4>1. eof' = eof
        BY <2>1, <2>2, <3>2
      <4>2. Listing!Misread
        BY <2>1, <2>2, <2>4, <4>1 DEF Listing!Misread
      <4> QED  BY <4>2 DEF Listing!Next
    <3> QED  BY <3>1, <3>2
  <2>5. CASE ~tight
    <3>1. ClientInv /\ ServerInv
      BY <2>1, <2>5 DEF DirInv
    <3>2. ClientInv' /\ (eof' \/ Len(got') > Len(got))
      BY <1>0, <1>4, <3>1, ReceiveDir
    <3>3. CASE eof'
      <4>1. eof' = TRUE /\ got' = got /\ got = dir
        BY <2>1, <2>3, <3>2, <3>3 DEF ClientInv
      <4>2. Listing!End
        BY <2>1, <2>2, <4>1 DEF Listing!End
      <4> QED  BY <4>2 DEF Listing!Next
    <3>4. CASE ~eof'
      <4>1. eof' = eof
        BY <2>1, <2>2, <3>4
      <4>2. got' = SubSeq(dir, 1, Len(got')) /\ Len(got') \in 0..Len(dir)
        BY <2>1, <3>2 DEF ClientInv
      <4>3. Len(got') \in (Len(got) + 1)..Len(dir)
        <5>1. Len(got) \in 0..Len(dir) /\ Len(dir) \in Nat
          BY <1>0, <3>1, DirLemma DEF ClientInv
        <5>2. Len(got') > Len(got)
          BY <3>2, <3>4
        <5> DEFINE a == Len(got)
                   b == Len(got')
                   c == Len(dir)
        <5>3. a \in 0..c /\ b \in 0..c /\ c \in Nat /\ b > a
          BY <4>2, <5>1, <5>2, Zenon
        <5> HIDE DEF a, b, c
        <5>4. b \in (a + 1)..c
          BY <5>3
        <5> QED  BY <5>4 DEF a, b, c
      <4>4. \E n \in (Len(got) + 1)..Len(dir) : got' = SubSeq(dir, 1, n)
        BY <4>2, <4>3, Zenon
      <4>5. Listing!Deliver
        BY <2>1, <2>2, <4>1, <4>4, Zenon DEF Listing!Deliver
      <4> QED  BY <4>5 DEF Listing!Next
    <3> QED  BY <3>3, <3>4
  <2> QED  BY <2>4, <2>5
<1>5. CASE UNCHANGED dirVars
  BY <1>5 DEF dirVars, Listing!contents
<1> QED  BY <1>1, <1>2, <1>3, <1>4, <1>5 DEF DNext, Finished

(* The server and its client do nothing but what DirectoryContents         *)
(* promises: every answer brings the next entries or the end, until an     *)
(* answer is given no room for an entry.                                   *)
THEOREM DirListsInOrder ==
  DSpec => Listing!Init /\ [][Listing!Next]_(Listing!contents)
<1>1. DInit => Listing!Init
  BY DEF DInit, Listing!Init
<1>2. DInit => ClientTypeOK
  <2> SUFFICES ASSUME DInit  PROVE ClientTypeOK
    OBVIOUS
  <2>1. tight = FALSE /\ eof = FALSE /\ got = <<>> /\ pc = "client"
    BY DEF DInit
  <2>2. got \in Seq(Nat) /\ pc \notin {"server", "parser"}
    BY <2>1
  <2> QED  BY <2>1, <2>2, Zenon DEF ClientTypeOK
<1>3. DirInv /\ ClientTypeOK /\ [DNext]_dirVars => DirInv' /\ ClientTypeOK'
  BY DirStep, ClientTypeStep
<1>4. DirInv /\ ClientTypeOK /\ [DNext]_dirVars => [Listing!Next]_(Listing!contents)
  BY ListingStepLemma
<1> QED  BY <1>1, <1>2, <1>3, <1>4, InitDir, PTL DEF DSpec
=============================================================================
