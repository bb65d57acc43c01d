-------------------------------- MODULE Codec --------------------------------
(***************************************************************************)
(* Encoder and Decoder (src/encoder.cpp, src/decoder.cpp, the inline       *)
(* operators of include/styxe/9p2000.hpp) applied to the messages of the   *)
(* four protocol versions.                                                 *)
(*                                                                         *)
(* The value of a message is a function from its leaves to their values.   *)
(* A leaf is a field with a primitive type, named by the path to it, for   *)
(* example <<"stat", "qid", "version">>.  Encoding goes through the leaves *)
(* in the order of the operator<<, decoding in the order of the operator>>.*)
(***************************************************************************)
EXTENDS ByteStream, Msg9P2000E, Msg9P2000L

LOCAL INSTANCE SequencesExt

Versions   == {"9P2000", "9P2000.u", "9P2000.e", "9P2000.L"}
Directions == {"Request", "Response"}

Struct ==
  "9P2000"   :> [Request |-> RequestStruct9P, Response |-> ResponseStruct9P] @@
  "9P2000.u" :> [Request |-> RequestStructU,  Response |-> ResponseStructU] @@
  "9P2000.e" :> [Request |-> RequestStructE,  Response |-> ResponseStructE] @@
  "9P2000.L" :> [Request |-> RequestStructL,  Response |-> ResponseStructL]

EncOrder ==
  "9P2000"   :> [Request |-> RequestEnc9P, Response |-> ResponseEnc9P] @@
  "9P2000.u" :> [Request |-> RequestEncU,  Response |-> ResponseEncU] @@
  "9P2000.e" :> [Request |-> RequestEncE,  Response |-> ResponseEncE] @@
  "9P2000.L" :> [Request |-> RequestEncL,  Response |-> ResponseEncL]

DecOrder ==
  "9P2000"   :> [Request |-> RequestDec9P, Response |-> ResponseDec9P] @@
  "9P2000.u" :> [Request |-> RequestDecU,  Response |-> ResponseDecU] @@
  "9P2000.e" :> [Request |-> RequestDecE,  Response |-> ResponseDecE] @@
  "9P2000.L" :> [Request |-> RequestDecL,  Response |-> ResponseDecL]

(* messageCodeOf *)
MessageCode ==
  "9P2000"   :> [Request |-> RequestCode9P, Response |-> ResponseCode9P] @@
  "9P2000.u" :> [Request |-> RequestCodeU,  Response |-> ResponseCodeU] @@
  "9P2000.e" :> [Request |-> RequestCodeE,  Response |-> ResponseCodeE] @@
  "9P2000.L" :> [Request |-> RequestCodeL,  Response |-> ResponseCodeL]

Partial ==
  "9P2000"   :> [Request |-> RequestPartial9P, Response |-> ResponsePartial9P] @@
  "9P2000.u" :> [Request |-> RequestPartial9P, Response |-> ResponsePartialU] @@
  "9P2000.e" :> [Request |-> RequestPartialE,  Response |-> ResponsePartial9P] @@
  "9P2000.L" :> [Request |-> RequestPartial9P, Response |-> ResponsePartialU]

-----------------------------------------------------------------------------
(* The leaves of a message.  ords gives the order in which the nested      *)
(* structs are written or read.                                            *)

EncNested == [qid |-> QidEnc, stat |-> StatEnc, statx |-> StatExEnc]
DecNested == [qid |-> QidDec, stat |-> StatDec, statx |-> StatExDec]

Leaf(key, kind) == <<[key |-> key, kind |-> kind]>>

QidLeaves(key, ords) ==
  FlattenSeq([i \in DOMAIN ords.qid |->
                Leaf(Append(key, ords.qid[i]), QidStruct[ords.qid[i]])])

StatLeaves(key, kind, ords) ==
  FlattenSeq([i \in DOMAIN ords[kind] |->
                LET f == ords[kind][i]
                IN  IF f = "qid" THEN QidLeaves(Append(key, f), ords)
                                 ELSE Leaf(Append(key, f), StatExStruct[f])])

Leaves(struct, order, ords) ==
  FlattenSeq([i \in DOMAIN order |->
                LET f == order[i]
                IN  CASE struct[f] = "qid" -> QidLeaves(<<f>>, ords)
                      [] struct[f] \in {"stat", "statx"} -> StatLeaves(<<f>>, struct[f], ords)
                      [] OTHER -> Leaf(<<f>>, struct[f])])

EncLeaves == [v \in Versions |-> [d \in Directions |->
                [n \in DOMAIN EncOrder[v][d] |->
                   Leaves(Struct[v][d][n], EncOrder[v][d][n], EncNested)]]]

DecLeaves == [v \in Versions |-> [d \in Directions |->
                [n \in DOMAIN DecOrder[v][d] |->
                   Leaves(Struct[v][d][n], DecOrder[v][d][n], DecNested)]]]

-----------------------------------------------------------------------------
(* The values of a field: what its C++ type holds and its size prefix can  *)
(* tell.  A byte is one cell, whatever it is.                              *)

Strings == {v \in Seq(Nat) : Len(v) < U16Range}

Qids == {q \in [{"type", "version", "path"} -> Nat] :
           q["version"] < U32Range /\ q["path"] < U64Range}

Kinds == {"u8", "u16", "u32", "u64", "str", "data", "path", "qids"}

IsValue(kind, v) ==
  /\ kind \in {"u8", "u16", "u32", "u64"} => v \in Nat
  /\ kind = "u16"  => v < U16Range
  /\ kind = "u32"  => v < U32Range
  /\ kind = "u64"  => v < U64Range
  /\ kind = "str"  => v \in Strings
  /\ kind = "data" => v \in Seq(Nat) /\ Len(v) < U32Range
  /\ kind = "path" => v \in Seq(Strings) /\ Len(v) < U16Range
  /\ kind = "qids" => v \in Seq(Qids) /\ Len(v) < U16Range

(* val gives every one of the leaves a value of its type. *)
HasValues(leaves, val) ==
  /\ leaves \in Seq([key : DOMAIN val, kind : Kinds])
  /\ \A i \in DOMAIN leaves : IsValue(leaves[i].kind, val[leaves[i].key])

-----------------------------------------------------------------------------
(* Encoder: the byte strings given to the stream, one after the other *)

Integer == {"u8", "u16", "u32", "u64"}

EncodeInt(kind, v) ==
  CASE kind = "u8"  -> <<v>>
    [] kind = "u16" -> U16Bytes(v)
    [] kind = "u32" -> U32Bytes(v)
    [] kind = "u64" -> U64Bytes(v)

EncodeString(v) == <<U16Bytes(Len(v)), v>>

EncodeQid(q) == [i \in DOMAIN QidEnc |-> EncodeInt(QidStruct[QidEnc[i]], q[QidEnc[i]])]

Encode(kind, v) ==
  CASE kind \in Integer -> <<EncodeInt(kind, v)>>
    [] kind = "str"     -> EncodeString(v)
    [] kind = "data"    -> <<U32Bytes(Len(v)), v>>
    [] kind = "path"    -> <<U16Bytes(Len(v))>>
                           \o FlattenSeq([i \in DOMAIN v |-> EncodeString(v[i])])
    [] kind = "qids"    -> <<U16Bytes(Len(v))>>
                           \o FlattenSeq([i \in DOMAIN v |-> EncodeQid(v[i])])

EncodeAll(leaves, val) ==
  FlattenSeq([i \in DOMAIN leaves |-> Encode(leaves[i].kind, val[leaves[i].key])])

(* Chunks given to the stream one by one, outside of a message: each is    *)
(* written or, when it does not fit behind those before it, dropped.       *)
WriteAll(s, chunks) ==
  LET kept[i \in 0..Len(chunks)] ==
        IF i = 0 THEN << >>
        ELSE LET b == kept[i - 1]
             IN  IF Fits(s, Len(b) + Len(chunks[i])) THEN b \o chunks[i] ELSE b
  IN  Write(s, kept[Len(chunks)])

(* A message as MessageWriter takes it: written in one go, or its first    *)
(* fields only, a partial writer adding the others.                        *)
WholeMessage(ver, dir, name, val) ==
  [ver |-> ver, dir |-> dir, name |-> name, val |-> val,
   code |-> MessageCode[ver][dir][name], part |-> "whole",
   chunks |-> EncodeAll(EncLeaves[ver][dir][name], val)]

PartialMessage(ver, dir, name, val) ==
  LET start  == Partial[ver][dir][name]
      leaves == Leaves(Struct[ver][dir][name], start.fields, EncNested)
  IN  [ver |-> ver, dir |-> dir, name |-> name,
       val |-> [k \in {leaves[i].key : i \in DOMAIN leaves} |-> val[k]],
       code |-> MessageCode[ver][dir][name], part |-> start.part,
       chunks |-> EncodeAll(leaves, val)]

-----------------------------------------------------------------------------
(* Decoder: reads from the byte string p at position at.  ok is FALSE when *)
(* the stream ended before the value did.                                  *)

Width == [u8 |-> 1, u16 |-> 2, u32 |-> 4, u64 |-> 8]

ReadBytes(p, at, n) ==
  [ok   |-> at + n <= Len(p), next |-> at + n,
   val  |-> IF at + n <= Len(p) THEN SubSeq(p, at + 1, at + n) ELSE << >>]

IntValue(kind, b) ==
  CASE kind = "u8"  -> b[1]
    [] kind = "u16" -> U16Value(b)
    [] kind = "u32" -> U32Value(b)
    [] kind = "u64" -> U64Value(b)

ReadInt(p, at, kind) ==
  LET b == ReadBytes(p, at, Width[kind])
  IN  IF b.ok THEN [b EXCEPT !.val = IntValue(kind, @)] ELSE b


(* StringView and MemoryView: the size, then as many bytes *)
ReadSized(p, at, kind) ==
  LET size == ReadInt(p, at, kind)
  IN  IF size.ok THEN ReadBytes(p, size.next, size.val) ELSE size

(* Values one after the other, up to the first one that cannot be read. *)
ReadAll(p, at, Read(_, _, _), Add(_, _, _), empty, items) ==
  LET upTo[i \in 0..Len(items)] ==
        IF i = 0 THEN [ok |-> TRUE, next |-> at, val |-> empty]
        ELSE LET r == upTo[i - 1]
                 v == Read(p, r.next, items[i])
             IN  IF r.ok THEN [ok |-> v.ok, next |-> v.next,
                               val |-> Add(r.val, items[i], v.val)]
                         ELSE r
  IN  upTo[Len(items)]

(* The fields read so far, and one more *)
With(fields, key, v) ==
  [k \in DOMAIN fields \cup {key} |-> IF k \in DOMAIN fields THEN fields[k] ELSE v]

ReadQid(p, at, i) ==
  ReadAll(p, at, LAMBDA s, a, f : ReadInt(s, a, QidStruct[f]), With, << >>, QidDec)

ReadString(p, at, i) == ReadSized(p, at, "u16")

ReadCounted(p, at, Read(_, _, _)) ==
  LET n == ReadInt(p, at, "u16")
  IN  IF n.ok
      THEN ReadAll(p, n.next, Read, LAMBDA r, i, v : Append(r, v), << >>,
                   [i \in 1..n.val |-> i])
      ELSE n

(* A mistake: no room is left for the last qid of Response::Walk. *)
DecodeFewerQids(p, at, kind) ==
  CASE kind \in Integer -> ReadInt(p, at, kind)
    [] kind = "str"     -> ReadSized(p, at, "u16")
    [] kind = "data"    -> ReadSized(p, at, "u32")
    [] kind = "path"    -> ReadCounted(p, at, ReadString)
    [] kind = "qids"    -> LET r == ReadCounted(p, at, ReadQid)
                           IN  [r EXCEPT !.ok = @ /\ Len(r.val) < 16]

Decode(p, at, kind) ==
  CASE kind \in Integer -> ReadInt(p, at, kind)
    [] kind = "str"     -> ReadSized(p, at, "u16")
    [] kind = "data"    -> ReadSized(p, at, "u32")
    [] kind = "path"    -> ReadCounted(p, at, ReadString)
    [] kind = "qids"    -> ReadCounted(p, at, ReadQid)

(* decode of src/parse_helper.hpp: what follows the last field is ignored. *)
DecodeAll(p, leaves) ==
  ReadAll(p, 0, LAMBDA s, a, l : Decode(s, a, l.kind),
          LAMBDA r, l, v : With(r, l.key, v), << >>, leaves)
=============================================================================
