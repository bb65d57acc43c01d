---------------------------- MODULE SampleValues ----------------------------
(* Values for the fields of messages that tell the fields of one message   *)
(* apart, for the instances TLC checks.                                    *)
EXTENDS Codec

SampleQids == <<[type |-> 128, version |-> 5, path |-> 4099], [type |-> 0, version |-> 6, path |-> 7]>>

(* The value of the i-th leaf of a message: two variants, in which strings *)
(* and data have different lengths, zero included.                         *)
LeafValue(kind, i, variant) ==
  CASE kind = "u8"   -> 100 + i
    [] kind = "u16"  -> (3 * i + variant) % U16Range
    [] kind = "u32"  -> (7 * i + 60 * variant) % U32Range
    [] kind = "u64"  -> 5000 + 259 * i + variant
    [] kind = "str"  -> [n \in 1..((i + variant) % 3) |-> 30 + i + n]
    [] kind = "data" -> IF variant = 0 THEN <<>> ELSE <<9, 0, 8>>
    [] kind = "path" -> IF variant = 0 THEN <<>> ELSE <<<<41>>, <<>>, <<42, 43>>>>
    [] kind = "qids" -> IF variant = 0 THEN <<>> ELSE SampleQids

MessageValue(v, d, n, variant) ==
  LET leaves == EncLeaves[v][d][n]
  IN  [k \in {leaves[i].key : i \in DOMAIN leaves} |->
         LET i == CHOOSE j \in DOMAIN leaves : leaves[j].key = k
         IN  LeafValue(leaves[i].kind, i, variant)]
=============================================================================
