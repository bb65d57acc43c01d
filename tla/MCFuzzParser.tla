---------------------------- MODULE MCFuzzParser ----------------------------
(* An instance of FuzzParser for TLC: every message of 9P2000.e, whole and *)
(* cut at some bytes.                                                      *)
EXTENDS FuzzParser, MessageFrame, SampleValues

LOCAL INSTANCE SequencesExt

Framing(code, payload) ==
  HeaderBytes([messageSize |-> headerSize + Len(payload), type |-> code, tag |-> 1]) \o payload

Input(d, name, keep) ==
  LET m     == WholeMessage("9P2000.e", d, name, MessageValue("9P2000.e", d, name, 1))
      bytes == Framing(m.code, FlattenSeq(m.chunks))
  IN  [bytes |-> SubSeq(bytes, 1, IF keep < Len(bytes) THEN keep ELSE Len(bytes)),
       dir |-> d, name |-> name, val |-> m.val]

MCInputs ==
  UNION {{Input(d, n, keep) : n \in DOMAIN EncOrder["9P2000.e"][d], keep \in {0, 6, 7, 9, 12, 200}} :
           d \in Directions}
=============================================================================
