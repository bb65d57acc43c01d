----------------------------- MODULE FuzzParser -----------------------------
(***************************************************************************)
(* The fuzz test of the parsers, examples/9p-fuzz-parser.cpp: what an      *)
(* input goes through before it reaches a parser of 9P2000.e.  libFuzzer   *)
(* calls LLVMFuzzerTestOneInput with the input; the programs built without *)
(* it (main, also the one for AFL) read the input from a stream.           *)
(***************************************************************************)
EXTENDS MessageParser

CONSTANTS
  Inputs,           \* [bytes, dir, name, val]: a message of 9P2000.e, bytes
                    \* possibly cut short
  kMaxMessageSize   \* what readDataAndTest reads at most

VARIABLES
  input,   \* the input
  pc,      \* "start", "given" or "done"
  by,      \* who gave it: "libFuzzer" or "main"
  given,   \* data and size of LLVMFuzzerTestOneInput
  parsed   \* what became of it

vars == <<input, pc, by, given, parsed>>

Init ==
  /\ input \in Inputs
  /\ pc = "start" /\ by = "nobody" /\ given = << >> /\ parsed = Rejected("not parsed")

libFuzzer ==
  /\ pc = "start"
  /\ by' = "libFuzzer" /\ pc' = "given"
  /\ given' = input.bytes
  /\ UNCHANGED <<input, parsed>>

(* std::vector after reserve(n): room for n elements, and still none *)
Reserved(n) == [capacity |-> n, size |-> 0]

(* in.read is asked for buf.size() bytes. *)
readDataAndTest ==
  LET buf    == Reserved(kMaxMessageSize)
      gcount == IF buf.size <= Len(input.bytes) THEN buf.size ELSE Len(input.bytes)
  IN  /\ pc = "start"
      /\ by' = "main" /\ pc' = "given"
      /\ given' = SubSeq(input.bytes, 1, gcount)
      /\ UNCHANGED <<input, parsed>>

(* The parser is created for payloads of the size of the whole input. *)
ParserOf(type) ==
  [ver |-> "9P2000.e", max |-> Len(given), dir |-> IF type % 2 = 0 THEN "Request" ELSE "Response"]

LLVMFuzzerTestOneInput ==
  LET head == parseMessageHeader(given)
  IN  /\ pc = "given"
      /\ pc' = "done"
      /\ parsed' = IF head.err # "none" THEN Rejected(head.err)
                   ELSE parseBody(ParserOf(head.type), head,
                                  SubSeq(given, headerSize + 1, Len(given)))
      /\ UNCHANGED <<input, by, given>>

Next == libFuzzer \/ readDataAndTest \/ LLVMFuzzerTestOneInput

Spec == Init /\ [][Next]_vars

-----------------------------------------------------------------------------
(* Properties *)

(* "It serves to fuzz-test the parser" (docs/examples.md): what a stream   *)
(* holds, up to the size of the buffer, is what the parser is tested with. *)
StreamReachesParser ==
  pc = "done" /\ by = "main" =>
    \/ given = input.bytes
    \/ Len(input.bytes) > kMaxMessageSize
=============================================================================
