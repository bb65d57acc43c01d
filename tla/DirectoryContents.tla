-------------------------- MODULE DirectoryContents --------------------------
(***************************************************************************)
(* What a client that lists a directory is promised, whatever the protocol *)
(* version: it gets the entries in the order of the directory, every one   *)
(* of them once, in as many parts as it takes, and it is told that it has  *)
(* met the end when, and only when, it has them all.  The promise holds    *)
(* until an answer is given no room for an entry; after that only the end  *)
(* is promised.                                                            *)
(*                                                                         *)
(* DirReading (Response::Read, 9P2000) and DirEntryReader                  *)
(* (Response::ReadDir, 9P2000.L) are shown to implement this.              *)
(***************************************************************************)
EXTENDS Integers, Sequences

CONSTANT Dirs   \* directories: sequences of entries

VARIABLES
  dir,   \* the directory
  got,   \* the entries the client has
  done,  \* the client was told that this is all
  short  \* an answer had no room for an entry

contents == <<dir, got, done, short>>

Init == dir \in Dirs /\ got = << >> /\ done = FALSE /\ short = FALSE

(* The next entries, one or several of them *)
Deliver ==
  /\ ~done
  /\ \E n \in (Len(got) + 1)..Len(dir) : got' = SubSeq(dir, 1, n)
  /\ UNCHANGED <<dir, done, short>>

End ==
  /\ ~done
  /\ got = dir \/ short
  /\ done' = TRUE
  /\ UNCHANGED <<dir, got, short>>

(* From here on there is no promise about the entries. *)
RunShort ==
  /\ ~done /\ ~short
  /\ short' = TRUE
  /\ UNCHANGED <<dir, got, done>>

(* Whatever the client makes of the data it is given *)
Misread ==
  /\ ~done /\ short
  /\ UNCHANGED <<dir, done, short>>

Next == Deliver \/ End \/ RunShort \/ Misread

Spec == Init /\ [][Next]_contents /\ WF_contents(Deliver \/ End)
=============================================================================
