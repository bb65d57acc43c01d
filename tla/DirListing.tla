----------------------------- MODULE DirListing -----------------------------
(***************************************************************************)
(* Which entries of a directory go into the answer to a Read request:      *)
(* the control of DirListingWriter, include/styxe/9p2000.hpp and           *)
(* src/9p2000_writer.cpp.  Entries are reduced to their protocolSize here; *)
(* DirReading adds the bytes and the client.                               *)
(*                                                                         *)
(* A server constructs the writer with the offset and the count of the     *)
(* request and gives it the entries of the directory, all of them, from    *)
(* the first one on, until encode returns false.  A server that does not   *)
(* stop there is covered as well.                                          *)
(***************************************************************************)
EXTENDS ByteStream

CONSTANTS
  Sizes,         \* sizes of directory entries
  Counts,        \* counts a client may ask for
  Offsets,       \* offsets a client may ask for
  MaxTraversed   \* bound: bytes in a directory

ASSUME ListingAssumption ==
  /\ Sizes \subseteq Nat \ {0} /\ Counts \subseteq Nat /\ Offsets \subseteq Nat
  /\ MaxTraversed \in Nat /\ MaxTraversed < U32Range

VARIABLES
  offset,     \* DirListingWriter::_offset
  maxBytes,   \* _maxBytes
  traversed,  \* _bytesTraversed
  encoded,    \* _bytesEncoded
  more,       \* what encode returned last
  seen,       \* history: entries given to encode
  size,       \* history: bytes of the entries put in the answer
  taken       \* history: positions of those entries

listingVars == <<offset, maxBytes, traversed, encoded, more, seen, size, taken>>

(* Mistakes: the offset is not kept; _bytesEncoded is not reset. *)
NewListingNoOffset(count, from) ==
  /\ offset' = 0
  /\ maxBytes' = count
  /\ traversed' = 0 /\ encoded' = 0 /\ more' = TRUE
  /\ seen' = 0 /\ size' = 0 /\ taken' = {}

NewListingNoReset(count, from) ==
  /\ offset' = from
  /\ maxBytes' = count
  /\ traversed' = 0 /\ encoded' = encoded /\ more' = TRUE
  /\ seen' = 0 /\ size' = 0 /\ taken' = {}

(* DirListingWriter(writer, count, from) *)
NewListing(count, from) ==
  /\ offset' = from
  /\ maxBytes' = count
  /\ traversed' = 0
  /\ encoded' = 0
  /\ more' = TRUE
  /\ seen' = 0
  /\ size' = 0
  /\ taken' = {}

(* encode of an entry of n bytes: its early returns and its last line.     *)
(* _bytesEncoded is a uint32.                                              *)
Traverse(n) ==
  /\ traversed + n <= MaxTraversed
  /\ traversed' = traversed + n
  /\ seen' = seen + 1
  /\ UNCHANGED <<offset, maxBytes>>

\* A mistake: counting down.
CountDown(n) == encoded' = encoded - n

Count(n) == encoded' = (encoded + n) % U32Range

Skip(n) ==
  /\ Traverse(n)
  /\ traversed' <= offset
  /\ more' = TRUE
  /\ UNCHANGED <<encoded, size, taken>>

\* A mistake: the refused entry is not counted.
RefuseUncounted(n) ==
  /\ Traverse(n)
  /\ traversed' > offset
  /\ (encoded + n) % U32Range > maxBytes
  /\ more' = FALSE
  /\ UNCHANGED <<encoded, size, taken>>

Refuse(n) ==
  /\ Traverse(n)
  /\ traversed' > offset
  /\ Count(n)
  /\ encoded' > maxBytes
  /\ more' = FALSE
  /\ UNCHANGED <<size, taken>>

\* A mistake: the room is checked before the entry is counted.
PutLate(n) ==
  /\ Traverse(n)
  /\ traversed' > offset
  /\ Count(n)
  /\ encoded <= maxBytes
  /\ more' = TRUE
  /\ size' = size + n
  /\ taken' = taken \cup {seen + 1}

Put(n) ==
  /\ Traverse(n)
  /\ traversed' > offset
  /\ Count(n)
  /\ encoded' <= maxBytes
  /\ more' = TRUE
  /\ size' = size + n
  /\ taken' = taken \cup {seen + 1}

LInit ==
  /\ offset \in Offsets
  /\ maxBytes \in Counts
  /\ traversed = 0 /\ encoded = 0 /\ more = TRUE
  /\ seen = 0 /\ size = 0 /\ taken = {}

LNext ==
  \/ \E c \in Counts, o \in Offsets : NewListing(c, o)
  \/ \E n \in Sizes : Skip(n) \/ Refuse(n) \/ Put(n)

LSpec == LInit /\ [][LNext]_listingVars

-----------------------------------------------------------------------------
(* Properties *)

ListingTypeOK ==
  /\ offset \in Nat /\ maxBytes \in Nat
  /\ traversed \in 0..MaxTraversed
  /\ encoded \in Nat /\ size \in Nat /\ seen \in Nat
  /\ more \in BOOLEAN
  /\ taken \subseteq 1..seen

(* The answer never holds more than the client asked for, although encode  *)
(* counts an entry before it knows whether it fits, and goes on being      *)
(* called after it refused one.                                            *)
WithinCount == size <= maxBytes

(* The entries of an answer follow each other in the directory: no entry   *)
(* is left out between two that are in, so the client's next offset, the   *)
(* old one plus the bytes received, is where the answer ended.             *)
Contiguous ==
  \A i, j \in taken : \A k \in i..j : k \in taken

(* Once encode has returned false nothing is added any more, however small *)
(* the entries that follow: the refused entry stays counted.               *)
RefusalIsFinal ==
  [][ (\E n \in Sizes : Skip(n) \/ Refuse(n) \/ Put(n)) /\ ~more
        => ~more' /\ UNCHANGED <<size, taken>> ]_listingVars
=============================================================================
