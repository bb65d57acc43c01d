-------------------------- MODULE DirListingProofs --------------------------
(***************************************************************************)
(* Proofs for DirListing, for all directories smaller than 4 GiB and all   *)
(* offsets and counts.                                                     *)
(***************************************************************************)
EXTENDS DirListing, ByteStreamProofs

(* The inductive invariant.  The refused entry stays counted, so encoded   *)
(* remains above maxBytes; a uint32 cannot overflow on the way because     *)
(* encoded never passes traversed.                                         *)
Counted ==
  /\ encoded <= traversed
  /\ more => size = encoded
  /\ ~more => encoded > maxBytes
  /\ ~more \/ taken # {} => traversed > offset

(* While encode returns true, the entries taken reach up to the last one   *)
(* seen.                                                                   *)
ReachesEnd == more => \A i \in taken : \A k \in i..seen : k \in taken

ListingInv == ListingTypeOK /\ WithinCount /\ Counted /\ ReachesEnd /\ Contiguous

(* A uint32 that does not overflow *)
LEMMA CountLemma ==
  ASSUME NEW n \in Nat \ {0}, ListingInv, Traverse(n), Count(n)
  PROVE  /\ encoded' = encoded + n
         /\ encoded' <= traversed'
         /\ n \in Nat /\ n > 0 /\ traversed' \in 0..MaxTraversed
  <1>1. /\ n \in Nat /\ n > 0 /\ MaxTraversed \in Nat /\ MaxTraversed < U32Range
    BY ListingAssumption
  <1>2. U32Range \in Nat
    BY RangeLemma
  <1>3. /\ encoded + n \in Nat /\ encoded + n <= traversed + n
        /\ traversed + n <= MaxTraversed /\ traversed' = traversed + n
        /\ traversed \in Nat
    BY <1>1 DEF ListingInv, ListingTypeOK, Counted, Traverse
  <1>4. encoded + n < U32Range
    BY <1>1, <1>2, <1>3
  <1>5. (encoded + n) % U32Range = encoded + n
    BY <1>2, <1>3, <1>4
  <1> QED
    BY <1>1, <1>3, <1>5 DEF Count

LEMMA ListingInit == LInit => ListingInv
  BY ListingAssumption
  DEF LInit, ListingInv, ListingTypeOK, WithinCount, Counted, ReachesEnd, Contiguous

LEMMA NewListingStep ==
  ASSUME NEW c \in Counts, NEW o \in Nat, NewListing(c, o)
  PROVE  ListingInv'
  BY ListingAssumption
  DEF NewListing, ListingInv, ListingTypeOK, WithinCount, Counted, ReachesEnd, Contiguous

(* An entry can only be skipped before any is taken. *)
LEMMA SkipStep ==
  ASSUME NEW n \in Nat \ {0}, ListingInv, Skip(n)
  PROVE  ListingInv' /\ more /\ taken = {}
  <1>1. n \in Nat /\ n > 0 /\ MaxTraversed \in Nat
    BY ListingAssumption
  <1>2. /\ traversed' = traversed + n /\ seen' = seen + 1
        /\ traversed' <= offset /\ traversed + n <= MaxTraversed
        /\ UNCHANGED <<offset, maxBytes, encoded, size, taken>> /\ more'
    BY DEF Skip, Traverse
  <1>3. more /\ taken = {}
    BY <1>1, <1>2 DEF ListingInv, ListingTypeOK, Counted
  <1>4. ListingTypeOK' /\ WithinCount' /\ Counted'
    BY <1>1, <1>2, <1>3 DEF ListingInv, ListingTypeOK, Counted, WithinCount
  <1>5. ReachesEnd' /\ Contiguous'
    BY <1>2, <1>3 DEF ReachesEnd, Contiguous
  <1> QED
    BY <1>3, <1>4, <1>5 DEF ListingInv

LEMMA RefuseStep ==
  ASSUME NEW n \in Nat \ {0}, ListingInv, Refuse(n)
  PROVE  ListingInv'
  <1>1. /\ encoded' = encoded + n /\ encoded' <= traversed'
        /\ n \in Nat /\ n > 0 /\ traversed' \in 0..MaxTraversed
    BY CountLemma DEF Refuse
  <1>2. /\ seen' = seen + 1 /\ traversed' > offset /\ encoded' > maxBytes
        /\ UNCHANGED <<offset, maxBytes, size, taken>>
    BY DEF Refuse, Traverse
  <1>3. more' = FALSE
    BY DEF Refuse
  <1>4. ListingTypeOK'
    <2>1. /\ offset' \in Nat /\ maxBytes' \in Nat /\ traversed' \in 0..MaxTraversed
          /\ encoded' \in Nat /\ size' \in Nat /\ seen' \in Nat
          /\ taken' \subseteq 1..seen'
      BY <1>1, <1>2 DEF ListingInv, ListingTypeOK
    <2>2. more' \in BOOLEAN
      BY <1>3
    <2> QED
      BY <2>1, <2>2 DEF ListingTypeOK
  <1>5. WithinCount'
    BY <1>2 DEF ListingInv, WithinCount
  <1>6. Counted'
    BY <1>1, <1>2, <1>3 DEF Counted
  <1>7. ReachesEnd' /\ Contiguous'
    BY <1>2, <1>3 DEF ListingInv, ReachesEnd, Contiguous
  <1> QED
    BY <1>4, <1>5, <1>6, <1>7 DEF ListingInv

(* An entry is only taken while encode has never returned false. *)
LEMMA PutStep ==
  ASSUME NEW n \in Nat \ {0}, ListingInv, Put(n)
  PROVE  ListingInv' /\ more
  <1>1. /\ encoded' = encoded + n /\ encoded' <= traversed'
        /\ n \in Nat /\ n > 0 /\ traversed' \in 0..MaxTraversed
    BY CountLemma DEF Put
  <1>2. /\ seen' = seen + 1 /\ traversed' > offset /\ encoded' <= maxBytes
        /\ UNCHANGED <<offset, maxBytes>> /\ more' = TRUE
        /\ size' = size + n /\ taken' = taken \cup {seen + 1}
    BY DEF Put, Traverse
  <1>3. more
    BY <1>1, <1>2 DEF ListingInv, ListingTypeOK, Counted
  <1>4. ListingTypeOK' /\ WithinCount' /\ Counted'
    BY <1>1, <1>2, <1>3 DEF ListingInv, ListingTypeOK, Counted, WithinCount
  <1>5. \A i \in taken' : \A k \in i..seen' : k \in taken'
    <2> SUFFICES ASSUME NEW i \in taken', NEW k \in i..seen'
                 PROVE  k \in taken'
      OBVIOUS
    <2>1. seen \in Nat /\ taken \subseteq 1..seen
      BY DEF ListingInv, ListingTypeOK
    <2>2. CASE k = seen + 1
      BY <2>2, <1>2
    <2>3. CASE k # seen + 1
      <3>1. i \in taken /\ k \in i..seen
        BY <2>1, <2>3, <1>2
      <3> QED
        BY <3>1, <1>2, <1>3 DEF ListingInv, ReachesEnd
    <2> QED
      BY <2>2, <2>3
  <1>6. Contiguous'
    <2>1. taken' \subseteq 1..seen' /\ seen' \in Nat
      BY <1>4 DEF ListingTypeOK
    <2> QED
      BY <1>5, <2>1 DEF Contiguous
  <1> QED
    BY <1>3, <1>4, <1>5, <1>6 DEF ListingInv, ReachesEnd

LEMMA ListingStep ==
  ASSUME ListingInv, [LNext]_listingVars
  PROVE  ListingInv'
  <1>1. CASE \E c \in Counts, o \in Offsets : NewListing(c, o)
    BY <1>1, NewListingStep, ListingAssumption
  <1>2. CASE \E n \in Sizes : Skip(n) \/ Refuse(n) \/ Put(n)
    BY <1>2, SkipStep, RefuseStep, PutStep, ListingAssumption
  <1>3. CASE UNCHANGED listingVars
    BY <1>3 DEF listingVars, ListingInv, ListingTypeOK, WithinCount, Counted,
                ReachesEnd, Contiguous
  <1> QED
    BY <1>1, <1>2, <1>3 DEF LNext

LEMMA ListingInvariant == LSpec => []ListingInv
  <1>1. ListingInv /\ [LNext]_listingVars => ListingInv'
    BY ListingStep
  <1> QED
    BY <1>1, ListingInit, PTL DEF LSpec

(* The counters of a DirListingWriter keep their types; the positions of   *)
(* the entries in the answer are those of entries given to encode.         *)
THEOREM ListingTypeCorrect == LSpec => []ListingTypeOK
  <1>1. ListingInv => ListingTypeOK
    BY DEF ListingInv
  <1> QED
    BY <1>1, ListingInvariant, PTL

(* What the answer to a Read request holds is at most what the client      *)
(* asked for, whatever was refused before and however often encode is      *)
(* called after that.                                                      *)
THEOREM ListingWithinCount == LSpec => []WithinCount
  <1>1. ListingInv => WithinCount
    BY DEF ListingInv
  <1> QED
    BY <1>1, ListingInvariant, PTL

(* The entries of an answer are consecutive entries of the directory.      *)
THEOREM ListingContiguous == LSpec => []Contiguous
  <1>1. ListingInv => Contiguous
    BY DEF ListingInv
  <1> QED
    BY <1>1, ListingInvariant, PTL

(* encode returns false for good: a server that goes on offering entries   *)
(* cannot put a later entry in front of the one that was refused.          *)
THEOREM ListingRefusalIsFinal == LSpec => RefusalIsFinal
  <1>1. ListingInv /\ [LNext]_listingVars
          => [ (\E n \in Sizes : Skip(n) \/ Refuse(n) \/ Put(n)) /\ ~more
                 => ~more' /\ UNCHANGED <<size, taken>> ]_listingVars
    <2> SUFFICES ASSUME ListingInv, ~more,
                        NEW n \in Sizes, Skip(n) \/ Refuse(n) \/ Put(n)
                 PROVE  ~more' /\ UNCHANGED <<size, taken>>
      OBVIOUS
    <2>1. Refuse(n)
      BY SkipStep, PutStep, ListingAssumption
    <2> QED
      BY <2>1 DEF Refuse
  <1> QED
    BY <1>1, ListingInvariant, PTL DEF LSpec, RefusalIsFinal
=============================================================================
