---------------------- MODULE DirectoryContentsProofs ----------------------
(***************************************************************************)
(* What DirectoryContents promises a client, as invariants.  DirReading    *)
(* and DirEntryReader implement DirectoryContents, so under their mappings *)
(* these hold of the clients of DirListingWriter and of DirEntryReader as  *)
(* well, for the instances on which the implementation is checked.         *)
(***************************************************************************)
EXTENDS DirectoryContents, TLAPS

(* The client has the first entries of the directory, and no others.       *)
IsPrefix == \E n \in 0..Len(dir) : got = SubSeq(dir, 1, n)

(* Until an answer had no room for an entry, the client has a first part   *)
(* of the directory, in its order and each entry once.                     *)
EntriesInOrder == ~short => IsPrefix

(* A client that was told that this is all, and was always given room, has *)
(* the whole directory.                                                    *)
EndIsTrue == done /\ ~short => got = dir

(* An entry that the client has it keeps; an end it was told of stands.    *)
NothingTakenBack ==
  /\ done => done' /\ got' = got
  /\ ~short' => \E n \in 0..Len(got') : got = SubSeq(got', 1, n)

ContentsInv(E) ==
  /\ dir \in Seq(E)
  /\ EntriesInOrder
  /\ EndIsTrue

LEMMA PrefixOfPrefix ==
  ASSUME NEW E, NEW d \in Seq(E), NEW m \in 0..Len(d), NEW n \in m..Len(d)
  PROVE  /\ SubSeq(d, 1, n) \in Seq(E) /\ Len(SubSeq(d, 1, n)) = n
         /\ SubSeq(SubSeq(d, 1, n), 1, m) = SubSeq(d, 1, m)
<1> DEFINE s == SubSeq(d, 1, n)
<1>1. Len(d) \in Nat /\ m \in Nat /\ n \in Nat /\ m <= n /\ n <= Len(d)
  OBVIOUS
<1>2. s \in Seq(E) /\ Len(s) = n
  BY <1>1
<1>3. s = [i \in 1..n |-> d[i]]
  BY <1>1
<1>4. SubSeq(d, 1, m) = [i \in 1..m |-> d[i]]
  BY <1>1
<1> HIDE DEF s
<1>5. SubSeq(s, 1, m) = [i \in 1..m |-> s[i]]
  BY <1>1, <1>2
<1>6. \A i \in 1..m : s[i] = d[i]
  BY <1>1, <1>3
<1>7. SubSeq(s, 1, m) = SubSeq(d, 1, m)
  BY <1>4, <1>5, <1>6
<1> QED  BY <1>2, <1>7 DEF s

LEMMA InitContents ==
  ASSUME NEW E, Dirs \subseteq Seq(E)
  PROVE  Init => ContentsInv(E)
<1> SUFFICES ASSUME Init  PROVE ContentsInv(E)
  OBVIOUS
<1>1. dir \in Seq(E) /\ got = << >> /\ done = FALSE
  BY DEF Init
<1>2. Len(dir) \in Nat /\ SubSeq(dir, 1, 0) = << >>
  BY <1>1
<1>3. 0 \in 0..Len(dir)
  BY <1>2
<1>4. IsPrefix
  BY <1>1, <1>2, <1>3 DEF IsPrefix
<1> QED  BY <1>1, <1>4 DEF ContentsInv, EntriesInOrder, EndIsTrue

LEMMA ContentsStep ==
  ASSUME NEW E, ContentsInv(E), [Next]_contents
  PROVE  ContentsInv(E)'
<1>1. dir \in Seq(E) /\ EntriesInOrder /\ EndIsTrue
  BY DEF ContentsInv
<1>2. CASE Deliver
  <2>1. dir' = dir /\ done' = done /\ short' = short /\ ~done
    BY <1>2 DEF Deliver
  <2>2. CASE short
    BY <1>1, <2>1, <2>2 DEF ContentsInv, EntriesInOrder, EndIsTrue
  <2>3. CASE ~short
    <3>1. PICK m \in 0..Len(dir) : got = SubSeq(dir, 1, m)
      BY <1>1, <2>3 DEF EntriesInOrder, IsPrefix
    <3>2. PICK n \in (Len(got) + 1)..Len(dir) : got' = SubSeq(dir, 1, n)
      BY <1>2 DEF Deliver
    <3>3. Len(got) = m /\ Len(dir) \in Nat
      BY <1>1, <3>1, PrefixOfPrefix
    <3>4. n \in 0..Len(dir)
      BY <3>1, <3>2, <3>3
    <3> QED  BY <1>1, <2>1, <3>2, <3>4 DEF ContentsInv, EntriesInOrder, IsPrefix, EndIsTrue
  <2> QED  BY <2>2, <2>3
<1>3. CASE End
  BY <1>1, <1>3 DEF End, ContentsInv, EntriesInOrder, IsPrefix, EndIsTrue
<1>4. CASE RunShort
  BY <1>1, <1>4 DEF RunShort, ContentsInv, EntriesInOrder, EndIsTrue
<1>5. CASE Misread
  BY <1>1, <1>5 DEF Misread, ContentsInv, EntriesInOrder, EndIsTrue
<1>6. CASE UNCHANGED contents
  BY <1>1, <1>6 DEF contents, ContentsInv, EntriesInOrder, IsPrefix, EndIsTrue
<1> QED  BY <1>2, <1>3, <1>4, <1>5, <1>6 DEF Next

(* A client that lists a directory and is always given room for an entry   *)
(* has the first entries of it at any time, and all of them when it is     *)
(* told that this is the end.                                              *)
THEOREM ContentsDelivered ==
  ASSUME NEW E, Dirs \subseteq Seq(E)
  PROVE  Spec => [](EntriesInOrder /\ EndIsTrue)
<1>1. Init => ContentsInv(E)
  BY InitContents
<1>2. ContentsInv(E) /\ [Next]_contents => ContentsInv(E)'
  BY ContentsStep
<1>3. ContentsInv(E) => EntriesInOrder /\ EndIsTrue
  BY DEF ContentsInv
<1> QED  BY <1>1, <1>2, <1>3, PTL DEF Spec

(* What a client has got it keeps, unless an answer had no room for an     *)
(* entry, and after the end nothing comes any more.                        *)
THEOREM ContentsKept ==
  ASSUME NEW E, Dirs \subseteq Seq(E)
  PROVE  Spec => [][NothingTakenBack]_contents
<1>1. Init => ContentsInv(E)
  BY InitContents
<1>2. ContentsInv(E) /\ [Next]_contents => ContentsInv(E)'
  BY ContentsStep
<1>3. ASSUME ContentsInv(E), [Next]_contents
      PROVE  [NothingTakenBack]_contents
  <2>1. CASE UNCHANGED contents
    BY <2>1
  <2>2. CASE Next
    <3>1. dir \in Seq(E) /\ EntriesInOrder
      BY <1>3 DEF ContentsInv
    <3>2. ~done
      BY <2>2 DEF Next, Deliver, End, RunShort, Misread
    <3>3. ASSUME ~short'
          PROVE  \E n \in 0..Len(got') : got = SubSeq(got', 1, n)
      <4>1. dir' = dir /\ ~short /\ (Deliver \/ End)
        BY <2>2, <3>3 DEF Next, Deliver, End, RunShort, Misread
      <4>2. PICK m \in 0..Len(dir) : got = SubSeq(dir, 1, m)
        BY <3>1, <4>1 DEF EntriesInOrder, IsPrefix
      <4>3. Len(got) = m /\ Len(dir) \in Nat
        BY <3>1, <4>2, PrefixOfPrefix
      <4>4. PICK n \in m..Len(dir) : got' = SubSeq(dir, 1, n)
        <5>1. CASE Deliver
          <6>1. PICK n \in (Len(got) + 1)..Len(dir) : got' = SubSeq(dir, 1, n)
            BY <5>1 DEF Deliver
          <6>2. n \in m..Len(dir)
            BY <4>2, <4>3, <6>1
          <6> QED  BY <6>1, <6>2
        <5>2. CASE End
          <6>1. got' = SubSeq(dir, 1, m)
            BY <4>2, <5>2 DEF End
          <6>2. m \in m..Len(dir)
            BY <4>2, <4>3
          <6> QED  BY <6>1, <6>2
        <5> QED  BY <4>1, <5>1, <5>2
      <4>5. Len(got') = n /\ got = SubSeq(got', 1, m)
        BY <3>1, <4>2, <4>4, PrefixOfPrefix
      <4>6. m \in 0..Len(got')
        BY <4>2, <4>3, <4>4, <4>5
      <4> QED  BY <4>5, <4>6
    <3> QED  BY <3>2, <3>3 DEF NothingTakenBack
  <2> QED  BY <1>3, <2>1, <2>2
<1> QED  BY <1>1, <1>2, <1>3, PTL DEF Spec
=============================================================================
