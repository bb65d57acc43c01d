---------------------------- MODULE MCDirReading ----------------------------
(* An instance of DirReading for TLC: directories of up to three entries,  *)
(* of 50 to 55 bytes, read in parts of one, two or three of them.          *)
EXTENDS DirReading

Entry(i, name, uid) ==
  LET leaves == StatFields(EncNested)
      raw == [k \in {leaves[j].key : j \in DOMAIN leaves} |->
                CASE k = <<"name">> -> name
                  [] k = <<"uid">>  -> uid
                  [] k \in {<<"gid">>, <<"muid">>} -> << >>
                  [] OTHER -> i + Len(k)]
  IN  [raw EXCEPT ![<<"size">>] = sizeStat(raw)]

A == Entry(1, <<1>>, << >>)
B == Entry(2, <<2, 3, 4>>, <<5, 6, 7>>)
C == Entry(3, <<9, 8>>, <<7>>)

MCDirs == {<< >>, <<A>>, <<B, A>>, <<A, B, C>>, <<B, A, C>>}

(* Too small for B; for one entry; for one or two; for all of them *)
MCCounts == {52, 55, 104, 120, 170}

(* Not even a header; an entry cut in the middle; room for every count *)
MCLimits == {6, 40, 80, 200}
=============================================================================
