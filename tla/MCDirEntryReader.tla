-------------------------- MODULE MCDirEntryReader --------------------------
(* An instance of DirEntryReader for TLC: directories of up to three       *)
(* entries, of 24 to 34 bytes, and answers of every length from none to    *)
(* all of the directory, cut by the server or short of buffer.             *)
EXTENDS DirEntryReader

Entry(i, offset, name) ==
  [k \in {<<"qid", "type">>, <<"qid", "version">>, <<"qid", "path">>,
          <<"offset">>, <<"type">>, <<"name">>} |->
     CASE k = <<"name">>   -> name
       [] k = <<"offset">> -> offset
       [] OTHER            -> i]

A == Entry(1, 9, <<1>>)
B == Entry(0, 2, << >>)
C == Entry(3, 5, [i \in 1..10 |-> i])

MCDirs == {<< >>, <<B>>, <<C, B>>, <<A, B, C>>, <<B, C, A>>}

(* Cut at every byte; short of every number of cells *)
MCRooms == [lim : {83}, count : 0..83] \cup [lim : 0..83, count : {83}]
=============================================================================
