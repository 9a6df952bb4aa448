---------------------------- MODULE MCGuardedRead ----------------------------
(***************************************************************************)
(* GuardedRead with two contents of different sizes, so that a window of   *)
(* one can be mistaken for a window of the other, clipped or not.          *)
(***************************************************************************)
EXTENDS GuardedRead

MCContents  == {1, 2}
MCSizeOf(c) == c + 1

MCReads == [op : {"head", "get"}, offset : {0}, length : {0}]
           \cup [op : {"range"}, offset : 0 .. 1, length : 1 .. 2]
=============================================================================
