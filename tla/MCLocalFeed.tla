---------------------------- MODULE MCLocalFeed -----------------------------
(* Two steps on a ring of seven events, of the twelve a build may emit: one  *)
(* of them may hit the cache or write a line.                                *)
EXTENDS LocalFeed

CONSTANTS lib, test

TestWrites == [s \in Steps |-> IF s = test THEN 1 ELSE 0]

=============================================================================
