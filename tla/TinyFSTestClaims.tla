-------------------------- MODULE TinyFSTestClaims --------------------------
(***************************************************************************)
(* What tinyFSTest.c prints, and is not so.                                *)
(***************************************************************************)
EXTENDS MCTinyFSTest

(* tinyFSTest.c:20 and :46, "Test 1: open file, write to file, close file" *)
(* and "Test 1: Passed": when it has passed the file holds what was        *)
(* written.  On an image of which openDisk made only the beginning, every  *)
(* call fails with a code other than -1, and the test passes.              *)
PassedStores ==
  test > 1 /\ 1 \notin failed /\ ~waiting =>
    \E k \in TestFiles : Holds(k, testString1)
=============================================================================
