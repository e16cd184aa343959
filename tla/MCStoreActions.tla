--------------------------- MODULE MCStoreActions ---------------------------
(***************************************************************************)
(* Small instances of StoreActions.  Key 0 is the one of "__all", 1 is a   *)
(* label that every post has, 2 a word that some posts or tags have.       *)
(***************************************************************************)
EXTENDS StoreActions, TLC

CONSTANTS p1, p2, p3, j1, j2, c1

MCPosts == {p1, p2}
ThreePosts == {p1, p2, p3}
MCKeys == {0, 1, 2}
TwoKeys == {0, 1}
MCJobs == {j1, j2}
OneJob == {j1}
NoCheckpointer == {}
OneCheckpointer == {c1}

Label == {1}
Word == {2}

OnlyLabel == {Label}
OnlyWord == {Word}

NoDeletes == {}
DeleteWord == {Word}

Symmetry == Permutations(MCPosts) \cup Permutations(MCJobs)
=============================================================================
