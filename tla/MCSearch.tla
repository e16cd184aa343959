------------------------------ MODULE MCSearch ------------------------------
(* Four posts and pages of two: the results fill several pages.            *)
EXTENDS Search

FourPosts == 1..4
=============================================================================
