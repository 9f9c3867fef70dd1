----------------------------- MODULE TopOfBookMC -----------------------------
(* Three published levels over a ladder of up to five, two live quotes. *)
EXTENDS TopOfBook, TLC
CONSTANTS q1, q2
MCQuotes == {q1, q2, ZeroQuote}
MCSides == {Regular, Derived}
Symmetry == Permutations({q1, q2})
=============================================================================
