----------------------------- MODULE BookService -----------------------------
(***************************************************************************)
(* What the order book manager promises its subscribers, without channels, *)
(* threads, jobs or recovery: for each product it shows a book, a serial   *)
(* and whether they can be trusted.  A trusted book is the exchange's book *)
(* after that serial; the serial never goes back while the product is      *)
(* shown; an untrusted book is anybody's guess.                            *)
(***************************************************************************)
EXTENDS Integers, Sequences

CONSTANTS Products, Books, StartBook

VARIABLES
  truth,   \* the exchange's book of each product after serial 1, 2, ...
  shown    \* product -> what is shown of it, for those that are

vars == <<truth, shown>>

TrueBook(p, k) == IF k = 0 THEN StartBook ELSE truth[p][k]

Entry == [serial : Nat, trusted : BOOLEAN, book : Books]

Init ==
  /\ truth = [p \in Products |-> <<>>]
  /\ shown = [p \in {} |-> 0]

\* The exchange changes a book, or only its serial.
Extend(p) ==
  /\ \E book \in Books : truth' = [truth EXCEPT ![p] = Append(@, book)]
  /\ UNCHANGED shown

\* A later state of the product is shown, or the same one trusted again.
Show(p) ==
  /\ \E k \in 0 .. Len(truth[p]), trusted \in BOOLEAN, book \in Books :
       /\ p \in DOMAIN shown => k >= shown[p].serial
       /\ trusted => book = TrueBook(p, k)
       /\ shown' = [q \in DOMAIN shown \cup {p} |->
                      IF q = p THEN [serial |-> k, trusted |-> trusted, book |-> book]
                      ELSE shown[q]]
  /\ UNCHANGED truth

\* Some books can no longer be trusted; nothing else about them changes.
Distrust ==
  /\ \E doubtful \in SUBSET DOMAIN shown :
       shown' = [p \in DOMAIN shown |->
                   [shown[p] EXCEPT !.trusted = @ /\ p \notin doubtful]]
  /\ UNCHANGED truth

\* A product is no longer shown.
Withdraw(p) ==
  /\ shown' = [q \in DOMAIN shown \ {p} |-> shown[q]]
  /\ UNCHANGED truth

\* Everything starts again, in the same session or in another one.
Clear ==
  /\ shown' = [p \in {} |-> 0]
  /\ truth' \in [Products -> Seq(Books)]

Next ==
  \/ Distrust
  \/ \E p \in Products : Extend(p) \/ Show(p) \/ Withdraw(p)
  \/ Clear

Spec == Init /\ [][Next]_vars
=============================================================================
