-------------------------------- MODULE FeedMC --------------------------------
(* One ladder of two levels, one quote: the exchange's books are told apart
   by how many levels they hold. *)
EXTENDS Feed
CONSTANTS q
MCQuotes == {q, ZeroQuote}
MDEntry(action, quote) ==
  [update_action |-> action, entry_type |-> "0", price_level |-> 1, quote |-> quote]
MCUpdates == {<<MDEntry("New", q)>>, <<MDEntry("Delete", q)>>}
MCInsertions == {<<MDEntry("New", q)>>}
MCReopenings == {[s \in Sides |-> [n \in Levels |-> q]]}
Symmetry == Permutations(Products)

(* Views: what the actions read, and the history variables that the properties of
   the run depend on. *)
AnyOrderView == <<manager, exchange, position, heard, job, epoch, mixed>>

\* The products whose blocks the carousel's thread has still to give the manager.
BlocksInHand ==
  {p \in Products : \E i \in DOMAIN job[CarouselThread] :
     LET m == job[CarouselThread][i]
     IN  m.call = "product" /\ m.kind = "I084" /\ m.prod = p}

SingleView ==
  <<manager, exchange, position, behind \cap BlocksInHand, job, mixed, base, outdated>>
=============================================================================
