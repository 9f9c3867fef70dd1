---------------------------- MODULE SubscribersMC ----------------------------
(* Small wire alphabets for the manager under arbitrary calls. *)
EXTENDS Subscribers
CONSTANTS q
MCQuotes == {q, ZeroQuote}
New(quote) == [update_action |-> "New", entry_type |-> "0", price_level |-> 1, quote |-> quote]
MCIncrements == {<<>>, <<New(q)>>}
MCSnapshots == {<<>>}
Small == Cardinality(DOMAIN products) + Cardinality(Registered) <= 3
Symmetry == Permutations(Products) \cup Permutations(Callbacks)
=============================================================================
