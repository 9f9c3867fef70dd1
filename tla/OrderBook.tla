------------------------------ MODULE OrderBook ------------------------------
(***************************************************************************)
(* The book of one product and the pure functions that rewrite it: the     *)
(* side_ladder, apply_entry and adopt_snapshot_locked part of              *)
(* src/src/order_book.cc.                                                  *)
(* Definitions whose names end in _bug are faulty variants of the ones     *)
(* they precede: no specification uses them, they only show that a         *)
(* property would notice the fault.                                        *)
(*                                                                         *)
(* A book is a family of ladders of Depth levels.  A level is empty        *)
(* (NoLevel, the OrderBookLevel{} of the code) or holds a quote: the       *)
(* triple (price_sign, price, quantity) is one value, of which the code    *)
(* only ever asks whether price and quantity are both zero (ZeroQuote).    *)
(***************************************************************************)
EXTENDS Integers, Sequences, FiniteSets

CONSTANTS
  Depth,       \* TAIFEX_BOOK_DEPTH, 5 in the code
  Sides,       \* the entry types that own a ladder: '0', '1', 'E' and 'F'
  Quotes,      \* the (sign, price, quantity) triples on the wire
  ZeroQuote,   \* the one with price = 0 and quantity = 0
  NoLevel      \* an invalid (empty) level

ASSUME DepthAssumption == Depth \in Nat \ {0}
ASSUME SidesAssumption == IsFiniteSet(Sides)
ASSUME QuotesAssumption == ZeroQuote \in Quotes /\ NoLevel \notin Quotes

Levels == 1 .. Depth
Ladder == [Levels -> Quotes \cup {NoLevel}]
Book == [Sides -> Ladder]

\* What a snapshot says of one level.
SnapshotEntry == [entry_type : Sides, price_level : Levels, quote : Quotes]

\* Entries as the parser hands them over: any action, side and level.
IsEntries(entries) ==
  /\ DOMAIN entries = 1 .. Len(entries)
  /\ Len(entries) \in Nat
  /\ \A i \in DOMAIN entries : entries[i].quote \in Quotes

EmptyBook == [s \in Sides |-> [n \in Levels |-> NoLevel]]
-----------------------------------------------------------------------------
(***************************************************************************)
(* One I081 entry.  "New" inserts at its level and shifts the lower levels *)
(* down (the last one falls off); "Delete" removes its level and shifts    *)
(* the rest up; "Change" and "Overlay" rewrite the level in place, and an  *)
(* "Overlay" of a zero quote empties it.                                   *)
(***************************************************************************)
\* Faulty: nothing falls off.
insert_level_bug(ladder, n, q) ==
  [i \in 1 .. Depth + 1 |-> IF i < n THEN ladder[i] ELSE IF i = n THEN q ELSE ladder[i - 1]]

insert_level(ladder, n, q) ==
  [i \in Levels |-> IF i < n THEN ladder[i] ELSE IF i = n THEN q ELSE ladder[i - 1]]

\* Faulty: the last level is not emptied.
delete_level_bug(ladder, n) ==
  [i \in Levels |-> IF i < n \/ i = Depth THEN ladder[i] ELSE ladder[i + 1]]

delete_level(ladder, n) ==
  [i \in Levels |->
     IF i < n THEN ladder[i] ELSE IF i < Depth THEN ladder[i + 1] ELSE NoLevel]

overlay_level(ladder, n, q) ==
  [ladder EXCEPT ![n] = IF q = ZeroQuote THEN NoLevel ELSE q]

rewrite_ladder(ladder, entry) ==
  CASE entry.update_action = "New"     -> insert_level(ladder, entry.price_level, entry.quote)
    [] entry.update_action = "Change"  -> [ladder EXCEPT ![entry.price_level] = entry.quote]
    [] entry.update_action = "Delete"  -> delete_level(ladder, entry.price_level)
    [] entry.update_action = "Overlay" -> overlay_level(ladder, entry.price_level, entry.quote)
    [] OTHER                           -> ladder

\* side_ladder() = nullptr and a level outside 1..5: the entry is skipped.
HasLevel(entry) == entry.entry_type \in Sides /\ entry.price_level \in Levels

apply_entry(book, entry) ==
  IF HasLevel(entry)
  THEN [book EXCEPT ![entry.entry_type] = rewrite_ladder(@, entry)]
  ELSE book

\* The loop of on_i081 over pkt.entries.
apply_entries(book, entries) ==
  LET after[i \in 0 .. Len(entries)] ==
        IF i = 0 THEN book ELSE apply_entry(after[i - 1], entries[i])
  IN  after[Len(entries)]
-----------------------------------------------------------------------------
(***************************************************************************)
(* A snapshot (I083, or one product block of an I084) replaces the whole   *)
(* book: every ladder is emptied, then each entry writes its level, so     *)
(* that the last entry for a level wins.                                   *)
(***************************************************************************)
Writers(entries, s, n) ==
  {i \in DOMAIN entries : entries[i].entry_type = s /\ entries[i].price_level = n}

load_entries(entries) ==
  [s \in Sides |-> [n \in Levels |->
     LET W == Writers(entries, s, n)
     IN  IF W = {} THEN NoLevel
         ELSE entries[CHOOSE i \in W : \A j \in W : j <= i].quote]]

\* The other way round, the entries that the levels of a book make in a
\* snapshot message, and one order they may come in.
Cells(book) ==
  {[entry_type |-> c[1], price_level |-> c[2], quote |-> book[c[1]][c[2]]] :
     c \in {d \in Sides \X Levels : book[d[1]][d[2]] # NoLevel}}

entries_of(book) ==
  CHOOSE es \in [1 .. Cardinality(Cells(book)) -> Cells(book)] :
    \A cell \in Cells(book) : \E i \in DOMAIN es : es[i] = cell
=============================================================================
