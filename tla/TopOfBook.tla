------------------------------ MODULE TopOfBook ------------------------------
(***************************************************************************)
(* The exchange's side of I081: a price ladder of any length, of which it  *)
(* publishes the best Depth levels, and one derived quote.  A level that   *)
(* falls off the published part is never deleted on the wire, and one that *)
(* comes back into it is sent as a "New" of the last level, after the      *)
(* "Delete" that made room for it (comment of apply_entry,                 *)
(* src/src/order_book.cc:29-33, and the worked examples the tests replay). *)
(*                                                                         *)
(* The receiver applies each message to its book with the code's           *)
(* functions, may miss messages, and recovers through snapshots.           *)
(***************************************************************************)
EXTENDS OrderBook, SequencesExt

CONSTANTS
  Regular,     \* a side fed level by level ('0' or '1')
  Derived,     \* a side fed by "Overlay" of its first level ('E' or 'F')
  MaxDeep,     \* bound on the exchange's ladder
  MaxEvents    \* bound on the changes one I081 carries

ASSUME SideNames == Regular \in Sides /\ Derived \in Sides /\ Regular # Derived
ASSUME LadderBounds == MaxDeep \in Nat /\ MaxEvents \in Nat

VARIABLES
  deep,        \* the exchange's regular ladder, best price first
  quoted,      \* the exchange's derived quote, or NoLevel
  book,        \* the receiver's book
  synced       \* the receiver missed nothing since its last snapshot

vars == <<deep, quoted, book, synced>>

Live == Quotes \ {ZeroQuote}

\* The published part of the exchange's book.
Published ==
  [s \in Sides |-> [n \in Levels |->
     IF s = Regular /\ n <= Len(deep) THEN deep[n]
     ELSE IF s = Derived /\ n = 1 THEN quoted
     ELSE NoLevel]]

MDEntry(action, side, level, q) ==
  [update_action |-> action, entry_type |-> side, price_level |-> level, quote |-> q]
-----------------------------------------------------------------------------
(***************************************************************************)
(* One change of the exchange's ladder, as [deep, entries]: the ladder it  *)
(* leaves and the entries that announce it.                                *)
(***************************************************************************)
Insertions(d) ==
  IF Len(d) = MaxDeep THEN {} ELSE
  {[deep    |-> InsertAt(d, n, q),
    entries |-> IF n <= Depth THEN <<MDEntry("New", Regular, n, q)>> ELSE <<>>] :
      n \in 1 .. Len(d) + 1, q \in Live}

Changes(d) ==
  {[deep    |-> ReplaceAt(d, n, q),
    entries |-> IF n <= Depth THEN <<MDEntry("Change", Regular, n, q)>> ELSE <<>>] :
      n \in 1 .. Len(d), q \in Live}

Removals(d) ==
  {[deep    |-> RemoveAt(d, n),
    entries |-> IF n > Depth THEN <<>>
                ELSE IF Len(d) <= Depth
                THEN <<MDEntry("Delete", Regular, n, ZeroQuote)>>
                ELSE <<MDEntry("Delete", Regular, n, ZeroQuote),
                       MDEntry("New", Regular, Depth, d[Depth + 1])>>] :
      n \in 1 .. Len(d)}

Event(d) == Insertions(d) \cup Changes(d) \cup Removals(d)

\* Up to k changes announced by one message.
Batches(d) ==
  LET after[k \in 0 .. MaxEvents] ==
        IF k = 0 THEN {[deep |-> d, entries |-> <<>>]}
        ELSE UNION {{[deep |-> e.deep, entries |-> b.entries \o e.entries] :
                       e \in Event(b.deep)} : b \in after[k - 1]}
  IN  UNION {after[k] : k \in 1 .. MaxEvents}

-----------------------------------------------------------------------------
Init ==
  /\ deep = <<>>
  /\ quoted = NoLevel
  /\ book = EmptyBook
  /\ synced = TRUE

\* The message is received and applied, or lost.
Receive(entries) ==
  \/ book' = apply_entries(book, entries) /\ UNCHANGED synced
  \/ synced' = FALSE /\ UNCHANGED book

Trade ==
  /\ \E b \in Batches(deep) : deep' = b.deep /\ Receive(b.entries)
  /\ UNCHANGED quoted

\* A derived quote is announced by an Overlay, its withdrawal by a zero one.
Derive(q) ==
  /\ quoted' = IF q = ZeroQuote THEN NoLevel ELSE q
  /\ Receive(<<MDEntry("Overlay", Derived, 1, q)>>)
  /\ UNCHANGED deep

\* A snapshot names the published levels, in any order.
Snapshot ==
  /\ \E entries \in SetToSeqs(Cells(Published)) : book' = load_entries(entries)
  /\ synced' = TRUE
  /\ UNCHANGED <<deep, quoted>>

Next == Trade \/ (\E q \in Quotes : Derive(q)) \/ Snapshot

Spec == Init /\ [][Next]_vars
-----------------------------------------------------------------------------
\* Ladders only ever hold quotes of the wire.
TypeOK ==
  /\ deep \in BoundedSeq(Live, MaxDeep)
  /\ quoted \in Live \cup {NoLevel}
  /\ book \in Book
  /\ synced \in BOOLEAN

\* A receiver that has missed nothing since its last snapshot holds exactly
\* the published levels: the insertions that push a level off, the deletions
\* that bring one back and the derived overlays of apply_entry, applied in the
\* order of the message, follow the exchange's own ladder.
BookIsPublished == synced => book = Published
=============================================================================
