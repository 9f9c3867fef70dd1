--------------------------- MODULE OrderBookProofs ---------------------------
(***************************************************************************)
(* What the book functions preserve, for every depth, set of sides and     *)
(* alphabet of quotes, and every sequence of entries.                      *)
(***************************************************************************)
EXTENDS OrderBook, TLAPS, WellFoundedInduction, FiniteSetTheorems, SequenceTheorems

(***************************************************************************)
(* Induction over the naturals in first-order form: a set of naturals that *)
(* holds 0 and is closed under successor holds them all.                   *)
(***************************************************************************)
Before == {pair \in Nat \X Nat : pair[1] < pair[2]}

LEMMA BeforeIsWellFounded == IsWellFoundedOn(Before, Nat)
<1>1. IsWellFoundedOn(OpToRel(<, Nat), Nat)
  BY NatLessThanWellFounded
<1>2. OpToRel(<, Nat) = Before
  BY DEF OpToRel, Before
<1> QED BY <1>1, <1>2

LEMMA NatSetInduction ==
  ASSUME NEW S, 0 \in S, \A n \in Nat : n \in S => n + 1 \in S
  PROVE  Nat \subseteq S
<1>1. SUFFICES ASSUME Nat \ S # {} PROVE FALSE
  OBVIOUS
<1>2. PICK x \in Nat \ S : \A y \in Nat \ S : <<y, x>> \notin Before
  BY <1>1, BeforeIsWellFounded, WFMin, Nat \ S \subseteq Nat
<1>3. x \in Nat /\ x # 0 /\ x - 1 \in Nat /\ x - 1 < x
  BY <1>2
<1>4. <<x - 1, x>> \in Before
  BY <1>3 DEF Before
<1>5. x - 1 \in S
  BY <1>2, <1>3, <1>4
<1> QED BY <1>2, <1>3, <1>5
-----------------------------------------------------------------------------
\* Rewriting a ladder with one entry leaves a ladder (apply_entry).
LEMMA RewriteLadderType ==
  ASSUME NEW ladder \in Ladder, NEW entry, entry.quote \in Quotes, entry.price_level \in Levels
  PROVE  rewrite_ladder(ladder, entry) \in Ladder
<1> USE DepthAssumption, QuotesAssumption DEF Ladder, Levels
<1>1. insert_level(ladder, entry.price_level, entry.quote) \in Ladder
  BY DEF insert_level
<1>2. delete_level(ladder, entry.price_level) \in Ladder
  BY DEF delete_level
<1>3. overlay_level(ladder, entry.price_level, entry.quote) \in Ladder
  BY DEF overlay_level
<1>4. [ladder EXCEPT ![entry.price_level] = entry.quote] \in Ladder
  OBVIOUS
<1> QED BY <1>1, <1>2, <1>3, <1>4 DEF rewrite_ladder

\* Applying one entry leaves a book.
LEMMA ApplyEntryType ==
  ASSUME NEW book \in Book, NEW entry, entry.quote \in Quotes
  PROVE  apply_entry(book, entry) \in Book
<1>1. CASE HasLevel(entry)
  <2>1. book[entry.entry_type] \in Ladder /\ entry.price_level \in Levels
    BY <1>1 DEF HasLevel, Book
  <2>2. rewrite_ladder(book[entry.entry_type], entry) \in Ladder
    BY <2>1, RewriteLadderType
  <2> QED BY <1>1, <2>2 DEF apply_entry, Book, HasLevel
<1>2. CASE ~HasLevel(entry)
  BY <1>2 DEF apply_entry
<1> QED BY <1>1, <1>2

(***************************************************************************)
(* The loop over the entries of a message is well defined and leaves a     *)
(* book.  First the table of intermediate books exists, for every prefix;  *)
(* then the recursive definition denotes it.                               *)
(***************************************************************************)
IsTable(table, book, entries, k) ==
  /\ table \in [0 .. k -> Book]
  /\ table[0] = book
  /\ \A i \in 1 .. k : table[i] = apply_entry(table[i - 1], entries[i])

LEMMA TableExists ==
  ASSUME NEW book \in Book, NEW entries, IsEntries(entries)
  PROVE  \E table : IsTable(table, book, entries, Len(entries))
<1> DEFINE S == {k \in Nat : k <= Len(entries) => \E table : IsTable(table, book, entries, k)}
<1>1. 0 \in S
  <2> DEFINE table == [i \in 0 .. 0 |-> book]
  <2>1. IsTable(table, book, entries, 0)
    BY DEF IsTable
  <2> QED BY <2>1
<1>2. ASSUME NEW k \in Nat, k \in S PROVE k + 1 \in S
  <2>1. SUFFICES ASSUME k + 1 <= Len(entries)
                 PROVE  \E table : IsTable(table, book, entries, k + 1)
    OBVIOUS
  <2>2. PICK table : IsTable(table, book, entries, k)
    BY <1>2, <2>1 DEF IsEntries
  <2> DEFINE last == apply_entry(table[k], entries[k + 1])
             next == [i \in 0 .. k + 1 |-> IF i = k + 1 THEN last ELSE table[i]]
  <2>3. entries[k + 1].quote \in Quotes
    BY <2>1 DEF IsEntries
  <2>4. table[k] \in Book
    BY <2>2 DEF IsTable
  <2>5. last \in Book
    BY <2>3, <2>4, ApplyEntryType
  <2> HIDE DEF last
  <2>6. next \in [0 .. k + 1 -> Book] /\ next[0] = book
    BY <2>2, <2>5 DEF IsTable
  <2>7. ASSUME NEW i \in 1 .. k + 1
        PROVE  next[i] = apply_entry(next[i - 1], entries[i])
    <3>1. CASE i = k + 1
      <4>1. next[i] = last /\ next[i - 1] = table[k]
        BY <3>1
      <4> QED BY <3>1, <4>1 DEF last
    <3>2. CASE i # k + 1
      <4>1. i \in 1 .. k /\ next[i] = table[i] /\ next[i - 1] = table[i - 1]
        BY <3>2
      <4> QED BY <4>1, <2>2 DEF IsTable
    <3> QED BY <3>1, <3>2
  <2>8. IsTable(next, book, entries, k + 1)
    BY <2>6, <2>7 DEF IsTable
  <2> QED BY <2>8
<1> HIDE DEF S
<1>3. Nat \subseteq S
  BY <1>1, <1>2, NatSetInduction
<1> QED BY <1>3 DEF S, IsEntries

\* The loop leaves the last book of the table.
LEMMA TableDenotes ==
  ASSUME NEW book, NEW entries, Len(entries) \in Nat, NEW table,
         IsTable(table, book, entries, Len(entries))
  PROVE  apply_entries(book, entries) = table[Len(entries)]
<1> DEFINE n == Len(entries)
           Step(f) == [i \in 0 .. n |->
                         IF i = 0 THEN book ELSE apply_entry(f[i - 1], entries[i])]
           after == CHOOSE f : f = Step(f)
<1>1. table = Step(table)
  BY DEF IsTable
<1>2. after = Step(after)
  BY <1>1
<1>3. apply_entries(book, entries) = after[n]
  BY DEF apply_entries
<1> HIDE DEF after
<1> DEFINE T == {k \in Nat : k <= n => after[k] = table[k]}
<1>4. 0 \in T
  BY <1>2 DEF IsTable
<1>5. ASSUME NEW k \in Nat, k \in T PROVE k + 1 \in T
  <2>1. SUFFICES ASSUME k + 1 <= n PROVE after[k + 1] = table[k + 1]
    OBVIOUS
  <2>2. k + 1 \in 1 .. n /\ k + 1 - 1 = k /\ k <= n
    BY <2>1
  <2>3. after[k + 1] = apply_entry(after[k], entries[k + 1])
    BY <1>2, <2>2
  <2>4. table[k + 1] = apply_entry(table[k], entries[k + 1])
    BY <2>2 DEF IsTable
  <2> QED BY <1>5, <2>2, <2>3, <2>4
<1> HIDE DEF T
<1>6. Nat \subseteq T
  BY <1>4, <1>5, NatSetInduction
<1> QED BY <1>3, <1>6 DEF T

\* Applying any message's entries to a book leaves a book (on_i081).
THEOREM ApplyEntriesType ==
  ASSUME NEW book \in Book, NEW entries, IsEntries(entries)
  PROVE  apply_entries(book, entries) \in Book
<1>1. PICK table : IsTable(table, book, entries, Len(entries))
  BY TableExists
<1>2. Len(entries) \in Nat /\ table[Len(entries)] \in Book
  BY <1>1 DEF IsEntries, IsTable
<1> QED BY <1>1, <1>2, TableDenotes

\* Entries in a sequence.
LEMMA SeqOfEntries ==
  ASSUME NEW S, \A e \in S : e.quote \in Quotes, NEW entries \in Seq(S)
  PROVE  IsEntries(entries) /\ Len(entries) \in Nat
<1>1. Len(entries) \in Nat /\ DOMAIN entries = 1 .. Len(entries)
  BY LenProperties
<1>2. \A i \in 1 .. Len(entries) : entries[i] \in S
  BY ElementOfSeq
<1> QED BY <1>1, <1>2 DEF IsEntries

\* A message applied in two parts does what it does at once.
LEMMA ApplyInTurn ==
  ASSUME NEW book \in Book, NEW S, \A e \in S : e.quote \in Quotes,
         NEW s \in Seq(S), NEW t \in Seq(S)
  PROVE  apply_entries(book, s \o t) = apply_entries(apply_entries(book, s), t)
<1>1. PICK n \in Nat, m \in Nat : n = Len(s) /\ m = Len(t)
  BY SeqOfEntries
<1>2. PICK first : IsTable(first, book, s, n)
  BY <1>1, SeqOfEntries, TableExists
<1>3. apply_entries(book, s) = first[n] /\ first[n] \in Book
  <2>1. IsTable(first, book, s, Len(s)) /\ Len(s) \in Nat
    BY <1>1, <1>2
  <2>2. apply_entries(book, s) = first[n]
    BY <1>1, <2>1, TableDenotes
  <2>3. n \in 0 .. n
    OBVIOUS
  <2> QED BY <1>2, <2>2, <2>3 DEF IsTable
<1>4. PICK second : IsTable(second, first[n], t, m)
  BY <1>1, <1>3, SeqOfEntries, TableExists
<1>5. apply_entries(first[n], t) = second[m]
  BY <1>1, <1>4, TableDenotes
<1>6. PICK st : st = s \o t /\ Len(st) = n + m
              /\ \A i \in 1 .. n + m : st[i] = IF i <= n THEN s[i] ELSE t[i - n]
  <2>1. /\ Len(s \o t) = Len(s) + Len(t)
        /\ \A i \in 1 .. Len(s) + Len(t) :
             (s \o t)[i] = IF i <= Len(s) THEN s[i] ELSE t[i - Len(s)]
    BY ConcatProperties
  <2> QED BY <1>1, <2>1
<1> DEFINE both == [i \in 0 .. n + m |-> IF i <= n THEN first[i] ELSE second[i - n]]
<1>7. both \in [0 .. n + m -> Book] /\ both[0] = book /\ both[n + m] = second[m]
  <2>1. ASSUME NEW i \in 0 .. n + m
        PROVE  (IF i <= n THEN first[i] ELSE second[i - n]) \in Book
    <3>1. i <= n => i \in 0 .. n
      OBVIOUS
    <3>2. ~(i <= n) => i - n \in 0 .. m
      OBVIOUS
    <3> QED BY <1>2, <1>4, <3>1, <3>2 DEF IsTable
  <2>2. both[0] = book
    BY <1>2 DEF IsTable
  <2>3. both[n + m] = second[m]
    <3>1. CASE m = 0
      BY <1>4, <3>1 DEF IsTable
    <3>2. CASE m # 0
      <4>1. ~(n + m <= n) /\ n + m - n = m /\ n + m \in 0 .. n + m
        BY <3>2
      <4> QED BY <4>1
    <3> QED BY <3>1, <3>2
  <2> QED BY <2>1, <2>2, <2>3
<1>8. ASSUME NEW i \in 1 .. n + m
      PROVE  both[i] = apply_entry(both[i - 1], st[i])
  <2>1. CASE i <= n
    <3>1. i \in 1 .. n /\ both[i] = first[i] /\ both[i - 1] = first[i - 1] /\ st[i] = s[i]
      BY <1>6, <2>1
    <3> QED BY <1>2, <3>1 DEF IsTable
  <2>2. CASE i > n
    <3>1. PICK k \in 1 .. m : k = i - n /\ i - 1 - n = k - 1
      BY <2>2
    <3>2. both[i] = second[k] /\ st[i] = t[k]
      BY <1>6, <2>2, <3>1
    <3>3. both[i - 1] = second[k - 1]
      <4>1. CASE i = n + 1
        <5>1. k - 1 = 0 /\ i - 1 = n /\ n \in 0 .. n + m
          BY <3>1, <4>1
        <5>2. both[n] = first[n]
          BY <5>1
        <5> QED BY <1>4, <5>1, <5>2 DEF IsTable
      <4>2. CASE i # n + 1
        <5>1. i - 1 \in 0 .. n + m /\ ~(i - 1 <= n)
          BY <2>2, <4>2
        <5>2. both[i - 1] = second[i - 1 - n]
          BY <5>1
        <5> QED BY <3>1, <5>2
      <4> QED BY <4>1, <4>2
    <3>4. second[k] = apply_entry(second[k - 1], t[k])
      BY <1>4, <3>1 DEF IsTable
    <3> QED BY <3>2, <3>3, <3>4
  <2> QED BY <2>1, <2>2
<1> HIDE DEF both
<1>9. IsTable(both, book, st, n + m)
  BY <1>7, <1>8 DEF IsTable
<1>10. apply_entries(book, st) = both[n + m]
  <2>1. IsTable(both, book, st, Len(st)) /\ Len(st) \in Nat
    BY <1>6, <1>9
  <2> QED BY <1>6, <2>1, TableDenotes
<1> QED BY <1>3, <1>5, <1>6, <1>7, <1>10

\* A message without entries, and one with a single entry.
LEMMA ApplyFew ==
  ASSUME NEW book \in Book
  PROVE  /\ apply_entries(book, <<>>) = book
         /\ \A e : e.quote \in Quotes => apply_entries(book, <<e>>) = apply_entry(book, e)
<1>1. apply_entries(book, <<>>) = book
  <2> DEFINE table == [i \in 0 .. 0 |-> book]
  <2>1. IsTable(table, book, <<>>, 0) /\ table[0] = book /\ Len(<<>>) = 0
    BY DEF IsTable
  <2> HIDE DEF table
  <2> QED BY <2>1, TableDenotes
<1>2. ASSUME NEW e, e.quote \in Quotes
      PROVE  apply_entries(book, <<e>>) = apply_entry(book, e)
  <2>1. PICK last \in Book : last = apply_entry(book, e)
    BY <1>2, ApplyEntryType
  <2> DEFINE table == [i \in 0 .. 1 |-> IF i = 0 THEN book ELSE last]
  <2>2. Len(<<e>>) = 1 /\ <<e>>[1] = e
    OBVIOUS
  <2>3. table \in [0 .. 1 -> Book] /\ table[0] = book /\ table[1] = last
    OBVIOUS
  <2> HIDE DEF table
  <2>4. IsTable(table, book, <<e>>, 1)
    BY <2>1, <2>2, <2>3 DEF IsTable
  <2> QED BY <2>1, <2>2, <2>3, <2>4, TableDenotes
<1> QED BY <1>1, <1>2
-----------------------------------------------------------------------------
(***************************************************************************)
(* A snapshot that names the levels of a book, in whatever order, is       *)
(* loaded as that book (adopt_snapshot_locked empties every ladder first). *)
(***************************************************************************)
\* A set of naturals below a bound has a greatest element.
LEMMA GreatestExists ==
  ASSUME NEW n \in Nat, NEW W \in SUBSET (1 .. n), W # {}
  PROVE  \E i \in W : \A j \in W : j <= i
<1> DEFINE S == {k \in Nat : W \cap (1 .. k) # {} =>
                   \E i \in W \cap (1 .. k) : \A j \in W \cap (1 .. k) : j <= i}
<1>1. 0 \in S
  OBVIOUS
<1>2. ASSUME NEW k \in Nat, k \in S PROVE k + 1 \in S
  <2>1. CASE k + 1 \in W
    <3>1. \A j \in W \cap (1 .. k + 1) : j <= k + 1
      BY <1>2
    <3>2. k + 1 \in W \cap (1 .. k + 1)
      BY <1>2, <2>1
    <3> QED BY <1>2, <3>1, <3>2
  <2>2. CASE k + 1 \notin W
    <3>1. W \cap (1 .. k + 1) = W \cap (1 .. k)
      BY <1>2, <2>2
    <3> QED BY <1>2, <3>1
  <2> QED BY <2>1, <2>2
<1> HIDE DEF S
<1>3. n \in S
  BY <1>1, <1>2, NatSetInduction
<1>4. W \cap (1 .. n) = W
  OBVIOUS
<1> QED BY <1>3, <1>4 DEF S

\* A book has finitely many levels to announce.
LEMMA CellsFinite ==
  ASSUME NEW book \in Book
  PROVE  IsFiniteSet(Cells(book))
<1> DEFINE T == {d \in Sides \X Levels : book[d[1]][d[2]] # NoLevel}
           cell(c) == [entry_type |-> c[1], price_level |-> c[2], quote |-> book[c[1]][c[2]]]
           f == [c \in T |-> cell(c)]
<1>1. IsFiniteSet(Levels)
  BY DepthAssumption, FS_Interval DEF Levels
<1>2. IsFiniteSet(Sides \X Levels)
  BY <1>1, SidesAssumption, FS_Product
<1>3. IsFiniteSet(T)
  BY <1>2, FS_Subset
<1>4. f \in Surjection(T, Cells(book))
  BY DEF Cells, Surjection
<1> HIDE DEF T, f
<1> QED BY <1>3, <1>4, FS_Surjection

\* The entries of a book are its levels, each at least once.
LEMMA EntriesOfCells ==
  ASSUME NEW book \in Book
  PROVE  LET es == entries_of(book)
         IN  /\ es \in [1 .. Cardinality(Cells(book)) -> Cells(book)]
             /\ \A cell \in Cells(book) : \E i \in DOMAIN es : es[i] = cell
<1>1. ExistsBijection(1 .. Cardinality(Cells(book)), Cells(book))
  BY CellsFinite, FS_CardinalityType
<1>2. PICK f \in Bijection(1 .. Cardinality(Cells(book)), Cells(book)) : TRUE
  BY <1>1 DEF ExistsBijection
<1>3. f \in [1 .. Cardinality(Cells(book)) -> Cells(book)]
  BY <1>2 DEF Bijection, Injection
<1>4. \A cell \in Cells(book) : \E i \in 1 .. Cardinality(Cells(book)) : f[i] = cell
  BY <1>2 DEF Bijection, Surjection
<1> HIDE DEF Cells
<1> QED BY <1>3, <1>4 DEF entries_of

LEMMA EntriesOfType ==
  ASSUME NEW book \in Book
  PROVE  entries_of(book) \in Seq(SnapshotEntry)
<1> DEFINE n == Cardinality(Cells(book))
<1>1. n \in Nat
  BY CellsFinite, FS_CardinalityType
<1>2. Cells(book) \subseteq SnapshotEntry
  BY DEF Cells, Book, Ladder, SnapshotEntry
<1>3. entries_of(book) \in [1 .. n -> Cells(book)]
  BY EntriesOfCells
<1> HIDE DEF n
<1>4. entries_of(book) \in [1 .. n -> SnapshotEntry]
  BY <1>2, <1>3
<1> QED BY <1>1, <1>4

LEMMA SnapshotEntriesAreEntries ==
  ASSUME NEW entries \in Seq(SnapshotEntry)
  PROVE  IsEntries(entries)
<1>1. Len(entries) \in Nat /\ DOMAIN entries = 1 .. Len(entries)
  OBVIOUS
<1>2. \A i \in DOMAIN entries : entries[i] \in SnapshotEntry
  OBVIOUS
<1>3. \A e \in SnapshotEntry : e.quote \in Quotes
  BY DEF SnapshotEntry
<1> QED BY <1>1, <1>2, <1>3 DEF IsEntries

\* Loading entries that name the levels of a book, and only those, gives it.
LEMMA LoadCells ==
  ASSUME NEW book \in Book, NEW n \in Nat, NEW es \in [1 .. n -> Cells(book)],
         \A cell \in Cells(book) : \E i \in 1 .. n : es[i] = cell
  PROVE  load_entries(es) = book
<1>1. es \in [1 .. n -> Cells(book)]
  OBVIOUS
<1>2. \A cell \in Cells(book) : \E i \in 1 .. n : es[i] = cell
  OBVIOUS
<1>3. ASSUME NEW s \in Sides, NEW l \in Levels
      PROVE  load_entries(es)[s][l] = book[s][l]
  <2> DEFINE W == Writers(es, s, l)
             last == CHOOSE i \in W : \A j \in W : j <= i
  <2>1. W \subseteq 1 .. n
    BY <1>1 DEF Writers
  <2>2. \A i \in W : es[i].quote = book[s][l] /\ book[s][l] # NoLevel
    BY <1>1 DEF Writers, Cells
  <2>3. load_entries(es)[s][l] = IF W = {} THEN NoLevel ELSE es[last].quote
    BY <1>3 DEF load_entries
  <2>4. CASE W = {}
    <3>1. ASSUME book[s][l] # NoLevel PROVE FALSE
      <4>1. [entry_type |-> s, price_level |-> l, quote |-> book[s][l]] \in Cells(book)
        <5>1. <<s, l>> \in {d \in Sides \X Levels : book[d[1]][d[2]] # NoLevel}
          BY <3>1
        <5> QED BY <5>1 DEF Cells
      <4>2. PICK i \in 1 .. n :
              es[i] = [entry_type |-> s, price_level |-> l, quote |-> book[s][l]]
        BY <4>1, <1>2
      <4>3. i \in W
        BY <1>1, <4>2 DEF Writers
      <4> QED BY <2>4, <4>3
    <3> QED BY <2>3, <2>4, <3>1
  <2>5. CASE W # {}
    <3>1. last \in W
      BY <1>1, <2>1, <2>5, GreatestExists
    <3> QED BY <2>2, <2>3, <2>5, <3>1
  <2> QED BY <2>4, <2>5
<1>4. load_entries(es) = [s \in Sides |-> [l \in Levels |-> book[s][l]]]
  <2> DEFINE at(s, l) == load_entries(es)[s][l]
  <2>1. load_entries(es) = [s \in Sides |-> [l \in Levels |-> at(s, l)]]
    BY DEF load_entries
  <2> HIDE DEF at
  <2>2. \A s \in Sides, l \in Levels : at(s, l) = book[s][l]
    BY <1>3 DEF at
  <2> QED BY <2>1, <2>2
<1>5. book = [s \in Sides |-> [l \in Levels |-> book[s][l]]]
  BY DEF Book, Ladder
<1> QED BY <1>4, <1>5

\* Loading the entries of a book gives that book.
THEOREM SnapshotRoundTrip ==
  ASSUME NEW book \in Book
  PROVE  load_entries(entries_of(book)) = book
<1> DEFINE es == entries_of(book)
           n  == Cardinality(Cells(book))
<1>1. n \in Nat /\ es \in [1 .. n -> Cells(book)]
  BY CellsFinite, FS_CardinalityType, EntriesOfCells
<1>2. \A cell \in Cells(book) : \E i \in 1 .. n : es[i] = cell
  BY <1>1, EntriesOfCells
<1> HIDE DEF es, n
<1>3. load_entries(es) = book
  BY <1>1, <1>2, LoadCells
<1> QED BY <1>3 DEF es
=============================================================================
