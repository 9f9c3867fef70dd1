---------------------------- MODULE TopOfBookProofs ----------------------------
(***************************************************************************)
(* The I081 entries as the code applies them follow the published part of  *)
(* a ladder of any length, for every depth, any number of changes in one   *)
(* message, and any quotes.                                                *)
(***************************************************************************)
EXTENDS TopOfBook, OrderBookProofs

Deep == {d \in Seq(Live) : Len(d) <= MaxDeep}

Actions == {"New", "Change", "Delete", "Overlay"}
Entry == [update_action : Actions, entry_type : Sides, price_level : Nat, quote : Quotes]

\* The best levels of the exchange's ladder, and the ladder of one quote.
Best(d) == [n \in Levels |-> IF n <= Len(d) THEN d[n] ELSE NoLevel]
Single(q) == [n \in Levels |-> IF n = 1 THEN q ELSE NoLevel]
Bare == [n \in Levels |-> NoLevel]

\* The book the exchange publishes when its ladder is d and its quote x.
Shown(d, x) ==
  [s \in Sides |-> IF s = Regular THEN Best(d) ELSE IF s = Derived THEN Single(x) ELSE Bare]

LEMMA PublishedIs == Published = Shown(deep, quoted)
<1>1. ASSUME NEW s \in Sides
      PROVE  [n \in Levels |->
                IF s = Regular /\ n <= Len(deep) THEN deep[n]
                ELSE IF s = Derived /\ n = 1 THEN quoted
                ELSE NoLevel]
             = IF s = Regular THEN Best(deep) ELSE IF s = Derived THEN Single(quoted) ELSE Bare
  BY SideNames DEF Best, Single, Bare
<1> QED BY <1>1 DEF Published, Shown

LEMMA BoundedSeqIs == BoundedSeq(Live, MaxDeep) = Deep
<1>1. ASSUME NEW d \in BoundedSeq(Live, MaxDeep) PROVE d \in Deep
  <2>1. PICK m \in 0 .. MaxDeep : d \in [1 .. m -> Live]
    BY DEF BoundedSeq, SeqOf
  <2>2. m \in Nat
    BY LadderBounds
  <2>3. d \in Seq(Live) /\ Len(d) = m
    BY <2>1, <2>2
  <2> QED BY <2>2, <2>3 DEF Deep
<1>2. ASSUME NEW d \in Deep PROVE d \in BoundedSeq(Live, MaxDeep)
  <2>1. d \in [1 .. Len(d) -> Live] /\ Len(d) \in 0 .. MaxDeep
    BY LadderBounds, LenProperties DEF Deep
  <2> QED BY <2>1 DEF BoundedSeq, SeqOf
<1> QED BY <1>1, <1>2

LEMMA BestType ==
  ASSUME NEW d \in Seq(Live)
  PROVE  Best(d) \in Ladder /\ Len(d) \in Nat /\ \A n \in 1 .. Len(d) : d[n] \in Live
<1>1. Len(d) \in Nat /\ \A n \in 1 .. Len(d) : d[n] \in Live
  BY LenProperties, ElementOfSeq
<1>2. \A n \in Levels : n <= Len(d) => n \in 1 .. Len(d)
  BY <1>1, DepthAssumption DEF Levels
<1> QED BY <1>1, <1>2 DEF Best, Ladder, Live

LEMMA ShownType ==
  ASSUME NEW d \in Seq(Live), NEW x \in Live \cup {NoLevel}
  PROVE  Shown(d, x) \in Book
<1>1. Best(d) \in Ladder
  BY BestType
<1>2. Single(x) \in Ladder /\ Bare \in Ladder
  BY DEF Single, Bare, Ladder, Live
<1> QED BY <1>1, <1>2 DEF Shown, Book
-----------------------------------------------------------------------------
(***************************************************************************)
(* The exchange's ladder                                                   *)
(***************************************************************************)
LEMMA InsertAtIs ==
  ASSUME NEW d \in Seq(Live), NEW n \in 1 .. Len(d) + 1, NEW q \in Live
  PROVE  /\ InsertAt(d, n, q) \in Seq(Live)
         /\ Len(InsertAt(d, n, q)) = Len(d) + 1
         /\ \A i \in 1 .. Len(d) + 1 :
              InsertAt(d, n, q)[i] = IF i < n THEN d[i] ELSE IF i = n THEN q ELSE d[i - 1]
<1>1. PICK l \in Nat : l = Len(d) /\ \A i \in 1 .. l : d[i] \in Live
  BY BestType
<1>2. n \in 1 .. l + 1
  BY <1>1
<1>3. PICK a \in Seq(Live) : /\ a = SubSeq(d, 1, n - 1) /\ Len(a) = n - 1
                             /\ \A i \in 1 .. n - 1 : a[i] = d[i]
  <2>1. \A i \in 1 .. n - 1 : d[i] \in Live
    BY <1>1, <1>2
  <2>2. /\ SubSeq(d, 1, n - 1) \in Seq(Live)
        /\ Len(SubSeq(d, 1, n - 1)) = IF 1 <= n - 1 THEN (n - 1) - 1 + 1 ELSE 0
        /\ \A i \in 1 .. (n - 1) - 1 + 1 : SubSeq(d, 1, n - 1)[i] = d[1 + i - 1]
    BY <1>2, <2>1, SubSeqProperties
  <2>3. Len(SubSeq(d, 1, n - 1)) = n - 1 /\ (n - 1) - 1 + 1 = n - 1
        /\ \A i \in 1 .. n - 1 : 1 + i - 1 = i
    BY <1>2, <2>2
  <2> QED BY <2>2, <2>3
<1>4. PICK b \in Seq(Live) : /\ b = SubSeq(d, n, l) /\ Len(b) = l - n + 1
                             /\ \A i \in 1 .. l - n + 1 : b[i] = d[n + i - 1]
  <2>1. \A i \in n .. l : d[i] \in Live
    BY <1>1, <1>2
  <2>2. /\ SubSeq(d, n, l) \in Seq(Live)
        /\ Len(SubSeq(d, n, l)) = IF n <= l THEN l - n + 1 ELSE 0
        /\ \A i \in 1 .. l - n + 1 : SubSeq(d, n, l)[i] = d[n + i - 1]
    BY <1>2, <2>1, SubSeqProperties
  <2>3. Len(SubSeq(d, n, l)) = l - n + 1
    BY <1>2, <2>2
  <2> QED BY <2>2, <2>3
<1>5. PICK ones \in Seq(Live) : ones = <<q>> /\ Len(ones) = 1 /\ ones[1] = q
  <2>1. <<q>> \in Seq(Live) /\ Len(<<q>>) = 1 /\ <<q>>[1] = q
    OBVIOUS
  <2> QED BY <2>1
<1>6. PICK c \in Seq(Live) :
        /\ c = a \o ones /\ Len(c) = n
        /\ \A i \in 1 .. n : c[i] = IF i <= n - 1 THEN a[i] ELSE ones[i - (n - 1)]
  <2>1. /\ a \o ones \in Seq(Live) /\ Len(a \o ones) = Len(a) + Len(ones)
        /\ \A i \in 1 .. Len(a) + Len(ones) :
             (a \o ones)[i] = IF i <= Len(a) THEN a[i] ELSE ones[i - Len(a)]
    BY ConcatProperties
  <2>2. Len(a) + Len(ones) = n /\ Len(a) = n - 1
    BY <1>2, <1>3, <1>5
  <2>3. \A i \in 1 .. n : (a \o ones)[i] = IF i <= n - 1 THEN a[i] ELSE ones[i - (n - 1)]
    BY <2>1, <2>2
  <2> QED BY <2>1, <2>2, <2>3
<1>7. \A i \in 1 .. n : c[i] = IF i < n THEN d[i] ELSE q
  <2> SUFFICES ASSUME NEW i \in 1 .. n
               PROVE  c[i] = IF i < n THEN d[i] ELSE q
    OBVIOUS
  <2>1. CASE i < n
    <3>1. i \in 1 .. n - 1 /\ i <= n - 1
      BY <1>2, <2>1
    <3> QED BY <1>3, <1>6, <2>1, <3>1
  <2>2. CASE ~(i < n)
    <3>1. i = n /\ ~(i <= n - 1) /\ i - (n - 1) = 1
      BY <1>2, <2>2
    <3> QED BY <1>5, <1>6, <2>2, <3>1
  <2> QED BY <2>1, <2>2
<1>8. PICK r \in Seq(Live) :
        /\ r = InsertAt(d, n, q) /\ Len(r) = l + 1
        /\ \A i \in 1 .. l + 1 : r[i] = IF i <= n THEN c[i] ELSE b[i - n]
  <2>1. /\ c \o b \in Seq(Live) /\ Len(c \o b) = Len(c) + Len(b)
        /\ \A i \in 1 .. Len(c) + Len(b) :
             (c \o b)[i] = IF i <= Len(c) THEN c[i] ELSE b[i - Len(c)]
    BY ConcatProperties
  <2>2. Len(c) + Len(b) = l + 1 /\ Len(c) = n
    BY <1>2, <1>4, <1>6
  <2>3. c \o b = InsertAt(d, n, q)
    BY <1>1, <1>3, <1>4, <1>5, <1>6 DEF InsertAt
  <2>4. \A i \in 1 .. l + 1 : (c \o b)[i] = IF i <= n THEN c[i] ELSE b[i - n]
    BY <2>1, <2>2
  <2> QED BY <2>1, <2>2, <2>3, <2>4
<1>9. ASSUME NEW i \in 1 .. l + 1
      PROVE  r[i] = IF i < n THEN d[i] ELSE IF i = n THEN q ELSE d[i - 1]
  <2>1. CASE i <= n
    <3>1. i \in 1 .. n /\ (i < n \/ i = n)
      BY <1>2, <2>1
    <3>2. r[i] = c[i]
      BY <1>8, <2>1
    <3>3. c[i] = IF i < n THEN d[i] ELSE q
      BY <1>7, <3>1
    <3> QED BY <3>1, <3>2, <3>3
  <2>2. CASE ~(i <= n)
    <3>1. PICK k \in 1 .. l - n + 1 : k = i - n /\ n + k - 1 = i - 1
      BY <1>2, <2>2
    <3>2. r[i] = b[k] /\ b[k] = d[n + k - 1]
      BY <1>4, <1>8, <2>2, <3>1
    <3>3. ~(i < n) /\ i # n
      BY <1>2, <2>2
    <3> QED BY <3>1, <3>2, <3>3
  <2> QED BY <2>1, <2>2
<1> QED BY <1>1, <1>8, <1>9

LEMMA RemoveAtIs ==
  ASSUME NEW d \in Seq(Live), NEW n \in 1 .. Len(d)
  PROVE  /\ RemoveAt(d, n) \in Seq(Live)
         /\ Len(RemoveAt(d, n)) = Len(d) - 1
         /\ \A i \in 1 .. Len(d) - 1 : RemoveAt(d, n)[i] = IF i < n THEN d[i] ELSE d[i + 1]
<1>1. PICK l \in Nat : l = Len(d) /\ \A i \in 1 .. l : d[i] \in Live
  BY BestType
<1>2. n \in 1 .. l
  BY <1>1
<1>3. PICK a \in Seq(Live) : /\ a = SubSeq(d, 1, n - 1) /\ Len(a) = n - 1
                             /\ \A i \in 1 .. n - 1 : a[i] = d[i]
  <2>1. \A i \in 1 .. n - 1 : d[i] \in Live
    BY <1>1, <1>2
  <2>2. /\ SubSeq(d, 1, n - 1) \in Seq(Live)
        /\ Len(SubSeq(d, 1, n - 1)) = IF 1 <= n - 1 THEN (n - 1) - 1 + 1 ELSE 0
        /\ \A i \in 1 .. (n - 1) - 1 + 1 : SubSeq(d, 1, n - 1)[i] = d[1 + i - 1]
    BY <1>2, <2>1, SubSeqProperties
  <2>3. Len(SubSeq(d, 1, n - 1)) = n - 1 /\ (n - 1) - 1 + 1 = n - 1
        /\ \A i \in 1 .. n - 1 : 1 + i - 1 = i
    BY <1>2, <2>2
  <2> QED BY <2>2, <2>3
<1>4. PICK b \in Seq(Live) : /\ b = SubSeq(d, n + 1, l) /\ Len(b) = l - n
                             /\ \A i \in 1 .. l - n : b[i] = d[n + i]
  <2>1. \A i \in n + 1 .. l : d[i] \in Live
    BY <1>1, <1>2
  <2>2. /\ SubSeq(d, n + 1, l) \in Seq(Live)
        /\ Len(SubSeq(d, n + 1, l)) = IF n + 1 <= l THEN l - (n + 1) + 1 ELSE 0
        /\ \A i \in 1 .. l - (n + 1) + 1 : SubSeq(d, n + 1, l)[i] = d[(n + 1) + i - 1]
    BY <1>2, <2>1, SubSeqProperties
  <2>3. Len(SubSeq(d, n + 1, l)) = l - n /\ l - (n + 1) + 1 = l - n
        /\ \A i \in 1 .. l - n : (n + 1) + i - 1 = n + i
    BY <1>2, <2>2
  <2> QED BY <2>2, <2>3
<1>5. PICK r \in Seq(Live) :
        /\ r = RemoveAt(d, n) /\ Len(r) = l - 1
        /\ \A i \in 1 .. l - 1 : r[i] = IF i <= n - 1 THEN a[i] ELSE b[i - (n - 1)]
  <2>1. /\ a \o b \in Seq(Live) /\ Len(a \o b) = Len(a) + Len(b)
        /\ \A i \in 1 .. Len(a) + Len(b) :
             (a \o b)[i] = IF i <= Len(a) THEN a[i] ELSE b[i - Len(a)]
    BY ConcatProperties
  <2>2. Len(a) + Len(b) = l - 1 /\ Len(a) = n - 1
    BY <1>2, <1>3, <1>4
  <2>3. a \o b = RemoveAt(d, n)
    BY <1>1, <1>3, <1>4 DEF RemoveAt
  <2>4. \A i \in 1 .. l - 1 : (a \o b)[i] = IF i <= n - 1 THEN a[i] ELSE b[i - (n - 1)]
    BY <2>1, <2>2
  <2> QED BY <2>1, <2>2, <2>3, <2>4
<1>6. ASSUME NEW i \in 1 .. l - 1
      PROVE  r[i] = IF i < n THEN d[i] ELSE d[i + 1]
  <2>1. CASE i < n
    <3>1. i \in 1 .. n - 1 /\ i <= n - 1
      BY <1>2, <2>1
    <3> QED BY <1>3, <1>5, <2>1, <3>1
  <2>2. CASE ~(i < n)
    <3>1. PICK k \in 1 .. l - n : k = i - (n - 1) /\ n + k = i + 1
      BY <1>2, <2>2
    <3>2. ~(i <= n - 1)
      BY <1>2, <2>2
    <3>3. r[i] = b[k] /\ b[k] = d[n + k]
      BY <1>4, <1>5, <3>1, <3>2
    <3> QED BY <2>2, <3>1, <3>3
  <2> QED BY <2>1, <2>2
<1> QED BY <1>1, <1>5, <1>6

LEMMA ReplaceAtIs ==
  ASSUME NEW d \in Seq(Live), NEW n \in 1 .. Len(d), NEW q \in Live
  PROVE  /\ ReplaceAt(d, n, q) \in Seq(Live)
         /\ Len(ReplaceAt(d, n, q)) = Len(d)
         /\ \A i \in 1 .. Len(d) : ReplaceAt(d, n, q)[i] = IF i = n THEN q ELSE d[i]
BY ExceptSeq DEF ReplaceAt
-----------------------------------------------------------------------------
(***************************************************************************)
(* Its published part                                                      *)
(***************************************************************************)
\* An insertion moves the published levels below it, or leaves them.
LEMMA BestInsert ==
  ASSUME NEW d \in Seq(Live), NEW n \in 1 .. Len(d) + 1, NEW q \in Live
  PROVE  Best(InsertAt(d, n, q)) = IF n <= Depth THEN insert_level(Best(d), n, q) ELSE Best(d)
<1>1. PICK l \in Nat : l = Len(d)
  BY BestType
<1>2. PICK r : /\ r = InsertAt(d, n, q) /\ Len(r) = l + 1
               /\ \A i \in 1 .. l + 1 : r[i] = IF i < n THEN d[i] ELSE IF i = n THEN q ELSE d[i - 1]
  <2>1. PICK r : r = InsertAt(d, n, q)
    OBVIOUS
  <2>2. /\ Len(r) = Len(d) + 1
        /\ \A i \in 1 .. Len(d) + 1 :
             r[i] = IF i < n THEN d[i] ELSE IF i = n THEN q ELSE d[i - 1]
    BY <2>1, InsertAtIs
  <2> QED BY <1>1, <2>1, <2>2
<1>3. n \in 1 .. l + 1 /\ Depth \in Nat /\ Depth > 0
  BY <1>1, DepthAssumption
<1>4. ASSUME NEW i \in Levels
      PROVE  /\ i < n => Best(r)[i] = Best(d)[i]
             /\ i = n => Best(r)[i] = q
             /\ i > n => i - 1 \in Levels /\ Best(r)[i] = Best(d)[i - 1]
  <2>1. i \in Nat /\ i >= 1 /\ i <= Depth
    BY <1>3 DEF Levels
  <2>2. Best(r)[i] = IF i <= l + 1 THEN r[i] ELSE NoLevel
    BY <1>2 DEF Best
  <2>3. Best(d)[i] = IF i <= l THEN d[i] ELSE NoLevel
    BY <1>1 DEF Best
  <2>4. i <= l + 1 => r[i] = IF i < n THEN d[i] ELSE IF i = n THEN q ELSE d[i - 1]
    BY <1>2, <2>1
  <2>5. ASSUME i > n
        PROVE  i - 1 \in Levels /\ Best(d)[i - 1] = IF i - 1 <= l THEN d[i - 1] ELSE NoLevel
    <3>1. i - 1 \in Levels
      BY <1>3, <2>1, <2>5 DEF Levels
    <3> QED BY <1>1, <3>1 DEF Best
  <2>6. i < n => i <= l /\ i <= l + 1
    BY <1>3, <2>1
  <2>7. i = n => i <= l + 1 /\ ~(i < n)
    BY <1>3
  <2>8. i > n => ~(i < n) /\ i # n /\ (i <= l + 1 <=> i - 1 <= l)
    BY <1>3, <2>1
  <2> QED BY <2>2, <2>3, <2>4, <2>5, <2>6, <2>7, <2>8
<1>5. CASE n <= Depth
  <2>1. \A i \in Levels : Best(r)[i] = insert_level(Best(d), n, q)[i]
    <3> SUFFICES ASSUME NEW i \in Levels
                 PROVE  Best(r)[i] = IF i < n THEN Best(d)[i] ELSE IF i = n THEN q ELSE Best(d)[i - 1]
      BY DEF insert_level
    <3>1. i < n \/ i = n \/ i > n
      BY <1>3 DEF Levels
    <3>2. (i > n => ~(i < n) /\ i # n) /\ (i = n => ~(i < n))
      BY <1>3 DEF Levels
    <3> QED BY <1>4, <3>1, <3>2
  <2>2. Best(r) = [i \in Levels |-> Best(r)[i]]
    BY DEF Best
  <2>3. insert_level(Best(d), n, q) = [i \in Levels |-> insert_level(Best(d), n, q)[i]]
    BY DEF insert_level
  <2> QED BY <1>2, <1>5, <2>1, <2>2, <2>3
<1>6. CASE ~(n <= Depth)
  <2>1. \A i \in Levels : i < n
    BY <1>3, <1>6 DEF Levels
  <2>2. \A i \in Levels : Best(r)[i] = Best(d)[i]
    BY <1>4, <2>1
  <2>3. Best(r) = [i \in Levels |-> Best(r)[i]] /\ Best(d) = [i \in Levels |-> Best(d)[i]]
    BY DEF Best
  <2>4. Best(r) = Best(d)
    BY <2>2, <2>3
  <2> QED BY <1>2, <1>6, <2>4
<1> QED BY <1>5, <1>6

\* A change of a level shows when it is published.
LEMMA BestReplace ==
  ASSUME NEW d \in Seq(Live), NEW n \in 1 .. Len(d), NEW q \in Live
  PROVE  Best(ReplaceAt(d, n, q)) = IF n <= Depth THEN [Best(d) EXCEPT ![n] = q] ELSE Best(d)
<1>1. PICK r : /\ r = ReplaceAt(d, n, q) /\ Len(r) = Len(d)
               /\ \A i \in 1 .. Len(d) : r[i] = IF i = n THEN q ELSE d[i]
  <2>1. PICK r : r = ReplaceAt(d, n, q)
    OBVIOUS
  <2>2. /\ Len(ReplaceAt(d, n, q)) = Len(d)
        /\ \A i \in 1 .. Len(d) : ReplaceAt(d, n, q)[i] = IF i = n THEN q ELSE d[i]
    BY ReplaceAtIs, Zenon
  <2> QED BY <2>1, <2>2
<1>2. Len(d) \in Nat /\ n \in Nat /\ n >= 1 /\ n <= Len(d) /\ Depth \in Nat
  BY BestType, DepthAssumption
<1>3. ASSUME NEW i \in Levels
      PROVE  Best(r)[i] = IF i = n THEN q ELSE Best(d)[i]
  <2>1. i \in Nat /\ i >= 1
    BY <1>2 DEF Levels
  <2>2. Best(r)[i] = IF i <= Len(d) THEN r[i] ELSE NoLevel
    BY <1>1 DEF Best
  <2>3. Best(d)[i] = IF i <= Len(d) THEN d[i] ELSE NoLevel
    BY DEF Best
  <2>4. i <= Len(d) => r[i] = IF i = n THEN q ELSE d[i]
    BY <1>1, <1>2, <2>1
  <2> QED BY <1>2, <2>2, <2>3, <2>4
<1>4. n <= Depth <=> n \in Levels
  BY <1>2 DEF Levels
<1>5. Best(r) = [i \in Levels |-> Best(r)[i]] /\ Best(d) = [i \in Levels |-> Best(d)[i]]
  BY DEF Best
<1>6. n \in Levels => [Best(d) EXCEPT ![n] = q] = [i \in Levels |-> IF i = n THEN q ELSE Best(d)[i]]
  BY <1>5
<1>7. n \in Levels => Best(r) = [Best(d) EXCEPT ![n] = q]
  BY <1>3, <1>5, <1>6
<1>8. n \notin Levels => Best(r) = Best(d)
  BY <1>3, <1>5
<1> QED BY <1>1, <1>4, <1>7, <1>8

\* A removal moves the published levels below it up; when more levels exist than
\* are published, the first of the others becomes the last one published.
LEMMA BestRemove ==
  ASSUME NEW d \in Seq(Live), NEW n \in 1 .. Len(d)
  PROVE  Best(RemoveAt(d, n)) =
           IF n > Depth THEN Best(d)
           ELSE IF Len(d) <= Depth THEN delete_level(Best(d), n)
           ELSE insert_level(delete_level(Best(d), n), Depth, d[Depth + 1])
<1>1. PICK l \in Nat : l = Len(d)
  BY BestType
<1>2. PICK r : /\ r = RemoveAt(d, n) /\ Len(r) = l - 1
               /\ \A i \in 1 .. l - 1 : r[i] = IF i < n THEN d[i] ELSE d[i + 1]
  BY <1>1, RemoveAtIs
<1>3. n \in 1 .. l /\ Depth \in Nat /\ Depth > 0
  BY <1>1, DepthAssumption
<1>4. ASSUME NEW i \in Levels
      PROVE  /\ i < n => Best(r)[i] = Best(d)[i]
             /\ ~(i < n) => Best(r)[i] = IF i + 1 <= l THEN d[i + 1] ELSE NoLevel
  <2>1. i \in Nat /\ i >= 1 /\ i <= Depth
    BY <1>3 DEF Levels
  <2>2. Best(r)[i] = IF i <= l - 1 THEN r[i] ELSE NoLevel
    BY <1>2 DEF Best
  <2>3. Best(d)[i] = IF i <= l THEN d[i] ELSE NoLevel
    BY <1>1 DEF Best
  <2>4. i <= l - 1 => r[i] = IF i < n THEN d[i] ELSE d[i + 1]
    BY <1>2, <2>1
  <2>5. i < n => i <= l /\ i <= l - 1
    BY <1>3, <2>1
  <2>6. i <= l - 1 <=> i + 1 <= l
    BY <2>1
  <2> QED BY <2>2, <2>3, <2>4, <2>5, <2>6
<1>5. \A i \in Levels : i \in Nat /\ i >= 1 /\ i <= Depth /\ (i < Depth => i + 1 \in Levels)
  BY <1>3 DEF Levels
<1>6. Best(r) = [i \in Levels |-> Best(r)[i]] /\ Best(d) = [i \in Levels |-> Best(d)[i]]
  BY DEF Best
<1>7. CASE n > Depth
  <2>1. ASSUME NEW i \in Levels PROVE i < n
    BY <1>3, <1>7 DEF Levels
  <2>2. Best(r) = Best(d)
    BY <1>4, <1>6, <2>1
  <2> QED BY <1>2, <1>7, <2>2
<1> DEFINE short == delete_level(Best(d), n)
<1>8. ASSUME NEW i \in Levels
      PROVE  /\ i < n => short[i] = Best(d)[i]
             /\ ~(i < n) /\ i < Depth => short[i] = IF i + 1 <= l THEN d[i + 1] ELSE NoLevel
             /\ ~(i < n) /\ ~(i < Depth) => short[i] = NoLevel
  <2>1. short[i] = IF i < n THEN Best(d)[i] ELSE IF i < Depth THEN Best(d)[i + 1] ELSE NoLevel
    BY DEF delete_level
  <2>2. i < Depth => Best(d)[i + 1] = IF i + 1 <= l THEN d[i + 1] ELSE NoLevel
    BY <1>1, <1>5 DEF Best
  <2> QED BY <2>1, <2>2
<1>9. short = [i \in Levels |-> short[i]]
  BY DEF delete_level
<1> HIDE DEF short
<1>10. CASE n <= Depth /\ l <= Depth
  <2>1. ASSUME NEW i \in Levels PROVE Best(r)[i] = short[i]
    <3>1. ~(i < n) /\ ~(i < Depth) => ~(i + 1 <= l)
      BY <1>3, <1>5, <1>10
    <3> QED BY <1>4, <1>8, <3>1
  <2>2. Best(r) = short
    BY <1>6, <1>9, <2>1
  <2>3. ~(n > Depth) /\ Len(d) <= Depth
    BY <1>1, <1>3, <1>10
  <2> QED BY <1>2, <2>2, <2>3 DEF short
<1>11. CASE n <= Depth /\ l > Depth
  <2> DEFINE long == insert_level(short, Depth, d[Depth + 1])
  <2>1. ASSUME NEW i \in Levels PROVE Best(r)[i] = long[i]
    <3>1. long[i] = IF i < Depth THEN short[i] ELSE IF i = Depth THEN d[Depth + 1] ELSE short[i - 1]
      BY DEF insert_level
    <3>2. CASE i < Depth
      BY <1>4, <1>8, <3>1, <3>2
    <3>3. CASE ~(i < Depth)
      <4>1. i = Depth /\ ~(i < n) /\ i + 1 <= l
        BY <1>3, <1>5, <1>11, <3>3
      <4> QED BY <1>4, <3>1, <3>3, <4>1
    <3> QED BY <3>2, <3>3
  <2>2. long = [i \in Levels |-> long[i]]
    BY DEF insert_level
  <2> HIDE DEF long
  <2>3. Best(r) = long
    BY <1>6, <2>1, <2>2
  <2>4. ~(n > Depth) /\ ~(Len(d) <= Depth)
    BY <1>1, <1>3, <1>11
  <2> QED BY <1>2, <2>3, <2>4 DEF long, short
<1> QED BY <1>3, <1>7, <1>10, <1>11
-----------------------------------------------------------------------------
(***************************************************************************)
(* The entries of one change                                               *)
(***************************************************************************)
\* The book whose regular ladder is l and whose derived quote is x.
With(l, x) ==
  [s \in Sides |-> IF s = Regular THEN l ELSE IF s = Derived THEN Single(x) ELSE Bare]

LEMMA EntryQuotes == \A e \in Entry : e.quote \in Quotes
BY DEF Entry

LEMMA EntryIs ==
  ASSUME NEW action \in Actions, NEW s \in Sides, NEW n \in Nat, NEW q \in Quotes
  PROVE  MDEntry(action, s, n, q) \in Entry
BY DEF MDEntry, Entry

\* An entry of the regular side rewrites its ladder.
LEMMA ApplyRegular ==
  ASSUME NEW l, NEW x, NEW action, NEW n \in Levels, NEW q
  PROVE  LET e == MDEntry(action, Regular, n, q)
         IN  apply_entry(With(l, x), e) = With(rewrite_ladder(l, e), x)
<1> DEFINE e == MDEntry(action, Regular, n, q)
<1>1. e.entry_type = Regular /\ e.price_level = n /\ Regular \in Sides /\ HasLevel(e)
  BY SideNames DEF MDEntry, HasLevel
<1> HIDE DEF e
<1>2. apply_entry(With(l, x), e) = [With(l, x) EXCEPT ![Regular] = rewrite_ladder(With(l, x)[Regular], e)]
  BY <1>1 DEF apply_entry
<1>3. With(l, x)[Regular] = l
  BY <1>1 DEF With
<1>4. apply_entry(With(l, x), e) = [With(l, x) EXCEPT ![Regular] = rewrite_ladder(l, e)]
  BY <1>2, <1>3
<1> QED BY <1>1, <1>4 DEF With, e

\* What one change of the exchange announces brings the book that was published
\* to the one that is published after it.
LEMMA EventFollows ==
  ASSUME NEW d \in Deep, NEW x \in Live \cup {NoLevel}, NEW e \in Event(d)
  PROVE  /\ e.deep \in Deep /\ e.entries \in Seq(Entry)
         /\ apply_entries(Shown(d, x), e.entries) = Shown(e.deep, x)
<1>1. d \in Seq(Live) /\ Len(d) \in Nat /\ Len(d) <= MaxDeep /\ MaxDeep \in Nat
  BY BestType, LadderBounds DEF Deep
<1>2. Shown(d, x) \in Book /\ Shown(d, x) = With(Best(d), x)
  BY <1>1, ShownType DEF Shown, With
<1>3. /\ <<>> \in Seq(Entry)
      /\ apply_entries(Shown(d, x), <<>>) = Shown(d, x)
  BY <1>2, ApplyFew
<1>4. Regular \in Sides /\ Depth \in Nat /\ Depth > 0 /\ \A n \in Levels : n \in Nat
  BY SideNames, DepthAssumption DEF Levels
<1>5. Live \subseteq Quotes /\ ZeroQuote \in Quotes
  BY QuotesAssumption DEF Live
<1>6. ASSUME NEW f, f \in Entry
      PROVE  /\ <<f>> \in Seq(Entry)
             /\ apply_entries(Shown(d, x), <<f>>) = apply_entry(Shown(d, x), f)
  BY <1>2, <1>6, ApplyFew, EntryQuotes
<1>7. CASE e \in Insertions(d)
  <2>1. Len(d) # MaxDeep
    BY <1>7 DEF Insertions
  <2>2. PICK n \in 1 .. Len(d) + 1, q \in Live :
          /\ e.deep = InsertAt(d, n, q)
          /\ e.entries = IF n <= Depth THEN <<MDEntry("New", Regular, n, q)>> ELSE <<>>
    BY <1>7, <2>1 DEF Insertions
  <2>3. e.deep \in Deep
    <3>1. InsertAt(d, n, q) \in Seq(Live) /\ Len(InsertAt(d, n, q)) = Len(d) + 1
      BY <1>1, InsertAtIs
    <3> QED BY <1>1, <2>1, <2>2, <3>1 DEF Deep
  <2>4. CASE n <= Depth
    <3>1. PICK f : f = MDEntry("New", Regular, n, q)
      OBVIOUS
    <3>2. n \in Levels /\ n \in Nat /\ e.entries = <<f>>
      BY <1>1, <1>4, <2>2, <2>4, <3>1 DEF Levels
    <3>3. f \in Entry
      <4>1. "New" \in Actions /\ "Change" \in Actions /\ "Delete" \in Actions
        BY DEF Actions
      <4> QED BY <1>4, <1>5, <3>1, <3>2, <4>1, EntryIs
    <3>4. rewrite_ladder(Best(d), f) = insert_level(Best(d), n, q)
      BY <3>1 DEF rewrite_ladder, MDEntry
    <3>5. Best(e.deep) = insert_level(Best(d), n, q)
      BY <1>1, <2>2, <2>4, BestInsert
    <3>6. apply_entry(With(Best(d), x), f) = With(rewrite_ladder(Best(d), f), x)
      BY <3>1, <3>2, ApplyRegular
    <3>7. Shown(e.deep, x) = With(Best(e.deep), x)
      BY DEF Shown, With
    <3> QED BY <1>2, <1>6, <2>3, <3>2, <3>3, <3>4, <3>5, <3>6, <3>7
  <2>5. CASE ~(n <= Depth)
    <3>1. Best(e.deep) = Best(d) /\ e.entries = <<>>
      BY <1>1, <2>2, <2>5, BestInsert
    <3> QED BY <1>3, <2>3, <3>1 DEF Shown
  <2> QED BY <2>4, <2>5
<1>8. CASE e \in Changes(d)
  <2>1. PICK n \in 1 .. Len(d), q \in Live :
          /\ e.deep = ReplaceAt(d, n, q)
          /\ e.entries = IF n <= Depth THEN <<MDEntry("Change", Regular, n, q)>> ELSE <<>>
    BY <1>8 DEF Changes
  <2>2. e.deep \in Deep
    <3>1. ReplaceAt(d, n, q) \in Seq(Live) /\ Len(ReplaceAt(d, n, q)) = Len(d)
      BY <1>1, ReplaceAtIs
    <3> QED BY <1>1, <2>1, <3>1 DEF Deep
  <2>3. CASE n <= Depth
    <3>1. PICK f : f = MDEntry("Change", Regular, n, q)
      OBVIOUS
    <3>2. n \in Levels /\ n \in Nat /\ e.entries = <<f>>
      BY <1>1, <1>4, <2>1, <2>3, <3>1 DEF Levels
    <3>3. f \in Entry
      <4>1. "New" \in Actions /\ "Change" \in Actions /\ "Delete" \in Actions
        BY DEF Actions
      <4> QED BY <1>4, <1>5, <3>1, <3>2, <4>1, EntryIs
    <3>4. rewrite_ladder(Best(d), f) = [Best(d) EXCEPT ![n] = q]
      BY <3>1 DEF rewrite_ladder, MDEntry
    <3>5. Best(e.deep) = [Best(d) EXCEPT ![n] = q]
      BY <1>1, <2>1, <2>3, BestReplace
    <3>6. apply_entry(With(Best(d), x), f) = With(rewrite_ladder(Best(d), f), x)
      BY <3>1, <3>2, ApplyRegular
    <3>7. Shown(e.deep, x) = With(Best(e.deep), x)
      BY DEF Shown, With
    <3> QED BY <1>2, <1>6, <2>2, <3>2, <3>3, <3>4, <3>5, <3>6, <3>7
  <2>4. CASE ~(n <= Depth)
    <3>1. Best(e.deep) = Best(d) /\ e.entries = <<>>
      BY <1>1, <2>1, <2>4, BestReplace
    <3> QED BY <1>3, <2>2, <3>1 DEF Shown
  <2> QED BY <2>3, <2>4
<1>9. CASE e \in Removals(d)
  <2>1. PICK n \in 1 .. Len(d) :
          /\ e.deep = RemoveAt(d, n)
          /\ e.entries = IF n > Depth THEN <<>>
                         ELSE IF Len(d) <= Depth
                         THEN <<MDEntry("Delete", Regular, n, ZeroQuote)>>
                         ELSE <<MDEntry("Delete", Regular, n, ZeroQuote),
                                MDEntry("New", Regular, Depth, d[Depth + 1])>>
    BY <1>9 DEF Removals
  <2>2. e.deep \in Deep
    <3>1. RemoveAt(d, n) \in Seq(Live) /\ Len(RemoveAt(d, n)) = Len(d) - 1
      BY <1>1, RemoveAtIs
    <3>2. Len(d) - 1 <= MaxDeep
      BY <1>1
    <3> QED BY <2>1, <3>1, <3>2 DEF Deep
  <2>3. CASE n > Depth
    <3>1. Best(e.deep) = Best(d) /\ e.entries = <<>>
      BY <1>1, <2>1, <2>3, BestRemove
    <3> QED BY <1>3, <2>2, <3>1 DEF Shown
  <2>4. ASSUME ~(n > Depth)
        PROVE  \E f \in Entry :
                 /\ f = MDEntry("Delete", Regular, n, ZeroQuote)
                 /\ apply_entry(Shown(d, x), f) = With(delete_level(Best(d), n), x)
    <3>1. PICK f : f = MDEntry("Delete", Regular, n, ZeroQuote)
      OBVIOUS
    <3>2. n \in Levels /\ n \in Nat
      BY <1>1, <1>4, <2>4 DEF Levels
    <3>3. f \in Entry
      <4>1. "New" \in Actions /\ "Change" \in Actions /\ "Delete" \in Actions
        BY DEF Actions
      <4> QED BY <1>4, <1>5, <3>1, <3>2, <4>1, EntryIs
    <3>4. rewrite_ladder(Best(d), f) = delete_level(Best(d), n)
      BY <3>1 DEF rewrite_ladder, MDEntry
    <3>5. apply_entry(With(Best(d), x), f) = With(rewrite_ladder(Best(d), f), x)
      BY <3>1, <3>2, ApplyRegular
    <3> QED BY <1>2, <3>1, <3>3, <3>4, <3>5
  <2>5. CASE ~(n > Depth) /\ Len(d) <= Depth
    <3>1. PICK f \in Entry :
            /\ f = MDEntry("Delete", Regular, n, ZeroQuote)
            /\ apply_entry(Shown(d, x), f) = With(delete_level(Best(d), n), x)
      BY <2>4, <2>5
    <3>2. e.entries = <<f>>
      BY <2>1, <2>5, <3>1
    <3>3. Best(e.deep) = delete_level(Best(d), n)
      BY <1>1, <2>1, <2>5, BestRemove
    <3>4. Shown(e.deep, x) = With(Best(e.deep), x)
      BY DEF Shown, With
    <3> QED BY <1>6, <2>2, <3>1, <3>2, <3>3, <3>4
  <2>6. CASE ~(n > Depth) /\ ~(Len(d) <= Depth)
    <3>1. PICK f \in Entry :
            /\ f = MDEntry("Delete", Regular, n, ZeroQuote)
            /\ apply_entry(Shown(d, x), f) = With(delete_level(Best(d), n), x)
      BY <2>4, <2>6
    <3>2. PICK g : g = MDEntry("New", Regular, Depth, d[Depth + 1])
      OBVIOUS
    <3>3. Depth \in Levels /\ d[Depth + 1] \in Live
      <4>1. Depth + 1 \in 1 .. Len(d)
        BY <1>1, <1>4, <2>6
      <4> QED BY <1>1, <1>4, <4>1, BestType DEF Levels
    <3>4. g \in Entry
      <4>1. "New" \in Actions
        BY DEF Actions
      <4> QED BY <1>4, <1>5, <3>2, <3>3, <4>1, EntryIs
    <3>5. PICK shorter \in Book : shorter = With(delete_level(Best(d), n), x)
      BY <1>2, <3>1, EntryQuotes, ApplyEntryType
    <3>6. apply_entries(Shown(d, x), <<f>>) = shorter
      BY <1>6, <3>1, <3>5
    <3>7. apply_entries(shorter, <<g>>) = apply_entry(shorter, g)
      BY <3>4, <3>5, ApplyFew, EntryQuotes
    <3>8. rewrite_ladder(delete_level(Best(d), n), g)
          = insert_level(delete_level(Best(d), n), Depth, d[Depth + 1])
      BY <3>2 DEF rewrite_ladder, MDEntry
    <3>9. apply_entry(shorter, g) = With(rewrite_ladder(delete_level(Best(d), n), g), x)
      BY <3>2, <3>3, <3>5, ApplyRegular
    <3>10. Best(e.deep) = insert_level(delete_level(Best(d), n), Depth, d[Depth + 1])
      BY <1>1, <2>1, <2>6, BestRemove
    <3>11. Shown(e.deep, x) = With(Best(e.deep), x)
      BY DEF Shown, With
    <3>12. /\ e.entries = <<f>> \o <<g>> /\ e.entries \in Seq(Entry)
           /\ <<f>> \in Seq(Entry) /\ <<g>> \in Seq(Entry)
      BY <2>1, <2>6, <3>1, <3>2, <3>4
    <3>13. apply_entries(Shown(d, x), <<f>> \o <<g>>)
           = apply_entries(apply_entries(Shown(d, x), <<f>>), <<g>>)
      <4>1. PICK b \in Book, s \in Seq(Entry), t \in Seq(Entry) :
              b = Shown(d, x) /\ s = <<f>> /\ t = <<g>>
        BY <1>2, <3>12
      <4>2. apply_entries(b, s \o t) = apply_entries(apply_entries(b, s), t)
        BY EntryQuotes, ApplyInTurn
      <4> QED BY <4>1, <4>2
    <3> QED BY <2>2, <3>6, <3>7, <3>8, <3>9, <3>10, <3>11, <3>12, <3>13
  <2> QED BY <2>3, <2>5, <2>6
<1> QED BY <1>7, <1>8, <1>9 DEF Event
-----------------------------------------------------------------------------
(***************************************************************************)
(* The entries of a message of several changes                             *)
(***************************************************************************)
\* The ladders a message may leave and the entries that then announce them
\* truly to a receiver of the book published before it.
Announced(d, x) ==
  {b \in [deep : Deep, entries : Seq(Entry)] :
     apply_entries(Shown(d, x), b.entries) = Shown(b.deep, x)}

Unchanged(d) == [deep |-> d, entries |-> <<>>]

Extend(b) == {[deep |-> e.deep, entries |-> b.entries \o e.entries] : e \in Event(b.deep)}

LEMMA UnchangedFollows ==
  ASSUME NEW d \in Deep, NEW x \in Live \cup {NoLevel}
  PROVE  Unchanged(d) \in Announced(d, x)
<1>1. Shown(d, x) \in Book
  BY ShownType DEF Deep
<1>2. apply_entries(Shown(d, x), <<>>) = Shown(d, x)
  BY <1>1, ApplyFew
<1> QED BY <1>2 DEF Unchanged, Announced

\* One more change, announced by the entries that come after.
LEMMA ExtendFollows ==
  ASSUME NEW d \in Deep, NEW x \in Live \cup {NoLevel}, NEW b \in Announced(d, x)
  PROVE  Extend(b) \subseteq Announced(d, x)
<1> SUFFICES ASSUME NEW e \in Event(b.deep)
             PROVE  [deep |-> e.deep, entries |-> b.entries \o e.entries] \in Announced(d, x)
  BY DEF Extend
<1>1. /\ b.deep \in Deep /\ b.entries \in Seq(Entry)
      /\ apply_entries(Shown(d, x), b.entries) = Shown(b.deep, x)
  BY DEF Announced
<1>2. PICK now \in Book : now = Shown(d, x)
  BY ShownType DEF Deep
<1>3. /\ e.deep \in Deep /\ e.entries \in Seq(Entry)
      /\ apply_entries(Shown(b.deep, x), e.entries) = Shown(e.deep, x)
  BY <1>1, EventFollows
<1>4. apply_entries(now, b.entries \o e.entries)
      = apply_entries(apply_entries(now, b.entries), e.entries)
  BY <1>1, <1>3, EntryQuotes, ApplyInTurn
<1>5. b.entries \o e.entries \in Seq(Entry)
  BY <1>1, <1>3, ConcatProperties
<1> QED BY <1>1, <1>2, <1>3, <1>4, <1>5 DEF Announced

\* The sets of batches of 0, 1, ... k changes.
IsBatchTable(table, d, k) ==
  /\ table = [i \in 0 .. k |-> table[i]]
  /\ table[0] = {Unchanged(d)}
  /\ \A i \in 1 .. k : table[i] = UNION {Extend(b) : b \in table[i - 1]}

LEMMA BatchTableExists ==
  ASSUME NEW d, NEW n \in Nat
  PROVE  \E table : IsBatchTable(table, d, n)
<1> DEFINE S == {k \in Nat : \E table : IsBatchTable(table, d, k)}
<1>1. 0 \in S
  <2> DEFINE table == [i \in 0 .. 0 |-> {Unchanged(d)}]
  <2>1. IsBatchTable(table, d, 0)
    BY DEF IsBatchTable
  <2> QED BY <2>1
<1>2. ASSUME NEW k \in Nat, k \in S PROVE k + 1 \in S
  <2>1. PICK table : IsBatchTable(table, d, k)
    BY <1>2
  <2>2. PICK last : last = UNION {Extend(b) : b \in table[k]}
    OBVIOUS
  <2> DEFINE next == [i \in 0 .. k + 1 |-> IF i = k + 1 THEN last ELSE table[i]]
  <2>3. next = [i \in 0 .. k + 1 |-> next[i]] /\ next[0] = {Unchanged(d)}
    BY <2>1 DEF IsBatchTable
  <2>4. ASSUME NEW i \in 1 .. k + 1
        PROVE  next[i] = UNION {Extend(b) : b \in next[i - 1]}
    <3>1. CASE i = k + 1
      <4>1. next[i] = last /\ next[i - 1] = table[k]
        BY <3>1
      <4> HIDE DEF next
      <4> QED BY <2>2, <4>1
    <3>2. CASE i # k + 1
      <4>1. i \in 1 .. k /\ next[i] = table[i] /\ next[i - 1] = table[i - 1]
        BY <3>2
      <4>2. table[i] = UNION {Extend(b) : b \in table[i - 1]}
        BY <2>1, <4>1 DEF IsBatchTable
      <4> HIDE DEF next
      <4> QED BY <4>1, <4>2
    <3> QED BY <3>1, <3>2
  <2> HIDE DEF next
  <2>5. IsBatchTable(next, d, k + 1)
    BY <2>3, <2>4 DEF IsBatchTable
  <2> QED BY <2>5
<1> HIDE DEF S
<1>3. Nat \subseteq S
  BY <1>1, <1>2, NatSetInduction
<1> QED BY <1>3 DEF S

\* Any message the exchange sends of its regular side tells the truth.
LEMMA BatchesFollow ==
  ASSUME NEW d \in Deep, NEW x \in Live \cup {NoLevel}
  PROVE  Batches(d) \subseteq Announced(d, x)
<1> DEFINE Step(f) == [k \in 0 .. MaxEvents |->
                         IF k = 0 THEN {[deep |-> d, entries |-> <<>>]}
                         ELSE UNION {{[deep |-> e.deep, entries |-> b.entries \o e.entries] :
                                        e \in Event(b.deep)} : b \in f[k - 1]}]
           after == CHOOSE f : f = Step(f)
<1>1. PICK table : IsBatchTable(table, d, MaxEvents)
  BY LadderBounds, BatchTableExists
<1>2. table = Step(table)
  BY <1>1, LadderBounds DEF IsBatchTable, Unchanged, Extend
<1>3. after = Step(after)
  BY <1>2
<1>4. Batches(d) = UNION {after[k] : k \in 1 .. MaxEvents}
  BY DEF Batches
<1> HIDE DEF after
<1>5. /\ after[0] = {Unchanged(d)}
      /\ \A k \in 1 .. MaxEvents : after[k] = UNION {Extend(b) : b \in after[k - 1]}
  <2>1. \A k \in 0 .. MaxEvents : after[k] = Step(after)[k]
    BY <1>3
  <2>2. after[0] = {Unchanged(d)}
    <3>1. 0 \in 0 .. MaxEvents
      BY LadderBounds
    <3>2. after[0] = Step(after)[0] /\ Step(after)[0] = {[deep |-> d, entries |-> <<>>]}
      BY <2>1, <3>1
    <3> QED BY <3>2 DEF Unchanged
  <2>3. ASSUME NEW k \in 1 .. MaxEvents
        PROVE  after[k] = UNION {Extend(b) : b \in after[k - 1]}
    <3>1. k \in 0 .. MaxEvents /\ k # 0
      BY LadderBounds
    <3> QED BY <2>1, <3>1 DEF Extend
  <2> QED BY <2>2, <2>3
<1> DEFINE T == {k \in Nat : k <= MaxEvents => after[k] \subseteq Announced(d, x)}
<1>6. 0 \in T
  BY <1>5, UnchangedFollows
<1>7. ASSUME NEW k \in Nat, k \in T PROVE k + 1 \in T
  <2> SUFFICES ASSUME k + 1 <= MaxEvents PROVE after[k + 1] \subseteq Announced(d, x)
    OBVIOUS
  <2>1. k + 1 \in 1 .. MaxEvents /\ (k + 1) - 1 = k /\ k <= MaxEvents
    BY LadderBounds
  <2>2. after[k + 1] = UNION {Extend(b) : b \in after[k]}
    BY <1>5, <2>1
  <2>3. \A b \in after[k] : Extend(b) \subseteq Announced(d, x)
    BY <1>7, <2>1, ExtendFollows
  <2> QED BY <2>2, <2>3
<1> HIDE DEF T
<1>8. Nat \subseteq T
  BY <1>6, <1>7, NatSetInduction
<1>9. \A k \in 1 .. MaxEvents : after[k] \subseteq Announced(d, x)
  BY <1>8, LadderBounds DEF T
<1> QED BY <1>4, <1>9
-----------------------------------------------------------------------------
(***************************************************************************)
(* The derived quote and the snapshots                                     *)
(***************************************************************************)
LEMMA DeriveFollows ==
  ASSUME NEW d \in Deep, NEW x \in Live \cup {NoLevel}, NEW q \in Quotes
  PROVE  LET entries == <<MDEntry("Overlay", Derived, 1, q)>>
         IN  /\ entries \in Seq(Entry)
             /\ apply_entries(Shown(d, x), entries)
                = Shown(d, IF q = ZeroQuote THEN NoLevel ELSE q)
<1>1. PICK y : y = IF q = ZeroQuote THEN NoLevel ELSE q
  OBVIOUS
<1>2. PICK e : e = MDEntry("Overlay", Derived, 1, q)
  OBVIOUS
<1>3. 1 \in Levels /\ Derived \in Sides /\ Derived # Regular
  BY SideNames, DepthAssumption DEF Levels
<1>4. e \in Entry
  <2>1. "Overlay" \in Actions /\ 1 \in Nat
    BY DEF Actions
  <2> QED BY <1>2, <1>3, <2>1, EntryIs
<1>5. Shown(d, x) \in Book
  BY ShownType DEF Deep
<1>6. apply_entries(Shown(d, x), <<e>>) = apply_entry(Shown(d, x), e)
  BY <1>4, <1>5, ApplyFew, EntryQuotes
<1>7. Shown(d, x)[Derived] = Single(x)
  BY <1>3 DEF Shown
<1>8. rewrite_ladder(Single(x), e) = Single(y)
  <2>1. rewrite_ladder(Single(x), e) = [Single(x) EXCEPT ![1] = y]
    BY <1>1, <1>2 DEF rewrite_ladder, overlay_level, MDEntry
  <2> QED BY <1>3, <2>1 DEF Single
<1>9. apply_entry(Shown(d, x), e) = [Shown(d, x) EXCEPT ![Derived] = Single(y)]
  <2>1. HasLevel(e) /\ e.entry_type = Derived
    BY <1>2, <1>3 DEF HasLevel, MDEntry
  <2> QED BY <1>7, <1>8, <2>1 DEF apply_entry
<1>10. [Shown(d, x) EXCEPT ![Derived] = Single(y)] = Shown(d, y)
  BY <1>3 DEF Shown
<1>11. <<e>> \in Seq(Entry)
  BY <1>4
<1>12. apply_entries(Shown(d, x), <<e>>) = Shown(d, y)
  BY <1>6, <1>9, <1>10
<1> QED BY <1>1, <1>2, <1>11, <1>12

\* A snapshot gives the book it names, in whatever order it names its levels.
LEMMA SnapshotFollows ==
  ASSUME NEW b \in Book, NEW entries \in SetToSeqs(Cells(b))
  PROVE  load_entries(entries) = b
<1>1. PICK n \in Nat : n = Cardinality(Cells(b))
  BY CellsFinite, FS_CardinalityType
<1>2. /\ entries \in [1 .. n -> Cells(b)]
      /\ \A i, j \in 1 .. n : i # j => entries[i] # entries[j]
  BY <1>1 DEF SetToSeqs
<1>3. entries \in Injection(1 .. n, Cells(b))
  BY <1>2 DEF Injection, IsInjective
<1>4. Cardinality(1 .. n) = n
  BY FS_Interval
<1>5. entries \in Surjection(1 .. n, Cells(b))
  BY <1>1, <1>3, <1>4, CellsFinite, FS_Injection
<1>6. \A cell \in Cells(b) : \E i \in 1 .. n : entries[i] = cell
  BY <1>5 DEF Surjection
<1> QED BY <1>2, <1>6, LoadCells
-----------------------------------------------------------------------------
(***************************************************************************)
(* The receiver                                                            *)
(***************************************************************************)
\* A message the receiver applies or misses.
LEMMA ReceiveFollows ==
  ASSUME book \in Book, synced \in BOOLEAN, NEW entries \in Seq(Entry), Receive(entries)
  PROVE  /\ book' \in Book /\ synced' \in BOOLEAN
         /\ synced' => synced /\ book' = apply_entries(book, entries)
<1>1. apply_entries(book, entries) \in Book
  BY EntryQuotes, SeqOfEntries, ApplyEntriesType
<1>2. CASE book' = apply_entries(book, entries) /\ synced' = synced
  BY <1>1, <1>2
<1>3. CASE synced' = FALSE /\ book' = book
  BY <1>3
<1> QED BY <1>2, <1>3 DEF Receive

Inv ==
  /\ deep \in Deep
  /\ quoted \in Live \cup {NoLevel}
  /\ book \in Book
  /\ synced \in BOOLEAN
  /\ synced => book = Shown(deep, quoted)

LEMMA InvImplies == Inv => TypeOK /\ BookIsPublished
BY BoundedSeqIs, PublishedIs DEF Inv, TypeOK, BookIsPublished

LEMMA InvInit == Init => Inv
<1> SUFFICES ASSUME Init PROVE Inv
  OBVIOUS
<1>1. deep = <<>> /\ quoted = NoLevel /\ book = EmptyBook /\ synced = TRUE
  BY DEF Init
<1>2. deep \in Deep /\ Len(deep) = 0
  <2>1. <<>> \in Seq(Live) /\ Len(<<>>) = 0
    OBVIOUS
  <2> QED BY <1>1, <2>1, LadderBounds DEF Deep
<1>3. Shown(deep, quoted) = EmptyBook
  <2>1. \A n \in Levels : ~(n <= 0)
    BY DEF Levels
  <2>2. Best(deep) = Bare /\ Single(NoLevel) = Bare
    BY <1>2, <2>1 DEF Best, Single, Bare
  <2>3. EmptyBook = [s \in Sides |-> Bare]
    BY DEF EmptyBook, Bare
  <2> QED BY <1>1, <2>2, <2>3 DEF Shown
<1>4. Shown(deep, quoted) \in Book
  BY <1>1, <1>2, ShownType DEF Deep
<1> QED BY <1>1, <1>2, <1>3, <1>4 DEF Inv

LEMMA InvNext == Inv /\ [Next]_vars => Inv'
<1> SUFFICES ASSUME Inv, [Next]_vars PROVE Inv'
  OBVIOUS
<1>1. /\ deep \in Deep /\ quoted \in Live \cup {NoLevel}
      /\ book \in Book /\ synced \in BOOLEAN
      /\ synced => book = Shown(deep, quoted)
  BY DEF Inv
<1>2. CASE Trade
  <2>1. PICK b \in Batches(deep) : deep' = b.deep /\ Receive(b.entries)
    BY <1>2 DEF Trade
  <2>2. quoted' = quoted
    BY <1>2 DEF Trade
  <2>3. /\ b.deep \in Deep /\ b.entries \in Seq(Entry)
        /\ apply_entries(Shown(deep, quoted), b.entries) = Shown(b.deep, quoted)
    BY <1>1, <2>1, BatchesFollow DEF Announced
  <2>4. /\ book' \in Book /\ synced' \in BOOLEAN
        /\ synced' => synced /\ book' = apply_entries(book, b.entries)
    BY <1>1, <2>1, <2>3, ReceiveFollows
  <2> QED BY <1>1, <2>1, <2>2, <2>3, <2>4 DEF Inv
<1>3. ASSUME NEW q \in Quotes, Derive(q) PROVE Inv'
  <2>1. PICK entries : entries = <<MDEntry("Overlay", Derived, 1, q)>>
    OBVIOUS
  <2>2. PICK y : y = IF q = ZeroQuote THEN NoLevel ELSE q
    OBVIOUS
  <2>3. quoted' = y /\ deep' = deep /\ Receive(entries)
    BY <1>3, <2>1, <2>2 DEF Derive
  <2>4. y \in Live \cup {NoLevel}
    BY <2>2 DEF Live
  <2>5. entries \in Seq(Entry) /\ apply_entries(Shown(deep, quoted), entries) = Shown(deep, y)
    BY <1>1, <2>1, <2>2, DeriveFollows
  <2>6. /\ book' \in Book /\ synced' \in BOOLEAN
        /\ synced' => synced /\ book' = apply_entries(book, entries)
    BY <1>1, <2>3, <2>5, ReceiveFollows
  <2> QED BY <1>1, <2>3, <2>4, <2>5, <2>6 DEF Inv
<1>4. CASE Snapshot
  <2>1. PICK entries \in SetToSeqs(Cells(Published)) : book' = load_entries(entries)
    BY <1>4 DEF Snapshot
  <2>2. synced' = TRUE /\ deep' = deep /\ quoted' = quoted
    BY <1>4 DEF Snapshot
  <2>3. Published = Shown(deep, quoted) /\ Shown(deep, quoted) \in Book
    BY <1>1, PublishedIs, ShownType DEF Deep
  <2>4. book' = Shown(deep, quoted)
    BY <2>1, <2>3, SnapshotFollows
  <2> QED BY <1>1, <2>2, <2>3, <2>4 DEF Inv
<1>5. CASE UNCHANGED vars
  BY <1>1, <1>5 DEF vars, Inv
<1> QED BY <1>2, <1>3, <1>4, <1>5 DEF Next

\* The exchange's ladder stays within its bound and holds quotes only, and the
\* receiver's book is a book whatever it misses (TypeOK), for every depth,
\* every bound and every set of sides and quotes.
THEOREM TypeCorrect == Spec => []TypeOK
<1>1. Inv => TypeOK
  BY InvImplies
<1> QED BY <1>1, InvInit, InvNext, PTL DEF Spec

\* A receiver that has missed nothing since its last snapshot holds exactly the
\* levels the exchange publishes (BookIsPublished: apply_entry over the entries
\* of on_i081, and the books of I083 and I084), however long the exchange's own
\* ladder is and however many changes a message carries.
THEOREM BookFollowsLadder == Spec => []BookIsPublished
<1>1. Inv => BookIsPublished
  BY InvImplies
<1> QED BY <1>1, InvInit, InvNext, PTL DEF Spec
=============================================================================
