--------------------------- MODULE SubscribersProofs ---------------------------
(***************************************************************************)
(* What the manager collects for its subscribers, under every sequence of  *)
(* calls: every change of a book or of its trust is collected for each of  *)
(* them, and with one feed thread what they hold follows the manager.      *)
(***************************************************************************)
EXTENDS Subscribers, OrderBookProofs, SequenceTheorems

(***************************************************************************)
(* Sequences                                                               *)
(***************************************************************************)
LEMMA ConcatSet ==
  ASSUME NEW S, NEW s \in Seq(S), NEW r \in Seq(S)
  PROVE  ToSet(s \o r) = ToSet(s) \cup ToSet(r)
<1>1. /\ Len(s) \in Nat /\ Len(r) \in Nat
      /\ DOMAIN s = 1 .. Len(s) /\ DOMAIN r = 1 .. Len(r)
      /\ DOMAIN (s \o r) = 1 .. Len(s) + Len(r)
      /\ \A i \in 1 .. Len(s) + Len(r) :
           (s \o r)[i] = IF i <= Len(s) THEN s[i] ELSE r[i - Len(s)]
  BY ConcatProperties, LenProperties
<1>2. \A x : x \in ToSet(s \o r) => x \in ToSet(s) \cup ToSet(r)
  <2> SUFFICES ASSUME NEW i \in DOMAIN (s \o r)
               PROVE  (s \o r)[i] \in ToSet(s) \cup ToSet(r)
    BY DEF ToSet
  <2>1. CASE i <= Len(s)
    BY <1>1, <2>1 DEF ToSet
  <2>2. CASE ~(i <= Len(s))
    <3>1. i - Len(s) \in DOMAIN r
      BY <1>1, <2>2
    <3> QED BY <1>1, <2>2, <3>1 DEF ToSet
  <2> QED BY <2>1, <2>2
<1>3. \A i \in DOMAIN s : s[i] \in ToSet(s \o r)
  BY <1>1 DEF ToSet
<1>4. \A i \in DOMAIN r : r[i] \in ToSet(s \o r)
  <2> TAKE i \in DOMAIN r
  <2>1. PICK k \in 1 .. Len(s) + Len(r) : k = i + Len(s) /\ ~(k <= Len(s)) /\ k - Len(s) = i
    BY <1>1
  <2> QED BY <1>1, <2>1 DEF ToSet
<1> QED BY <1>2, <1>3, <1>4 DEF ToSet

\* The concatenation of the first k sequences, for every k.
IsFlat(table, seqs, S, k) ==
  /\ table \in [1 .. k -> Seq(S)]
  /\ \A i \in 1 .. k :
       /\ table[i] = IF i = 1 THEN seqs[i] ELSE table[i - 1] \o seqs[i]
       /\ ToSet(table[i]) = UNION {ToSet(seqs[j]) : j \in 1 .. i}

LEMMA FlatExists ==
  ASSUME NEW S, NEW n \in Nat, NEW seqs \in [1 .. n -> Seq(S)]
  PROVE  \E table : IsFlat(table, seqs, S, n)
<1> DEFINE P == {k \in Nat : k <= n => \E table : IsFlat(table, seqs, S, k)}
<1>1. 0 \in P
  <2>1. IsFlat([i \in 1 .. 0 |-> <<>>], seqs, S, 0)
    BY DEF IsFlat
  <2> QED BY <2>1
<1>2. ASSUME NEW k \in Nat, k \in P PROVE k + 1 \in P
  <2>1. SUFFICES ASSUME k + 1 <= n
                 PROVE  \E table : IsFlat(table, seqs, S, k + 1)
    OBVIOUS
  <2>2. PICK table : IsFlat(table, seqs, S, k)
    BY <1>2, <2>1
  <2>3. PICK l \in 1 .. n : l = k + 1
    BY <2>1
  <2> DEFINE last == IF l = 1 THEN seqs[l] ELSE table[k] \o seqs[l]
  <2>4. /\ last \in Seq(S)
        /\ ToSet(last) = UNION {ToSet(seqs[j]) : j \in 1 .. l}
    <3>1. seqs[l] \in Seq(S)
      OBVIOUS
    <3>2. CASE l = 1
      <4>1. 1 .. l = {1}
        BY <3>2
      <4> QED BY <3>1, <3>2, <4>1
    <3>3. CASE l # 1
      <4>1. k \in 1 .. k
        BY <2>3, <3>3
      <4>2. table[k] \in Seq(S) /\ ToSet(table[k]) = UNION {ToSet(seqs[j]) : j \in 1 .. k}
        BY <2>2, <4>1 DEF IsFlat
      <4>3. 1 .. l = (1 .. k) \cup {l}
        BY <2>3
      <4>4. ToSet(table[k] \o seqs[l]) = ToSet(table[k]) \cup ToSet(seqs[l])
        BY <3>1, <4>2, ConcatSet
      <4>5. table[k] \o seqs[l] \in Seq(S)
        BY <3>1, <4>2, ConcatProperties
      <4> QED BY <3>3, <4>2, <4>3, <4>4, <4>5
    <3> QED BY <3>2, <3>3
  <2> DEFINE next == [i \in 1 .. l |-> IF i = l THEN last ELSE table[i]]
  <2> HIDE DEF last
  <2>5. next \in [1 .. l -> Seq(S)]
    BY <2>2, <2>3, <2>4 DEF IsFlat
  <2>6. ASSUME NEW i \in 1 .. l
        PROVE  /\ next[i] = IF i = 1 THEN seqs[i] ELSE next[i - 1] \o seqs[i]
               /\ ToSet(next[i]) = UNION {ToSet(seqs[j]) : j \in 1 .. i}
    <3>1. CASE i = l
      <4>1. next[i] = last /\ (i # 1 => next[i - 1] = table[k])
        BY <2>3, <3>1
      <4> HIDE DEF next
      <4> QED BY <2>4, <3>1, <4>1 DEF last
    <3>2. CASE i # l
      <4>1. i \in 1 .. k /\ next[i] = table[i] /\ (i # 1 => next[i - 1] = table[i - 1])
        BY <2>3, <3>2
      <4> HIDE DEF next
      <4> QED BY <2>2, <4>1 DEF IsFlat
    <3> QED BY <3>1, <3>2
  <2> HIDE DEF next
  <2>7. IsFlat(next, seqs, S, l)
    BY <2>5, <2>6 DEF IsFlat
  <2> QED BY <2>3, <2>7
<1> HIDE DEF P
<1>3. n \in P
  BY <1>1, <1>2, NatSetInduction
<1> QED BY <1>3 DEF P

\* FlattenSeq concatenates: what is in it is what is in one of the sequences.
LEMMA FlattenProperties ==
  ASSUME NEW S, NEW n \in Nat, NEW seqs \in [1 .. n -> Seq(S)]
  PROVE  /\ FlattenSeq(seqs) \in Seq(S)
         /\ ToSet(FlattenSeq(seqs)) = UNION {ToSet(seqs[i]) : i \in 1 .. n}
<1>1. seqs \in Seq(Seq(S)) /\ Len(seqs) = n
  OBVIOUS
<1>2. CASE n = 0
  <2>1. FlattenSeq(seqs) = seqs /\ seqs = <<>> /\ 1 .. n = {}
    BY <1>1, <1>2 DEF FlattenSeq
  <2>2. ToSet(seqs) = {}
    BY <1>2 DEF ToSet
  <2> QED BY <2>1, <2>2
<1>3. CASE n # 0
  <2> DEFINE Step(f) == [i \in 1 .. n |-> IF i = 1 THEN seqs[i] ELSE f[i - 1] \o seqs[i]]
             flatten == CHOOSE f : f = Step(f)
  <2>1. PICK table : IsFlat(table, seqs, S, n)
    BY FlatExists
  <2>2. table = Step(table)
    BY <2>1 DEF IsFlat
  <2>3. flatten = Step(flatten)
    BY <2>2
  <2>4. FlattenSeq(seqs) = flatten[n]
    BY <1>1, <1>3 DEF FlattenSeq
  <2> HIDE DEF flatten
  <2> DEFINE P == {k \in Nat : k \in 1 .. n => flatten[k] = table[k]}
  <2>5. 0 \in P
    OBVIOUS
  <2>6. ASSUME NEW k \in Nat, k \in P PROVE k + 1 \in P
    <3>1. SUFFICES ASSUME k + 1 \in 1 .. n PROVE flatten[k + 1] = table[k + 1]
      OBVIOUS
    <3>2. PICK l \in 1 .. n : l = k + 1
      BY <3>1
    <3>3. flatten[l] = IF l = 1 THEN seqs[l] ELSE flatten[l - 1] \o seqs[l]
      BY <2>3
    <3>4. table[l] = IF l = 1 THEN seqs[l] ELSE table[l - 1] \o seqs[l]
      BY <2>1 DEF IsFlat
    <3>5. l # 1 => flatten[l - 1] = table[l - 1]
      BY <2>6, <3>2
    <3> QED BY <3>2, <3>3, <3>4, <3>5
  <2> HIDE DEF P
  <2>7. n \in P
    BY <2>5, <2>6, NatSetInduction
  <2>8. flatten[n] = table[n] /\ n \in 1 .. n
    BY <1>3, <2>7 DEF P
  <2> QED BY <2>1, <2>4, <2>8 DEF IsFlat
<1> QED BY <1>2, <1>3

\* An order of a finite set goes through all of it.
LEMMA OrderCovers ==
  ASSUME NEW S, IsFiniteSet(S), NEW order \in SetToSeqs(S)
  PROVE  /\ Cardinality(S) \in Nat
         /\ order \in [1 .. Cardinality(S) -> S]
         /\ \A x \in S : \E i \in 1 .. Cardinality(S) : order[i] = x
<1> DEFINE n == Cardinality(S)
<1>1. n \in Nat
  BY FS_CardinalityType
<1>2. order \in [1 .. n -> S] /\ \A i, j \in 1 .. n : i # j => order[i] # order[j]
  BY DEF SetToSeqs
<1> HIDE DEF n
<1>3. order \in Injection(1 .. n, S)
  BY <1>2 DEF Injection, IsInjective
<1>4. Cardinality(1 .. n) = n
  BY <1>1, FS_Interval
<1>5. n = Cardinality(S)
  BY DEF n
<1>6. order \in Surjection(1 .. n, S)
  BY <1>3, <1>4, <1>5, FS_Injection
<1> QED BY <1>1, <1>2, <1>5, <1>6 DEF Surjection
-----------------------------------------------------------------------------
(***************************************************************************)
(* The manager's state                                                     *)
(***************************************************************************)
Deliveries == [callback : Callbacks, prod : Products, copy : Copies]

ProductsOK ==
  /\ DOMAIN products \subseteq Products
  /\ IsFiniteSet(DOMAIN products)
  /\ \A p \in DOMAIN products : products[p] \in ProductState

ChannelsOK ==
  /\ DOMAIN channels \subseteq Channels
  /\ \A c \in DOMAIN channels : channels[c] \in ChannelState

TablesOK ==
  /\ callbacks \in [Products -> Seq(Callbacks)]
  /\ wildcard \in Seq(Callbacks)

StateOK == ProductsOK /\ ChannelsOK /\ TablesOK /\ pending \in [Threads -> Seq(Deliveries)]

LEMMA HeaderType ==
  ASSUME NEW h \in Headers
  PROVE  h.channel \in Channels /\ h.seq \in Nat
BY AnyFeedAssumption DEF Headers

LEMMA MessageType ==
  ASSUME NEW m \in ProductMessages
  PROVE  /\ m.prod \in Products /\ m.seq \in Nat
         /\ m.kind \in {"I024", "I025", "I081", "I083", "I084"}
         /\ m.kind \in {"I081", "I083", "I084"} => IsEntries(m.entries)
<1>1. CASE m \in [kind : {"I024", "I025"}, prod : Products, seq : Seqs]
  BY <1>1, AnyFeedAssumption
<1>2. CASE m \in [kind : {"I081"}, prod : Products, seq : Seqs, entries : Increments]
  BY <1>2, AnyFeedAssumption
<1>3. CASE m \in [kind : {"I083"}, prod : Products, seq : Seqs, entries : Snapshots,
                  trial : BOOLEAN]
  BY <1>3, AnyFeedAssumption
<1>4. CASE m \in [kind : {"I084"}, prod : Products, seq : Seqs, entries : Snapshots]
  BY <1>4, AnyFeedAssumption
<1> QED BY <1>1, <1>2, <1>3, <1>4 DEF ProductMessages

\* Loading the entries of any snapshot gives a book (adopt_snapshot_locked).
LEMMA LoadEntriesType ==
  ASSUME NEW entries, IsEntries(entries)
  PROVE  load_entries(entries) \in Book
<1>1. ASSUME NEW s \in Sides, NEW n \in Levels
      PROVE  LET W == Writers(entries, s, n)
             IN  (IF W = {} THEN NoLevel
                  ELSE entries[CHOOSE i \in W : \A j \in W : j <= i].quote) \in Quotes \cup {NoLevel}
  <2> DEFINE W == Writers(entries, s, n)
  <2>1. W \in SUBSET (1 .. Len(entries)) /\ Len(entries) \in Nat
    BY DEF Writers, IsEntries
  <2> HIDE DEF W
  <2>2. W # {} => \E i \in W : \A j \in W : j <= i
    BY <2>1, GreatestExists
  <2>3. W # {} => (CHOOSE i \in W : \A j \in W : j <= i) \in W
    BY <2>2
  <2>4. \A i \in W : entries[i].quote \in Quotes
    BY <2>1 DEF IsEntries
  <2> QED BY <2>3, <2>4 DEF W
<1> QED BY <1>1 DEF load_entries, Book, Ladder

LEMMA NewProductType ==
  ASSUME ProductsOK, NEW p \in Products
  PROVE  get_or_create(p) \in ProductState
<1>1. EmptyBook \in Book
  BY DEF EmptyBook, Book, Ladder
<1> QED BY <1>1 DEF get_or_create, NewProduct, ProductState, ProductsOK

LEMMA TrackSeqType ==
  ASSUME NEW st \in ProductState, NEW seq \in Nat
  PROVE  track_seq(st, seq) \in ProductState /\ track_seq(st, seq).book = st.book
BY DEF track_seq, ProductState

\* What is stored of the products when one of them gets a new state.
LEMMA StoredType ==
  ASSUME ProductsOK, NEW p \in Products, NEW st \in ProductState, products' = Stored(p, st)
  PROVE  /\ ProductsOK'
         /\ DOMAIN products' = DOMAIN products \cup {p}
         /\ products'[p] = st
         /\ \A r \in DOMAIN products \ {p} : products'[r] = products[r]
<1>1. IsFiniteSet(DOMAIN products \cup {p})
  BY FS_AddElement DEF ProductsOK
<1>2. /\ DOMAIN products' = DOMAIN products \cup {p}
      /\ products'[p] = st
      /\ \A r \in DOMAIN products \ {p} : products'[r] = products[r]
  BY DEF Stored
<1>3. \A r \in DOMAIN products' : products'[r] \in ProductState
  BY <1>2 DEF ProductsOK
<1> QED BY <1>1, <1>2, <1>3 DEF ProductsOK

\* The channel trackers after a header.
LEMMA TrackChannelType ==
  ASSUME ChannelsOK, NEW h \in Headers, TrackChannel(h)
  PROVE  ChannelsOK'
<1>1. h.channel \in Channels /\ h.seq \in Nat
  BY HeaderType
<1>2. track_channel(h) \in ChannelState
  <2>1. CASE h.channel \notin DOMAIN channels
    BY <1>1, <2>1 DEF track_channel, ChannelState
  <2>2. CASE h.channel \in DOMAIN channels
    <3>1. channels[h.channel] \in ChannelState
      BY <2>2 DEF ChannelsOK
    <3> QED BY <1>1, <2>2, <3>1 DEF track_channel, ChannelState
  <2> QED BY <2>1, <2>2
<1>3. DOMAIN channels' = DOMAIN channels \cup {h.channel}
  BY DEF TrackChannel
<1>4. \A c \in DOMAIN channels' :
        channels'[c] = IF c = h.channel THEN track_channel(h) ELSE channels[c]
  BY DEF TrackChannel
<1> HIDE DEF TrackChannel
<1> QED BY <1>1, <1>2, <1>3, <1>4 DEF ChannelsOK
-----------------------------------------------------------------------------
(***************************************************************************)
(* What a critical section collects                                        *)
(***************************************************************************)
\* The copies of p that its subscribers are owed.
Told(p, st, stale) ==
  {[callback |-> c, prod |-> p, copy |-> Copy(st, stale)] : c \in Subscribers(p)}

LEMMA ToldEach ==
  ASSUME NEW p, NEW st, NEW stale
  PROVE  /\ \A d \in Told(p, st, stale) :
              d.prod = p /\ d.copy.is_stale = stale /\ d.copy.book = st.book
         /\ \A c \in Subscribers(p) : \E d \in Told(p, st, stale) : d.callback = c /\ d.prod = p
<1>1. ASSUME NEW c \in Subscribers(p)
      PROVE  \E d \in Told(p, st, stale) : d.callback = c /\ d.prod = p
  <2> DEFINE d == [callback |-> c, prod |-> p, copy |-> Copy(st, stale)]
  <2>1. d \in Told(p, st, stale)
    BY DEF Told
  <2>2. d.callback = c /\ d.prod = p
    OBVIOUS
  <2> HIDE DEF d
  <2> QED BY <2>1, <2>2
<1>2. \A d \in Told(p, st, stale) :
        d.prod = p /\ d.copy.is_stale = stale /\ d.copy.book = st.book
  BY DEF Told, Copy
<1> QED BY <1>1, <1>2

LEMMA SubscribersOf ==
  ASSUME TablesOK, NEW p \in Products
  PROVE  /\ callbacks[p] \o wildcard \in Seq(Callbacks)
         /\ Subscribers(p) = ToSet(callbacks[p]) \cup ToSet(wildcard)
         /\ Subscribers(p) \subseteq Callbacks
<1>1. callbacks[p] \in Seq(Callbacks) /\ wildcard \in Seq(Callbacks)
  BY DEF TablesOK
<1>2. callbacks[p] \o wildcard \in Seq(Callbacks)
  BY <1>1, ConcatProperties
<1>3. ToSet(callbacks[p] \o wildcard) \subseteq Callbacks
  BY <1>2 DEF ToSet
<1> QED BY <1>1, <1>2, <1>3, ConcatSet DEF Subscribers

LEMMA CollectedDeliveries ==
  ASSUME TablesOK, NEW p \in Products, NEW st \in ProductState, NEW stale \in BOOLEAN
  PROVE  /\ collect_delivery(p, st, stale) \in Seq(Deliveries)
         /\ ToSet(collect_delivery(p, st, stale)) = Told(p, st, stale)
<1> DEFINE cbs == callbacks[p] \o wildcard
<1>1. cbs \in Seq(Callbacks) /\ Subscribers(p) = ToSet(cbs)
  BY SubscribersOf DEF Subscribers
<1>2. collect_delivery(p, st, stale) =
        [i \in DOMAIN cbs |-> [callback |-> cbs[i], prod |-> p, copy |-> Copy(st, stale)]]
  BY DEF collect_delivery
<1>3. Copy(st, stale) \in Copies
  BY DEF Copy, Copies, ProductState
<1> HIDE DEF cbs
<1>4. Len(cbs) \in Nat /\ DOMAIN cbs = 1 .. Len(cbs) /\ \A i \in DOMAIN cbs : cbs[i] \in Callbacks
  BY <1>1
<1>5. \A i \in DOMAIN cbs :
        [callback |-> cbs[i], prod |-> p, copy |-> Copy(st, stale)] \in Deliveries
  BY <1>3, <1>4 DEF Deliveries
<1>6. collect_delivery(p, st, stale) \in [1 .. Len(cbs) -> Deliveries]
  BY <1>2, <1>4, <1>5
<1>7. collect_delivery(p, st, stale) \in Seq(Deliveries)
  BY <1>4, <1>6
<1>8. ToSet(collect_delivery(p, st, stale)) = Told(p, st, stale)
  <2>1. ToSet(cbs) = {cbs[i] : i \in DOMAIN cbs}
    BY DEF ToSet
  <2>2. ToSet(collect_delivery(p, st, stale)) =
          {[callback |-> cbs[i], prod |-> p, copy |-> Copy(st, stale)] : i \in DOMAIN cbs}
    BY <1>2 DEF ToSet
  <2> QED BY <1>1, <2>1, <2>2 DEF Told
<1> QED BY <1>7, <1>8

Trusted == {p \in DOMAIN products : ~is_stale(products[p])}

\* The sweep of a gap or a reset, in whatever order: a stale-flagged copy of
\* every trusted book for each of its subscribers, and nothing else.
LEMMA SweepCollects ==
  ASSUME ProductsOK, TablesOK, NEW sweep \in StaleSweeps
  PROVE  /\ sweep \in Seq(Deliveries)
         /\ ToSet(sweep) = UNION {Told(p, products[p], TRUE) : p \in Trusted}
<1>1. IsFiniteSet(Trusted)
  BY FS_Subset DEF Trusted, ProductsOK
<1>2. PICK order \in SetToSeqs(Trusted) :
        sweep = FlattenSeq([i \in DOMAIN order |->
                              collect_delivery(order[i], products[order[i]], TRUE)])
  BY DEF StaleSweeps, Trusted
<1> DEFINE n == Cardinality(Trusted)
           seqs == [i \in DOMAIN order |-> collect_delivery(order[i], products[order[i]], TRUE)]
<1>3. n \in Nat /\ order \in [1 .. n -> Trusted] /\ \A p \in Trusted : \E i \in 1 .. n : order[i] = p
  BY <1>1, OrderCovers
<1> HIDE DEF n
<1>4. DOMAIN order = 1 .. n
  BY <1>3
<1>5. ASSUME NEW i \in 1 .. n
      PROVE  seqs[i] \in Seq(Deliveries) /\ ToSet(seqs[i]) = Told(order[i], products[order[i]], TRUE)
  <2>1. order[i] \in Products /\ products[order[i]] \in ProductState
    BY <1>3 DEF Trusted, ProductsOK
  <2>2. seqs[i] = collect_delivery(order[i], products[order[i]], TRUE)
    BY <1>4
  <2> HIDE DEF seqs
  <2> QED BY <2>1, <2>2, CollectedDeliveries
<1>6. seqs \in [1 .. n -> Seq(Deliveries)]
  BY <1>4, <1>5
<1>7. sweep = FlattenSeq(seqs)
  BY <1>2
<1> HIDE DEF seqs
<1>8. sweep \in Seq(Deliveries) /\ ToSet(sweep) = UNION {ToSet(seqs[i]) : i \in 1 .. n}
  BY <1>3, <1>6, <1>7, FlattenProperties
<1>9. UNION {ToSet(seqs[i]) : i \in 1 .. n} = UNION {Told(p, products[p], TRUE) : p \in Trusted}
  <2>1. \A i \in 1 .. n : order[i] \in Trusted /\ ToSet(seqs[i]) = Told(order[i], products[order[i]], TRUE)
    BY <1>3, <1>5
  <2>2. \A p \in Trusted : \E i \in 1 .. n : ToSet(seqs[i]) = Told(p, products[p], TRUE)
    BY <1>3, <1>5
  <2> HIDE DEF Told
  <2> QED BY <2>1, <2>2
<1> QED BY <1>8, <1>9
-----------------------------------------------------------------------------
(***************************************************************************)
(* What a step of the manager tells its subscribers: for each product      *)
(* either nothing when there is nothing to tell, or the new flag and book, *)
(* to each subscriber.                                                     *)
(***************************************************************************)
Unchanged(p) ==
  /\ get_book(p)'.is_stale = get_book(p).is_stale
  /\ p \in DOMAIN products \cap DOMAIN products' => products'[p].book = products[p].book
  /\ ~get_book(p).is_stale => p \in DOMAIN products \cap DOMAIN products'

ToldNothing(p, news) == \A d \in news : d.prod # p

ToldAll(p, news) ==
  /\ \A d \in news : d.prod = p =>
       /\ d.copy.is_stale = get_book(p)'.is_stale
       /\ p \in DOMAIN products' => d.copy.book = products'[p].book
  /\ \A c \in Subscribers(p) : \E d \in news : d.callback = c /\ d.prod = p

\* What the thread that moves still has to fire after what it collects.
Owed(t) == IF Ready(t) THEN <<>> ELSE Tail(pending[t])

Notice(t, new) ==
  /\ new \in Seq(Deliveries)
  /\ pending' = [pending EXCEPT ![t] = new \o Owed(t)]
  /\ UNCHANGED <<callbacks, wildcard>>
  /\ \A p \in Products :
       \/ Unchanged(p) /\ ToldNothing(p, ToSet(new))
       \/ ToldAll(p, ToSet(new))

\* A step that collects nothing since it changes nothing that is shown.
LEMMA QuietNotice ==
  ASSUME StateOK, NEW t \in Threads, Ready(t), UNCHANGED <<callbacks, wildcard, pending>>,
         \A p \in Products : Unchanged(p)
  PROVE  Notice(t, <<>>)
<1>1. <<>> \in Seq(Deliveries) /\ ToSet(<<>>) = {}
  BY DEF ToSet
<1>2. pending' = [pending EXCEPT ![t] = <<>> \o Owed(t)]
  <2>1. <<>> \o Owed(t) = <<>> /\ pending[t] = <<>>
    BY <1>1, ConcatEmptySeq DEF Owed, Ready
  <2>2. pending = [pending EXCEPT ![t] = <<>>]
    BY <2>1 DEF StateOK
  <2> QED BY <2>1, <2>2
<1> QED BY <1>1, <1>2 DEF Notice, ToldNothing

\* Nothing of the books changes.
LEMMA SameProducts ==
  ASSUME UNCHANGED products, NEW p
  PROVE  Unchanged(p)
BY DEF Unchanged, get_book, NoCopy, Copy

LEMMA DeliverNotice ==
  ASSUME StateOK, NEW t \in Threads, NEW p \in Products, NEW st \in ProductState,
         Ready(t), Deliver(t, p, st)
  PROVE  ProductsOK' /\ \E new : Notice(t, new)
<1> DEFINE new == collect_delivery(p, st, is_stale(st))
<1>1. is_stale(st) \in BOOLEAN
  BY DEF is_stale, ProductState
<1>2. new \in Seq(Deliveries) /\ ToSet(new) = Told(p, st, is_stale(st))
  BY <1>1, CollectedDeliveries DEF StateOK
<1>3. pending' = [pending EXCEPT ![t] = new \o Owed(t)]
  <2>1. new \o Owed(t) = new
    BY <1>2, ConcatEmptySeq DEF Owed
  <2> QED BY <2>1 DEF Deliver, Collect
<1>4. UNCHANGED <<callbacks, wildcard>> /\ products' = Stored(p, st)
  BY DEF Deliver
<1> HIDE DEF new
<1>5. /\ ProductsOK'
      /\ DOMAIN products' = DOMAIN products \cup {p}
      /\ products'[p] = st
      /\ \A r \in DOMAIN products \ {p} : products'[r] = products[r]
  BY <1>4, StoredType DEF StateOK
<1>6. ToldAll(p, ToSet(new))
  <2>1. get_book(p)'.is_stale = is_stale(st)
    BY <1>5 DEF get_book, Copy
  <2>2. \A d \in ToSet(new) : d.copy.is_stale = is_stale(st) /\ d.copy.book = st.book
    BY <1>2, ToldEach
  <2>3. \A c \in Subscribers(p) : \E d \in ToSet(new) : d.callback = c /\ d.prod = p
    BY <1>2, ToldEach
  <2> QED BY <1>5, <2>1, <2>2, <2>3 DEF ToldAll
<1>7. ASSUME NEW r \in Products \ {p}
      PROVE  Unchanged(r) /\ ToldNothing(r, ToSet(new))
  <2>1. r \in DOMAIN products <=> r \in DOMAIN products'
    BY <1>5
  <2>2. r \in DOMAIN products => products'[r] = products[r]
    BY <1>5
  <2>3. Unchanged(r)
    BY <2>1, <2>2 DEF Unchanged, get_book, Copy, NoCopy
  <2>4. ToldNothing(r, ToSet(new))
    BY <1>2, ToldEach DEF ToldNothing
  <2> QED BY <2>3, <2>4
<1>8. Notice(t, new)
  BY <1>2, <1>3, <1>4, <1>6, <1>7 DEF Notice
<1> QED BY <1>5, <1>8

\* The sweep of a gap or a reset: every trusted book loses its trust, or goes.
LEMMA SweepNotice ==
  ASSUME StateOK, NEW t \in Threads, NEW sweep \in StaleSweeps,
         pending' = [pending EXCEPT ![t] = sweep \o Owed(t)],
         UNCHANGED <<callbacks, wildcard>>,
         \A p \in Products : get_book(p)'.is_stale = TRUE,
         \A p \in DOMAIN products' : p \in DOMAIN products /\ products'[p].book = products[p].book
  PROVE  Notice(t, sweep)
<1>1. sweep \in Seq(Deliveries)
      /\ ToSet(sweep) = UNION {Told(p, products[p], TRUE) : p \in Trusted}
  BY SweepCollects DEF StateOK
<1>2. \A d \in ToSet(sweep) :
        d.prod \in Trusted /\ d.copy.is_stale = TRUE /\ d.copy.book = products[d.prod].book
  <2> SUFFICES ASSUME NEW d \in ToSet(sweep)
               PROVE  d.prod \in Trusted /\ d.copy.is_stale = TRUE
                      /\ d.copy.book = products[d.prod].book
    OBVIOUS
  <2>1. PICK p \in Trusted : d \in Told(p, products[p], TRUE)
    BY <1>1
  <2>2. \A e \in Told(p, products[p], TRUE) :
          e.prod = p /\ e.copy.is_stale = TRUE /\ e.copy.book = products[p].book
    BY DEF Told, Copy
  <2> QED BY <2>1, <2>2
<1>3. ASSUME NEW p \in Trusted PROVE ToldAll(p, ToSet(sweep))
  <2>1. p \in Products /\ get_book(p)'.is_stale = TRUE
    BY DEF Trusted, StateOK, ProductsOK
  <2>2. \A c \in Subscribers(p) : \E d \in ToSet(sweep) : d.callback = c /\ d.prod = p
    <3>1. Told(p, products[p], TRUE) \subseteq ToSet(sweep)
      BY <1>1
    <3>2. \A c \in Subscribers(p) :
            \E d \in Told(p, products[p], TRUE) : d.callback = c /\ d.prod = p
      BY ToldEach
    <3> HIDE DEF Told
    <3> QED BY <3>1, <3>2
  <2>3. ASSUME NEW d \in ToSet(sweep), d.prod = p
        PROVE  /\ d.copy.is_stale = get_book(p)'.is_stale
               /\ p \in DOMAIN products' => d.copy.book = products'[p].book
    BY <1>2, <2>1, <2>3
  <2> QED BY <2>2, <2>3 DEF ToldAll
<1>4. ASSUME NEW p \in Products \ Trusted
      PROVE  Unchanged(p) /\ ToldNothing(p, ToSet(sweep))
  <2>1. get_book(p).is_stale = TRUE
    <3>1. CASE p \in DOMAIN products
      <4>1. is_stale(products[p]) \in BOOLEAN
        BY <3>1 DEF is_stale, StateOK, ProductsOK, ProductState
      <4> QED BY <3>1, <4>1 DEF Trusted, get_book, Copy
    <3>2. CASE p \notin DOMAIN products
      BY <3>2 DEF get_book, NoCopy
    <3> QED BY <3>1, <3>2
  <2>2. get_book(p)'.is_stale = TRUE
    OBVIOUS
  <2> QED BY <1>2, <2>1, <2>2 DEF Unchanged, ToldNothing
<1> QED BY <1>1, <1>3, <1>4 DEF Notice

LEMMA ClearNotice ==
  ASSUME StateOK, NEW t \in Threads, ClearAll(t, Owed(t))
  PROVE  ProductsOK' /\ ChannelsOK' /\ \E new : Notice(t, new)
<1>1. PICK sweep \in StaleSweeps : pending' = [pending EXCEPT ![t] = sweep \o Owed(t)]
  BY DEF ClearAll, Collect
<1>2. DOMAIN products' = {} /\ DOMAIN channels' = {} /\ UNCHANGED <<callbacks, wildcard>>
  BY DEF ClearAll, NoProducts, NoChannels
<1>3. \A p \in Products : get_book(p)'.is_stale = TRUE
  BY <1>2 DEF get_book, NoCopy
<1>4. Notice(t, sweep)
  BY <1>1, <1>2, <1>3, SweepNotice
<1>5. ProductsOK' /\ ChannelsOK'
  BY <1>2, FS_EmptySet DEF ProductsOK, ChannelsOK
<1> QED BY <1>4, <1>5

LEMMA HeaderNotice ==
  ASSUME StateOK, NEW t \in Threads, NEW h \in Headers, on_header(t, h)
  PROVE  ProductsOK' /\ ChannelsOK' /\ \E new : Notice(t, new)
<1>1. CASE on_header_reset(t, h)
  BY <1>1, ClearNotice DEF on_header_reset, Owed
<1>2. CASE on_header_quiet(t, h)
  <2>1. ChannelsOK'
    BY <1>2, TrackChannelType DEF on_header_quiet, StateOK
  <2>2. Ready(t) /\ UNCHANGED <<products, callbacks, wildcard, pending>>
    BY <1>2 DEF on_header_quiet
  <2>3. Notice(t, <<>>)
    BY <2>2, SameProducts, QuietNotice
  <2> QED BY <2>1, <2>2, <2>3 DEF StateOK, ProductsOK
<1>3. CASE on_header_gap(t, h)
  <2>1. ChannelsOK'
    BY <1>3, TrackChannelType DEF on_header_gap, StateOK
  <2>2. /\ Ready(t) /\ products' = suspect_all
        /\ UNCHANGED <<callbacks, wildcard>>
        /\ \E sweep \in StaleSweeps : Collect(t, sweep)
    BY <1>3 DEF on_header_gap
  <2>3. PICK sweep \in StaleSweeps : pending' = [pending EXCEPT ![t] = sweep]
    BY <2>2 DEF Collect
  <2>4. sweep \in Seq(Deliveries)
    BY SweepCollects DEF StateOK
  <2>5. pending' = [pending EXCEPT ![t] = sweep \o Owed(t)]
    BY <2>2, <2>3, <2>4, ConcatEmptySeq DEF Owed
  <2>6. DOMAIN products' = DOMAIN products
    BY <2>2 DEF suspect_all
  <2>7. ASSUME NEW p \in DOMAIN products
        PROVE  /\ products'[p] \in ProductState
               /\ products'[p].book = products[p].book
               /\ is_stale(products'[p]) = TRUE
    <3>1. products[p] \in ProductState
      BY DEF StateOK, ProductsOK
    <3>2. products'[p] = [products[p] EXCEPT !.suspect = products[p].synced \/ products[p].suspect]
      BY <2>2 DEF suspect_all
    <3> QED BY <3>1, <3>2 DEF ProductState, is_stale
  <2>8. ProductsOK'
    BY <2>6, <2>7 DEF StateOK, ProductsOK
  <2>9. \A p \in Products : get_book(p)'.is_stale = TRUE
    BY <2>6, <2>7 DEF get_book, Copy, NoCopy
  <2>10. Notice(t, sweep)
    BY <2>2, <2>5, <2>6, <2>7, <2>9, SweepNotice
  <2> QED BY <2>1, <2>8, <2>10
<1> QED BY <1>1, <1>2, <1>3 DEF on_header

\* A message that only consumes a serial.
LEMMA SerialNotice ==
  ASSUME StateOK, NEW t \in Threads, NEW m \in ProductMessages, on_serial(t, m)
  PROVE  ProductsOK' /\ \E new : Notice(t, new)
<1> DEFINE old == get_or_create(m.prod)
           st == track_seq(old, m.seq)
<1>1. m.prod \in Products /\ m.seq \in Nat
  BY MessageType
<1>2. old \in ProductState
  BY <1>1, NewProductType DEF StateOK
<1>3. st \in ProductState /\ st.book = old.book
  BY <1>1, <1>2, TrackSeqType
<1>4. Ready(t)
  BY DEF on_serial
<1>5. CASE is_stale(st) = is_stale(old)
  <2>1. products' = Stored(m.prod, st) /\ UNCHANGED <<callbacks, wildcard, pending>>
    BY <1>5 DEF on_serial
  <2>2. /\ ProductsOK'
        /\ DOMAIN products' = DOMAIN products \cup {m.prod}
        /\ products'[m.prod] = st
        /\ \A r \in DOMAIN products \ {m.prod} : products'[r] = products[r]
    BY <1>1, <1>3, <2>1, StoredType DEF StateOK
  <2>3. Unchanged(m.prod)
    <3>1. CASE m.prod \in DOMAIN products
      <4>1. old = products[m.prod]
        BY <3>1 DEF get_or_create
      <4>2. get_book(m.prod).is_stale = is_stale(old)
        BY <3>1, <4>1 DEF get_book, Copy
      <4>3. get_book(m.prod)'.is_stale = is_stale(st)
        BY <2>2 DEF get_book, Copy
      <4> HIDE DEF old, st
      <4> QED BY <1>3, <1>5, <2>2, <3>1, <4>1, <4>2, <4>3 DEF Unchanged
    <3>2. CASE m.prod \notin DOMAIN products
      <4>1. is_stale(old) = TRUE
        BY <3>2 DEF get_or_create, NewProduct, is_stale
      <4>2. get_book(m.prod).is_stale = TRUE
        BY <3>2 DEF get_book, NoCopy
      <4>3. get_book(m.prod)'.is_stale = is_stale(st)
        BY <2>2 DEF get_book, Copy
      <4> HIDE DEF old, st
      <4> QED BY <1>5, <3>2, <4>1, <4>2, <4>3 DEF Unchanged
    <3> QED BY <3>1, <3>2
  <2>4. ASSUME NEW r \in Products, r # m.prod PROVE Unchanged(r)
    <3>1. r \in DOMAIN products <=> r \in DOMAIN products'
      BY <2>2, <2>4
    <3>2. r \in DOMAIN products => products'[r] = products[r]
      BY <2>2, <2>4
    <3> QED BY <3>1, <3>2 DEF Unchanged, get_book, Copy, NoCopy
  <2>5. Notice(t, <<>>)
    BY <1>4, <2>1, <2>3, <2>4, QuietNotice
  <2> QED BY <2>2, <2>5
<1>6. CASE is_stale(st) # is_stale(old)
  <2>1. Deliver(t, m.prod, st)
    BY <1>6 DEF on_serial
  <2> QED BY <1>1, <1>3, <1>4, <2>1, DeliverNotice
<1> QED BY <1>5, <1>6

LEMMA AdoptNotice ==
  ASSUME StateOK, NEW t \in Threads, NEW m \in ProductMessages, m.kind \in {"I083", "I084"},
         adopt(t, m)
  PROVE  ProductsOK' /\ \E new : Notice(t, new)
<1>1. m.prod \in Products /\ m.seq \in Nat /\ IsEntries(m.entries)
  BY MessageType
<1>2. PICK old \in ProductState : old = get_or_create(m.prod)
  BY <1>1, NewProductType DEF StateOK
<1>3. adopt_snapshot(old, m.seq, m.entries) \in ProductState
  <2>1. load_entries(m.entries) \in Book
    BY <1>1, LoadEntriesType
  <2> QED BY <1>1, <2>1 DEF adopt_snapshot, ProductState
<1>4. Ready(t) /\ Deliver(t, m.prod, adopt_snapshot(old, m.seq, m.entries))
  BY <1>2 DEF adopt
<1> QED BY <1>1, <1>3, <1>4, DeliverNotice

LEMMA IncrementNotice ==
  ASSUME StateOK, NEW t \in Threads, NEW m \in ProductMessages, on_i081(t, m)
  PROVE  ProductsOK' /\ \E new : Notice(t, new)
<1>1. m.prod \in Products /\ m.seq \in Nat /\ IsEntries(m.entries)
  BY MessageType DEF on_i081
<1>2. PICK old \in ProductState : old = get_or_create(m.prod)
  BY <1>1, NewProductType DEF StateOK
<1>3. PICK tracked \in ProductState : tracked = track_seq(old, m.seq)
  BY <1>1, TrackSeqType
<1>4. apply_entries(tracked.book, m.entries) \in Book
  BY <1>1, ApplyEntriesType DEF ProductState
<1>5. PICK st \in ProductState :
        st = [tracked EXCEPT !.book = apply_entries(tracked.book, m.entries)]
  BY <1>4 DEF ProductState
<1>6. Ready(t) /\ Deliver(t, m.prod, st)
  BY <1>2, <1>3, <1>5 DEF on_i081
<1> QED BY <1>1, <1>6, DeliverNotice

\* Every call of the interface, and a callback that resets, gives notice of
\* what it changes.
LEMMA CallNotice ==
  ASSUME StateOK, Call
  PROVE  /\ ProductsOK' /\ ChannelsOK'
         /\ \E t \in Threads : Ready(t) /\ \E new : Notice(t, new)
<1>1. ASSUME NEW t \in Threads, NEW h \in Headers, on_header(t, h)
      PROVE  ProductsOK' /\ ChannelsOK' /\ Ready(t) /\ \E new : Notice(t, new)
  BY <1>1, HeaderNotice DEF on_header, on_header_reset, on_header_quiet, on_header_gap
<1>2. ASSUME NEW t \in Threads, reset(t)
      PROVE  ProductsOK' /\ ChannelsOK' /\ Ready(t) /\ \E new : Notice(t, new)
  BY <1>2, ClearNotice DEF reset, Owed
<1>3. ASSUME NEW t \in Threads, NEW m \in ProductMessages, on_product(t, m)
      PROVE  ProductsOK' /\ ChannelsOK' /\ Ready(t) /\ \E new : Notice(t, new)
  <2>1. CASE on_serial(t, m)
    <3>1. Ready(t) /\ UNCHANGED channels
      BY <2>1 DEF on_serial, Deliver
    <3> QED BY <2>1, <3>1, SerialNotice DEF StateOK, ChannelsOK
  <2>2. CASE on_i081(t, m)
    <3>1. Ready(t) /\ UNCHANGED channels
      BY <2>2 DEF on_i081, Deliver
    <3> QED BY <2>2, <3>1, IncrementNotice DEF StateOK, ChannelsOK
  <2>3. CASE m.kind \in {"I083", "I084"} /\ adopt(t, m)
    <3>1. Ready(t) /\ UNCHANGED channels
      BY <2>3 DEF adopt, Deliver
    <3> QED BY <2>3, <3>1, AdoptNotice DEF StateOK, ChannelsOK
  <2>4. CASE on_ignored(t, m)
    <3>1. Ready(t) /\ UNCHANGED <<products, channels, callbacks, wildcard, pending>>
      BY <2>4 DEF on_ignored, manager
    <3>2. Notice(t, <<>>)
      BY <3>1, SameProducts, QuietNotice
    <3> QED BY <3>1, <3>2 DEF StateOK, ProductsOK, ChannelsOK
  <2> QED BY <1>3, <2>1, <2>2, <2>3, <2>4
          DEF on_product, on_i024, on_i025, on_i083_trial, on_i083, on_i084
<1> QED BY <1>1, <1>2, <1>3 DEF Call

LEMMA FireResetNotice ==
  ASSUME StateOK, NEW t \in Threads, fire_reset(t)
  PROVE  ProductsOK' /\ ChannelsOK' /\ \E new : Notice(t, new)
BY ClearNotice DEF fire_reset, Owed, Ready
-----------------------------------------------------------------------------
(***************************************************************************)
(* The invariant of the manager's state                                    *)
(***************************************************************************)
LEMMA NoticeType ==
  ASSUME StateOK, ProductsOK', ChannelsOK', NEW t \in Threads, NEW new, Notice(t, new)
  PROVE  StateOK'
<1>1. pending[t] \in Seq(Deliveries) /\ new \in Seq(Deliveries)
  BY DEF StateOK, Notice
<1>2. Owed(t) \in Seq(Deliveries)
  BY <1>1, HeadTailProperties DEF Owed, Ready
<1>3. new \o Owed(t) \in Seq(Deliveries)
  BY <1>1, <1>2, ConcatProperties
<1>4. pending' \in [Threads -> Seq(Deliveries)]
  BY <1>3 DEF StateOK, Notice
<1> QED BY <1>4 DEF StateOK, Notice, TablesOK

LEMMA FireType ==
  ASSUME StateOK, NEW t \in Threads, fire(t)
  PROVE  StateOK' /\ UNCHANGED <<products, callbacks, wildcard>>
<1>1. pending[t] \in Seq(Deliveries) /\ pending[t] # <<>>
  BY DEF StateOK, fire
<1>2. Tail(pending[t]) \in Seq(Deliveries)
  BY <1>1, HeadTailProperties
<1> QED BY <1>2 DEF StateOK, fire, ProductsOK, ChannelsOK, TablesOK

\* Registration changes the tables only, and who becomes a subscriber is new.
LEMMA RegistrationType ==
  ASSUME StateOK, Registration
  PROVE  /\ StateOK' /\ UNCHANGED <<products, pending>>
         /\ \A p \in Products : \A c \in Subscribers(p)' \ Subscribers(p) : IsNew(c)
<1>1. TablesOK
  BY DEF StateOK
<1>2. UNCHANGED <<products, channels, pending>>
  BY DEF Registration, register_callback, register_callback_all, unregister_callbacks,
         unregister_all_callbacks
<1>3. SUFFICES /\ TablesOK'
               /\ \A p \in Products : \A c \in Subscribers(p)' \ Subscribers(p) : IsNew(c)
  BY <1>2 DEF StateOK, ProductsOK, ChannelsOK
<1>4. ASSUME TablesOK',
             \A p \in Products : \A c \in (ToSet(callbacks[p]) \cup ToSet(wildcard))' :
               c \in ToSet(callbacks[p]) \cup ToSet(wildcard) \/ IsNew(c)
      PROVE  \A p \in Products : \A c \in Subscribers(p)' \ Subscribers(p) : IsNew(c)
  <2> SUFFICES ASSUME NEW p \in Products
               PROVE  \A c \in Subscribers(p)' \ Subscribers(p) : IsNew(c)
    OBVIOUS
  <2>1. Subscribers(p) = ToSet(callbacks[p]) \cup ToSet(wildcard)
    BY <1>1, SubscribersOf
  <2>2. Subscribers(p)' = (ToSet(callbacks[p]) \cup ToSet(wildcard))'
    <3>1. callbacks'[p] \in Seq(Callbacks) /\ wildcard' \in Seq(Callbacks)
      BY <1>4 DEF TablesOK
    <3> QED BY <3>1, ConcatSet DEF Subscribers
  <2> QED BY <1>4, <2>1, <2>2
<1>5. \A s \in Seq(Callbacks) : \A c \in Callbacks :
        Append(s, c) \in Seq(Callbacks) /\ ToSet(Append(s, c)) = ToSet(s) \cup {c}
  <2> TAKE s \in Seq(Callbacks)
  <2> TAKE c \in Callbacks
  <2>1. <<c>> \in Seq(Callbacks) /\ Append(s, c) = s \o <<c>> /\ ToSet(<<c>>) = {c}
    BY AppendIsConcat DEF ToSet
  <2>2. s \o <<c>> \in Seq(Callbacks) /\ ToSet(s \o <<c>>) = ToSet(s) \cup ToSet(<<c>>)
    BY <2>1, ConcatProperties, ConcatSet
  <2> QED BY <2>1, <2>2
<1>6. <<>> \in Seq(Callbacks) /\ ToSet(<<>>) = {}
  BY DEF ToSet
<1>7. ASSUME NEW c \in Callbacks, NEW r \in Products, register_callback(c, r)
      PROVE  /\ TablesOK'
             /\ \A p \in Products : \A d \in (ToSet(callbacks[p]) \cup ToSet(wildcard))' :
                  d \in ToSet(callbacks[p]) \cup ToSet(wildcard) \/ IsNew(d)
  <2>1. /\ IsNew(c) /\ wildcard' = wildcard
        /\ callbacks' = [callbacks EXCEPT ![r] = Append(callbacks[r], c)]
    BY <1>7 DEF register_callback
  <2>2. callbacks[r] \in Seq(Callbacks)
    BY <1>1 DEF TablesOK
  <2>3. Append(callbacks[r], c) \in Seq(Callbacks)
        /\ ToSet(Append(callbacks[r], c)) = ToSet(callbacks[r]) \cup {c}
    BY <1>5, <2>2
  <2>4. TablesOK'
    BY <1>1, <2>1, <2>3 DEF TablesOK
  <2>5. \A p \in Products :
          callbacks'[p] = IF p = r THEN Append(callbacks[r], c) ELSE callbacks[p]
    BY <1>1, <2>1 DEF TablesOK
  <2> QED BY <2>1, <2>3, <2>4, <2>5
<1>8. ASSUME NEW c \in Callbacks, register_callback_all(c)
      PROVE  /\ TablesOK'
             /\ \A p \in Products : \A d \in (ToSet(callbacks[p]) \cup ToSet(wildcard))' :
                  d \in ToSet(callbacks[p]) \cup ToSet(wildcard) \/ IsNew(d)
  <2>1. IsNew(c) /\ callbacks' = callbacks /\ wildcard' = Append(wildcard, c)
    BY <1>8 DEF register_callback_all
  <2>2. wildcard' \in Seq(Callbacks) /\ ToSet(wildcard') = ToSet(wildcard) \cup {c}
    BY <1>1, <1>5, <2>1 DEF TablesOK
  <2>3. TablesOK'
    BY <1>1, <2>1, <2>2 DEF TablesOK
  <2> QED BY <2>1, <2>2, <2>3
<1>9. ASSUME NEW r \in Products, unregister_callbacks(r)
      PROVE  /\ TablesOK'
             /\ \A p \in Products : \A d \in (ToSet(callbacks[p]) \cup ToSet(wildcard))' :
                  d \in ToSet(callbacks[p]) \cup ToSet(wildcard) \/ IsNew(d)
  <2>1. wildcard' = wildcard /\ callbacks' = [callbacks EXCEPT ![r] = <<>>]
    BY <1>9 DEF unregister_callbacks
  <2>2. TablesOK'
    BY <1>1, <1>6, <2>1 DEF TablesOK
  <2>3. \A p \in Products : callbacks'[p] = IF p = r THEN <<>> ELSE callbacks[p]
    BY <1>1, <2>1 DEF TablesOK
  <2> QED BY <1>6, <2>1, <2>2, <2>3
<1>10. ASSUME unregister_all_callbacks
       PROVE  /\ TablesOK'
              /\ \A p \in Products : \A d \in (ToSet(callbacks[p]) \cup ToSet(wildcard))' :
                   d \in ToSet(callbacks[p]) \cup ToSet(wildcard) \/ IsNew(d)
  BY <1>6, <1>10 DEF unregister_all_callbacks, TablesOK
<1> QED BY <1>4, <1>7, <1>8, <1>9, <1>10 DEF Registration

LEMMA InitState == SystemInit => StateOK
<1> SUFFICES ASSUME SystemInit PROVE StateOK
  OBVIOUS
<1>1. /\ DOMAIN products = {} /\ DOMAIN channels = {}
      /\ callbacks = [p \in Products |-> <<>>]
      /\ wildcard \in SetToSeqs({})
      /\ pending = [t \in Threads |-> <<>>]
  BY DEF SystemInit, Init, ManagerInit, NoProducts, NoChannels
<1>2. wildcard \in [1 .. 0 -> {}]
  <2>1. Cardinality({}) = 0
    BY FS_EmptySet
  <2> QED BY <1>1, <2>1 DEF SetToSeqs
<1>3. wildcard \in Seq(Callbacks)
  BY <1>2
<1> QED BY <1>1, <1>3, FS_EmptySet DEF StateOK, ProductsOK, ChannelsOK, TablesOK

\* Each step of the system is a call with notice, a callback, or a registration.
LEMMA StepCases ==
  ASSUME StateOK, [SystemNext]_system
  PROVE  /\ StateOK'
         /\ \/ \E t \in Threads : \E new : Notice(t, new)
            \/ UNCHANGED products
<1>1. CASE Call
  BY <1>1, CallNotice, NoticeType
<1>2. CASE Registration
  BY <1>2, RegistrationType
<1>3. ASSUME NEW t \in Threads, fire(t) PROVE StateOK' /\ UNCHANGED products
  BY <1>3, FireType
<1>4. ASSUME NEW t \in Threads, fire_reset(t)
      PROVE  StateOK' /\ \E new : Notice(t, new)
  BY <1>4, FireResetNotice, NoticeType
<1>5. CASE UNCHANGED system
  BY <1>5 DEF system, manager, StateOK, ProductsOK, ChannelsOK, TablesOK
<1> QED BY <1>1, <1>2, <1>3, <1>4, <1>5 DEF SystemNext, Register, Invoke

LEMMA StateHolds == SystemSpec => []StateOK
<1>1. StateOK /\ [SystemNext]_system => StateOK'
  BY StepCases
<1> QED BY InitState, <1>1, PTL DEF SystemSpec

\* The state of the manager has its shape under any calls (order_book.h:111-165).
THEOREM TypeCorrect == SystemSpec => []TypeOK
<1>1. StateOK => TypeOK
  <2> SUFFICES ASSUME StateOK PROVE TypeOK
    OBVIOUS
  <2>1. ASSUME NEW t \in Threads, NEW i \in DOMAIN pending[t]
        PROVE  /\ pending[t][i].callback \in Callbacks
               /\ pending[t][i].prod \in Products
               /\ pending[t][i].copy \in Copies
    <3>1. pending[t] \in Seq(Deliveries)
      BY DEF StateOK
    <3>2. pending[t][i] \in Deliveries
      BY <3>1
    <3> QED BY <3>2 DEF Deliveries
  <2> QED BY <2>1 DEF TypeOK, StateOK, ProductsOK, ChannelsOK, TablesOK
<1> QED BY <1>1, StateHolds, PTL

\* Every step that changes a book, or whether it can be trusted, collects a copy
\* for each of its subscribers with the new flag (README.md:87), for any number
\* of products, threads and callbacks, from inside callbacks or not.
THEOREM ChangesCollected == SystemSpec => ChangesAreDelivered
<1>1. ASSUME StateOK, [SystemNext]_system
      PROVE  [\A p \in Products : ChangeIsCollected(p)]_manager
  <2> SUFFICES ASSUME NEW p \in Products
               PROVE  ChangeIsCollected(p)
    OBVIOUS
  <2>1. CASE UNCHANGED products
    BY <2>1 DEF ChangeIsCollected, get_book, Copy, NoCopy
  <2>2. ASSUME NEW t \in Threads, NEW new, Notice(t, new)
        PROVE  ChangeIsCollected(p)
    <3>1. CASE Unchanged(p)
      BY <3>1 DEF ChangeIsCollected, Unchanged
    <3>2. CASE ToldAll(p, ToSet(new))
      <4>1. SUFFICES ASSUME NEW c \in Subscribers(p)
                     PROVE  CollectedFor(c, p, get_book(p)'.is_stale)
        BY DEF ChangeIsCollected
      <4>2. PICK i \in DOMAIN new : new[i].callback = c /\ new[i].prod = p
        BY <3>2 DEF ToldAll, ToSet
      <4>3. /\ new[i].copy.is_stale = get_book(p)'.is_stale
            /\ p \in DOMAIN products' => new[i].copy.book = products'[p].book
        BY <3>2, <4>2 DEF ToldAll, ToSet
      <4>4. /\ new \in Seq(Deliveries) /\ pending[t] \in Seq(Deliveries)
            /\ pending'[t] = new \o Owed(t)
        BY <1>1, <2>2 DEF Notice, StateOK
      <4>5. PICK k \in Nat :
              /\ k = IF Ready(t) THEN 0 ELSE Len(pending[t]) - 1
              /\ Owed(t) \in Seq(Deliveries) /\ Len(Owed(t)) = k
        <5>1. CASE Ready(t)
          BY <5>1 DEF Owed
        <5>2. CASE ~Ready(t)
          <6>1. Tail(pending[t]) \in Seq(Deliveries) /\ Len(Tail(pending[t])) = Len(pending[t]) - 1
            BY <4>4, <5>2, HeadTailProperties DEF Ready
          <6> QED BY <5>2, <6>1, LenProperties DEF Owed
        <5> QED BY <5>1, <5>2
      <4>6. PICK n \in Nat : n = Len(new) /\ DOMAIN new = 1 .. n
        BY <4>4
      <4>7. Len(pending'[t]) = n + k /\ pending'[t][i] = new[i]
        <5>1. PICK rest \in Seq(Deliveries) : rest = Owed(t) /\ Len(rest) = k
          BY <4>5
        <5>2. i \in 1 .. n + k /\ i <= n
          BY <4>2, <4>6
        <5> QED BY <4>4, <4>6, <5>1, <5>2, ConcatProperties
      <4>8. t \in Collecting
        <5>1. pending'[t] = pending[t] => pending' = pending
          BY <1>1, <2>2 DEF Notice, StateOK
        <5> QED BY <5>1 DEF Collecting
      <4>9. i \in 1 .. Len(pending'[t]) - (IF Ready(t) THEN 0 ELSE Len(pending[t]) - 1)
        BY <4>2, <4>5, <4>6, <4>7
      <4> QED BY <4>2, <4>3, <4>7, <4>8, <4>9 DEF CollectedFor
    <3> QED BY <2>2, <3>1, <3>2 DEF Notice
  <2> QED BY <1>1, <2>1, <2>2, StepCases
<1> QED BY <1>1, StateHolds, PTL DEF SystemSpec, ChangesAreDelivered
-----------------------------------------------------------------------------
(***************************************************************************)
(* What the subscribers hold                                               *)
(***************************************************************************)
\* One thread feeds and resets the manager.  (With two, README.md:152, the copies
\* of one product may be handed over out of their order.)
OneThread == \E t : Threads = {t}

ViewOK ==
  /\ overtaken \in BOOLEAN
  /\ view = [c \in Callbacks |-> [p \in Products |-> view[c][p]]]

Mine(s, c, p) == {i \in DOMAIN s : s[i].callback = c /\ s[i].prod = p}

\* What c holds for p once the invocations s were made, and what it was before.
Coming(s, held, c, p) ==
  IF Mine(s, c, p) = {} THEN held
  ELSE s[CHOOSE i \in Mine(s, c, p) : \A j \in Mine(s, c, p) : j <= i].copy

LEMMA ForthcomingIs ==
  ASSUME NEW t, NEW c, NEW p
  PROVE  /\ Forthcoming(t, c, p) = Coming(pending[t], view[c][p], c, p)
         /\ Forthcoming(t, c, p)' = Coming(pending'[t], view'[c][p], c, p)
BY DEF Forthcoming, Coming, Mine

\* It is the copy of the last of them that is for c and p.
LEMMA ComingLast ==
  ASSUME NEW s \in Seq(Deliveries), NEW held, NEW c, NEW p, Mine(s, c, p) # {}
  PROVE  \E i \in Mine(s, c, p) :
           (\A j \in Mine(s, c, p) : j <= i) /\ Coming(s, held, c, p) = s[i].copy
<1> DEFINE M == Mine(s, c, p)
<1>1. M \in SUBSET (1 .. Len(s)) /\ Len(s) \in Nat /\ M # {}
  BY DEF Mine
<1> HIDE DEF M
<1>2. \E i \in M : \A j \in M : j <= i
  BY <1>1, GreatestExists
<1> DEFINE last == CHOOSE i \in M : \A j \in M : j <= i
<1>3. last \in M /\ \A j \in M : j <= last
  BY <1>2
<1>4. Coming(s, held, c, p) = s[last].copy
  BY <1>1 DEF Coming, M
<1> HIDE DEF last
<1> QED BY <1>3, <1>4 DEF M

\* Making the first of them changes nothing of that.
LEMMA ComingTail ==
  ASSUME NEW s \in Seq(Deliveries), s # <<>>, NEW c, NEW p, NEW held
  PROVE  Coming(s, held, c, p) =
           Coming(Tail(s), IF Head(s).callback = c /\ Head(s).prod = p THEN Head(s).copy ELSE held,
                  c, p)
<1>1. PICK n \in Nat : n = Len(Tail(s)) /\ Len(s) = n + 1
  BY HeadTailProperties, LenProperties
<1>2. /\ Tail(s) \in Seq(Deliveries) /\ Head(s) = s[1]
      /\ DOMAIN s = 1 .. n + 1 /\ DOMAIN Tail(s) = 1 .. n
      /\ \A i \in 1 .. n : Tail(s)[i] = s[i + 1]
  BY <1>1, HeadTailProperties, LenProperties
<1>0. PICK next : next = IF Head(s).callback = c /\ Head(s).prod = p THEN Head(s).copy ELSE held
  OBVIOUS
<1>3. \A i \in 1 .. n : i \in Mine(Tail(s), c, p) <=> i + 1 \in Mine(s, c, p)
  BY <1>2 DEF Mine
<1>4. 1 \in Mine(s, c, p) <=> Head(s).callback = c /\ Head(s).prod = p
  BY <1>1, <1>2 DEF Mine
<1>5. Mine(s, c, p) \subseteq 1 .. n + 1 /\ Mine(Tail(s), c, p) \subseteq 1 .. n
  BY <1>2 DEF Mine
<1>6. CASE Mine(Tail(s), c, p) # {}
  <2>1. PICK i \in Mine(Tail(s), c, p) :
          /\ \A j \in Mine(Tail(s), c, p) : j <= i
          /\ Coming(Tail(s), next, c, p) = Tail(s)[i].copy
    <3>1. PICK rest \in Seq(Deliveries) : rest = Tail(s)
      BY <1>2
    <3>2. \E i \in Mine(rest, c, p) :
            /\ \A j \in Mine(rest, c, p) : j <= i
            /\ Coming(rest, next, c, p) = rest[i].copy
      <4>1. Mine(rest, c, p) # {}
        BY <1>6, <3>1
      <4> QED BY <4>1, ComingLast, Zenon
    <3> QED BY <3>1, <3>2
  <2>2. PICK k \in 2 .. n + 1 : k = i + 1 /\ k \in Mine(s, c, p) /\ Tail(s)[i] = s[k]
    BY <1>2, <1>3, <1>5, <2>1
  <2>3. PICK l \in Mine(s, c, p) :
          (\A j \in Mine(s, c, p) : j <= l) /\ Coming(s, held, c, p) = s[l].copy
    BY <2>2, ComingLast
  <2>4. l = k
    <3>1. l \in 2 .. n + 1 /\ k <= l
      BY <1>5, <2>2, <2>3
    <3>2. PICK j \in 1 .. n : l = j + 1
      BY <3>1
    <3>3. j \in Mine(Tail(s), c, p)
      BY <1>3, <2>3, <3>2
    <3>4. j <= i
      BY <2>1, <3>3
    <3> QED BY <1>5, <2>2, <3>1, <3>2, <3>4
  <2> QED BY <1>0, <2>1, <2>2, <2>3, <2>4
<1>7. CASE Mine(Tail(s), c, p) = {}
  <2>1. Coming(Tail(s), next, c, p) = next
    BY <1>7 DEF Coming
  <2>2. Mine(s, c, p) \subseteq {1}
    <3> SUFFICES ASSUME NEW k \in Mine(s, c, p), k # 1 PROVE FALSE
      OBVIOUS
    <3>1. PICK j \in 1 .. n : k = j + 1
      BY <1>5
    <3> QED BY <1>3, <1>7, <3>1
  <2>3. CASE 1 \in Mine(s, c, p)
    <3>1. PICK l \in Mine(s, c, p) : Coming(s, held, c, p) = s[l].copy
      BY <2>3, ComingLast
    <3> QED BY <1>0, <1>2, <1>4, <2>1, <2>2, <2>3, <3>1
  <2>4. CASE 1 \notin Mine(s, c, p)
    <3>1. Mine(s, c, p) = {}
      BY <2>2, <2>4
    <3>2. Coming(s, held, c, p) = held
      BY <3>1 DEF Coming
    <3> QED BY <1>0, <1>4, <2>1, <2>4, <3>2
  <2> QED BY <2>3, <2>4
<1> QED BY <1>0, <1>6, <1>7

\* A copy that says of p what get_book says.
Agrees(copy, p) ==
  copy # NotTold =>
    /\ copy.is_stale = get_book(p).is_stale
    /\ ~copy.is_stale => copy.book = products[p].book

AgreesNext(copy, p) ==
  copy # NotTold =>
    /\ copy.is_stale = get_book(p)'.is_stale
    /\ ~copy.is_stale => copy.book = products'[p].book

LEMMA FollowIs ==
  SubscribersAlwaysFollow <=>
    \A t \in Threads, p \in Products : \A c \in Subscribers(p) :
      Agrees(Coming(pending[t], view[c][p], c, p), p)
BY ForthcomingIs DEF SubscribersAlwaysFollow, Agrees

LEMMA FollowNext ==
  ASSUME \A t \in Threads, p \in Products : \A c \in Subscribers(p)' :
           AgreesNext(Coming(pending'[t], view'[c][p], c, p), p)
  PROVE  SubscribersAlwaysFollow'
BY ForthcomingIs DEF SubscribersAlwaysFollow, AgreesNext

\* A notice brings what each subscriber is going to hold up to date, when it
\* comes after all that is to be fired.
LEMMA NoticeFollows ==
  ASSUME StateOK, NEW t \in Threads, NEW new, Notice(t, new), NEW p \in Products,
         NEW c \in Subscribers(p), NEW held, Agrees(held, p), Owed(t) = <<>>
  PROVE  AgreesNext(Coming(pending'[t], held, c, p), p)
<1>1. new \in Seq(Deliveries) /\ pending'[t] = new
  <2>1. new \in Seq(Deliveries) /\ new \o <<>> = new
    BY ConcatEmptySeq DEF Notice
  <2> QED BY <2>1 DEF Notice, StateOK
<1>2. DOMAIN new = 1 .. Len(new) /\ Len(new) \in Nat
  BY <1>1
<1>3. \A i \in DOMAIN new : new[i] \in ToSet(new)
  BY DEF ToSet
<1>4. CASE Unchanged(p) /\ ToldNothing(p, ToSet(new))
  <2>1. Mine(new, c, p) = {}
    BY <1>3, <1>4 DEF Mine, ToldNothing
  <2>2. Coming(new, held, c, p) = held
    BY <2>1 DEF Coming
  <2>3. ASSUME held # NotTold
        PROVE  /\ held.is_stale = get_book(p)'.is_stale
               /\ ~held.is_stale => held.book = products'[p].book
    BY <1>4, <2>3 DEF Agrees, Unchanged
  <2> QED BY <1>1, <2>2, <2>3 DEF AgreesNext
<1>5. CASE ToldAll(p, ToSet(new))
  <2>1. Mine(new, c, p) # {}
    <3>1. PICK d \in ToSet(new) : d.callback = c /\ d.prod = p
      BY <1>5 DEF ToldAll
    <3>2. PICK i \in DOMAIN new : new[i] = d
      BY DEF ToSet
    <3> QED BY <3>1, <3>2 DEF Mine
  <2>2. PICK i \in Mine(new, c, p) : Coming(new, held, c, p) = new[i].copy
    BY <1>1, <2>1, ComingLast
  <2>3. /\ new[i].copy.is_stale = get_book(p)'.is_stale
        /\ p \in DOMAIN products' => new[i].copy.book = products'[p].book
    BY <1>3, <1>5, <2>2 DEF Mine, ToldAll
  <2>4. p \notin DOMAIN products' => get_book(p)'.is_stale
    BY DEF get_book, NoCopy
  <2> QED BY <1>1, <2>2, <2>3, <2>4 DEF AgreesNext
<1> QED BY <1>4, <1>5 DEF Notice
-----------------------------------------------------------------------------
(***************************************************************************)
(* The subscribers follow                                                  *)
(***************************************************************************)
\* The inductive invariant behind SubscribersFollow.
FollowInv == StateOK /\ ViewOK /\ SubscribersFollow

\* What the invocation of a callback does to what c holds for p.
Handed(t) ==
  LET d == Head(pending[t])
  IN  view' = IF d.callback \in Subscribers(d.prod)
              THEN [view EXCEPT ![d.callback][d.prod] = d.copy]
              ELSE view

LEMMA ViewAfter ==
  ASSUME StateOK, ViewOK, NEW t \in Threads, pending[t] # <<>>, Handed(t)
  PROVE  /\ view' = [c \in Callbacks |-> [p \in Products |-> view'[c][p]]]
         /\ \A p \in Products : \A c \in Subscribers(p) :
              view'[c][p] = IF Head(pending[t]).callback = c /\ Head(pending[t]).prod = p
                            THEN Head(pending[t]).copy ELSE view[c][p]
<1>1. pending[t] \in Seq(Deliveries)
  BY DEF StateOK
<1>2. PICK d \in Deliveries : d = Head(pending[t])
  BY <1>1, HeadTailProperties
<1>3. d.callback \in Callbacks /\ d.prod \in Products
  BY DEF Deliveries
<1>4. /\ view' = IF d.callback \in Subscribers(d.prod)
                 THEN [view EXCEPT ![d.callback][d.prod] = d.copy]
                 ELSE view
      /\ view = [c \in Callbacks |-> [p \in Products |-> view[c][p]]]
  BY <1>2 DEF Handed, ViewOK
<1>5. \A p \in Products : \A c \in Callbacks :
        view'[c][p] = IF d.callback \in Subscribers(d.prod) /\ d.callback = c /\ d.prod = p
                      THEN d.copy ELSE view[c][p]
  BY <1>3, <1>4
<1>6. view' = [c \in Callbacks |-> [p \in Products |-> view'[c][p]]]
  BY <1>3, <1>4
<1>7. \A p \in Products : Subscribers(p) \subseteq Callbacks
  BY SubscribersOf DEF StateOK
<1> QED BY <1>2, <1>5, <1>6, <1>7

LEMMA ViewStep ==
  ASSUME StateOK, ViewOK, [SystemNext]_system
  PROVE  ViewOK'
<1>1. CASE Call /\ UNCHANGED <<view, overtaken>>
  BY <1>1 DEF ViewOK
<1>2. CASE Register
  BY <1>2 DEF ViewOK, Register
<1>3. ASSUME NEW t \in Threads, Invoke(t) PROVE ViewOK'
  <2>1. pending[t] # <<>> /\ Handed(t) /\ overtaken' \in BOOLEAN
    BY <1>3 DEF Invoke, Handed, fire, fire_reset, ViewOK
  <2> QED BY <2>1, ViewAfter DEF ViewOK
<1>4. CASE UNCHANGED system
  BY <1>4 DEF system, ViewOK
<1> QED BY <1>1, <1>2, <1>3, <1>4 DEF SystemNext

LEMMA SameSubscribers ==
  ASSUME UNCHANGED <<callbacks, wildcard>>, NEW p
  PROVE  Subscribers(p)' = Subscribers(p)
BY DEF Subscribers

LEMMA CallFollows ==
  ASSUME OneThread, FollowInv, Call, UNCHANGED <<view, overtaken>>
  PROVE  SubscribersFollow'
<1>1. SUFFICES ASSUME ~overtaken
               PROVE  SubscribersAlwaysFollow'
  BY DEF SubscribersFollow
<1>2. StateOK /\ SubscribersAlwaysFollow
  BY <1>1 DEF FollowInv, SubscribersFollow
<1>3. PICK t \in Threads : \E new : Ready(t) /\ Notice(t, new)
  BY <1>2, CallNotice
<1>4. PICK new : Ready(t) /\ Notice(t, new)
  BY <1>3
<1>5. Threads = {t}
  BY DEF OneThread
<1>6. ASSUME NEW p \in Products, NEW c \in Subscribers(p)'
      PROVE  AgreesNext(Coming(pending'[t], view'[c][p], c, p), p)
  <2>1. c \in Subscribers(p)
    BY <1>4, <1>6, SameSubscribers DEF Notice
  <2>2. PICK held : held = view[c][p] /\ held = view'[c][p]
    OBVIOUS
  <2>3. Coming(pending[t], held, c, p) = held
    BY <1>4 DEF Ready, Coming, Mine
  <2>4. Agrees(held, p)
    BY <1>2, <2>1, <2>2, <2>3, FollowIs
  <2>5. Owed(t) = <<>>
    BY <1>4 DEF Owed
  <2>6. AgreesNext(Coming(pending'[t], held, c, p), p)
    BY <1>2, <1>4, <2>1, <2>4, <2>5, NoticeFollows
  <2> QED BY <2>2, <2>6
<1> QED BY <1>5, <1>6, FollowNext

LEMMA FireFollows ==
  ASSUME OneThread, FollowInv, NEW t \in Threads, fire(t), Handed(t), UNCHANGED overtaken
  PROVE  SubscribersFollow'
<1>1. SUFFICES ASSUME ~overtaken
               PROVE  SubscribersAlwaysFollow'
  BY DEF SubscribersFollow
<1>2. StateOK /\ ViewOK /\ SubscribersAlwaysFollow
  BY <1>1 DEF FollowInv, SubscribersFollow
<1>3. PICK s \in Seq(Deliveries) : s = pending[t] /\ s # <<>> /\ pending'[t] = Tail(s)
  BY <1>2 DEF fire, StateOK
<1>4. UNCHANGED <<products, callbacks, wildcard>>
  BY DEF fire
<1>5. Threads = {t}
  BY DEF OneThread
<1>6. ASSUME NEW p \in Products, NEW c \in Subscribers(p)'
      PROVE  AgreesNext(Coming(pending'[t], view'[c][p], c, p), p)
  <2>1. c \in Subscribers(p)
    BY <1>4, <1>6, SameSubscribers
  <2>2. PICK held : held = view[c][p]
    OBVIOUS
  <2>3. view'[c][p] = IF Head(s).callback = c /\ Head(s).prod = p THEN Head(s).copy ELSE held
    BY <1>2, <1>3, <2>1, <2>2, ViewAfter
  <2>4. Coming(s, held, c, p) = Coming(pending'[t], view'[c][p], c, p)
    BY <1>3, <2>3, ComingTail
  <2>5. Agrees(Coming(s, held, c, p), p)
    BY <1>2, <1>3, <2>1, <2>2, FollowIs
  <2>6. get_book(p)'.is_stale = get_book(p).is_stale
    BY <1>4 DEF get_book, Copy, NoCopy
  <2> QED BY <1>4, <2>4, <2>5, <2>6 DEF Agrees, AgreesNext
<1> QED BY <1>5, <1>6, FollowNext

LEMMA ResetFollows ==
  ASSUME OneThread, FollowInv, NEW t \in Threads, fire_reset(t), Handed(t),
         overtaken' = (overtaken \/ Len(pending[t]) > 1)
  PROVE  SubscribersFollow'
<1>1. SUFFICES ASSUME ~overtaken, ~(Len(pending[t]) > 1)
               PROVE  SubscribersAlwaysFollow'
  BY DEF SubscribersFollow
<1>2. StateOK /\ ViewOK /\ SubscribersAlwaysFollow
  BY <1>1 DEF FollowInv, SubscribersFollow
<1>3. PICK s \in Seq(Deliveries) : s = pending[t] /\ s # <<>>
  BY <1>2 DEF fire_reset, StateOK
<1>4. Tail(s) = <<>>
  <2>1. Tail(s) \in Seq(Deliveries) /\ Len(Tail(s)) = Len(s) - 1 /\ Len(s) \in Nat
    BY <1>3, HeadTailProperties, LenProperties
  <2>2. Len(s) \in Nat \ {0} /\ ~(Len(s) > 1)
    BY <1>1, <1>3, EmptySeq
  <2>3. Len(Tail(s)) = 0
    BY <2>1, <2>2
  <2> QED BY <2>1, <2>3, EmptySeq
<1>5. Owed(t) = <<>>
  BY <1>3, <1>4 DEF Owed
<1>6. PICK new : Notice(t, new)
  BY <1>2, FireResetNotice
<1>7. Threads = {t}
  BY DEF OneThread
<1>8. ASSUME NEW p \in Products, NEW c \in Subscribers(p)'
      PROVE  AgreesNext(Coming(pending'[t], view'[c][p], c, p), p)
  <2>1. c \in Subscribers(p)
    BY <1>6, <1>8, SameSubscribers DEF Notice
  <2>2. PICK held, next : held = view[c][p] /\ next = view'[c][p]
    OBVIOUS
  <2>3. next = IF Head(s).callback = c /\ Head(s).prod = p THEN Head(s).copy ELSE held
    BY <1>2, <1>3, <2>1, <2>2, ViewAfter
  <2>4. Coming(s, held, c, p) = Coming(Tail(s), next, c, p)
    BY <1>3, <2>3, ComingTail
  <2>5. Coming(Tail(s), next, c, p) = next
    BY <1>4 DEF Coming, Mine
  <2>6. Agrees(next, p)
    BY <1>2, <1>3, <2>1, <2>2, <2>4, <2>5, FollowIs
  <2>7. AgreesNext(Coming(pending'[t], next, c, p), p)
    BY <1>2, <1>5, <1>6, <2>1, <2>6, NoticeFollows
  <2> QED BY <2>2, <2>7
<1> QED BY <1>7, <1>8, FollowNext

LEMMA RegisterFollows ==
  ASSUME FollowInv, Register
  PROVE  SubscribersFollow'
<1>1. SUFFICES ASSUME ~overtaken
               PROVE  SubscribersAlwaysFollow'
  BY DEF SubscribersFollow, Register
<1>2. StateOK /\ StateOK' /\ ViewOK /\ SubscribersAlwaysFollow
  BY <1>1, RegistrationType DEF FollowInv, SubscribersFollow, Register
<1>3. /\ UNCHANGED <<products, pending>>
      /\ \A p \in Products : \A c \in Subscribers(p)' \ Subscribers(p) : IsNew(c)
  BY <1>2, RegistrationType DEF Register
<1>4. ASSUME NEW t \in Threads, NEW p \in Products, NEW c \in Subscribers(p)'
      PROVE  AgreesNext(Coming(pending'[t], view'[c][p], c, p), p)
  <2>1. c \in Callbacks
    <3>1. callbacks'[p] \in Seq(Callbacks) /\ wildcard' \in Seq(Callbacks)
      BY <1>2 DEF StateOK, TablesOK
    <3>2. (callbacks'[p] \o wildcard') \in Seq(Callbacks)
      BY <3>1, ConcatProperties
    <3>3. c \in ToSet(callbacks'[p] \o wildcard')
      BY <1>4 DEF Subscribers
    <3> QED BY <3>2, <3>3 DEF ToSet
  <2>2. view'[c][p] = NewView(c, p)
    BY <2>1 DEF Register
  <2>3. get_book(p)'.is_stale = get_book(p).is_stale
    BY <1>3 DEF get_book, Copy, NoCopy
  <2>4. CASE c \in Subscribers(p)
    <3>1. view'[c][p] = view[c][p]
      BY <1>4, <2>2, <2>4 DEF NewView
    <3>2. Agrees(Coming(pending[t], view[c][p], c, p), p)
      BY <1>2, <2>4, FollowIs
    <3> QED BY <1>3, <2>3, <3>1, <3>2 DEF Agrees, AgreesNext
  <2>5. CASE c \notin Subscribers(p)
    <3>1. Mine(pending[t], c, p) = {}
      BY <1>3, <1>4, <2>5 DEF IsNew, Mine
    <3>2. Coming(pending'[t], view'[c][p], c, p) = view'[c][p]
      BY <1>3, <3>1 DEF Coming
    <3>3. view'[c][p] = IF p \in DOMAIN products THEN NotTold ELSE NoCopy
      BY <1>4, <2>2, <2>5 DEF NewView
    <3>4. p \notin DOMAIN products => NoCopy.is_stale = get_book(p)'.is_stale /\ NoCopy.is_stale
      BY <2>3 DEF get_book, NoCopy
    <3> QED BY <3>2, <3>3, <3>4 DEF AgreesNext
  <2> QED BY <2>4, <2>5
<1> QED BY <1>4, FollowNext

\* With one feed thread, what every subscriber holds, or is about to be handed,
\* carries the flag and, when it can be trusted, the book that the manager has
\* (order_book.h:107-108, order_book_test.cc:666-667): for any number of products
\* and callbacks, that come and go, as long as no callback resets the manager
\* while others of the same event still wait.
THEOREM SubscribersKeepUp ==
  ASSUME OneThread
  PROVE  SystemSpec => []SubscribersFollow
<1>1. SystemInit => FollowInv
  <2> SUFFICES ASSUME SystemInit PROVE FollowInv
    OBVIOUS
  <2>1. StateOK
    BY InitState
  <2>2. ViewOK
    BY DEF SystemInit, ViewOK
  <2>3. SubscribersAlwaysFollow
    <3> SUFFICES ASSUME NEW t \in Threads, NEW p \in Products, NEW c \in Subscribers(p)
                 PROVE  Agrees(Coming(pending[t], view[c][p], c, p), p)
      BY FollowIs
    <3>1. c \in Callbacks
      BY <2>1, SubscribersOf DEF StateOK
    <3>2. pending[t] = <<>> /\ view[c][p] = NotTold
      BY <3>1 DEF SystemInit, Init, ManagerInit
    <3>3. Coming(pending[t], view[c][p], c, p) = NotTold
      BY <3>2 DEF Coming, Mine
    <3> QED BY <3>3 DEF Agrees
  <2> QED BY <2>1, <2>2, <2>3 DEF FollowInv, SubscribersFollow
<1>2. FollowInv /\ [SystemNext]_system => FollowInv'
  <2> SUFFICES ASSUME FollowInv, [SystemNext]_system
               PROVE  FollowInv'
    OBVIOUS
  <2>1. StateOK' /\ ViewOK'
    BY StepCases, ViewStep DEF FollowInv
  <2>2. ASSUME NEW t \in Threads, Invoke(t) PROVE SubscribersFollow'
    <3>1. Handed(t)
      BY <2>2 DEF Invoke, Handed
    <3> QED BY <2>2, <3>1, FireFollows, ResetFollows DEF Invoke
  <2>3. ASSUME UNCHANGED system PROVE SubscribersFollow'
    <3>1. UNCHANGED <<products, callbacks, wildcard, pending, view, overtaken>>
      BY <2>3 DEF system, manager
    <3>2. SUFFICES ASSUME ~overtaken
                   PROVE  SubscribersAlwaysFollow'
      BY <3>1 DEF SubscribersFollow
    <3>3. SubscribersAlwaysFollow
      BY <3>2 DEF FollowInv, SubscribersFollow
    <3>4. ASSUME NEW t \in Threads, NEW p \in Products, NEW c \in Subscribers(p)'
          PROVE  AgreesNext(Coming(pending'[t], view'[c][p], c, p), p)
      <4>1. c \in Subscribers(p)
        BY <3>1, <3>4, SameSubscribers
      <4>2. Agrees(Coming(pending[t], view[c][p], c, p), p)
        BY <3>3, <4>1, FollowIs
      <4>3. get_book(p)'.is_stale = get_book(p).is_stale
        BY <3>1 DEF get_book, Copy, NoCopy
      <4> QED BY <3>1, <4>2, <4>3 DEF Agrees, AgreesNext
    <3> QED BY <3>4, FollowNext
  <2>4. ASSUME Call, UNCHANGED <<view, overtaken>> PROVE SubscribersFollow'
    BY <2>4, CallFollows
  <2>5. ASSUME Register PROVE SubscribersFollow'
    BY <2>5, RegisterFollows
  <2>6. SubscribersFollow'
    BY <2>2, <2>3, <2>4, <2>5 DEF SystemNext
  <2> QED BY <2>1, <2>6 DEF FollowInv
<1>3. FollowInv => SubscribersFollow
  BY DEF FollowInv
<1> QED BY <1>1, <1>2, <1>3, PTL DEF SystemSpec
=============================================================================
