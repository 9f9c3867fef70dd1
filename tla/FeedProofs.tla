------------------------------ MODULE FeedProofs ------------------------------
(***************************************************************************)
(* A book that calls itself an unbroken chain is the exchange's book: the  *)
(* invariant IInv of Feed is inductive, for any number of products,        *)
(* threads, sessions and messages, and any depth and alphabet of quotes.   *)
(* With it, Feed implements BookService.                                   *)
(***************************************************************************)
EXTENDS Feed, OrderBookProofs

\* The exchange's book after one of its serials is a book.
LEMMA BookAtType ==
  ASSUME ExchangeOK, NEW s \in Sessions, NEW p \in Products
  PROVE  /\ Serial(s, p) \in Nat
         /\ \A k \in 0 .. Serial(s, p) : BookAt(s, p, k) \in Book
<1>1. hist[s][p] \in Seq(Book)
  BY DEF ExchangeOK
<1>2. EmptyBook \in Book
  BY DEF EmptyBook, Book, Ladder
<1>3. Serial(s, p) \in Nat
  BY <1>1 DEF Serial
<1>4. ASSUME NEW k \in 0 .. Serial(s, p) PROVE BookAt(s, p, k) \in Book
  <2>1. CASE k = 0
    BY <1>2, <2>1 DEF BookAt
  <2>2. CASE k # 0
    <3>1. k \in 1 .. Len(hist[s][p])
      BY <1>3, <2>2 DEF Serial
    <3> QED BY <1>1, <2>2, <3>1 DEF BookAt
  <2> QED BY <2>1, <2>2
<1> QED BY <1>3, <1>4
-----------------------------------------------------------------------------
(***************************************************************************)
(* The exchange only ever adds to what it knows                            *)
(***************************************************************************)
HistGrows ==
  /\ session <= session'
  /\ \A s \in Sessions, p \in Products :
       /\ Serial(s, p) <= Serial(s, p)'
       /\ \A k \in 0 .. Serial(s, p) : BookAt(s, p, k)' = BookAt(s, p, k)

\* What was genuine when it was sent still is.
LEMMA GenuineStable ==
  ASSUME ExchangeOK, ExchangeOK', HistGrows
  PROVE  GenuineCalls \subseteq GenuineCalls'
<1> SUFFICES ASSUME NEW m \in Calls, Genuine(m)
             PROVE  Genuine(m)'
  BY DEF GenuineCalls, Calls, HeaderCalls, ProductCalls, Sessions
<1>1. session \in Int /\ session' \in Int /\ m.session \in Sessions /\ m.session \in Int
  BY FeedAssumption DEF ExchangeOK, Sessions, Calls, HeaderCalls, ProductCalls
<1>2. m.session <= session'
  BY <1>1 DEF Genuine, HistGrows
<1>3. CASE m.call = "product"
  <2> DEFINE s == m.session
             p == m.prod
             k == m.seq
  <2>1. p \in Products /\ k \in Nat
    BY <1>3 DEF Calls, HeaderCalls, ProductCalls
  <2>2. Serial(s, p) \in Nat /\ Serial(s, p)' \in Nat
    <3>1. hist[s][p] \in Seq(Book) /\ hist'[s][p] \in Seq(Book)
      BY <1>1, <2>1 DEF ExchangeOK
    <3> QED BY <3>1 DEF Serial
  <2>3. k <= Serial(s, p)
    BY <1>3 DEF Genuine
  <2>4. Serial(s, p) <= Serial(s, p)'
    BY <1>1, <2>1 DEF HistGrows
  <2>5. k <= Serial(s, p)'
    BY <2>1, <2>2, <2>3, <2>4
  <2>6. BookAt(s, p, k)' = BookAt(s, p, k)
    BY <1>1, <2>1, <2>2, <2>3 DEF HistGrows
  <2>7. k > 0 => BookAt(s, p, k - 1)' = BookAt(s, p, k - 1)
    BY <1>1, <2>1, <2>2, <2>3 DEF HistGrows
  <2> QED BY <1>2, <1>3, <2>5, <2>6, <2>7 DEF Genuine
<1>4. CASE m.call # "product"
  BY <1>2, <1>4 DEF Genuine
<1> QED BY <1>3, <1>4

LEMMA SeqSeqMonotone ==
  ASSUME NEW S, NEW T, S \subseteq T
  PROVE  Seq(S) \subseteq Seq(T) /\ Seq(Seq(S)) \subseteq Seq(Seq(T))
<1>1. \A U, V : U \subseteq V => Seq(U) \subseteq Seq(V)
  OBVIOUS
<1> QED BY <1>1

\* What makes a step of the exchange one that keeps the invariant.
LEMMA ExchangeKeepsInv ==
  ASSUME IInv, ExchangeOK', HistGrows, UNCHANGED <<manager, network, job, history>>,
         sent' \in Seq(Seq(GenuineCalls'))
  PROVE  IInv'
<1> USE DEF IInv, TypeOK
<1>1. UNCHANGED <<products, channels, position, heard, behind, skipped, job, epoch, mixed,
                  base, outdated>>
  BY DEF manager, network, history
<1>2. TypeOK'
  <2>1. ManagerOK'
    BY <1>1 DEF ManagerOK
  <2>2. job' \in [Threads -> Seq(Calls)]
    BY <1>1
  <2> QED BY <1>1, <2>1, <2>2 DEF Calls, HeaderCalls, ProductCalls, Sessions
<1>3. GenuineCalls \subseteq GenuineCalls'
  BY GenuineStable
<1>4. job' \in [Threads -> Seq(GenuineCalls')]
  <2>1. \A S : S \subseteq GenuineCalls' => Seq(S) \subseteq Seq(GenuineCalls')
    OBVIOUS
  <2> QED BY <1>1, <1>3, <2>1 DEF AllGenuine
<1>5. epoch' <= session' /\ heard' <= session'
  <2>1. {epoch, heard, session, session'} \subseteq Int
    BY FeedAssumption DEF ExchangeOK, Sessions
  <2> QED BY <1>1, <2>1 DEF AllGenuine, HistGrows
<1>6. AllGenuine'
  BY <1>4, <1>5 DEF AllGenuine
<1>7. ZeroIsSynced'
  BY <1>1 DEF ZeroIsSynced
<1>8. FreshIsTrue'
  <2>1. SUFFICES ASSUME NEW p \in DOMAIN products \ mixed, products[p].synced
                 PROVE  /\ products[p].last <= Serial(epoch, p)'
                        /\ products[p].book = BookAt(epoch, p, products[p].last)'
    BY <1>1 DEF FreshIsTrue, Serial, BookAt
  <2>2. p \in Products /\ products[p].last \in Nat /\ epoch \in Sessions
    BY <2>1 DEF ManagerOK, ProductState
  <2>3. /\ products[p].last <= Serial(epoch, p)
        /\ products[p].book = BookAt(epoch, p, products[p].last)
    BY <2>1 DEF FreshIsTrue
  <2>4. Serial(epoch, p) \in Nat /\ Serial(epoch, p)' \in Nat
    <3>1. hist[epoch][p] \in Seq(Book) /\ hist'[epoch][p] \in Seq(Book)
      BY <2>2 DEF ExchangeOK
    <3> QED BY <1>1, <3>1 DEF Serial
  <2>5. Serial(epoch, p) <= Len(hist'[epoch][p])
    BY <2>2 DEF HistGrows, Serial
  <2>6. BookAt(epoch, p, products[p].last)' = BookAt(epoch, p, products[p].last)
    <3>1. products[p].last \in 0 .. Serial(epoch, p)
      BY <2>2, <2>3, <2>4
    <3>2. \A k \in 0 .. Serial(epoch, p) :
            (IF k = 0 THEN EmptyBook ELSE hist'[epoch][p][k]) = BookAt(epoch, p, k)
      BY <2>2 DEF HistGrows, BookAt
    <3> QED BY <1>1, <3>1, <3>2 DEF BookAt
  <2> QED BY <1>1, <2>2, <2>3, <2>4, <2>5, <2>6 DEF Serial
<1> QED BY <1>2, <1>6, <1>7, <1>8

\* Appending a datagram whose calls are genuine.
LEMMA AppendDatagram ==
  ASSUME NEW G, NEW old \in Seq(Seq(G)), NEW h \in G, NEW body \in Seq(G)
  PROVE  Append(old, process_raw_data(h, body)) \in Seq(Seq(G))
<1>1. process_raw_data(h, body) \in Seq(G)
  BY DEF process_raw_data
<1> QED BY <1>1

\* A product message of any kind, whose content fits the book it leaves.
LEMMA PublishKeepsInv ==
  ASSUME IInv, NEW kind \in ProductKinds, NEW p \in Products, NEW book \in Book,
         NEW entries \in Updates \cup Seq(SnapshotEntry), NEW trial \in BOOLEAN,
         Publish(kind, p, book, entries, trial),
         LET snap == kind = "I084" \/ (kind = "I083" /\ ~trial)
         IN  /\ snap => load_entries(entries) = book
             /\ ~snap => book = IF kind = "I081" THEN apply_entries(Current(p), entries)
                                ELSE Current(p)
  PROVE  IInv'
<1>1. ExchangeOK
  BY DEF IInv, TypeOK
<1>2. PICK s \in Sessions : s = session
  BY <1>1 DEF ExchangeOK
<1>3. hist[s][p] \in Seq(Book) /\ s \in Int /\ cseq \in Nat
  <2>1. hist \in [Sessions -> [Products -> Seq(Book)]] /\ cseq \in Nat
    BY <1>1 DEF ExchangeOK
  <2>2. s \in Int
    BY FeedAssumption DEF Sessions
  <2> QED BY <2>1, <2>2
<1>4. PICK k \in Nat \ {0} : k = Serial(s, p) + 1
  BY <1>3 DEF Serial
<1>5. PICK h \in Calls : h = HeaderCall(kind, s, Realtime, cseq + 1)
  <2>1. HeaderCall(kind, s, Realtime, cseq + 1) \in HeaderCalls
    BY <1>3 DEF HeaderCalls, HeaderCall
  <2> QED BY <2>1 DEF Calls
<1>6. PICK m \in Calls : m = ProductCall(kind, s, p, k, entries, trial)
  BY <1>2, <1>4 DEF Calls, ProductCalls, ProductCall
<1>7. PICK current : current = Current(p)
  OBVIOUS
<1>8. /\ hist' = [hist EXCEPT ![s][p] = Append(@, book)]
      /\ cseq' = cseq + 1
      /\ sent' = Append(sent, process_raw_data(h, <<m>>))
      /\ session' = s
      /\ UNCHANGED <<manager, network, job, history>>
  BY <1>2, <1>4, <1>5, <1>6 DEF Publish, Multicast
<1>9. hist' \in [Sessions -> [Products -> Seq(Book)]]
  <2>1. Append(hist[s][p], book) \in Seq(Book)
    BY <1>3
  <2>2. hist \in [Sessions -> [Products -> Seq(Book)]]
    BY <1>1 DEF ExchangeOK
  <2> QED BY <1>8, <2>1, <2>2
<1>10. \A r \in Sessions, o \in Products :
        hist'[r][o] = IF r = s /\ o = p THEN Append(hist[r][o], book) ELSE hist[r][o]
  BY <1>1, <1>8 DEF ExchangeOK
<1>11. HistGrows
  <2>1. ASSUME NEW r \in Sessions, NEW o \in Products
        PROVE  /\ Serial(r, o) <= Serial(r, o)'
               /\ \A n \in 0 .. Serial(r, o) : BookAt(r, o, n)' = BookAt(r, o, n)
    <3>1. hist[r][o] \in Seq(Book) /\ Len(hist[r][o]) \in Nat
      BY <1>1, <2>1 DEF ExchangeOK
    <3>2. hist'[r][o] = hist[r][o] \/ hist'[r][o] = Append(hist[r][o], book)
      BY <1>10, <2>1
    <3>3. /\ Len(hist[r][o]) <= Len(hist'[r][o])
          /\ \A n \in 1 .. Len(hist[r][o]) : hist'[r][o][n] = hist[r][o][n]
      BY <3>1, <3>2
    <3> QED BY <3>1, <3>3 DEF Serial, BookAt
  <2> QED BY <1>2, <1>3, <1>8, <2>1 DEF HistGrows
<1>12. Serial(s, p)' = k /\ BookAt(s, p, k)' = book
  <2>1. hist'[s][p] = Append(hist[s][p], book)
    BY <1>10
  <2>2. Len(hist'[s][p]) = k /\ hist'[s][p][k] = book
    BY <1>3, <1>4, <2>1 DEF Serial
  <2> QED BY <2>2 DEF Serial, BookAt
<1>13. BookAt(s, p, k - 1)' = current
  <2>1. k - 1 = Serial(s, p) /\ k - 1 \in 0 .. Serial(s, p)
    BY <1>3, <1>4 DEF Serial
  <2>2. BookAt(s, p, k - 1)' = BookAt(s, p, k - 1)
    BY <1>11, <2>1 DEF HistGrows
  <2> QED BY <1>2, <1>7, <2>1, <2>2 DEF Current
<1>14. Genuine(h)'
  BY <1>3, <1>5, <1>8 DEF Genuine, HeaderCall
<1>15. Genuine(m)'
  <2>1. /\ m.session = s /\ m.prod = p /\ m.seq = k /\ m.call = "product"
        /\ m.kind = kind /\ m.entries = entries /\ m.trial = trial
    BY <1>6 DEF ProductCall
  <2>2. IsSnapshot(m) <=> (kind = "I084" \/ (kind = "I083" /\ ~trial))
    BY <2>1 DEF IsSnapshot
  <2> QED BY <1>3, <1>4, <1>7, <1>8, <1>12, <1>13, <2>1, <2>2 DEF Genuine
<1>16. h \in GenuineCalls' /\ m \in GenuineCalls'
  BY <1>14, <1>15 DEF GenuineCalls, Calls, HeaderCalls, ProductCalls, Sessions
<1>17. ExchangeOK'
  <2>1. sent' \in Seq(Seq(Calls))
    <3>1. sent \in Seq(Seq(Calls)) /\ <<m>> \in Seq(Calls)
      BY <1>1 DEF ExchangeOK
    <3> QED BY <1>8, <3>1, AppendDatagram
  <2> QED BY <1>3, <1>8, <1>9, <2>1 DEF ExchangeOK, Sessions, Calls, HeaderCalls, ProductCalls
<1>18. sent' \in Seq(Seq(GenuineCalls'))
  <2>1. GenuineCalls \subseteq GenuineCalls'
    BY <1>1, <1>11, <1>17, GenuineStable
  <2>2. sent \in Seq(Seq(GenuineCalls))
    BY DEF IInv, AllGenuine
  <2>3. Seq(Seq(GenuineCalls)) \subseteq Seq(Seq(GenuineCalls'))
    BY <2>1, SeqSeqMonotone
  <2>4. sent \in Seq(Seq(GenuineCalls')) /\ <<m>> \in Seq(GenuineCalls')
    BY <1>16, <2>2, <2>3
  <2> QED BY <1>8, <1>16, <2>4, AppendDatagram
<1> QED BY <1>8, <1>11, <1>17, <1>18, ExchangeKeepsInv

\* A message without a product: another kind, a heartbeat, the I002 of a restart.
LEMMA AnnounceKeepsInv ==
  ASSUME IInv, NEW kind \in ProductKinds \cup {"I001", "I002", "I140"},
         NEW s \in Sessions, NEW seq \in Nat,
         session <= s, session' = s, cseq' \in Nat, UNCHANGED hist,
         sent' = Append(sent, process_raw_data(HeaderCall(kind, s, Realtime, seq), <<>>)),
         UNCHANGED <<manager, network, job, history>>
  PROVE  IInv'
<1>1. ExchangeOK /\ s \in Int
  BY FeedAssumption DEF IInv, TypeOK, Sessions
<1>2. PICK h \in Calls : h = HeaderCall(kind, s, Realtime, seq)
  <2>1. HeaderCall(kind, s, Realtime, seq) \in HeaderCalls
    BY DEF HeaderCalls, HeaderCall
  <2> QED BY <2>1 DEF Calls
<1>3. sent' = Append(sent, process_raw_data(h, <<>>))
  BY <1>2
<1>4. ASSUME NEW r \in Sessions, NEW p \in Products
      PROVE  Serial(r, p) \in Nat /\ Serial(r, p)' = Serial(r, p)
  <2>1. hist[r][p] \in Seq(Book)
    BY <1>1 DEF ExchangeOK
  <2> QED BY <2>1 DEF Serial
<1>5. HistGrows
  BY <1>4 DEF HistGrows, BookAt
<1>6. Genuine(h)'
  BY <1>1, <1>2 DEF Genuine, HeaderCall
<1>7. h \in GenuineCalls'
  BY <1>6 DEF GenuineCalls, Calls, HeaderCalls, ProductCalls, Sessions
<1>8. sent' \in Seq(Seq(Calls))
  <2>1. sent \in Seq(Seq(Calls)) /\ <<>> \in Seq(Calls)
    BY <1>1 DEF ExchangeOK
  <2> QED BY <1>3, <2>1, AppendDatagram
<1>9. ExchangeOK'
  BY <1>1, <1>8 DEF ExchangeOK, Sessions, Calls, HeaderCalls, ProductCalls
<1>10. sent' \in Seq(Seq(GenuineCalls'))
  <2>1. GenuineCalls \subseteq GenuineCalls'
    BY <1>1, <1>5, <1>9, GenuineStable
  <2>2. sent \in Seq(Seq(GenuineCalls)) /\ <<>> \in Seq(GenuineCalls')
    BY DEF IInv, AllGenuine
  <2>3. Seq(Seq(GenuineCalls)) \subseteq Seq(Seq(GenuineCalls'))
    BY <2>1, SeqSeqMonotone
  <2>4. sent \in Seq(Seq(GenuineCalls'))
    BY <2>2, <2>3
  <2> QED BY <1>3, <1>7, <2>2, <2>4, AppendDatagram
<1> QED BY <1>5, <1>9, <1>10, ExchangeKeepsInv

\* Every step of the exchange.
LEMMA ExchangeStep ==
  ASSUME IInv, Exchange
  PROVE  IInv'
<1>1. ExchangeOK /\ session \in Sessions /\ session \in Int /\ cseq \in Nat
  BY FeedAssumption DEF IInv, TypeOK, ExchangeOK, Sessions
<1>2. <<>> \in Updates \cup Seq(SnapshotEntry)
  OBVIOUS
<1>3. ASSUME NEW p \in Products PROVE Current(p) \in Book
  BY <1>1, BookAtType DEF Current
<1>4. ASSUME NEW book \in Reopenings
      PROVE  /\ book \in Book
             /\ entries_of(book) \in Updates \cup Seq(SnapshotEntry)
             /\ load_entries(entries_of(book)) = book
  BY <1>4, FeedAssumption, EntriesOfType, SnapshotRoundTrip
<1>5. ASSUME NEW p \in Products, SendTrade(p) PROVE IInv'
  <2>1. PICK kind \in {"I024", "I025"} : Publish(kind, p, Current(p), <<>>, FALSE)
    BY <1>5 DEF SendTrade
  <2>2. kind \in ProductKinds /\ kind # "I084" /\ kind # "I083" /\ kind # "I081"
    BY DEF ProductKinds
  <2>3. PICK book \in Book : book = Current(p)
    BY <1>3
  <2> QED BY <1>2, <2>1, <2>2, <2>3, PublishKeepsInv
<1>6. ASSUME NEW p \in Products, SendUpdate(p) PROVE IInv'
  <2>1. PICK entries \in Updates :
          Publish("I081", p, apply_entries(Current(p), entries), entries, FALSE)
    BY <1>6 DEF SendUpdate
  <2>2. IsEntries(entries)
    BY FeedAssumption
  <2>3. apply_entries(Current(p), entries) \in Book
    BY <1>3, <2>2, ApplyEntriesType
  <2>4. PICK book \in Book : book = apply_entries(Current(p), entries)
    BY <2>3
  <2>5. "I081" \in ProductKinds
    BY DEF ProductKinds
  <2> QED BY <2>1, <2>4, <2>5, PublishKeepsInv
<1>7. ASSUME NEW p \in Products, SendSnapshot(p) PROVE IInv'
  <2>1. PICK book \in Reopenings : Publish("I083", p, book, entries_of(book), FALSE)
    BY <1>7 DEF SendSnapshot
  <2>2. "I083" \in ProductKinds
    BY DEF ProductKinds
  <2> QED BY <1>4, <2>1, <2>2, PublishKeepsInv
<1>8. ASSUME NEW p \in Products, SendTrial(p) PROVE IInv'
  <2>1. PICK book \in Reopenings : Publish("I083", p, Current(p), entries_of(book), TRUE)
    BY <1>8 DEF SendTrial
  <2>2. PICK current \in Book : current = Current(p)
    BY <1>3
  <2>3. "I083" \in ProductKinds
    BY DEF ProductKinds
  <2> QED BY <1>4, <2>1, <2>2, <2>3, PublishKeepsInv
<1>9. CASE SendOther
  <2>1. PICK s \in Sessions, seq \in Nat : s = session /\ seq = cseq + 1
    BY <1>1
  <2>2. /\ session <= s /\ session' = s /\ cseq' \in Nat /\ UNCHANGED hist
        /\ sent' = Append(sent, process_raw_data(HeaderCall("I140", s, Realtime, seq), <<>>))
        /\ UNCHANGED <<manager, network, job, history>>
    BY <1>1, <1>9, <2>1 DEF SendOther, Multicast
  <2> QED BY <2>2, AnnounceKeepsInv
<1>10. CASE SendHeartbeat
  <2>1. PICK s \in Sessions, seq \in Nat : s = session /\ seq = cseq
    BY <1>1
  <2> QED BY <1>1, <1>10, <2>1, AnnounceKeepsInv DEF SendHeartbeat, Multicast
<1>11. CASE Restart
  <2>1. session + 1 \in Sessions /\ session <= session + 1
    BY <1>1, <1>11, FeedAssumption DEF Restart, Sessions
  <2>2. PICK s \in Sessions, seq \in Nat : s = session + 1 /\ seq = 0
    BY <2>1
  <2>3. /\ session <= s /\ session' = s /\ cseq' \in Nat /\ UNCHANGED hist
        /\ sent' = Append(sent, process_raw_data(HeaderCall("I002", s, Realtime, seq), <<>>))
        /\ UNCHANGED <<manager, network, job, history>>
    BY <1>11, <2>1, <2>2 DEF Restart
  <2> QED BY <2>3, AnnounceKeepsInv
<1> QED BY <1>5, <1>6, <1>7, <1>8, <1>9, <1>10, <1>11 DEF Exchange
-----------------------------------------------------------------------------
(***************************************************************************)
(* The receive loops and the calls                                         *)
(***************************************************************************)
\* A step of a receive thread that leaves the exchange and the manager alone.
LEMMA TakeKeepsInv ==
  ASSUME IInv, NEW t \in Threads, NEW calls \in Seq(GenuineCalls), Take(t, calls),
         position' \in Nat, heard' \in Sessions, heard' <= session, skipped' \in BOOLEAN,
         behind' \subseteq Products, UNCHANGED <<manager, exchange, history>>
  PROVE  IInv'
<1>1. UNCHANGED <<products, channels, session, hist, cseq, sent, epoch, mixed, base, outdated>>
  BY DEF manager, exchange, history
<1>2. Calls' = Calls /\ GenuineCalls' = GenuineCalls
  BY <1>1 DEF GenuineCalls, Calls, HeaderCalls, ProductCalls, Genuine, Serial, BookAt, Sessions
<1>3. calls \in Seq(Calls)
  BY DEF GenuineCalls
<1>4. job \in [Threads -> Seq(Calls)] /\ job \in [Threads -> Seq(GenuineCalls)]
  BY DEF IInv, TypeOK, AllGenuine
<1>5. job' \in [Threads -> Seq(Calls)] /\ job' \in [Threads -> Seq(GenuineCalls)]
  BY <1>3, <1>4 DEF Take
<1>6. TypeOK'
  <2>1. ManagerOK' /\ ExchangeOK'
    BY <1>1, <1>2 DEF IInv, TypeOK, ManagerOK, ExchangeOK, Sessions
  <2> QED BY <1>1, <1>2, <1>5, <2>1 DEF IInv, TypeOK, Sessions
<1>7. AllGenuine'
  BY <1>1, <1>2, <1>5 DEF IInv, AllGenuine
<1>8. ZeroIsSynced' /\ FreshIsTrue'
  BY <1>1 DEF IInv, ZeroIsSynced, FreshIsTrue, Serial, BookAt
<1> QED BY <1>6, <1>7, <1>8 DEF IInv

\* What a datagram of the carousel of session s may hold.
CarouselCalls(s) ==
  {m \in GenuineCalls :
     /\ m.kind = "I084" /\ m.session = s
     /\ m.call = "header" => m.channel = Carousel}

LEMMA CarouselTakes ==
  ASSUME IInv, ReceiveAnyCarousel
  PROVE  \E s \in Sessions : \E calls \in Seq(CarouselCalls(s)) :
           /\ heard <= s /\ s <= session /\ (ResetsArrive => s = heard)
           /\ calls # <<>> /\ Head(calls).call = "header"
           /\ Idle(CarouselThread) /\ Take(CarouselThread, calls) /\ heard' = s
           /\ behind' \subseteq Products
           /\ \A n \in DOMAIN calls :
                LET m == calls[n]
                IN  m.call = "product" /\ m.prod \notin behind' => ~BehindRealtime(s, m.prod, m.seq)
           /\ UNCHANGED <<position, skipped, manager, exchange, history>>
<1>1. ExchangeOK /\ heard \in Sessions /\ heard <= session
  BY DEF IInv, TypeOK, AllGenuine
<1>2. heard \in Int /\ session \in Sessions /\ session \in Int
  BY <1>1, FeedAssumption DEF ExchangeOK, Sessions
<1>3. PICK s \in heard .. (IF ResetsArrive THEN heard ELSE session), which \in SUBSET Products :
        \E of \in [which -> 0 .. MaxSent] :
          /\ \A p \in which : of[p] <= Serial(s, p) /\ of[p] + Delay >= Serial(s, p)
          /\ ReceiveCarousel(s, which, of)
  BY DEF ReceiveAnyCarousel
<1>4. PICK of \in [which -> 0 .. MaxSent] :
        /\ \A p \in which : of[p] <= Serial(s, p) /\ of[p] + Delay >= Serial(s, p)
        /\ ReceiveCarousel(s, which, of)
  BY <1>3
<1>5. s \in Sessions /\ heard <= s /\ s <= session /\ (ResetsArrive => s = heard)
  BY <1>1, <1>2, <1>3, FeedAssumption DEF Sessions
<1>6. PICK order \in SetToSeqs(which), seq \in CarouselSeqs :
        Take(CarouselThread, handle_i084(s, seq, order, of))
  BY <1>4 DEF ReceiveCarousel
<1>7. PICK n \in Nat : order \in [1 .. n -> which]
  <2>1. IsFiniteSet(which)
    BY FeedAssumption, FS_Subset
  <2> QED BY <2>1, FS_CardinalityType DEF SetToSeqs
<1> DEFINE block(i) == ProductCall("I084", s, order[i], of[order[i]],
                                   entries_of(BookAt(s, order[i], of[order[i]])), FALSE)
           body == [i \in DOMAIN order |-> block(i)]
           h == HeaderCall("I084", s, Carousel, seq)
<1>8. ASSUME NEW i \in 1 .. n PROVE block(i) \in CarouselCalls(s)
  <2>1. order[i] \in which /\ order[i] \in Products /\ of[order[i]] \in Nat
    BY <1>4, <1>7, FeedAssumption
  <2>2. PICK p \in Products, k \in Nat : p = order[i] /\ k = of[order[i]]
    BY <2>1
  <2>3. k <= Serial(s, p)
    BY <1>4, <2>1, <2>2
  <2>4. k \in 0 .. Serial(s, p) /\ BookAt(s, p, k) \in Book
    BY <1>1, <1>5, <2>3, BookAtType
  <2>5. /\ entries_of(BookAt(s, p, k)) \in Seq(SnapshotEntry)
        /\ load_entries(entries_of(BookAt(s, p, k))) = BookAt(s, p, k)
    BY <2>4, EntriesOfType, SnapshotRoundTrip
  <2>6. block(i) = ProductCall("I084", s, p, k, entries_of(BookAt(s, p, k)), FALSE)
    BY <2>2
  <2> HIDE DEF block
  <2>7. /\ block(i).call = "product" /\ block(i).kind = "I084" /\ block(i).session = s
        /\ block(i).prod = p /\ block(i).seq = k /\ block(i).trial = FALSE
        /\ block(i).entries = entries_of(BookAt(s, p, k))
    BY <2>6 DEF ProductCall
  <2>8. block(i) \in Calls
    BY <1>5, <2>5, <2>6 DEF Calls, ProductCalls, ProductCall, ProductKinds
  <2>9. Genuine(block(i))
    <3>1. IsSnapshot(block(i))
      BY <2>7 DEF IsSnapshot
    <3> QED BY <1>5, <2>3, <2>5, <2>7, <3>1 DEF Genuine
  <2> QED BY <2>3, <2>7, <2>8, <2>9 DEF GenuineCalls, CarouselCalls
<1>9. h \in CarouselCalls(s) /\ h.call = "header"
  <2>1. h \in HeaderCalls
    BY <1>5, <1>6, FeedAssumption DEF HeaderCalls, HeaderCall, ProductKinds
  <2>2. h.call = "header" /\ h.session = s /\ h.kind = "I084" /\ h.channel = Carousel
    BY DEF HeaderCall
  <2> QED BY <1>5, <2>1, <2>2 DEF GenuineCalls, CarouselCalls, Calls, Genuine
<1> HIDE DEF block, h
<1>10. body \in Seq(CarouselCalls(s))
  BY <1>7, <1>8
<1> HIDE DEF body
<1>11. /\ process_raw_data(h, body) \in Seq(CarouselCalls(s))
       /\ process_raw_data(h, body) # <<>> /\ Head(process_raw_data(h, body)) = h
  BY <1>9, <1>10 DEF process_raw_data
<1>12. Take(CarouselThread, process_raw_data(h, body))
  BY <1>6 DEF handle_i084, body, block, h
<1>13. /\ Idle(CarouselThread) /\ heard' = s
       /\ behind' = {p \in which : BehindRealtime(s, p, of[p])}
       /\ UNCHANGED <<position, skipped, manager, exchange, history>>
  BY <1>4 DEF ReceiveCarousel
<1>14. PICK calls \in Seq(CarouselCalls(s)) : calls = process_raw_data(h, body)
  BY <1>11
<1>15. ASSUME NEW j \in DOMAIN calls, calls[j].call = "product", calls[j].prod \notin behind'
       PROVE  ~BehindRealtime(s, calls[j].prod, calls[j].seq)
  <2>1. calls = <<h>> \o body /\ calls[1] = h /\ h.call = "header"
    BY <1>9, <1>10, <1>14 DEF process_raw_data
  <2>2. PICK i \in 1 .. n : calls[j] = block(i)
    <3>1. Len(body) = n /\ \A i \in 1 .. n : body[i] = block(i)
      BY <1>7, <1>10 DEF body
    <3>2. j \in 2 .. n + 1 /\ calls[j] = body[j - 1]
      BY <1>10, <1>15, <2>1, <3>1
    <3>3. j - 1 \in 1 .. n
      BY <3>2
    <3> QED BY <3>1, <3>2, <3>3
  <2>3. calls[j].prod = order[i] /\ calls[j].seq = of[order[i]] /\ order[i] \in which
    BY <1>7, <2>2 DEF block, ProductCall
  <2> QED BY <1>13, <1>15, <2>3
<1> QED BY <1>5, <1>9, <1>11, <1>12, <1>13, <1>14, <1>15

\* Whatever the network brings has been sent, or is the carousel's.
LEMMA NetworkStep ==
  ASSUME IInv, Network
  PROVE  IInv'
<1>1. /\ TypeOK /\ AllGenuine /\ ExchangeOK
      /\ RealtimeThread \in Threads /\ CarouselThread \in Threads
      /\ heard \in Int /\ session \in Int
  BY FeedAssumption DEF IInv, TypeOK, ExchangeOK, Sessions
<1>2. ASSUME NEW i \in DOMAIN sent, ReceiveRealtime(i) PROVE IInv'
  <2>1. sent[i] \in Seq(GenuineCalls)
    BY <1>1 DEF AllGenuine
  <2>2. i \in Nat /\ position' \in Nat
    BY <1>1, <1>2 DEF ReceiveRealtime, TypeOK, ExchangeOK
  <2>3. /\ heard' \in Sessions /\ heard' <= session /\ skipped' \in BOOLEAN
        /\ behind' \subseteq Products
    BY <1>1, <1>2 DEF ReceiveRealtime, TypeOK, AllGenuine
  <2>4. PICK calls \in Seq(GenuineCalls) : calls = sent[i]
    BY <2>1
  <2> QED BY <1>1, <1>2, <2>2, <2>3, <2>4, TakeKeepsInv DEF ReceiveRealtime
<1>3. ASSUME ReceiveAnyCarousel PROVE IInv'
  <2>1. PICK s \in Sessions : \E calls \in Seq(CarouselCalls(s)) :
          /\ s <= session /\ Take(CarouselThread, calls) /\ heard' = s
          /\ behind' \subseteq Products
          /\ UNCHANGED <<position, skipped, manager, exchange, history>>
    BY <1>3, CarouselTakes
  <2>2. PICK calls \in Seq(CarouselCalls(s)) : Take(CarouselThread, calls)
    BY <2>1
  <2>3. calls \in Seq(GenuineCalls)
    BY <2>2, SeqSeqMonotone DEF CarouselCalls
  <2>4. position' \in Nat /\ skipped' \in BOOLEAN
    BY <1>1, <2>1 DEF TypeOK
  <2> QED BY <1>1, <2>1, <2>2, <2>3, <2>4, TakeKeepsInv
<1>4. ASSUME NEW s \in 2 .. session, ReceiveCarouselReset(s) PROVE IInv'
  <2>1. s \in Sessions /\ s <= session
    BY <1>1, <1>4, FeedAssumption DEF TypeOK, ExchangeOK, Sessions
  <2> DEFINE h == HeaderCall("I002", s, Carousel, 0)
  <2>2. h \in GenuineCalls
    <3>1. h \in HeaderCalls
      BY <2>1 DEF HeaderCalls, HeaderCall
    <3>2. h.call = "header" /\ h.session = s
      BY DEF HeaderCall
    <3> QED BY <2>1, <3>1, <3>2 DEF GenuineCalls, Calls, Genuine
  <2>3. <<h>> \o <<>> \in Seq(GenuineCalls)
    BY <2>2
  <2>4. PICK calls \in Seq(GenuineCalls) : calls = process_raw_data(h, <<>>)
    BY <2>3 DEF process_raw_data
  <2>5. /\ Take(CarouselThread, calls)
        /\ heard' \in Sessions /\ heard' <= session /\ position' \in Nat /\ skipped' \in BOOLEAN
        /\ behind' \subseteq Products
        /\ UNCHANGED <<manager, exchange, history>>
    BY <1>1, <1>4, <2>1, <2>4 DEF ReceiveCarouselReset, TypeOK
  <2> QED BY <1>1, <2>5, TakeKeepsInv
<1> QED BY <1>2, <1>3, <1>4 DEF Network

\* What makes a step of the manager one that keeps the invariant: the calls it
\* leaves for later are some of those that were there.
LEMMA ManagerKeepsInv ==
  ASSUME IInv, job' \in [Threads -> Seq(GenuineCalls)], UNCHANGED <<exchange, network>>,
         ManagerOK', epoch' \in Sessions, epoch' <= session, mixed' \subseteq Products,
         outdated' \subseteq Products, base' \in Nat, ZeroIsSynced', FreshIsTrue'
  PROVE  IInv'
<1>1. UNCHANGED <<session, hist, cseq, sent, position, heard, behind, skipped>>
  BY DEF exchange, network
<1>2. Calls' = Calls /\ GenuineCalls' = GenuineCalls
  BY <1>1 DEF GenuineCalls, Calls, HeaderCalls, ProductCalls, Genuine, Serial, BookAt, Sessions
<1>3. Seq(GenuineCalls) \subseteq Seq(Calls)
  BY SeqSeqMonotone DEF GenuineCalls
<1>4. job' \in [Threads -> Seq(Calls)]
  BY <1>3
<1>5. TypeOK'
  <2>1. ExchangeOK'
    BY <1>1, <1>2 DEF IInv, TypeOK, ExchangeOK, Sessions
  <2> QED BY <1>1, <1>2, <1>4, <2>1 DEF IInv, TypeOK, Sessions
<1>6. AllGenuine'
  BY <1>1, <1>2 DEF IInv, AllGenuine
<1> QED BY <1>5, <1>6 DEF IInv

\* A thread's next call is genuine, and so are those after it.
LEMMA NextCall ==
  ASSUME IInv, NEW t \in Threads, job[t] # <<>>
  PROVE  /\ Head(job[t]) \in GenuineCalls
         /\ Take(t, Tail(job[t])) => job' \in [Threads -> Seq(GenuineCalls)]
<1>1. job \in [Threads -> Seq(GenuineCalls)]
  BY DEF IInv, AllGenuine
<1>2. job[t] \in Seq(GenuineCalls)
  BY <1>1
<1>3. Head(job[t]) \in GenuineCalls /\ Tail(job[t]) \in Seq(GenuineCalls)
  BY <1>2
<1> QED BY <1>1, <1>3 DEF Take

\* I002 and reset(): nothing is left to be wrong about.
LEMMA ClearKeepsBooks ==
  ASSUME NEW t, NEW owed, ClearAll(t, owed)
  PROVE  ManagerOK' /\ ZeroIsSynced' /\ FreshIsTrue'
<1>1. DOMAIN products' = {} /\ DOMAIN channels' = {}
  BY DEF ClearAll, NoProducts, NoChannels
<1> QED BY <1>1 DEF ManagerOK, ZeroIsSynced, FreshIsTrue

\* on_header keeps the invariant: a gap marks books suspect, and touches
\* neither their content nor their chain.
LEMMA CallHeaderStep ==
  ASSUME IInv, NEW t \in Threads, CallHeader(t)
  PROVE  IInv'
<1>1. job[t] # <<>> /\ Head(job[t]).call = "header"
  BY DEF CallHeader, HasCall
<1>2. PICK h \in GenuineCalls : h = Head(job[t])
  BY <1>1, NextCall
<1>3. /\ h \in HeaderCalls /\ h.session \in Sessions /\ h.session <= session
      /\ h.channel \in {Realtime, Carousel} /\ h.seq \in Nat
  BY <1>1, <1>2 DEF GenuineCalls, Calls, HeaderCalls, ProductCalls, Genuine
<1>4. /\ on_header(t, h)
      /\ job' \in [Threads -> Seq(GenuineCalls)]
      /\ UNCHANGED <<exchange, network>>
  BY <1>1, <1>2, NextCall DEF CallHeader
<1>5. CASE on_header_reset(t, h)
  <2>1. ManagerOK' /\ ZeroIsSynced' /\ FreshIsTrue'
    BY <1>5, ClearKeepsBooks DEF on_header_reset
  <2>2. epoch' = h.session /\ mixed' = {} /\ outdated' = {} /\ base' = 0
    <3>1. DOMAIN products' = {}
      BY <1>5 DEF on_header_reset, ClearAll, NoProducts
    <3> QED BY <1>2, <1>5, <3>1 DEF CallHeader, on_header_reset
  <2> QED BY <1>3, <1>4, <2>1, <2>2, ManagerKeepsInv
<1>6. CASE on_header_quiet(t, h) \/ on_header_gap(t, h)
  <2>1. TrackChannel(h) /\ h.kind # "I002"
    BY <1>6 DEF on_header_quiet, on_header_gap
  <2>2. ManagerOK
    BY DEF IInv, TypeOK
  <2>3. /\ DOMAIN channels' \subseteq {Realtime, Carousel}
        /\ \A c \in DOMAIN channels' : channels'[c] \in ChannelState
    <3>1. track_channel(h) \in ChannelState
      BY <1>3, <2>2 DEF track_channel, ManagerOK, ChannelState
    <3> QED BY <1>3, <2>1, <2>2, <3>1 DEF TrackChannel, ManagerOK
  <2>4. /\ DOMAIN products' = DOMAIN products
        /\ \A p \in DOMAIN products :
             /\ products'[p] \in ProductState
             /\ products'[p].book = products[p].book
             /\ products'[p].last = products[p].last
             /\ products'[p].synced = products[p].synced
    <3>1. CASE on_header_quiet(t, h)
      BY <2>2, <3>1 DEF on_header_quiet, ManagerOK
    <3>2. CASE on_header_gap(t, h)
      <4>1. products' = suspect_all
        BY <3>2 DEF on_header_gap
      <4> QED BY <2>2, <4>1 DEF suspect_all, ManagerOK, ProductState
    <3> QED BY <1>6, <3>1, <3>2
  <2>5. /\ UNCHANGED <<epoch, mixed, outdated>>
        /\ base' \in Nat
    <3>1. base \in Nat
      BY DEF IInv, TypeOK
    <3> QED BY <1>2, <1>3, <2>1, <3>1 DEF CallHeader
  <2>6. ManagerOK'
    BY <2>2, <2>3, <2>4 DEF ManagerOK
  <2>7. ZeroIsSynced'
    BY <2>4, <2>5 DEF IInv, ZeroIsSynced
  <2>8. hist' = hist
    BY <1>4 DEF exchange
  <2>9. FreshIsTrue'
    <3> SUFFICES ASSUME NEW p \in DOMAIN products' \ mixed', products'[p].synced
                 PROVE  /\ products'[p].last <= Serial(epoch, p)'
                        /\ products'[p].book = BookAt(epoch, p, products[p].last)'
      BY DEF FreshIsTrue, Serial, BookAt
    <3>1. p \in DOMAIN products \ mixed /\ products[p].synced
      BY <2>4, <2>5
    <3>2. /\ products[p].last <= Serial(epoch, p)
          /\ products[p].book = BookAt(epoch, p, products[p].last)
      BY <3>1 DEF IInv, FreshIsTrue
    <3> QED BY <2>4, <2>5, <2>8, <3>1, <3>2 DEF Serial, BookAt
  <2> QED BY <1>4, <2>5, <2>6, <2>7, <2>9, ManagerKeepsInv DEF IInv, TypeOK, AllGenuine
<1> QED BY <1>4, <1>5, <1>6 DEF on_header

\* A callback that throws drops calls, and makes none.
LEMMA ThrowStep ==
  ASSUME IInv, NEW t \in Threads, Throw(t)
  PROVE  IInv'
<1>1. UNCHANGED <<products, channels, epoch, mixed, base, outdated, hist>>
  BY DEF Throw, fire_throws, history, exchange
<1>2. job' \in [Threads -> Seq(GenuineCalls)]
  <2>1. job \in [Threads -> Seq(GenuineCalls)] /\ <<>> \in Seq(GenuineCalls)
    BY DEF IInv, AllGenuine
  <2> QED BY <2>1 DEF Throw, Take
<1>3. ManagerOK' /\ ZeroIsSynced' /\ FreshIsTrue'
  BY <1>1 DEF IInv, TypeOK, ManagerOK, ZeroIsSynced, FreshIsTrue, Serial, BookAt
<1>4. UNCHANGED <<exchange, network>>
  BY DEF Throw
<1> QED BY <1>1, <1>2, <1>3, <1>4, ManagerKeepsInv DEF IInv, TypeOK, AllGenuine

\* A callback that runs and a reset() of the application.
LEMMA FireAndResetStep ==
  ASSUME IInv, NEW t \in Threads, Fire(t) \/ Reset(t)
  PROVE  IInv'
<1>1. UNCHANGED <<exchange, network, job, epoch>>
  BY DEF Fire, Reset, history
<1>2. job' \in [Threads -> Seq(GenuineCalls)]
  BY <1>1 DEF IInv, AllGenuine
<1>3. CASE Fire(t)
  <2>1. UNCHANGED <<products, channels, mixed, base, outdated, hist>>
    BY <1>3 DEF Fire, fire, history, exchange
  <2>2. ManagerOK' /\ ZeroIsSynced' /\ FreshIsTrue'
    BY <1>1, <2>1 DEF IInv, TypeOK, ManagerOK, ZeroIsSynced, FreshIsTrue, Serial, BookAt
  <2> QED BY <1>1, <1>2, <2>1, <2>2, ManagerKeepsInv DEF IInv, TypeOK, AllGenuine
<1>4. CASE Reset(t)
  <2>1. ClearAll(t, <<>>) /\ mixed' = {} /\ outdated' = {} /\ base' = 0
    BY <1>4 DEF Reset, reset
  <2>2. ManagerOK' /\ ZeroIsSynced' /\ FreshIsTrue'
    BY <2>1, ClearKeepsBooks
  <2> QED BY <1>1, <1>2, <2>1, <2>2, ManagerKeepsInv DEF IInv, TypeOK, AllGenuine
<1> QED BY <1>3, <1>4
-----------------------------------------------------------------------------
(***************************************************************************)
(* The product messages                                                    *)
(***************************************************************************)
\* A product message is ignored, consumes a serial, applies its entries or
\* replaces the book.
LEMMA ProductCases ==
  ASSUME NEW t, NEW m, on_product(t, m)
  PROVE  LET old == get_or_create(m.prod)
             new == track_seq(old, m.seq)
         IN  \/ IsIgnored(m) /\ UNCHANGED <<products, channels>>
             \/ /\ ~IsIgnored(m) /\ UNCHANGED channels
                /\ \/ /\ ~IsSnapshot(m) /\ m.kind # "I081"
                      /\ products' = Stored(m.prod, new)
                   \/ /\ ~IsSnapshot(m) /\ m.kind = "I081"
                      /\ products' = Stored(m.prod,
                                       [new EXCEPT !.book = apply_entries(@, m.entries)])
                   \/ /\ IsSnapshot(m)
                      /\ products' = Stored(m.prod, adopt_snapshot(old, m.seq, m.entries))
<1> USE DEF Deliver
<1>1. ASSUME on_serial(t, m), ~IsSnapshot(m)
      PROVE  ~IsIgnored(m) /\ UNCHANGED channels
             /\ products' = Stored(m.prod, track_seq(get_or_create(m.prod), m.seq))
  BY <1>1 DEF on_serial, IsIgnored
<1>2. CASE on_i024(t, m)
  BY <1>1, <1>2 DEF on_i024, IsSnapshot
<1>3. CASE on_i025(t, m)
  BY <1>1, <1>3 DEF on_i025, IsSnapshot
<1>4. CASE on_i081(t, m)
  BY <1>4 DEF on_i081, IsSnapshot, IsIgnored
<1>5. CASE on_i083_trial(t, m)
  BY <1>1, <1>5 DEF on_i083_trial, IsSnapshot
<1>6. CASE on_i083(t, m)
  BY <1>6 DEF on_i083, IsSnapshot, IsIgnored, adopt
<1>7. CASE on_i084(t, m)
  BY <1>7 DEF on_i084, IsSnapshot, IsIgnored, adopt
<1>8. CASE on_ignored(t, m)
  BY <1>8 DEF on_ignored, manager
<1> QED BY <1>2, <1>3, <1>4, <1>5, <1>6, <1>7, <1>8 DEF on_product

\* A product message that is taken in leaves a state with its own serial, and
\* touches no other product.
LEMMA TakenIn ==
  ASSUME IInv, NEW t, NEW m \in ProductCalls, on_product(t, m), ~IsIgnored(m)
  PROVE  /\ DOMAIN products' = DOMAIN products \cup {m.prod}
         /\ products'[m.prod].last = m.seq
         /\ \A r \in DOMAIN products \ {m.prod} : products'[r] = products[r]
         /\ m.prod \in DOMAIN products => m.seq >= products[m.prod].last
<1>1. PICK p \in Products, k \in Nat : p = m.prod /\ k = m.seq
  BY DEF ProductCalls
<1>2. PICK old : old = get_or_create(p)
  OBVIOUS
<1>3. /\ old \in ProductState
      /\ p \in DOMAIN products => old = products[p]
  <2>1. NewProduct \in ProductState
    BY DEF NewProduct, ProductState, EmptyBook, Book, Ladder
  <2> QED BY <1>2, <2>1 DEF get_or_create, IInv, TypeOK, ManagerOK
<1>4. \/ products' = Stored(p, track_seq(old, k))
      \/ products' = Stored(p, [track_seq(old, k) EXCEPT !.book = apply_entries(@, m.entries)])
      \/ products' = Stored(p, adopt_snapshot(old, k, m.entries))
  BY <1>1, <1>2, ProductCases
<1>5. PICK st : products' = Stored(p, st) /\ st.last = k
  <2>1. track_seq(old, k).last = k
    BY <1>3 DEF track_seq, ProductState
  <2>2. [track_seq(old, k) EXCEPT !.book = apply_entries(@, m.entries)].last = k
    BY <1>3 DEF track_seq, ProductState
  <2>3. adopt_snapshot(old, k, m.entries).last = k
    BY <1>3 DEF adopt_snapshot, ProductState
  <2> QED BY <1>4, <2>1, <2>2, <2>3
<1>6. p \in DOMAIN products => k >= products[p].last
  BY <1>1, <1>2, <1>3 DEF IsIgnored, is_older, is_new, ProductState
<1> QED BY <1>1, <1>5, <1>6 DEF Stored

\* Taken in or ignored, the serial of the message is reached; no other product
\* is touched.
LEMMA SerialReached ==
  ASSUME IInv, NEW t, NEW m \in ProductCalls, on_product(t, m)
  PROVE  /\ DOMAIN products' = DOMAIN products \cup {m.prod}
         /\ m.seq <= products'[m.prod].last
         /\ m.prod \in DOMAIN products => products[m.prod].last <= products'[m.prod].last
         /\ \A r \in DOMAIN products \ {m.prod} : products'[r] = products[r]
<1>1. m.seq \in Nat /\ \A p \in DOMAIN products : products[p].last \in Nat
  BY DEF ProductCalls, IInv, TypeOK, ManagerOK, ProductState
<1>2. CASE IsIgnored(m)
  <2>1. UNCHANGED products
    BY <1>2, ProductCases
  <2>2. m.prod \in DOMAIN products
    BY <1>2 DEF IsIgnored, is_older, is_new, get_or_create, NewProduct
  <2>3. m.seq <= products[m.prod].last
    BY <1>1, <1>2, <2>2 DEF IsIgnored, is_older, is_new, get_or_create
  <2> QED BY <1>1, <2>1, <2>2, <2>3
<1>3. CASE ~IsIgnored(m)
  <2>1. /\ DOMAIN products' = DOMAIN products \cup {m.prod}
        /\ products'[m.prod].last = m.seq
        /\ \A r \in DOMAIN products \ {m.prod} : products'[r] = products[r]
        /\ m.prod \in DOMAIN products => m.seq >= products[m.prod].last
    BY <1>3, TakenIn
  <2> QED BY <1>1, <2>1
<1> QED BY <1>2, <1>3

\* The handlers of product messages keep the invariant: a chain is called
\* unbroken only by the message that follows the book it is applied to, by the
\* first one of all, or by a snapshot.
LEMMA CallProductStep ==
  ASSUME IInv, NEW t \in Threads, CallProduct(t)
  PROVE  IInv'
<1>1. job[t] # <<>> /\ Head(job[t]).call = "product"
  BY DEF CallProduct, HasCall
<1>2. PICK m \in GenuineCalls : m = Head(job[t])
  BY <1>1, NextCall
<1>3. m \in ProductCalls /\ m.call = "product" /\ Genuine(m)
  BY <1>1, <1>2 DEF GenuineCalls, Calls, HeaderCalls, ProductCalls
<1>4. PICK p \in Products : p = m.prod
  BY <1>3 DEF ProductCalls
<1>5. PICK k \in Nat : k = m.seq
  BY <1>3 DEF ProductCalls
<1>6. /\ on_product(t, m) /\ mixed' = MixedBy(m) /\ outdated' = OutdatedBy(m)
      /\ job' \in [Threads -> Seq(GenuineCalls)]
      /\ UNCHANGED <<exchange, network, epoch, base>>
  BY <1>1, <1>2, NextCall DEF CallProduct
<1>7. hist' = hist
  BY <1>6 DEF exchange
<1>8. ManagerOK /\ ExchangeOK /\ epoch \in Sessions /\ epoch <= session /\ base \in Nat
      /\ mixed \subseteq Products /\ outdated \subseteq Products
  BY DEF IInv, TypeOK, AllGenuine
<1>9. mixed' \subseteq Products /\ outdated' \subseteq Products
  BY <1>4, <1>6, <1>8 DEF MixedBy, OutdatedBy
<1>10. SUFFICES ManagerOK' /\ ZeroIsSynced' /\ FreshIsTrue'
  BY <1>6, <1>8, <1>9, ManagerKeepsInv
<1>11. CASE IsIgnored(m) /\ UNCHANGED <<products, channels>>
  <2>1. mixed' = mixed
    BY <1>6, <1>11 DEF MixedBy
  <2> QED BY <1>6, <1>7, <1>11, <2>1
          DEF IInv, TypeOK, ManagerOK, ZeroIsSynced, FreshIsTrue, Serial, BookAt
<1>12. CASE ~IsIgnored(m) /\ UNCHANGED channels
  <2>1. PICK old : old = get_or_create(p)
    OBVIOUS
  <2>2. /\ old \in ProductState
        /\ p \in DOMAIN products => old = products[p]
        /\ p \notin DOMAIN products => old = NewProduct
    <3>1. NewProduct \in ProductState
      BY DEF NewProduct, ProductState, EmptyBook, Book, Ladder
    <3> QED BY <1>8, <2>1, <3>1 DEF get_or_create, ManagerOK
  <2>3. PICK st : /\ products' = Stored(p, st)
                  /\ \/ ~IsSnapshot(m) /\ m.kind # "I081" /\ st = track_seq(old, k)
                     \/ /\ ~IsSnapshot(m) /\ m.kind = "I081"
                        /\ st = [track_seq(old, k) EXCEPT !.book = apply_entries(@, m.entries)]
                     \/ IsSnapshot(m) /\ st = adopt_snapshot(old, k, m.entries)
    <3> DEFINE applied == [track_seq(old, k) EXCEPT !.book = apply_entries(@, m.entries)]
               adopted == adopt_snapshot(old, k, m.entries)
    <3>1. \/ ~IsSnapshot(m) /\ m.kind # "I081" /\ products' = Stored(p, track_seq(old, k))
          \/ ~IsSnapshot(m) /\ m.kind = "I081" /\ products' = Stored(p, applied)
          \/ IsSnapshot(m) /\ products' = Stored(p, adopted)
      BY <1>4, <1>5, <1>6, <1>12, <2>1, ProductCases
    <3> QED BY <3>1
  <2>4. /\ m.session \in Sessions
        /\ k <= Serial(m.session, p)
        /\ IsSnapshot(m) => load_entries(m.entries) = BookAt(m.session, p, k)
        /\ ~IsSnapshot(m) =>
             /\ k > 0
             /\ BookAt(m.session, p, k) =
                  IF m.kind = "I081" THEN apply_entries(BookAt(m.session, p, k - 1), m.entries)
                  ELSE BookAt(m.session, p, k - 1)
    BY <1>3, <1>4, <1>5 DEF Genuine, ProductCalls
  <2>5. k \in 0 .. Serial(m.session, p) /\ BookAt(m.session, p, k) \in Book
    BY <1>5, <1>8, <2>4, BookAtType
  <2>6. IsEntries(m.entries)
    BY <1>3, FeedAssumption, SnapshotEntriesAreEntries DEF ProductCalls
  <2>7. track_seq(old, k) \in ProductState /\ track_seq(old, k).book = old.book
        /\ track_seq(old, k).last = k
        /\ track_seq(old, k).synced =
             IF old.last = 0 THEN k = 1 ELSE old.synced /\ k = old.last + 1
    BY <2>2 DEF track_seq, ProductState
  <2>8. st \in ProductState /\ st.last = k
    <3>1. ASSUME ~IsSnapshot(m), m.kind = "I081" PROVE st \in ProductState /\ st.last = k
      <4>1. apply_entries(old.book, m.entries) \in Book
        BY <2>2, <2>6, ApplyEntriesType DEF ProductState
      <4> QED BY <2>3, <2>7, <3>1, <4>1 DEF ProductState
    <3>2. ASSUME IsSnapshot(m) PROVE st \in ProductState /\ st.last = k
      <4>1. load_entries(m.entries) \in Book
        BY <2>4, <2>5, <3>2
      <4> QED BY <2>2, <2>3, <3>2, <4>1 DEF ProductState, adopt_snapshot
    <3> QED BY <2>3, <2>7, <3>1, <3>2
  <2>9. /\ DOMAIN products' = DOMAIN products \cup {p}
        /\ products'[p] = st
        /\ \A r \in DOMAIN products \ {p} : products'[r] = products[r]
    BY <2>3 DEF Stored
  <2>10. ManagerOK'
    BY <1>8, <1>12, <2>8, <2>9 DEF ManagerOK
  <2>11. \A r : r # p => (r \in mixed' <=> r \in mixed)
    BY <1>4, <1>6, <1>12 DEF MixedBy
  <2>12. ASSUME p \notin mixed'
         PROVE  m.session = epoch /\ (IsSnapshot(m) \/ p \notin mixed)
    BY <1>4, <1>6, <1>12, <2>12 DEF MixedBy
  <2>13. ZeroIsSynced'
    <3>1. ASSUME p \notin mixed', st.last = 0 PROVE st.synced
      <4>1. IsSnapshot(m)
        BY <2>4, <2>8, <3>1
      <4> QED BY <2>2, <2>3, <4>1 DEF adopt_snapshot, ProductState
    <3> QED BY <2>9, <2>11, <3>1 DEF IInv, ZeroIsSynced
  <2>14. ASSUME p \notin mixed', st.synced
         PROVE  st.last <= Serial(epoch, p) /\ st.book = BookAt(epoch, p, st.last)
    <3>1. m.session = epoch /\ st.last <= Serial(epoch, p)
      BY <2>4, <2>8, <2>12, <2>14
    <3>2. CASE IsSnapshot(m)
      BY <2>2, <2>3, <2>4, <2>8, <3>1, <3>2 DEF adopt_snapshot, ProductState
    <3>3. CASE ~IsSnapshot(m)
      <4>1. track_seq(old, k).synced
        BY <2>3, <2>7, <2>14, <3>3 DEF ProductState
      <4>2. old.book = BookAt(epoch, p, k - 1)
        <5>1. CASE p \notin DOMAIN products
          <6>1. old.last = 0 /\ old.book = EmptyBook
            BY <2>2, <5>1 DEF NewProduct
          <6>2. k = 1
            BY <2>7, <4>1, <6>1
          <6> QED BY <6>1, <6>2 DEF BookAt
        <5>2. CASE p \in DOMAIN products
          <6>1. p \in DOMAIN products \ mixed /\ old = products[p]
            BY <2>2, <2>12, <2>14, <3>3, <5>2
          <6>2. old.synced
            BY <2>7, <4>1, <6>1 DEF IInv, ZeroIsSynced
          <6>3. old.book = BookAt(epoch, p, old.last)
            BY <6>1, <6>2 DEF IInv, FreshIsTrue
          <6>4. k = old.last + 1
            BY <2>2, <2>7, <4>1 DEF ProductState
          <6>5. old.last = k - 1
            BY <2>2, <6>4 DEF ProductState
          <6> QED BY <6>3, <6>5
        <5> QED BY <5>1, <5>2
      <4>3. st.book = IF m.kind = "I081" THEN apply_entries(old.book, m.entries) ELSE old.book
        BY <2>3, <2>7, <3>3 DEF ProductState
      <4> QED BY <2>4, <2>8, <3>1, <3>3, <4>2, <4>3
    <3> QED BY <3>2, <3>3
  <2>15. FreshIsTrue'
    <3>1. SUFFICES ASSUME NEW r \in DOMAIN products' \ mixed', products'[r].synced
                   PROVE  /\ products'[r].last <= Len(hist[epoch][r])
                          /\ products'[r].book =
                               IF products'[r].last = 0 THEN EmptyBook
                               ELSE hist[epoch][r][products'[r].last]
      BY <1>6, <1>7 DEF FreshIsTrue, Serial, BookAt
    <3>2. CASE r = p
      BY <2>9, <2>14, <3>1, <3>2 DEF Serial, BookAt
    <3>3. CASE r # p
      BY <2>9, <2>11, <3>1, <3>3 DEF IInv, FreshIsTrue, Serial, BookAt
    <3> QED BY <3>2, <3>3
  <2> QED BY <2>10, <2>13, <2>15
<1> QED BY <1>6, <1>11, <1>12, ProductCases
-----------------------------------------------------------------------------
(***************************************************************************)
(* The theorems                                                            *)
(***************************************************************************)
LEMMA InitHasInv == Init => IInv
<1> SUFFICES ASSUME Init PROVE IInv
  OBVIOUS
<1>1. 1 \in Sessions
  BY FeedAssumption DEF Sessions
<1>2. DOMAIN products = {} /\ DOMAIN channels = {}
  BY DEF Init, ManagerInit, NoProducts, NoChannels
<1>3. TypeOK
  <2>1. ExchangeOK
    BY <1>1 DEF Init, ExchangeOK
  <2>2. ManagerOK
    BY <1>2 DEF ManagerOK
  <2>3. skipped \in BOOLEAN
    BY DEF Init
  <2> QED BY <1>1, <2>1, <2>2, <2>3 DEF Init, TypeOK
<1>4. AllGenuine
  BY <1>1 DEF Init, AllGenuine, Sessions
<1>5. ZeroIsSynced /\ FreshIsTrue
  BY <1>2 DEF ZeroIsSynced, FreshIsTrue
<1> QED BY <1>3, <1>4, <1>5 DEF IInv

LEMMA StepKeepsInv == IInv /\ [Next]_vars => IInv'
<1> SUFFICES ASSUME IInv, [Next]_vars PROVE IInv'
  OBVIOUS
<1>1. CASE Exchange
  BY <1>1, ExchangeStep
<1>2. CASE Network
  BY <1>2, NetworkStep
<1>3. ASSUME NEW t \in Threads, CallHeader(t) PROVE IInv'
  BY <1>3, CallHeaderStep
<1>4. ASSUME NEW t \in Threads, CallProduct(t) PROVE IInv'
  BY <1>4, CallProductStep
<1>5. ASSUME NEW t \in Threads, Fire(t) \/ Reset(t) PROVE IInv'
  BY <1>5, FireAndResetStep
<1>6. CASE UNCHANGED vars
  <2>1. UNCHANGED <<manager, exchange, network, job, history>>
    BY <1>6 DEF vars
  <2>2. UNCHANGED <<products, channels, job, epoch, mixed, outdated, base, hist, session>>
    BY <2>1 DEF manager, exchange, history
  <2>3. ManagerOK' /\ ZeroIsSynced' /\ FreshIsTrue'
    BY <2>2 DEF IInv, TypeOK, ManagerOK, ZeroIsSynced, FreshIsTrue, Serial, BookAt
  <2> QED BY <2>1, <2>2, <2>3, ManagerKeepsInv DEF IInv, TypeOK, AllGenuine
<1>7. ASSUME NEW t \in Threads, Throw(t) PROVE IInv'
  BY <1>7, ThrowStep
<1> QED BY <1>1, <1>2, <1>3, <1>4, <1>5, <1>6, <1>7 DEF Next, Thread

THEOREM InvariantHolds == Spec => []IInv
BY InitHasInv, StepKeepsInv, PTL DEF Spec

\* The state keeps its shape: in particular every call a receive thread holds
\* is one the parser can make.
THEOREM TypeCorrect == Spec => []TypeOK
<1>1. IInv => TypeOK
  BY DEF IInv
<1> QED BY <1>1, InvariantHolds, PTL

\* A book whose synced flag is set is the exchange's book after its serial,
\* for every number of products, threads, sessions, messages and levels.
THEOREM FreshBooksAreTrue == Spec => []FreshIsTrue
<1>1. IInv => FreshIsTrue
  BY DEF IInv
<1> QED BY <1>1, InvariantHolds, PTL
-----------------------------------------------------------------------------
(***************************************************************************)
(* Feed implements BookService: every step of the exchange, the network,   *)
(* the receive threads and the application is one of its steps, or none.   *)
(***************************************************************************)
\* The exchange adds a book to a product's history, or leaves all of them alone.
LEMMA ExchangeAdds ==
  ASSUME IInv, Exchange
  PROVE  /\ UNCHANGED <<manager, network, job, history>>
         /\ \/ UNCHANGED hist
            \/ \E p \in Products, book \in Book :
                 hist' = [hist EXCEPT ![session][p] = Append(@, book)]
<1>1. ExchangeOK /\ session \in Sessions
  BY DEF IInv, TypeOK, ExchangeOK
<1>2. ASSUME NEW p \in Products PROVE Current(p) \in Book
  BY <1>1, BookAtType, <1>1 DEF Current
<1>3. ASSUME NEW kind, NEW p \in Products, NEW book \in Book, NEW entries, NEW trial,
             Publish(kind, p, book, entries, trial)
      PROVE  /\ UNCHANGED <<manager, network, job, history>>
             /\ \E o \in Products, b \in Book : hist' = [hist EXCEPT ![session][o] = Append(@, b)]
  BY <1>3 DEF Publish
<1>4. ASSUME NEW p \in Products, SendTrade(p) \/ SendTrial(p)
      PROVE  \E kind, entries, trial : Publish(kind, p, Current(p), entries, trial)
  BY <1>4 DEF SendTrade, SendTrial
<1>5. ASSUME NEW p \in Products, SendUpdate(p)
      PROVE  \E kind, entries, trial, book : book \in Book /\ Publish(kind, p, book, entries, trial)
  <2>1. PICK entries \in Updates :
          Publish("I081", p, apply_entries(Current(p), entries), entries, FALSE)
    BY <1>5 DEF SendUpdate
  <2>2. apply_entries(Current(p), entries) \in Book
    BY <1>2, FeedAssumption, ApplyEntriesType
  <2> QED BY <2>1, <2>2
<1>6. ASSUME NEW p \in Products, SendSnapshot(p)
      PROVE  \E kind, entries, trial, book : book \in Book /\ Publish(kind, p, book, entries, trial)
  BY <1>6, FeedAssumption DEF SendSnapshot
<1>7. CASE SendOther \/ SendHeartbeat \/ Restart
  BY <1>7 DEF SendOther, SendHeartbeat, Restart
<1>8. CASE \E p \in Products : SendTrade(p) \/ SendUpdate(p) \/ SendSnapshot(p) \/ SendTrial(p)
  BY <1>2, <1>3, <1>4, <1>5, <1>6, <1>8
<1> QED BY <1>7, <1>8 DEF Exchange

\* BookService sees no more of the state than this.
LEMMA Unseen ==
  ASSUME UNCHANGED <<products, mixed, epoch>>, hist'[epoch] = hist[epoch]
  PROVE  UNCHANGED Service!vars
BY DEF Service!vars, Shown

LEMMA ExchangeServes ==
  ASSUME IInv, Exchange
  PROVE  [Service!Next]_(Service!vars)
<1>1. ExchangeOK /\ session \in Sessions /\ epoch \in Sessions
  BY DEF IInv, TypeOK, ExchangeOK
<1>2. UNCHANGED <<products, mixed, epoch>>
  BY ExchangeAdds DEF manager, history
<1>3. CASE hist'[epoch] = hist[epoch]
  BY <1>2, <1>3, Unseen
<1>4. CASE hist'[epoch] # hist[epoch]
  <2>1. PICK p \in Products, book \in Book :
          hist' = [hist EXCEPT ![session][p] = Append(@, book)]
    BY <1>4, ExchangeAdds
  <2>2. hist \in [Sessions -> [Products -> Seq(Book)]]
    BY <1>1 DEF ExchangeOK
  <2>3. session = epoch
    BY <1>1, <1>4, <2>1, <2>2
  <2>4. hist'[epoch] = [hist[epoch] EXCEPT ![p] = Append(@, book)]
    BY <1>1, <2>1, <2>2, <2>3
  <2>5. Shown' = Shown
    BY <1>2 DEF Shown
  <2>6. Service!Extend(p)
    BY <1>2, <2>4, <2>5 DEF Service!Extend
  <2> QED BY <2>6 DEF Service!Next
<1> QED BY <1>3, <1>4

LEMMA ClearServes ==
  ASSUME IInv', DOMAIN products' = {}
  PROVE  Service!Next
<1>1. hist'[epoch'] \in [Products -> Seq(Book)]
  BY DEF IInv, TypeOK, ExchangeOK
<1>2. Shown' = [p \in {} |-> 0]
  BY DEF Shown
<1>3. Service!Clear
  BY <1>1, <1>2 DEF Service!Clear
<1> QED BY <1>3 DEF Service!Next

LEMMA CallHeaderServes ==
  ASSUME IInv, IInv', NEW t \in Threads, CallHeader(t)
  PROVE  [Service!Next]_(Service!vars)
<1>1. PICK h : h = Head(job[t])
  OBVIOUS
<1>2. on_header(t, h) /\ hist' = hist
  BY <1>1 DEF CallHeader, exchange
<1>3. CASE on_header_reset(t, h)
  <2>1. DOMAIN products' = {}
    BY <1>3 DEF on_header_reset, ClearAll, NoProducts
  <2> QED BY <2>1, ClearServes
<1>4. ASSUME h.kind # "I002" PROVE UNCHANGED <<mixed, epoch>>
  BY <1>1, <1>4 DEF CallHeader
<1>5. CASE on_header_quiet(t, h)
  BY <1>2, <1>4, <1>5, Unseen DEF on_header_quiet
<1>6. CASE on_header_gap(t, h)
  <2>1. UNCHANGED <<mixed, epoch>> /\ products' = suspect_all
    BY <1>4, <1>6 DEF on_header_gap
  <2>2. \A p \in DOMAIN products : products[p] \in ProductState
    BY DEF IInv, TypeOK, ManagerOK
  <2>3. /\ DOMAIN products' = DOMAIN products
        /\ \A p \in DOMAIN products :
             /\ products'[p].last = products[p].last
             /\ products'[p].book = products[p].book
             /\ products'[p].synced = products[p].synced
             /\ products'[p].suspect = (products[p].synced \/ products[p].suspect)
    BY <2>1, <2>2 DEF suspect_all, ProductState
  <2>4. \A p \in DOMAIN products : is_stale(products'[p])
    BY <2>2, <2>3 DEF is_stale, ProductState
  <2>5. DOMAIN Shown = DOMAIN products \ mixed
    BY DEF Shown
  <2>6. Shown' = [p \in DOMAIN Shown |-> [Shown[p] EXCEPT !.trusted = @ /\ p \notin DOMAIN Shown]]
    BY <2>1, <2>3, <2>4, <2>5 DEF Shown
  <2>7. Service!Distrust
    BY <1>2, <2>1, <2>6 DEF Service!Distrust
  <2> QED BY <2>7 DEF Service!Next
<1> QED BY <1>2, <1>3, <1>5, <1>6 DEF on_header

LEMMA CallProductServes ==
  ASSUME IInv, IInv', NEW t \in Threads, CallProduct(t)
  PROVE  [Service!Next]_(Service!vars)
<1>1. job[t] # <<>> /\ Head(job[t]).call = "product"
  BY DEF CallProduct, HasCall
<1>2. PICK m \in GenuineCalls : m = Head(job[t])
  BY <1>1, NextCall
<1>3. m \in ProductCalls /\ m.call = "product" /\ Genuine(m)
  BY <1>1, <1>2 DEF GenuineCalls, Calls, HeaderCalls, ProductCalls
<1>4. PICK p \in Products, k \in Nat : p = m.prod /\ k = m.seq
  BY <1>3 DEF ProductCalls
<1>5. on_product(t, m) /\ mixed' = MixedBy(m) /\ UNCHANGED <<hist, epoch>>
  BY <1>2 DEF CallProduct, exchange
<1>6. CASE IsIgnored(m)
  <2>1. UNCHANGED products
    BY <1>5, <1>6, ProductCases
  <2> QED BY <1>5, <1>6, <2>1, Unseen DEF MixedBy
<1>7. CASE ~IsIgnored(m)
  <2>1. /\ DOMAIN products' = DOMAIN products \cup {p}
        /\ products'[p].last = k
        /\ \A r \in DOMAIN products \ {p} : products'[r] = products[r]
        /\ p \in DOMAIN products => k >= products[p].last
    BY <1>3, <1>4, <1>5, <1>7, TakenIn
  <2>2. \A r : r # p => (r \in mixed' <=> r \in mixed)
    BY <1>4, <1>5, <1>7 DEF MixedBy
  <2>3. CASE p \in mixed'
    <3>1. Shown' = [r \in DOMAIN Shown \ {p} |-> Shown[r]]
      BY <2>1, <2>2, <2>3 DEF Shown
    <3>2. Service!Withdraw(p)
      BY <1>5, <3>1 DEF Service!Withdraw
    <3> QED BY <3>2 DEF Service!Next
  <2>4. CASE p \notin mixed'
    <3>1. m.session = epoch
      BY <1>4, <1>5, <1>7, <2>4 DEF MixedBy
    <3>2. k \in 0 .. Len(hist[epoch][p])
      <4>1. hist[epoch][p] \in Seq(Book)
        BY DEF IInv, TypeOK, ExchangeOK
      <4>2. k <= Len(hist[epoch][p])
        BY <1>3, <1>4, <3>1 DEF Genuine, Serial
      <4> QED BY <4>1, <4>2
    <3>3. products'[p] \in ProductState
      BY <2>1 DEF IInv, TypeOK, ManagerOK
    <3> DEFINE trusted == ~is_stale(products'[p])
    <3>4. trusted \in BOOLEAN /\ products'[p].book \in Book
      BY <3>3 DEF ProductState
    <3>5. trusted => products'[p].book = Service!TrueBook(p, k)
      <4>1. ASSUME trusted PROVE products'[p].synced
        BY <3>3, <4>1 DEF is_stale, ProductState
      <4>2. ASSUME products'[p].synced
            PROVE  products'[p].book = IF k = 0 THEN EmptyBook ELSE hist[epoch][p][k]
        BY <1>5, <2>1, <2>4, <4>2 DEF IInv, FreshIsTrue, BookAt
      <4> QED BY <4>1, <4>2 DEF Service!TrueBook
    <3>6. p \in DOMAIN Shown => k >= Shown[p].serial
      BY <2>1 DEF Shown
    <3>7. Shown' = [r \in DOMAIN Shown \cup {p} |->
                      IF r = p THEN [serial |-> k, trusted |-> trusted,
                                     book |-> products'[p].book]
                      ELSE Shown[r]]
      BY <2>1, <2>2, <2>4 DEF Shown
    <3> HIDE DEF trusted
    <3>8. Service!Show(p)
      BY <1>5, <3>2, <3>4, <3>5, <3>6, <3>7 DEF Service!Show
    <3> QED BY <3>8 DEF Service!Next
  <2> QED BY <2>3, <2>4
<1> QED BY <1>6, <1>7

LEMMA StepServes == IInv /\ IInv' /\ [Next]_vars => [Service!Next]_(Service!vars)
<1> SUFFICES ASSUME IInv, IInv', [Next]_vars PROVE [Service!Next]_(Service!vars)
  OBVIOUS
<1>1. ASSUME UNCHANGED <<products, mixed, epoch, hist>>
      PROVE  [Service!Next]_(Service!vars)
  BY <1>1, Unseen
<1>2. CASE Exchange
  BY <1>2, ExchangeServes
<1>3. CASE Network
  <2>1. UNCHANGED <<manager, exchange, history>>
    BY <1>3 DEF Network, ReceiveRealtime, ReceiveAnyCarousel, ReceiveCarousel,
                ReceiveCarouselReset
  <2> QED BY <1>1, <2>1 DEF manager, exchange, history
<1>4. ASSUME NEW t \in Threads, CallHeader(t) PROVE [Service!Next]_(Service!vars)
  BY <1>4, CallHeaderServes
<1>5. ASSUME NEW t \in Threads, CallProduct(t) PROVE [Service!Next]_(Service!vars)
  BY <1>5, CallProductServes
<1>6. ASSUME NEW t \in Threads, Fire(t) \/ Throw(t) PROVE [Service!Next]_(Service!vars)
  BY <1>1, <1>6 DEF Fire, fire, Throw, fire_throws, exchange, history
<1>7. ASSUME NEW t \in Threads, Reset(t) PROVE [Service!Next]_(Service!vars)
  <2>1. DOMAIN products' = {}
    BY <1>7 DEF Reset, reset, ClearAll, NoProducts
  <2> QED BY <2>1, ClearServes
<1>8. CASE UNCHANGED vars
  BY <1>1, <1>8 DEF vars, manager, exchange, history
<1> QED BY <1>2, <1>3, <1>4, <1>5, <1>6, <1>7, <1>8 DEF Next, Thread

\* The manager, driven by the whole feed, implements the service it promises:
\* whatever the threads, the network and the exchange do, a book it trusts is
\* the exchange's, and the serial it shows never goes back.
THEOREM FeedImplementsService == Spec => ImplementsService
<1>1. Init => Service!Init
  <2> SUFFICES ASSUME Init PROVE Service!Init
    OBVIOUS
  <2>1. hist[epoch] = [p \in Products |-> <<>>]
    BY FeedAssumption DEF Init, Sessions
  <2>2. Shown = [p \in {} |-> 0]
    BY DEF Init, ManagerInit, NoProducts, Shown
  <2> QED BY <2>1, <2>2 DEF Service!Init
<1> QED BY <1>1, StepServes, InvariantHolds, PTL DEF Spec, ImplementsService, Service!Spec
=============================================================================
