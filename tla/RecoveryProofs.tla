---------------------------- MODULE RecoveryProofs ----------------------------
(***************************************************************************)
(* What the order of the realtime group gives a reader who takes it in     *)
(* that order: the books of two sessions do not stay mixed once both I002s *)
(* were read, no book turns stale while nothing is lost, and with a single *)
(* reader no fresh book misses a message the channel tracker saw go by.    *)
(***************************************************************************)
EXTENDS FeedProofs, SequenceTheorems

(***************************************************************************)
(* The realtime group                                                      *)
(***************************************************************************)
\* The session of the realtime group after its first i messages.
SessionAt(i) == IF i = 0 THEN 1 ELSE sent[i][1].session

\* A datagram of the realtime group: a header, and maybe one product message.
IsDatagram(d, s) ==
  /\ Len(d) \in {1, 2}
  /\ d[1].call = "header" /\ d[1].channel = Realtime /\ d[1].session = s
  /\ d[1].kind # "I084"
  /\ Len(d) = 2 =>
       /\ d[1].kind \notin {"I001", "I002"}
       /\ d[2].call = "product" /\ d[2].session = s /\ d[2].kind # "I084"

\* Sessions follow each other, and each but the first begins with its I002.
SessionsInOrder ==
  /\ session = SessionAt(Len(sent))
  /\ \A i \in DOMAIN sent : IsDatagram(sent[i], SessionAt(i))
  /\ \A i, j \in 0 .. Len(sent) :
       i <= j => SessionAt(i) = SessionAt(j) \/ \E k \in i + 1 .. j : IsReset(sent[k])

\* CHANNEL-SEQ after the first i messages of the first session.
SeqAt(i) == IF i = 0 THEN 0 ELSE sent[i][1].seq

IsOf(i, p) == Len(sent[i]) = 2 /\ sent[i][2].prod = p

\* Every message but a heartbeat takes the next CHANNEL-SEQ,
ChannelSequence ==
  /\ cseq = SeqAt(Len(sent))
  /\ \A i \in DOMAIN sent :
       /\ sent[i][1].kind # "I002"
       /\ SeqAt(i) = SeqAt(i - 1) + (IF sent[i][1].kind = "I001" THEN 0 ELSE 1)
  /\ \A i, j \in 0 .. Len(sent) : i <= j => SeqAt(i) <= SeqAt(j)

\* and every product message the next serial of its product.
ProductSequence ==
  /\ \A i, j \in DOMAIN sent, p \in Products :
       IsOf(i, p) /\ IsOf(j, p) /\ i < j => sent[i][2].seq < sent[j][2].seq
  /\ \A p \in Products : \A k \in 1 .. Serial(1, p) :
       \E i \in DOMAIN sent : IsOf(i, p) /\ sent[i][2].seq = k

\* That is so in the first session, before an I002 that may set both back.
SequencesInOrder == session = 1 => ChannelSequence /\ ProductSequence

\* The datagram of a step of the exchange.
Sends(d) ==
  /\ sent' = Append(sent, d)
  /\ d \in Seq(Calls)
  /\ IsDatagram(d, session')
  /\ UNCHANGED <<manager, network, job, history>>

SendsMessage(d, p) ==
  /\ Len(d) = 2 /\ d[1].kind \notin {"I001", "I002"}
  /\ d[1].seq = cseq + 1 /\ cseq' = cseq + 1
  /\ d[2].prod = p /\ d[2].seq = Serial(session, p) + 1
  /\ Serial(session, p)' = Serial(session, p) + 1
  /\ \A o \in Products \ {p} : Serial(session, o)' = Serial(session, o)
  /\ session' = session

SendsNoProduct(d) ==
  /\ Len(d) = 1 /\ d[1].kind # "I002" /\ d[1].seq = cseq'
  /\ cseq' = cseq + (IF d[1].kind = "I001" THEN 0 ELSE 1)
  /\ UNCHANGED <<hist, session>>

SendsReset(d) == Len(d) = 1 /\ d[1].kind = "I002" /\ session' = session + 1

LEMMA PublishSends ==
  ASSUME IInv, NEW kind \in ProductKinds, kind # "I084", NEW p \in Products, NEW book,
         NEW entries \in Updates \cup Seq(SnapshotEntry), NEW trial \in BOOLEAN,
         Publish(kind, p, book, entries, trial)
  PROVE  \E d : Sends(d) /\ SendsMessage(d, p)
<1>1. session \in Sessions /\ cseq \in Nat /\ hist \in [Sessions -> [Products -> Seq(Book)]]
  BY DEF IInv, TypeOK, ExchangeOK
<1>2. PICK k \in Nat : k = Serial(session, p) /\ hist[session][p] \in Seq(Book)
  BY <1>1 DEF Serial
<1>3. PICK h : h = HeaderCall(kind, session, Realtime, cseq + 1)
  OBVIOUS
<1>4. PICK m : m = ProductCall(kind, session, p, k + 1, entries, trial)
  OBVIOUS
<1>5. h \in Calls /\ m \in Calls
  BY <1>1, <1>2, <1>3, <1>4
     DEF Calls, HeaderCalls, ProductCalls, HeaderCall, ProductCall, ProductKinds
<1>6. PICK d : d = process_raw_data(h, <<m>>)
  OBVIOUS
<1>7. sent' = Append(sent, d)
  BY <1>2, <1>3, <1>4, <1>6 DEF Publish, Multicast
<1>8. /\ session' = session /\ cseq' = cseq + 1
      /\ hist' = [hist EXCEPT ![session][p] = Append(@, book)]
      /\ UNCHANGED <<manager, network, job, history>>
  BY DEF Publish
<1>9. /\ d \in Seq(Calls) /\ Len(d) = 2 /\ d[1] = h /\ d[2] = m
  BY <1>5, <1>6 DEF process_raw_data
<1>10. /\ h.call = "header" /\ h.kind = kind /\ h.session = session /\ h.channel = Realtime
       /\ h.seq = cseq + 1
       /\ m.call = "product" /\ m.kind = kind /\ m.session = session /\ m.prod = p
       /\ m.seq = k + 1
  BY <1>3, <1>4 DEF HeaderCall, ProductCall
<1>11. kind \notin {"I001", "I002"}
  BY DEF ProductKinds
<1>12. Sends(d)
  BY <1>7, <1>8, <1>9, <1>10, <1>11 DEF Sends, IsDatagram
<1>13. /\ hist'[session][p] = Append(hist[session][p], book)
       /\ \A o \in Products \ {p} : hist'[session][o] = hist[session][o]
  BY <1>1, <1>8
<1>14. Len(hist'[session][p]) = k + 1
  BY <1>2, <1>13 DEF Serial
<1>15. SendsMessage(d, p)
  BY <1>2, <1>8, <1>9, <1>10, <1>11, <1>13, <1>14 DEF SendsMessage, Serial
<1> QED BY <1>12, <1>15

LEMMA AnnounceSends ==
  ASSUME NEW kind \in {"I001", "I002", "I140"}, NEW s \in Sessions, NEW seq \in Nat,
         session' = s,
         sent' = Append(sent, process_raw_data(HeaderCall(kind, s, Realtime, seq), <<>>)),
         UNCHANGED <<manager, network, job, history>>
  PROVE  \E d : Sends(d) /\ Len(d) = 1 /\ d[1].kind = kind /\ d[1].seq = seq
<1>1. PICK h : h = HeaderCall(kind, s, Realtime, seq)
  OBVIOUS
<1>2. /\ h.call = "header" /\ h.kind = kind /\ h.session = s /\ h.channel = Realtime
      /\ h.seq = seq
  BY <1>1 DEF HeaderCall
<1>3. h \in Calls
  BY <1>1 DEF Calls, HeaderCalls, HeaderCall
<1>4. PICK d : d = <<h>>
  OBVIOUS
<1>5. d \in Seq(Calls) /\ Len(d) = 1 /\ d[1] = h /\ sent' = Append(sent, d)
  BY <1>1, <1>3, <1>4 DEF process_raw_data
<1> QED BY <1>2, <1>5 DEF Sends, IsDatagram

\* Every step of the exchange sends one datagram.
LEMMA ExchangeSends ==
  ASSUME IInv, Exchange
  PROVE  \E d : /\ Sends(d)
                /\ SendsNoProduct(d) \/ SendsReset(d) \/ \E p \in Products : SendsMessage(d, p)
<1>1. session \in Sessions /\ session \in Int /\ cseq \in Nat
  BY FeedAssumption DEF IInv, TypeOK, ExchangeOK, Sessions
<1>2. <<>> \in Updates \cup Seq(SnapshotEntry)
  OBVIOUS
<1>3. \A book \in Reopenings : entries_of(book) \in Updates \cup Seq(SnapshotEntry)
  BY FeedAssumption, EntriesOfType
<1> USE DEF ProductKinds
<1>4. ASSUME NEW p \in Products, SendTrade(p) PROVE \E d : Sends(d) /\ SendsMessage(d, p)
  <2>1. PICK kind \in {"I024", "I025"} : Publish(kind, p, Current(p), <<>>, FALSE)
    BY <1>4 DEF SendTrade
  <2>2. kind \in ProductKinds /\ kind # "I084"
    OBVIOUS
  <2> QED BY <1>2, <2>1, <2>2, PublishSends
<1>5. ASSUME NEW p \in Products, SendUpdate(p) PROVE \E d : Sends(d) /\ SendsMessage(d, p)
  <2>1. PICK entries \in Updates :
          Publish("I081", p, apply_entries(Current(p), entries), entries, FALSE)
    BY <1>5 DEF SendUpdate
  <2>2. PICK kind \in ProductKinds : kind = "I081" /\ kind # "I084"
    OBVIOUS
  <2> QED BY <2>1, <2>2, PublishSends
<1>6. ASSUME NEW p \in Products, SendSnapshot(p) \/ SendTrial(p)
      PROVE  \E d : Sends(d) /\ SendsMessage(d, p)
  <2>1. PICK kind \in ProductKinds : kind = "I083" /\ kind # "I084"
    OBVIOUS
  <2>2. CASE SendSnapshot(p)
    <3>1. PICK book \in Reopenings : Publish("I083", p, book, entries_of(book), FALSE)
      BY <2>2 DEF SendSnapshot
    <3>2. entries_of(book) \in Updates \cup Seq(SnapshotEntry)
      BY <1>3
    <3> QED BY <2>1, <3>1, <3>2, PublishSends
  <2>3. CASE SendTrial(p)
    <3>1. PICK book \in Reopenings : Publish("I083", p, Current(p), entries_of(book), TRUE)
      BY <2>3 DEF SendTrial
    <3>2. entries_of(book) \in Updates \cup Seq(SnapshotEntry)
      BY <1>3
    <3> QED BY <2>1, <3>1, <3>2, PublishSends
  <2> QED BY <1>6, <2>2, <2>3
<1>7. CASE SendOther
  <2>1. /\ session' = session /\ cseq' = cseq + 1 /\ UNCHANGED hist
        /\ sent' = Append(sent,
             process_raw_data(HeaderCall("I140", session, Realtime, cseq + 1), <<>>))
        /\ UNCHANGED <<manager, network, job, history>>
    BY <1>7 DEF SendOther, Multicast
  <2>2. PICK s \in Sessions, seq \in Nat : s = session /\ seq = cseq + 1
    BY <1>1
  <2>3. \E d : Sends(d) /\ Len(d) = 1 /\ d[1].kind = "I140" /\ d[1].seq = seq
    BY <2>1, <2>2, AnnounceSends
  <2> QED BY <2>1, <2>2, <2>3 DEF SendsNoProduct
<1>8. CASE SendHeartbeat
  <2>1. /\ session' = session /\ cseq' = cseq /\ UNCHANGED hist
        /\ sent' = Append(sent,
             process_raw_data(HeaderCall("I001", session, Realtime, cseq), <<>>))
        /\ UNCHANGED <<manager, network, job, history>>
    BY <1>8 DEF SendHeartbeat, Multicast
  <2>2. PICK s \in Sessions, seq \in Nat : s = session /\ seq = cseq
    BY <1>1
  <2>3. \E d : Sends(d) /\ Len(d) = 1 /\ d[1].kind = "I001" /\ d[1].seq = seq
    BY <2>1, <2>2, AnnounceSends
  <2> QED BY <1>1, <2>1, <2>2, <2>3 DEF SendsNoProduct
<1>9. CASE Restart
  <2>1. /\ session' = session + 1 /\ session < MaxSessions
        /\ sent' = Append(sent,
             process_raw_data(HeaderCall("I002", session + 1, Realtime, 0), <<>>))
        /\ UNCHANGED <<manager, network, job, history>>
    BY <1>9 DEF Restart
  <2>2. session + 1 \in Sessions
    BY <1>1, <2>1, FeedAssumption DEF Sessions
  <2>3. PICK s \in Sessions, seq \in Nat : s = session + 1 /\ seq = 0
    BY <2>2
  <2>4. \E d : Sends(d) /\ Len(d) = 1 /\ d[1].kind = "I002" /\ d[1].seq = seq
    BY <2>1, <2>3, AnnounceSends
  <2> QED BY <2>1, <2>4 DEF SendsReset
<1> QED BY <1>4, <1>5, <1>6, <1>7, <1>8, <1>9 DEF Exchange

\* What the datagrams hold that SessionsInOrder and the invariant say.
LEMMA SentType ==
  ASSUME IInv, NEW i \in DOMAIN sent
  PROVE  /\ DOMAIN sent = 1 .. Len(sent) /\ Len(sent) \in Nat /\ i \in Nat
         /\ sent[i] \in Seq(GenuineCalls)
         /\ IsDatagram(sent[i], SessionAt(i)) =>
              /\ DOMAIN sent[i] = 1 .. Len(sent[i])
              /\ sent[i][1] \in HeaderCalls
              /\ Head(sent[i]) = sent[i][1]
              /\ Len(sent[i]) = 2 => sent[i][2] \in ProductCalls /\ Genuine(sent[i][2])
<1>1. sent \in Seq(Seq(GenuineCalls))
  BY DEF IInv, AllGenuine
<1>2. DOMAIN sent = 1 .. Len(sent) /\ Len(sent) \in Nat /\ sent[i] \in Seq(GenuineCalls)
  BY <1>1
<1>3. ASSUME IsDatagram(sent[i], SessionAt(i))
      PROVE  /\ DOMAIN sent[i] = 1 .. Len(sent[i])
             /\ sent[i][1] \in HeaderCalls
             /\ Head(sent[i]) = sent[i][1]
             /\ Len(sent[i]) = 2 => sent[i][2] \in ProductCalls /\ Genuine(sent[i][2])
  <2>1. DOMAIN sent[i] = 1 .. Len(sent[i]) /\ Len(sent[i]) \in {1, 2}
    BY <1>2, <1>3 DEF IsDatagram
  <2>2. \A n \in 1 .. Len(sent[i]) : sent[i][n] \in GenuineCalls
    BY <1>2
  <2>3. sent[i][1] \in GenuineCalls /\ (Len(sent[i]) = 2 => sent[i][2] \in GenuineCalls)
    BY <2>1, <2>2
  <2>4. sent[i][1].call = "header" /\ (Len(sent[i]) = 2 => sent[i][2].call = "product")
    BY <1>3 DEF IsDatagram
  <2>5. Head(sent[i]) = sent[i][1]
    BY <1>2, <2>1
  <2> QED BY <2>1, <2>3, <2>4, <2>5 DEF GenuineCalls, Calls, HeaderCalls, ProductCalls
<1> QED BY <1>2, <1>3

\* Appending a datagram leaves the others where they were.
LEMMA SentGrows ==
  ASSUME IInv, NEW d, Sends(d)
  PROVE  \E n \in Nat :
           /\ n = Len(sent) /\ n + 1 = Len(sent')
           /\ DOMAIN sent = 1 .. n /\ DOMAIN sent' = 1 .. n + 1
           /\ \A i \in 1 .. n : sent'[i] = sent[i]
           /\ sent'[n + 1] = d /\ Head(d) = d[1]
           /\ \A i \in 0 .. n : SessionAt(i)' = SessionAt(i) /\ SeqAt(i)' = SeqAt(i)
           /\ SessionAt(n + 1)' = session' /\ SeqAt(n + 1)' = d[1].seq
<1>1. sent \in Seq(Seq(Calls)) /\ d \in Seq(Calls) /\ Len(d) \in {1, 2}
  BY DEF IInv, TypeOK, ExchangeOK, Sends, IsDatagram
<1>2. PICK n \in Nat :
        /\ n = Len(sent) /\ n + 1 = Len(sent')
        /\ DOMAIN sent = 1 .. n /\ DOMAIN sent' = 1 .. n + 1
        /\ \A i \in 1 .. n : sent'[i] = sent[i]
        /\ sent'[n + 1] = d
  <2>1. Len(sent) \in Nat
    BY <1>1
  <2> QED BY <1>1, <2>1 DEF Sends
<1>3. Head(d) = d[1] /\ d[1].session = session'
  BY <1>1 DEF Sends, IsDatagram
<1>4. \A i \in 0 .. n :
        /\ (IF i = 0 THEN 1 ELSE sent'[i][1].session) = SessionAt(i)
        /\ (IF i = 0 THEN 0 ELSE sent'[i][1].seq) = SeqAt(i)
  BY <1>2 DEF SessionAt, SeqAt
<1> QED BY <1>2, <1>3, <1>4 DEF SessionAt, SeqAt

LEMMA SessionsStep ==
  ASSUME IInv, SessionsInOrder, [Next]_vars
  PROVE  SessionsInOrder'
<1>1. CASE Exchange
  <2>1. PICK d : /\ Sends(d)
                 /\ \/ SendsNoProduct(d) \/ SendsReset(d)
                    \/ \E p \in Products : SendsMessage(d, p)
    BY <1>1, ExchangeSends
  <2>2. PICK n \in Nat :
        /\ n = Len(sent) /\ n + 1 = Len(sent')
        /\ DOMAIN sent = 1 .. n /\ DOMAIN sent' = 1 .. n + 1
        /\ \A i \in 1 .. n : sent'[i] = sent[i]
        /\ sent'[n + 1] = d /\ Head(d) = d[1]
        /\ \A i \in 0 .. n : SessionAt(i)' = SessionAt(i)
        /\ SessionAt(n + 1)' = session'
    BY <2>1, SentGrows
  <2>4. session' = SessionAt(Len(sent))'
    BY <2>2 DEF SessionAt
  <2>5. \A i \in DOMAIN sent' : IsDatagram(sent'[i], SessionAt(i)')
    <3>1. IsDatagram(d, session')
      BY <2>1 DEF Sends
    <3>2. \A i \in 1 .. n : IsDatagram(sent[i], SessionAt(i))
      BY <2>2 DEF SessionsInOrder
    <3>3. \A i \in 1 .. n + 1 : i = n + 1 \/ i \in 1 .. n
      BY <2>2
    <3>4. ASSUME NEW i \in 1 .. n + 1 PROVE IsDatagram(sent'[i], SessionAt(i)')
      <4>1. CASE i = n + 1
        BY <2>2, <3>1, <4>1
      <4>2. CASE i \in 1 .. n
        <5>1. sent'[i] = sent[i] /\ SessionAt(i)' = SessionAt(i)
          BY <2>2, <4>2
        <5> QED BY <3>2, <4>2, <5>1
      <4> QED BY <3>3, <4>1, <4>2
    <3> QED BY <2>2, <3>4
  <2>6. ASSUME NEW i \in 0 .. n + 1, NEW j \in 0 .. n + 1, i <= j
        PROVE  SessionAt(i)' = SessionAt(j)' \/ \E k \in i + 1 .. j : IsReset(sent'[k])
    <3>1. ASSUME NEW a \in 0 .. n, NEW b \in 0 .. n, a <= b
          PROVE  SessionAt(a)' = SessionAt(b)' \/ \E k \in a + 1 .. b : IsReset(sent'[k])
      <4>1. SessionAt(a) = SessionAt(b) \/ \E k \in a + 1 .. b : IsReset(sent[k])
        BY <2>2, <3>1 DEF SessionsInOrder
      <4>2. \A k \in a + 1 .. b : sent'[k] = sent[k]
        BY <2>2
      <4>3. (\E k \in a + 1 .. b : IsReset(sent[k])) => \E k \in a + 1 .. b : IsReset(sent'[k])
        BY <4>2
      <4> QED BY <2>2, <4>1, <4>3
    <3>2. CASE j = n + 1 /\ i <= n
      <4>1. CASE session' = session
        <5>1. SessionAt(n)' = session
          BY <2>2 DEF SessionsInOrder
        <5>2. SessionAt(i)' = SessionAt(n)' \/ \E k \in i + 1 .. n : IsReset(sent'[k])
          BY <2>2, <3>1, <3>2
        <5> QED BY <2>2, <3>2, <4>1, <5>1, <5>2
      <4>2. CASE SendsReset(d)
        <5>1. IsReset(sent'[n + 1])
          BY <2>2, <4>2 DEF SendsReset, IsReset
        <5> QED BY <2>2, <3>2, <5>1
      <4> QED BY <2>1, <4>1, <4>2 DEF SendsNoProduct, SendsMessage
    <3>3. CASE i = j
      BY <3>3
    <3>4. CASE j \in 0 .. n
      BY <2>2, <2>6, <3>1, <3>4
    <3> QED BY <2>2, <2>6, <3>2, <3>3, <3>4
  <2> QED BY <2>2, <2>4, <2>5, <2>6 DEF SessionsInOrder
<1>2. CASE UNCHANGED <<session, sent>>
  BY <1>2 DEF SessionsInOrder, SessionAt, IsDatagram
<1>3. CASE Network
  BY <1>2, <1>3 DEF Network, ReceiveRealtime, ReceiveAnyCarousel, ReceiveCarousel,
                    ReceiveCarouselReset, exchange
<1>4. ASSUME NEW t \in Threads, Thread(t) \/ Reset(t) \/ Throw(t) PROVE SessionsInOrder'
  BY <1>2, <1>4 DEF Thread, CallHeader, CallProduct, Fire, Reset, Throw, exchange
<1> QED BY <1>1, <1>2, <1>3, <1>4 DEF Next, vars, exchange

\* A product message of the first session, by its place in the group.
LEMMA FirstSessionMessage ==
  ASSUME IInv, SessionsInOrder, session = 1, NEW i \in DOMAIN sent
  PROVE  /\ sent[i][1] \in HeaderCalls /\ SeqAt(i) \in Nat /\ SeqAt(i) = sent[i][1].seq
         /\ i \in Nat \ {0}
         /\ Len(sent[i]) = 2 =>
              /\ sent[i][2] \in ProductCalls
              /\ sent[i][2].prod \in Products /\ sent[i][2].seq \in Nat
              /\ sent[i][2].session = 1
              /\ sent[i][2].seq <= Serial(1, sent[i][2].prod)
<1>1. IsDatagram(sent[i], SessionAt(i))
  BY DEF SessionsInOrder
<1>2. /\ sent[i][1] \in HeaderCalls /\ i \in Nat \ {0}
      /\ Len(sent[i]) = 2 => sent[i][2] \in ProductCalls /\ Genuine(sent[i][2])
  BY <1>1, SentType
<1>3. SeqAt(i) \in Nat /\ SeqAt(i) = sent[i][1].seq
  BY <1>2 DEF SeqAt, HeaderCalls
<1>4. ASSUME Len(sent[i]) = 2
      PROVE  /\ sent[i][2].prod \in Products /\ sent[i][2].seq \in Nat
             /\ sent[i][2].session = 1
             /\ sent[i][2].seq <= Serial(1, sent[i][2].prod)
  <2>1. PICK m \in ProductCalls : m = sent[i][2] /\ Genuine(m) /\ m.call = "product"
    BY <1>1, <1>2, <1>4 DEF IsDatagram
  <2>2. m.session \in Sessions /\ m.session <= 1
    BY <2>1 DEF Genuine, ProductCalls
  <2>3. m.session = 1
    BY <2>2 DEF Sessions
  <2> QED BY <2>1, <2>3 DEF Genuine, ProductCalls
<1> QED BY <1>2, <1>3, <1>4

LEMMA SequencesStep ==
  ASSUME IInv, SessionsInOrder, SequencesInOrder, [Next]_vars
  PROVE  SequencesInOrder'
<1>1. CASE Exchange
  <2> SUFFICES ASSUME session' = 1 PROVE SequencesInOrder'
    BY DEF SequencesInOrder, ChannelSequence, ProductSequence
  <2>1. PICK d : /\ Sends(d)
                 /\ \/ SendsNoProduct(d) \/ SendsReset(d)
                    \/ \E p \in Products : SendsMessage(d, p)
    BY <1>1, ExchangeSends
  <2>2. PICK n \in Nat :
        /\ n = Len(sent) /\ n + 1 = Len(sent')
        /\ DOMAIN sent = 1 .. n /\ DOMAIN sent' = 1 .. n + 1
        /\ \A i \in 1 .. n : sent'[i] = sent[i]
        /\ sent'[n + 1] = d
        /\ \A i \in 0 .. n : SeqAt(i)' = SeqAt(i)
        /\ SeqAt(n + 1)' = d[1].seq
    BY <2>1, SentGrows
  <2>3. session = 1 /\ ~SendsReset(d)
    BY <2>1 DEF SendsReset, SendsNoProduct, SendsMessage, IInv, TypeOK, ExchangeOK, Sessions
  <2>4. /\ cseq = SeqAt(n)
        /\ \A i \in 1 .. n :
             /\ sent[i][1].kind # "I002"
             /\ SeqAt(i) = SeqAt(i - 1) + (IF sent[i][1].kind = "I001" THEN 0 ELSE 1)
        /\ \A i, j \in 0 .. n : i <= j => SeqAt(i) <= SeqAt(j)
        /\ \A i, j \in 1 .. n, p \in Products :
             IsOf(i, p) /\ IsOf(j, p) /\ i < j => sent[i][2].seq < sent[j][2].seq
        /\ \A p \in Products : \A k \in 1 .. Serial(1, p) :
             \E i \in 1 .. n : IsOf(i, p) /\ sent[i][2].seq = k
    <3>1. Len(sent) = n /\ DOMAIN sent = 1 .. n
      BY <2>2
    <3> QED BY <2>3, <3>1, Zenon DEF SequencesInOrder, ChannelSequence, ProductSequence
  <2>5. /\ cseq \in Nat
        /\ d[1].kind # "I002" /\ d[1].seq = cseq'
        /\ cseq' = cseq + (IF d[1].kind = "I001" THEN 0 ELSE 1)
    BY <2>1, <2>3 DEF SendsMessage, SendsNoProduct, IInv, TypeOK, ExchangeOK
  <2>6. cseq' = SeqAt(Len(sent))'
    BY <2>2, <2>5 DEF SeqAt
  <2>7. ASSUME NEW i \in 1 .. n + 1
        PROVE  /\ sent'[i][1].kind # "I002"
               /\ SeqAt(i)' = SeqAt(i - 1)' + (IF sent'[i][1].kind = "I001" THEN 0 ELSE 1)
    <3>1. CASE i = n + 1
      <4>1. i - 1 = n /\ n \in 0 .. n
        BY <3>1
      <4>2. SeqAt(i - 1)' = cseq
        BY <2>2, <2>4, <4>1
      <4> QED BY <2>2, <2>5, <3>1, <4>2
    <3>2. CASE i \in 1 .. n
      <4>1. i \in 0 .. n /\ i - 1 \in 0 .. n
        BY <3>2
      <4>2. SeqAt(i)' = SeqAt(i) /\ SeqAt(i - 1)' = SeqAt(i - 1) /\ sent'[i] = sent[i]
        BY <2>2, <3>2, <4>1
      <4> QED BY <2>4, <3>2, <4>2
    <3> QED BY <3>1, <3>2
  <2>8. ASSUME NEW i \in 0 .. n + 1, NEW j \in 0 .. n + 1, i <= j
        PROVE  SeqAt(i)' <= SeqAt(j)'
    <3>1. \A a \in 0 .. n : SeqAt(a) \in Nat
      BY <2>2, <2>3, FirstSessionMessage DEF SeqAt
    <3>2. CASE j \in 0 .. n
      BY <2>2, <2>4, <2>8, <3>2
    <3>3. CASE j = n + 1 /\ i \in 0 .. n
      BY <2>2, <2>4, <2>5, <3>1, <3>3
    <3>4. CASE i = n + 1 /\ j = n + 1
      BY <2>2, <2>5, <3>4
    <3> QED BY <2>8, <3>2, <3>3, <3>4
  <2>9. \A p : \A i \in 1 .. n : IsOf(i, p)' = IsOf(i, p)
    BY <2>2 DEF IsOf
  <2>10. ASSUME NEW p \in Products, IsOf(n + 1, p)'
         PROVE  SendsMessage(d, p)
    <3>1. Len(d) = 2 /\ d[2].prod = p
      BY <2>2, <2>10 DEF IsOf
    <3> QED BY <2>1, <2>3, <3>1 DEF SendsNoProduct, SendsMessage
  <2>11. ASSUME NEW i \in 1 .. n + 1, NEW j \in 1 .. n + 1, NEW p \in Products,
                IsOf(i, p)', IsOf(j, p)', i < j
         PROVE  sent'[i][2].seq < sent'[j][2].seq
    <3>1. i \in 1 .. n /\ IsOf(i, p)
      BY <2>9, <2>11
    <3>2. CASE j \in 1 .. n
      BY <2>2, <2>4, <2>9, <2>11, <3>1, <3>2
    <3>3. CASE j = n + 1
      <4>1. d[2].seq = Serial(1, p) + 1
        BY <2>3, <2>10, <2>11, <3>3 DEF SendsMessage
      <4>2. sent[i][2].seq <= Serial(1, p) /\ sent[i][2].seq \in Nat
        BY <2>2, <2>3, <3>1, FirstSessionMessage DEF IsOf
      <4>3. Serial(1, p) \in Nat
        BY <2>3, BookAtType DEF IInv, TypeOK, ExchangeOK
      <4> QED BY <2>2, <3>1, <3>3, <4>1, <4>2, <4>3
    <3> QED BY <3>2, <3>3
  <2>12. ASSUME NEW p \in Products, NEW k \in 1 .. Len(hist'[1][p])
         PROVE  \E i \in 1 .. n + 1 : IsOf(i, p)' /\ sent'[i][2].seq = k
    <3>1. CASE k \in 1 .. Serial(1, p)
      <4>1. PICK i \in 1 .. n : IsOf(i, p) /\ sent[i][2].seq = k
        BY <2>4, <3>1
      <4> QED BY <2>2, <2>9, <4>1
    <3>2. CASE k \notin 1 .. Serial(1, p)
      <4>1. Serial(1, p) \in Nat
        BY <2>3, BookAtType DEF IInv, TypeOK, ExchangeOK
      <4>2. Len(hist'[1][p]) # Serial(1, p)
        BY <3>2
      <4>3. SendsMessage(d, p)
        BY <2>1, <2>3, <4>2 DEF SendsNoProduct, SendsMessage, Serial
      <4>4. Len(hist'[1][p]) = Serial(1, p) + 1
        BY <2>3, <4>3 DEF SendsMessage, Serial
      <4>5. k = Serial(1, p) + 1
        BY <3>2, <4>1, <4>4
      <4>6. IsOf(n + 1, p)' /\ sent'[n + 1][2].seq = k
        BY <2>2, <2>3, <4>3, <4>5 DEF SendsMessage, IsOf
      <4> QED BY <4>6
    <3> QED BY <3>1, <3>2
  <2>13. Len(sent') = n + 1 /\ DOMAIN sent' = 1 .. n + 1
    BY <2>2
  <2>14. \A i \in 1 .. n + 1 :
           /\ sent'[i][1].kind # "I002"
           /\ SeqAt(i)' = SeqAt(i - 1)' + (IF sent'[i][1].kind = "I001" THEN 0 ELSE 1)
    BY <2>7
  <2>15. \A i, j \in 0 .. n + 1 : i <= j => SeqAt(i)' <= SeqAt(j)'
    BY <2>8
  <2>16. \A i, j \in 1 .. n + 1, p \in Products :
           IsOf(i, p)' /\ IsOf(j, p)' /\ i < j => sent'[i][2].seq < sent'[j][2].seq
    BY <2>11
  <2>17. \A p \in Products : \A k \in 1 .. Len(hist'[1][p]) :
           \E i \in 1 .. n + 1 : IsOf(i, p)' /\ sent'[i][2].seq = k
    BY <2>12
  <2>18. ChannelSequence'
    BY <2>6, <2>13, <2>14, <2>15 DEF ChannelSequence
  <2>19. ProductSequence'
    BY <2>13, <2>16, <2>17 DEF ProductSequence, Serial
  <2> QED BY <2>18, <2>19 DEF SequencesInOrder
<1>2. CASE UNCHANGED exchange
  BY <1>2 DEF exchange, SequencesInOrder, ChannelSequence, ProductSequence, SeqAt, IsOf, Serial
<1>3. CASE Network
  BY <1>2, <1>3 DEF Network, ReceiveRealtime, ReceiveAnyCarousel, ReceiveCarousel,
                    ReceiveCarouselReset
<1>4. ASSUME NEW t \in Threads, Thread(t) \/ Reset(t) \/ Throw(t) PROVE SequencesInOrder'
  BY <1>2, <1>4 DEF Thread, CallHeader, CallProduct, Fire, Reset, Throw
<1> QED BY <1>1, <1>2, <1>3, <1>4 DEF Next, vars
-----------------------------------------------------------------------------
(***************************************************************************)
(* The books of two sessions do not stay mixed                             *)
(***************************************************************************)
\* Thread t reads these sessions.
Reading(t) ==
  (IF t = RealtimeThread THEN {SessionAt(position)} ELSE {})
    \cup (IF t = CarouselThread THEN {heard} ELSE {})

\* What is left of a datagram of session s; an I002 is alone in its own.
IsRest(d, s) ==
  \A n \in DOMAIN d : d[n].session = s /\ (d[n].kind = "I002" => Len(d) = 1)

HasReset(t) == job[t] # <<>> /\ IsReset(job[t])

JobsInOrder ==
  /\ position <= Len(sent)
  /\ pending = [t \in Threads |-> pending[t]]
  /\ Window = 0 =>
       \A t \in Threads :
         /\ job[t] # <<>> => \E s \in Reading(t) : IsRest(job[t], s)
         /\ pending[t] # <<>> => ~HasReset(t)

\* While both groups are read in the same session and no I002 waits to be given
\* to the manager, nothing is mixed.
Settled ==
  ResetsArrive /\ Window = 0 =>
    (heard = SessionAt(position) /\ (\A t \in Threads : ~HasReset(t))
       => mixed = {} /\ epoch = heard)

SettledInv == IInv /\ SessionsInOrder /\ JobsInOrder /\ Settled

\* A thread goes on with what is left of its datagram.
LEMMA NextIsRest ==
  ASSUME NEW S, NEW d \in Seq(S), d # <<>>, NEW s, IsRest(d, s)
  PROVE  /\ IsRest(Tail(d), s)
         /\ Head(d).session = s
         /\ Tail(d) # <<>> => Head(d).kind # "I002" /\ Head(Tail(d)).kind # "I002"
<1>1. /\ Len(d) \in Nat \ {0} /\ DOMAIN d = 1 .. Len(d) /\ Head(d) = d[1]
      /\ Len(Tail(d)) = Len(d) - 1 /\ DOMAIN Tail(d) = 1 .. Len(d) - 1
      /\ \A n \in 1 .. Len(d) - 1 : Tail(d)[n] = d[n + 1]
  OBVIOUS
<1>2. ASSUME NEW n \in 1 .. Len(d) - 1
      PROVE  Tail(d)[n].session = s /\ Tail(d)[n].kind # "I002"
  BY <1>1 DEF IsRest
<1>3. IsRest(Tail(d), s)
  BY <1>1, <1>2 DEF IsRest
<1>4. Head(d).session = s
  BY <1>1 DEF IsRest
<1>5. ASSUME Tail(d) # <<>> PROVE Head(d).kind # "I002" /\ Head(Tail(d)).kind # "I002"
  <2>1. Tail(d) \in Seq(S)
    OBVIOUS
  <2>2. Len(d) - 1 >= 1 /\ Head(Tail(d)) = Tail(d)[1]
    BY <1>1, <1>5, <2>1
  <2> QED BY <1>1, <1>2, <2>2 DEF IsRest
<1> QED BY <1>3, <1>4, <1>5

\* A thread's step concerns its own deliveries.
LEMMA OwnDeliveries ==
  ASSUME NEW t \in Threads, Thread(t) \/ Reset(t) \/ Throw(t)
  PROVE  UNCHANGED pending \/ \E owed : pending' = [pending EXCEPT ![t] = owed]
<1>1. ASSUME NEW owed, ClearAll(t, owed) PROVE \E o : pending' = [pending EXCEPT ![t] = o]
  BY <1>1 DEF ClearAll, Collect
<1>2. CASE CallHeader(t)
  <2>1. PICK h : on_header(t, h)
    BY <1>2 DEF CallHeader
  <2> QED BY <1>1, <2>1 DEF on_header, on_header_reset, on_header_quiet, on_header_gap, Collect
<1>3. CASE CallProduct(t)
  <2>1. PICK m : on_product(t, m)
    BY <1>3 DEF CallProduct
  <2>2. ASSUME NEW p, NEW st, Deliver(t, p, st)
        PROVE  \E o : pending' = [pending EXCEPT ![t] = o]
    BY <2>2 DEF Deliver, Collect
  <2>3. CASE on_serial(t, m)
    BY <2>2, <2>3 DEF on_serial
  <2>4. CASE adopt(t, m) \/ on_i081(t, m)
    BY <2>2, <2>4 DEF adopt, on_i081
  <2>5. CASE on_ignored(t, m)
    BY <2>5 DEF on_ignored, manager
  <2> QED BY <2>1, <2>3, <2>4, <2>5
          DEF on_product, on_i024, on_i025, on_i083_trial, on_i083, on_i084
<1>4. CASE Fire(t) \/ Throw(t)
  BY <1>4 DEF Fire, fire, Throw, fire_throws
<1>5. CASE Reset(t)
  BY <1>1, <1>5 DEF Reset, reset
<1> QED BY <1>2, <1>3, <1>4, <1>5 DEF Thread

LEMMA JobsStep ==
  ASSUME IInv, IInv', SessionsInOrder, JobsInOrder, [Next]_vars
  PROVE  JobsInOrder'
<1>1. /\ sent \in Seq(Seq(Calls)) /\ Len(sent) \in Nat /\ position \in Nat
      /\ DOMAIN sent = 1 .. Len(sent)
      /\ job \in [Threads -> Seq(Calls)] /\ job' \in [Threads -> Seq(Calls)]
      /\ {RealtimeThread, CarouselThread} \subseteq Threads
  BY FeedAssumption DEF IInv, TypeOK, ExchangeOK
<1>2. CASE Exchange
  <2>1. PICK d : Sends(d)
    BY <1>2, ExchangeSends
  <2>2. UNCHANGED <<position, heard, job, pending>>
    BY <2>1 DEF Sends, manager, network
  <2>3. position <= Len(sent') /\ SessionAt(position)' = SessionAt(position)
    BY <1>1, <2>1, <2>2, SentGrows DEF JobsInOrder, SessionAt
  <2>4. \A t : Reading(t)' = Reading(t)
    BY <2>2, <2>3 DEF Reading
  <2> QED BY <2>2, <2>3, <2>4 DEF JobsInOrder, HasReset, IsReset, IsRest
<1>3. ASSUME NEW t \in Threads, Idle(t), UNCHANGED <<sent, pending>>, position' <= Len(sent),
             Window = 0 =>
               /\ \E s \in Reading(t)' : IsRest(job'[t], s)
               /\ \A r \in Threads \ {t} :
                    job[r] # <<>> => job'[r] = job[r] /\ Reading(r)' = Reading(r),
             \A r \in Threads \ {t} : job'[r] = job[r]
      PROVE  JobsInOrder'
  <2>1. pending'[t] = <<>>
    BY <1>3 DEF Idle, Ready
  <2> QED BY <1>3, <2>1 DEF JobsInOrder, HasReset
<1>4. ASSUME NEW i \in DOMAIN sent, ReceiveRealtime(i) PROVE JobsInOrder'
  <2>1. /\ Idle(RealtimeThread) /\ i + Window >= position
        /\ job' = [job EXCEPT ![RealtimeThread] = sent[i]]
        /\ position' = IF i > position THEN i ELSE position
        /\ UNCHANGED <<sent, pending, heard>>
    BY <1>4 DEF ReceiveRealtime, Take, exchange, manager
  <2>2. position' <= Len(sent)
    BY <1>1, <2>1 DEF JobsInOrder
  <2>3. /\ job'[RealtimeThread] = sent[i]
        /\ \A r \in Threads \ {RealtimeThread} :
             job'[r] = job[r] /\ Reading(r)' = Reading(r)
    BY <1>1, <2>1 DEF Reading
  <2>4. ASSUME Window = 0
        PROVE  \E s \in Reading(RealtimeThread)' : IsRest(sent[i], s)
    <3>1. position' = i
      BY <1>1, <2>1, <2>4
    <3>2. SessionAt(i) \in Reading(RealtimeThread)'
      BY <2>1, <3>1 DEF Reading, SessionAt
    <3>3. IsRest(sent[i], SessionAt(i))
      <4>1. IsDatagram(sent[i], SessionAt(i))
        BY DEF SessionsInOrder
      <4>2. DOMAIN sent[i] = 1 .. Len(sent[i]) /\ Len(sent[i]) \in {1, 2}
            /\ (Len(sent[i]) = 2 => sent[i][2] \in ProductCalls)
        BY <4>1, SentType DEF IsDatagram
      <4>3. \A n \in 1 .. Len(sent[i]) : n = 1 \/ (n = 2 /\ Len(sent[i]) = 2)
        BY <4>2
      <4> QED BY <4>1, <4>2, <4>3 DEF IsRest, IsDatagram, ProductCalls, ProductKinds
    <3> QED BY <3>2, <3>3
  <2>5. Window = 0 => \E s \in Reading(RealtimeThread)' : IsRest(job'[RealtimeThread], s)
    BY <2>3, <2>4
  <2>6. RealtimeThread \in Threads
    BY <1>1
  <2> QED BY <1>3, <2>1, <2>2, <2>3, <2>5, <2>6
<1>5. ASSUME Idle(CarouselThread), NEW s, NEW calls, IsRest(calls, s),
             Take(CarouselThread, calls), heard' = s,
             UNCHANGED <<position, skipped, manager, exchange, history>>
      PROVE  JobsInOrder'
  <2>1. UNCHANGED <<sent, pending, position>>
    BY <1>5 DEF manager, exchange
  <2>2. /\ job'[CarouselThread] = calls
        /\ \A r \in Threads \ {CarouselThread} : job'[r] = job[r]
    BY <1>1, <1>5 DEF Take
  <2>3. \A r \in Threads \ {CarouselThread} : Reading(r)' = Reading(r)
    BY <1>5, <2>1 DEF Reading, SessionAt
  <2>4. s \in Reading(CarouselThread)'
    BY <1>5 DEF Reading
  <2>5. CarouselThread \in Threads /\ position' <= Len(sent)
    BY <1>1, <2>1 DEF JobsInOrder
  <2> QED BY <1>3, <1>5, <2>1, <2>2, <2>3, <2>4, <2>5
<1>6. CASE ReceiveAnyCarousel
  <2>1. PICK s \in Sessions : \E calls \in Seq(CarouselCalls(s)) :
          /\ Idle(CarouselThread) /\ Take(CarouselThread, calls) /\ heard' = s
          /\ UNCHANGED <<position, skipped, manager, exchange, history>>
    BY <1>6, CarouselTakes
  <2>2. PICK calls \in Seq(CarouselCalls(s)) : Take(CarouselThread, calls)
    BY <2>1
  <2>3. \A n \in DOMAIN calls : calls[n] \in CarouselCalls(s)
    OBVIOUS
  <2>4. IsRest(calls, s)
    BY <2>3 DEF IsRest, CarouselCalls
  <2> QED BY <1>5, <2>1, <2>2, <2>4
<1>7. ASSUME NEW s \in 2 .. session, ReceiveCarouselReset(s) PROVE JobsInOrder'
  <2>1. PICK h : h = HeaderCall("I002", s, Carousel, 0)
    OBVIOUS
  <2>2. PICK calls : calls = process_raw_data(h, <<>>)
    OBVIOUS
  <2>3. Len(calls) = 1 /\ calls[1] = h /\ DOMAIN calls = {1}
    BY <2>2 DEF process_raw_data
  <2>4. IsRest(calls, s)
    BY <2>1, <2>3 DEF IsRest, HeaderCall
  <2> QED BY <1>5, <1>7, <2>1, <2>2, <2>4 DEF ReceiveCarouselReset
<1>8. ASSUME NEW t \in Threads, Thread(t) \/ Reset(t) \/ Throw(t) PROVE JobsInOrder'
  <2>1. UNCHANGED <<position, heard, sent>>
    BY <1>8 DEF Thread, CallHeader, CallProduct, Fire, Reset, Throw, network, exchange
  <2>2. \A r : Reading(r)' = Reading(r)
    BY <2>1 DEF Reading, SessionAt
  <2>3. /\ pending' = [r \in Threads |-> pending'[r]]
        /\ \A r \in Threads \ {t} : pending'[r] = pending[r]
    <3>1. pending = [r \in Threads |-> pending[r]]
      BY DEF JobsInOrder
    <3> QED BY <1>8, <3>1, OwnDeliveries
  <2>4. \A r \in Threads \ {t} : job'[r] = job[r]
    BY <1>1, <1>8 DEF Thread, CallHeader, CallProduct, Fire, Reset, Throw, Take
  <2>5. ASSUME Window = 0
        PROVE  /\ job'[t] # <<>> => \E s \in Reading(t) : IsRest(job'[t], s)
               /\ pending'[t] # <<>> => ~HasReset(t)'
    <3>1. CASE CallHeader(t) \/ CallProduct(t)
      <4>1. job[t] # <<>> /\ job'[t] = Tail(job[t])
        BY <1>1, <3>1 DEF CallHeader, CallProduct, HasCall, Take
      <4>2. PICK s \in Reading(t) : IsRest(job[t], s)
        BY <2>5, <4>1 DEF JobsInOrder
      <4>3. job[t] \in Seq(Calls)
        BY <1>1
      <4> QED BY <4>1, <4>2, <4>3, NextIsRest DEF HasReset, IsReset
    <3>2. CASE Throw(t)
      BY <1>1, <3>2 DEF Throw, Take, HasReset
    <3>3. CASE Reset(t)
      BY <3>3 DEF Reset, HasReset
    <3>4. CASE Fire(t)
      <4>1. pending[t] # <<>> /\ job'[t] = job[t]
        BY <3>4 DEF Fire, fire
      <4> QED BY <2>5, <4>1 DEF JobsInOrder, HasReset
    <3> QED BY <1>8, <3>1, <3>2, <3>3, <3>4 DEF Thread
  <2> QED BY <2>1, <2>2, <2>3, <2>4, <2>5 DEF JobsInOrder, HasReset
<1>9. CASE UNCHANGED vars
  <2>1. UNCHANGED <<position, heard, sent, job, pending>>
    BY <1>9 DEF vars, manager, exchange, network
  <2> QED BY <2>1 DEF JobsInOrder, HasReset, Reading, SessionAt
<1> QED BY <1>2, <1>4, <1>6, <1>7, <1>8, <1>9 DEF Next, Network

\* What a thread is about to do to the epoch and to the mixed books.
LEMMA CallsSettle ==
  ASSUME IInv, NEW t \in Threads, CallHeader(t) \/ CallProduct(t)
  PROVE  /\ job[t] \in Seq(Calls) /\ job[t] # <<>> /\ job'[t] = Tail(job[t])
         /\ IsReset(job[t]) => epoch' = Head(job[t]).session /\ mixed' = {}
         /\ ~IsReset(job[t]) =>
              /\ epoch' = epoch
              /\ Head(job[t]).session = epoch => mixed' \subseteq mixed
<1>1. job \in [Threads -> Seq(Calls)]
  BY DEF IInv, TypeOK
<1>2. job[t] \in Seq(Calls) /\ job[t] # <<>> /\ job'[t] = Tail(job[t])
  BY <1>1 DEF CallHeader, CallProduct, HasCall, Take
<1>3. PICK h : h = Head(job[t]) /\ h \in Calls
  BY <1>2
<1>4. CASE CallHeader(t)
  <2>1. on_header(t, h) => (h.kind = "I002" => DOMAIN products' = {})
    BY DEF on_header, on_header_reset, on_header_quiet, on_header_gap, ClearAll, NoProducts
  <2> QED BY <1>2, <1>3, <1>4, <2>1 DEF CallHeader, IsReset
<1>5. CASE CallProduct(t)
  <2>1. h.call = "product" /\ mixed' = MixedBy(h) /\ epoch' = epoch
    BY <1>3, <1>5 DEF CallProduct, HasCall
  <2>2. h.kind # "I002"
    BY <1>3, <2>1 DEF Calls, HeaderCalls, ProductCalls, ProductKinds
  <2>3. h.session = epoch => mixed' \subseteq mixed
    BY <2>1 DEF MixedBy
  <2> QED BY <1>2, <1>3, <2>1, <2>2, <2>3 DEF IsReset
<1> QED BY <1>4, <1>5

LEMMA SameSession ==
  ASSUME SessionsInOrder, NEW i \in 0 .. Len(sent), NEW j \in 0 .. Len(sent), i <= j,
         \A k \in i + 1 .. j : ~IsReset(sent[k])
  PROVE  SessionAt(i) = SessionAt(j)
BY DEF SessionsInOrder

LEMMA SettledStep ==
  ASSUME SettledInv, IInv', [Next]_vars
  PROVE  Settled'
<1> SUFFICES ASSUME ResetsArrive, Window = 0,
                    heard' = SessionAt(position)', \A t \in Threads : ~HasReset(t)'
             PROVE  mixed' = {} /\ epoch' = heard'
  BY DEF Settled
<1>1. /\ sent \in Seq(Seq(Calls)) /\ Len(sent) \in Nat /\ position \in Nat /\ position <= Len(sent)
      /\ DOMAIN sent = 1 .. Len(sent)
      /\ job \in [Threads -> Seq(Calls)]
      /\ {RealtimeThread, CarouselThread} \subseteq Threads
  BY FeedAssumption DEF SettledInv, IInv, TypeOK, ExchangeOK, JobsInOrder
<1>2. ASSUME heard = SessionAt(position), \A t \in Threads : ~HasReset(t)
      PROVE  mixed = {} /\ epoch = heard
  BY <1>2 DEF SettledInv, Settled
<1>3. CASE Exchange
  <2>1. PICK d : Sends(d)
    BY <1>3, ExchangeSends DEF SettledInv
  <2>2. UNCHANGED <<position, heard, job, mixed, epoch>>
    BY <2>1 DEF Sends, network, history
  <2>3. SessionAt(position)' = SessionAt(position)
    <3>1. IInv
      BY DEF SettledInv
    <3>2. PICK n \in Nat : n = Len(sent) /\ \A i \in 1 .. n : sent'[i] = sent[i]
      BY <2>1, <3>1, SentGrows
    <3>3. position \in 0 .. n /\ position' = position
      BY <1>1, <2>2, <3>2
    <3>4. position > 0 => sent'[position] = sent[position]
      BY <3>2, <3>3
    <3> QED BY <3>3, <3>4 DEF SessionAt
  <2> QED BY <1>2, <2>2, <2>3 DEF HasReset
<1>4. ASSUME NEW i \in DOMAIN sent, ReceiveRealtime(i) PROVE mixed' = {} /\ epoch' = heard'
  <2>1. /\ job[RealtimeThread] = <<>> /\ i >= position
        /\ \A j \in position + 1 .. i - 1 : ~IsReset(sent[j])
        /\ job'[RealtimeThread] = sent[i]
        /\ \A r \in Threads \ {RealtimeThread} : job'[r] = job[r]
        /\ position' = i
        /\ UNCHANGED <<heard, sent, epoch, mixed>>
    BY <1>1, <1>4 DEF ReceiveRealtime, Idle, Take, exchange, history
  <2>2. sent[i] # <<>>
    <3>1. IsDatagram(sent[i], SessionAt(i))
      BY DEF SettledInv, SessionsInOrder
    <3> QED BY <3>1 DEF IsDatagram
  <2>3. ~IsReset(sent[i])
    BY <1>1, <2>1, <2>2 DEF HasReset
  <2>4. \A j \in position + 1 .. i : ~IsReset(sent[j])
    BY <1>1, <2>1, <2>3
  <2>5. SessionAt(position) = SessionAt(i)
    <3>1. position \in 0 .. Len(sent) /\ i \in 0 .. Len(sent) /\ position <= i
      BY <1>1, <2>1
    <3> QED BY <2>4, <3>1, SameSession DEF SettledInv
  <2>6. heard = SessionAt(position)
    BY <2>1, <2>5 DEF SessionAt
  <2>7. \A t \in Threads : ~HasReset(t)
    BY <2>1 DEF HasReset
  <2> QED BY <1>2, <2>1, <2>6, <2>7
<1>5. CASE ReceiveAnyCarousel
  <2>1. PICK s \in Sessions : \E calls \in Seq(CarouselCalls(s)) :
          /\ s = heard /\ Idle(CarouselThread) /\ Take(CarouselThread, calls) /\ heard' = s
          /\ UNCHANGED <<position, skipped, manager, exchange, history>>
    BY <1>5, CarouselTakes DEF SettledInv
  <2>2. job[CarouselThread] = <<>>
        /\ \A r \in Threads \ {CarouselThread} : job'[r] = job[r]
    BY <1>1, <2>1 DEF Idle, Take
  <2>3. \A t \in Threads : ~HasReset(t)
    BY <2>2 DEF HasReset
  <2>4. heard' = heard /\ UNCHANGED <<position, sent, mixed, epoch>>
    BY <2>1 DEF exchange, history
  <2> QED BY <1>2, <2>3, <2>4 DEF SessionAt
<1>6. ASSUME NEW s \in 2 .. session, ReceiveCarouselReset(s) PROVE FALSE
  <2>1. PICK h : h = HeaderCall("I002", s, Carousel, 0)
    OBVIOUS
  <2>2. PICK calls : calls = process_raw_data(h, <<>>)
    OBVIOUS
  <2>3. Len(calls) = 1 /\ Head(calls) = h /\ calls # <<>>
    BY <2>2 DEF process_raw_data
  <2>4. IsReset(calls)
    BY <2>1, <2>3 DEF IsReset, HeaderCall
  <2>5. job'[CarouselThread] = calls
    BY <1>1, <1>6, <2>1, <2>2 DEF ReceiveCarouselReset, Take
  <2> QED BY <1>1, <2>3, <2>4, <2>5 DEF HasReset
<1>7. ASSUME NEW t \in Threads, CallHeader(t) \/ CallProduct(t)
      PROVE  mixed' = {} /\ epoch' = heard'
  <2>1. UNCHANGED <<position, heard, sent>>
        /\ \A r \in Threads \ {t} : job'[r] = job[r]
    BY <1>1, <1>7 DEF CallHeader, CallProduct, network, exchange, Take
  <2>2. heard = SessionAt(position)
    BY <2>1 DEF SessionAt
  <2>3. \A s \in Reading(t) : s = heard
    BY <2>2 DEF Reading
  <2>4. Head(job[t]).session = heard
    BY <1>7, <2>3, CallsSettle, NextIsRest DEF SettledInv, JobsInOrder
  <2>5. CASE IsReset(job[t])
    BY <1>7, <2>1, <2>4, <2>5, CallsSettle DEF SettledInv
  <2>6. CASE ~IsReset(job[t])
    <3>1. \A r \in Threads : ~HasReset(r)
      BY <2>1, <2>6 DEF HasReset
    <3>2. mixed = {} /\ epoch = heard
      BY <1>2, <2>2, <3>1
    <3> QED BY <1>7, <2>1, <2>4, <2>6, <3>2, CallsSettle DEF SettledInv
  <2> QED BY <2>5, <2>6
<1>8. ASSUME NEW t \in Threads, Fire(t) \/ Throw(t) \/ Reset(t)
      PROVE  mixed' = {} /\ epoch' = heard'
  <2>1. UNCHANGED <<position, heard, sent, epoch>> /\ (mixed' = mixed \/ mixed' = {})
    BY <1>8 DEF Fire, Throw, Reset, network, exchange, history
  <2>2. heard = SessionAt(position)
    BY <2>1 DEF SessionAt
  <2>3. ASSUME Throw(t) PROVE ~HasReset(t) /\ \A r \in Threads \ {t} : job'[r] = job[r]
    BY <1>1, <2>3 DEF Throw, fire_throws, SettledInv, JobsInOrder, Take
  <2>4. \A r \in Threads : ~HasReset(r)
    <3>1. CASE Throw(t)
      BY <2>3, <3>1 DEF HasReset
    <3>2. CASE Fire(t) \/ Reset(t)
      BY <3>2 DEF Fire, Reset, HasReset
    <3> QED BY <1>8, <3>1, <3>2
  <2> QED BY <1>2, <2>1, <2>2, <2>4
<1>9. CASE UNCHANGED vars
  <2>1. UNCHANGED <<position, heard, sent, job, mixed, epoch>>
    BY <1>9 DEF vars, exchange, network, history
  <2> QED BY <1>2, <2>1 DEF HasReset, SessionAt
<1> QED BY <1>3, <1>4, <1>5, <1>6, <1>7, <1>8, <1>9 DEF Next, Network, Thread

LEMMA SettledInvHolds == Spec => []SettledInv
<1>1. Init => SettledInv
  <2> SUFFICES ASSUME Init PROVE SettledInv
    OBVIOUS
  <2>1. Len(sent) = 0 /\ DOMAIN sent = {} /\ position = 0 /\ session = 1 /\ heard = 1
        /\ mixed = {} /\ epoch = 1 /\ \A t \in Threads : job[t] = <<>>
    BY DEF Init
  <2>2. SessionsInOrder
    BY <2>1 DEF SessionsInOrder, SessionAt
  <2>3. JobsInOrder
    BY <2>1 DEF JobsInOrder, Init, ManagerInit
  <2>4. Settled
    BY <2>1 DEF Settled, SessionAt
  <2> QED BY <2>2, <2>3, <2>4, InitHasInv DEF SettledInv
<1>2. SettledInv /\ [Next]_vars => SettledInv'
  <2> SUFFICES ASSUME SettledInv, [Next]_vars PROVE SettledInv'
    OBVIOUS
  <2>1. IInv'
    BY StepKeepsInv DEF SettledInv
  <2> QED BY <2>1, SessionsStep, JobsStep, SettledStep DEF SettledInv
<1> QED BY <1>1, <1>2, PTL DEF Spec

\* Once every I002 has been read and given to the manager, no book holds
\* anything of another session, however many restarts there were, in whichever
\* order the two groups announced them, and whatever callbacks threw and resets
\* the application asked for.
THEOREM MixedBooksSettle == Spec => []BooksSettle
<1>1. SettledInv => BooksSettle
  <2> SUFFICES ASSUME SettledInv, ResetsArrive, Window = 0, ResetsDone
               PROVE  mixed = {} /\ epoch = session
    BY DEF BooksSettle
  <2>1. Len(sent) \in Nat /\ position \in Nat /\ position <= Len(sent)
    BY DEF SettledInv, IInv, TypeOK, ExchangeOK, JobsInOrder
  <2>2. \A j \in position + 1 .. Len(sent) : ~IsReset(sent[j])
    BY DEF ResetsDone
  <2>3. SessionAt(position) = SessionAt(Len(sent))
    BY <2>1, <2>2, SameSession DEF SettledInv
  <2>4. heard = session /\ session = SessionAt(Len(sent))
    BY DEF ResetsDone, SettledInv, SessionsInOrder
  <2>5. \A t \in Threads : ~HasReset(t)
    BY DEF ResetsDone, HasReset
  <2> QED BY <2>3, <2>4, <2>5 DEF SettledInv, Settled
<1> QED BY <1>1, SettledInvHolds, PTL
-----------------------------------------------------------------------------
(***************************************************************************)
(* No false alarm                                                          *)
(***************************************************************************)
\* Has the manager taken in the header, or the body, of message i?
HeaderDone(i) ==
  Realtime \in DOMAIN channels /\ SeqAt(i) <= channels[Realtime].last_seq

BodyDone(i) ==
  Len(sent[i]) = 2 =>
    /\ sent[i][2].prod \in DOMAIN products
    /\ sent[i][2].seq <= products[sent[i][2].prod].last

OfCarousel(m) == m.kind = "I084" /\ (m.call = "header" => m.channel = Carousel)

AlreadyRead == UNION {{sent[i][n] : n \in DOMAIN sent[i]} : i \in 1 .. position}

\* As long as nothing was passed over, every message that was read is done, but
\* for the one that is under way; whatever is under way was sent.
ReadInOrder ==
  /\ \A i \in 1 .. position :
       /\ HeaderDone(i) \/ (i = position /\ job[RealtimeThread] = sent[i])
       /\ \/ BodyDone(i)
          \/ i = position /\ job[RealtimeThread] \in {sent[i], Tail(sent[i])}
  /\ \A t \in Threads : \A n \in DOMAIN job[t] :
       OfCarousel(job[t][n]) \/ job[t][n] \in AlreadyRead

NoneStale == \A p \in DOMAIN products : ~is_stale(products[p])

Undisturbed == session = 1 /\ ~skipped /\ ~MayReset /\ ~MayThrow

Calm == Undisturbed => ReadInOrder /\ NoneStale

OrderInv == IInv /\ SessionsInOrder /\ SequencesInOrder /\ JobsInOrder

\* The rest of a datagram of the realtime group.
LEMMA ShortTail ==
  ASSUME NEW S, NEW d \in Seq(S), Len(d) \in {1, 2}
  PROVE  /\ d # <<>> /\ Head(d) = d[1]
         /\ Tail(d) # <<>> <=> Len(d) = 2
         /\ Len(d) = 2 => Head(Tail(d)) = d[2] /\ Tail(Tail(d)) = <<>>
<1>1. /\ d # <<>> /\ Head(d) = d[1] /\ Tail(d) \in Seq(S) /\ Len(Tail(d)) = Len(d) - 1
      /\ \A n \in 1 .. Len(Tail(d)) : Tail(d)[n] = d[n + 1]
  BY HeadTailProperties, EmptySeq
<1>2. Tail(d) # <<>> <=> Len(Tail(d)) # 0
  BY <1>1, EmptySeq
<1>3. ASSUME Len(d) = 2 PROVE Head(Tail(d)) = d[2] /\ Tail(Tail(d)) = <<>>
  <2>1. Tail(d) # <<>> /\ Len(Tail(d)) = 1 /\ Tail(d)[1] = d[2]
    BY <1>1, <1>2, <1>3
  <2>2. /\ Head(Tail(d)) = Tail(d)[1] /\ Tail(Tail(d)) \in Seq(S)
        /\ Len(Tail(Tail(d))) = Len(Tail(d)) - 1
    BY <1>1, <2>1, HeadTailProperties
  <2>3. Len(Tail(Tail(d))) = 0
    BY <2>1, <2>2
  <2> QED BY <2>1, <2>2, <2>3, EmptySeq
<1> QED BY <1>1, <1>2, <1>3

\* What the next call of a thread is, where it was read and where it is in its
\* datagram.
LEMMA NextMessage ==
  ASSUME OrderInv, ReadInOrder, session = 1, NEW t \in Threads, job[t] # <<>>
  PROVE  LET m == Head(job[t])
         IN  /\ m \in GenuineCalls
             /\ OfCarousel(m) \/ \E i \in 1 .. position : \E n \in DOMAIN sent[i] : m = sent[i][n]
             /\ \A i \in 1 .. position : \A n \in DOMAIN sent[i] : m = sent[i][n] =>
                  /\ m.kind \notin {"I002", "I084"}
                  /\ m.call = "header" => n = 1 /\ m.channel = Realtime /\ m.seq = SeqAt(i)
                  /\ m.call = "product" => n = 2 /\ Len(sent[i]) = 2
<1>1. /\ IInv /\ SessionsInOrder /\ SequencesInOrder /\ DOMAIN sent = 1 .. Len(sent)
      /\ Len(sent) \in Nat /\ position \in Nat /\ position <= Len(sent)
      /\ job \in [Threads -> Seq(GenuineCalls)]
  BY DEF OrderInv, JobsInOrder, IInv, TypeOK, ExchangeOK, AllGenuine
<1>2. job[t] \in Seq(GenuineCalls)
  BY <1>1
<1>3. PICK m \in GenuineCalls : m = Head(job[t]) /\ m = job[t][1] /\ 1 \in DOMAIN job[t]
  BY <1>2
<1>4. OfCarousel(m) \/ \E i \in 1 .. position : \E n \in DOMAIN sent[i] : m = sent[i][n]
  BY <1>3 DEF ReadInOrder, AlreadyRead
<1>5. ASSUME NEW i \in 1 .. position, NEW n \in DOMAIN sent[i], m = sent[i][n]
      PROVE  /\ m.kind \notin {"I002", "I084"}
             /\ m.call = "header" => n = 1 /\ m.channel = Realtime /\ m.seq = SeqAt(i)
             /\ m.call = "product" => n = 2 /\ Len(sent[i]) = 2
  <2>1. i \in DOMAIN sent /\ i # 0
    BY <1>1
  <2>2. IsDatagram(sent[i], SessionAt(i)) /\ sent[i][1].kind # "I002"
    BY <1>1, <2>1 DEF SessionsInOrder, SequencesInOrder, ChannelSequence, ProductSequence
  <2>3. DOMAIN sent[i] = 1 .. Len(sent[i]) /\ Len(sent[i]) \in {1, 2}
    BY <1>1, <2>1, <2>2, SentType DEF IsDatagram
  <2>4. n = 1 \/ (n = 2 /\ Len(sent[i]) = 2)
    <3>1. Len(sent[i]) = 1 => n \in 1 .. 1
      BY <2>3
    <3>2. Len(sent[i]) = 2 => n \in 1 .. 2
      BY <2>3
    <3> QED BY <2>3, <3>1, <3>2
  <2>5. CASE n = 1
    BY <1>5, <2>1, <2>2, <2>5 DEF IsDatagram, SeqAt
  <2>6. CASE n = 2 /\ Len(sent[i]) = 2
    <3>1. m \in ProductCalls /\ m.call = "product" /\ m.kind # "I084"
      BY <1>1, <1>5, <2>1, <2>2, <2>6, SentType DEF IsDatagram
    <3> QED BY <2>6, <3>1 DEF ProductCalls, ProductKinds
  <2> QED BY <2>4, <2>5, <2>6
<1> QED BY <1>3, <1>4, <1>5

\* A receive thread that takes its next datagram.
LEMMA CalmNetwork ==
  ASSUME OrderInv, Calm, Network, Undisturbed'
  PROVE  ReadInOrder' /\ NoneStale'
<1>1. /\ IInv /\ SessionsInOrder /\ DOMAIN sent = 1 .. Len(sent)
      /\ Len(sent) \in Nat /\ position \in Nat /\ position <= Len(sent)
      /\ job \in [Threads -> Seq(Calls)] /\ skipped \in BOOLEAN
      /\ {RealtimeThread, CarouselThread} \subseteq Threads
  BY FeedAssumption DEF OrderInv, JobsInOrder, IInv, TypeOK, ExchangeOK
<1>2. UNCHANGED <<sent, session, products, channels>> /\ ~skipped
  BY <1>1 DEF Network, ReceiveRealtime, ReceiveAnyCarousel, ReceiveCarousel,
              ReceiveCarouselReset, exchange, manager, Undisturbed
<1>3. ReadInOrder /\ NoneStale
  BY <1>2 DEF Calm, Undisturbed
<1>4. NoneStale'
  BY <1>2, <1>3 DEF NoneStale
<1>5. ASSUME job[RealtimeThread] = <<>>, NEW i \in 1 .. position
      PROVE  HeaderDone(i)' /\ BodyDone(i)'
  <2>1. i \in DOMAIN sent
    BY <1>1
  <2>2. sent[i] \in Seq(GenuineCalls) /\ Len(sent[i]) \in {1, 2}
    BY <1>1, <2>1, SentType DEF SessionsInOrder, IsDatagram
  <2>3. sent[i] # <<>> /\ (Tail(sent[i]) = <<>> => Len(sent[i]) # 2)
    BY <2>2, ShortTail
  <2>4. HeaderDone(i) /\ BodyDone(i)
    BY <1>3, <1>5, <2>3 DEF ReadInOrder, BodyDone
  <2> QED BY <1>2, <2>4 DEF HeaderDone, SeqAt, BodyDone
<1>6. ASSUME NEW i \in DOMAIN sent, ReceiveRealtime(i) PROVE ReadInOrder'
  <2>1. /\ job[RealtimeThread] = <<>>
        /\ job'[RealtimeThread] = sent[i]
        /\ \A r \in Threads \ {RealtimeThread} : job'[r] = job[r]
        /\ position' = IF i > position THEN i ELSE position
        /\ ~(i > position + 1)
    BY <1>1, <1>6 DEF ReceiveRealtime, Idle, Take, Undisturbed
  <2>2. position' \in Nat /\ position <= position' /\ i \in 1 .. position'
    BY <1>1, <2>1
  <2>3. \A j \in 1 .. position' : j \in 1 .. position \/ (j = position' /\ j = i)
    BY <1>1, <2>1
  <2>4. \A j \in 1 .. position' :
          (HeaderDone(j)' /\ BodyDone(j)') \/ (j = position' /\ job'[RealtimeThread] = sent'[j])
    BY <1>2, <1>5, <2>1, <2>3
  <2>5. ASSUME NEW t \in Threads, NEW n \in DOMAIN job'[t]
        PROVE  OfCarousel(job'[t][n]) \/ job'[t][n] \in AlreadyRead'
    <3>1. CASE t = RealtimeThread
      BY <1>2, <2>1, <2>2, <2>5, <3>1 DEF AlreadyRead
    <3>2. CASE t # RealtimeThread
      <4>1. OfCarousel(job[t][n]) \/ job[t][n] \in AlreadyRead
        BY <1>3, <2>1, <2>5, <3>2 DEF ReadInOrder
      <4>2. job'[t][n] = job[t][n] /\ 1 .. position \subseteq 1 .. position'
        BY <1>1, <2>1, <2>2, <3>2
      <4> QED BY <1>2, <4>1, <4>2 DEF AlreadyRead
    <3> QED BY <3>1, <3>2
  <2> QED BY <2>4, <2>5 DEF ReadInOrder, OfCarousel
<1>7. CASE ReceiveAnyCarousel
  <2>1. PICK s \in Sessions : \E calls \in Seq(CarouselCalls(s)) :
          /\ Idle(CarouselThread) /\ Take(CarouselThread, calls)
          /\ UNCHANGED <<position, skipped, manager, exchange, history>>
    BY <1>1, <1>7, CarouselTakes
  <2>2. PICK calls \in Seq(CarouselCalls(s)) : Take(CarouselThread, calls)
    BY <2>1
  <2>3. \A n \in DOMAIN calls : calls[n] \in CarouselCalls(s)
    OBVIOUS
  <2>4. /\ job[CarouselThread] = <<>> /\ job'[CarouselThread] = calls
        /\ \A r \in Threads \ {CarouselThread} : job'[r] = job[r]
        /\ position' = position
    BY <1>1, <2>1, <2>2 DEF Idle, Take
  <2>5. \A n \in DOMAIN job'[CarouselThread] : OfCarousel(job'[CarouselThread][n])
    BY <2>3, <2>4 DEF OfCarousel, CarouselCalls
  <2>6. \A t \in Threads : \A n \in DOMAIN job'[t] :
          OfCarousel(job'[t][n]) \/ job'[t][n] \in AlreadyRead'
    BY <1>2, <1>3, <2>4, <2>5 DEF ReadInOrder, AlreadyRead
  <2>7. ASSUME NEW i \in 1 .. position
        PROVE  /\ HeaderDone(i)' \/ (i = position /\ job'[RealtimeThread] = sent[i])
               /\ \/ BodyDone(i)'
                  \/ i = position /\ job'[RealtimeThread] \in {sent[i], Tail(sent[i])}
    <3>1. CASE RealtimeThread = CarouselThread
      BY <1>5, <2>4, <3>1
    <3>2. CASE RealtimeThread # CarouselThread
      <4>1. job'[RealtimeThread] = job[RealtimeThread]
        BY <1>1, <2>4, <3>2
      <4> QED BY <1>2, <1>3, <4>1 DEF ReadInOrder, HeaderDone, SeqAt, BodyDone
    <3> QED BY <3>1, <3>2
  <2> QED BY <1>2, <1>4, <2>4, <2>6, <2>7 DEF ReadInOrder, OfCarousel
<1>8. ASSUME NEW s \in 2 .. session PROVE FALSE
  BY <1>2, <1>8 DEF Undisturbed
<1>9. ReadInOrder'
  BY <1>6, <1>7, <1>8 DEF Network
<1> QED BY <1>4, <1>9

\* The rest of what a thread has in hand after a call.
LEMMA RestInHand ==
  ASSUME OrderInv, ReadInOrder, NEW t \in Threads, job[t] # <<>>, Take(t, Tail(job[t])),
         UNCHANGED <<sent, position>>
  PROVE  /\ job'[t] = Tail(job[t])
         /\ \A r \in Threads \ {t} : job'[r] = job[r]
         /\ \A r \in Threads : \A n \in DOMAIN job'[r] :
              OfCarousel(job'[r][n]) \/ job'[r][n] \in AlreadyRead'
<1>1. job \in [Threads -> Seq(Calls)]
  BY DEF OrderInv, IInv, TypeOK
<1>2. job'[t] = Tail(job[t]) /\ \A r \in Threads \ {t} : job'[r] = job[r]
  BY <1>1 DEF Take
<1>3. AlreadyRead' = AlreadyRead
  BY DEF AlreadyRead
<1>4. ASSUME NEW n \in DOMAIN Tail(job[t])
      PROVE  \E l \in DOMAIN job[t] : Tail(job[t])[n] = job[t][l]
  <2>1. job[t] \in Seq(Calls)
    BY <1>1
  <2>2. /\ Tail(job[t]) \in Seq(Calls) /\ Len(Tail(job[t])) = Len(job[t]) - 1
        /\ \A l \in 1 .. Len(Tail(job[t])) : Tail(job[t])[l] = job[t][l + 1]
        /\ Len(job[t]) \in Nat /\ DOMAIN job[t] = 1 .. Len(job[t])
    BY <2>1, HeadTailProperties, LenProperties
  <2>3. n \in 1 .. Len(Tail(job[t]))
    BY <1>4, <2>2, LenProperties
  <2> QED BY <2>2, <2>3
<1>5. \A l \in DOMAIN job[t] : OfCarousel(job[t][l]) \/ job[t][l] \in AlreadyRead
  BY DEF ReadInOrder
<1>6. ASSUME NEW r \in Threads, NEW n \in DOMAIN job'[r]
      PROVE  OfCarousel(job'[r][n]) \/ job'[r][n] \in AlreadyRead'
  <2>1. CASE r = t
    BY <1>2, <1>3, <1>4, <1>5, <1>6, <2>1
  <2>2. CASE r # t
    <3>1. job'[r] = job[r]
      BY <1>2, <2>2
    <3> QED BY <1>3, <1>6, <3>1 DEF ReadInOrder
  <2> QED BY <2>1, <2>2
<1> QED BY <1>2, <1>6

\* on_header: the header of a message whose predecessor was taken in is no gap,
\* and neither is a jump of the carousel.
LEMMA CalmHeader ==
  ASSUME OrderInv, ReadInOrder, NoneStale, session = 1, NEW t \in Threads, CallHeader(t)
  PROVE  ReadInOrder' /\ NoneStale'
<1>1. /\ IInv /\ SessionsInOrder /\ SequencesInOrder /\ DOMAIN sent = 1 .. Len(sent)
      /\ Len(sent) \in Nat /\ position \in Nat /\ position <= Len(sent)
      /\ sent \in Seq(Seq(GenuineCalls))
  BY DEF OrderInv, JobsInOrder, IInv, TypeOK, ExchangeOK, AllGenuine
<1>2. /\ job[t] # <<>> /\ Take(t, Tail(job[t])) /\ UNCHANGED <<sent, position, session>>
      /\ on_header(t, Head(job[t])) /\ Head(job[t]).call = "header"
  BY DEF CallHeader, HasCall, exchange, network
<1>3. PICK h \in HeaderCalls : h = Head(job[t])
  BY <1>2, NextMessage DEF GenuineCalls, Calls, HeaderCalls, ProductCalls
<1>4. \A i \in 1 .. position : \A n \in DOMAIN sent[i] : h = sent[i][n] =>
        n = 1 /\ h.kind \notin {"I002", "I084"} /\ h.channel = Realtime /\ h.seq = SeqAt(i)
  BY <1>2, <1>3, NextMessage
<1>5. \/ h.kind = "I084" /\ h.channel = Carousel
      \/ \E i \in 1 .. position : \E n \in DOMAIN sent[i] : h = sent[i][n]
  BY <1>2, <1>3, NextMessage DEF OfCarousel
<1>6. h.kind # "I002"
  BY <1>4, <1>5
<1>7. /\ h.seq \in Nat
      /\ \A c \in DOMAIN channels : channels[c] \in ChannelState
  BY <1>1, <1>3 DEF HeaderCalls, IInv, TypeOK, ManagerOK
<1>8. ~channel_gap(h)
  <2>1. CASE h.kind = "I084"
    BY <2>1 DEF channel_gap, track_channel
  <2>2. ASSUME NEW i \in 1 .. position, NEW n \in DOMAIN sent[i], h = sent[i][n],
               Realtime \in DOMAIN channels
        PROVE  h.seq <= channels[Realtime].last_seq + (IF h.kind = "I001" THEN 0 ELSE 1)
    <3>1. /\ h.channel = Realtime /\ h.seq = SeqAt(i) /\ h = sent[i][1]
          /\ channels[Realtime].last_seq \in Nat
      BY <1>4, <1>7, <2>2 DEF ChannelState
    <3>2. SeqAt(i) = SeqAt(i - 1) + (IF h.kind = "I001" THEN 0 ELSE 1)
      <4>1. i \in DOMAIN sent
        BY <1>1
      <4>2. SeqAt(i) = SeqAt(i - 1) + (IF sent[i][1].kind = "I001" THEN 0 ELSE 1)
        BY <1>1, <4>1 DEF SequencesInOrder, ChannelSequence, ProductSequence
      <4> QED BY <3>1, <4>2
    <3>3. SeqAt(i - 1) <= channels[Realtime].last_seq /\ SeqAt(i - 1) \in Nat
      <4>1. CASE i = 1
        BY <3>1, <4>1 DEF SeqAt
      <4>2. CASE i # 1
        <5>1. i - 1 \in 1 .. position /\ i - 1 # position /\ i - 1 \in DOMAIN sent
          BY <1>1, <4>2
        <5>2. HeaderDone(i - 1)
          BY <5>1 DEF ReadInOrder
        <5> QED BY <1>1, <5>1, <5>2, FirstSessionMessage DEF HeaderDone
      <4> QED BY <4>1, <4>2
    <3> QED BY <3>1, <3>2, <3>3
  <2>3. CASE h.kind # "I084"
    <3>1. PICK i \in 1 .. position : \E n \in DOMAIN sent[i] : h = sent[i][n]
      BY <1>5, <2>3
    <3>2. h.channel = Realtime
      BY <1>4, <3>1
    <3>3. Realtime \in DOMAIN channels =>
            h.seq <= channels[Realtime].last_seq + (IF h.kind = "I001" THEN 0 ELSE 1)
      BY <2>2, <3>1
    <3>4. Realtime \in DOMAIN channels => channels[Realtime].last_seq \in Nat
      BY <1>7 DEF ChannelState
    <3> QED BY <1>7, <3>2, <3>3, <3>4 DEF channel_gap
  <2> QED BY <2>1, <2>3
<1>9. TrackChannel(h) /\ UNCHANGED products
  BY <1>2, <1>3, <1>6, <1>8 DEF on_header, on_header_reset, on_header_quiet, on_header_gap
<1>10. /\ DOMAIN channels' = DOMAIN channels \cup {h.channel}
       /\ Realtime \in DOMAIN channels =>
            channels[Realtime].last_seq <= channels'[Realtime].last_seq
       /\ h.channel = Realtime => h.seq <= channels'[Realtime].last_seq
  <2>1. DOMAIN channels' = DOMAIN channels \cup {h.channel}
    BY <1>9 DEF TrackChannel
  <2>2. CASE h.channel = Realtime
    <3>1. channels'[Realtime] = track_channel(h)
      BY <1>9, <2>2 DEF TrackChannel
    <3> QED BY <1>7, <2>1, <2>2, <3>1 DEF track_channel, ChannelState
  <2>3. CASE h.channel # Realtime
    <3>1. Realtime \in DOMAIN channels => channels'[Realtime] = channels[Realtime]
      BY <1>9, <2>3 DEF TrackChannel
    <3> QED BY <1>7, <2>1, <2>3, <3>1 DEF ChannelState
  <2> QED BY <2>2, <2>3
<1>11. ASSUME NEW i \in 1 .. position
       PROVE  /\ HeaderDone(i)' \/ (i = position /\ job'[RealtimeThread] = sent[i])
              /\ \/ BodyDone(i)'
                 \/ i = position /\ job'[RealtimeThread] \in {sent[i], Tail(sent[i])}
  <2>1. i \in DOMAIN sent /\ SeqAt(i) \in Nat
    BY <1>1, FirstSessionMessage
  <2>2. HeaderDone(i) => HeaderDone(i)'
    <3>1. Realtime \in DOMAIN channels =>
            channels[Realtime].last_seq \in Nat /\ channels'[Realtime].last_seq \in Nat
      <4>1. IInv'
        BY <1>1, CallHeaderStep
      <4> QED BY <1>7, <1>10, <4>1 DEF ChannelState, IInv, TypeOK, ManagerOK
    <3> QED BY <1>2, <1>10, <2>1, <3>1 DEF HeaderDone, SeqAt
  <2>3. BodyDone(i) => BodyDone(i)'
    BY <1>2, <1>9 DEF BodyDone
  <2>4. /\ HeaderDone(i) \/ (i = position /\ job[RealtimeThread] = sent[i])
        /\ \/ BodyDone(i)
           \/ i = position /\ job[RealtimeThread] \in {sent[i], Tail(sent[i])}
    BY DEF ReadInOrder
  <2>5. CASE t = RealtimeThread
    <3>1. ASSUME i = position, job[t] = sent[i]
          PROVE  HeaderDone(i)' /\ job'[t] = Tail(sent[i])
      <4>1. sent[i] # <<>> /\ Head(sent[i]) = sent[i][1] /\ 1 \in DOMAIN sent[i]
        BY <1>1, <1>2, <2>1, <3>1
      <4>2. h.channel = Realtime /\ h.seq = SeqAt(i)
        BY <1>3, <1>4, <3>1, <4>1
      <4> QED BY <1>2, <1>10, <2>1, <3>1, <4>2, RestInHand DEF HeaderDone, SeqAt
    <3>2. ASSUME job[t] = Tail(sent[i]) PROVE FALSE
      <4>1. IsDatagram(sent[i], SessionAt(i))
        BY <1>1, <2>1 DEF SessionsInOrder
      <4>2. PICK d \in Seq(GenuineCalls) : d = sent[i] /\ Len(d) \in {1, 2}
        BY <1>1, <2>1, <4>1 DEF IsDatagram
      <4>3. Len(d) = 2 /\ Head(Tail(d)) = d[2]
        BY <1>2, <3>2, <4>2, ShortTail
      <4>4. h = d[2]
        BY <1>3, <3>2, <4>2, <4>3
      <4> QED BY <1>2, <1>3, <4>1, <4>2, <4>3, <4>4 DEF IsDatagram
    <3> QED BY <2>2, <2>3, <2>4, <2>5, <3>1, <3>2
  <2>6. CASE t # RealtimeThread
    <3>1. job'[RealtimeThread] = job[RealtimeThread]
      BY <1>2, <2>6, FeedAssumption, RestInHand
    <3> QED BY <2>2, <2>3, <2>4, <3>1
  <2> QED BY <2>5, <2>6
<1>12. \A r \in Threads : \A n \in DOMAIN job'[r] :
         OfCarousel(job'[r][n]) \/ job'[r][n] \in AlreadyRead'
  BY <1>2, RestInHand
<1>13. ReadInOrder'
  BY <1>2, <1>11, <1>12 DEF ReadInOrder, OfCarousel
<1>14. NoneStale'
  BY <1>9 DEF NoneStale
<1> QED BY <1>13, <1>14

\* A product message that is no snapshot finds the book of the serial before.
LEMMA PredecessorDone ==
  ASSUME OrderInv, ReadInOrder, NoneStale, session = 1,
         NEW i \in 1 .. position, Len(sent[i]) = 2, NEW m, m = sent[i][2],
         ~IsSnapshot(m), ~IsIgnored(m)
  PROVE  ~is_stale(track_seq(get_or_create(m.prod), m.seq))
<1>1. /\ IInv /\ SessionsInOrder /\ SequencesInOrder /\ DOMAIN sent = 1 .. Len(sent)
      /\ Len(sent) \in Nat /\ position \in Nat /\ position <= Len(sent)
  BY DEF OrderInv, JobsInOrder, IInv, TypeOK, ExchangeOK
<1>2. i \in DOMAIN sent
  BY <1>1
<1>3. IsDatagram(sent[i], SessionAt(i))
  BY <1>1, <1>2 DEF SessionsInOrder
<1>4. m \in ProductCalls /\ Genuine(m) /\ m.call = "product" /\ m.session = 1
      /\ m.prod \in Products /\ m.seq \in Nat /\ m.seq <= Serial(1, m.prod)
  BY <1>1, <1>2, <1>3, SentType, FirstSessionMessage DEF IsDatagram
<1>5. PICK p \in Products, k \in Nat \ {0} : p = m.prod /\ k = m.seq
  BY <1>4 DEF Genuine
<1>6. PICK old : old = get_or_create(p)
  OBVIOUS
<1>7. /\ p \in DOMAIN products => old = products[p] /\ old \in ProductState /\ ~is_stale(old)
      /\ p \notin DOMAIN products => old = NewProduct
  BY <1>1, <1>6 DEF get_or_create, NoneStale, IInv, TypeOK, ManagerOK
<1>8. old \in ProductState
  <2>1. NewProduct \in ProductState
    BY DEF NewProduct, ProductState, EmptyBook, Book, Ladder
  <2> QED BY <1>7, <2>1
<1>9. old.last = 0 \/ k > old.last
  BY <1>5, <1>6 DEF IsIgnored, is_new
<1>10. ASSUME k # 1
       PROVE  p \in DOMAIN products /\ old.last = k - 1 /\ old.last # 0
  <2>1. k - 1 \in 1 .. Serial(1, p)
    <3>1. Serial(1, p) \in Nat
      BY <1>1, <1>5, BookAtType DEF IInv, TypeOK, ExchangeOK
    <3> QED BY <1>4, <1>5, <1>10, <3>1
  <2>2. PICK j \in DOMAIN sent : IsOf(j, p) /\ sent[j][2].seq = k - 1
    BY <1>1, <1>5, <2>1 DEF SequencesInOrder, ChannelSequence, ProductSequence
  <2>3. IsOf(i, p) /\ sent[i][2].seq = k
    BY <1>5 DEF IsOf
  <2>4. j < i
    <3>1. i \in Nat /\ j \in Nat
      BY <1>1
    <3>2. ~(i < j)
      <4>1. i < j => k < k - 1
        BY <1>1, <1>2, <1>5, <2>2, <2>3 DEF SequencesInOrder, ChannelSequence, ProductSequence
      <4> QED BY <4>1
    <3>3. i # j
      BY <2>2, <2>3
    <3> QED BY <3>1, <3>2, <3>3
  <2>5. j \in 1 .. position /\ j # position
    BY <1>1, <2>4
  <2>6. BodyDone(j)
    BY <2>5 DEF ReadInOrder
  <2>7. p \in DOMAIN products /\ k - 1 <= products[p].last
    BY <2>2, <2>6 DEF BodyDone, IsOf
  <2> QED BY <1>7, <1>9, <1>10, <2>7 DEF ProductState
<1>11. track_seq(old, k).synced /\ ~track_seq(old, k).suspect
  <2>1. CASE k = 1
    <3>1. old.last = 0
      BY <1>8, <1>9, <2>1 DEF ProductState
    <3> QED BY <1>8, <2>1, <3>1 DEF track_seq, ProductState
  <2>2. CASE k # 1
    <3>1. old.synced
      BY <1>7, <1>10, <2>2 DEF is_stale
    <3> QED BY <1>8, <1>10, <2>2, <3>1 DEF track_seq, ProductState
  <2> QED BY <2>1, <2>2
<1> QED BY <1>5, <1>6, <1>11 DEF is_stale

\* A product message: taken in, it leaves a trusted book; ignored, its serial
\* was there already.
LEMMA CalmProduct ==
  ASSUME OrderInv, ReadInOrder, NoneStale, session = 1, NEW t \in Threads, CallProduct(t)
  PROVE  ReadInOrder' /\ NoneStale'
<1>1. /\ IInv /\ SessionsInOrder /\ DOMAIN sent = 1 .. Len(sent)
      /\ Len(sent) \in Nat /\ position \in Nat /\ position <= Len(sent)
      /\ sent \in Seq(Seq(GenuineCalls))
      /\ \A p \in DOMAIN products : products[p] \in ProductState
  BY DEF OrderInv, JobsInOrder, IInv, TypeOK, ExchangeOK, AllGenuine, ManagerOK
<1>2. /\ job[t] # <<>> /\ Take(t, Tail(job[t])) /\ UNCHANGED <<sent, position, session>>
      /\ on_product(t, Head(job[t])) /\ Head(job[t]).call = "product"
  BY DEF CallProduct, HasCall, exchange, network
<1>3. PICK m \in ProductCalls : m = Head(job[t]) /\ m.call = "product"
  BY <1>2, NextMessage DEF GenuineCalls, Calls, HeaderCalls, ProductCalls
<1>4. \A i \in 1 .. position : \A n \in DOMAIN sent[i] : m = sent[i][n] =>
        n = 2 /\ Len(sent[i]) = 2
  BY <1>2, <1>3, NextMessage
<1>5. m.kind = "I084" \/ \E i \in 1 .. position : \E n \in DOMAIN sent[i] : m = sent[i][n]
  BY <1>2, <1>3, NextMessage DEF OfCarousel
<1>6. UNCHANGED channels
  BY <1>2, <1>3, ProductCases
<1>7. m.prod \in Products /\ m.seq \in Nat
  BY <1>3 DEF ProductCalls
<1>8. /\ DOMAIN products \subseteq DOMAIN products'
      /\ m.prod \in DOMAIN products' /\ m.seq <= products'[m.prod].last
      /\ \A p \in DOMAIN products : products[p].last <= products'[p].last
  <2>1. /\ DOMAIN products' = DOMAIN products \cup {m.prod}
        /\ m.seq <= products'[m.prod].last
        /\ m.prod \in DOMAIN products => products[m.prod].last <= products'[m.prod].last
        /\ \A r \in DOMAIN products \ {m.prod} : products'[r] = products[r]
    BY <1>1, <1>2, <1>3, SerialReached
  <2>2. \A p \in DOMAIN products \ {m.prod} : products[p].last <= products'[p].last
    BY <1>1, <2>1 DEF ProductState
  <2> QED BY <2>1, <2>2
<1>9. NoneStale'
  <2>1. CASE IsIgnored(m)
    BY <1>2, <1>3, <2>1, ProductCases DEF NoneStale
  <2>2. CASE ~IsIgnored(m)
    <3>1. PICK old, k : old = get_or_create(m.prod) /\ k = m.seq
      OBVIOUS
    <3>2. old \in ProductState
      BY <1>1, <3>1 DEF get_or_create, NewProduct, ProductState, EmptyBook, Book, Ladder
    <3>3. PICK st : products' = Stored(m.prod, st) /\ ~is_stale(st)
      <4>1. CASE IsSnapshot(m)
        <5>1. products' = Stored(m.prod, adopt_snapshot(old, k, m.entries))
          BY <1>2, <1>3, <2>2, <3>1, <4>1, ProductCases
        <5>2. ~is_stale(adopt_snapshot(old, k, m.entries))
          BY <3>2 DEF adopt_snapshot, is_stale, ProductState
        <5> QED BY <5>1, <5>2
      <4>2. CASE ~IsSnapshot(m)
        <5>1. PICK i \in 1 .. position : \E n \in DOMAIN sent[i] : m = sent[i][n]
          BY <1>5, <4>2 DEF IsSnapshot
        <5>2. m = sent[i][2] /\ Len(sent[i]) = 2
          BY <1>4, <5>1
        <5>3. ~is_stale(track_seq(old, k))
          BY <2>2, <3>1, <4>2, <5>2, PredecessorDone
        <5> DEFINE applied == [track_seq(old, k) EXCEPT !.book = apply_entries(@, m.entries)]
        <5>4. ~is_stale(applied)
          <6>1. applied.synced = track_seq(old, k).synced
                /\ applied.suspect = track_seq(old, k).suspect
            BY <3>2 DEF track_seq, ProductState
          <6> QED BY <5>3, <6>1 DEF is_stale
        <5>5. products' = Stored(m.prod, track_seq(old, k)) \/ products' = Stored(m.prod, applied)
          BY <1>2, <1>3, <2>2, <3>1, <4>2, ProductCases
        <5> QED BY <5>3, <5>4, <5>5
      <4> QED BY <4>1, <4>2
    <3> QED BY <3>3 DEF NoneStale, Stored
  <2> QED BY <2>1, <2>2
<1>10. ASSUME NEW i \in 1 .. position
       PROVE  /\ HeaderDone(i)' \/ (i = position /\ job'[RealtimeThread] = sent[i])
              /\ \/ BodyDone(i)'
                 \/ i = position /\ job'[RealtimeThread] \in {sent[i], Tail(sent[i])}
  <2>1. i \in DOMAIN sent
    BY <1>1
  <2>2. HeaderDone(i) => HeaderDone(i)'
    BY <1>2, <1>6 DEF HeaderDone, SeqAt
  <2>3. BodyDone(i) => BodyDone(i)'
    <3>1. ASSUME Len(sent[i]) = 2, sent[i][2].prod \in DOMAIN products,
                 sent[i][2].seq <= products[sent[i][2].prod].last
          PROVE  sent[i][2].seq <= products'[sent[i][2].prod].last
      <4>1. PICK p \in Products, k \in Nat : p = sent[i][2].prod /\ k = sent[i][2].seq
        BY <1>1, <2>1, <3>1, FirstSessionMessage
      <4>2. products[p].last \in Nat /\ products[p].last <= products'[p].last
        BY <1>1, <1>8, <3>1, <4>1 DEF ProductState
      <4>3. products'[p].last \in Nat
        <5>1. IInv'
          BY <1>1, CallProductStep
        <5> QED BY <1>8, <3>1, <4>1, <5>1 DEF IInv, TypeOK, ManagerOK, ProductState
      <4> QED BY <3>1, <4>1, <4>2, <4>3
    <3> QED BY <1>2, <1>8, <3>1 DEF BodyDone
  <2>4. /\ HeaderDone(i) \/ (i = position /\ job[RealtimeThread] = sent[i])
        /\ \/ BodyDone(i)
           \/ i = position /\ job[RealtimeThread] \in {sent[i], Tail(sent[i])}
    BY DEF ReadInOrder
  <2>5. CASE t = RealtimeThread
    <3>1. IsDatagram(sent[i], SessionAt(i))
      BY <1>1, <2>1 DEF SessionsInOrder
    <3>2. PICK d \in Seq(GenuineCalls) : d = sent[i] /\ Len(d) \in {1, 2}
      BY <1>1, <2>1, <3>1 DEF IsDatagram
    <3>3. job[t] # sent[i]
      <4>1. Head(d) = d[1]
        BY <3>2, ShortTail
      <4> QED BY <1>2, <3>1, <3>2, <4>1 DEF IsDatagram
    <3>4. ASSUME job[t] = Tail(sent[i]) PROVE BodyDone(i)'
      <4>1. Len(d) = 2 /\ Head(Tail(d)) = d[2]
        BY <1>2, <3>2, <3>4, ShortTail
      <4>2. m = sent[i][2]
        BY <1>3, <3>2, <3>4, <4>1
      <4> QED BY <1>2, <1>8, <4>2 DEF BodyDone
    <3> QED BY <2>2, <2>3, <2>4, <2>5, <3>3, <3>4
  <2>6. CASE t # RealtimeThread
    <3>1. job'[RealtimeThread] = job[RealtimeThread]
      BY <1>2, <2>6, FeedAssumption, RestInHand
    <3> QED BY <2>2, <2>3, <2>4, <3>1
  <2> QED BY <2>5, <2>6
<1>11. \A r \in Threads : \A n \in DOMAIN job'[r] :
         OfCarousel(job'[r][n]) \/ job'[r][n] \in AlreadyRead'
  BY <1>2, RestInHand
<1>12. ReadInOrder'
  BY <1>2, <1>10, <1>11 DEF ReadInOrder, OfCarousel
<1> QED BY <1>9, <1>12

LEMMA CalmStep ==
  ASSUME OrderInv, Calm, [Next]_vars
  PROVE  Calm'
<1> SUFFICES ASSUME Undisturbed' PROVE ReadInOrder' /\ NoneStale'
  BY DEF Calm
<1>1. ASSUME UNCHANGED <<session, skipped>> PROVE ReadInOrder /\ NoneStale /\ session = 1
  BY <1>1 DEF Calm, Undisturbed
<1>2. ASSUME UNCHANGED <<skipped, session, sent, position, job, channels, products>>
      PROVE  ReadInOrder' /\ NoneStale'
  <2>1. ReadInOrder /\ NoneStale
    BY <1>1, <1>2
  <2> QED BY <1>2, <2>1
          DEF ReadInOrder, NoneStale, HeaderDone, BodyDone, SeqAt, AlreadyRead, OfCarousel
<1>3. CASE Exchange
  <2>1. PICK d : /\ Sends(d)
                 /\ \/ SendsNoProduct(d) \/ SendsReset(d)
                    \/ \E p \in Products : SendsMessage(d, p)
    BY <1>3, ExchangeSends DEF OrderInv
  <2>2. UNCHANGED <<skipped, position, job, channels, products>>
    BY <2>1 DEF Sends, manager, network
  <2>3. session = 1
    BY <2>1 DEF SendsReset, SendsNoProduct, SendsMessage, Undisturbed, OrderInv, IInv,
                TypeOK, ExchangeOK, Sessions
  <2>4. ReadInOrder /\ NoneStale
    BY <2>2, <2>3 DEF Calm, Undisturbed
  <2>5. IInv /\ position \in Nat /\ position <= Len(sent)
    BY DEF OrderInv, IInv, TypeOK, JobsInOrder
  <2>6. PICK n \in Nat : n = Len(sent) /\ \A i \in 1 .. n : sent'[i] = sent[i]
    BY <2>1, <2>5, SentGrows
  <2>7. \A i \in 1 .. position : sent'[i] = sent[i] /\ i # 0
    BY <2>5, <2>6
  <2>8. AlreadyRead' = AlreadyRead
    BY <2>2, <2>7 DEF AlreadyRead
  <2>9. \A i \in 1 .. position :
          HeaderDone(i)' = HeaderDone(i) /\ BodyDone(i)' = BodyDone(i)
    BY <2>2, <2>7 DEF HeaderDone, BodyDone, SeqAt
  <2>10. ReadInOrder'
    BY <2>2, <2>4, <2>7, <2>8, <2>9 DEF ReadInOrder, OfCarousel
  <2> QED BY <2>2, <2>4, <2>10 DEF NoneStale
<1>4. CASE Network
  BY <1>4, CalmNetwork
<1>5. ASSUME NEW t \in Threads, CallHeader(t) PROVE ReadInOrder' /\ NoneStale'
  <2>1. UNCHANGED <<session, skipped>>
    BY <1>5 DEF CallHeader, exchange, network
  <2> QED BY <1>1, <1>5, <2>1, CalmHeader
<1>6. ASSUME NEW t \in Threads, CallProduct(t) PROVE ReadInOrder' /\ NoneStale'
  <2>1. UNCHANGED <<session, skipped>>
    BY <1>6 DEF CallProduct, exchange, network
  <2> QED BY <1>1, <1>6, <2>1, CalmProduct
<1>7. ASSUME NEW t \in Threads, Fire(t) PROVE ReadInOrder' /\ NoneStale'
  BY <1>2, <1>7 DEF Fire, fire, exchange, network
<1>8. CASE UNCHANGED vars
  BY <1>2, <1>8 DEF vars, manager, exchange, network
<1>9. ~MayReset /\ ~MayThrow
  BY DEF Undisturbed
<1> QED BY <1>3, <1>4, <1>5, <1>6, <1>7, <1>8, <1>9 DEF Next, Thread

LEMMA CalmHolds == Spec => [](OrderInv /\ Calm)
<1>1. Init => OrderInv /\ Calm
  <2> SUFFICES ASSUME Init PROVE OrderInv /\ Calm
    OBVIOUS
  <2>1. Len(sent) = 0 /\ DOMAIN sent = {} /\ position = 0 /\ session = 1 /\ cseq = 0
        /\ DOMAIN products = {} /\ \A t \in Threads : job[t] = <<>>
    BY DEF Init, ManagerInit, NoProducts
  <2>2. \A p \in Products : Serial(1, p) = 0
    BY FeedAssumption DEF Init, Serial, Sessions
  <2>3. SessionsInOrder
    BY <2>1 DEF SessionsInOrder, SessionAt
  <2>4. SequencesInOrder
    BY <2>1, <2>2 DEF SequencesInOrder, ChannelSequence, ProductSequence, SeqAt
  <2>5. JobsInOrder
    BY <2>1 DEF JobsInOrder, Init, ManagerInit
  <2>6. Calm
    BY <2>1 DEF Calm, ReadInOrder, NoneStale
  <2> QED BY <2>3, <2>4, <2>5, <2>6, InitHasInv DEF OrderInv
<1>2. OrderInv /\ Calm /\ [Next]_vars => (OrderInv /\ Calm)'
  <2> SUFFICES ASSUME OrderInv, Calm, [Next]_vars PROVE OrderInv' /\ Calm'
    OBVIOUS
  <2>1. IInv'
    BY StepKeepsInv DEF OrderInv
  <2>2. OrderInv'
    BY <2>1, SessionsStep, SequencesStep, JobsStep DEF OrderInv
  <2> QED BY <2>2, CalmStep
<1> QED BY <1>1, <1>2, PTL DEF Spec

\* Until the first restart, as long as the realtime group has lost nothing, the
\* application does not call reset() and no callback throws, no book is stale: for
\* any number of products and threads, whatever the carousel repeats, and however
\* late a realtime message that was already taken in comes again.
THEOREM NoAlarmIsFalse == Spec => []NoFalseAlarm
<1>1. Calm => NoFalseAlarm
  BY DEF Calm, NoFalseAlarm, Undisturbed, NoneStale
<1> QED BY <1>1, CalmHolds, PTL
-----------------------------------------------------------------------------
(***************************************************************************)
(* With one thread reading both groups in order, a loss the channel        *)
(* tracker has seen leaves no fresh book behind it that misses a message:  *)
(* whatever is lost, however old the carousel's blocks are, whenever the   *)
(* application resets and whichever callbacks throw.  Books adopted from a *)
(* block that was behind the realtime group when read are left out.        *)
(***************************************************************************)
SingleReader == RealtimeThread = CarouselThread /\ Window = 0

\* The reader still has to make the product call of the last message it took.
HoldsBody ==
  /\ position > 0
  /\ Len(sent[position]) = 2
  /\ job[RealtimeThread] = Tail(sent[position])

\* A block of the carousel has every message of its product that was read, or
\* is known to be behind.
IsUpToDate(m) ==
  /\ OfCarousel(m)
  /\ m.call = "product" =>
       \/ m.prod \in behind
       \/ \A i \in 1 .. position : IsOf(i, m.prod) => sent[i][2].seq <= m.seq

HandKnown ==
  \/ job[RealtimeThread] = <<>>
  \/ position > 0 /\ job[RealtimeThread] \in {sent[position], Tail(sent[position])}
  \/ \A n \in DOMAIN job[RealtimeThread] : IsUpToDate(job[RealtimeThread][n])

ChannelBehind ==
  Realtime \in DOMAIN channels =>
    /\ ~channels[Realtime].is_snapshot_channel
    /\ channels[Realtime].last_seq <= SeqAt(position)

\* A callback that throws while a product call is still to come is one that a
\* gap of the channel made: no book is fresh then.
BodySafe ==
  pending[RealtimeThread] # <<>> /\ HoldsBody =>
    Realtime \notin DOMAIN channels \/ \A p \in DOMAIN products : is_stale(products[p])

Covered ==
  Realtime \in DOMAIN channels =>
    \A p \in DOMAIN products \ outdated : ~is_stale(products[p]) =>
      \A i \in 1 .. position :
        IsOf(i, p) /\ base < SeqAt(i) /\ SeqAt(i) <= channels[Realtime].last_seq =>
          sent[i][2].seq <= products[p].last \/ (i = position /\ HoldsBody)

-----------------------------------------------------------------------------
(***************************************************************************)
(* What the order of the group gives                                       *)
(***************************************************************************)
\* The facts every step needs.
LEMMA Basics ==
  ASSUME OrderInv
  PROVE  /\ IInv /\ SessionsInOrder /\ SequencesInOrder /\ JobsInOrder
         /\ sent \in Seq(Seq(GenuineCalls)) /\ Len(sent) \in Nat
         /\ DOMAIN sent = 1 .. Len(sent)
         /\ position \in Nat /\ position <= Len(sent)
         /\ job \in [Threads -> Seq(GenuineCalls)]
         /\ \A p \in DOMAIN products : products[p] \in ProductState
         /\ \A c \in DOMAIN channels : channels[c] \in ChannelState
         /\ base \in Nat
         /\ RealtimeThread \in Threads
BY FeedAssumption DEF OrderInv, JobsInOrder, IInv, TypeOK, ExchangeOK, AllGenuine, ManagerOK

\* A datagram of the realtime group, and what is left of it after its header.
LEMMA SentDatagram ==
  ASSUME OrderInv, NEW i \in DOMAIN sent
  PROVE  /\ sent[i] # <<>> /\ Head(sent[i]) = sent[i][1] /\ Len(sent[i]) \in {1, 2}
         /\ sent[i][1].call = "header" /\ sent[i][1].channel = Realtime
         /\ sent[i][1].kind # "I084"
         /\ Tail(sent[i]) # <<>> <=> Len(sent[i]) = 2
         /\ Len(sent[i]) = 2 =>
              /\ Head(Tail(sent[i])) = sent[i][2] /\ Tail(Tail(sent[i])) = <<>>
              /\ sent[i][2].call = "product" /\ sent[i][2].kind # "I084"
              /\ sent[i][1].kind \notin {"I001", "I002"}
              /\ sent[i][2] \in ProductCalls
<1>1. IsDatagram(sent[i], SessionAt(i)) /\ IInv /\ sent[i] \in Seq(GenuineCalls)
  BY SentType DEF OrderInv, SessionsInOrder
<1>2. PICK d \in Seq(GenuineCalls) : d = sent[i] /\ Len(d) \in {1, 2}
  BY <1>1 DEF IsDatagram
<1>3. /\ d # <<>> /\ Head(d) = d[1]
      /\ Tail(d) # <<>> <=> Len(d) = 2
      /\ Len(d) = 2 => Head(Tail(d)) = d[2] /\ Tail(Tail(d)) = <<>>
  BY <1>2, ShortTail
<1>4. Len(sent[i]) = 2 => sent[i][2] \in ProductCalls
  BY <1>1, SentType
<1> QED BY <1>1, <1>2, <1>3, <1>4 DEF IsDatagram

LEMMA SeqAtNat ==
  ASSUME OrderInv, session = 1, NEW i \in 0 .. Len(sent)
  PROVE  SeqAt(i) \in Nat
<1>1. CASE i = 0
  BY <1>1 DEF SeqAt
<1>2. CASE i \in DOMAIN sent
  BY <1>2, Basics, FirstSessionMessage
<1> QED BY <1>1, <1>2, Basics

\* A product message has a CHANNEL-SEQ above those of all messages before it.
LEMMA LaterSeq ==
  ASSUME OrderInv, session = 1, NEW i \in DOMAIN sent, Len(sent[i]) = 2,
         NEW j \in 0 .. Len(sent), j < i
  PROVE  SeqAt(j) < SeqAt(i)
<1>1. /\ SequencesInOrder /\ DOMAIN sent = 1 .. Len(sent) /\ Len(sent) \in Nat
  BY Basics
<1>2. sent[i][1].kind # "I001"
  BY SentDatagram
<1>3. SeqAt(i) = SeqAt(i - 1) + 1
  BY <1>1, <1>2 DEF SequencesInOrder, ChannelSequence, ProductSequence
<1>4. i - 1 \in 0 .. Len(sent) /\ j <= i - 1
  BY <1>1
<1>5. SeqAt(j) <= SeqAt(i - 1)
  BY <1>1, <1>4 DEF SequencesInOrder, ChannelSequence, ProductSequence
<1>6. \A a \in 0 .. Len(sent) : SeqAt(a) \in Nat
  BY SeqAtNat
<1> QED BY <1>3, <1>4, <1>5, <1>6

\* Every other thread has nothing in hand.
LEMMA OthersIdle ==
  ASSUME OrderInv, SingleReader, NEW t \in Threads, job[t] # <<>>
  PROVE  t = RealtimeThread
BY DEF OrderInv, JobsInOrder, SingleReader, Reading

\* The reader's next call: one of the message it took last, or the carousel's.
LEMMA NextOfReader ==
  ASSUME OrderInv, HandKnown, job[RealtimeThread] # <<>>
  PROVE  LET m == Head(job[RealtimeThread])
         IN  \/ /\ position \in DOMAIN sent
                /\ job[RealtimeThread] = sent[position] /\ m = sent[position][1]
                /\ m.call = "header" /\ ~HoldsBody
             \/ /\ position \in DOMAIN sent /\ HoldsBody
                /\ m = sent[position][2] /\ m.call = "product"
                /\ Tail(job[RealtimeThread]) = <<>>
             \/ /\ IsUpToDate(m) /\ ~HoldsBody
                /\ \A n \in DOMAIN Tail(job[RealtimeThread]) :
                     IsUpToDate(Tail(job[RealtimeThread])[n])
<1> DEFINE J == job[RealtimeThread]
           m == Head(J)
<1>1. /\ position \in Nat /\ position <= Len(sent) /\ Len(sent) \in Nat
      /\ DOMAIN sent = 1 .. Len(sent) /\ J \in Seq(GenuineCalls)
  BY Basics
<1>2. position > 0 => position \in DOMAIN sent
  BY <1>1
<1>3. ASSUME HoldsBody
      PROVE  /\ position \in DOMAIN sent /\ m = sent[position][2] /\ m.call = "product"
             /\ m.kind # "I084" /\ Tail(J) = <<>>
  BY <1>2, <1>3, SentDatagram DEF HoldsBody
<1>4. CASE position > 0 /\ J = sent[position]
  BY <1>2, <1>3, <1>4, SentDatagram
<1>5. CASE position > 0 /\ J = Tail(sent[position])
  <2>1. HoldsBody
    BY <1>2, <1>5, SentDatagram DEF HoldsBody
  <2> QED BY <1>3, <2>1
<1>6. CASE \A n \in DOMAIN J : IsUpToDate(J[n])
  <2>1. /\ DOMAIN J = 1 .. Len(J) /\ Len(J) \in Nat \ {0} /\ m = J[1]
        /\ Tail(J) \in Seq(GenuineCalls) /\ Len(Tail(J)) = Len(J) - 1
        /\ \A n \in 1 .. Len(Tail(J)) : Tail(J)[n] = J[n + 1]
    BY <1>1, HeadTailProperties, EmptySeq, LenProperties
  <2>2. DOMAIN Tail(J) = 1 .. Len(Tail(J))
    BY <2>1, LenProperties
  <2>3. IsUpToDate(m) /\ \A n \in DOMAIN Tail(J) : IsUpToDate(Tail(J)[n])
    BY <1>6, <2>1, <2>2
  <2>4. ~HoldsBody
    BY <1>3, <2>3 DEF IsUpToDate, OfCarousel
  <2> QED BY <2>3, <2>4
<1> QED BY <1>4, <1>5, <1>6 DEF HandKnown
-----------------------------------------------------------------------------
(***************************************************************************)
(* The steps                                                               *)
(***************************************************************************)
Cover == mixed = {} /\ HandKnown /\ ChannelBehind /\ BodySafe /\ Covered

\* A step that touches nothing of this.
LEMMA CoverUntouched ==
  ASSUME Cover, position \in Nat, \A i \in 1 .. position : sent'[i] = sent[i],
         UNCHANGED <<position, job, channels, products, base, mixed, behind, outdated>>,
         pending'[RealtimeThread] # <<>> => pending[RealtimeThread] # <<>>
  PROVE  Cover'
<1>1. position > 0 => sent'[position] = sent[position]
  OBVIOUS
<1>2. HoldsBody' = HoldsBody
  BY <1>1 DEF HoldsBody
<1>3. \A i \in 1 .. position : SeqAt(i)' = SeqAt(i) /\ \A p : IsOf(i, p)' = IsOf(i, p)
  BY DEF SeqAt, IsOf
<1>4. SeqAt(position)' = SeqAt(position)
  BY <1>1 DEF SeqAt
<1>5. \A m : IsUpToDate(m) => IsUpToDate(m)'
  BY <1>3 DEF IsUpToDate, OfCarousel
<1>6. HandKnown'
  <2>1. CASE job[RealtimeThread] = <<>>
    BY <2>1 DEF HandKnown
  <2>2. CASE position > 0 /\ job[RealtimeThread] \in {sent[position], Tail(sent[position])}
    BY <1>1, <2>2 DEF HandKnown
  <2>3. CASE \A n \in DOMAIN job[RealtimeThread] : IsUpToDate(job[RealtimeThread][n])
    <3>1. \A n \in DOMAIN job[RealtimeThread] :
            \E m : m = job[RealtimeThread][n] /\ IsUpToDate(m)'
      BY <1>5, <2>3
    <3> QED BY <3>1 DEF HandKnown, IsUpToDate, IsOf, OfCarousel
  <2> QED BY <2>1, <2>2, <2>3 DEF Cover, HandKnown
<1>7. ChannelBehind'
  BY <1>4 DEF Cover, ChannelBehind
<1>8. BodySafe'
  BY <1>2 DEF Cover, BodySafe
<1>9. Covered'
  BY <1>2, <1>3 DEF Cover, Covered
<1> QED BY <1>6, <1>7, <1>8, <1>9 DEF Cover

LEMMA CoverExchange ==
  ASSUME OrderInv, session = 1 => Cover, session' = 1, Exchange
  PROVE  Cover'
<1>1. PICK d : /\ Sends(d)
               /\ SendsNoProduct(d) \/ SendsReset(d) \/ \E p \in Products : SendsMessage(d, p)
  BY ExchangeSends DEF OrderInv
<1>2. session \in Nat \ {0}
  BY Basics DEF IInv, TypeOK, ExchangeOK, Sessions
<1>3. session = 1
  BY <1>1, <1>2 DEF SendsNoProduct, SendsReset, SendsMessage
<1>4. PICK n \in Nat : n = Len(sent) /\ \A i \in 1 .. n : sent'[i] = sent[i]
  BY <1>1, SentGrows, Basics
<1>5. position \in Nat /\ position <= n
  BY <1>4, Basics
<1>6. UNCHANGED <<position, job, channels, products, base, mixed, behind, outdated, pending>>
  BY <1>1 DEF Sends, manager, network, history
<1> QED BY <1>3, <1>4, <1>5, <1>6, CoverUntouched

\* The next datagram is read once everything of the one before it is done: the
\* latest of the group, or one of the carousel.
LEMMA CoverNetwork ==
  ASSUME OrderInv, Cover, SingleReader, session = 1, Network
  PROVE  Cover'
<1> DEFINE R == RealtimeThread
<1>1. /\ IInv /\ DOMAIN sent = 1 .. Len(sent) /\ Len(sent) \in Nat
      /\ position \in Nat /\ position <= Len(sent)
      /\ job \in [Threads -> Seq(GenuineCalls)] /\ R \in Threads
      /\ R = CarouselThread /\ Window = 0
      /\ SequencesInOrder
  BY Basics DEF SingleReader
<1>2. /\ UNCHANGED <<manager, exchange, history>>
      /\ job[R] = <<>> /\ pending[R] = <<>>
  BY <1>1 DEF Network, ReceiveRealtime, ReceiveAnyCarousel, ReceiveCarousel,
              ReceiveCarouselReset, Idle, Ready
<1>3. UNCHANGED <<channels, products, base, mixed, outdated, pending, sent>>
  BY <1>2 DEF manager, exchange, history
<1>4. ~HoldsBody
  BY <1>1, <1>2, SentDatagram DEF HoldsBody
<1>5. ASSUME NEW i \in DOMAIN sent, ReceiveRealtime(i)
      PROVE  Cover'
  <2>1. position' = i /\ position <= i /\ job'[R] = sent[i] /\ i > 0 /\ behind' = behind
    BY <1>1, <1>5 DEF ReceiveRealtime, Take
  <2>2. HandKnown'
    BY <1>3, <2>1 DEF HandKnown
  <2>3. SeqAt(position) <= SeqAt(i) /\ SeqAt(position) \in Nat /\ SeqAt(i) \in Nat
    <3>1. i \in 0 .. Len(sent) /\ position \in 0 .. Len(sent)
      BY <1>1, <2>1
    <3>2. \A a, b \in 0 .. Len(sent) : a <= b => SeqAt(a) <= SeqAt(b)
      BY <1>1 DEF SequencesInOrder, ChannelSequence
    <3> QED BY <2>1, <3>1, <3>2, SeqAtNat
  <2>4. ASSUME Realtime \in DOMAIN channels
        PROVE  channels[Realtime].last_seq <= SeqAt(position) /\ channels[Realtime].last_seq \in Nat
    BY <2>4, Basics DEF Cover, ChannelBehind, ChannelState
  <2>5. ChannelBehind'
    <3>1. SeqAt(position)' = SeqAt(i)
      BY <1>3, <2>1 DEF SeqAt
    <3> QED BY <1>3, <2>3, <2>4, <3>1 DEF Cover, ChannelBehind
  <2>6. Covered'
    <3> SUFFICES ASSUME Realtime \in DOMAIN channels, NEW p \in DOMAIN products \ outdated,
                        ~is_stale(products[p]), NEW j \in 1 .. i, IsOf(j, p),
                        base < SeqAt(j), SeqAt(j) <= channels[Realtime].last_seq
                 PROVE  sent[j][2].seq <= products[p].last
      BY <1>3, <2>1 DEF Covered, IsOf, SeqAt, is_stale
    <3>1. j <= position
      <4>1. SUFFICES ASSUME j > position
                     PROVE  FALSE
        BY <1>1
      <4>2. j \in DOMAIN sent /\ Len(sent[j]) = 2
        BY <1>1 DEF IsOf
      <4>3. SeqAt(position) < SeqAt(j) /\ SeqAt(j) \in Nat
        BY <1>1, <4>1, <4>2, LaterSeq, SeqAtNat
      <4> QED BY <2>3, <2>4, <4>3
    <3> QED BY <1>1, <1>4, <3>1 DEF Cover, Covered
  <2>7. BodySafe'
    BY <1>2, <1>3 DEF BodySafe
  <2> QED BY <1>3, <2>2, <2>5, <2>6, <2>7 DEF Cover
<1>6. ASSUME ReceiveAnyCarousel
      PROVE  Cover'
  <2>1. PICK s \in Sessions : \E calls \in Seq(CarouselCalls(s)) :
           /\ heard <= s /\ s <= session
           /\ calls # <<>> /\ Head(calls).call = "header"
           /\ Take(CarouselThread, calls)
           /\ \A n \in DOMAIN calls :
                LET m == calls[n]
                IN  m.call = "product" /\ m.prod \notin behind' => ~BehindRealtime(s, m.prod, m.seq)
           /\ UNCHANGED position
    BY <1>1, <1>6, CarouselTakes
  <2>2. PICK calls \in Seq(CarouselCalls(s)) :
           /\ calls # <<>> /\ Head(calls).call = "header"
           /\ Take(CarouselThread, calls) /\ UNCHANGED position
           /\ \A n \in DOMAIN calls :
                LET m == calls[n]
                IN  m.call = "product" /\ m.prod \notin behind' => ~BehindRealtime(s, m.prod, m.seq)
    BY <2>1
  <2>3. s = 1
    BY <2>1 DEF Sessions
  <2>4. job'[R] = calls
    BY <1>1, <2>2 DEF Take
  <2>5. ASSUME NEW n \in DOMAIN calls
        PROVE  /\ OfCarousel(calls[n])
               /\ calls[n].call = "product" =>
                    \/ calls[n].prod \in behind'
                    \/ \A i \in 1 .. position :
                         IsOf(i, calls[n].prod) => sent[i][2].seq <= calls[n].seq
    <3> DEFINE m == calls[n]
    <3>1. m \in CarouselCalls(1)
      BY <2>2, <2>3, <2>5
    <3>2. OfCarousel(m)
      BY <3>1 DEF CarouselCalls, OfCarousel
    <3>3. ASSUME m.call = "product", m.prod \notin behind',
                 NEW i \in 1 .. position, IsOf(i, m.prod)
          PROVE  sent[i][2].seq <= m.seq
      <4>1. m \in ProductCalls
        BY <3>1, <3>3 DEF CarouselCalls, GenuineCalls, Calls, HeaderCalls
      <4>2. m.seq \in Nat
        BY <4>1 DEF ProductCalls
      <4>3. i \in DOMAIN sent /\ Len(sent[i]) = 2 /\ sent[i][2].prod = m.prod
        BY <1>1, <3>3 DEF IsOf
      <4>4. sent[i][2].session = 1
        <5>1. PICK d \in Seq(GenuineCalls) : d = sent[i]
          BY <4>3, Basics
        <5>2. Len(sent[i]) = 2
          BY <4>3
        <5>3. sent[i][2] \in GenuineCalls
          <6>1. Len(d) = 2
            BY <5>1, <5>2
          <6>2. d[2] \in GenuineCalls
            BY <5>1, <6>1
          <6> QED BY <5>1, <6>2
        <5>4. sent[i][2] \in ProductCalls
          BY <4>3, SentDatagram
        <5> QED BY <5>3, <5>4 DEF GenuineCalls, Genuine, ProductCalls, Sessions
      <4>5. sent[i][2].seq \in Nat
        BY <4>3, Basics, FirstSessionMessage
      <4>6. ~BehindRealtime(1, m.prod, m.seq)
        BY <2>2, <2>3, <3>3
      <4>7. ~(sent[i][2].seq > m.seq)
        BY <4>3, <4>4, <4>6 DEF BehindRealtime
      <4> QED BY <4>2, <4>5, <4>7
    <3> QED BY <3>2, <3>3
  <2>6. HandKnown'
    BY <1>3, <2>2, <2>4, <2>5 DEF HandKnown, IsUpToDate, IsOf, OfCarousel
  <2>7. ChannelBehind'
    BY <1>3, <2>2 DEF Cover, ChannelBehind, SeqAt
  <2>8. BodySafe'
    BY <1>2, <1>3 DEF BodySafe
  <2>9. Covered'
    <3> SUFFICES ASSUME Realtime \in DOMAIN channels, NEW p \in DOMAIN products \ outdated,
                        ~is_stale(products[p]), NEW j \in 1 .. position, IsOf(j, p),
                        base < SeqAt(j), SeqAt(j) <= channels[Realtime].last_seq
                 PROVE  sent[j][2].seq <= products[p].last
      BY <1>3, <2>2 DEF Covered, IsOf, SeqAt, is_stale
    <3> QED BY <1>4 DEF Cover, Covered
  <2> QED BY <1>3, <2>6, <2>7, <2>8, <2>9 DEF Cover
<1>7. ~(\E s \in 2 .. session : ReceiveCarouselReset(s))
  OBVIOUS
<1> QED BY <1>5, <1>6, <1>7 DEF Network

\* A header of the carousel says nothing of the channel; that of the message in
\* hand takes the channel to it, or finds a gap and leaves no book fresh.
LEMMA CoverHeader ==
  ASSUME OrderInv, Cover, SingleReader, session = 1, NEW t \in Threads, CallHeader(t)
  PROVE  Cover'
<1> DEFINE R == RealtimeThread
           h == Head(job[R])
<1>1. /\ IInv /\ DOMAIN sent = 1 .. Len(sent) /\ Len(sent) \in Nat
      /\ position \in Nat /\ position <= Len(sent)
      /\ job \in [Threads -> Seq(GenuineCalls)] /\ R \in Threads
      /\ SequencesInOrder
      /\ \A p \in DOMAIN products : products[p] \in ProductState
      /\ base \in Nat
  BY Basics
<1>2. t = R
  BY OthersIdle DEF CallHeader, HasCall
<1>3. /\ job[R] # <<>> /\ h.call = "header" /\ on_header(R, h) /\ Ready(R)
      /\ job'[R] = Tail(job[R])
      /\ UNCHANGED <<sent, position, session>>
      /\ h.kind # "I002" =>
           /\ base' = IF h.channel = Realtime /\ Realtime \notin DOMAIN channels
                      THEN h.seq ELSE base
           /\ UNCHANGED <<mixed, outdated>>
      /\ UNCHANGED behind
  BY <1>1, <1>2 DEF CallHeader, HasCall, Take, exchange, network, on_header, on_header_reset,
                    on_header_quiet, on_header_gap
<1>4. ASSUME Realtime \in DOMAIN channels
      PROVE  /\ channels[Realtime].last_seq \in Nat
             /\ channels[Realtime].last_seq <= SeqAt(position)
             /\ ~channels[Realtime].is_snapshot_channel
  BY <1>4, Basics DEF Cover, ChannelBehind, ChannelState
<1>5. CASE IsUpToDate(h) /\ ~HoldsBody /\
           \A n \in DOMAIN Tail(job[R]) : IsUpToDate(Tail(job[R])[n])
  <2>1. h.kind = "I084" /\ h.channel # Realtime
    BY <1>3, <1>5, FeedAssumption DEF IsUpToDate, OfCarousel
  <2>2. ~channel_gap(h)
    BY <2>1 DEF channel_gap, track_channel
  <2>3. /\ TrackChannel(h) /\ UNCHANGED <<products, pending, base, mixed, outdated>>
    BY <1>3, <2>1, <2>2 DEF on_header, on_header_reset, on_header_quiet, on_header_gap
  <2>4. /\ Realtime \in DOMAIN channels' <=> Realtime \in DOMAIN channels
        /\ Realtime \in DOMAIN channels => channels'[Realtime] = channels[Realtime]
    BY <2>1, <2>3 DEF TrackChannel
  <2>5. HandKnown'
    BY <1>3, <1>5 DEF HandKnown, IsUpToDate, OfCarousel, IsOf
  <2>6. ChannelBehind'
    BY <1>3, <2>4 DEF Cover, ChannelBehind, SeqAt
  <2>7. BodySafe'
    BY <1>3, <2>3 DEF BodySafe, Ready
  <2>8. Covered'
    <3> SUFFICES ASSUME Realtime \in DOMAIN channels, NEW p \in DOMAIN products \ outdated,
                        ~is_stale(products[p]), NEW j \in 1 .. position, IsOf(j, p),
                        base < SeqAt(j), SeqAt(j) <= channels[Realtime].last_seq
                 PROVE  sent[j][2].seq <= products[p].last
      BY <1>3, <2>3, <2>4 DEF Covered, IsOf, SeqAt, is_stale
    <3> QED BY <1>5 DEF Cover, Covered
  <2> QED BY <2>3, <2>5, <2>6, <2>7, <2>8 DEF Cover
<1>6. CASE position \in DOMAIN sent /\ job[R] = sent[position] /\ h = sent[position][1]
  <2>1. /\ h.kind \notin {"I002", "I084"} /\ h.channel = Realtime /\ h.seq = SeqAt(position)
        /\ SeqAt(position) \in Nat /\ position > 0
    <3>1. position > 0 /\ position \in 0 .. Len(sent)
      BY <1>1, <1>6
    <3>2. h.kind # "I084" /\ h.channel = Realtime
      BY <1>6, SentDatagram
    <3>3. h.kind # "I002"
      BY <1>1, <1>6 DEF SequencesInOrder, ChannelSequence, ProductSequence
    <3>4. h.seq = SeqAt(position)
      BY <1>6, <3>1 DEF SeqAt
    <3> QED BY <3>1, <3>2, <3>3, <3>4, SeqAtNat
  <2>2. /\ TrackChannel(h) /\ UNCHANGED <<mixed, outdated>>
    BY <1>3, <2>1 DEF on_header, on_header_reset, on_header_quiet, on_header_gap
  <2>3. /\ Realtime \in DOMAIN channels'
        /\ ~channels'[Realtime].is_snapshot_channel
        /\ channels'[Realtime].last_seq =
             IF Realtime \notin DOMAIN channels \/ h.seq > channels[Realtime].last_seq
             THEN h.seq ELSE channels[Realtime].last_seq
    BY <1>4, <2>1, <2>2 DEF TrackChannel, track_channel
  <2>4. HandKnown'
    BY <1>3, <1>6, <2>1 DEF HandKnown
  <2>5. ChannelBehind'
    BY <1>3, <1>4, <2>1, <2>3 DEF ChannelBehind, SeqAt
  <2>6. CASE on_header_gap(R, h)
    <3>1. \A p \in DOMAIN products' : is_stale(products'[p])
      BY <1>1, <2>6 DEF on_header_gap, suspect_all, is_stale, ProductState
    <3>2. BodySafe'
      BY <3>1 DEF BodySafe, is_stale
    <3>3. Covered'
      BY <3>1 DEF Covered, is_stale
    <3> QED BY <2>2, <2>4, <2>5, <3>2, <3>3 DEF Cover
  <2>7. CASE on_header_quiet(R, h)
    <3>1. UNCHANGED <<products, pending>> /\ ~channel_gap(h)
      BY <2>7 DEF on_header_quiet
    <3>2. BodySafe'
      BY <1>3, <3>1 DEF BodySafe, Ready
    <3>3. Covered'
      <4> SUFFICES ASSUME NEW p \in DOMAIN products \ outdated, ~is_stale(products[p]),
                          NEW j \in 1 .. position, IsOf(j, p),
                          base' < SeqAt(j), SeqAt(j) <= channels'[Realtime].last_seq
                   PROVE  sent[j][2].seq <= products[p].last \/ (j = position /\ HoldsBody')
        BY <1>3, <2>2, <2>3, <3>1 DEF Covered, IsOf, SeqAt, is_stale
      <4>1. CASE Realtime \notin DOMAIN channels
        <5>1. base' = h.seq /\ channels'[Realtime].last_seq = h.seq
          BY <1>3, <2>1, <2>3, <4>1
        <5>2. SeqAt(j) \in Nat
          BY <1>1, SeqAtNat
        <5> QED BY <2>1, <5>1, <5>2
      <4>2. CASE j = position
        <5>1. Len(sent[position]) = 2
          BY <4>2 DEF IsOf
        <5>2. position' = position /\ sent' = sent /\ job'[R] = Tail(sent[position])
          BY <1>3, <1>6
        <5>3. HoldsBody'
          BY <2>1, <5>1, <5>2 DEF HoldsBody
        <5> QED BY <4>2, <5>3
      <4>3. CASE Realtime \in DOMAIN channels /\ j < position
        <5> HIDE DEF R, h
        <5>0. /\ j \in 0 .. Len(sent) /\ position - 1 \in 0 .. Len(sent)
              /\ j <= position - 1
          BY <1>1, <4>3
        <5>1. SeqAt(j) \in Nat /\ SeqAt(position - 1) \in Nat
          BY <5>0, SeqAtNat
        <5>2. h.seq <= channels[Realtime].last_seq + (IF h.kind = "I001" THEN 0 ELSE 1)
          <6>1. ~track_channel(h).is_snapshot_channel
            BY <1>4, <2>1, <4>3 DEF track_channel
          <6> QED BY <1>4, <2>1, <3>1, <4>3, <6>1 DEF channel_gap
        <5>3. /\ SeqAt(j) <= SeqAt(position - 1)
              /\ SeqAt(position) = SeqAt(position - 1) + (IF h.kind = "I001" THEN 0 ELSE 1)
          BY <1>1, <1>6, <5>0 DEF SequencesInOrder, ChannelSequence, ProductSequence
        <5>4. SeqAt(j) <= channels[Realtime].last_seq
          BY <1>4, <2>1, <2>3, <4>3, <5>1, <5>2, <5>3
        <5> QED BY <1>1, <1>3, <2>1, <4>3, <5>4 DEF Cover, Covered
      <4> QED BY <1>1, <4>1, <4>2, <4>3
    <3> QED BY <2>2, <2>4, <2>5, <3>2, <3>3 DEF Cover
  <2> QED BY <1>3, <2>1, <2>6, <2>7 DEF on_header, on_header_reset
<1> QED BY <1>3, <1>5, <1>6, NextOfReader DEF Cover

\* The message in hand has the highest serial of its product that was read, and
\* so has a block of the carousel that is not behind.
LEMMA LatestOfProduct ==
  ASSUME OrderInv, session = 1, NEW m,
         \/ position \in DOMAIN sent /\ HoldsBody /\ m = sent[position][2]
         \/ IsUpToDate(m) /\ m.prod \notin behind,
         m \in ProductCalls, NEW i \in 1 .. position, IsOf(i, m.prod)
  PROVE  sent[i][2].seq <= m.seq /\ sent[i][2].seq \in Nat
<1>1. /\ SequencesInOrder /\ DOMAIN sent = 1 .. Len(sent) /\ Len(sent) \in Nat
      /\ position \in Nat /\ position <= Len(sent) /\ m.prod \in Products
      /\ m.call = "product"
  BY Basics DEF ProductCalls
<1>2. i \in DOMAIN sent /\ Len(sent[i]) = 2
  BY <1>1 DEF IsOf
<1>3. sent[i][2].seq \in Nat
  BY <1>2, Basics, FirstSessionMessage
<1>4. CASE IsUpToDate(m) /\ m.prod \notin behind
  BY <1>1, <1>3, <1>4 DEF IsUpToDate
<1>5. CASE position \in DOMAIN sent /\ HoldsBody /\ m = sent[position][2]
  <2>1. IsOf(position, m.prod)
    BY <1>5 DEF IsOf, HoldsBody
  <2>2. m.seq \in Nat
    BY DEF ProductCalls
  <2>3. CASE i < position
    <3>1. sent[i][2].seq < sent[position][2].seq
      BY <1>1, <1>2, <1>5, <2>1, <2>3 DEF SequencesInOrder, ChannelSequence, ProductSequence
    <3> QED BY <1>3, <1>5, <2>2, <3>1
  <2>4. CASE i = position
    BY <1>3, <1>5, <2>2, <2>4
  <2> QED BY <1>1, <2>3, <2>4
<1> QED BY <1>4, <1>5

\* A product call brings its book to the serial of the message.
LEMMA CoverProduct ==
  ASSUME OrderInv, Cover, SingleReader, session = 1, NEW t \in Threads, CallProduct(t)
  PROVE  Cover'
<1> DEFINE R == RealtimeThread
           m == Head(job[R])
<1>1. /\ IInv /\ DOMAIN sent = 1 .. Len(sent) /\ Len(sent) \in Nat
      /\ position \in Nat /\ position <= Len(sent)
      /\ job \in [Threads -> Seq(GenuineCalls)] /\ R \in Threads
  BY Basics
<1>2. t = R
  BY OthersIdle DEF CallProduct, HasCall
<1>3. /\ job[R] # <<>> /\ m.call = "product" /\ on_product(R, m)
      /\ job'[R] = Tail(job[R]) /\ mixed' = MixedBy(m) /\ outdated' = OutdatedBy(m)
      /\ UNCHANGED <<sent, position, behind, session, base>>
  BY <1>1, <1>2 DEF CallProduct, HasCall, Take, exchange, network
<1>4. m \in GenuineCalls /\ m \in ProductCalls /\ m.session = 1
  <2>1. m \in GenuineCalls
    BY <1>1, <1>3, NextCall
  <2>2. m \in ProductCalls
    BY <1>3, <2>1 DEF GenuineCalls, Calls, HeaderCalls
  <2> QED BY <2>1, <2>2 DEF GenuineCalls, Genuine, ProductCalls, Sessions
<1>5. mixed' = {}
  <2>1. epoch = 1 /\ mixed = {}
    BY <1>1 DEF IInv, TypeOK, AllGenuine, Sessions, Cover
  <2> QED BY <1>3, <1>4, <2>1 DEF MixedBy
<1>6. UNCHANGED channels
  BY <1>3, ProductCases
<1>7. \/ /\ position \in DOMAIN sent /\ HoldsBody
         /\ m = sent[position][2] /\ Tail(job[R]) = <<>>
      \/ /\ IsUpToDate(m) /\ ~HoldsBody
         /\ \A n \in DOMAIN Tail(job[R]) : IsUpToDate(Tail(job[R])[n])
  BY <1>3, NextOfReader DEF Cover
<1>8. HandKnown'
  BY <1>3, <1>7 DEF HandKnown, IsUpToDate, OfCarousel, IsOf
<1>9. ChannelBehind'
  BY <1>3, <1>6 DEF Cover, ChannelBehind, SeqAt
<1>10. BodySafe'
  <2>1. SUFFICES ASSUME HoldsBody'
                 PROVE  FALSE
    BY DEF BodySafe
  <2>2. position \in DOMAIN sent /\ Len(sent[position]) = 2 /\ Tail(job[R]) = Tail(sent[position])
    <3>1. position > 0 /\ Len(sent[position]) = 2 /\ job'[R] = Tail(sent[position])
      BY <1>3, <2>1 DEF HoldsBody
    <3>2. position \in DOMAIN sent
      BY <1>1, <3>1
    <3> QED BY <1>3, <3>1, <3>2
  <2>3. Tail(job[R]) # <<>> /\ Head(Tail(job[R])).kind # "I084"
    BY <2>2, SentDatagram
  <2>4. Tail(job[R]) \in Seq(GenuineCalls)
    BY <1>1, <1>3, HeadTailProperties
  <2>5. 1 \in DOMAIN Tail(job[R]) /\ Tail(job[R])[1].kind # "I084"
    BY <2>3, <2>4, HeadTailProperties, EmptySeq, LenProperties
  <2> QED BY <1>7, <2>3, <2>5 DEF IsUpToDate, OfCarousel
<1>11. Covered'
  <2> SUFFICES ASSUME Realtime \in DOMAIN channels, NEW p \in DOMAIN products' \ outdated',
                      ~is_stale(products'[p]), NEW i \in 1 .. position, IsOf(i, p),
                      base < SeqAt(i), SeqAt(i) <= channels[Realtime].last_seq
               PROVE  sent[i][2].seq <= products'[p].last
    BY <1>3, <1>6 DEF Covered, IsOf, SeqAt, is_stale
  <2>1. /\ DOMAIN products' = DOMAIN products \cup {m.prod}
        /\ m.seq <= products'[m.prod].last
        /\ \A r \in DOMAIN products \ {m.prod} : products'[r] = products[r]
    BY <1>1, <1>3, <1>4, SerialReached
  <2>2. CASE p = m.prod
    <3>1. products'[p].last \in Nat
      <4>1. IInv'
        BY <1>1, CallProductStep
      <4> QED BY <4>1 DEF IInv, TypeOK, ManagerOK, ProductState
    <3>2. CASE (position \in DOMAIN sent /\ HoldsBody /\ m = sent[position][2])
               \/ (IsUpToDate(m) /\ m.prod \notin behind)
      <4>1. sent[i][2].seq <= m.seq /\ sent[i][2].seq \in Nat /\ m.seq \in Nat
        BY <1>4, <2>2, <3>2, LatestOfProduct DEF ProductCalls
      <4> QED BY <2>1, <2>2, <3>1, <4>1
    <3>3. CASE IsUpToDate(m) /\ ~HoldsBody /\ m.prod \in behind
      <4>1. m.kind = "I084"
        BY <1>3, <3>3 DEF IsUpToDate, OfCarousel
      <4>2. IsIgnored(m) /\ outdated' = outdated
        BY <1>3, <2>2, <3>3, <4>1 DEF OutdatedBy
      <4>3. products' = products
        BY <1>3, <1>4, <4>2, ProductCases
      <4> QED BY <3>3, <4>2, <4>3 DEF Cover, Covered
    <3> QED BY <1>7, <3>2, <3>3
  <2>3. CASE p # m.prod
    <3>1. p \in DOMAIN products \ outdated /\ products'[p] = products[p]
      BY <1>3, <2>1, <2>3 DEF OutdatedBy
    <3>2. ~(i = position /\ HoldsBody)
      BY <1>7, <2>3 DEF IsOf
    <3> QED BY <3>1, <3>2 DEF Cover, Covered
  <2> QED BY <2>2, <2>3
<1> QED BY <1>5, <1>8, <1>9, <1>10, <1>11 DEF Cover

\* The application's resets, and callbacks that return or throw.
LEMMA CoverCallbacks ==
  ASSUME OrderInv, Cover, SingleReader, NEW t \in Threads,
         Fire(t) \/ Reset(t) \/ Throw(t)
  PROVE  Cover'
<1> DEFINE R == RealtimeThread
<1>1. /\ position \in Nat /\ R \in Threads /\ UNCHANGED <<sent, position>>
      /\ pending = [r \in Threads |-> pending[r]]
      /\ job \in [Threads -> Seq(GenuineCalls)]
  BY Basics DEF OrderInv, JobsInOrder, Fire, Reset, Throw, exchange, network
<1>2. CASE Fire(t)
  BY <1>1, <1>2, CoverUntouched DEF Fire, fire, network, history
<1>3. CASE Reset(t)
  <2>1. /\ DOMAIN channels' = {} /\ mixed' = {} /\ UNCHANGED <<job, behind>>
    BY <1>3 DEF Reset, reset, ClearAll, NoChannels, network
  <2>2. HandKnown'
    BY <1>1, <2>1 DEF Cover, HandKnown, IsUpToDate, IsOf, OfCarousel
  <2> QED BY <2>1, <2>2 DEF Cover, ChannelBehind, BodySafe, Covered
<1>4. CASE Throw(t)
  <2>1. /\ UNCHANGED <<products, channels, mixed, base, behind, outdated>>
        /\ pending[t] # <<>> /\ pending' = [pending EXCEPT ![t] = <<>>]
        /\ job' = [job EXCEPT ![t] = <<>>]
    BY <1>4 DEF Throw, fire_throws, Take, network, history
  <2>2. CASE t # R
    <3>1. job[t] = <<>>
      BY <2>2, OthersIdle
    <3>2. job' = job
      BY <1>1, <2>1, <3>1
    <3> QED BY <1>1, <2>1, <2>2, <3>2, CoverUntouched
  <2>3. CASE t = R
    <3>1. job'[R] = <<>> /\ pending'[R] = <<>>
      BY <1>1, <2>1, <2>3
    <3>2. HandKnown' /\ BodySafe'
      BY <3>1 DEF HandKnown, BodySafe
    <3>3. ChannelBehind'
      BY <1>1, <2>1 DEF Cover, ChannelBehind, SeqAt
    <3>4. Covered'
      <4> SUFFICES ASSUME Realtime \in DOMAIN channels, NEW p \in DOMAIN products \ outdated,
                          ~is_stale(products[p]), NEW i \in 1 .. position, IsOf(i, p),
                          base < SeqAt(i), SeqAt(i) <= channels[Realtime].last_seq
                   PROVE  sent[i][2].seq <= products[p].last
        BY <1>1, <2>1 DEF Covered, IsOf, SeqAt, is_stale
      <4>1. ~HoldsBody
        BY <2>1, <2>3 DEF Cover, BodySafe
      <4> QED BY <4>1 DEF Cover, Covered
    <3> QED BY <2>1, <3>2, <3>3, <3>4 DEF Cover
  <2> QED BY <2>2, <2>3
<1> QED BY <1>2, <1>3, <1>4
-----------------------------------------------------------------------------
LEMMA CoverStep ==
  ASSUME SingleReader, OrderInv, session = 1 => Cover, [Next]_vars
  PROVE  session' = 1 => Cover'
<1> SUFFICES ASSUME session' = 1
             PROVE  Cover'
  OBVIOUS
<1>1. CASE Exchange
  BY <1>1, CoverExchange
<1>2. CASE Network
  <2>1. UNCHANGED session
    BY <1>2 DEF Network, ReceiveRealtime, ReceiveAnyCarousel, ReceiveCarousel,
                ReceiveCarouselReset, exchange
  <2> QED BY <1>2, <2>1, CoverNetwork
<1>3. ASSUME NEW t \in Threads, Thread(t) \/ Reset(t) \/ Throw(t)
      PROVE  Cover'
  <2>1. UNCHANGED session
    BY <1>3 DEF Thread, CallHeader, CallProduct, Fire, Reset, Throw, exchange
  <2> QED BY <1>3, <2>1, CoverHeader, CoverProduct, CoverCallbacks DEF Thread
<1>4. CASE UNCHANGED vars
  <2>1. UNCHANGED <<session, sent, position, job, channels, products, base, mixed, behind,
                    outdated, pending>>
    BY <1>4 DEF vars, manager, exchange, network, history
  <2> QED BY <2>1, Basics, CoverUntouched
<1> QED BY <1>1, <1>2, <1>3, <1>4 DEF Next

LEMMA CoverGivesFresh ==
  ASSUME OrderInv, Cover, session = 1
  PROVE  FreshCoversChannel
<1> SUFFICES ASSUME Realtime \in DOMAIN channels, NEW p \in DOMAIN products \ outdated,
                    ~is_stale(products[p]), NEW j \in DOMAIN sent, Len(sent[j]) > 1,
                    sent[j][1].seq \in base + 1 .. channels[Realtime].last_seq,
                    sent[j][2].prod = p
             PROVE  \/ sent[j][2].seq <= products[p].last
                    \/ InHand(p, sent[j][2].seq)
  BY DEF Cover, FreshCoversChannel, GoneBy
<1>1. /\ DOMAIN sent = 1 .. Len(sent) /\ Len(sent) \in Nat
      /\ position \in Nat /\ position <= Len(sent) /\ base \in Nat
      /\ RealtimeThread \in Threads /\ channels[Realtime].last_seq \in Nat
      /\ job \in [Threads -> Seq(GenuineCalls)]
  BY Basics DEF ChannelState
<1>2. Len(sent[j]) = 2 /\ IsOf(j, p) /\ j \in 0 .. Len(sent)
  BY <1>1, SentDatagram DEF IsOf
<1>3. SeqAt(j) \in Nat /\ base < SeqAt(j) /\ SeqAt(j) <= channels[Realtime].last_seq
  BY <1>1, <1>2, SeqAtNat DEF SeqAt
<1>4. j <= position
  <2>1. SUFFICES ASSUME position < j
                 PROVE  FALSE
    BY <1>1
  <2>2. SeqAt(position) < SeqAt(j) /\ SeqAt(position) \in Nat
    BY <1>1, <1>2, <2>1, LaterSeq, SeqAtNat
  <2> QED BY <1>1, <1>3, <2>2 DEF Cover, ChannelBehind
<1>5. sent[j][2].seq <= products[p].last \/ (j = position /\ HoldsBody)
  BY <1>1, <1>2, <1>3, <1>4 DEF Cover, Covered
<1>6. ASSUME j = position, HoldsBody
      PROVE  InHand(p, sent[j][2].seq)
  <2> DEFINE J == job[RealtimeThread]
  <2>1. J \in Seq(GenuineCalls) /\ J = Tail(sent[j])
    BY <1>1, <1>6 DEF HoldsBody
  <2>2. J # <<>> /\ Head(J) = sent[j][2] /\ sent[j][2].call = "product"
    BY <1>2, <2>1, SentDatagram
  <2>3. 1 \in DOMAIN J /\ J[1] = sent[j][2]
    BY <2>1, <2>2, HeadTailProperties, EmptySeq, LenProperties
  <2> QED BY <1>1, <2>2, <2>3 DEF InHand
<1> QED BY <1>5, <1>6

\* With one thread reading both groups in order, until the first restart, a book
\* that get_book shows as fresh has every message of its product up to where the
\* channel tracker stands (order_book.h:115, "product unproven since"): whatever
\* is lost or repeated, however many serials old the carousel's blocks may be,
\* whenever the application resets and whichever callback throws.  Left out is a
\* book adopted from a block that was already behind the realtime group when it
\* was read: adopt_snapshot_locked trusts it all the same (order_book.cc:124-125).
THEOREM FreshBooksCoverChannel ==
  ASSUME SingleReader
  PROVE  Spec => [](session = 1 => FreshCoversChannel)
<1>1. Init => (session = 1 => Cover)
  <2> SUFFICES ASSUME Init
               PROVE  Cover
    OBVIOUS
  <2>1. mixed = {} /\ DOMAIN channels = {} /\ job[RealtimeThread] = <<>>
    BY FeedAssumption DEF Init, ManagerInit, NoChannels
  <2> QED BY <2>1 DEF Cover, HandKnown, ChannelBehind, BodySafe, Covered
<1>2. OrderInv /\ (session = 1 => Cover) /\ [Next]_vars => (session = 1 => Cover)'
  BY CoverStep
<1>3. OrderInv /\ (session = 1 => Cover) => (session = 1 => FreshCoversChannel)
  BY CoverGivesFresh
<1>4. Spec => []OrderInv
  BY CalmHolds, PTL
<1> QED BY <1>1, <1>2, <1>3, <1>4, PTL DEF Spec
=============================================================================
