--------------------------------- MODULE Feed ---------------------------------
(***************************************************************************)
(* The whole path of a market-data message: the exchange numbers and       *)
(* multicasts it, the network loses, repeats, delays or reorders it, a     *)
(* parser's receive thread decodes it (process_raw_data and the handle_    *)
(* functions of src/src/parser.cc) and makes the manager's calls, one      *)
(* critical section at a time.                                             *)
(*                                                                         *)
(* The exchange multicasts a realtime group (I001, I002, I024, I025, I081, *)
(* I083 and kinds the parser does not decode) and a carousel group (I084   *)
(* and I002).  hist is what it knows to be true: the book of each product  *)
(* after each of its PROD-MSG-SEQs, per session; a restart (I002) opens a  *)
(* new session, with empty books and serials and sequences from 1.         *)
(***************************************************************************)
EXTENDS OrderBookManager

CONSTANTS
  Realtime, Carousel,              \* the two channel ids
  RealtimeThread, CarouselThread,  \* the threads that read them (maybe one)
  MaxSessions,     \* bound on the sessions of the exchange
  MaxSent,         \* bound on the messages of the realtime group
  Kinds,           \* the message kinds the exchange uses on the realtime group
  Updates,         \* the entries of its I081s
  Reopenings,      \* the books of its I083s
  CarouselSeqs,    \* CHANNEL-SEQs of the carousel, which restarts every cycle
  Window,          \* how many messages late a realtime one may still arrive
  Delay,           \* how many serials old an I084 block may be when received
  MayReset,        \* the application calls reset() at times
  MayThrow,        \* a callback throws at times, and the caller of the parser catches
  ResetsArrive,    \* no I002 is lost, on either group
  Early            \* the callbacks registered before the feed starts

ASSUME FeedAssumption ==
  /\ Realtime # Carousel
  /\ {RealtimeThread, CarouselThread} \subseteq Threads
  /\ {MaxSessions, MaxSent, Window, Delay} \subseteq Nat
  /\ MaxSessions > 0
  /\ \A entries \in Updates : IsEntries(entries)
  /\ Reopenings \subseteq Book
  /\ IsFiniteSet(Products)
  /\ Early \subseteq Callbacks
  /\ CarouselSeqs \subseteq Nat
  /\ {MayReset, MayThrow, ResetsArrive} \subseteq BOOLEAN

VARIABLES
  session,   \* the exchange's session
  hist,      \* session -> product -> its book after serial 1, 2, ...
  cseq,      \* CHANNEL-SEQ of the last message on the realtime group
  sent,      \* every message multicast on the realtime group, oldest first
  position,  \* the latest of them that reached the reader's socket
  heard,     \* the session of the last message read from the carousel
  job,       \* the calls each receive thread has still to make
  \* History variables, which no action reads:
  epoch,     \* the session of the last I002 the manager was given
  mixed,     \* the products whose book took a message of another session
  base,      \* the channel's first CHANNEL-SEQ since the trackers were cleared
  behind,    \* the products whose last block was behind the realtime group when read
  outdated,  \* the products whose book is from such a block
  skipped    \* was a message of the realtime group lost or overtaken?

exchange == <<session, hist, cseq, sent>>
network  == <<position, heard, behind, skipped>>
history  == <<epoch, mixed, base, outdated>>
vars     == <<manager, exchange, network, job, history>>

Sessions == 1 .. MaxSessions
Serial(s, p) == Len(hist[s][p])
BookAt(s, p, k) == IF k = 0 THEN EmptyBook ELSE hist[s][p][k]
-----------------------------------------------------------------------------
(***************************************************************************)
(* Messages, and what the parser makes of them                             *)
(***************************************************************************)
\* What a handle_ function gives the manager of a product message.  (An I025 too
\* short for its fields makes no such call, parser.cc:247; the exchange sends none.)
ProductCall(kind, s, p, seq, entries, trial) ==
  [call |-> "product", kind |-> kind, session |-> s, prod |-> p, seq |-> seq,
   entries |-> entries, trial |-> trial]

HeaderCall(kind, s, channel, seq) ==
  [call |-> "header", kind |-> kind, session |-> s, channel |-> channel, seq |-> seq]

\* process_raw_data: every valid message's header is fed up front, then the
\* decoded body (an I084 'O' has a block per product; heartbeats, resets,
\* other I084 types and kinds that are not decoded have none).
process_raw_data(header, body) == <<header>> \o body

\* An I084 'O' of the products in order, each with its book after serial of[p].
handle_i084(s, seq, order, of) ==
  process_raw_data(HeaderCall("I084", s, Carousel, seq),
    [i \in DOMAIN order |->
       ProductCall("I084", s, order[i], of[order[i]],
                   entries_of(BookAt(s, order[i], of[order[i]])), FALSE)])
-----------------------------------------------------------------------------
(***************************************************************************)
(* The exchange (external: modelled from how the code uses its messages)   *)
(***************************************************************************)
CanSend(kind) == kind \in Kinds /\ Len(sent) < MaxSent

Multicast(kind, seq, body) ==
  sent' = Append(sent, process_raw_data(HeaderCall(kind, session, Realtime, seq), body))

\* The next message of product p, which leaves its book as given.
Publish(kind, p, book, entries, trial) ==
  /\ CanSend(kind)
  /\ hist' = [hist EXCEPT ![session][p] = Append(@, book)]
  /\ cseq' = cseq + 1
  /\ Multicast(kind, cseq + 1,
       <<ProductCall(kind, session, p, Serial(session, p) + 1, entries, trial)>>)
  /\ UNCHANGED <<session, manager, network, job, history>>

Current(p) == BookAt(session, p, Serial(session, p))

SendTrade(p) == \E kind \in {"I024", "I025"} : Publish(kind, p, Current(p), <<>>, FALSE)

SendUpdate(p) ==
  \E entries \in Updates : Publish("I081", p, apply_entries(Current(p), entries), entries, FALSE)

SendSnapshot(p) ==
  \E book \in Reopenings : Publish("I083", p, book, entries_of(book), FALSE)

\* A pre-open trial: its entries are not the live book.
SendTrial(p) == \E book \in Reopenings : Publish("I083", p, Current(p), entries_of(book), TRUE)

\* A kind the parser does not decode (I140) takes a CHANNEL-SEQ all the same.
SendOther ==
  /\ CanSend("I140")
  /\ cseq' = cseq + 1
  /\ Multicast("I140", cseq + 1, <<>>)
  /\ UNCHANGED <<session, hist, manager, network, job, history>>

SendHeartbeat ==
  /\ CanSend("I001")
  /\ Multicast("I001", cseq, <<>>)
  /\ UNCHANGED <<session, hist, cseq, manager, network, job, history>>

Restart ==
  /\ session < MaxSessions
  /\ session' = session + 1
  /\ cseq' = 0
  /\ sent' = Append(sent,
       process_raw_data(HeaderCall("I002", session + 1, Realtime, 0), <<>>))
  /\ UNCHANGED <<hist, manager, network, job, history>>

Exchange ==
  \/ \E p \in Products : SendTrade(p) \/ SendUpdate(p) \/ SendSnapshot(p) \/ SendTrial(p)
  \/ SendOther
  \/ SendHeartbeat
  \/ Restart
-----------------------------------------------------------------------------
(***************************************************************************)
(* The receive loops: a thread that has nothing left to do takes the next  *)
(* datagram that reached its socket.                                       *)
(***************************************************************************)
Idle(t) == job[t] = <<>> /\ Ready(t)

IsReset(calls) == Head(calls).kind = "I002"

Take(t, calls) == job' = [job EXCEPT ![t] = calls]

\* Later messages overtake lost ones; a message already taken may come again,
\* and one that was overtaken by at most Window others may still come.
ReceiveRealtime(i) ==
  /\ Idle(RealtimeThread)
  /\ i + Window >= position
  /\ ResetsArrive => \A j \in position + 1 .. i - 1 : ~IsReset(sent[j])
  /\ Take(RealtimeThread, sent[i])
  /\ position' = IF i > position THEN i ELSE position
  /\ skipped' = (skipped \/ i > position + 1)
  /\ UNCHANGED <<heard, behind, manager, exchange, history>>

\* A message of p that is later than the block had reached the reader's socket.
BehindRealtime(s, p, seq) ==
  \E i \in 1 .. position : \E k \in 2 .. Len(sent[i]) :
    LET m == sent[i][k] IN m.session = s /\ m.prod = p /\ m.seq > seq

\* An I084 'O' with a block per product of which, the book of p after its
\* serial of[p]; with no block, an 'A', 'Z', 'S' or 'P'.
ReceiveCarousel(s, which, of) ==
  /\ Idle(CarouselThread)
  /\ \E order \in SetToSeqs(which), seq \in CarouselSeqs :
       Take(CarouselThread, handle_i084(s, seq, order, of))
  /\ heard' = s
  /\ behind' = {p \in which : BehindRealtime(s, p, of[p])}
  /\ UNCHANGED <<position, skipped, manager, exchange, history>>

\* The carousel of session s, up to Delay serials behind the exchange.
ReceiveAnyCarousel ==
  \E s \in heard .. (IF ResetsArrive THEN heard ELSE session), which \in SUBSET Products :
    \E of \in [which -> 0 .. MaxSent] :
      /\ \A p \in which : of[p] <= Serial(s, p) /\ of[p] + Delay >= Serial(s, p)
      /\ ReceiveCarousel(s, which, of)

\* Restarts are announced on every group.
ReceiveCarouselReset(s) ==
  /\ Idle(CarouselThread)
  /\ heard < s
  /\ ResetsArrive => s = heard + 1
  /\ Take(CarouselThread, process_raw_data(HeaderCall("I002", s, Carousel, 0), <<>>))
  /\ heard' = s
  /\ UNCHANGED <<position, behind, skipped, manager, exchange, history>>

Network ==
  \/ \E i \in DOMAIN sent : ReceiveRealtime(i)
  \/ ReceiveAnyCarousel
  \/ \E s \in 2 .. session : ReceiveCarouselReset(s)
-----------------------------------------------------------------------------
(***************************************************************************)
(* The calls of the receive threads                                        *)
(***************************************************************************)
HasCall(t, call) == job[t] # <<>> /\ Head(job[t]).call = call

CallHeader(t) ==
  /\ HasCall(t, "header")
  /\ LET h == Head(job[t])
     IN  /\ on_header(t, h)
         /\ IF h.kind = "I002"
            THEN /\ epoch' = h.session /\ base' = 0
                 /\ mixed' = mixed \cap DOMAIN products'
                 /\ outdated' = outdated \cap DOMAIN products'
            ELSE /\ base' = IF h.channel = Realtime /\ Realtime \notin DOMAIN channels
                            THEN h.seq ELSE base
                 /\ UNCHANGED <<epoch, mixed, outdated>>
  /\ Take(t, Tail(job[t]))
  /\ UNCHANGED <<exchange, network>>

\* A message of another session than the manager's is mixed into the book,
\* until a snapshot of the right session replaces it.
MixedBy(m) ==
  IF IsIgnored(m) THEN mixed
  ELSE IF m.session # epoch THEN mixed \cup {m.prod}
  ELSE IF IsSnapshot(m) THEN mixed \ {m.prod}
  ELSE mixed

OutdatedBy(m) ==
  IF IsIgnored(m) THEN outdated
  ELSE IF m.kind = "I084" /\ m.prod \in behind THEN outdated \cup {m.prod}
  ELSE outdated \ {m.prod}

CallProduct(t) ==
  /\ HasCall(t, "product")
  /\ on_product(t, Head(job[t]))
  /\ mixed' = MixedBy(Head(job[t]))
  /\ outdated' = OutdatedBy(Head(job[t]))
  /\ Take(t, Tail(job[t]))
  /\ UNCHANGED <<exchange, network, epoch, base>>

Fire(t) == fire(t) /\ UNCHANGED <<exchange, network, job, history>>

\* A callback that throws unwinds the call and the rest of the datagram, up to
\* the caller of process_datagram; the next datagram is processed as usual.
Throw(t) ==
  /\ fire_throws(t)
  /\ Take(t, <<>>)
  /\ UNCHANGED <<exchange, network, history>>

\* The application calls reset(), from a thread that has no datagram in hand.
Reset(t) ==
  /\ job[t] = <<>>
  /\ reset(t)
  /\ mixed' = {} /\ outdated' = {}
  /\ base' = 0
  /\ UNCHANGED <<exchange, network, job, epoch>>

Thread(t) == CallHeader(t) \/ CallProduct(t) \/ Fire(t)
-----------------------------------------------------------------------------
Init ==
  /\ ManagerInit(Early)
  /\ session = 1
  /\ hist = [s \in Sessions |-> [p \in Products |-> <<>>]]
  /\ cseq = 0
  /\ sent = <<>>
  /\ position = 0
  /\ heard = 1
  /\ job = [t \in Threads |-> <<>>]
  /\ epoch = 1
  /\ mixed = {} /\ behind = {} /\ outdated = {}
  /\ base = 0
  /\ skipped = FALSE

Next ==
  \/ Exchange
  \/ Network
  \/ \E t \in Threads : Thread(t) \/ (MayReset /\ Reset(t)) \/ (MayThrow /\ Throw(t))

Spec == Init /\ [][Next]_vars
-----------------------------------------------------------------------------
\* The carousel repeats every product's current book for ever, so it is not
\* lost for ever; threads run.  An I002 that is not lost is read in the end, and
\* none is repeated for ever.
ReceiveCurrent(p) ==
  /\ ResetsArrive => heard = session
  /\ ReceiveCarousel(session, {p}, [q \in {p} |-> Serial(session, p)])

ReceiveReset ==
  /\ ResetsArrive
  /\ \/ \E i \in position + 1 .. Len(sent) : IsReset(sent[i]) /\ ReceiveRealtime(i)
     \/ \E s \in 2 .. session : ReceiveCarouselReset(s)

Fairness ==
  /\ \A t \in Threads : WF_vars(Thread(t))
  /\ \A p \in Products : SF_vars(ReceiveCurrent(p))
  /\ SF_vars(ReceiveReset)
  /\ <>[][\A i \in 1 .. position : IsReset(sent[i]) => ~ReceiveRealtime(i)]_vars

FairSpec == Spec /\ Fairness
-----------------------------------------------------------------------------
ProductKinds == {"I024", "I025", "I081", "I083", "I084"}

HeaderCalls ==
  [call : {"header"}, kind : ProductKinds \cup {"I001", "I002", "I140"},
   session : Sessions, channel : {Realtime, Carousel}, seq : Nat]

ProductCalls ==
  [call : {"product"}, kind : ProductKinds, session : Sessions, prod : Products,
   seq : Nat, entries : Updates \cup Seq(SnapshotEntry), trial : BOOLEAN]

Calls == HeaderCalls \cup ProductCalls

ExchangeOK ==
  /\ session \in Sessions
  /\ hist \in [Sessions -> [Products -> Seq(Book)]]
  /\ cseq \in Nat
  /\ sent \in Seq(Seq(Calls))

ManagerOK ==
  /\ DOMAIN products \subseteq Products
  /\ \A p \in DOMAIN products : products[p] \in ProductState
  /\ DOMAIN channels \subseteq {Realtime, Carousel}
  /\ \A c \in DOMAIN channels : channels[c] \in ChannelState

\* The shape of the state (that of the deliveries is in AnyFeed!TypeOK).
TypeOK ==
  /\ ExchangeOK
  /\ position \in Nat /\ heard \in Sessions
  /\ job \in [Threads -> Seq(Calls)]
  /\ ManagerOK
  /\ epoch \in Sessions /\ base \in Nat /\ skipped \in BOOLEAN
  /\ {mixed, behind, outdated} \subseteq SUBSET Products

\* A product message says what the exchange knew when it was numbered.
Genuine(m) ==
  /\ m.session <= session
  /\ m.call = "product" =>
       /\ m.seq <= Serial(m.session, m.prod)
       /\ IsSnapshot(m) => load_entries(m.entries) = BookAt(m.session, m.prod, m.seq)
       /\ ~IsSnapshot(m) =>
            /\ m.seq > 0
            /\ BookAt(m.session, m.prod, m.seq) =
                 IF m.kind = "I081"
                 THEN apply_entries(BookAt(m.session, m.prod, m.seq - 1), m.entries)
                 ELSE BookAt(m.session, m.prod, m.seq - 1)

GenuineCalls == {m \in Calls : Genuine(m)}

\* Whatever is under way, or may still come, is genuine.
AllGenuine ==
  /\ sent \in Seq(Seq(GenuineCalls))
  /\ job \in [Threads -> Seq(GenuineCalls)]
  /\ epoch <= session /\ heard <= session

\* Serial 0 is stored by a snapshot alone: a book that the next message will
\* treat as never seen before (last = 0) is a trusted one, or mixed.
ZeroIsSynced ==
  \A p \in DOMAIN products \ mixed : products[p].last = 0 => products[p].synced

\* A book whose flag says its chain is unbroken is the exchange's book after
\* the serial the manager has reached, whatever was lost, repeated, delayed or
\* reordered and whichever threads delivered it, as long as no message of
\* another session reached it (order_book.h:114, "book content is an unbroken
\* chain from a snapshot").
FreshIsTrue ==
  \A p \in DOMAIN products \ mixed :
    products[p].synced =>
      /\ products[p].last <= Serial(epoch, p)
      /\ products[p].book = BookAt(epoch, p, products[p].last)

\* The inductive invariant behind FreshIsTrue.
IInv == TypeOK /\ AllGenuine /\ ZeroIsSynced /\ FreshIsTrue

\* What get_book shows of the products that no message of another session has
\* touched.
Shown ==
  [p \in DOMAIN products \ mixed |->
     [serial  |-> products[p].last,
      trusted |-> ~is_stale(products[p]),
      book    |-> products[p].book]]

\* The manager implements BookService, for the session it is in.
Service == INSTANCE BookService WITH
  Books <- Book, StartBook <- EmptyBook, truth <- hist[epoch], shown <- Shown

ImplementsService == Service!Spec

\* Is the message of p with serial k still among the calls of a thread?
InHand(p, k) ==
  \E t \in Threads : \E i \in DOMAIN job[t] :
    job[t][i].call = "product" /\ job[t][i].prod = p /\ job[t][i].seq = k

\* The realtime messages of p that the channel tracker says have gone by since
\* the first one it saw (which proves nothing of what came before it).
GoneBy(p) ==
  {m \in {sent[i][2] : i \in {j \in DOMAIN sent :
             /\ Len(sent[j]) > 1
             /\ sent[j][1].session = epoch
             /\ sent[j][1].seq \in base + 1 .. channels[Realtime].last_seq}} : m.prod = p}

\* A book delivered as fresh has taken in every message of its product up to
\* where the channel tracker stands: a loss the tracker has seen leaves no
\* fresh book behind it (order_book.h:115, "product unproven since").  A book
\* adopted from an I084 block that was itself older than what had been received
\* by then is left out: adopt_snapshot_locked lifts the suspicion without asking
\* how old the block is (order_book.cc:124-125).
FreshCoversChannel ==
  Realtime \in DOMAIN channels =>
    \A p \in DOMAIN products \ (mixed \cup outdated) :
      ~is_stale(products[p]) =>
        \A m \in GoneBy(p) : m.seq <= products[p].last \/ InHand(p, m.seq)

\* In the first session, as long as the realtime group has lost nothing, the
\* application does not call reset() and no callback throws, no book is stale:
\* neither duplicates, nor heartbeats, nor the jumps of the carousel's CHANNEL-SEQ,
\* nor a snapshot that is ahead of the realtime thread or behind it raise a false
\* alarm (order_book.cc:192-206).  A restart can raise one: when the carousel's
\* I002 comes after the new session's serial 1, it clears that book once more,
\* and serial 2 then meets an empty one (order_book.cc:84, 137).
NoFalseAlarm ==
  ~skipped /\ session = 1 /\ ~MayReset /\ ~MayThrow =>
    \A p \in DOMAIN products : ~is_stale(products[p])

\* Every I002 the exchange sent has been read and given to the manager.
ResetsDone ==
  /\ heard = session
  /\ \A j \in position + 1 .. Len(sent) : ~IsReset(sent[j])
  /\ \A t \in Threads : job[t] = <<>> \/ ~IsReset(job[t])

\* A restart is announced on both groups, and until both threads have given
\* their I002 to the manager the books of the two sessions mix (an old block of
\* the carousel is adopted into a new book, or a new one into an old book).
\* Afterwards no book holds anything of another session: the I002 that comes
\* last clears whatever was mixed before it, on whichever group it comes
\* (order_book.cc:172, "clearing the order books and every sequence tracker").
BooksSettle ==
  ResetsArrive /\ Window = 0 /\ ResetsDone => mixed = {} /\ epoch = session

\* Once the exchange is quiet, every book ends up trusted and equal to the
\* exchange's, whatever was lost: also that of a product that is never
\* mentioned again on the realtime group.
CatchesUp ==
  <>[](\A p \in Products :
         /\ p \in DOMAIN products
         /\ ~is_stale(products[p])
         /\ products[p].last = Serial(session, p)
         /\ products[p].book = Current(p))
=============================================================================
