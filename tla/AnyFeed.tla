------------------------------- MODULE AnyFeed -------------------------------
(***************************************************************************)
(* The manager under every sequence of calls its interface allows: any     *)
(* header and any product message in any order, from any feed thread, with *)
(* subscriptions that come and go and reset() between calls or, if         *)
(* Reentry, from inside a callback.                                        *)
(***************************************************************************)
EXTENDS OrderBookManager

CONSTANTS
  Seqs,          \* the CHANNEL-SEQs and PROD-MSG-SEQs on the wire
  Increments,    \* the entries an I081 may carry
  Snapshots,     \* the entries an I083 or an I084 block may carry
  Reentry        \* callbacks may call reset()

ASSUME AnyFeedAssumption ==
  /\ Seqs \subseteq Nat
  /\ \A entries \in Increments \cup Snapshots : IsEntries(entries)
  /\ Reentry \in BOOLEAN

Headers ==
  [kind : {"I001", "I002", "I081", "I084"}, channel : Channels, seq : Seqs]

ProductMessages ==
  [kind : {"I024", "I025"}, prod : Products, seq : Seqs]
    \cup [kind : {"I081"}, prod : Products, seq : Seqs, entries : Increments]
    \cup [kind : {"I083"}, prod : Products, seq : Seqs, entries : Snapshots, trial : BOOLEAN]
    \cup [kind : {"I084"}, prod : Products, seq : Seqs, entries : Snapshots]

Init == ManagerInit({})

Registration ==
  \/ \E c \in Callbacks :
       \/ \E p \in Products : register_callback(c, p)
       \/ register_callback_all(c)
  \/ \E p \in Products : unregister_callbacks(p)
  \/ unregister_all_callbacks

Call ==
  \/ \E t \in Threads :
       \/ \E h \in Headers : on_header(t, h)
       \/ \E m \in ProductMessages : on_product(t, m)
       \/ reset(t)

Next == Call \/ Registration \/ \E t \in Threads : fire(t) \/ (Reentry /\ fire_reset(t))

Spec == Init /\ [][Next]_manager
-----------------------------------------------------------------------------
Copies ==
  [book : Book, last : Nat, has_snapshot : BOOLEAN, is_stale : BOOLEAN]

\* The shape of the manager's state and of the deliveries under way.
TypeOK ==
  /\ DOMAIN products \subseteq Products
  /\ \A p \in DOMAIN products : products[p] \in ProductState
  /\ DOMAIN channels \subseteq Channels
  /\ \A c \in DOMAIN channels : channels[c] \in ChannelState
  /\ callbacks \in [Products -> Seq(Callbacks)]
  /\ wildcard \in Seq(Callbacks)
  /\ \A t \in Threads : \A i \in DOMAIN pending[t] :
       /\ pending[t][i].callback \in Callbacks
       /\ pending[t][i].prod \in Products
       /\ pending[t][i].copy \in Copies

\* The thread that collects in this step.  (A callback that resets may leave its
\* thread with just what it owed: then nothing tells which thread it was.)
Collecting ==
  IF pending' = pending THEN Threads ELSE {t \in Threads : pending'[t] # pending[t]}

\* Is a copy of p collected for callback c in this step, flagged stale or not?
\* (What the thread owed already comes after it, less the running callback.)
CollectedFor(c, p, stale) ==
  \E t \in Collecting :
    \E i \in 1 .. Len(pending'[t]) - (IF Ready(t) THEN 0 ELSE Len(pending[t]) - 1) :
      /\ pending'[t][i].callback = c
      /\ pending'[t][i].prod = p
      /\ pending'[t][i].copy.is_stale = stale
      /\ p \in DOMAIN products' => pending'[t][i].copy.book = products'[p].book

\* A change of p's book, or of whether it can be trusted, is collected for each
\* subscriber with the new flag.
ChangeIsCollected(p) ==
  (\/ get_book(p).is_stale # get_book(p)'.is_stale
   \/ /\ p \in DOMAIN products \cap DOMAIN products'
      /\ products[p].book # products'[p].book)
  => \A c \in Subscribers(p) : CollectedFor(c, p, get_book(p)'.is_stale)

\* So it is in every step, in any handler; a book that disappears counts as one
\* that can no longer be trusted (README.md:87, "fires ... on every change,
\* including stale-flag transitions"; order_book.h:107-108).
ChangesAreDelivered == [][\A p \in Products : ChangeIsCollected(p)]_manager
=============================================================================
