--------------------------- MODULE OrderBookManager ---------------------------
(***************************************************************************)
(* OrderBookManager of src/src/order_book.cc.                              *)
(*                                                                         *)
(* One mutex guards the books, the channel trackers and the callback       *)
(* tables; every method is one critical section (on_i084 is one per        *)
(* product block), so each is one action here.  The deliveries a section   *)
(* collects are fired after the unlock, one callback at a time, by the     *)
(* thread that collected them: they wait in pending[t], and steps of other *)
(* threads interleave with them.  A feed thread takes its next call only   *)
(* when it has fired everything.  A callback may re-enter the manager, to  *)
(* register or unregister (at any time) or to call reset() (fire_reset).   *)
(***************************************************************************)
EXTENDS OrderBook, SequencesExt

CONSTANTS
  Products,    \* trimmed prod_ids: the keys of products_ and callbacks_
  Channels,    \* channel_ids
  Callbacks,   \* one element per registered BookCallback object
  Threads      \* the threads that feed the manager or call reset()

VARIABLES
  products,    \* products_: product -> ProductState, for those seen so far
  channels,    \* channels_: channel -> ChannelState, for those seen so far
  callbacks,   \* callbacks_: product -> callbacks, in registration order
  wildcard,    \* wildcard_callbacks_
  pending      \* the invocations each thread has collected and not yet made

manager == <<products, channels, callbacks, wildcard, pending>>

\* ProductState{}: what get_or_create_locked puts under a new key.
NewProduct ==
  [book |-> EmptyBook, last |-> 0, has_snapshot |-> FALSE,
   synced |-> FALSE, suspect |-> FALSE]

ProductState ==
  [book : Book, last : Nat, has_snapshot : BOOLEAN, synced : BOOLEAN, suspect : BOOLEAN]

NoProducts == [p \in {} |-> NewProduct]
NoChannels == [c \in {} |-> 0]

ChannelState == [last_seq : Nat, is_snapshot_channel : BOOLEAN]

get_or_create(p) == IF p \in DOMAIN products THEN products[p] ELSE NewProduct

Stored(p, st) == [q \in DOMAIN products \cup {p} |-> IF q = p THEN st ELSE products[q]]

\* The flag stamped on every copy.
is_stale(st) == ~st.synced \/ st.suspect

\* The fields of a copied OrderBook that a subscriber can tell apart.
Copy(st, stale) ==
  [book |-> st.book, last |-> st.last, has_snapshot |-> st.has_snapshot, is_stale |-> stale]

NoCopy == [is_stale |-> TRUE]
-----------------------------------------------------------------------------
(***************************************************************************)
(* Helpers of the critical sections                                        *)
(***************************************************************************)
\* track_seq_locked: is the message new, and the state that it leaves.
is_new(st, seq) == st.last = 0 \/ seq > st.last

\* Faulty: a gap in the product's own serials does not break the chain.
track_seq_bug(st, seq) ==
  [st EXCEPT !.last    = seq,
             !.synced  = IF st.last = 0 THEN seq = 1 ELSE st.synced,
             !.suspect = FALSE]

track_seq(st, seq) ==
  [st EXCEPT !.last    = seq,
             !.synced  = IF st.last = 0 THEN seq = 1 ELSE st.synced /\ seq = st.last + 1,
             !.suspect = FALSE]

\* A snapshot older than the live book is ignored; one of its own serial is not.
\* Faulty: older snapshots are adopted too; one of the same serial is not.
is_older_never_bug(st, seq) == FALSE
is_older_equal_bug(st, seq) == st.last # 0 /\ seq <= st.last

is_older(st, seq) == st.last # 0 /\ seq < st.last

\* Faulty: the ladders are not emptied first.
adopt_snapshot_bug(st, seq, entries) ==
  LET new == load_entries(entries)
  IN  [st EXCEPT !.book = [s \in Sides |-> [n \in Levels |->
                             IF new[s][n] = NoLevel THEN st.book[s][n] ELSE new[s][n]]],
                 !.last = seq, !.has_snapshot = TRUE, !.synced = TRUE, !.suspect = FALSE]

adopt_snapshot(st, seq, entries) ==
  [st EXCEPT !.book = load_entries(entries), !.last = seq, !.has_snapshot = TRUE,
             !.synced = TRUE, !.suspect = FALSE]

\* collect_delivery_locked: one invocation per callback of the product, then
\* per wildcard callback, all of the same copy.
collect_delivery(p, st, stale) ==
  LET cbs == callbacks[p] \o wildcard
  IN  [i \in DOMAIN cbs |-> [callback |-> cbs[i], prod |-> p, copy |-> Copy(st, stale)]]

\* The sweeps over products_ deliver in the order of the hash table.
StaleSweeps ==
  {FlattenSeq([i \in DOMAIN order |-> collect_delivery(order[i], products[order[i]], TRUE)]) :
     order \in SetToSeqs({p \in DOMAIN products : ~is_stale(products[p])})}

\* The thread returns from fire() before it takes its next call.
Ready(t) == pending[t] = <<>>

Collect(t, deliveries) == pending' = [pending EXCEPT ![t] = deliveries]
-----------------------------------------------------------------------------
(***************************************************************************)
(* on_header                                                               *)
(***************************************************************************)
\* collect_reset_locked, for I002 and reset(); owed is what the thread has
\* still to fire when the call returns.  Faulty: nobody is told.
ClearAll_bug(t, owed) ==
  /\ Collect(t, owed)
  /\ products' = NoProducts
  /\ channels' = NoChannels
  /\ UNCHANGED <<callbacks, wildcard>>

ClearAll(t, owed) ==
  /\ \E sweep \in StaleSweeps : Collect(t, sweep \o owed)
  /\ products' = NoProducts
  /\ channels' = NoChannels
  /\ UNCHANGED <<callbacks, wildcard>>

\* The channel's state after a header that does not reset.
track_channel(h) ==
  IF h.channel \notin DOMAIN channels
  THEN [last_seq |-> h.seq, is_snapshot_channel |-> h.kind = "I084"]
  ELSE [last_seq |-> IF h.seq > channels[h.channel].last_seq
                     THEN h.seq ELSE channels[h.channel].last_seq,
        is_snapshot_channel |->
          channels[h.channel].is_snapshot_channel \/ h.kind = "I084"]

\* A heartbeat repeats the last sequence number, any other message has the next.
\* Faulty: a heartbeat is taken for a message of its own; the carousel is
\* tracked like any other channel.
channel_gap_heartbeat_bug(h) ==
  /\ h.channel \in DOMAIN channels
  /\ h.seq > channels[h.channel].last_seq + 1
  /\ ~track_channel(h).is_snapshot_channel

channel_gap_carousel_bug(h) ==
  /\ h.channel \in DOMAIN channels
  /\ h.seq > channels[h.channel].last_seq + (IF h.kind = "I001" THEN 0 ELSE 1)

channel_gap(h) ==
  /\ h.channel \in DOMAIN channels
  /\ h.seq > channels[h.channel].last_seq + (IF h.kind = "I001" THEN 0 ELSE 1)
  /\ ~track_channel(h).is_snapshot_channel

TrackChannel(h) ==
  channels' = [c \in DOMAIN channels \cup {h.channel} |->
                 IF c = h.channel THEN track_channel(h) ELSE channels[c]]

\* Every book that is still trusted becomes suspect.
suspect_all ==
  [p \in DOMAIN products |->
     [products[p] EXCEPT !.suspect = products[p].synced \/ @]]

\* Faulty: an I002 resets its own channel only; so does one on the carousel.
on_header_reset_bug(t, h) ==
  /\ Ready(t)
  /\ h.kind = "I002"
  /\ channels' = [c \in DOMAIN channels \ {h.channel} |-> channels[c]]
  /\ UNCHANGED <<products, callbacks, wildcard, pending>>

on_header_reset(t, h) == Ready(t) /\ h.kind = "I002" /\ ClearAll(t, <<>>)

on_header_quiet(t, h) ==
  /\ Ready(t)
  /\ h.kind # "I002"
  /\ ~channel_gap(h)
  /\ TrackChannel(h)
  /\ UNCHANGED <<products, callbacks, wildcard, pending>>

on_header_gap(t, h) ==
  /\ Ready(t)
  /\ h.kind # "I002"
  /\ channel_gap(h)
  /\ TrackChannel(h)
  /\ \E sweep \in StaleSweeps : Collect(t, sweep)
  /\ products' = suspect_all
  /\ UNCHANGED <<callbacks, wildcard>>

on_header(t, h) == on_header_reset(t, h) \/ on_header_quiet(t, h) \/ on_header_gap(t, h)
-----------------------------------------------------------------------------
(***************************************************************************)
(* The handlers of product messages.  m is the decoded message.            *)
(***************************************************************************)
\* Install the product's new state and deliver a copy of it.
Deliver(t, p, st) ==
  /\ products' = Stored(p, st)
  /\ Collect(t, collect_delivery(p, st, is_stale(st)))
  /\ UNCHANGED <<channels, callbacks, wildcard>>

\* I024, I025 and a trial I083 only consume a serial: delivered when that
\* changes the stale flag.  Faulty: never delivered.
on_serial_bug(t, m) ==
  /\ Ready(t)
  /\ is_new(get_or_create(m.prod), m.seq)
  /\ products' = Stored(m.prod, track_seq(get_or_create(m.prod), m.seq))
  /\ UNCHANGED <<channels, callbacks, wildcard, pending>>

on_serial(t, m) ==
  LET old == get_or_create(m.prod)
      new == track_seq(old, m.seq)
  IN  /\ Ready(t)
      /\ is_new(old, m.seq)
      /\ IF is_stale(new) = is_stale(old)
         THEN /\ products' = Stored(m.prod, new)
              /\ UNCHANGED <<channels, callbacks, wildcard, pending>>
         ELSE Deliver(t, m.prod, new)

on_i024(t, m) == m.kind = "I024" /\ on_serial(t, m)
on_i025(t, m) == m.kind = "I025" /\ on_serial(t, m)

on_i081(t, m) ==
  LET old == get_or_create(m.prod)
      new == [track_seq(old, m.seq) EXCEPT !.book = apply_entries(@, m.entries)]
  IN  /\ Ready(t)
      /\ m.kind = "I081"
      /\ is_new(old, m.seq)
      /\ Deliver(t, m.prod, new)

on_i083_trial(t, m) == m.kind = "I083" /\ m.trial /\ on_serial(t, m)

adopt(t, m) ==
  /\ Ready(t)
  /\ ~is_older(get_or_create(m.prod), m.seq)
  /\ Deliver(t, m.prod, adopt_snapshot(get_or_create(m.prod), m.seq, m.entries))

on_i083(t, m) == m.kind = "I083" /\ ~m.trial /\ adopt(t, m)

\* One product block of an I084 'O'.
on_i084(t, m) == m.kind = "I084" /\ adopt(t, m)

\* Messages that replace the book.
IsSnapshot(m) == m.kind = "I084" \/ (m.kind = "I083" /\ ~m.trial)

\* The early returns: a serial already seen, a snapshot older than the book.
IsIgnored(m) ==
  IF IsSnapshot(m)
  THEN is_older(get_or_create(m.prod), m.seq)
  ELSE ~is_new(get_or_create(m.prod), m.seq)

on_ignored(t, m) == Ready(t) /\ IsIgnored(m) /\ UNCHANGED manager

on_product(t, m) ==
  \/ on_i024(t, m) \/ on_i025(t, m) \/ on_i081(t, m)
  \/ on_i083_trial(t, m) \/ on_i083(t, m) \/ on_i084(t, m)
  \/ on_ignored(t, m)

\* One iteration of fire(): the thread runs the next callback it owes.
fire(t) ==
  /\ pending[t] # <<>>
  /\ pending' = [pending EXCEPT ![t] = Tail(@)]
  /\ UNCHANGED <<products, channels, callbacks, wildcard>>

\* A callback that throws: the exception leaves fire() and the method, so the
\* invocations after it are never made.
fire_throws(t) ==
  /\ pending[t] # <<>>
  /\ pending' = [pending EXCEPT ![t] = <<>>]
  /\ UNCHANGED <<products, channels, callbacks, wildcard>>
-----------------------------------------------------------------------------
(***************************************************************************)
(* Registration and reset(), from any thread or from inside a callback     *)
(***************************************************************************)
Registered ==
  UNION {ToSet(callbacks[p]) : p \in Products} \cup ToSet(wildcard)

\* Every registration wraps its function in an object of its own: one that is
\* neither registered nor still to be invoked.
IsNew(c) ==
  /\ c \notin Registered
  /\ \A t \in Threads : \A i \in DOMAIN pending[t] : pending[t][i].callback # c

register_callback(c, p) ==
  /\ IsNew(c)
  /\ callbacks' = [callbacks EXCEPT ![p] = Append(@, c)]
  /\ UNCHANGED <<products, channels, wildcard, pending>>

register_callback_all(c) ==
  /\ IsNew(c)
  /\ wildcard' = Append(wildcard, c)
  /\ UNCHANGED <<products, channels, callbacks, pending>>

unregister_callbacks(p) ==
  /\ callbacks' = [callbacks EXCEPT ![p] = <<>>]
  /\ UNCHANGED <<products, channels, wildcard, pending>>

unregister_all_callbacks ==
  /\ callbacks' = [p \in Products |-> <<>>]
  /\ wildcard' = <<>>
  /\ UNCHANGED <<products, channels, pending>>

reset(t) == Ready(t) /\ ClearAll(t, <<>>)

\* A callback that calls reset(): the sweep is fired inside the callback,
\* before the invocations that were still to come.
fire_reset(t) == pending[t] # <<>> /\ ClearAll(t, Tail(pending[t]))
-----------------------------------------------------------------------------
\* A new manager, the callbacks in early registered before the feed starts.
ManagerInit(early) ==
  /\ products = NoProducts
  /\ channels = NoChannels
  /\ callbacks = [p \in Products |-> <<>>]
  /\ wildcard \in SetToSeqs(early)
  /\ pending = [t \in Threads |-> <<>>]
-----------------------------------------------------------------------------
\* What get_book returns now (or that there is no book).
get_book(p) ==
  IF p \in DOMAIN products
  THEN Copy(products[p], is_stale(products[p]))
  ELSE NoCopy

Subscribers(p) == ToSet(callbacks[p] \o wildcard)
=============================================================================
