# A verification project for taifex-resolver

TLA+ models of `taifex-resolver`: the order book manager, the feed that drives
it, the life of the parsers and their threads, the framing of datagrams, and the
locks of the Python bindings. TLC runs check them on small instances, and TLAPS
proofs establish the properties that matter most for every instance. Paths are
relative to the repository (`src/order_book.cc` is the manager, `src/parser.cc`
the parser).

## The system

TAIFEX multicasts market data in two groups. The *realtime* group carries
trades (I024), day-high/low (I025), book increments (I081), book snapshots
(I083), heartbeats (I001), sequence resets (I002) and kinds that are not
decoded. The *carousel* group repeats snapshots of every product (I084). Every
message has a CHANNEL-SEQ; every product message has the product's
PROD-MSG-SEQ, a serial shared by I024, I025, I081 and I083.

| Component | State | Operations | Modelled in |
|---|---|---|---|
| Ladder functions (`order_book.cc:18-63, 103-126`) | a book: four ladders of five levels | `apply_entry`, loading a snapshot | `OrderBook`, `TopOfBook` |
| `OrderBookManager` (`order_book.cc`) | `products_`, `channels_`, `callbacks_`, `wildcard_callbacks_`, one mutex | `on_header`, `on_i024/025/081/083/084`, (un)registration, `get_book`, `reset` | `OrderBookManager`, `AnyFeed`, `Subscribers`; its locking in `Bindings` |
| Receive path of `TaifexParser` (`parser.cc:127-409`) | the datagram being processed | `receive_loop`, `process_raw_data`, `handle_*` | `Feed` (calls and their order) |
| Exchange and network (external) | sessions, serials, sequences, books | send, restart; lose, repeat, delay, reorder | `Feed`, `TopOfBook` |
| Parser life cycle (`parser.cc:11-142`) | `running`, `sockfd`, `recv_thread`, the kernel's descriptors | `start_loop`, `end_loop`, destructor, `receive_loop` | `Lifecycle` |
| Framing and checksum (`parser.cc:40-47, 144-160`) | the loop over a datagram | `process_datagram`, `verify_checksum` | `Framing` |
| Python bindings (`pybind.cpp`) | the GIL, the references to callback objects | every method of the manager, `process_datagram`, `start_loop`, `end_loop` | `Bindings`, `Lifecycle` |
| Example and logger (`example/`, `logger.h`) | `keep_running`, objects that die at exit | `main`, `signal_handler` | `ExampleApp` |
| BCD and field layouts, mocker, tests, build | - | - | not modelled (see below) |

**How they interact.** Each parser owns a receive thread. For every valid
message the thread first gives the header to the manager (`on_header`, which
tracks CHANNEL-SEQ), then the decoded body (`on_i0xx`), then calls the raw
callbacks. Two parsers, one per group, share one manager. Each manager method
is one critical section (an I084 is one per product block); the copies it has
collected are handed to the subscribers *after* the unlock, one callback at a
time, so other threads and re-entrant callbacks act between them.

**What must be right.** A book carries `synced` (its chain of serials is
unbroken) and `suspect` (a channel gap occurred since); it is delivered as stale
unless synced and not suspect. The first hard part is everything that decides
these two bits: loss, repetition, reordering, snapshots ahead of or behind the
realtime thread, heartbeats, the carousel's jumping sequence, restarts, and two
threads. The second is the threads themselves: `sockfd` is shared without a
lock, its number is reused by the kernel, `end_loop` must wake a thread blocked
in `recvfrom`, and three things wait for each other, the manager's mutex, the
GIL and the join. `PROJECT.json` lists the hazards by line, with the property
that covers each, or the reason why none does.

## Modules

- `OrderBook`: the book and the pure functions on it. A level is `NoLevel` or a
  quote; sign, price and quantity are one value, of which the code only asks
  whether it is the zero quote. Actions and sides outside the known ones are
  skipped, as in the code. The loop over a message's entries is a recursive
  function.
- `TopOfBook`: the exchange keeps a deeper ladder and publishes its best `Depth`
  levels as New/Change/Delete/Overlay entries, several changes to a message; the
  receiver applies them with the functions of `OrderBook`, misses some, and
  recovers by snapshots.
- `OrderBookManager`: the variables `products`, `channels`, `callbacks`,
  `wildcard` are the members of the same names; `pending[t]` holds the callback
  invocations thread `t` has collected under the lock and not yet made. One
  action per method; `fire` is one iteration of the loop of `fire()`. An early
  return (a duplicate, an old snapshot) is `on_ignored`. The sweeps of a gap and
  of a reset visit the products in any order, as an `unordered_map` does.
- `AnyFeed`: the manager under every sequence of calls of its interface, with
  subscriptions that come and go.
- `Subscribers`: `AnyFeed` composed with its subscribers. `view[c][p]` is the copy
  of `p` that callback `c` was last handed since it subscribed; `overtaken` records
  that a callback called `reset()` before others of its event ran.
- `BookService`: the abstract promise. Each product is shown with a serial, a
  book and a trust flag; a trusted book is the exchange's at that serial, and
  the serial never goes back while the product is shown.
- `Feed`: exchange, network, receive threads and manager. `hist` records the
  exchange's book after every serial; `job[t]` is the sequence of calls a
  receive thread has still to make for the message it read. The ghosts `epoch`
  (session of the last I002 given to the manager), `mixed` (products touched by
  a message of another session), `base` (where channel tracking began), `behind`
  (products whose last carousel block was older, when it was read, than a message
  the reader's socket had been given), `outdated` (products whose book is from
  such a block) and `skipped` (was a realtime message ever passed over?) are read
  by no action.
- `Lifecycle`: any number of parsers, one application thread and one receive
  thread each. Every access to `sockfd` is a step, `recvfrom` is the load of the
  number (`Load`), the kernel's look-up (`Enter`) and the wait on the socket that
  was found. `table` is the kernel's descriptor table: lowest free number first,
  a closed number may be reused, a `close` does not wake a reader and a
  `shutdown` does. `socket`, `bind` and `recvfrom` may fail. `end_loop` and the
  destructor take their five lines one at a time. With `Python`, a callback
  needs the GIL, `end_loop` is called with it released, the destructor holds it.
- `ExampleApp`: `main()` of the example as a script of calls on two parsers of
  `Lifecycle`, the signal handler, and the order in which the objects die.
- `Bindings`: `stack[t]` holds the calls thread `t` is in, a callback's calls on
  top of the call that made it. A call locks, works, unlocks, fires and drops its
  references, once or, for a message and a datagram, several times (`more`: the
  header's section, the body's, one per I084 block, one message after the other),
  and returns. What the manager computes is abstracted: a critical section takes
  references to the callbacks, or moves them out of the table. `todo` is what a
  delivery has still to call, `refs` the references it holds; that the first is
  safe because of the second is `AliveWhenUsed`. The handlers come to the manager
  from receive threads and from `process_datagram`; Python's own calls of them
  differ from the receive thread's by the GIL alone.
- `Framing`: a datagram as a sequence of bytes, a byte as the set of its bits;
  the exchange concatenates messages of any lengths, the network may damage one
  byte, the loop of `process_datagram` is one action per iteration. Bodies are BCD
  and text, none of whose bytes is ESC, CR or LF, but for one byte:
  `display_item` of I024 (`parser.cc:216`), which may be any of the three.
- Theorems: `OrderBookProofs` (the functions on books), `TopOfBookProofs` (the
  entries of a message against the exchange's ladder), `FeedProofs` (a fresh book
  is true, and `Feed` implements `BookService`), `SubscribersProofs` (what is
  collected and what the subscribers hold), `RecoveryProofs` (restarts, false
  alarms, losses the channel tracker saw), `LifecycleProofs` (with the example
  program), `BindingsProofs`, `FramingProofs`.
- `*MC`: constants for TLC.

The modules meet at their interfaces: `Framing` decides which messages
`Feed!process_raw_data` is called with, `Feed` which calls the manager gets,
`Bindings` what each of those calls does with the locks, `Lifecycle` when the
thread that makes them starts and ends.

Definitions ending in `_bug` are faulty variants that no specification uses; they
are the mutants that show each property can fail.

`product_ids` and `get_book` change nothing (`get_book` is the operator of that
name). `trim_prod_id` is abstracted: products are model values, one per trimmed
key. `info_time`, `prod_id` and the sharing of one copy by reference carry no
decision. The raw callbacks of the parser do not touch the manager. A callback
that raises ends the call it is in (`fire_throws`), and with `MayThrow` the rest
of the datagram, up to a caller of `process_datagram` that catches it (`Throw`);
in a receive thread of the library nobody catches it and the process ends, so
`Throw` belongs to the single-threaded, file-mode use.

## Runs

| Run | Asks | Bounds |
|---|---|---|
| `top_of_book` | does a receiver that missed nothing hold exactly the published levels (`BookIsPublished`)? | depth 3, exchange ladder up to 5, two quotes, two changes per message |
| `any_feed` | is every change of content or trust collected for every subscriber, with the new flag (`ChangesAreDelivered`), and does what the subscribers hold follow the manager (`SubscribersFollow`)? | one thread, one channel, serials {1,3}, re-entrant resets; two products and two callbacks that come and go, at most three of the four at a time (`Small`) |
| `reentrant_reset` | the latter without its condition (`SubscribersAlwaysFollow`): **violated** | the same, serials {1,2,4} |
| `feed_any_order` | is a synced book the exchange's (`FreshIsTrue`, by the inductive `IInv`), and is `BookService` implemented (`ImplementsService`)? | one product, two threads, two sessions, 3 messages, any loss and reordering, a carousel one serial behind |
| `feed_single` | does a loss the tracker saw leave no fresh book that misses a message (`FreshCoversChannel`), but for one adopted from a block that was behind the realtime group when it was read? | two products, one thread for both groups and an application thread, in-order lossy channel, 3 messages with heartbeats, a carousel one serial behind (`Delay = 1`), `reset()` at any time, one subscriber that may raise |
| `feed_race` | the same with a thread per group: **violated** | two products, 4 trades |
| `recover` | until the restart, as long as nothing was lost, is no book stale (`NoFalseAlarm`)? Across a restart that reaches the groups at different times, is everything mixed gone once both I002s are read (`BooksSettle`)? Once the exchange is quiet, does every book become trusted and current (`CatchesUp`)? | one product, two threads, two sessions, 3 messages (increments, heartbeats, undecoded kinds), any but an I002 may be lost or repeated, carousel sequence {1,3}, a carousel one serial behind |
| `end_loop` | does `end_loop` return (`EndLoopReturns`) with the loop ended (`QuietAfterEnd`), no thread overwritten or destroyed unjoined (`NoAbort`), and the inductive `IInv`? | one parser, two descriptors, three starts, Python |
| `destructor` | does the destructor return when Python runs it (`DestructorReturns`): **violated** | one parser, one start |
| `example_traffic` | does `main` end after Ctrl+C (`MainReturns`), with manager and logger outliving the threads (`ResourcesOutlive`), and does `end_loop` ever close the other parser's socket (`DescriptorIsOwn`)? | the two parsers of the example, two descriptors |
| `bindings` | do mutex and GIL ever wait for each other (`NoDeadlock`), is every callback alive that is still to be called (`AliveWhenUsed`), does every call return (`CallsReturn`), and does the inductive `IInv` hold? | one Python and one receive thread, one callback that is registered and unregistered, two calls deep, two critical sections to a message, all calls |
| `framing` | with one damaged byte, do the other messages arrive (`OthersArrive`), and is what is accepted what was sent, or a message cut short (`SentOrCut`)? does the loop tile the datagram (`IInv`)? | bytes of three bits, bodies of two bytes and of five, whose fourth is any control byte, up to two messages, any damage |

The bounds are small and still contain the cases that matter: a gap needs three
serials (one known, one lost, one seen) and so do the two ways of clearing a
suspicion; a race needs two threads and two products (one to reveal the gap, one
to suffer it); the shift of a ladder needs a level above, at and below the
boundary; a session change needs two sessions. `MaxSessions`, `MaxSent`,
`MaxDeep`, `MaxEvents`, `Window`, `Delay`, `Seqs` and `CarouselSeqs` are the
bounds of the feed, each in a guard of the external part. `Small` is the one
state constraint: it leaves two products with one subscriber (a sweep over
several books) and one product with two (a callback that acts before another). In `Lifecycle`,
`MaxStarts` bounds the restarts; the number of a closed socket is reused with
two descriptors and two parsers, and a third start follows a stop of a restarted
loop; one parser is enough for `end_loop`'s questions, and the reuse of a number
by another parser is in `example_traffic`. In `Bindings`, `MaxDepth` bounds
re-entrance: two is a callback that calls the manager, and its callback;
`MaxMore` bounds the critical sections of a call after its first: one is a header
and a body. One callback is enough for another thread to unregister it while a
delivery has still to call it; that nothing depends on how many there are is
proved. In `Framing`, three bits are enough for ESC, CR and LF to be distinct and for the
body bytes to combine to a checksum that is any of them; two messages, for a
damage to one to reach the other. `MinLength`, 5, is less than any message, as
20 is in the code, and the first bytes of a long body reach it: a cut message may
pass the length test.

`feed_any_order` uses ladders of two levels and one quote: the exchange's books
are told apart by how many levels they hold, so a lost or repeated increment
shows.

`feed_any_order` and `feed_single` have a VIEW that leaves out the history
variables their properties do not depend on (`AnyOrderView`, `SingleView` in
`FeedMC`): no action reads them, so two states that differ in them alone behave
alike.

`feed_single` takes a carousel with one CHANNEL-SEQ: how the tracker treats its
jumps is a question of `recover`, which has two. `Delay = 1` brings both kinds of
old block: one that is only behind what was lost, read before the gap is seen,
and one that is behind what was read.

In `Feed` a thread calls `reset()` when it has no datagram in hand: it is an
application thread that never reads a group (`t2` of `feed_single`), or a receive
thread between two datagrams.

**Fairness.** Each assumption is one the system's scheduling gives:

- `recover` (`Feed!FairSpec`): weak fairness of
  each receive thread (they run freely) and strong fairness of the delivery of
  each product's current carousel snapshot: the exchange repeats the carousel
  for ever, so it is not lost for ever. With `ResetsArrive`, an I002 is read in
  the end and not repeated for ever. Nothing is assumed of other realtime
  messages, nor that a lost message is sent again.
- `end_loop`, `destructor` (`Lifecycle!FairSpec`): weak fairness of the lines of
  `end_loop` and of each receive thread, strong fairness of whoever waits for
  the GIL. No datagram is assumed to arrive.
- `example_traffic` the same with C++ threads, and that a socket which is read
  gets a datagram (the exchange's heartbeats).
- `bindings` (`Bindings!FairSpec`): strong fairness of each thread's steps (the
  mutex and the GIL are granted to whoever waits while they are free time and
  again) and of the return of callbacks, each level of re-entrance for itself,
  and of the interpreter's switches.

## Findings

1. `reentrant_reset`: `fire()` (`order_book.cc:159-162`) hands later callbacks
   the copy collected before a re-entrant `reset()`. They end with a fresh-looking
   copy of a book that no longer exists, although `order_book.h:71` calls
   re-entry safe and `order_book_test.cc:666-667` says the subscriber must not
   be left with one.
2. `feed_race`: a snapshot read before a channel gap and adopted after it clears
   the suspicion (`order_book.cc:311`, and 125 in `adopt_snapshot_locked`), and the book is
   shown as fresh although the tracker knows that a message after that snapshot
   may be, and here is, lost (`order_book.h:35` and `115`).
3. `destructor`: `~TaifexParser` joins with the GIL held (`parser.cc:19-21`), the
   deadlock that `pybind.cpp:272-274` avoids for `end_loop`. A Python program
   must call `end_loop` before it drops the parser.

Seven more limits of the code, without a run of their own; where a change to a
`.cfg` or to a property shows one, it is named:

- No carousel recovers a lost I002 (`ResetsArrive = FALSE` in `FeedRecover.cfg`
  violates `CatchesUp`). The books keep the old session's serials, so everything
  of the new session is dropped as old (`order_book.cc:89` and `308`).
- A message that arrives late, but contiguous, lifts a suspicion that a later
  lost message of the same product raised (`Window = 2` in `FeedSingle.cfg`
  violates `FreshCoversChannel`); `order_book.cc:91-92` calls contiguity a proof.
- A carousel block that is older than a message already read lifts the suspicion
  of a gap all the same, with one thread too: `adopt_snapshot_locked` does not ask
  how old the block is (`order_book.cc:124-125`), and a block with the book's own
  serial is adopted. `FreshCoversChannel` leaves such books (`outdated`) out;
  without that, `FeedSingle.cfg` violates it.
- A restart can make a book stale although nothing was lost: the realtime I002
  comes, then the new session's serial 1, then the carousel's I002, which clears
  everything once more (`order_book.cc:137`); serial 2 then meets an empty book
  and finds its chain broken (`order_book.cc:84`). The next snapshot repairs it
  (`CatchesUp`). `NoFalseAlarm` is therefore stated for the first session.
- A datagram with one damaged byte can yield a message that nobody sent. When
  `display_item` of an I024 is 0x0D (thirteen matches) and the next byte is
  damaged to 0x0A, or it is 0x0A and the one before is damaged to 0x0D, the
  message ends there (`parser.cc:148`), and an eight-bit checksum is all that
  tells it from a whole one: the length in the header is not looked at
  (`parser.cc:156-160`). `SentOrCut` says that this is the only way.
- A thread between reading `sockfd` and `recvfrom` may end up on the other
  parser's socket, when that is opened after `end_loop` closed the first one; on
  a silent network the join in `main` never returns (`QuietSpec` in
  `ExampleTraffic.cfg` violates `MainReturns`).
- `process_datagram` keeps the GIL and takes the manager's mutex, against the
  rule of `pybind.cpp:188-191`. It is harmless as long as no critical section
  needs the GIL, which is what `NoDeadlock` shows.

## Theorems

`tlapm` checks, from the named assumptions on the constants alone
(`DepthAssumption`, `SidesAssumption`, `QuotesAssumption`, `SideNames`,
`LadderBounds`, `AnyFeedAssumption`, `FeedAssumption`, `LifecycleAssumption`,
`ExampleAssumption`, `BindingsAssumption`, `FramingAssumption`) and the hypotheses named below:

- `FreshBooksAreTrue` (`Spec => []FreshIsTrue` in `Feed`): a synced book is the
  exchange's book after its serial, for every number of products, threads,
  sessions, messages, levels and quotes. `FreshIsTrue` is not inductive alone.
  `IInv` adds the types, that whatever is under way is *genuine* (the content of
  a message fits the exchange's history at its serial, which is stable because
  the history only grows), and that serial 0 is stored by a snapshot only, so
  that "last = 0 means never seen" cannot mislead `track_seq_locked`. The proof
  has one lemma per kind of step: `ExchangeStep`, `NetworkStep`,
  `CallHeaderStep`, `CallProductStep`, `FireAndResetStep`, `ThrowStep`.
- `FeedImplementsService` (`Spec => ImplementsService`): the abstract `truth` is
  the exchange's history in the present session and `shown` what `get_book`
  returns of the products that are not `mixed`. The initial state maps to the
  initial one; each step of the exchange is `Learn` or a stutter; a handler
  shows one product with a serial that did not go back and, by `IInv`, a true
  book when it is trusted; an I002 and `reset()` withdraw everything.
- `NoAlarmIsFalse` (`Spec => []NoFalseAlarm`), which speaks of the first session,
  without `reset()` and raising callbacks, and says why nothing stronger is true
  (see the limits above). `OrderInv` says how CHANNEL-SEQs
  and serials of the realtime messages follow each other and what a datagram in
  hand consists of. `Calm`, while nothing was skipped: the header and the body
  of every message that was read have reached the manager, but for the one in
  hand, whatever is in hand was sent or is the carousel's, and no book is stale.
  The next header then cannot show a gap, and the next body either continues its
  product's chain or is covered by a snapshot already.
- `MixedBooksSettle` (`Spec => []BooksSettle`). `SettledInv`: sessions follow
  each other and each but the first begins with its I002 (`SessionsInOrder`), a
  datagram in hand is of the session its thread reads (`JobsInOrder`), and while
  both groups are read in the same session and no thread holds an I002, nothing
  is mixed (`Settled`).
- `FreshBooksCoverChannel` (`SingleReader` implies `Spec => [](session = 1 =>
  FreshCoversChannel)`). `SingleReader`: one thread reads both groups
  (`RealtimeThread = CarouselThread`), in order (`Window = 0`); `feed_race` and the
  limits above are what happens without. The carousel may be any number of serials
  behind. A block that is behind the exchange only by messages the reader has not
  been given is harmless: they are still to come, or the gap they leave is still
  to be seen. One that is behind what the reader was given is not, and the books
  adopted from it are left out of the property. `session = 1`, before the first
  restart, because an I002 that is lost lets the CHANNEL-SEQs of the new session
  follow those of the old one in the same tracker. `Cover`, the inductive invariant
  on top of `OrderInv`, says that the tracker stands nowhere above the last message
  that was read (`ChannelBehind`), that a thread holds that message, what is left of
  it, or blocks of the carousel that have all that was read or are in `behind`
  (`HandKnown`), that every message up to the tracker is in the fresh book of its
  product or about to be given to it (`Covered`), and that no book is fresh when a
  callback can throw and take that message away (`BodySafe`).
- `TypeCorrect` and `ChangesCollected` in `SubscribersProofs` (`SystemSpec =>
  []TypeOK`, `SystemSpec => ChangesAreDelivered`), for any number of products,
  callbacks, threads and levels, with subscriptions that come and go and
  callbacks that reset. The argument is one predicate, `Notice`: what a critical
  section collects tells each subscriber of a product the flag and the book it
  leaves behind, or tells nobody of that product and leaves its flag and book as
  they were. There is one lemma per handler (`HeaderNotice`, `SerialNotice`,
  `AdoptNotice`, `IncrementNotice`, `ClearNotice`); that a sweep reaches every
  stored product and each product every callback is `SweepNotice`, over any
  order of an `unordered_map`. The inductive invariant is `StateOK`: the types,
  and that finitely many products are stored, so that a sweep has an order to
  follow.
- `SubscribersKeepUp` (`OneThread` implies `SystemSpec => []SubscribersFollow`).
  `Coming` is what a callback will hold once its thread has fired all it owes;
  firing one copy leaves it alone (`ComingTail`), a `Notice` that comes after
  everything owed brings it up to date (`NoticeFollows`), and nothing else
  changes the books. `OneThread`, one thread that feeds and resets the manager,
  is needed: `fire()` runs without the lock, so two threads may hand over the
  copies of a product out of order, as `README.md:152` of the repository says. A
  re-entrant `reset()` before others of its event were served puts new copies in
  front of old ones; that is `overtaken`, and finding 1.
- `ApplyEntriesType` and `SnapshotRoundTrip` in `OrderBookProofs`: what the
  ladder functions preserve, for any number of entries. The induction over the
  entries goes through `NatSetInduction`, induction in first-order form.
- `BookFollowsLadder` and `TypeCorrect` in `TopOfBookProofs` (`Spec =>
  []BookIsPublished`, `Spec => []TypeOK` in `TopOfBook`), for every depth, every
  bound on the exchange's ladder and on the changes of one message, and any
  number of losses and snapshots. `Shown` is the book the exchange publishes.
  `BestInsert`, `BestReplace` and `BestRemove` compare the published prefix of a
  ladder before and after one change with what `insert_level`, the rewriting of
  a level and `delete_level` make of it; the case that needs care is the removal
  from a ladder longer than `Depth`, whose `Delete` and `New` of the last level
  only work in this order. `EventFollows` turns that into the entries of one
  change, `BatchesFollow` into those of a message, by induction over its changes
  (`ApplyInTurn`: a message applied in two parts does what it does at once),
  `DeriveFollows` is the overlay, and `SnapshotFollows` says that the levels of
  a snapshot may come in any order, each once.
- `ClosesItsOwn`, `EndIsQuiet`, `NeverAborts` and `InvariantHolds` in
  `LifecycleProofs`, for any number of parsers, descriptors and restarts.
  `DescriptorIsOwn` is not inductive: `IInv` adds that `sockfd` names a socket
  of its own parser except between `close` and `sockfd = -1`, that a living
  thread is joinable, and which parsers may still have a thread to join.
  `NeverAborts` covers both ways a `std::thread` ends the process: overwritten by
  `start_loop`, and destroyed with its parser while joinable.
- `ManagerOutlivesThreads` in `LifecycleProofs` (`ExampleSpec => []ResourcesOutlive`,
  `ExampleSpec` being `main()` under any traffic and any time of the signal).
  Every step of the script is a step of `Lifecycle` or leaves it alone, so its
  `IInv` holds here too; `ScriptInv` says how far `main()` is with the two parsers.
  A parser that was told to stop has been joined when the next line of `main()`
  runs (`Joined`), a thread that is not joinable has ended, and nothing is
  destroyed before both are.
- `LocksNeverDeadlock`, `CallbacksAliveWhenUsed` and `InvariantHolds` in
  `BindingsProofs`, for any number of threads, callbacks, critical sections and
  depth of re-entrance. The argument: the holder of the mutex is in its critical section,
  where it waits for nothing (`MutexInSection`); so a call that waits for the
  mutex waits for a thread that moves, and if nobody holds the mutex, the holder
  of the GIL is in Python code or can go on (`GilInCallback`). A callback that is still to
  be called is among the references of its delivery, and what is referred to
  somewhere is not destroyed.
- `InvariantHolds` in `FramingProofs`: what `process_datagram` hands on tiles
  the datagram, for datagrams of any length and content. `SingleErrorDetected`:
  one changed byte among those the checksum covers, or the checksum, makes
  `verify_checksum` fail; a bit of the damaged byte changes the parity of the
  positions that have it. `AcceptedIsSentOrCut` and `UndamagedArrive`
  (`SentOrCut`, `OthersArrive`), for any number of messages of any lengths and any
  one-byte damage: `WireOK` says where the messages stand in the datagram and that
  at most one byte differs from what was sent. What is accepted starts where
  a message does: no other byte that reads as ESC follows what reads as a
  terminator. If it holds the whole message, a damaged byte shows in the checksum;
  if it ends before, one byte of its terminator is the damaged one and the other is
  `display_item`, for at the checksum byte the sum does not come out. It is needed that ESC, CR
  and LF are three different bytes and CR is not zero (0x1B, 0x0D and 0x0A in
  `parser.cc:148-158`), and that at most one byte of a body is one of them, and
  not its last (`FramingAssumption`, `AllButOneAreText`: `display_item` is
  followed by quantities).

Only model-checked: `CatchesUp`, `EndLoopReturns`, `MainReturns` and
`CallsReturn`, liveness under fairness, which the prover does not handle. Every
safety invariant and action property of a passing run is proved, for every value
of the constants that the hypotheses above allow (`FreshCoversChannel` until the
first restart, and `NoFalseAlarm` by its own statement).

`FreshIsTrue` says nothing of books that a message of another session has
reached (`mixed`): the code has no defence there. `BooksSettle` shows that they
are gone once the I002 of both groups were read.

## Not modelled

- BCD and the field layouts (`bcd_to_uint`, the offsets in the `handle_*`
  functions): fixed data layouts, without control or state, that the repository
  states nowhere but in this code, so a model would be compared with itself.
  Decoded numbers are inputs of `Feed`. An I025 too short for its fields is given
  to the manager as a header alone (`parser.cc:247`); the exchange of `Feed` sends
  none. Sequence numbers are unbounded there: ten
  BCD digits are cut to 32 bits in the code, far above what a session reaches.
- `set_callbacks` and `set_order_book_manager` while a loop runs: the interface
  asks for them before `start_loop` (`parser.h:165`).
- `end_loop` from inside a callback: the join of a thread on itself raises.
- `set_multicast` and the options of the socket, the formatting of packets by the
  example and of lines by the logger, the mocker, the tests and the build: no
  decision of the system depends on them.

## Plan

1. A channel that carries both groups: the exemption of snapshot channels from
   gap detection (`order_book.cc:188`) starts late or never.
2. Proofs: `FreshCoversChannel` after a restart whose I002 arrived, and the
   coverage of a book by a realtime and a carousel thread apart, as far as
   `feed_race` leaves one.
