----------------------------- MODULE Subscribers -----------------------------
(***************************************************************************)
(* AnyFeed with its subscribers: view[c][p] is the last copy of p that     *)
(* callback c was handed since it was registered for p.                    *)
(***************************************************************************)
EXTENDS AnyFeed

VARIABLES
  view,
  overtaken   \* has a callback called reset() before others of its event ran?

system == <<manager, view, overtaken>>

\* What a callback holds that is no subscriber of p, or a new one of it.
NotTold == [told |-> FALSE]

SystemInit ==
  /\ Init
  /\ view = [c \in Callbacks |-> [p \in Products |-> NotTold]]
  /\ overtaken = FALSE

\* A new subscriber holds nothing, rightly when there is no book.
NewView(c, p) ==
  CASE c \notin Subscribers(p)'                            -> NotTold
    [] c \in Subscribers(p)' /\ c \in Subscribers(p)       -> view[c][p]
    [] c \in Subscribers(p)' /\ c \notin Subscribers(p)    ->
         IF p \in DOMAIN products THEN NotTold ELSE NoCopy

Register ==
  /\ Registration
  /\ view' = [c \in Callbacks |-> [p \in Products |-> NewView(c, p)]]
  /\ UNCHANGED overtaken

\* One invocation of fire(): the callback is handed the copy, and may reset.
\* What it still gets once it is unregistered is nothing to go by.
Invoke(t) ==
  /\ \/ fire(t) /\ UNCHANGED overtaken
     \/ Reentry /\ fire_reset(t) /\ overtaken' = (overtaken \/ Len(pending[t]) > 1)
  /\ LET d == Head(pending[t])
     IN  view' = IF d.callback \in Subscribers(d.prod)
                 THEN [view EXCEPT ![d.callback][d.prod] = d.copy]
                 ELSE view

SystemNext ==
  \/ Call /\ UNCHANGED <<view, overtaken>>
  \/ Register
  \/ \E t \in Threads : Invoke(t)

SystemSpec == SystemInit /\ [][SystemNext]_system
-----------------------------------------------------------------------------
\* What callback c holds for p once thread t has fired what it owes.
Forthcoming(t, c, p) ==
  LET mine == {i \in DOMAIN pending[t] : pending[t][i].callback = c /\ pending[t][i].prod = p}
  IN  IF mine = {} THEN view[c][p]
      ELSE pending[t][CHOOSE i \in mine : \A j \in mine : j <= i].copy

\* With one feed thread, the last copy every subscriber has or is about to be
\* given carries the present flag, and the present book when there is one to
\* trust: no subscriber is left holding a fresh-looking copy of a book the
\* manager has given up (order_book_test.cc:666-667, order_book.h:107-108).
SubscribersAlwaysFollow ==
  \A t \in Threads, p \in Products : \A c \in Subscribers(p) :
    LET copy == Forthcoming(t, c, p)
    IN  copy # NotTold =>
          /\ copy.is_stale = get_book(p).is_stale
          /\ ~copy.is_stale => copy.book = products[p].book

\* The same, as long as no callback resets the manager while others of the same
\* event still wait for the earlier copies.
SubscribersFollow == ~overtaken => SubscribersAlwaysFollow
=============================================================================
