------------------------------- MODULE Bindings -------------------------------
(***************************************************************************)
(* The manager's mutex and Python's GIL: what a call on OrderBookManager   *)
(* does with them and with the callback objects it holds, from a receive   *)
(* thread, from Python (src/src/pybind.cpp) and from inside a callback.    *)
(*                                                                         *)
(* Callbacks are Python functions behind a shared_ptr: calling one, and    *)
(* destroying one with its last reference, needs the GIL; copying or       *)
(* dropping a reference does not.                                          *)
(*                                                                         *)
(* What the manager computes under the lock is in OrderBookManager; here a *)
(* critical section only takes references or moves them out of the table.  *)
(***************************************************************************)
EXTENDS Naturals, Sequences, FiniteSets

CONSTANTS
  PythonThreads,
  ReceiveThreads,
  Callbacks,   \* the callback objects that may be registered, each one once
  Wildcard,    \* those given to register_callback_all
  PythonCalls, \* the calls Python makes
  MaxDepth,    \* bound on the calls of a thread that are inside each other
  MaxMore,     \* bound on the critical sections of a call after its first one
  Nobody       \* no thread

Threads == PythonThreads \cup ReceiveThreads

\* process_datagram is the parser's, with a manager attached; from a receive
\* thread it comes without Python.
Calls == {"on_message", "process_datagram", "register_callback", "unregister_callbacks",
          "unregister_all_callbacks", "get_book"}

ASSUME BindingsAssumption ==
  /\ PythonCalls \subseteq Calls
  /\ Nobody \notin Threads
  /\ PythonThreads \cap ReceiveThreads = {}
  /\ MaxDepth \in Nat
  /\ MaxMore \in Nat

VARIABLES
  mutex,      \* the holder of mtx_
  gil,        \* the holder of the GIL
  callbacks,  \* the objects callbacks_ and wildcard_callbacks_ refer to
  destroyed,  \* the objects that were destroyed
  stack       \* the calls each thread is in, the innermost first

vars == <<mutex, gil, callbacks, destroyed, stack>>

Places == {"lock", "section", "unlock", "fire", "callback", "drop", "return"}

\* A call: where it is, the references it holds, the callbacks still to make,
\* and how many critical sections are still to come.
Frame == [call : Calls, at : Places, refs : SUBSET Callbacks, todo : SUBSET Callbacks,
          more : Nat]

\* A message is its header's section and its body's, an I084 has one for every
\* block, a datagram has several messages; each fires before the next begins.
More(call) == IF call \in {"on_message", "process_datagram"} THEN 0 .. MaxMore ELSE {0}

\* A method locks, works, unlocks, fires what it collected, drops its
\* references and returns.
\* Faulty: it unlocks last.
After_bug ==
  [lock |-> "section", section |-> "fire", fire |-> "drop", drop |-> "unlock",
   unlock |-> "return"]

After ==
  [lock |-> "section", section |-> "unlock", unlock |-> "fire", fire |-> "drop",
   drop |-> "return"]

Busy(t) == stack[t] # <<>>
At(t, place) == Busy(t) /\ stack[t][1].at = place
InCallback(t) == At(t, "callback")
InPython(t) == IF Busy(t) THEN InCallback(t) ELSE t \in PythonThreads

\* Thread t's innermost call becomes frame; a new call is pushed.
Becomes(t, frame) == stack' = [stack EXCEPT ![t] = <<frame>> \o Tail(@)]
GoOn(t) == Becomes(t, [stack[t][1] EXCEPT !.at = After[@]])
Push(t, call, refs) ==
  \E more \in More(call) :
    stack' = [stack EXCEPT ![t] =
                <<[call |-> call, at |-> "lock", refs |-> refs, todo |-> {}, more |-> more]>> \o @]

\* The references other than those of t's innermost call.
HeldElsewhere(c, t) ==
  \/ c \in callbacks
  \/ \E u \in Threads : \E i \in 1 .. Len(stack[u]) :
       <<u, i>> # <<t, 1>> /\ c \in stack[u][i].refs

IsNew(c) ==
  /\ c \notin callbacks \cup destroyed
  /\ \A t \in Threads : \A i \in 1 .. Len(stack[t]) : c \notin stack[t][i].refs
-----------------------------------------------------------------------------
(***************************************************************************)
(* Calls                                                                   *)
(***************************************************************************)
\* A message reaches the manager from a receive thread's own loop.
Receive(t) ==
  /\ t \in ReceiveThreads
  /\ ~Busy(t)
  /\ Push(t, "on_message", {})
  /\ UNCHANGED <<mutex, gil, callbacks, destroyed>>

\* Python calls a method: every binding but process_datagram's releases the GIL.
KeepsGil(call) == call = "process_datagram"

CallFromPython(t, call) ==
  /\ InPython(t) /\ gil = t
  /\ Len(stack[t]) < MaxDepth
  /\ \/ call # "register_callback" /\ Push(t, call, {})
     \/ call = "register_callback" /\ \E c \in Callbacks : IsNew(c) /\ Push(t, call, {c})
  /\ gil' = IF KeepsGil(call) THEN t ELSE Nobody
  /\ UNCHANGED <<mutex, callbacks, destroyed>>

Lock(t) ==
  /\ At(t, "lock")
  /\ mutex = Nobody
  /\ mutex' = t
  /\ GoOn(t)
  /\ UNCHANGED <<gil, callbacks, destroyed>>

\* What a delivery holds of the callbacks it is to call: a reference to each.
\* Faulty: it points to them without a reference.
Kept_bug(collected) == {}
Kept(collected) == collected

\* The critical section.  A message may be dropped, or nobody may care.
Taking(t, refs, todo) ==
  Becomes(t, [stack[t][1] EXCEPT !.at = After[@], !.refs = refs, !.todo = todo])

Section(t) ==
  /\ At(t, "section")
  /\ \/ /\ stack[t][1].call \in {"on_message", "process_datagram"}
        /\ \E collected \in {{}, callbacks} : Taking(t, Kept(collected), collected)
        /\ UNCHANGED callbacks
     \/ /\ stack[t][1].call = "register_callback"
        /\ callbacks' = callbacks \cup stack[t][1].refs
        /\ Taking(t, {}, {})
     \/ /\ stack[t][1].call = "unregister_callbacks"
        /\ callbacks' = callbacks \cap Wildcard
        /\ Taking(t, callbacks \ Wildcard, {})
     \/ /\ stack[t][1].call = "unregister_all_callbacks"
        /\ callbacks' = {}
        /\ Taking(t, callbacks, {})
     \/ /\ stack[t][1].call = "get_book"
        /\ GoOn(t)
        /\ UNCHANGED callbacks
  /\ UNCHANGED <<mutex, gil, destroyed>>

Unlock(t) ==
  /\ At(t, "unlock")
  /\ mutex' = Nobody
  /\ GoOn(t)
  /\ UNCHANGED <<gil, callbacks, destroyed>>
-----------------------------------------------------------------------------
(***************************************************************************)
(* Callbacks.  pybind11 takes the GIL around each, unless its thread has   *)
(* it, and gives back what it took.                                        *)
(***************************************************************************)
GilIsFor(t) == gil \in {Nobody, t}

Invoke(t) ==
  /\ At(t, "fire")
  /\ stack[t][1].todo # {}
  /\ GilIsFor(t)
  /\ gil' = t
  /\ Becomes(t, [stack[t][1] EXCEPT !.at = "callback"])
  /\ UNCHANGED <<mutex, callbacks, destroyed>>

\* Faulty: the GIL that was taken is kept.
GilAfter_bug(t) == t
GilAfter(t) == IF KeepsGil(stack[t][1].call) THEN t ELSE Nobody

CallbackReturns(t) ==
  /\ InCallback(t) /\ gil = t
  /\ \E c \in stack[t][1].todo : Becomes(t, [stack[t][1] EXCEPT !.at = "fire", !.todo = @ \ {c}])
  /\ gil' = GilAfter(t)
  /\ UNCHANGED <<mutex, callbacks, destroyed>>

\* A callback that raises takes the ones after it along, and the rest of the
\* datagram.  (Nobody catches it in a receive thread's own call, where it ends
\* the process.)
CallbackRaises(t) ==
  /\ InCallback(t) /\ gil = t
  /\ Len(stack[t]) > 1 \/ t \in PythonThreads
  /\ Becomes(t, [stack[t][1] EXCEPT !.at = After["fire"], !.todo = {}, !.more = 0])
  /\ gil' = GilAfter(t)
  /\ UNCHANGED <<mutex, callbacks, destroyed>>

AllFired(t) ==
  /\ At(t, "fire")
  /\ stack[t][1].todo = {}
  /\ GoOn(t)
  /\ UNCHANGED <<mutex, gil, callbacks, destroyed>>

\* A reference goes out of scope; with the last one the object is destroyed.
IsLast(c, t) == ~HeldElsewhere(c, t)

Drop(t) ==
  /\ At(t, "drop")
  /\ \E c \in stack[t][1].refs :
       /\ Becomes(t, [stack[t][1] EXCEPT !.refs = @ \ {c}])
       /\ IF IsLast(c, t)
          THEN GilIsFor(t) /\ destroyed' = destroyed \cup {c}
          ELSE UNCHANGED destroyed
  /\ UNCHANGED <<mutex, gil, callbacks>>

\* The next block or message takes the lock again.
Again(t) == Becomes(t, [stack[t][1] EXCEPT !.at = "lock", !.more = @ - 1])

AllDropped(t) ==
  /\ At(t, "drop")
  /\ stack[t][1].refs = {}
  /\ IF stack[t][1].more = 0 THEN GoOn(t) ELSE Again(t)
  /\ UNCHANGED <<mutex, gil, callbacks, destroyed>>

\* Back to the caller: the receive loop, or Python with the GIL.
FromPython(t) == t \in PythonThreads \/ Len(stack[t]) > 1

Return(t) ==
  /\ At(t, "return")
  /\ FromPython(t) => GilIsFor(t)
  /\ gil' = IF FromPython(t) THEN t ELSE gil
  /\ stack' = [stack EXCEPT ![t] = Tail(@)]
  /\ UNCHANGED <<mutex, callbacks, destroyed>>

\* The interpreter switches threads.
Switch(t, from, to) ==
  /\ InPython(t)
  /\ gil = from /\ gil' = to
  /\ UNCHANGED <<mutex, callbacks, destroyed, stack>>

GiveUp(t) == Switch(t, t, Nobody)
TakeBack(t) == Switch(t, Nobody, t)
-----------------------------------------------------------------------------
Init ==
  /\ mutex = Nobody
  /\ gil = Nobody
  /\ callbacks = {}
  /\ destroyed = {}
  /\ stack = [t \in Threads |-> <<>>]

\* The steps of a call: its own, and those that end a callback.
Step(t) == Lock(t) \/ Section(t) \/ Unlock(t) \/ Invoke(t) \/ AllFired(t) \/ Drop(t)
           \/ AllDropped(t) \/ Return(t)

Next ==
  \E t \in Threads :
    \/ Receive(t)
    \/ \E call \in PythonCalls : CallFromPython(t, call)
    \/ Step(t)
    \/ CallbackReturns(t) \/ CallbackRaises(t)
    \/ GiveUp(t) \/ TakeBack(t)

Spec == Init /\ [][Next]_vars

\* Threads run, a thread gets a lock that is free time and again, a callback
\* returns when given the time, whatever calls it makes, and the interpreter
\* switches threads.
FairSpec ==
  /\ Spec
  /\ \A t \in Threads :
       /\ \A depth \in 1 .. MaxDepth :
            SF_vars(Len(stack[t]) = depth /\ (Step(t) \/ CallbackReturns(t)))
       /\ SF_vars(GiveUp(t) \/ TakeBack(t))
-----------------------------------------------------------------------------
TypeOK ==
  /\ mutex \in Threads \cup {Nobody}
  /\ gil \in Threads \cup {Nobody}
  /\ callbacks \subseteq Callbacks
  /\ destroyed \subseteq Callbacks
  /\ stack \in [Threads -> Seq(Frame)]

\* A call that cannot go on before another thread gives something up.
LastReference(t) == \E c \in stack[t][1].refs : IsLast(c, t)

WaitsForMutex(t) == At(t, "lock") /\ mutex # Nobody

WaitsForGil(t) ==
  /\ ~GilIsFor(t)
  /\ \/ InCallback(t)
     \/ At(t, "fire") /\ stack[t][1].todo # {}
     \/ At(t, "drop") /\ LastReference(t)
     \/ At(t, "return") /\ FromPython(t)

\* Mutex and GIL never wait for each other: while a call is under way, some call,
\* or Python code that has the GIL, can go on, with callbacks re-entering the
\* manager and with process_datagram taking the mutex under the GIL
\* (order_book.h:65-71, pybind.cpp:188-191).
NoDeadlock ==
  (\E t \in Threads : Busy(t)) =>
    \E t \in Threads :
      /\ Busy(t) \/ (gil = t /\ InPython(t))
      /\ ~WaitsForMutex(t) /\ ~WaitsForGil(t)

\* Why: whoever holds the mutex is in the critical section, where it waits for
\* nothing (order_book.cc:320-323).
MutexInSection ==
  \A t \in Threads : mutex = t => At(t, "section") \/ At(t, "unlock")

\* And a receive thread has the GIL in its callbacks only, a call inside
\* another one being made by a callback (pybind.cpp:268-271).
NestedInCallback ==
  \A t \in Threads : \A i \in 1 .. Len(stack[t]) : i # 1 => stack[t][i].at = "callback"

GilInCallback ==
  \A t \in ReceiveThreads :
    /\ gil = t => Busy(t)
    /\ Busy(t) => /\ stack[t][Len(stack[t])].call = "on_message"
                  /\ gil = t => stack[t][Len(stack[t])].at = "callback"

LockInv == TypeOK /\ MutexInSection
IInv == LockInv /\ NestedInCallback /\ GilInCallback

\* A callback that is still to be called, or is being called, exists, and so do
\* those in the table: one that is unregistered while a delivery is under way
\* lives until the delivery has called it, although nobody holds the lock by
\* then (order_book.cc:151-155, 159-162, 338-348).
AliveWhenUsed ==
  /\ callbacks \cap destroyed = {}
  /\ \A t \in Threads : \A i \in 1 .. Len(stack[t]) : stack[t][i].todo \cap destroyed = {}

\* Every call returns.
CallsReturn == \A t \in Threads : Busy(t) ~> ~Busy(t)
=============================================================================
