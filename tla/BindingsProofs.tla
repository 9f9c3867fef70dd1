---------------------------- MODULE BindingsProofs ----------------------------
(***************************************************************************)
(* The mutex and the GIL for any number of threads, callbacks and nested   *)
(* calls: who holds the mutex waits for nothing, so the two locks cannot   *)
(* deadlock; and a callback that is still to be called was not destroyed,  *)
(* because the delivery that is to call it holds a reference to it.        *)
(***************************************************************************)
EXTENDS Bindings, SequenceTheorems, TLAPS

\* What the table or a call has a reference to was not destroyed.
HeldAlive ==
  /\ callbacks \cap destroyed = {}
  /\ \A t \in Threads : \A i \in 1 .. Len(stack[t]) : stack[t][i].refs \cap destroyed = {}

Inv == LockInv /\ HeldAlive
-----------------------------------------------------------------------------
(***************************************************************************)
(* Stacks                                                                  *)
(***************************************************************************)
\* Replacing the innermost call leaves the others alone.
LEMMA ReplaceTop ==
  ASSUME NEW s \in Seq(Frame), s # <<>>, NEW f \in Frame
  PROVE  LET r == <<f>> \o Tail(s)
         IN  /\ r \in Seq(Frame) /\ r # <<>> /\ Len(r) = Len(s) /\ r[1] = f
             /\ \A i \in 1 .. Len(s) : i # 1 => r[i] = s[i]
<1>1. Tail(s) \in Seq(Frame) /\ Len(Tail(s)) = Len(s) - 1 /\ Len(s) \in Nat \ {0}
  OBVIOUS
<1>2. <<f>> \in Seq(Frame) /\ Len(<<f>>) = 1
  OBVIOUS
<1>3. <<f>> \o Tail(s) \in Seq(Frame) /\ Len(<<f>> \o Tail(s)) = Len(s)
  BY <1>1, <1>2
<1>4. (<<f>> \o Tail(s))[1] = f
  BY <1>1, <1>2
<1>5. ASSUME NEW i \in 1 .. Len(s), i # 1
      PROVE  (<<f>> \o Tail(s))[i] = s[i]
  BY <1>1, <1>2, <1>5
<1> QED BY <1>1, <1>3, <1>4, <1>5

\* A new call goes on top of the others.
LEMMA PushTop ==
  ASSUME NEW s \in Seq(Frame), NEW f \in Frame
  PROVE  LET r == <<f>> \o s
         IN  /\ r \in Seq(Frame) /\ r # <<>> /\ Len(r) = Len(s) + 1 /\ r[1] = f
             /\ \A i \in 1 .. Len(r) : i # 1 => i - 1 \in 1 .. Len(s) /\ r[i] = s[i - 1]
<1>1. <<f>> \in Seq(Frame) /\ Len(<<f>>) = 1 /\ Len(s) \in Nat
  OBVIOUS
<1>2. <<f>> \o s \in Seq(Frame) /\ Len(<<f>> \o s) = Len(s) + 1
  BY <1>1
<1>3. (<<f>> \o s)[1] = f
  BY <1>1
<1>4. ASSUME NEW i \in 1 .. Len(s) + 1, i # 1
      PROVE  i - 1 \in 1 .. Len(s) /\ (<<f>> \o s)[i] = s[i - 1]
  BY <1>1, <1>4
<1> QED BY <1>1, <1>2, <1>3, <1>4

\* What a call of thread t may do to the stacks: it changes t's own, whose
\* calls hold references they held, or references given in refs.
Holding(t, refs) ==
  /\ stack' = [stack EXCEPT ![t] = stack'[t]]
  /\ stack'[t] \in Seq(Frame)
  /\ \A i \in 1 .. Len(stack'[t]) :
       \/ stack'[t][i].refs \subseteq refs
       \/ \E j \in 1 .. Len(stack[t]) : stack'[t][i].refs = stack[t][j].refs

LEMMA BecomesHolds ==
  ASSUME TypeOK, NEW t \in Threads, Busy(t), NEW f \in Frame, Becomes(t, f)
  PROVE  /\ Holding(t, f.refs) /\ stack'[t] # <<>> /\ stack'[t][1] = f
         /\ Len(stack'[t]) = Len(stack[t])
         /\ \A i \in 1 .. Len(stack[t]) : i # 1 => stack'[t][i] = stack[t][i]
<1>1. stack[t] \in Seq(Frame) /\ stack[t] # <<>>
  BY DEF TypeOK, Busy
<1>2. stack'[t] = <<f>> \o Tail(stack[t]) /\ stack' = [stack EXCEPT ![t] = stack'[t]]
  BY DEF TypeOK, Becomes
<1> DEFINE r == <<f>> \o Tail(stack[t])
<1>3. /\ r \in Seq(Frame) /\ r # <<>> /\ Len(r) = Len(stack[t]) /\ r[1] = f
      /\ \A i \in 1 .. Len(stack[t]) : i # 1 => r[i] = stack[t][i]
  BY <1>1, ReplaceTop
<1>4. stack'[t] = r
  BY <1>2
<1> HIDE DEF r
<1>5. Holding(t, f.refs)
  BY <1>2, <1>3, <1>4 DEF Holding
<1> QED BY <1>3, <1>4, <1>5

\* A step that keeps to this keeps the stacks well formed, and leaves every
\* other thread where it is.
LEMMA HoldingKeepsTypes ==
  ASSUME TypeOK, NEW t \in Threads, NEW refs, Holding(t, refs)
  PROVE  /\ stack' \in [Threads -> Seq(Frame)]
         /\ \A u \in Threads : u # t => stack'[u] = stack[u]
BY DEF TypeOK, Holding

\* No call holds a destroyed object when what is destroyed is held by nobody
\* and what is taken is not destroyed.
LEMMA HoldingKeepsAlive ==
  ASSUME TypeOK, HeldAlive, NEW t \in Threads, NEW refs, Holding(t, refs),
         destroyed' = destroyed, refs \cap destroyed = {}, callbacks' \cap destroyed = {}
  PROVE  HeldAlive'
<1>1. ASSUME NEW u \in Threads, NEW i \in 1 .. Len(stack'[u])
      PROVE  stack'[u][i].refs \cap destroyed = {}
  <2>1. CASE u = t
    BY <1>1, <2>1 DEF Holding, HeldAlive
  <2>2. CASE u # t
    BY <2>2, HoldingKeepsTypes DEF HeldAlive
  <2> QED BY <2>1, <2>2
<1> QED BY <1>1 DEF HeldAlive
-----------------------------------------------------------------------------
(***************************************************************************)
(* The steps                                                               *)
(***************************************************************************)
\* The innermost call is a call.
LEMMA TopIsFrame ==
  ASSUME TypeOK, NEW t \in Threads, Busy(t)
  PROVE  /\ stack[t][1] \in Frame /\ 1 \in 1 .. Len(stack[t])
         /\ stack[t][1].refs \subseteq Callbacks /\ stack[t][1].todo \subseteq Callbacks
<1>1. stack[t] \in Seq(Frame) /\ stack[t] # <<>>
  BY DEF TypeOK, Busy
<1>2. 1 \in 1 .. Len(stack[t])
  BY <1>1
<1>3. stack[t][1] \in Frame
  BY <1>1, <1>2
<1> QED BY <1>2, <1>3 DEF Frame

\* A step that neither takes nor leaves the mutex, of a thread that has it only
\* where it goes on having it, keeps the holder in the critical section.
LEMMA MutexKept ==
  ASSUME TypeOK, MutexInSection, NEW t \in Threads, mutex' = mutex,
         \A u \in Threads : u # t => stack'[u] = stack[u],
         mutex = t => At(t, "section")' \/ At(t, "unlock")'
  PROVE  MutexInSection'
<1> SUFFICES ASSUME NEW u \in Threads, mutex = u
             PROVE  At(u, "section")' \/ At(u, "unlock")'
  BY DEF MutexInSection
<1>1. CASE u = t
  BY <1>1
<1>2. CASE u # t
  BY <1>2 DEF MutexInSection, At, Busy
<1> QED BY <1>1, <1>2

\* A thread outside the critical section does not hold the mutex.
LEMMA OutsideSection ==
  ASSUME MutexInSection, NEW t \in Threads, ~At(t, "section"), ~At(t, "unlock")
  PROVE  mutex # t
BY DEF MutexInSection

\* A thread that runs Python is outside.
LEMMA PythonIsOutside ==
  ASSUME TypeOK, MutexInSection, NEW t \in Threads, InPython(t)
  PROVE  mutex # t
<1>1. ~At(t, "section") /\ ~At(t, "unlock")
  BY DEF InPython, InCallback, At
<1> QED BY <1>1, OutsideSection

\* A step of one thread outside the critical section that takes references from
\* refs and touches neither the mutex, the table nor what was destroyed.
LEMMA StepOutside ==
  ASSUME Inv, NEW t \in Threads, NEW refs, Holding(t, refs), refs \cap destroyed = {},
         mutex # t, UNCHANGED <<mutex, callbacks, destroyed>>, gil' \in Threads \cup {Nobody}
  PROVE  Inv'
<1>1. TypeOK'
  BY HoldingKeepsTypes DEF Inv, LockInv, TypeOK
<1>2. MutexInSection'
  BY HoldingKeepsTypes, MutexKept DEF Inv, LockInv
<1>3. HeldAlive'
  <2>1. callbacks' \cap destroyed = {}
    BY DEF Inv, HeldAlive
  <2> QED BY <2>1, HoldingKeepsAlive DEF Inv, LockInv
<1> QED BY <1>1, <1>2, <1>3 DEF Inv, LockInv

\* A call begins.
LEMMA PushHolds ==
  ASSUME TypeOK, NEW t \in Threads, NEW call \in Calls, NEW refs \in SUBSET Callbacks,
         Push(t, call, refs)
  PROVE  Holding(t, refs)
<1>0. PICK more \in More(call) :
        stack' = [stack EXCEPT ![t] =
          <<[call |-> call, at |-> "lock", refs |-> refs, todo |-> {}, more |-> more]>> \o @]
  BY DEF Push
<1> DEFINE f == [call |-> call, at |-> "lock", refs |-> refs, todo |-> {}, more |-> more]
           r == <<f>> \o stack[t]
<1>1. f \in Frame /\ f.refs = refs
  <2>1. more \in Nat
    BY <1>0, BindingsAssumption DEF More
  <2> QED BY <2>1 DEF Frame, Places
<1>2. stack[t] \in Seq(Frame)
  BY DEF TypeOK
<1>3. stack'[t] = r /\ stack' = [stack EXCEPT ![t] = stack'[t]]
  BY <1>0 DEF TypeOK
<1> HIDE DEF f
<1>4. /\ r \in Seq(Frame) /\ r[1] = f
      /\ \A i \in 1 .. Len(r) : i # 1 => i - 1 \in 1 .. Len(stack[t]) /\ r[i] = stack[t][i - 1]
  BY <1>1, <1>2, PushTop
<1> HIDE DEF r
<1> QED BY <1>1, <1>3, <1>4 DEF Holding

LEMMA CallStep ==
  ASSUME Inv, NEW t \in Threads,
         Receive(t) \/ \E call \in PythonCalls : CallFromPython(t, call)
  PROVE  Inv'
<1>1. CASE Receive(t)
  <2>1. mutex # t
    BY <1>1, OutsideSection DEF Receive, At, Inv, LockInv
  <2>2. Holding(t, {})
    BY <1>1, PushHolds DEF Receive, Inv, LockInv, Calls
  <2>3. UNCHANGED <<mutex, callbacks, destroyed>> /\ gil' \in Threads \cup {Nobody}
    BY <1>1 DEF Receive, Inv, LockInv, TypeOK
  <2> QED BY <2>1, <2>2, <2>3, StepOutside
<1>2. ASSUME NEW call \in PythonCalls, CallFromPython(t, call)
      PROVE  Inv'
  <2>0. call \in Calls
    BY BindingsAssumption
  <2>1. mutex # t
    BY <1>2, PythonIsOutside DEF CallFromPython, Inv, LockInv
  <2>2. PICK refs \in SUBSET Callbacks : Push(t, call, refs) /\ refs \cap destroyed = {}
    <3>1. CASE Push(t, call, {})
      BY <3>1
    <3>2. ASSUME NEW c \in Callbacks, IsNew(c), Push(t, call, {c})
          PROVE  \E refs \in SUBSET Callbacks : Push(t, call, refs) /\ refs \cap destroyed = {}
      BY <3>2 DEF IsNew
    <3> QED BY <1>2, <3>1, <3>2 DEF CallFromPython
  <2>3. Holding(t, refs)
    BY <2>0, <2>2, PushHolds DEF Inv, LockInv
  <2>4. UNCHANGED <<mutex, callbacks, destroyed>> /\ gil' \in Threads \cup {Nobody}
    BY <1>2 DEF CallFromPython
  <2> QED BY <2>1, <2>2, <2>3, <2>4, StepOutside
<1> QED BY <1>1, <1>2

\* Where a call goes on to.
LEMMA GoOnHolds ==
  ASSUME Inv, NEW t \in Threads, Busy(t), stack[t][1].at \in DOMAIN After,
         GoOn(t)
  PROVE  /\ Holding(t, stack[t][1].refs) /\ stack[t][1].refs \cap destroyed = {}
         /\ stack'[t] # <<>> /\ stack'[t][1].at = After[stack[t][1].at]
<1> DEFINE f == [stack[t][1] EXCEPT !.at = After[@]]
<1>1. stack[t][1] \in Frame /\ 1 \in 1 .. Len(stack[t])
  BY TopIsFrame DEF Inv, LockInv
<1>2. f \in Frame /\ f.refs = stack[t][1].refs /\ f.at = After[stack[t][1].at]
  BY <1>1 DEF Frame, Places, After
<1>3. Becomes(t, f)
  BY DEF GoOn
<1>4. stack[t][1].refs \cap destroyed = {}
  BY <1>1 DEF Inv, HeldAlive
<1> HIDE DEF f
<1> QED BY <1>2, <1>3, <1>4, BecomesHolds DEF Inv, LockInv

LEMMA LockStep == ASSUME Inv, NEW t \in Threads, Lock(t) PROVE Inv'
<1>1. /\ Holding(t, stack[t][1].refs) /\ stack[t][1].refs \cap destroyed = {}
      /\ stack'[t] # <<>> /\ stack'[t][1].at = "section"
  BY GoOnHolds DEF Lock, At, After
<1>2. mutex = Nobody /\ mutex' = t /\ UNCHANGED <<gil, callbacks, destroyed>>
  BY DEF Lock
<1>3. TypeOK'
  BY <1>1, <1>2, HoldingKeepsTypes DEF Inv, LockInv, TypeOK
<1>4. MutexInSection'
  BY <1>1, <1>2 DEF MutexInSection, At, Busy
<1>5. HeldAlive'
  <2>1. callbacks' \cap destroyed = {}
    BY <1>2 DEF Inv, HeldAlive
  <2> QED BY <1>1, <1>2, <2>1, HoldingKeepsAlive DEF Inv, LockInv
<1> QED BY <1>3, <1>4, <1>5 DEF Inv, LockInv

\* The critical section: what is taken was in the table, or held already.
LEMMA TakingHolds ==
  ASSUME Inv, NEW t \in Threads, At(t, "section"),
         NEW refs \in SUBSET Callbacks, NEW todo \in SUBSET Callbacks, Taking(t, refs, todo)
  PROVE  Holding(t, refs) /\ stack'[t] # <<>> /\ stack'[t][1].at = "unlock"
<1> DEFINE f == [stack[t][1] EXCEPT !.at = After[@], !.refs = refs, !.todo = todo]
<1>1. stack[t][1] \in Frame /\ stack[t][1].at = "section" /\ Busy(t)
  BY TopIsFrame DEF Inv, LockInv, At
<1>2. f \in Frame /\ f.refs = refs /\ f.at = "unlock"
  <2>1. After["section"] = "unlock"
    BY DEF After
  <2>2. f = [stack[t][1] EXCEPT !.at = "unlock", !.refs = refs, !.todo = todo]
    BY <1>1, <2>1
  <2> HIDE DEF f
  <2> QED BY <1>1, <2>2 DEF Frame, Places
<1>3. Becomes(t, f)
  BY DEF Taking
<1> HIDE DEF f
<1> QED BY <1>1, <1>2, <1>3, BecomesHolds DEF Inv, LockInv

LEMMA SectionStep == ASSUME Inv, NEW t \in Threads, Section(t) PROVE Inv'
<1>1. At(t, "section") /\ UNCHANGED <<mutex, gil, destroyed>>
  BY DEF Section
<1>2. stack[t][1].refs \subseteq Callbacks /\ stack[t][1].refs \cap destroyed = {}
  <2>1. 1 \in 1 .. Len(stack[t]) /\ stack[t][1].refs \subseteq Callbacks
    BY <1>1, TopIsFrame DEF At, Inv, LockInv
  <2> QED BY <2>1 DEF Inv, HeldAlive
<1>3. callbacks \subseteq Callbacks /\ callbacks \cap destroyed = {}
  BY DEF Inv, LockInv, TypeOK, HeldAlive
<1>4. PICK refs \in SUBSET Callbacks :
        /\ Holding(t, refs) /\ refs \cap destroyed = {}
        /\ stack'[t] # <<>> /\ stack'[t][1].at = "unlock"
        /\ callbacks' \subseteq Callbacks /\ callbacks' \cap destroyed = {}
  <2>1. CASE \E collected \in {{}, callbacks} :
               Taking(t, Kept(collected), collected) /\ UNCHANGED callbacks
    <3>1. PICK collected \in {{}, callbacks} :
            Taking(t, collected, collected) /\ UNCHANGED callbacks
      BY <2>1 DEF Kept
    <3>2. collected \in SUBSET Callbacks /\ collected \cap destroyed = {}
      BY <1>3
    <3> QED BY <1>1, <1>3, <3>1, <3>2, TakingHolds
  <2>2. CASE callbacks' = callbacks \cup stack[t][1].refs /\ Taking(t, {}, {})
    BY <1>1, <1>2, <1>3, <2>2, TakingHolds
  <2>3. CASE callbacks' = callbacks \cap Wildcard /\ Taking(t, callbacks \ Wildcard, {})
    <3>1. callbacks \ Wildcard \in SUBSET Callbacks /\ (callbacks \ Wildcard) \cap destroyed = {}
      BY <1>3
    <3> QED BY <1>1, <1>3, <2>3, <3>1, TakingHolds
  <2>4. CASE callbacks' = {} /\ Taking(t, callbacks, {})
    BY <1>1, <1>3, <2>4, TakingHolds
  <2>5. CASE GoOn(t) /\ UNCHANGED callbacks
    <3>1. stack[t][1].at \in DOMAIN After /\ After[stack[t][1].at] = "unlock" /\ Busy(t)
      BY <1>1 DEF At, After
    <3> QED BY <1>2, <1>3, <2>5, <3>1, GoOnHolds
  <2> QED BY <2>1, <2>2, <2>3, <2>4, <2>5 DEF Section
<1>5. TypeOK'
  BY <1>1, <1>4, HoldingKeepsTypes DEF Inv, LockInv, TypeOK
<1>6. MutexInSection'
  BY <1>1, <1>4, HoldingKeepsTypes, MutexKept DEF Inv, LockInv, At, Busy
<1>7. HeldAlive'
  BY <1>1, <1>4, HoldingKeepsAlive DEF Inv, LockInv
<1> QED BY <1>5, <1>6, <1>7 DEF Inv, LockInv

LEMMA UnlockStep == ASSUME Inv, NEW t \in Threads, Unlock(t) PROVE Inv'
<1>1. Holding(t, stack[t][1].refs) /\ stack[t][1].refs \cap destroyed = {}
  BY GoOnHolds DEF Unlock, At, After
<1>2. mutex' = Nobody /\ UNCHANGED <<gil, callbacks, destroyed>>
  BY DEF Unlock
<1>3. TypeOK'
  BY <1>1, <1>2, HoldingKeepsTypes DEF Inv, LockInv, TypeOK
<1>4. MutexInSection'
  BY <1>2, BindingsAssumption DEF MutexInSection
<1>5. HeldAlive'
  <2>1. callbacks' \cap destroyed = {}
    BY <1>2 DEF Inv, HeldAlive
  <2> QED BY <1>1, <1>2, <2>1, HoldingKeepsAlive DEF Inv, LockInv
<1> QED BY <1>3, <1>4, <1>5 DEF Inv, LockInv

\* A callback begins and ends, and references are dropped, outside.
LEMMA InvokeStep == ASSUME Inv, NEW t \in Threads, Invoke(t) PROVE Inv'
<1> DEFINE f == [stack[t][1] EXCEPT !.at = "callback"]
<1>1. At(t, "fire") /\ Becomes(t, f) /\ gil' = t /\ UNCHANGED <<mutex, callbacks, destroyed>>
  BY DEF Invoke
<1>2. stack[t][1] \in Frame /\ 1 \in 1 .. Len(stack[t]) /\ Busy(t)
  BY <1>1, TopIsFrame DEF Inv, LockInv, At
<1>3. f \in Frame /\ f.refs = stack[t][1].refs
  BY <1>2 DEF Frame, Places
<1>4. f.refs \cap destroyed = {}
  BY <1>2, <1>3 DEF Inv, HeldAlive
<1> HIDE DEF f
<1>5. Holding(t, f.refs)
  BY <1>1, <1>2, <1>3, BecomesHolds DEF Inv, LockInv
<1>6. mutex # t
  BY <1>1, OutsideSection DEF At, Inv, LockInv
<1> QED BY <1>1, <1>4, <1>5, <1>6, StepOutside

LEMMA CallbackEndStep ==
  ASSUME Inv, NEW t \in Threads, CallbackReturns(t) \/ CallbackRaises(t)
  PROVE  Inv'
<1>1. /\ At(t, "callback") /\ UNCHANGED <<mutex, callbacks, destroyed>>
      /\ gil' \in Threads \cup {Nobody}
  BY DEF CallbackReturns, CallbackRaises, InCallback, GilAfter
<1>2. stack[t][1] \in Frame /\ 1 \in 1 .. Len(stack[t]) /\ Busy(t)
  BY <1>1, TopIsFrame DEF Inv, LockInv, At
<1>3. PICK f \in Frame : Becomes(t, f) /\ f.refs = stack[t][1].refs
  <2>1. ASSUME NEW c,
               Becomes(t, [stack[t][1] EXCEPT !.at = "fire", !.todo = @ \ {c}])
        PROVE  \E f \in Frame : Becomes(t, f) /\ f.refs = stack[t][1].refs
    <3> DEFINE f == [stack[t][1] EXCEPT !.at = "fire", !.todo = @ \ {c}]
    <3>1. f \in Frame /\ f.refs = stack[t][1].refs
      BY <1>2 DEF Frame, Places
    <3>2. Becomes(t, f)
      BY <2>1
    <3> HIDE DEF f
    <3> QED BY <3>1, <3>2
  <2>2. CASE Becomes(t, [stack[t][1] EXCEPT !.at = After["fire"], !.todo = {}, !.more = 0])
    <3> DEFINE f == [stack[t][1] EXCEPT !.at = "drop", !.todo = {}, !.more = 0]
    <3>1. f \in Frame /\ f.refs = stack[t][1].refs
      BY <1>2 DEF Frame, Places
    <3>2. After["fire"] = "drop"
      BY DEF After
    <3>3. Becomes(t, f)
      BY <2>2, <3>2
    <3> HIDE DEF f
    <3> QED BY <3>1, <3>3
  <2> QED BY <2>1, <2>2 DEF CallbackReturns, CallbackRaises
<1>4. f.refs \cap destroyed = {}
  BY <1>2, <1>3 DEF Inv, HeldAlive
<1>5. Holding(t, f.refs)
  BY <1>2, <1>3, BecomesHolds DEF Inv, LockInv
<1>6. mutex # t
  BY <1>1, OutsideSection DEF At, Inv, LockInv
<1> QED BY <1>1, <1>4, <1>5, <1>6, StepOutside

LEMMA AgainHolds ==
  ASSUME Inv, NEW t \in Threads, Busy(t), stack[t][1].more # 0, Again(t)
  PROVE  \E f \in Frame :
           /\ Becomes(t, f) /\ f.call = stack[t][1].call /\ f.at = "lock"
           /\ f.refs = stack[t][1].refs /\ f.todo = stack[t][1].todo
<1> DEFINE f == [stack[t][1] EXCEPT !.at = "lock", !.more = @ - 1]
<1>1. stack[t][1] \in Frame
  BY TopIsFrame DEF Inv, LockInv
<1>2. stack[t][1].more - 1 \in Nat
  <2>1. stack[t][1].more \in Nat
    BY <1>1 DEF Frame
  <2> QED BY <2>1
<1>3. /\ f \in Frame /\ f.call = stack[t][1].call /\ f.at = "lock"
      /\ f.refs = stack[t][1].refs /\ f.todo = stack[t][1].todo
  BY <1>1, <1>2 DEF Frame, Places
<1>4. Becomes(t, f)
  BY DEF Again
<1> HIDE DEF f
<1> QED BY <1>3, <1>4

LEMMA GoOnStep ==
  ASSUME Inv, NEW t \in Threads, AllFired(t) \/ AllDropped(t)
  PROVE  Inv'
<1>1. /\ At(t, "fire") \/ At(t, "drop")
      /\ GoOn(t) \/ (stack[t][1].more # 0 /\ Again(t))
      /\ UNCHANGED <<mutex, gil, callbacks, destroyed>>
  BY DEF AllFired, AllDropped
<1>2. Busy(t) /\ stack[t][1].at \in DOMAIN After
  BY <1>1 DEF At, After
<1>3. Holding(t, stack[t][1].refs) /\ stack[t][1].refs \cap destroyed = {}
  <2>1. CASE GoOn(t)
    BY <1>2, <2>1, GoOnHolds
  <2>2. CASE stack[t][1].more # 0 /\ Again(t)
    <3>1. PICK f \in Frame : Becomes(t, f) /\ f.refs = stack[t][1].refs
      BY <1>2, <2>2, AgainHolds
    <3>2. Holding(t, f.refs)
      BY <1>2, <3>1, BecomesHolds DEF Inv, LockInv
    <3>3. stack[t][1].refs \cap destroyed = {}
      BY <1>2, TopIsFrame DEF Inv, LockInv, HeldAlive
    <3> QED BY <3>1, <3>2, <3>3
  <2> QED BY <1>1, <2>1, <2>2
<1>4. mutex # t
  BY <1>1, OutsideSection DEF At, Inv, LockInv
<1>5. gil' \in Threads \cup {Nobody}
  BY <1>1 DEF Inv, LockInv, TypeOK
<1> QED BY <1>1, <1>3, <1>4, <1>5, StepOutside

LEMMA ReturnStep == ASSUME Inv, NEW t \in Threads, Return(t) PROVE Inv'
<1>1. /\ At(t, "return") /\ UNCHANGED <<mutex, callbacks, destroyed>>
      /\ stack' = [stack EXCEPT ![t] = Tail(@)]
  BY DEF Return
<1>2. gil' \in Threads \cup {Nobody}
  BY DEF Return, Inv, LockInv, TypeOK
<1>3. stack[t] \in Seq(Frame) /\ stack[t] # <<>>
  BY <1>1 DEF At, Busy, Inv, LockInv, TypeOK
<1>4. stack'[t] = Tail(stack[t]) /\ stack' = [stack EXCEPT ![t] = stack'[t]]
  BY <1>1 DEF Inv, LockInv, TypeOK
<1>5. /\ Tail(stack[t]) \in Seq(Frame)
      /\ \A i \in 1 .. Len(Tail(stack[t])) :
           i + 1 \in 1 .. Len(stack[t]) /\ Tail(stack[t])[i] = stack[t][i + 1]
  BY <1>3
<1>6. Holding(t, {})
  BY <1>4, <1>5 DEF Holding
<1>7. mutex # t
  BY <1>1, OutsideSection DEF At, Inv, LockInv
<1> QED BY <1>1, <1>2, <1>6, <1>7, StepOutside

LEMMA SwitchStep ==
  ASSUME Inv, NEW t \in Threads, GiveUp(t) \/ TakeBack(t)
  PROVE  Inv'
<1>1. UNCHANGED <<mutex, callbacks, destroyed, stack>> /\ gil' \in {t, Nobody}
  BY DEF GiveUp, TakeBack, Switch
<1> QED BY <1>1 DEF Inv, LockInv, TypeOK, MutexInSection, At, Busy, HeldAlive

\* The last reference: nobody else has one, so what is destroyed is not held.
LEMMA DropStep == ASSUME Inv, NEW t \in Threads, Drop(t) PROVE Inv'
<1> DEFINE f(c) == [stack[t][1] EXCEPT !.refs = @ \ {c}]
<1>1. At(t, "drop") /\ UNCHANGED <<mutex, gil, callbacks>>
  BY DEF Drop
<1>2. PICK c \in stack[t][1].refs :
        /\ Becomes(t, f(c))
        /\ \/ ~HeldElsewhere(c, t) /\ destroyed' = destroyed \cup {c}
           \/ destroyed' = destroyed
  BY DEF Drop, IsLast
<1>3. /\ stack[t][1] \in Frame /\ 1 \in 1 .. Len(stack[t]) /\ Busy(t)
      /\ stack[t][1].refs \subseteq Callbacks
  BY <1>1, TopIsFrame DEF Inv, LockInv, At
<1>4. f(c) \in Frame /\ f(c).refs = stack[t][1].refs \ {c}
  BY <1>3 DEF Frame
<1>5. f(c).refs \cap destroyed = {}
  BY <1>3, <1>4 DEF Inv, HeldAlive
<1> HIDE DEF f
<1>6. /\ Holding(t, f(c).refs) /\ stack'[t][1] = f(c) /\ Len(stack'[t]) = Len(stack[t])
      /\ \A i \in 1 .. Len(stack[t]) : i # 1 => stack'[t][i] = stack[t][i]
  BY <1>2, <1>3, <1>4, BecomesHolds DEF Inv, LockInv
<1>7. TypeOK'
  BY <1>1, <1>2, <1>3, <1>6, HoldingKeepsTypes DEF Inv, LockInv, TypeOK
<1>8. MutexInSection'
  <2>1. mutex # t
    BY <1>1, OutsideSection DEF At, Inv, LockInv
  <2> QED BY <1>1, <1>6, <2>1, HoldingKeepsTypes, MutexKept DEF Inv, LockInv
<1>9. HeldAlive'
  <2>1. CASE destroyed' = destroyed
    <3>1. callbacks' \cap destroyed = {}
      BY <1>1 DEF Inv, HeldAlive
    <3> QED BY <1>5, <1>6, <2>1, <3>1, HoldingKeepsAlive DEF Inv, LockInv
  <2>2. CASE ~HeldElsewhere(c, t) /\ destroyed' = destroyed \cup {c}
    <3>1. callbacks' \cap destroyed' = {}
      BY <1>1, <2>2 DEF Inv, HeldAlive, HeldElsewhere
    <3>2. ASSUME NEW u \in Threads, NEW i \in 1 .. Len(stack'[u])
          PROVE  stack'[u][i].refs \cap destroyed' = {}
      <4>1. CASE <<u, i>> = <<t, 1>>
        BY <1>4, <1>5, <1>6, <2>2, <4>1
      <4>2. CASE <<u, i>> # <<t, 1>>
        <5>1. i \in 1 .. Len(stack[u]) /\ stack'[u][i] = stack[u][i]
          BY <1>6, <3>2, <4>2, HoldingKeepsTypes DEF Inv, LockInv
        <5>2. c \notin stack[u][i].refs
          BY <2>2, <4>2, <5>1 DEF HeldElsewhere
        <5>3. stack[u][i].refs \cap destroyed = {}
          BY <5>1 DEF Inv, HeldAlive
        <5> QED BY <2>2, <5>1, <5>2, <5>3
      <4> QED BY <4>1, <4>2
    <3> QED BY <3>1, <3>2 DEF HeldAlive
  <2> QED BY <1>2, <2>1, <2>2
<1> QED BY <1>7, <1>8, <1>9 DEF Inv, LockInv

-----------------------------------------------------------------------------
(***************************************************************************)
(* A receive thread has the GIL in callbacks only.                         *)
(***************************************************************************)
GilInv == NestedInCallback /\ GilInCallback

\* A step of thread t leaves the others as they were.
LEMMA GilOfOne ==
  ASSUME TypeOK, GilInv, NEW t \in Threads,
         \A u \in Threads : u # t => stack'[u] = stack[u],
         gil' \in {gil, t, Nobody},
         \A i \in 1 .. Len(stack'[t]) : i # 1 => stack'[t][i].at = "callback",
         t \in ReceiveThreads =>
           IF Busy(t)'
           THEN /\ stack'[t][Len(stack'[t])].call = "on_message"
                /\ gil' = t => stack'[t][Len(stack'[t])].at = "callback"
           ELSE gil' # t
  PROVE  GilInv'
<1>1. NestedInCallback'
  BY DEF GilInv, NestedInCallback
<1>2. ASSUME NEW u \in ReceiveThreads
      PROVE  /\ gil' = u => Busy(u)'
             /\ Busy(u)' => /\ stack'[u][Len(stack'[u])].call = "on_message"
                            /\ gil' = u => stack'[u][Len(stack'[u])].at = "callback"
  <2>1. CASE u = t
    BY <2>1
  <2>2. CASE u # t
    <3>1. u \in Threads /\ (gil' = u => gil = u)
      BY <2>2, BindingsAssumption DEF Threads
    <3> QED BY <2>2, <3>1 DEF GilInv, GilInCallback, Busy
  <2> QED BY <2>1, <2>2
<1> QED BY <1>1, <1>2 DEF GilInv, GilInCallback

\* The innermost call goes on; the GIL stays, or a callback begins or ends.
LEMMA GilWhenTopChanges ==
  ASSUME TypeOK, GilInv, NEW t \in Threads, Busy(t), NEW f \in Frame, Becomes(t, f),
         f.call = stack[t][1].call, gil' \in {gil, t, Nobody},
         f.call = "on_message" /\ f.at # "callback" =>
           gil' = Nobody \/ Len(stack[t]) # 1 \/ (gil' = gil /\ stack[t][1].at # "callback")
  PROVE  GilInv'
<1> DEFINE n == Len(stack[t])
<1>1. /\ n \in Nat \ {0} /\ stack'[t] # <<>> /\ stack'[t][1] = f /\ Len(stack'[t]) = n
      /\ \A i \in 1 .. n : i # 1 => stack'[t][i] = stack[t][i]
      /\ \A u \in Threads : u # t => stack'[u] = stack[u]
  <2>1. n \in Nat \ {0}
    BY DEF TypeOK, Busy
  <2> QED BY <2>1, BecomesHolds, HoldingKeepsTypes
<1>2. \A i \in 1 .. n : i # 1 => stack'[t][i].at = "callback"
  BY <1>1 DEF GilInv, NestedInCallback
<1>3. ASSUME t \in ReceiveThreads
      PROVE  /\ stack'[t][n].call = "on_message"
             /\ gil' = t => stack'[t][n].at = "callback"
  <2>1. stack[t][n].call = "on_message" /\ (gil = t => stack[t][n].at = "callback")
    BY <1>3 DEF GilInv, GilInCallback
  <2>2. CASE n = 1
    BY <1>1, <2>1, <2>2, BindingsAssumption
  <2>3. CASE n # 1
    <3>1. n \in 1 .. n
      BY <1>1
    <3> QED BY <1>1, <1>2, <2>1, <2>3, <3>1
  <2> QED BY <2>2, <2>3
<1> QED BY <1>1, <1>2, <1>3, GilOfOne DEF Busy

LEMMA GilWhenGoingOn ==
  ASSUME Inv, GilInv, NEW t \in Threads, Busy(t), gil' = gil,
         stack[t][1].at \in DOMAIN After, GoOn(t)
  PROVE  GilInv'
<1> DEFINE f == [stack[t][1] EXCEPT !.at = After[@]]
<1>1. stack[t][1] \in Frame
  BY TopIsFrame DEF Inv, LockInv
<1>2. f \in Frame /\ f.call = stack[t][1].call /\ stack[t][1].at # "callback"
  BY <1>1 DEF Frame, Places, After
<1>3. Becomes(t, f)
  BY DEF GoOn
<1> HIDE DEF f
<1> QED BY <1>2, <1>3, GilWhenTopChanges DEF Inv, LockInv

LEMMA GilStep == ASSUME Inv, GilInv, NEW t \in Threads, Step(t) PROVE GilInv'
<1>0. TypeOK
  BY DEF Inv, LockInv
<1>1. CASE Lock(t) \/ Unlock(t) \/ AllFired(t) \/ AllDropped(t)
  <2>1. /\ GoOn(t) \/ (stack[t][1].more # 0 /\ Again(t))
        /\ gil' = gil /\ Busy(t) /\ stack[t][1].at \in DOMAIN After
    BY <1>1 DEF Lock, Unlock, AllFired, AllDropped, At, After
  <2>2. CASE GoOn(t)
    BY <2>1, <2>2, GilWhenGoingOn
  <2>3. CASE stack[t][1].more # 0 /\ Again(t)
    <3>1. PICK f \in Frame : Becomes(t, f) /\ f.call = stack[t][1].call
      BY <2>1, <2>3, AgainHolds
    <3>2. stack[t][1].at # "callback"
      BY <2>1 DEF After
    <3> QED BY <1>0, <2>1, <3>1, <3>2, GilWhenTopChanges
  <2> QED BY <2>1, <2>2, <2>3
<1>2. CASE Section(t)
  <2>1. At(t, "section") /\ gil' = gil /\ Busy(t)
    BY <1>2 DEF Section, At
  <2>2. stack[t][1] \in Frame /\ 1 \in 1 .. Len(stack[t])
    BY <1>0, <2>1, TopIsFrame
  <2>3. ASSUME NEW refs \in SUBSET Callbacks, NEW todo \in SUBSET Callbacks,
               Taking(t, refs, todo)
        PROVE  GilInv'
    <3> DEFINE f == [stack[t][1] EXCEPT !.at = After[@], !.refs = refs, !.todo = todo]
    <3>1. After["section"] = "unlock" /\ stack[t][1].at = "section"
      BY <2>1 DEF After, At
    <3>2. f = [stack[t][1] EXCEPT !.at = "unlock", !.refs = refs, !.todo = todo]
      BY <3>1
    <3>3. Becomes(t, f)
      BY <2>3 DEF Taking
    <3> HIDE DEF f
    <3>4. f \in Frame /\ f.call = stack[t][1].call
      BY <2>2, <3>2 DEF Frame, Places
    <3>5. stack[t][1].at # "callback"
      BY <2>1 DEF At
    <3> QED BY <1>0, <2>1, <3>3, <3>4, <3>5, GilWhenTopChanges
  <2>4. CASE GoOn(t)
    <3>1. stack[t][1].at \in DOMAIN After
      BY <2>1 DEF At, After
    <3> QED BY <2>1, <2>4, <3>1, GilWhenGoingOn
  <2>5. callbacks \in SUBSET Callbacks /\ callbacks \ Wildcard \in SUBSET Callbacks
        /\ {} \in SUBSET Callbacks
    BY <1>0 DEF TypeOK
  <2>6. CASE \E collected \in {{}, callbacks} : Taking(t, Kept(collected), collected)
    BY <2>3, <2>5, <2>6 DEF Kept
  <2>7. CASE Taking(t, {}, {}) \/ Taking(t, callbacks \ Wildcard, {}) \/ Taking(t, callbacks, {})
    BY <2>3, <2>5, <2>7
  <2> QED BY <1>2, <2>4, <2>6, <2>7 DEF Section
<1>3. CASE Invoke(t)
  <2> DEFINE f == [stack[t][1] EXCEPT !.at = "callback"]
  <2>1. At(t, "fire") /\ Becomes(t, f) /\ gil' = t /\ Busy(t)
    BY <1>3 DEF Invoke, At
  <2>2. stack[t][1] \in Frame
    BY <1>0, <2>1, TopIsFrame
  <2>3. f \in Frame /\ f.call = stack[t][1].call /\ f.at = "callback"
    BY <2>2 DEF Frame, Places
  <2> HIDE DEF f
  <2> QED BY <1>0, <2>1, <2>3, GilWhenTopChanges
<1>4. CASE Drop(t)
  <2> DEFINE f(c) == [stack[t][1] EXCEPT !.refs = @ \ {c}]
  <2>1. At(t, "drop") /\ gil' = gil /\ Busy(t)
    BY <1>4 DEF Drop, At
  <2>2. PICK c : Becomes(t, f(c))
    BY <1>4 DEF Drop
  <2>3. stack[t][1] \in Frame
    BY <1>0, <2>1, TopIsFrame
  <2>4. f(c) \in Frame /\ f(c).call = stack[t][1].call /\ stack[t][1].at # "callback"
    BY <2>1, <2>3 DEF Frame, At
  <2> HIDE DEF f
  <2> QED BY <1>0, <2>1, <2>2, <2>4, GilWhenTopChanges
<1>5. CASE Return(t)
  <2> DEFINE s == stack[t]
             r == Tail(s)
  <2>1. At(t, "return") /\ gil' \in {gil, t} /\ stack' = [stack EXCEPT ![t] = Tail(@)]
        /\ (gil' # gil => FromPython(t))
    BY <1>5 DEF Return
  <2>2. s \in Seq(Frame) /\ s # <<>>
    BY <1>0, <2>1 DEF At, Busy, TypeOK
  <2>3. stack'[t] = r /\ \A u \in Threads : u # t => stack'[u] = stack[u]
    BY <1>0, <2>1 DEF TypeOK
  <2>4. /\ Len(r) = Len(s) - 1 /\ Len(s) \in Nat \ {0} /\ (r = <<>> <=> Len(s) = 1)
        /\ \A i \in 1 .. Len(r) : i + 1 \in 1 .. Len(s) /\ r[i] = s[i + 1]
    <3>1. Tail(s) \in Seq(Frame) /\ Len(Tail(s)) = Len(s) - 1 /\ Len(s) \in Nat \ {0}
      BY <2>2
    <3>2. \A i \in 1 .. Len(Tail(s)) : i + 1 \in 1 .. Len(s) /\ Tail(s)[i] = s[i + 1]
      BY <2>2
    <3>3. Tail(s) = <<>> <=> Len(Tail(s)) = 0
      BY <3>1, EmptySeq
    <3> QED BY <3>1, <3>2, <3>3
  <2>5. \A i \in 1 .. Len(r) : i # 1 => r[i].at = "callback"
    BY <2>4 DEF GilInv, NestedInCallback
  <2>6. ASSUME t \in ReceiveThreads
        PROVE  IF r # <<>>
               THEN r[Len(r)].call = "on_message" /\ (gil' = t => r[Len(r)].at = "callback")
               ELSE gil' # t
    <3>1. s[Len(s)].call = "on_message" /\ (gil = t => s[Len(s)].at = "callback")
      BY <2>1, <2>6 DEF GilInv, GilInCallback, At
    <3>2. CASE Len(s) = 1
      <4>1. gil # t
        BY <2>1, <3>1, <3>2 DEF At
      <4>2. ~FromPython(t)
        BY <2>6, <3>2, BindingsAssumption DEF FromPython
      <4> QED BY <2>1, <2>4, <3>2, <4>1, <4>2
    <3>3. CASE Len(s) # 1
      <4>1. Len(r) \in 1 .. Len(r) /\ r[Len(r)] = s[Len(s)] /\ Len(s) \in 1 .. Len(s)
        BY <2>4, <3>3
      <4>2. s[Len(s)].at = "callback"
        BY <3>3, <4>1 DEF GilInv, NestedInCallback
      <4> QED BY <2>4, <3>1, <3>3, <4>1, <4>2
    <3> QED BY <3>2, <3>3
  <2> HIDE DEF r
  <2>7. gil' \in {gil, t, Nobody}
    BY <2>1
  <2> QED BY <1>0, <2>3, <2>5, <2>6, <2>7, GilOfOne DEF Busy
<1> QED BY <1>1, <1>2, <1>3, <1>4, <1>5 DEF Step

LEMMA GilCallStep ==
  ASSUME Inv, GilInv, NEW t \in Threads,
         Receive(t) \/ \E call \in PythonCalls : CallFromPython(t, call)
  PROVE  GilInv'
<1>0. TypeOK /\ stack[t] \in Seq(Frame)
  BY DEF Inv, LockInv, TypeOK
<1>1. PICK call \in Calls, refs \in SUBSET Callbacks : Push(t, call, refs)
  <2>1. CASE Receive(t)
    BY <2>1 DEF Receive, Calls
  <2>2. ASSUME NEW call \in PythonCalls, CallFromPython(t, call)
        PROVE  \E c \in Calls, refs \in SUBSET Callbacks : Push(t, c, refs)
    <3>1. call \in Calls /\ {} \in SUBSET Callbacks
      BY BindingsAssumption
    <3>2. Push(t, call, {}) \/ \E c \in Callbacks : Push(t, call, {c})
      BY <2>2 DEF CallFromPython
    <3> QED BY <3>1, <3>2
  <2> QED BY <2>1, <2>2
<1>7. PICK more \in More(call) :
        stack' = [stack EXCEPT ![t] =
          <<[call |-> call, at |-> "lock", refs |-> refs, todo |-> {}, more |-> more]>> \o @]
  BY <1>1 DEF Push
<1> DEFINE f == [call |-> call, at |-> "lock", refs |-> refs, todo |-> {}, more |-> more]
           s == stack[t]
           r == <<f>> \o s
<1>2. f \in Frame /\ f.call = call /\ f.at = "lock"
  <2>1. more \in Nat
    BY <1>7, BindingsAssumption DEF More
  <2> QED BY <2>1 DEF Frame, Places
<1>3. stack'[t] = r /\ \A u \in Threads : u # t => stack'[u] = stack[u]
  BY <1>0, <1>7 DEF TypeOK
<1> HIDE DEF f
<1>4. /\ r # <<>> /\ Len(r) = Len(s) + 1 /\ r[1] = f /\ Len(s) \in Nat
      /\ \A i \in 1 .. Len(r) : i # 1 => i - 1 \in 1 .. Len(s) /\ r[i] = s[i - 1]
  BY <1>0, <1>2, PushTop
<1>5. CASE Receive(t)
  <2>1. s = <<>> /\ gil' = gil /\ gil # t /\ call = "on_message" /\ t \in ReceiveThreads
    <3>1. stack[t] = <<>> /\ gil' = gil /\ t \in ReceiveThreads /\ Push(t, "on_message", {})
      BY <1>5 DEF Receive, Busy
    <3>2. stack'[t][1].call = "on_message"
      <4>0. PICK n \in More("on_message") :
              stack' = [stack EXCEPT ![t] =
                <<[call |-> "on_message", at |-> "lock", refs |-> {}, todo |-> {},
                   more |-> n]>> \o @]
        BY <3>1 DEF Push
      <4> DEFINE g == [call |-> "on_message", at |-> "lock", refs |-> {}, todo |-> {}, more |-> n]
      <4>1. g \in Frame /\ g.call = "on_message"
        <5>1. n \in Nat
          BY <4>0, BindingsAssumption DEF More
        <5> QED BY <5>1 DEF Frame, Calls, Places
      <4>2. stack'[t] = <<g>> \o stack[t]
        BY <1>0, <4>0 DEF TypeOK
      <4> HIDE DEF g
      <4> QED BY <1>0, <4>1, <4>2, PushTop
    <3>3. gil # t
      BY <3>1 DEF GilInv, GilInCallback, Busy
    <3> QED BY <1>2, <1>3, <1>4, <3>1, <3>2, <3>3
  <2>2. Len(s) = 0 /\ Len(r) = 1
    BY <1>4, <2>1
  <2> HIDE DEF r, s
  <2> QED BY <1>0, <1>2, <1>3, <1>4, <2>1, <2>2, GilOfOne DEF Busy
<1>6. CASE \E c \in PythonCalls : CallFromPython(t, c)
  <2>1. InPython(t) /\ gil = t /\ gil' \in {t, Nobody}
    BY <1>6 DEF CallFromPython
  <2>2. Busy(t) => s[1].at = "callback" /\ Len(s) # 0
    BY <1>0, <2>1 DEF InPython, InCallback, At, Busy
  <2>3. ASSUME NEW i \in 1 .. Len(r), i # 1
        PROVE  r[i].at = "callback"
    <3>1. i - 1 \in 1 .. Len(s) /\ r[i] = s[i - 1]
      BY <1>4, <2>3
    <3>2. Busy(t)
      BY <3>1 DEF Busy
    <3>3. s[i - 1].at = "callback"
      BY <2>2, <3>1, <3>2 DEF GilInv, NestedInCallback
    <3> QED BY <3>1, <3>3
  <2>4. ASSUME t \in ReceiveThreads
        PROVE  r[Len(r)].call = "on_message" /\ r[Len(r)].at = "callback"
    <3>1. Busy(t) /\ s[Len(s)].call = "on_message" /\ s[Len(s)].at = "callback"
      BY <2>1, <2>4 DEF GilInv, GilInCallback
    <3>2. Len(r) \in 1 .. Len(r) /\ Len(r) # 1 /\ Len(r) - 1 = Len(s)
      BY <1>4, <2>2, <3>1
    <3>3. r[Len(r)] = s[Len(s)]
      BY <1>4, <3>2
    <3> QED BY <3>1, <3>3
  <2> HIDE DEF r, s
  <2> QED BY <1>0, <1>3, <1>4, <2>1, <2>3, <2>4, GilOfOne DEF Busy
<1> QED BY <1>5, <1>6

LEMMA GilCallbackStep ==
  ASSUME Inv, GilInv, NEW t \in Threads,
         CallbackReturns(t) \/ CallbackRaises(t) \/ GiveUp(t) \/ TakeBack(t)
  PROVE  GilInv'
<1>0. TypeOK
  BY DEF Inv, LockInv
<1>1. CASE CallbackReturns(t) \/ CallbackRaises(t)
  <2>1. At(t, "callback") /\ gil' = GilAfter(t) /\ Busy(t)
    BY <1>1 DEF CallbackReturns, CallbackRaises, InCallback, At
  <2>2. stack[t][1] \in Frame
    BY <1>0, <2>1, TopIsFrame
  <2>3. PICK f \in Frame : Becomes(t, f) /\ f.call = stack[t][1].call
    <3>1. ASSUME NEW c, Becomes(t, [stack[t][1] EXCEPT !.at = "fire", !.todo = @ \ {c}])
          PROVE  \E f \in Frame : Becomes(t, f) /\ f.call = stack[t][1].call
      <4> DEFINE f == [stack[t][1] EXCEPT !.at = "fire", !.todo = @ \ {c}]
      <4>1. f \in Frame /\ f.call = stack[t][1].call
        BY <2>2 DEF Frame, Places
      <4>2. Becomes(t, f)
        BY <3>1
      <4> HIDE DEF f
      <4> QED BY <4>1, <4>2
    <3>2. CASE Becomes(t, [stack[t][1] EXCEPT !.at = After["fire"], !.todo = {}, !.more = 0])
      <4> DEFINE f == [stack[t][1] EXCEPT !.at = "drop", !.todo = {}, !.more = 0]
      <4>1. f \in Frame /\ f.call = stack[t][1].call
        BY <2>2 DEF Frame, Places
      <4>2. After["fire"] = "drop"
        BY DEF After
      <4>3. Becomes(t, f)
        BY <3>2, <4>2
      <4> HIDE DEF f
      <4> QED BY <4>1, <4>3
    <3> QED BY <1>1, <3>1, <3>2 DEF CallbackReturns, CallbackRaises
  <2>4. f.call = "on_message" => gil' = Nobody
    BY <2>1, <2>3 DEF GilAfter, KeepsGil
  <2>5. gil' \in {gil, t, Nobody}
    BY <2>1 DEF GilAfter
  <2> QED BY <1>0, <2>1, <2>3, <2>4, <2>5, GilWhenTopChanges
<1>2. CASE GiveUp(t) \/ TakeBack(t)
  <2>1. InPython(t) /\ stack' = stack /\ gil' \in {t, Nobody}
    BY <1>2 DEF GiveUp, TakeBack, Switch
  <2>2. \A i \in 1 .. Len(stack[t]) : i # 1 => stack[t][i].at = "callback"
    BY DEF GilInv, NestedInCallback
  <2>3. ASSUME t \in ReceiveThreads
        PROVE  /\ Busy(t) /\ stack[t][Len(stack[t])].call = "on_message"
               /\ stack[t][Len(stack[t])].at = "callback"
    <3>1. Busy(t) /\ stack[t][1].at = "callback"
      BY <2>1, <2>3, BindingsAssumption DEF InPython, InCallback, At
    <3>2. stack[t][Len(stack[t])].call = "on_message"
      BY <2>3, <3>1 DEF GilInv, GilInCallback
    <3>3. Len(stack[t]) \in 1 .. Len(stack[t])
      BY <1>0, <3>1 DEF TypeOK, Busy
    <3> QED BY <2>2, <3>1, <3>2, <3>3
  <2> QED BY <1>0, <2>1, <2>2, <2>3, GilOfOne DEF Busy
<1> QED BY <1>1, <1>2
-----------------------------------------------------------------------------
(***************************************************************************)
(* What a call has still to call, it holds; it lets go when it has called  *)
(* them all.                                                               *)
(***************************************************************************)
HoldsTodo(f) ==
  /\ f.todo \subseteq f.refs
  /\ f.at = "drop" => f.todo = {}

TodoHeld == \A t \in Threads : \A i \in 1 .. Len(stack[t]) : HoldsTodo(stack[t][i])

\* A step of one thread whose calls were there before, or hold what they are to
\* call.
LEMMA TodoOfOne ==
  ASSUME TypeOK, TodoHeld, NEW t \in Threads,
         \A u \in Threads : u # t => stack'[u] = stack[u],
         \A i \in 1 .. Len(stack'[t]) :
           \/ HoldsTodo(stack'[t][i])
           \/ \E j \in 1 .. Len(stack[t]) : stack'[t][i] = stack[t][j]
  PROVE  TodoHeld'
<1> SUFFICES ASSUME NEW u \in Threads, NEW i \in 1 .. Len(stack'[u])
             PROVE  HoldsTodo(stack'[u][i])
  BY DEF TodoHeld, HoldsTodo
<1>1. CASE u = t
  BY <1>1 DEF TodoHeld
<1>2. CASE u # t
  BY <1>2 DEF TodoHeld
<1> QED BY <1>1, <1>2

LEMMA TodoWhenTopChanges ==
  ASSUME TypeOK, TodoHeld, NEW t \in Threads, Busy(t), NEW f \in Frame, Becomes(t, f),
         HoldsTodo(f)
  PROVE  TodoHeld'
<1>1. /\ stack'[t][1] = f /\ Len(stack'[t]) = Len(stack[t])
      /\ \A i \in 1 .. Len(stack[t]) : i # 1 => stack'[t][i] = stack[t][i]
      /\ \A u \in Threads : u # t => stack'[u] = stack[u]
  BY BecomesHolds, HoldingKeepsTypes
<1>2. ASSUME NEW i \in 1 .. Len(stack'[t])
      PROVE  HoldsTodo(stack'[t][i]) \/ \E j \in 1 .. Len(stack[t]) : stack'[t][i] = stack[t][j]
  BY <1>1
<1> QED BY <1>1, <1>2, TodoOfOne

LEMMA TodoStep ==
  Inv /\ TodoHeld /\ [Next]_vars => TodoHeld'
<1> SUFFICES ASSUME Inv, TodoHeld, [Next]_vars PROVE TodoHeld'
  OBVIOUS
<1>0. TypeOK
  BY DEF Inv, LockInv
<1>1. CASE UNCHANGED vars
  BY <1>1 DEF vars, TodoHeld, HoldsTodo
<1> SUFFICES ASSUME NEW t \in Threads,
                    \/ Receive(t) \/ (\E call \in PythonCalls : CallFromPython(t, call))
                    \/ Step(t) \/ CallbackReturns(t) \/ CallbackRaises(t)
                    \/ GiveUp(t) \/ TakeBack(t)
             PROVE  TodoHeld'
  BY <1>1 DEF Next
<1> DEFINE top == stack[t][1]
<1>2. Busy(t) => top \in Frame /\ HoldsTodo(top)
  BY <1>0, TopIsFrame DEF TodoHeld
<1>3. ASSUME Receive(t) \/ \E call \in PythonCalls : CallFromPython(t, call)
      PROVE  TodoHeld'
  <2>1. PICK call \in Calls, refs \in SUBSET Callbacks : Push(t, call, refs)
    <3>1. CASE Receive(t)
      BY <3>1 DEF Receive, Calls
    <3>2. ASSUME NEW call \in PythonCalls, CallFromPython(t, call)
          PROVE  \E c \in Calls, refs \in SUBSET Callbacks : Push(t, c, refs)
      <4>1. call \in Calls /\ {} \in SUBSET Callbacks
        BY BindingsAssumption
      <4>2. Push(t, call, {}) \/ \E c \in Callbacks : Push(t, call, {c})
        BY <3>2 DEF CallFromPython
      <4> QED BY <4>1, <4>2
    <3> QED BY <1>3, <3>1, <3>2
  <2>2. PICK more \in More(call) :
          stack' = [stack EXCEPT ![t] =
            <<[call |-> call, at |-> "lock", refs |-> refs, todo |-> {}, more |-> more]>> \o @]
    BY <2>1 DEF Push
  <2> DEFINE f == [call |-> call, at |-> "lock", refs |-> refs, todo |-> {}, more |-> more]
             r == <<f>> \o stack[t]
  <2>3. f \in Frame /\ HoldsTodo(f)
    <3>1. more \in Nat
      BY <2>2, BindingsAssumption DEF More
    <3> QED BY <3>1 DEF Frame, Places, HoldsTodo
  <2>4. stack'[t] = r /\ \A u \in Threads : u # t => stack'[u] = stack[u]
    BY <1>0, <2>2 DEF TypeOK
  <2> HIDE DEF f
  <2>5. /\ r[1] = f
        /\ \A i \in 1 .. Len(r) : i # 1 => i - 1 \in 1 .. Len(stack[t]) /\ r[i] = stack[t][i - 1]
    <3>1. stack[t] \in Seq(Frame)
      BY <1>0 DEF TypeOK
    <3> QED BY <2>3, <3>1, PushTop
  <2>6. ASSUME NEW i \in 1 .. Len(r)
        PROVE  HoldsTodo(r[i]) \/ \E j \in 1 .. Len(stack[t]) : r[i] = stack[t][j]
    BY <2>3, <2>5
  <2> HIDE DEF r
  <2> QED BY <1>0, <2>4, <2>6, TodoOfOne
<1>4. ASSUME Busy(t), GoOn(t), top.at \in DOMAIN After, top.at = "fire" => top.todo = {}
      PROVE  TodoHeld'
  <2> DEFINE f == [stack[t][1] EXCEPT !.at = After[@]]
  <2>1. /\ f \in Frame /\ f.at = After[top.at] /\ f.refs = top.refs /\ f.todo = top.todo
    BY <1>2, <1>4 DEF Frame, Places, After
  <2>2. f.at = "drop" => top.at = "fire"
    BY <1>4, <2>1 DEF After
  <2>3. HoldsTodo(f)
    BY <1>2, <1>4, <2>1, <2>2 DEF HoldsTodo
  <2>4. Becomes(t, f)
    BY <1>4 DEF GoOn
  <2> HIDE DEF f
  <2> QED BY <1>0, <1>4, <2>1, <2>3, <2>4, TodoWhenTopChanges
<1>5. CASE Lock(t) \/ Unlock(t) \/ AllFired(t) \/ AllDropped(t)
  <2>1. /\ GoOn(t) \/ (top.more # 0 /\ Again(t))
        /\ Busy(t) /\ top.at \in DOMAIN After /\ (top.at = "fire" => top.todo = {})
    BY <1>5 DEF Lock, Unlock, AllFired, AllDropped, At, After
  <2>2. CASE GoOn(t)
    BY <1>4, <2>1, <2>2
  <2>3. CASE top.more # 0 /\ Again(t)
    <3>1. PICK f \in Frame : /\ Becomes(t, f) /\ f.at = "lock"
                             /\ f.refs = top.refs /\ f.todo = top.todo
      BY <2>1, <2>3, AgainHolds
    <3>2. HoldsTodo(f)
      BY <1>2, <2>1, <3>1 DEF HoldsTodo
    <3> QED BY <1>0, <2>1, <3>1, <3>2, TodoWhenTopChanges
  <2> QED BY <2>1, <2>2, <2>3
<1>6. CASE Section(t)
  <2>1. At(t, "section") /\ Busy(t)
    BY <1>6 DEF Section, At
  <2>2. ASSUME NEW refs \in SUBSET Callbacks, NEW todo \in SUBSET refs, Taking(t, refs, todo)
        PROVE  TodoHeld'
    <3> DEFINE f == [stack[t][1] EXCEPT !.at = After[@], !.refs = refs, !.todo = todo]
    <3>1. After["section"] = "unlock" /\ top.at = "section"
      BY <2>1 DEF After, At
    <3>2. f = [stack[t][1] EXCEPT !.at = "unlock", !.refs = refs, !.todo = todo]
      BY <3>1
    <3>3. Becomes(t, f)
      BY <2>2 DEF Taking
    <3> HIDE DEF f
    <3>4. f \in Frame /\ HoldsTodo(f)
      BY <1>2, <2>1, <3>2 DEF Frame, Places, HoldsTodo
    <3> QED BY <1>0, <2>1, <3>3, <3>4, TodoWhenTopChanges
  <2>3. CASE GoOn(t)
    <3>1. top.at \in DOMAIN After /\ top.at # "fire"
      BY <2>1 DEF At, After
    <3> QED BY <1>4, <2>1, <2>3, <3>1
  <2>4. callbacks \in SUBSET Callbacks /\ callbacks \ Wildcard \in SUBSET Callbacks
        /\ {} \in SUBSET Callbacks
    BY <1>0 DEF TypeOK
  <2>5. CASE \E collected \in {{}, callbacks} : Taking(t, Kept(collected), collected)
    <3>1. PICK collected \in {{}, callbacks} : Taking(t, collected, collected)
      BY <2>5 DEF Kept
    <3> QED BY <2>2, <2>4, <3>1
  <2>6. CASE Taking(t, {}, {}) \/ Taking(t, callbacks \ Wildcard, {}) \/ Taking(t, callbacks, {})
    BY <2>2, <2>4, <2>6
  <2> QED BY <1>6, <2>3, <2>5, <2>6 DEF Section
<1>7. CASE Invoke(t)
  <2> DEFINE f == [stack[t][1] EXCEPT !.at = "callback"]
  <2>1. Becomes(t, f) /\ Busy(t)
    BY <1>7 DEF Invoke, At
  <2>2. f \in Frame /\ HoldsTodo(f)
    BY <1>2, <2>1 DEF Frame, Places, HoldsTodo
  <2> HIDE DEF f
  <2> QED BY <1>0, <2>1, <2>2, TodoWhenTopChanges
<1>8. CASE Drop(t)
  <2> DEFINE f(c) == [stack[t][1] EXCEPT !.refs = @ \ {c}]
  <2>1. At(t, "drop") /\ Busy(t)
    BY <1>8 DEF Drop, At
  <2>2. PICK c : Becomes(t, f(c))
    BY <1>8 DEF Drop
  <2>3. f(c) \in Frame /\ HoldsTodo(f(c))
    BY <1>2, <2>1 DEF Frame, HoldsTodo, At
  <2> HIDE DEF f
  <2> QED BY <1>0, <2>1, <2>2, <2>3, TodoWhenTopChanges
<1>9. CASE CallbackReturns(t) \/ CallbackRaises(t)
  <2>1. Busy(t)
    BY <1>9 DEF CallbackReturns, CallbackRaises, InCallback, At
  <2>2. PICK f \in Frame : Becomes(t, f) /\ HoldsTodo(f)
    <3>1. ASSUME NEW c, Becomes(t, [stack[t][1] EXCEPT !.at = "fire", !.todo = @ \ {c}])
          PROVE  \E f \in Frame : Becomes(t, f) /\ HoldsTodo(f)
      <4> DEFINE f == [stack[t][1] EXCEPT !.at = "fire", !.todo = @ \ {c}]
      <4>1. f \in Frame /\ HoldsTodo(f)
        BY <1>2, <2>1 DEF Frame, Places, HoldsTodo
      <4>2. Becomes(t, f)
        BY <3>1
      <4> HIDE DEF f
      <4> QED BY <4>1, <4>2
    <3>2. CASE Becomes(t, [stack[t][1] EXCEPT !.at = After["fire"], !.todo = {}, !.more = 0])
      <4> DEFINE f == [stack[t][1] EXCEPT !.at = "drop", !.todo = {}, !.more = 0]
      <4>1. f \in Frame /\ HoldsTodo(f)
        BY <1>2, <2>1 DEF Frame, Places, HoldsTodo
      <4>2. After["fire"] = "drop"
        BY DEF After
      <4>3. Becomes(t, f)
        BY <3>2, <4>2
      <4> HIDE DEF f
      <4> QED BY <4>1, <4>3
    <3> QED BY <1>9, <3>1, <3>2 DEF CallbackReturns, CallbackRaises
  <2> QED BY <1>0, <2>1, <2>2, TodoWhenTopChanges
<1>10. CASE Return(t)
  <2>1. stack'[t] = Tail(stack[t]) /\ \A u \in Threads : u # t => stack'[u] = stack[u]
    BY <1>0, <1>10 DEF Return, TypeOK
  <2>2. \A i \in 1 .. Len(Tail(stack[t])) :
          i + 1 \in 1 .. Len(stack[t]) /\ Tail(stack[t])[i] = stack[t][i + 1]
    <3>1. stack[t] \in Seq(Frame) /\ stack[t] # <<>>
      BY <1>0, <1>10 DEF Return, At, Busy, TypeOK
    <3> QED BY <3>1
  <2>3. ASSUME NEW i \in 1 .. Len(stack'[t])
        PROVE  \E j \in 1 .. Len(stack[t]) : stack'[t][i] = stack[t][j]
    BY <2>1, <2>2
  <2> QED BY <1>0, <2>1, <2>3, TodoOfOne
<1>11. CASE GiveUp(t) \/ TakeBack(t)
  <2>1. stack' = stack
    BY <1>11 DEF GiveUp, TakeBack, Switch
  <2> QED BY <2>1 DEF TodoHeld, HoldsTodo
<1> QED BY <1>3, <1>5, <1>6, <1>7, <1>8, <1>9, <1>10, <1>11 DEF Step

LEMMA InitHoldsTodo == Init => TodoHeld
BY DEF Init, TodoHeld
-----------------------------------------------------------------------------
LEMMA InitHasInv == Init => Inv /\ GilInv
<1> SUFFICES ASSUME Init PROVE Inv /\ GilInv
  OBVIOUS
<1>1. TypeOK
  <2>1. <<>> \in Seq(Frame)
    OBVIOUS
  <2> QED BY <2>1 DEF Init, TypeOK
<1>2. MutexInSection
  BY BindingsAssumption DEF Init, MutexInSection
<1>3. HeldAlive
  BY DEF Init, HeldAlive
<1>4. GilInv
  BY BindingsAssumption DEF Init, GilInv, NestedInCallback, GilInCallback, Busy, Threads
<1> QED BY <1>1, <1>2, <1>3, <1>4 DEF Inv, LockInv

LEMMA StepKeepsInv == Inv /\ GilInv /\ [Next]_vars => (Inv /\ GilInv)'
<1> SUFFICES ASSUME Inv, GilInv, [Next]_vars PROVE Inv' /\ GilInv'
  OBVIOUS
<1>1. CASE UNCHANGED vars
  <2>1. Inv'
    BY <1>1 DEF vars, Inv, LockInv, TypeOK, MutexInSection, At, Busy, HeldAlive
  <2>2. GilInv'
    BY <1>1 DEF vars, GilInv, NestedInCallback, GilInCallback, Busy
  <2> QED BY <2>1, <2>2
<1>2. ASSUME NEW t \in Threads,
             \/ Receive(t) \/ (\E call \in PythonCalls : CallFromPython(t, call))
             \/ Step(t) \/ CallbackReturns(t) \/ CallbackRaises(t)
             \/ GiveUp(t) \/ TakeBack(t)
      PROVE  Inv' /\ GilInv'
  <2>1. Inv'
    BY <1>2, CallStep, LockStep, SectionStep, UnlockStep, InvokeStep, GoOnStep, DropStep,
       ReturnStep, CallbackEndStep, SwitchStep DEF Step
  <2>2. GilInv'
    BY <1>2, GilCallStep, GilStep, GilCallbackStep
  <2> QED BY <2>1, <2>2
<1> QED BY <1>1, <1>2 DEF Next

\* Only a thread in the critical section holds the mutex, and a receive thread
\* holds the GIL in callbacks only.
THEOREM InvariantHolds == Spec => []IInv
<1>1. Inv /\ GilInv => IInv
  BY DEF Inv, GilInv, IInv
<1> QED BY <1>1, InitHasInv, StepKeepsInv, PTL DEF Spec

\* Mutex and GIL never deadlock, whatever the number of threads, of callbacks
\* and of nested calls, although process_datagram takes the mutex under the GIL.
THEOREM LocksNeverDeadlock == Spec => []NoDeadlock
<1>1. IInv => NoDeadlock
  <2> DEFINE CanGoOn(u) == /\ Busy(u) \/ (gil = u /\ InPython(u))
                           /\ ~WaitsForMutex(u) /\ ~WaitsForGil(u)
  <2> SUFFICES ASSUME IInv, NEW t \in Threads, Busy(t) PROVE \E u \in Threads : CanGoOn(u)
    BY DEF NoDeadlock
  <2>1. CASE mutex \in Threads
    <3>1. At(mutex, "section") \/ At(mutex, "unlock")
      BY <2>1 DEF IInv, LockInv, MutexInSection
    <3>2. CanGoOn(mutex)
      BY <3>1 DEF At, WaitsForMutex, WaitsForGil, InCallback
    <3> QED BY <2>1, <3>2
  <2>2. CASE mutex = Nobody /\ gil = Nobody
    <3>1. CanGoOn(t)
      BY <2>2 DEF WaitsForMutex, WaitsForGil, GilIsFor
    <3> QED BY <3>1
  <2>3. CASE mutex = Nobody /\ gil \in Threads
    <3>1. Busy(gil) \/ gil \in PythonThreads
      BY <2>3 DEF IInv, GilInCallback, Threads
    <3>2. CanGoOn(gil)
      BY <2>3, <3>1 DEF WaitsForMutex, WaitsForGil, GilIsFor, InPython
    <3> QED BY <2>3, <3>2
  <2> QED BY <2>1, <2>2, <2>3 DEF IInv, LockInv, TypeOK
<1> QED BY <1>1, InvariantHolds, PTL

\* A callback that is still to be called, or is being called, was not
\* destroyed, and the table names none that was, whoever unregisters it meanwhile.
THEOREM CallbacksAliveWhenUsed == Spec => []AliveWhenUsed
<1>1. Inv /\ TodoHeld => AliveWhenUsed
  BY DEF Inv, HeldAlive, TodoHeld, HoldsTodo, AliveWhenUsed
<1> QED BY <1>1, InitHasInv, InitHoldsTodo, StepKeepsInv, TodoStep, PTL DEF Spec
=============================================================================
