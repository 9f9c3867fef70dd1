--------------------------- MODULE LifecycleProofs ---------------------------
(***************************************************************************)
(* The safety of end_loop for any number of parsers, descriptors, starts   *)
(* and calls, with and without Python: the invariant IInv of Lifecycle is  *)
(* inductive.  And, on top of it, the shutdown of the example program.     *)
(***************************************************************************)
EXTENDS ExampleApp, TLAPS

\* The calls: every line of end_loop belongs to a parser, Idle to none.
LEMMA CallShape ==
  ASSUME TypeOK
  PROVE  /\ call = Idle => call.at = "idle" /\ call.parser \notin Parsers
         /\ call.at \in Lines => /\ call # Idle /\ call.parser \in Parsers
                                 /\ call.name \in {"end_loop", "destructor"}
<1>1. Idle.at = "idle" /\ Idle.parser = Nobody /\ "idle" \notin Lines
  BY DEF Idle, Lines
<1> QED BY <1>1, LifecycleAssumption DEF TypeOK

\* A receive thread that takes a step is alive, so it can be joined.
LEMMA ThreadMoves ==
  ASSUME IInv, NEW p \in Parsers, NEW st \in ThreadState, Alive(p),
         thread' = [thread EXCEPT ![p] = st],
         gil' \in Parsers \cup {Main, Nobody},
         Local
  PROVE  IInv'
<1> USE DEF Local, kernel
<1>1. TypeOK'
  BY DEF IInv, TypeOK
<1>2. AliveIsJoinable'
  <2>1. ASSUME NEW q \in Parsers, Alive(q)' PROVE Alive(q)
    BY <2>1 DEF Alive, IInv, TypeOK
  <2> QED BY <2>1 DEF IInv, AliveIsJoinable
<1> QED BY <1>1, <1>2 DEF IInv, OwnsSockfd, StoppedIsJoined, GoneIsJoined, NoAbort

\* A new socket takes a free number, which no sockfd names: but that of a
\* parser that is about to forget it.
LEMMA CreateKeepsInv ==
  ASSUME IInv, NEW p \in Parsers, Create(p)
  PROVE  IInv'
<1>1. TypeOK /\ Alive(p)
  BY DEF IInv, Alive, Create, At
<1>2. PICK place \in Places : thread' = [thread EXCEPT ![p].at = place]
  BY DEF Create, Goto, Places
<1>3. thread' \in [Parsers -> ThreadState]
  BY <1>1, <1>2 DEF TypeOK, ThreadState
<1>4. AliveIsJoinable'
  <2>1. ASSUME NEW q \in Parsers, Alive(q)' PROVE Alive(q)
    BY <1>1, <1>2, <2>1 DEF Alive, TypeOK
  <2> QED BY <2>1 DEF IInv, AliveIsJoinable, Create
<1>5. StoppedIsJoined' /\ GoneIsJoined' /\ NoAbort'
  BY DEF IInv, StoppedIsJoined, GoneIsJoined, NoAbort, Create
<1>6. CASE sockfd' = [sockfd EXCEPT ![p] = -1] /\ UNCHANGED table
  <2>1. TypeOK'
    BY <1>1, <1>3, <1>6 DEF TypeOK, Create
  <2>2. OwnsSockfd'
    BY <1>1, <1>6 DEF IInv, OwnsSockfd, TypeOK, Create
  <2> QED BY <1>4, <1>5, <2>1, <2>2 DEF IInv
<1>7. ASSUME NEW d \in Descriptors, ~IsOpen(d), sockfd' = [sockfd EXCEPT ![p] = d],
             table' = [table EXCEPT ![d] = [owner |-> p, start |-> starts[p]]]
      PROVE  IInv'
  <2>1. [owner |-> p, start |-> starts[p]] \in Socket
    BY <1>1 DEF TypeOK, Socket
  <2>2. TypeOK'
    BY <1>1, <1>3, <1>7, <2>1 DEF TypeOK, Create
  <2>3. table[d].owner \notin Parsers
    BY <1>7, LifecycleAssumption DEF IsOpen, Closed
  <2>4. OwnsSockfd'
    <3> SUFFICES ASSUME NEW q \in Parsers
                 PROVE  \/ sockfd'[q] = -1 \/ table'[sockfd'[q]].owner = q
                        \/ call'.parser = q /\ call'.at = "clear"
      BY DEF OwnsSockfd
    <3>1. CASE q = p
      <4>1. sockfd'[p] = d /\ table'[d].owner = p
        BY <1>1, <1>7 DEF TypeOK
      <4> QED BY <3>1, <4>1
    <3>2. CASE q # p
      <4>1. sockfd'[q] = sockfd[q] /\ call' = call
        BY <1>1, <1>7, <3>2 DEF TypeOK, Create
      <4>2. sockfd[q] # d => table'[sockfd[q]] = table[sockfd[q]]
        BY <1>1, <1>7 DEF TypeOK
      <4> QED BY <2>3, <4>1, <4>2 DEF IInv, OwnsSockfd
    <3> QED BY <3>1, <3>2
  <2> QED BY <1>4, <1>5, <2>2, <2>4 DEF IInv
<1> QED BY <1>6, <1>7 DEF Create

\* The steps of a receive thread.
LEMMA ReceiveKeepsInv ==
  ASSUME IInv, Receive
  PROVE  IInv'
<1> PICK p \in Parsers : ReceiveStep(p) \/ Arrive(p) \/ RecvFails(p)
  BY DEF Receive
<1>1. CASE Create(p)
  BY <1>1, CreateKeepsInv
<1>2. CASE ~Create(p)
  <2>1. TypeOK /\ Alive(p) /\ Local
    BY <1>2 DEF IInv, Alive, At, ReceiveStep, Bind, Test, Load, Enter, Arrive, Wake, RecvFails,
                Deliver, CallbackReturns
  <2>2. gil' \in Parsers \cup {Main, Nobody}
    BY <1>2, <2>1 DEF TypeOK, ReceiveStep, Bind, Test, Load, Enter, Arrive, Wake, RecvFails,
                      Deliver, CallbackReturns
  <2>3. PICK st \in ThreadState : thread' = [thread EXCEPT ![p] = st]
    <3>1. thread[p] \in ThreadState
      BY <2>1 DEF TypeOK
    <3>2. ASSUME NEW place \in Places, Goto(p, place)
          PROVE  \E st \in ThreadState : thread' = [thread EXCEPT ![p] = st]
      BY <3>1, <3>2 DEF Goto, ThreadState
    <3>3. ASSUME Load(p)
          PROVE  \E st \in ThreadState : thread' = [thread EXCEPT ![p] = st]
      <4>1. [thread[p] EXCEPT !.at = "enter", !.fd = sockfd[p]] \in ThreadState
        BY <2>1, <3>1 DEF TypeOK, ThreadState, Places
      <4>2. thread' = [thread EXCEPT ![p] = [thread[p] EXCEPT !.at = "enter", !.fd = sockfd[p]]]
        BY <2>1, <3>3 DEF Load, TypeOK
      <4> QED BY <4>1, <4>2
    <3>4. ASSUME Enter(p)
          PROVE  \E st \in ThreadState : thread' = [thread EXCEPT ![p] = st]
      <4>1. CASE IsOpen(thread[p].fd)
        <5> DEFINE st == [thread[p] EXCEPT !.at = "blocked", !.socket = table[thread[p].fd]]
        <5>1. st \in ThreadState
          BY <2>1, <3>1, <4>1 DEF TypeOK, IsOpen, ThreadState, Places
        <5>2. thread' = [thread EXCEPT ![p] = st]
          BY <2>1, <3>4, <4>1 DEF Enter, TypeOK
        <5> QED BY <5>1, <5>2
      <4>2. CASE ~IsOpen(thread[p].fd)
        BY <3>2, <3>4, <4>2 DEF Enter, Places
      <4> QED BY <4>1, <4>2
    <3> QED BY <1>2, <3>2, <3>3, <3>4
            DEF ReceiveStep, Bind, Test, Arrive, Wake, RecvFails, Deliver, CallbackReturns, Places
  <2> QED BY <2>1, <2>2, <2>3, ThreadMoves
<1> QED BY <1>1, <1>2
-----------------------------------------------------------------------------
\* The calls of the application, none of which is under way when it starts.
LEMMA ApplicationKeepsInv ==
  ASSUME IInv, Application
  PROVE  IInv'
<1>1. TypeOK /\ (call = Idle => call.at = "idle" /\ call.parser \notin Parsers)
  BY CallShape DEF IInv
<1>2. ASSUME NEW p \in Parsers, start_loop(p) PROVE IInv'
  <2>1. call = Idle /\ call' = call /\ ~running[p] /\ p \notin destroyed
    BY <1>2 DEF start_loop, MayCall
  <2>2. ~joinable[p]
    BY <1>1, <2>1 DEF IInv, StoppedIsJoined
  <2>3. /\ running' = [running EXCEPT ![p] = TRUE]
        /\ joinable' = [joinable EXCEPT ![p] = TRUE]
        /\ thread' = [thread EXCEPT ![p] = [NoThread EXCEPT !.at = "create"]]
        /\ starts' = [starts EXCEPT ![p] = @ + 1] /\ starts[p] < MaxStarts
        /\ UNCHANGED <<aborted, sockfd, table, shut, call, gil, destroyed>>
    BY <1>2, <2>2 DEF start_loop, kernel
  <2>4. TypeOK'
    <3>1. [NoThread EXCEPT !.at = "create"] \in ThreadState
      BY DEF NoThread, ThreadState, Places
    <3>2. starts' \in [Parsers -> 0 .. MaxStarts]
      BY <1>1, <2>3, LifecycleAssumption DEF TypeOK
    <3> QED BY <1>1, <2>3, <3>1, <3>2 DEF TypeOK
  <2>5. OwnsSockfd' /\ NoAbort'
    BY <2>3 DEF IInv, OwnsSockfd, NoAbort
  <2>6. AliveIsJoinable' /\ StoppedIsJoined'
    BY <1>1, <2>3 DEF IInv, AliveIsJoinable, StoppedIsJoined, Alive, TypeOK
  <2>7. GoneIsJoined'
    BY <1>1, <2>1, <2>3 DEF IInv, GoneIsJoined, TypeOK
  <2> QED BY <2>4, <2>5, <2>6, <2>7 DEF IInv
<1>3. ASSUME NEW name \in {"end_loop", "destructor"}, NEW p \in Parsers, Begin(name, p)
      PROVE  IInv'
  <2>1. call = Idle /\ call' = [name |-> name, parser |-> p, at |-> "stop"]
        /\ gil' \in Parsers \cup {Main, Nobody}
        /\ UNCHANGED <<running, sockfd, joinable, thread, table, shut, destroyed, aborted, starts>>
    BY <1>1, <1>3 DEF Begin, MayCall, kernel, TypeOK
  <2>2. TypeOK'
    BY <1>1, <2>1 DEF TypeOK, Lines
  <2>3. \A q \in Parsers : ~(call.parser = q)
    BY <1>1, <2>1
  <2>4. OwnsSockfd' /\ AliveIsJoinable' /\ StoppedIsJoined' /\ GoneIsJoined' /\ NoAbort'
    BY <2>1, <2>3 DEF IInv, OwnsSockfd, AliveIsJoinable, Alive, StoppedIsJoined, GoneIsJoined,
                      NoAbort
  <2> QED BY <2>2, <2>4 DEF IInv
<1>4. CASE Yield
  <2>1. gil' \in Parsers \cup {Main, Nobody}
        /\ UNCHANGED <<running, sockfd, joinable, thread, table, shut, call, destroyed, aborted,
                       starts>>
    BY <1>4 DEF Yield, Local, kernel
  <2>2. TypeOK'
    BY <1>1, <2>1 DEF TypeOK
  <2> QED BY <2>1, <2>2 DEF IInv, OwnsSockfd, AliveIsJoinable, Alive, StoppedIsJoined,
                            GoneIsJoined, NoAbort
<1> QED BY <1>2, <1>3, <1>4 DEF Application, end_loop, destroy

\* The lines of end_loop.
LEMMA CallKeepsInv ==
  ASSUME IInv, CallStep
  PROVE  IInv'
<1> DEFINE p == call.parser
<1>1. /\ TypeOK /\ call.at \in Lines /\ call # Idle /\ p \in Parsers
      /\ call.name \in {"end_loop", "destructor"}
  <2>1. call.at \in Lines
    BY DEF CallStep, Stop, Check, Shutdown, Close, Clear, Join, Return, In, Lines
  <2> QED BY <2>1, CallShape DEF IInv
<1>2. ASSUME NEW place \in Lines, GoOn(place)
      PROVE  /\ call' \in {Idle} \cup [name : {"end_loop", "destructor"}, parser : Parsers, at : Lines]
             /\ call'.parser = p /\ call'.at = place /\ call'.name = call.name
  BY <1>1, <1>2 DEF GoOn, TypeOK
<1>3. CASE Stop
  <2>1. GoOn("check") /\ running' = [running EXCEPT ![p] = FALSE] /\ call.at = "stop"
        /\ UNCHANGED <<sockfd, joinable, thread, table, shut, gil, destroyed, aborted, starts>>
    BY <1>3 DEF Stop, In, kernel
  <2>2. /\ call' \in {Idle} \cup [name : {"end_loop", "destructor"}, parser : Parsers, at : Lines]
        /\ call'.parser = p /\ call'.at = "check"
    BY <1>2, <2>1 DEF Lines
  <2>3. TypeOK'
    BY <1>1, <2>1, <2>2 DEF TypeOK
  <2>4. StoppedIsJoined'
    BY <1>1, <2>1, <2>2 DEF IInv, StoppedIsJoined, TypeOK
  <2> QED BY <2>1, <2>2, <2>3, <2>4 DEF IInv, OwnsSockfd, AliveIsJoinable, Alive, GoneIsJoined, NoAbort
<1>4. CASE Check
  <2>1. PICK place \in {"shutdown", "join"} : GoOn(place)
    BY <1>4 DEF Check
  <2>2. /\ call' \in {Idle} \cup [name : {"end_loop", "destructor"}, parser : Parsers, at : Lines]
        /\ call'.parser = p /\ call'.at = place
    BY <1>2, <2>1 DEF Lines
  <2>3. UNCHANGED <<running, sockfd, joinable, thread, table, shut, gil, destroyed, aborted, starts>>
        /\ call.at = "check"
    BY <1>4 DEF Check, In, kernel
  <2>4. TypeOK'
    BY <1>1, <2>2, <2>3 DEF TypeOK
  <2> QED BY <2>2, <2>3, <2>4 DEF IInv, OwnsSockfd, AliveIsJoinable, Alive, StoppedIsJoined,
                                  GoneIsJoined, NoAbort
<1>5. CASE Shutdown
  <2>1. GoOn("close") /\ call.at = "shutdown"
        /\ UNCHANGED <<running, sockfd, joinable, thread, table, gil, destroyed, aborted, starts>>
    BY <1>5 DEF Shutdown, In
  <2>2. /\ call' \in {Idle} \cup [name : {"end_loop", "destructor"}, parser : Parsers, at : Lines]
        /\ call'.parser = p /\ call'.at = "close"
    BY <1>2, <2>1 DEF Lines
  <2>3. shut' \subseteq Socket \cup {Closed}
    BY <1>1, <1>5 DEF Shutdown, TypeOK
  <2>4. TypeOK'
    BY <1>1, <2>1, <2>2, <2>3 DEF TypeOK
  <2> QED BY <2>1, <2>2, <2>4 DEF IInv, OwnsSockfd, AliveIsJoinable, Alive, StoppedIsJoined,
                                  GoneIsJoined, NoAbort
<1>6. CASE Close
  <2>1. GoOn("clear") /\ call.at = "close"
        /\ table' = [d \in Descriptors |-> IF d = sockfd[p] THEN Closed ELSE table[d]]
        /\ UNCHANGED <<running, sockfd, joinable, thread, shut, gil, destroyed, aborted, starts>>
    BY <1>6 DEF Close, In
  <2>2. /\ call' \in {Idle} \cup [name : {"end_loop", "destructor"}, parser : Parsers, at : Lines]
        /\ call'.parser = p /\ call'.at = "clear"
    BY <1>2, <2>1 DEF Lines
  <2>3. TypeOK'
    BY <1>1, <2>1, <2>2 DEF TypeOK
  <2>4. OwnsSockfd'
    <3> SUFFICES ASSUME NEW q \in Parsers, sockfd[q] # -1, q # p
                 PROVE  table'[sockfd[q]].owner = q
      BY <2>1, <2>2 DEF OwnsSockfd
    <3>1. table[sockfd[q]].owner = q
      BY <2>1 DEF IInv, OwnsSockfd
    <3>2. sockfd[p] # -1 => table[sockfd[p]].owner = p
      BY <1>1, <2>1 DEF IInv, OwnsSockfd
    <3>3. sockfd[q] \in Descriptors /\ sockfd[q] # sockfd[p]
      BY <1>1, <3>1, <3>2 DEF TypeOK
    <3> QED BY <2>1, <3>1, <3>3
  <2> QED BY <2>1, <2>2, <2>3, <2>4 DEF IInv, AliveIsJoinable, Alive, StoppedIsJoined,
                                  GoneIsJoined, NoAbort
<1>7. CASE Clear
  <2>1. GoOn("join") /\ call.at = "clear" /\ sockfd' = [sockfd EXCEPT ![p] = -1]
        /\ UNCHANGED <<running, joinable, thread, table, shut, gil, destroyed, aborted, starts>>
    BY <1>7 DEF Clear, In, kernel
  <2>2. /\ call' \in {Idle} \cup [name : {"end_loop", "destructor"}, parser : Parsers, at : Lines]
        /\ call'.parser = p /\ call'.at = "join"
    BY <1>2, <2>1 DEF Lines
  <2>3. TypeOK'
    BY <1>1, <2>1, <2>2 DEF TypeOK
  <2>4. OwnsSockfd'
    BY <1>1, <2>1, <2>2 DEF IInv, OwnsSockfd, TypeOK
  <2> QED BY <2>1, <2>2, <2>3, <2>4 DEF IInv, AliveIsJoinable, Alive, StoppedIsJoined,
                                        GoneIsJoined, NoAbort
<1>8. CASE Join
  <2>1. GoOn("return") /\ call.at = "join" /\ joinable' = [joinable EXCEPT ![p] = FALSE]
        /\ (joinable[p] => thread[p].at = "ended")
        /\ UNCHANGED <<running, sockfd, thread, table, shut, gil, destroyed, aborted, starts>>
    BY <1>8 DEF Join, In, At, kernel
  <2>2. /\ call' \in {Idle} \cup [name : {"end_loop", "destructor"}, parser : Parsers, at : Lines]
        /\ call'.parser = p /\ call'.at = "return"
    BY <1>2, <2>1 DEF Lines
  <2>3. TypeOK'
    BY <1>1, <2>1, <2>2 DEF TypeOK
  <2>4. AliveIsJoinable'
    BY <1>1, <2>1 DEF IInv, AliveIsJoinable, Alive, TypeOK
  <2>5. StoppedIsJoined' /\ GoneIsJoined'
    BY <1>1, <2>1, <2>2 DEF IInv, StoppedIsJoined, GoneIsJoined, TypeOK
  <2> QED BY <2>1, <2>2, <2>3, <2>4, <2>5 DEF IInv, OwnsSockfd, NoAbort
<1>9. CASE Return
  <2>1. call' = Idle /\ call.at = "return" /\ gil' \in Parsers \cup {Main, Nobody}
        /\ destroyed' \subseteq destroyed \cup {p}
        /\ UNCHANGED <<running, sockfd, joinable, thread, table, shut, starts>>
    BY <1>1, <1>9 DEF Return, In, kernel, TypeOK
  <2>5. ~joinable[p]
    BY <1>1, <2>1 DEF IInv, GoneIsJoined
  <2>6. aborted' = aborted
    BY <1>1, <1>9, <2>5 DEF Return, IInv, NoAbort, TypeOK
  <2>2. TypeOK'
    BY <1>1, <2>1, <2>6 DEF TypeOK
  <2>3. call'.parser \notin Parsers
    BY <2>1, LifecycleAssumption DEF Idle
  <2>4. GoneIsJoined'
    BY <1>1, <2>1, <2>3 DEF IInv, GoneIsJoined
  <2> QED BY <2>1, <2>2, <2>3, <2>4, <2>6 DEF IInv, OwnsSockfd, AliveIsJoinable, Alive, StoppedIsJoined,
                                        NoAbort
<1> QED BY <1>3, <1>4, <1>5, <1>6, <1>7, <1>8, <1>9 DEF CallStep
-----------------------------------------------------------------------------
LEMMA InitHasInv == Init => IInv
<1> SUFFICES ASSUME Init PROVE IInv
  OBVIOUS
<1>0. NoThread \in ThreadState
  BY DEF NoThread, ThreadState, Places
<1>1. TypeOK
  <2>1. 0 \in 0 .. MaxStarts
    BY LifecycleAssumption
  <2>2. /\ running \in [Parsers -> BOOLEAN] /\ joinable \in [Parsers -> BOOLEAN]
        /\ sockfd \in [Parsers -> Descriptors \cup {-1}]
        /\ starts \in [Parsers -> 0 .. MaxStarts]
    BY <2>1 DEF Init
  <2>3. thread \in [Parsers -> ThreadState] /\ table \in [Descriptors -> Socket \cup {Closed}]
    BY <1>0 DEF Init
  <2>4. gil \in Parsers \cup {Main, Nobody}
    BY DEF Init
  <2> QED BY <2>2, <2>3, <2>4 DEF Init, TypeOK
<1>2. OwnsSockfd /\ AliveIsJoinable /\ StoppedIsJoined /\ NoAbort
  BY DEF Init, OwnsSockfd, AliveIsJoinable, Alive, StoppedIsJoined, NoAbort, NoThread
<1>3. GoneIsJoined
  BY DEF Init, GoneIsJoined
<1> QED BY <1>1, <1>2, <1>3 DEF IInv

LEMMA StepKeepsInv == IInv /\ [Next]_vars => IInv'
<1> SUFFICES ASSUME IInv, [Next]_vars PROVE IInv'
  OBVIOUS
<1>1. CASE UNCHANGED vars
  BY <1>1 DEF vars, kernel, IInv, TypeOK, OwnsSockfd, AliveIsJoinable, Alive, StoppedIsJoined,
              GoneIsJoined, NoAbort
<1> QED BY <1>1, ApplicationKeepsInv, CallKeepsInv, ReceiveKeepsInv DEF Next

\* The invariant of sockets, threads and joins holds, for any parsers, descriptors
\* and restarts.
THEOREM InvariantHolds == Spec => []IInv
BY InitHasInv, StepKeepsInv, PTL DEF Spec

\* No call of the application ends the process.
THEOREM NeverAborts == Spec => []NoAbort
<1>1. IInv => NoAbort
  BY DEF IInv
<1> QED BY <1>1, InvariantHolds, PTL

\* end_loop closes no descriptor but its own parser's.
THEOREM ClosesItsOwn == Spec => []DescriptorIsOwn
<1>1. IInv => DescriptorIsOwn
  <2> SUFFICES ASSUME IInv, call.at \in {"shutdown", "close"}, sockfd[call.parser] # -1
               PROVE  table[sockfd[call.parser]].owner = call.parser
    BY DEF DescriptorIsOwn
  <2>1. call.parser \in Parsers
    BY CallShape DEF IInv, Lines
  <2> QED BY <2>1 DEF IInv, OwnsSockfd
<1> QED BY <1>1, InvariantHolds, PTL

\* Nothing of a parser runs once end_loop or the destructor has returned.
THEOREM EndIsQuiet == Spec => []QuietAfterEnd
<1>1. IInv => QuietAfterEnd
  <2> SUFFICES ASSUME IInv, NEW p \in Parsers,
                      (call = Idle /\ ~running[p]) \/ p \in destroyed
               PROVE  ~Alive(p) /\ ~joinable[p]
    BY DEF QuietAfterEnd
  <2>1. ~joinable[p]
    BY CallShape DEF IInv, StoppedIsJoined, GoneIsJoined
  <2> QED BY <2>1 DEF IInv, AliveIsJoinable
<1> QED BY <1>1, InvariantHolds, PTL
-----------------------------------------------------------------------------
(***************************************************************************)
(* The example program: main() lets the manager and the logger die when    *)
(* both receive threads have ended.                                        *)
(***************************************************************************)
\* end_loop was called on parser p, and is past its first line or still at it.
Stopping(p) == ~running[p] \/ (call.parser = p /\ call.at = "stop")

\* How far main() is: which of the two parsers it has told to stop, which it has
\* joined, and what it may have destroyed.
ScriptInv ==
  /\ pc \in 1 .. Len(Script) + 1
  /\ pc > 4 => Stopping(parser)
  /\ pc > 5 => Stopping(snapshot_parser) /\ ~joinable[parser]
  /\ pc > 6 => ~joinable[snapshot_parser]
  /\ gone # {} => pc > 6

ExampleInv == IInv /\ ScriptInv

LEMMA ScriptIs ==
  /\ Len(Script) = 9
  /\ Script[1] = Run("start", parser) /\ Script[2] = Run("start", snapshot_parser)
  /\ Script[3] = Run("wait", Nobody)
  /\ Script[4] = Run("end_loop", parser) /\ Script[5] = Run("end_loop", snapshot_parser)
  /\ Script[6] = Run("delete", book_mgr)
  /\ Script[7] = Run("destroy", snapshot_parser) /\ Script[8] = Run("destroy", parser)
  /\ Script[9] = Run("delete", logger)
BY DEF Script

\* Between calls, a parser that was told to stop has been joined.
LEMMA Joined ==
  ASSUME IInv, call = Idle, NEW p \in Parsers, Stopping(p)
  PROVE  ~running[p] /\ ~joinable[p]
<1>1. call.at = "idle" /\ call.parser \notin Parsers
  BY CallShape DEF IInv
<1> QED BY <1>1 DEF IInv, StoppedIsJoined, Stopping

\* The steps of main() that are no step of a parser.
LEMMA Unstirred ==
  ASSUME IInv, UNCHANGED vars
  PROVE  IInv'
BY StepKeepsInv

LEMMA MainKeepsInv ==
  ASSUME ExampleInv, MainStep
  PROVE  ExampleInv'
<1>1. /\ call = Idle /\ pc \in 1 .. 9 /\ pc' = pc + 1
      /\ IInv /\ TypeOK /\ parser \in Parsers /\ snapshot_parser \in Parsers
      /\ parser # snapshot_parser
  BY ScriptIs, ExampleAssumption DEF MainStep, ExampleInv, ScriptInv, IInv
<1>2. /\ pc > 4 => ~running[parser] /\ ~joinable[parser]
      /\ pc > 5 => ~running[snapshot_parser] /\ ~joinable[snapshot_parser]
  BY <1>1, Joined DEF ExampleInv, ScriptInv
<1>3. ASSUME NEW p \in {parser, snapshot_parser}, start_loop(p), UNCHANGED gone, pc \in {1, 2}
      PROVE  ExampleInv'
  <2>1. IInv'
    BY <1>1, <1>3, ApplicationKeepsInv DEF Application
  <2>2. gone = {}
    BY <1>3 DEF ExampleInv, ScriptInv
  <2> QED BY <1>1, <1>3, <2>1, <2>2, ScriptIs DEF ExampleInv, ScriptInv
<1>4. ASSUME UNCHANGED <<vars, gone>>, pc = 3
      PROVE  ExampleInv'
  <2>1. IInv'
    BY <1>1, <1>4, Unstirred
  <2> QED BY <1>1, <1>4, <2>1, ScriptIs DEF ExampleInv, ScriptInv
<1>5. ASSUME NEW p \in {parser, snapshot_parser}, end_loop(p), UNCHANGED gone,
             pc = IF p = parser THEN 4 ELSE 5
      PROVE  ExampleInv'
  <2>1. IInv'
    BY <1>1, <1>5, ApplicationKeepsInv DEF Application
  <2>2. call'.parser = p /\ call'.at = "stop" /\ UNCHANGED <<running, joinable>>
    BY <1>5 DEF end_loop, Begin
  <2>3. Stopping(p)'
    BY <2>2 DEF Stopping
  <2>4. pc = 5 => Stopping(parser)' /\ ~joinable'[parser]
    BY <1>2, <2>2 DEF Stopping
  <2>5. gone' = {}
    BY <1>5 DEF ExampleInv, ScriptInv
  <2> QED BY <1>1, <1>5, <2>1, <2>3, <2>4, <2>5, ScriptIs DEF ExampleInv, ScriptInv
<1>6. ASSUME NEW p \in {parser, snapshot_parser}, destroy(p), UNCHANGED gone, pc \in {7, 8}
      PROVE  ExampleInv'
  <2>1. IInv'
    BY <1>1, <1>6, ApplicationKeepsInv DEF Application
  <2>2. UNCHANGED <<running, joinable>>
    BY <1>6 DEF destroy, Begin
  <2>3. Stopping(parser)' /\ Stopping(snapshot_parser)'
    BY <1>2, <1>6, <2>2 DEF Stopping
  <2> QED BY <1>1, <1>2, <1>6, <2>1, <2>2, <2>3, ScriptIs DEF ExampleInv, ScriptInv
<1>7. ASSUME UNCHANGED vars, pc \in {6, 9}
      PROVE  ExampleInv'
  <2>1. IInv'
    BY <1>1, <1>7, Unstirred
  <2>2. UNCHANGED <<running, joinable>>
    BY <1>7 DEF vars
  <2>3. Stopping(parser)' /\ Stopping(snapshot_parser)'
    BY <1>2, <1>7, <2>2 DEF Stopping
  <2> QED BY <1>1, <1>2, <1>7, <2>1, <2>2, <2>3, ScriptIs DEF ExampleInv, ScriptInv
<1>8. Do(Script[pc])
  BY DEF MainStep
<1>9. CASE pc \in {1, 2}
  BY <1>3, <1>8, <1>9, ScriptIs DEF Do, Run
<1>10. CASE pc = 3
  BY <1>4, <1>8, <1>10, ScriptIs DEF Do, Run
<1>11. CASE pc \in {4, 5}
  BY <1>1, <1>5, <1>8, <1>11, ScriptIs DEF Do, Run
<1>12. CASE pc \in {6, 9}
  BY <1>7, <1>8, <1>12, ScriptIs DEF Do, Run
<1>13. CASE pc \in {7, 8}
  BY <1>6, <1>8, <1>13, ScriptIs DEF Do, Run
<1> QED BY <1>1, <1>9, <1>10, <1>11, <1>12, <1>13

\* What a parser's threads and calls do while main() waits for them.
LEMMA InsideKeepsInv ==
  ASSUME ExampleInv, Inside
  PROVE  ExampleInv'
<1>1. IInv' /\ UNCHANGED <<pc, gone>>
  BY CallKeepsInv, ReceiveKeepsInv DEF Inside, ExampleInv
<1>2. ASSUME NEW p \in Parsers
      PROVE  /\ joinable'[p] => joinable[p]
             /\ Stopping(p) => Stopping(p)'
  <2>1. CASE Receive
    <3>1. UNCHANGED <<running, joinable, call>>
      BY <2>1 DEF Receive, ReceiveStep, Create, Bind, Test, Load, Enter, Arrive, Wake, RecvFails,
                  Deliver, CallbackReturns, Local
    <3> QED BY <3>1 DEF Stopping
  <2>2. CASE CallStep
    <3>1. TypeOK /\ call.parser \in Parsers
      <4>1. call.at \in Lines
        BY <2>2 DEF CallStep, Stop, Check, Shutdown, Close, Clear, Join, Return, In, Lines
      <4> QED BY <4>1, CallShape DEF ExampleInv, IInv
    <3>2. \/ UNCHANGED joinable
          \/ joinable' = [joinable EXCEPT ![call.parser] = FALSE]
      BY <2>2 DEF CallStep, Stop, Check, Shutdown, Close, Clear, Join, Return
    <3>3. \/ UNCHANGED running /\ call.at # "stop"
          \/ running' = [running EXCEPT ![call.parser] = FALSE]
      BY <2>2 DEF CallStep, Stop, Check, Shutdown, Close, Clear, Join, Return, In
    <3> QED BY <3>1, <3>2, <3>3 DEF Stopping, TypeOK
  <2> QED BY <2>1, <2>2 DEF Inside
<1>3. parser \in Parsers /\ snapshot_parser \in Parsers
  BY ExampleAssumption
<1> QED BY <1>1, <1>2, <1>3 DEF ExampleInv, ScriptInv

LEMMA ExampleInvHolds == ExampleSpec => []ExampleInv
<1>1. ExampleInit => ExampleInv
  BY InitHasInv, ScriptIs DEF ExampleInit, ExampleInv, ScriptInv
<1>2. ExampleInv /\ [ExampleNext]_example => ExampleInv'
  <2> SUFFICES ASSUME ExampleInv, [ExampleNext]_example
               PROVE  ExampleInv'
    OBVIOUS
  <2>1. ASSUME UNCHANGED <<vars, pc, gone>>
        PROVE  ExampleInv'
    <3>1. IInv'
      BY <2>1, Unstirred DEF ExampleInv
    <3>2. UNCHANGED <<running, joinable, call, pc, gone>>
      BY <2>1 DEF vars
    <3> QED BY <3>1, <3>2 DEF ExampleInv, ScriptInv, Stopping
  <2>2. CASE signal_handler \/ UNCHANGED example
    BY <2>1, <2>2 DEF signal_handler, example
  <2> QED BY <2>2, MainKeepsInv, InsideKeepsInv DEF ExampleNext
<1> QED BY <1>1, <1>2, PTL DEF ExampleSpec

\* The manager and the logger outlive the receive threads that use them
\* (parser.h:165-166), whatever the network does and whenever Ctrl+C comes.
THEOREM ManagerOutlivesThreads == ExampleSpec => []ResourcesOutlive
<1>1. ExampleInv => ResourcesOutlive
  <2> SUFFICES ASSUME ExampleInv, NEW p \in Parsers, Alive(p), gone # {}
               PROVE  FALSE
    BY DEF ResourcesOutlive
  <2>1. ~joinable[p]
    BY ExampleAssumption DEF ExampleInv, ScriptInv
  <2> QED BY <2>1 DEF ExampleInv, IInv, AliveIsJoinable
<1> QED BY <1>1, ExampleInvHolds, PTL
=============================================================================
