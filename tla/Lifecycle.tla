------------------------------ MODULE Lifecycle ------------------------------
(***************************************************************************)
(* The life of TaifexParser objects (src/src/parser.cc): start_loop,       *)
(* end_loop, the destructor, and receive_loop on a thread of its own.      *)
(*                                                                         *)
(* One application thread ("main") makes the calls.  running is an atomic, *)
(* sockfd is a plain int that both threads read and write without a lock,  *)
(* so every access to it is a step.  The descriptor is only a number: the  *)
(* kernel gives out the lowest free one, and after a close the same number *)
(* may be another parser's socket.  A thread blocked in recvfrom holds the *)
(* socket itself, which a close does not wake and a shutdown does.         *)
(*                                                                         *)
(* With Python, callbacks need the GIL; end_loop is bound with the GIL     *)
(* released, the destructor runs with it held (src/src/pybind.cpp).        *)
(***************************************************************************)
EXTENDS Integers, FiniteSets

CONSTANTS
  Parsers,
  Descriptors,  \* the descriptors the process may have open
  MaxStarts,    \* bound on the effective start_loop calls on each parser
  Python,       \* the callbacks are Python's
  Main, Nobody  \* the application's thread, and no thread

ASSUME LifecycleAssumption ==
  /\ Descriptors \subseteq Nat
  /\ MaxStarts \in Nat
  /\ Python \in BOOLEAN
  /\ Main # Nobody /\ {Main, Nobody} \cap Parsers = {}

VARIABLES
  running,    \* running, per parser
  sockfd,     \* sockfd, per parser
  joinable,   \* does recv_thread stand for a thread that was not joined?
  thread,     \* the receive thread: where it is, and what recvfrom was given
  table,      \* the kernel's descriptor table: the socket behind each number
  shut,       \* the sockets that were shut down
  call,       \* the call main is in, and where
  gil,        \* who holds the GIL
  destroyed,  \* the parsers that no longer exist
  aborted,    \* std::terminate was called
  starts      \* the effective start_loop calls on each parser

kernel == <<table, shut>>
vars == <<running, sockfd, joinable, thread, kernel, call, gil, destroyed, aborted, starts>>

Socket == [owner : Parsers, start : 0 .. MaxStarts]
Closed == [owner |-> Nobody, start |-> 0]

NoThread == [at |-> "none", fd |-> -1, socket |-> Closed]
Idle == [name |-> "none", parser |-> Nobody, at |-> "idle"]

IsOpen(d) == d \in Descriptors /\ table[d] # Closed
-----------------------------------------------------------------------------
(***************************************************************************)
(* The receive thread of parser p                                          *)
(***************************************************************************)
At(p, place) == thread[p].at = place
Goto(p, place) == thread' = [thread EXCEPT ![p].at = place]

\* socket(): the lowest free number, or a failure when there is none.
Create(p) ==
  /\ At(p, "create")
  /\ LET available == {d \in Descriptors : ~IsOpen(d)}
     IN  \/ \E d \in available :
              /\ \A e \in available : d <= e
              /\ table' = [table EXCEPT ![d] = [owner |-> p, start |-> starts[p]]]
              /\ sockfd' = [sockfd EXCEPT ![p] = d]
              /\ Goto(p, "bind")
         \/ /\ available = {}
            /\ sockfd' = [sockfd EXCEPT ![p] = -1]
            /\ Goto(p, "ended")
            /\ UNCHANGED table
  /\ UNCHANGED <<running, joinable, shut, call, gil, destroyed, aborted, starts>>

\* The thread's other steps touch only its own place and the GIL.
Local == UNCHANGED <<running, sockfd, joinable, kernel, call, destroyed, aborted, starts>>

\* bind and the socket options; the port may be taken.
Bind(p) ==
  /\ At(p, "bind")
  /\ (IsOpen(sockfd[p]) /\ Goto(p, "test")) \/ Goto(p, "ended")
  /\ Local /\ UNCHANGED gil

\* while (running)
Test(p) ==
  /\ At(p, "test")
  /\ Goto(p, IF running[p] THEN "load" ELSE "ended")
  /\ Local /\ UNCHANGED gil

\* recvfrom(sockfd, ...): the argument is read, then the call is made.
Load(p) ==
  /\ At(p, "load")
  /\ thread' = [thread EXCEPT ![p].at = "enter", ![p].fd = sockfd[p]]
  /\ Local /\ UNCHANGED gil

\* The kernel looks the number up (EBADF ends the loop).
Enter(p) ==
  /\ At(p, "enter")
  /\ IF IsOpen(thread[p].fd)
     THEN thread' = [thread EXCEPT ![p].at = "blocked", ![p].socket = table[thread[p].fd]]
     ELSE Goto(p, "ended")
  /\ Local /\ UNCHANGED gil

\* A datagram: process_datagram has a callback to make, or has none.
Arrive(p) ==
  /\ At(p, "blocked")
  /\ Goto(p, "deliver") \/ Goto(p, "test")
  /\ Local /\ UNCHANGED gil

\* A socket that was shut down reads as empty (len is 0).
Wake(p) ==
  /\ At(p, "blocked")
  /\ thread[p].socket \in shut
  /\ Goto(p, "test")
  /\ Local /\ UNCHANGED gil

\* Any other error ends the loop.
RecvFails(p) == At(p, "blocked") /\ Goto(p, "ended") /\ Local /\ UNCHANGED gil

\* The callback starts, when Python's with the GIL.
Deliver(p) ==
  /\ At(p, "deliver")
  /\ IF Python THEN gil = Nobody /\ gil' = p ELSE UNCHANGED gil
  /\ Goto(p, "callback")
  /\ Local

CallbackReturns(p) ==
  /\ At(p, "callback")
  /\ gil' = IF Python THEN Nobody ELSE gil
  /\ Goto(p, "test")
  /\ Local

ReceiveStep(p) ==
  \/ Create(p) \/ Bind(p) \/ Test(p) \/ Load(p) \/ Enter(p) \/ Wake(p)
  \/ Deliver(p) \/ CallbackReturns(p)
-----------------------------------------------------------------------------
(***************************************************************************)
(* The calls of the application                                            *)
(***************************************************************************)
\* Between calls, with the GIL when the application is Python's.
MayCall(p) ==
  /\ call = Idle
  /\ Python => gil = Main
  /\ p \notin destroyed

\* start_loop on a parser that is running returns at once.  The new thread is
\* moved into recv_thread, which must not stand for another one.
\* Faulty: a second call starts a second thread.
start_loop_bug(p) ==
  /\ MayCall(p)
  /\ starts[p] < MaxStarts
  /\ running' = [running EXCEPT ![p] = TRUE]
  /\ starts' = [starts EXCEPT ![p] = @ + 1]
  /\ aborted' = (aborted \/ joinable[p])
  /\ joinable' = [joinable EXCEPT ![p] = TRUE]
  /\ thread' = [thread EXCEPT ![p] = [NoThread EXCEPT !.at = "create"]]
  /\ UNCHANGED <<sockfd, kernel, call, gil, destroyed>>

start_loop(p) ==
  /\ MayCall(p)
  /\ ~running[p]
  /\ starts[p] < MaxStarts
  /\ running' = [running EXCEPT ![p] = TRUE]
  /\ starts' = [starts EXCEPT ![p] = @ + 1]
  /\ IF joinable[p]
     THEN aborted' = TRUE /\ UNCHANGED <<joinable, thread>>
     ELSE /\ joinable' = [joinable EXCEPT ![p] = TRUE]
          /\ thread' = [thread EXCEPT ![p] = [NoThread EXCEPT !.at = "create"]]
          /\ UNCHANGED aborted
  /\ UNCHANGED <<sockfd, kernel, call, gil, destroyed>>

Begin(name, p) ==
  /\ MayCall(p)
  /\ call' = [name |-> name, parser |-> p, at |-> "stop"]
  /\ gil' = IF Python /\ name = "end_loop" THEN Nobody ELSE gil
  /\ UNCHANGED <<running, sockfd, joinable, thread, kernel, destroyed, aborted, starts>>

end_loop(p) == Begin("end_loop", p)

\* Faulty: the destructor leaves the loop alone.
destroy_bug(p) ==
  /\ MayCall(p)
  /\ call' = [name |-> "destructor", parser |-> p, at |-> "return"]
  /\ UNCHANGED <<running, sockfd, joinable, thread, kernel, gil, destroyed, aborted, starts>>

destroy(p) == Begin("destructor", p)

\* Main is at a given line of end_loop; it goes on to the next one.
In(place) == call.at = place
GoOn(place) == call' = [call EXCEPT !.at = place]

\* running = false.  Faulty: left out, the closed socket is enough.
Stop_bug ==
  /\ In("stop")
  /\ GoOn("check")
  /\ UNCHANGED <<running, sockfd, joinable, thread, kernel, gil, destroyed, aborted, starts>>

Stop ==
  /\ In("stop")
  /\ running' = [running EXCEPT ![call.parser] = FALSE]
  /\ GoOn("check")
  /\ UNCHANGED <<sockfd, joinable, thread, kernel, gil, destroyed, aborted, starts>>

\* if (sockfd != -1)
\* Faulty: a parser without a socket has nothing to stop.
Check_bug ==
  /\ In("check")
  /\ GoOn(IF sockfd[call.parser] # -1 THEN "shutdown" ELSE "return")
  /\ UNCHANGED <<running, sockfd, joinable, thread, kernel, gil, destroyed, aborted, starts>>

Check ==
  /\ In("check")
  /\ GoOn(IF sockfd[call.parser] # -1 THEN "shutdown" ELSE "join")
  /\ UNCHANGED <<running, sockfd, joinable, thread, kernel, gil, destroyed, aborted, starts>>

\* shutdown(sockfd, SHUT_RDWR).  Faulty: left out, the close is enough.
Shutdown_bug ==
  /\ In("shutdown")
  /\ GoOn("close")
  /\ UNCHANGED <<running, sockfd, joinable, thread, kernel, gil, destroyed, aborted, starts>>

Shutdown ==
  /\ In("shutdown")
  /\ shut' = shut \cup {table[d] : d \in {sockfd[call.parser]} \cap Descriptors}
  /\ GoOn("close")
  /\ UNCHANGED <<running, sockfd, joinable, thread, table, gil, destroyed, aborted, starts>>

\* close(sockfd)
Close ==
  /\ In("close")
  /\ table' = [d \in Descriptors |-> IF d = sockfd[call.parser] THEN Closed ELSE table[d]]
  /\ GoOn("clear")
  /\ UNCHANGED <<running, sockfd, joinable, thread, shut, gil, destroyed, aborted, starts>>

\* sockfd = -1.  Faulty: the number is kept.
Clear_bug ==
  /\ In("clear")
  /\ GoOn("join")
  /\ UNCHANGED <<running, sockfd, joinable, thread, kernel, gil, destroyed, aborted, starts>>

Clear ==
  /\ In("clear")
  /\ sockfd' = [sockfd EXCEPT ![call.parser] = -1]
  /\ GoOn("join")
  /\ UNCHANGED <<running, joinable, thread, kernel, gil, destroyed, aborted, starts>>

\* if (recv_thread.joinable()) recv_thread.join()
Join ==
  /\ In("join")
  /\ joinable[call.parser] => At(call.parser, "ended")
  /\ joinable' = [joinable EXCEPT ![call.parser] = FALSE]
  /\ GoOn("return")
  /\ UNCHANGED <<running, sockfd, thread, kernel, gil, destroyed, aborted, starts>>

\* Back in the application, with the GIL.  After the destructor's body its
\* members are destroyed; destroying a recv_thread that still stands for a
\* thread ends the process.
Return ==
  /\ In("return")
  /\ IF Python /\ call.name = "end_loop" THEN gil = Nobody /\ gil' = Main ELSE UNCHANGED gil
  /\ destroyed' = IF call.name = "destructor" THEN destroyed \cup {call.parser} ELSE destroyed
  /\ aborted' = (aborted \/ (call.name = "destructor" /\ joinable[call.parser]))
  /\ call' = Idle
  /\ UNCHANGED <<running, sockfd, joinable, thread, kernel, starts>>

CallStep == Stop \/ Check \/ Shutdown \/ Close \/ Clear \/ Join \/ Return

\* Between calls a Python application gives the GIL up and takes it back.
Yield ==
  /\ Python
  /\ call = Idle
  /\ \/ gil = Main /\ gil' = Nobody
     \/ gil = Nobody /\ gil' = Main
  /\ Local /\ UNCHANGED thread

Application ==
  \/ \E p \in Parsers : start_loop(p) \/ end_loop(p) \/ destroy(p)
  \/ Yield
-----------------------------------------------------------------------------
Init ==
  /\ running = [p \in Parsers |-> FALSE]
  /\ sockfd = [p \in Parsers |-> -1]
  /\ joinable = [p \in Parsers |-> FALSE]
  /\ thread = [p \in Parsers |-> NoThread]
  /\ table = [d \in Descriptors |-> Closed]
  /\ shut = {}
  /\ call = Idle
  /\ gil = IF Python THEN Main ELSE Nobody
  /\ destroyed = {}
  /\ aborted = FALSE
  /\ starts = [p \in Parsers |-> 0]

Receive == \E p \in Parsers : ReceiveStep(p) \/ Arrive(p) \/ RecvFails(p)

Next == Application \/ CallStep \/ Receive

Spec == Init /\ [][Next]_vars
-----------------------------------------------------------------------------
\* Threads run, callbacks return, whoever waits for a GIL that is free time and
\* again gets it; nothing is assumed of the traffic.
Fairness ==
  /\ WF_vars(CallStep)
  /\ SF_vars(Return)
  /\ \A p \in Parsers : WF_vars(ReceiveStep(p)) /\ SF_vars(Deliver(p))

FairSpec == Spec /\ Fairness
-----------------------------------------------------------------------------
Places ==
  {"none", "create", "bind", "test", "load", "enter", "blocked", "deliver", "callback", "ended"}

Lines == {"stop", "check", "shutdown", "close", "clear", "join", "return"}

ThreadState == [at : Places, fd : Descriptors \cup {-1}, socket : Socket \cup {Closed}]

TypeOK ==
  /\ running \in [Parsers -> BOOLEAN]
  /\ sockfd \in [Parsers -> Descriptors \cup {-1}]
  /\ joinable \in [Parsers -> BOOLEAN]
  /\ thread \in [Parsers -> ThreadState]
  /\ table \in [Descriptors -> Socket \cup {Closed}]
  /\ shut \subseteq Socket \cup {Closed}
  /\ call \in {Idle} \cup [name : {"end_loop", "destructor"}, parser : Parsers, at : Lines]
  /\ gil \in Parsers \cup {Main, Nobody}
  /\ destroyed \subseteq Parsers
  /\ aborted \in BOOLEAN
  /\ starts \in [Parsers -> 0 .. MaxStarts]

\* end_loop shuts down and closes a socket of its own parser, never one that
\* was given the same number since: neither when the socket failed, nor when
\* end_loop is called again, by the destructor or after a restart
\* (parser.cc:70-74).
DescriptorIsOwn ==
  call.at \in {"shutdown", "close"} /\ sockfd[call.parser] # -1 =>
    table[sockfd[call.parser]].owner = call.parser

\* Where a receive thread is that may still touch the parser or its callbacks.
Alive(p) == thread[p].at \notin {"none", "ended"}

\* Once end_loop or the destructor has returned, the receive thread has ended:
\* no callback runs and nothing of the parser is used any more, and the next
\* start_loop starts a loop (parser.cc:69, 75).
QuietAfterEnd ==
  \A p \in Parsers :
    (call = Idle /\ ~running[p]) \/ p \in destroyed => ~Alive(p) /\ ~joinable[p]

\* No call ends the process: start_loop never overwrites a recv_thread that
\* stands for a thread, nor does the destructor destroy one
\* (parser.cc:19-21, 53, 75).
NoAbort == ~aborted

\* The inductive invariant behind these three: sockfd names a socket of its own
\* parser, but for the moment between close and sockfd = -1, when the number
\* may have been given to another one; a receive thread that lives can be
\* joined; a parser that was told to stop has been joined when end_loop is done.
OwnsSockfd ==
  \A p \in Parsers :
    \/ sockfd[p] = -1
    \/ table[sockfd[p]].owner = p
    \/ call.parser = p /\ call.at = "clear"

AliveIsJoinable == \A p \in Parsers : Alive(p) => joinable[p]

StoppedIsJoined ==
  \A p \in Parsers :
    \/ running[p]
    \/ ~joinable[p]
    \/ call.parser = p /\ call.at \in {"check", "shutdown", "close", "clear", "join"}

GoneIsJoined ==
  \A p \in Parsers :
    p \in destroyed \/ (call.parser = p /\ call.at = "return") => ~joinable[p]

IInv ==
  TypeOK /\ OwnsSockfd /\ AliveIsJoinable /\ StoppedIsJoined /\ GoneIsJoined /\ NoAbort

\* end_loop returns, on a quiet network too, and with a callback waiting for
\* the GIL (parser.cc:75, pybind.cpp:272-276).
EndLoopReturns == call.name = "end_loop" ~> call = Idle

\* So does the destructor, which calls end_loop (parser.cc:19-21).
DestructorReturns == call.name = "destructor" ~> call = Idle
=============================================================================
