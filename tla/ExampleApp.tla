------------------------------ MODULE ExampleApp ------------------------------
(***************************************************************************)
(* The example program (src/example/taifex_resolver_interface.cc): two     *)
(* parsers that feed one OrderBookManager, callbacks that write to the     *)
(* Logger singleton (src/include/logger.h), a main thread that waits for   *)
(* SIGINT and then shuts down.  The parsers and their threads are those of *)
(* Lifecycle; the calls come in the order of main().                       *)
(***************************************************************************)
EXTENDS Lifecycle, Sequences

CONSTANTS parser, snapshot_parser, book_mgr, logger

ASSUME ExampleAssumption ==
  /\ Parsers = {parser, snapshot_parser} /\ parser # snapshot_parser
  /\ book_mgr # logger
  /\ MaxStarts > 0
  /\ ~Python

VARIABLES
  keep_running,  \* cleared by the signal handler
  pc,            \* the next step of main()
  gone           \* the objects, other than parsers, that are destroyed

example == <<vars, keep_running, pc, gone>>

Run(what, on) == [what |-> what, on |-> on]

\* main(), from the first start_loop on; locals die in reverse order of their
\* declaration, the singleton after them.
\* Faulty: the snapshot parser is left to its destructor.
Script_bug ==
  <<Run("start", parser), Run("start", snapshot_parser), Run("wait", Nobody),
    Run("end_loop", parser),
    Run("delete", book_mgr), Run("destroy", snapshot_parser), Run("destroy", parser),
    Run("delete", logger)>>

Script ==
  <<Run("start", parser), Run("start", snapshot_parser), Run("wait", Nobody),
    Run("end_loop", parser), Run("end_loop", snapshot_parser),
    Run("delete", book_mgr), Run("destroy", snapshot_parser), Run("destroy", parser),
    Run("delete", logger)>>

\* One step of main(); a call on a parser takes the steps of Lifecycle.
Do(step) ==
  \/ step.what = "start" /\ start_loop(step.on) /\ UNCHANGED gone
  \/ step.what = "wait" /\ ~keep_running /\ UNCHANGED <<vars, gone>>
  \/ step.what = "end_loop" /\ end_loop(step.on) /\ UNCHANGED gone
  \/ step.what = "destroy" /\ destroy(step.on) /\ UNCHANGED gone
  \/ step.what = "delete" /\ gone' = gone \cup {step.on} /\ UNCHANGED vars

MainStep ==
  /\ call = Idle
  /\ pc <= Len(Script)
  /\ Do(Script[pc])
  /\ pc' = pc + 1
  /\ UNCHANGED keep_running

\* Ctrl+C: the handler only clears the flag, which main polls.
signal_handler ==
  /\ keep_running
  /\ keep_running' = FALSE
  /\ UNCHANGED <<vars, pc, gone>>

Inside == (CallStep \/ Receive) /\ UNCHANGED <<keep_running, pc, gone>>

ExampleInit == Init /\ keep_running = TRUE /\ pc = 1 /\ gone = {}

ExampleNext == MainStep \/ signal_handler \/ Inside

ExampleSpec == ExampleInit /\ [][ExampleNext]_example
-----------------------------------------------------------------------------
Steps(A) == A /\ UNCHANGED <<keep_running, pc, gone>>

\* The threads of the process run; the network may be silent.
QuietSpec ==
  /\ ExampleSpec
  /\ WF_example(MainStep)
  /\ WF_example(Steps(CallStep))
  /\ \A p \in Parsers : WF_example(Steps(ReceiveStep(p)))

\* The exchange sends heartbeats: a socket that is read gets a datagram.
TrafficSpec ==
  /\ QuietSpec
  /\ \A p \in Parsers : SF_example(Steps(Arrive(p)))
-----------------------------------------------------------------------------
\* While a receive thread lives, the manager it feeds and the logger its
\* callbacks write to exist (parser.h:165-166, "The manager must outlive the
\* parser's receive loop"), although main() declares the manager after the
\* parsers, so that it dies first.
ResourcesOutlive == \A p \in Parsers : Alive(p) => gone = {}

\* Main has run its script to the end.
Returned == pc = Len(Script) + 1 /\ call = Idle

\* After Ctrl+C the program ends (taifex_resolver_interface.cc:350).
MainReturns == ~keep_running ~> Returned
=============================================================================
