------------------------------- MODULE Framing -------------------------------
(***************************************************************************)
(* How TaifexParser cuts a datagram into messages and checks each one:     *)
(* process_datagram, the test at the head of process_raw_data, and         *)
(* verify_checksum (src/src/parser.cc), against an exchange that sends     *)
(* several messages in a datagram and a network that may damage one byte.  *)
(*                                                                         *)
(* A byte is the set of its bits.  Positions count from 1, the code's from *)
(* 0.                                                                      *)
(***************************************************************************)
EXTENDS Integers, Sequences, FiniteSets

CONSTANTS
  Bits,
  ESC, CR, LF,   \* ESC_CODE and the terminator, 0x1B, 0x0D and 0x0A
  Bodies,        \* headers with bodies, from the byte after ESC to the checksum
  MinLength,     \* process_raw_data's 20
  MaxMessages,   \* bound on the messages of a datagram
  Damages        \* the bytes a damaged one may turn into

Byte == SUBSET Bits

\* The bytes are text and BCD digits, none of which is ESC, CR or LF, but for one:
\* I024's display_item, a count with a flag, which has any value and is followed
\* by quantities (parser.cc:215-235).
AllButOneAreText(body) ==
  \E c \in 0 .. Len(body) - 1 :
    \A k \in 1 .. Len(body) : k # c => body[k] \notin {ESC, CR, LF}

ASSUME FramingAssumption ==
  /\ {ESC, CR, LF} \subseteq Byte
  /\ ESC \notin {CR, LF} /\ CR # LF /\ CR # {}
  /\ MinLength \in Nat /\ MinLength >= 4
  /\ \A body \in Bodies :
       body \in Seq(Byte) /\ Len(body) + 4 >= MinLength /\ AllButOneAreText(body)
  /\ Damages \subseteq Byte
  /\ MaxMessages \in Nat

VARIABLES
  sent,       \* the bytes the exchange sent in this datagram
  messages,   \* its messages, by first and last byte
  datagram,   \* the bytes received
  i,          \* the loop's i
  start_pos,  \* start_pos
  pieces      \* what was passed to process_raw_data, by first and last byte

vars == <<sent, messages, datagram, i, start_pos, pieces>>

\* The exclusive or of the bytes from first to last: it has the bits that an odd
\* number of them have.
xor_from(data, first, last) ==
  {bit \in Bits : Cardinality({k \in first .. last : bit \in data[k]}) % 2 = 1}

\* The bytes between the first and the checksum, which is the third from last.
\* Faulty: the first one is counted in.
verify_checksum_bug(data, first, last) ==
  xor_from(data, first, last - 3) = data[last - 2]

verify_checksum(data, first, last) ==
  xor_from(data, first + 1, last - 3) = data[last - 2]

\* Faulty: any first byte will do.
process_raw_data_bug(data, first, last) ==
  /\ last - first + 1 >= MinLength
  /\ verify_checksum(data, first, last)

process_raw_data(data, first, last) ==
  /\ last - first + 1 >= MinLength
  /\ data[first] = ESC
  /\ verify_checksum(data, first, last)

\* What the parser takes for messages.
Accepted == {p \in pieces : process_raw_data(datagram, p.first, p.last)}
-----------------------------------------------------------------------------
(***************************************************************************)
(* The exchange and the network                                            *)
(***************************************************************************)
Message(body) ==
  <<ESC>> \o body \o <<xor_from(body, 1, Len(body)), CR, LF>>

Received == i # 0

Send(body) ==
  /\ ~Received
  /\ sent = datagram
  /\ Cardinality(messages) < MaxMessages
  /\ sent' = sent \o Message(body)
  /\ datagram' = sent'
  /\ messages' = messages \cup {[first |-> Len(sent) + 1, last |-> Len(sent')]}
  /\ UNCHANGED <<i, start_pos, pieces>>

Damage(k, byte) ==
  /\ ~Received
  /\ sent = datagram
  /\ datagram' = [datagram EXCEPT ![k] = byte]
  /\ UNCHANGED <<sent, messages, i, start_pos, pieces>>
-----------------------------------------------------------------------------
(***************************************************************************)
(* process_datagram                                                        *)
(***************************************************************************)
process_datagram ==
  /\ ~Received
  /\ Len(datagram) >= 2
  /\ i' = 1
  /\ start_pos' = 1
  /\ UNCHANGED <<sent, messages, datagram, pieces>>

IsTerminator(k) == datagram[k] = CR /\ datagram[k + 1] = LF

\* The next piece starts after the terminator.  Faulty: at its last byte.
AfterTerminator_bug(k) == k + 1
AfterTerminator(k) == k + 2

\* One iteration of the loop.
Scan ==
  /\ Received
  /\ i < Len(datagram)
  /\ i' = i + 1
  /\ IF IsTerminator(i)
     THEN /\ pieces' = pieces \cup {[first |-> start_pos, last |-> i + 1]}
          /\ start_pos' = AfterTerminator(i)
     ELSE UNCHANGED <<start_pos, pieces>>
  /\ UNCHANGED <<sent, messages, datagram>>
-----------------------------------------------------------------------------
Init ==
  /\ sent = <<>> /\ datagram = <<>>
  /\ messages = {}
  /\ i = 0 /\ start_pos = 0
  /\ pieces = {}

Next ==
  \/ \E body \in Bodies : Send(body)
  \/ \E k \in 1 .. Len(datagram), byte \in Damages : Damage(k, byte)
  \/ process_datagram
  \/ Scan

Spec == Init /\ [][Next]_vars
-----------------------------------------------------------------------------
TypeOK ==
  /\ sent \in Seq(Byte) /\ datagram \in Seq(Byte)
  /\ messages \subseteq [first : Nat, last : Nat]
  /\ i \in Nat /\ start_pos \in Nat
  /\ i <= Len(datagram)
  /\ pieces \subseteq [first : Nat, last : Nat]

\* The pieces handed on so far tile what lies before start_pos: every byte is in
\* exactly one of them, each ends with the terminator and has no other inside,
\* and no terminator was passed over (parser.cc:146-152).
PiecesTile ==
  Received =>
    /\ start_pos \in 1 .. i + 1
    /\ \A k \in 1 .. start_pos - 1 : \E p \in pieces : k \in p.first .. p.last
    /\ \A p, q \in pieces : p = q \/ p.last < q.first \/ q.last < p.first
    /\ \A p \in pieces :
         /\ 1 <= p.first /\ p.first < p.last /\ p.last < start_pos
         /\ \A k \in p.first .. p.last - 1 : IsTerminator(k) <=> k = p.last - 1
    /\ \A k \in start_pos .. i - 1 : ~IsTerminator(k)

\* The inductive invariant, all of which is about process_datagram's loop.
IInv == TypeOK /\ PiecesTile /\ (Received \/ pieces = {})

Damaged == {k \in 1 .. Len(sent) : sent[k] # datagram[k]}
Done == Received /\ i = Len(datagram)

\* A damaged byte costs at most the message it is in, and the next one when it
\* is in a terminator; the others are all accepted, whatever their checksum
\* and display_item, the bytes of the terminator included (parser.cc:147-151,
\* 156-157).
OthersArrive ==
  Done =>
    \A m \in messages :
      Damaged \cap (m.first - 2 .. m.last) = {} => m \in Accepted

\* The message is cut where a body byte that is CR or LF makes a terminator with
\* the damaged byte beside it.
IsCut(p, m) ==
  \E k \in {p.last - 1, p.last} :
    /\ k \in m.first + 1 .. m.last - 3 /\ sent[k] \in {CR, LF}
    /\ Damaged = {p.last - 1, p.last} \ {k}

\* What is accepted was sent: it starts where a message starts, and agrees with
\* it up to the checksum, with one byte damaged.  There is one exception, a
\* message cut at its display_item whose first bytes happen to end with their own
\* checksum (parser.cc:40-47, 148, 156-160).
SentOrCut ==
  \A p \in Accepted :
    \E m \in messages :
      /\ p.first = m.first
      /\ \/ p.last >= m.last /\ Damaged \cap (m.first .. m.last - 2) = {}
         \/ IsCut(p, m)
=============================================================================
