---------------------------- MODULE FramingProofs ----------------------------
(***************************************************************************)
(* The cutting of datagrams, for every length and every content, and what  *)
(* the checksum detects.                                                   *)
(***************************************************************************)
EXTENDS Framing, FiniteSetTheorems, SequenceTheorems, TLAPS

LEMMA XorType == \A data, first, last : xor_from(data, first, last) \in Byte
BY DEF xor_from, Byte

LEMMA MessageType ==
  ASSUME NEW body \in Bodies
  PROVE  Message(body) \in Seq(Byte)
<1>1. body \in Seq(Byte)
  BY FramingAssumption
<1>2. <<xor_from(body, 1, Len(body)), CR, LF>> \in Seq(Byte)
  BY XorType, FramingAssumption
<1>3. <<ESC>> \in Seq(Byte)
  BY FramingAssumption
<1> QED BY <1>1, <1>2, <1>3 DEF Message

LEMMA InitHasInv == Init => IInv
<1>1. <<>> \in Seq(Byte)
  OBVIOUS
<1> QED BY <1>1 DEF Init, IInv, TypeOK, PiecesTile, Received
-----------------------------------------------------------------------------
(***************************************************************************)
(* The loop                                                                *)
(***************************************************************************)
LEMMA ScanStep == ASSUME IInv, Scan PROVE IInv'
<1>1. /\ Received /\ i < Len(datagram) /\ i' = i + 1
      /\ UNCHANGED <<sent, messages, datagram>> /\ Received'
  BY DEF Scan, Received, IInv, TypeOK
<1>2. /\ i \in Nat \ {0} /\ start_pos \in Nat /\ pieces \subseteq [first : Nat, last : Nat]
      /\ Len(datagram) \in Nat
  BY <1>1 DEF IInv, TypeOK, Received
<1>3. \A k : IsTerminator(k)' <=> IsTerminator(k)
  BY <1>1 DEF IsTerminator
<1>4. /\ start_pos \in 1 .. i + 1
      /\ \A k \in 1 .. start_pos - 1 : \E p \in pieces : k \in p.first .. p.last
      /\ \A p, q \in pieces : p = q \/ p.last < q.first \/ q.last < p.first
      /\ \A p \in pieces :
           /\ 1 <= p.first /\ p.first < p.last /\ p.last < start_pos
           /\ \A k \in p.first .. p.last - 1 : IsTerminator(k) <=> k = p.last - 1
      /\ \A k \in start_pos .. i - 1 : ~IsTerminator(k)
  BY <1>1 DEF IInv, PiecesTile
<1>5. CASE IsTerminator(i)
  <2> DEFINE new == [first |-> start_pos, last |-> i + 1]
  <2>1. pieces' = pieces \cup {new} /\ start_pos' = i + 2
    BY <1>5 DEF Scan, AfterTerminator
  <2>2. start_pos # i + 1
    <3> SUFFICES ASSUME start_pos = i + 1 PROVE FALSE
      OBVIOUS
    <3>1. PICK p \in pieces : i \in p.first .. p.last
      BY <1>2, <1>4
    <3>2. p.last = i /\ p.first \in Nat /\ p.first < p.last
      BY <1>2, <1>4, <3>1
    <3>3. IsTerminator(i - 1)
      <4>1. p.last - 1 \in p.first .. p.last - 1
        BY <1>2, <3>2
      <4> QED BY <1>4, <3>2, <4>1
    <3>4. datagram[i] = LF
      <4>1. i - 1 + 1 = i
        BY <1>2
      <4> QED BY <3>3, <4>1 DEF IsTerminator
    <3> QED BY <1>5, <3>4, FramingAssumption DEF IsTerminator
  <2>3. start_pos \in 1 .. i
    BY <1>2, <1>4, <2>2
  <2>4. TypeOK'
    <3>1. new \in [first : Nat, last : Nat]
      BY <1>2
    <3>2. i' \in Nat /\ start_pos' \in Nat /\ i' <= Len(datagram)
      BY <1>1, <1>2, <2>1
    <3> HIDE DEF new
    <3> QED BY <1>1, <1>2, <2>1, <3>1, <3>2 DEF IInv, TypeOK
  <2>5. start_pos' \in 1 .. i' + 1
    BY <1>1, <1>2, <2>1
  <2>6. ASSUME NEW k \in 1 .. start_pos' - 1
        PROVE  \E p \in pieces' : k \in p.first .. p.last
    <3>1. CASE k < start_pos
      <4>1. k \in 1 .. start_pos - 1
        BY <1>2, <2>1, <3>1
      <4>2. PICK p \in pieces : k \in p.first .. p.last
        BY <1>4, <4>1
      <4> QED BY <2>1, <4>2
    <3>2. CASE k >= start_pos
      <4>1. k \in new.first .. new.last
        BY <1>2, <2>1, <3>2
      <4> QED BY <2>1, <4>1
    <3> QED BY <1>2, <3>1, <3>2
  <2>7. ASSUME NEW p \in pieces', NEW q \in pieces'
        PROVE  p = q \/ p.last < q.first \/ q.last < p.first
    <3>1. \A r \in pieces : r.last < new.first
      BY <1>4
    <3> HIDE DEF new
    <3> QED BY <1>4, <2>1, <3>1
  <2>8. ASSUME NEW p \in pieces'
        PROVE  /\ 1 <= p.first /\ p.first < p.last /\ p.last < start_pos'
               /\ \A k \in p.first .. p.last - 1 : IsTerminator(k) <=> k = p.last - 1
    <3>1. CASE p \in pieces
      <4>1. 1 <= p.first /\ p.first < p.last /\ p.last < start_pos /\ p.last \in Nat
        BY <1>2, <1>4, <3>1
      <4>2. p.last < start_pos'
        BY <1>2, <2>1, <2>3, <4>1
      <4> QED BY <1>4, <3>1, <4>1, <4>2
    <3>2. CASE p = new
      <4>1. p.first = start_pos /\ p.last = i + 1
        BY <3>2
      <4>2. ASSUME NEW k \in start_pos .. i
            PROVE  IsTerminator(k) <=> k = i
        <5>1. CASE k = i
          BY <1>5, <5>1
        <5>2. CASE k # i
          <6>1. k \in start_pos .. i - 1
            BY <1>2, <4>2, <5>2
          <6> QED BY <1>4, <5>2, <6>1
        <5> QED BY <5>1, <5>2
      <4>3. p.last - 1 = i
        BY <1>2, <4>1
      <4>4. 1 <= p.first /\ p.first < p.last /\ p.last < start_pos'
        BY <1>2, <2>1, <2>3, <4>1
      <4> QED BY <4>1, <4>2, <4>3, <4>4
    <3> QED BY <2>1, <3>1, <3>2
  <2>9. \A k \in start_pos' .. i' - 1 : ~IsTerminator(k)
    BY <1>1, <1>2, <2>1
  <2>10. PiecesTile'
    BY <1>3, <2>5, <2>6, <2>7, <2>8, <2>9 DEF PiecesTile
  <2> QED BY <1>1, <2>4, <2>10 DEF IInv
<1>6. CASE ~IsTerminator(i)
  <2>1. UNCHANGED <<start_pos, pieces>>
    BY <1>6 DEF Scan
  <2>2. TypeOK'
    BY <1>1, <1>2, <2>1 DEF IInv, TypeOK
  <2>3. ASSUME NEW k \in start_pos .. i' - 1
        PROVE  ~IsTerminator(k)
    BY <1>1, <1>2, <1>4, <1>6
  <2>4. start_pos' \in 1 .. i' + 1
    BY <1>1, <1>2, <1>4, <2>1
  <2>5. PiecesTile'
    BY <1>3, <1>4, <2>1, <2>3, <2>4 DEF PiecesTile
  <2> QED BY <1>1, <2>2, <2>5 DEF IInv
<1> QED BY <1>5, <1>6
-----------------------------------------------------------------------------
LEMMA StepKeepsInv == IInv /\ [Next]_vars => IInv'
<1> SUFFICES ASSUME IInv, [Next]_vars PROVE IInv'
  OBVIOUS
<1>1. ASSUME NEW body \in Bodies, Send(body)
      PROVE  IInv'
  <2>1. /\ sent' = sent \o Message(body) /\ datagram' = sent' /\ ~Received
        /\ messages' = messages \cup {[first |-> Len(sent) + 1, last |-> Len(sent')]}
        /\ UNCHANGED <<i, start_pos, pieces>>
    BY <1>1 DEF Send
  <2>2. sent' \in Seq(Byte) /\ Len(sent) \in Nat
    BY <2>1, MessageType DEF IInv, TypeOK
  <2>3. i = 0 /\ ~Received'
    BY <2>1 DEF Received
  <2>4. i' <= Len(datagram')
    BY <2>1, <2>2, <2>3
  <2>5. messages' \subseteq [first : Nat, last : Nat]
    <3>1. [first |-> Len(sent) + 1, last |-> Len(sent')] \in [first : Nat, last : Nat]
      BY <2>2
    <3>2. messages \subseteq [first : Nat, last : Nat]
      BY DEF IInv, TypeOK
    <3> QED BY <2>1, <3>1, <3>2
  <2>6. datagram' \in Seq(Byte)
    BY <2>1, <2>2
  <2>7. TypeOK'
    BY <2>1, <2>2, <2>4, <2>5, <2>6 DEF IInv, TypeOK
  <2> QED BY <2>1, <2>3, <2>7 DEF IInv, PiecesTile
<1>2. ASSUME NEW k \in 1 .. Len(datagram), NEW byte \in Damages, Damage(k, byte)
      PROVE  IInv'
  <2>1. /\ datagram' = [datagram EXCEPT ![k] = byte] /\ ~Received
        /\ UNCHANGED <<sent, messages, i, start_pos, pieces>>
    BY <1>2 DEF Damage
  <2>2. datagram' \in Seq(Byte) /\ Len(datagram') = Len(datagram)
    BY <2>1, FramingAssumption DEF IInv, TypeOK
  <2>3. ~Received'
    BY <2>1 DEF Received
  <2> QED BY <2>1, <2>2, <2>3 DEF IInv, TypeOK, PiecesTile
<1>3. CASE process_datagram
  <2>1. /\ i' = 1 /\ start_pos' = 1 /\ Len(datagram) >= 2 /\ ~Received
        /\ UNCHANGED <<sent, messages, datagram, pieces>>
    BY <1>3 DEF process_datagram
  <2>2. i' - 1 = 0 /\ start_pos' - 1 = 0 /\ Len(datagram) \in Nat
    BY <2>1 DEF IInv, TypeOK
  <2>3. PiecesTile'
    BY <2>1, <2>2 DEF IInv, PiecesTile
  <2>4. TypeOK'
    BY <2>1, <2>2 DEF IInv, TypeOK
  <2> QED BY <2>1, <2>3, <2>4 DEF IInv, Received
<1>4. CASE Scan
  BY <1>4, ScanStep
<1>5. CASE UNCHANGED vars
  BY <1>5 DEF vars, IInv, TypeOK, PiecesTile, Received, IsTerminator
<1> QED BY <1>1, <1>2, <1>3, <1>4, <1>5 DEF Next

\* The pieces tile the datagram, for every datagram.
THEOREM InvariantHolds == Spec => []IInv
BY InitHasInv, StepKeepsInv, PTL DEF Spec
-----------------------------------------------------------------------------
(***************************************************************************)
(* The checksum                                                            *)
(***************************************************************************)
\* Adding a position, or removing one, changes the parity.
LEMMA ParityFlips ==
  ASSUME NEW S, NEW T, IsFiniteSet(S), NEW k, k \notin S, T = S \cup {k}
  PROVE  (Cardinality(T) % 2 = 1) # (Cardinality(S) % 2 = 1)
<1>1. Cardinality(S) \in Nat /\ Cardinality(T) = Cardinality(S) + 1
  BY FS_AddElement, FS_CardinalityType
<1> QED BY <1>1

\* A message in which one byte was damaged, between its first and its
\* terminator, is refused, whatever its length (verify_checksum).
THEOREM SingleErrorDetected ==
  ASSUME NEW data \in Seq(Byte), NEW first \in Nat, NEW last \in Nat,
         1 <= first, first + 3 <= last, last <= Len(data),
         verify_checksum(data, first, last),
         NEW k \in first + 1 .. last - 2, NEW byte \in Byte, byte # data[k]
  PROVE  ~verify_checksum([data EXCEPT ![k] = byte], first, last)
<1> DEFINE damaged == [data EXCEPT ![k] = byte]
           With(d, bit) == {n \in first + 1 .. last - 3 : bit \in d[n]}
<1>1. /\ k \in 1 .. Len(data) /\ last - 2 \in 1 .. Len(data) /\ first + 1 \in Int /\ last - 3 \in Int
      /\ k \in Int
  OBVIOUS
<1>2. damaged[k] = byte /\ \A n \in 1 .. Len(data) : n # k => damaged[n] = data[n]
  BY <1>1
<1>3. data[k] \in Byte /\ data[last - 2] \in Byte
  BY <1>1
<1>4. CASE k = last - 2
  <2>1. ASSUME NEW bit \in Bits
        PROVE  With(damaged, bit) = With(data, bit)
    BY <1>1, <1>2, <1>4
  <2>2. xor_from(damaged, first + 1, last - 3) = xor_from(data, first + 1, last - 3)
    BY <2>1 DEF xor_from
  <2>3. damaged[last - 2] # data[last - 2]
    BY <1>2, <1>4
  <2> QED BY <2>2, <2>3 DEF verify_checksum
<1>5. CASE k # last - 2
  <2>1. PICK bit \in Bits : (bit \in byte) # (bit \in data[k])
    BY <1>3 DEF Byte
  <2>2. k \in first + 1 .. last - 3
    BY <1>1, <1>5
  <2>3. IsFiniteSet(With(data, bit)) /\ IsFiniteSet(With(damaged, bit))
    BY <1>1, FS_Interval, FS_Subset
  <2>4. (Cardinality(With(damaged, bit)) % 2 = 1) # (Cardinality(With(data, bit)) % 2 = 1)
    <3>1. CASE bit \in byte
      <4>1. k \notin With(data, bit) /\ With(damaged, bit) = With(data, bit) \cup {k}
        BY <1>1, <1>2, <2>1, <2>2, <3>1
      <4> HIDE DEF With
      <4> QED BY <2>3, <4>1, ParityFlips
    <3>2. CASE bit \notin byte
      <4>1. k \notin With(damaged, bit) /\ With(data, bit) = With(damaged, bit) \cup {k}
        BY <1>1, <1>2, <2>1, <2>2, <3>2
      <4> HIDE DEF With
      <4>2. (Cardinality(With(data, bit)) % 2 = 1) # (Cardinality(With(damaged, bit)) % 2 = 1)
        BY <2>3, <4>1, ParityFlips
      <4> QED BY <4>2
    <3> QED BY <3>1, <3>2
  <2>5. (bit \in xor_from(damaged, first + 1, last - 3)) # (bit \in xor_from(data, first + 1, last - 3))
    BY <2>4 DEF xor_from
  <2>6. damaged[last - 2] = data[last - 2]
    BY <1>1, <1>2, <1>5
  <2> QED BY <2>5, <2>6 DEF verify_checksum
<1> QED BY <1>4, <1>5
-----------------------------------------------------------------------------
(***************************************************************************)
(* The exclusive or                                                        *)
(***************************************************************************)
LEMMA XorSame ==
  ASSUME NEW d, NEW e, NEW first, NEW last, \A k \in first .. last : d[k] = e[k]
  PROVE  xor_from(d, first, last) = xor_from(e, first, last)
<1>1. ASSUME NEW bit \in Bits
      PROVE  {k \in first .. last : bit \in d[k]} = {k \in first .. last : bit \in e[k]}
  OBVIOUS
<1> QED BY <1>1 DEF xor_from

\* It does not depend on where the bytes are.
LEMMA XorShift ==
  ASSUME NEW d, NEW e, NEW len \in Nat, NEW n \in Nat,
         \A k \in 1 .. len : e[k + (n + 1)] = d[k]
  PROVE  xor_from(e, n + 2, n + 1 + len) = xor_from(d, 1, len)
<1> DEFINE S(bit) == {k \in 1 .. len : bit \in d[k]}
           T(bit) == {k \in n + 2 .. n + 1 + len : bit \in e[k]}
<1>1. ASSUME NEW bit \in Bits
      PROVE  Cardinality(T(bit)) = Cardinality(S(bit))
  <2> DEFINE f == [k \in S(bit) |-> k + (n + 1)]
  <2>1. IsFiniteSet(S(bit))
    <3>1. IsFiniteSet(1 .. len)
      BY FS_Interval
    <3> QED BY <3>1, FS_Subset
  <2>2. \A k \in S(bit) : k + (n + 1) \in T(bit)
    <3> SUFFICES ASSUME NEW k \in S(bit)
                 PROVE  k + (n + 1) \in T(bit)
      OBVIOUS
    <3>1. e[k + (n + 1)] = d[k]
      OBVIOUS
    <3> QED BY <3>1
  <2>3. \A l \in T(bit) : l - (n + 1) \in S(bit) /\ f[l - (n + 1)] = l
    <3> SUFFICES ASSUME NEW l \in T(bit)
                 PROVE  l - (n + 1) \in S(bit) /\ f[l - (n + 1)] = l
      OBVIOUS
    <3>1. PICK k \in 1 .. len : k = l - (n + 1) /\ k + (n + 1) = l
      OBVIOUS
    <3>2. e[k + (n + 1)] = d[k]
      OBVIOUS
    <3> QED BY <3>1, <3>2
  <2>4. f \in [S(bit) -> T(bit)]
    BY <2>2
  <2>5. \A k, l \in S(bit) : f[k] = f[l] => k = l
    OBVIOUS
  <2>6. f \in Bijection(S(bit), T(bit))
    <3> HIDE DEF S, T, f
    <3> QED BY <2>3, <2>4, <2>5 DEF Bijection, Injection, Surjection, IsInjective
  <2> QED BY <2>1, <2>6, FS_Bijection DEF ExistsBijection
<1> QED BY <1>1 DEF xor_from

\* One more byte flips the bits that it has.
LEMMA XorAppend ==
  ASSUME NEW d, NEW first \in Int, NEW last \in Int, NEW before \in Int,
         first <= last, before = last - 1, NEW bit \in Bits
  PROVE  (bit \in xor_from(d, first, last)) <=>
           ~((bit \in xor_from(d, first, before)) <=> (bit \in d[last]))
<1> DEFINE S == {k \in first .. before : bit \in d[k]}
           T == {k \in first .. last : bit \in d[k]}
<1>1. IsFiniteSet(S)
  <2>1. IsFiniteSet(first .. before)
    BY FS_Interval
  <2> QED BY <2>1, FS_Subset
<1>2. CASE bit \in d[last]
  <2>1. T = S \cup {last} /\ last \notin S
    BY <1>2
  <2>2. (Cardinality(T) % 2 = 1) # (Cardinality(S) % 2 = 1)
    <3> HIDE DEF S, T
    <3> QED BY <1>1, <2>1, ParityFlips
  <2> QED BY <1>2, <2>2 DEF xor_from
<1>3. CASE bit \notin d[last]
  <2>1. T = S
    BY <1>3
  <2> QED BY <1>3, <2>1 DEF xor_from
<1> QED BY <1>2, <1>3

\* Bytes that are followed by their checksum add up to nothing.
LEMMA XorOfSum ==
  ASSUME NEW d, NEW first \in Int, NEW last \in Int, NEW before \in Int,
         first <= last, before = last - 1, xor_from(d, first, before) = d[last]
  PROVE  xor_from(d, first, last) = {}
<1>1. \A bit \in Bits : bit \notin xor_from(d, first, last)
  BY XorAppend
<1> QED BY <1>1 DEF xor_from
-----------------------------------------------------------------------------
(***************************************************************************)
(* What is on the wire                                                     *)
(***************************************************************************)
\* All but one of the bytes from ESC to the checksum are text, and the last one is.
OnlyRaw(m, c) ==
  \A k \in m.first + 1 .. m.last - 3 : k # c => sent[k] \notin {ESC, CR, LF}

IsMessage(m) ==
  /\ sent[m.first] = ESC
  /\ \E c \in m.first .. m.last - 4 : OnlyRaw(m, c)
  /\ sent[m.last - 2] = xor_from(sent, m.first + 1, m.last - 3)
  /\ sent[m.last - 1] = CR /\ sent[m.last] = LF

\* The exchange sends messages one after the other; of what it sent, all but
\* one byte arrive.
MessagesSent ==
  \A m \in messages :
    /\ 1 <= m.first /\ m.first + 4 <= m.last /\ m.last <= Len(sent)
    /\ m.last - m.first + 1 >= MinLength
    /\ IsMessage(m)

NothingBetween ==
  \A k \in 1 .. Len(sent) : \E m \in messages : k \in m.first .. m.last

NoneOverlap ==
  \A m, o \in messages : m = o \/ m.last < o.first \/ o.last < m.first

OneDamaged ==
  /\ Len(datagram) = Len(sent)
  /\ \E d \in Nat : \A k \in 1 .. Len(sent) : k # d => datagram[k] = sent[k]

WireOK == MessagesSent /\ NothingBetween /\ NoneOverlap /\ OneDamaged

\* What Send appends is a message.
LEMMA SendMessage ==
  ASSUME IInv, NEW body \in Bodies, sent' = sent \o Message(body)
  PROVE  \E n \in Nat, l \in Nat :
           /\ n = Len(sent) /\ l = Len(sent')
           /\ n + 5 <= l /\ l - n >= MinLength
           /\ \A k \in 1 .. n : sent'[k] = sent[k]
           /\ \A m \in [first : Nat, last : Nat] :
                m.first = n + 1 /\ m.last = l => IsMessage(m)'
<1>0. PICK n \in Nat : n = Len(sent)
  BY DEF IInv, TypeOK
<1>20. PICK B \in Nat : B = Len(body) /\ B + 4 >= MinLength
  BY FramingAssumption
<1>21. PICK c \in 0 .. B - 1 : \A k \in 1 .. B : k # c => body[k] \notin {ESC, CR, LF}
  BY <1>20, FramingAssumption DEF AllButOneAreText
<1> DEFINE checksum == xor_from(body, 1, B)
           foot == <<checksum, CR, LF>>
<1>1. /\ sent \in Seq(Byte) /\ n \in Nat /\ B \in Nat /\ MinLength \in Nat
      /\ ESC \in Byte /\ 1 <= B
  BY <1>21, FramingAssumption DEF IInv, TypeOK
<1>2. body \in Seq(Byte) /\ Len(body) = B
  BY <1>20, FramingAssumption
<1>3. foot \in Seq(Byte) /\ Len(foot) = 3 /\ foot[1] = checksum /\ foot[2] = CR /\ foot[3] = LF
  BY XorType, FramingAssumption
<1>4. <<ESC>> \in Seq(Byte) /\ Len(<<ESC>>) = 1 /\ <<ESC>>[1] = ESC
  BY <1>1
<1> HIDE DEF foot
<1>5. /\ <<ESC>> \o body \in Seq(Byte) /\ Len(<<ESC>> \o body) = B + 1
      /\ (<<ESC>> \o body)[1] = ESC
      /\ \A k \in 1 .. B : (<<ESC>> \o body)[k + 1] = body[k]
  BY <1>1, <1>2, <1>4, ConcatProperties
<1>6. PICK m \in Seq(Byte) :
        /\ m = Message(body) /\ Len(m) = B + 4 /\ m[1] = ESC
        /\ \A k \in 1 .. B : m[k + 1] = body[k]
        /\ m[B + 2] = checksum /\ m[B + 3] = CR /\ m[B + 4] = LF
  <2> DEFINE h == <<ESC>> \o body
  <2>1. h \o foot = Message(body)
    BY <1>2 DEF Message, foot
  <2> HIDE DEF h
  <2>2. h \in Seq(Byte) /\ Len(h) = B + 1 /\ h[1] = ESC /\ \A k \in 1 .. B : h[k + 1] = body[k]
    BY <1>5 DEF h
  <2>3. /\ h \o foot \in Seq(Byte) /\ Len(h \o foot) = B + 4
        /\ \A k \in 1 .. B + 4 : (h \o foot)[k] = IF k <= B + 1 THEN h[k] ELSE foot[k - (B + 1)]
    <3>1. Len(h) + Len(foot) = B + 4
      BY <1>1, <1>3, <2>2
    <3>2. /\ h \o foot \in Seq(Byte) /\ Len(h \o foot) = Len(h) + Len(foot)
          /\ \A k \in 1 .. Len(h) + Len(foot) :
               (h \o foot)[k] = IF k <= Len(h) THEN h[k] ELSE foot[k - Len(h)]
      BY <1>3, <2>2, ConcatProperties
    <3> QED BY <2>2, <3>1, <3>2
  <2>4. /\ (h \o foot)[1] = ESC /\ \A k \in 1 .. B : (h \o foot)[k + 1] = body[k]
        /\ (h \o foot)[B + 2] = checksum /\ (h \o foot)[B + 3] = CR /\ (h \o foot)[B + 4] = LF
    BY <1>1, <1>3, <2>2, <2>3
  <2> QED BY <2>1, <2>3, <2>4
<1>7. /\ Len(sent') = n + B + 4
      /\ \A k \in 1 .. n + B + 4 : sent'[k] = IF k <= n THEN sent[k] ELSE m[k - n]
  <2>1. /\ sent \o m \in Seq(Byte) /\ Len(sent \o m) = Len(sent) + Len(m)
        /\ \A k \in 1 .. Len(sent) + Len(m) :
             (sent \o m)[k] = IF k <= Len(sent) THEN sent[k] ELSE m[k - Len(sent)]
    BY <1>1, ConcatProperties
  <2>2. sent' = sent \o m /\ Len(sent) + Len(m) = n + B + 4
    BY <1>0, <1>1, <1>6
  <2> QED BY <1>0, <2>1, <2>2
<1>8. /\ sent'[n + 1] = ESC /\ \A k \in 1 .. B : sent'[k + (n + 1)] = body[k]
      /\ sent'[n + B + 2] = checksum /\ sent'[n + B + 3] = CR /\ sent'[n + B + 4] = LF
  <2>1. ASSUME NEW k \in 1 .. B + 4
        PROVE  sent'[k + n] = m[k]
    <3>1. PICK j \in 1 .. n + B + 4 : j = k + n /\ ~(j <= n) /\ j - n = k
      BY <1>1
    <3>2. sent'[j] = m[j - n]
      BY <1>7, <3>1
    <3> QED BY <3>1, <3>2
  <2>2. ASSUME NEW k \in 1 .. B
        PROVE  sent'[k + (n + 1)] = body[k]
    <3>1. PICK j \in 1 .. B + 4 : j = k + 1 /\ k + (n + 1) = j + n
      BY <1>1
    <3>2. sent'[j + n] = m[j]
      BY <2>1
    <3> QED BY <1>6, <3>1, <3>2
  <2>3. /\ sent'[1 + n] = m[1] /\ sent'[(B + 2) + n] = m[B + 2]
        /\ sent'[(B + 3) + n] = m[B + 3] /\ sent'[(B + 4) + n] = m[B + 4]
    <3>1. {1, B + 2, B + 3, B + 4} \subseteq 1 .. B + 4
      BY <1>1
    <3> QED BY <2>1, <3>1, Zenon
  <2>4. /\ 1 + n = n + 1 /\ (B + 2) + n = n + B + 2
        /\ (B + 3) + n = n + B + 3 /\ (B + 4) + n = n + B + 4
    BY <1>1
  <2> QED BY <1>6, <2>2, <2>3, <2>4
<1>9. \A k \in n + 2 .. n + 1 + B : k # c + (n + 1) => sent'[k] \notin {ESC, CR, LF}
  <2> SUFFICES ASSUME NEW k \in n + 2 .. n + 1 + B, k # c + (n + 1)
               PROVE  sent'[k] \notin {ESC, CR, LF}
    OBVIOUS
  <2>1. PICK j \in 1 .. B : j + (n + 1) = k /\ j # c
    <3>1. k - n - 1 \in 1 .. B /\ (k - n - 1) + (n + 1) = k /\ k - n - 1 # c
      BY <1>1, <1>21
    <3> QED BY <3>1
  <2>2. sent'[j + (n + 1)] = body[j]
    BY <1>8
  <2> QED BY <1>21, <2>1, <2>2
<1>10. xor_from(sent', n + 2, n + 1 + B) = checksum
  BY <1>1, <1>8, XorShift, Zenon DEF checksum
<1>11. ASSUME NEW o \in [first : Nat, last : Nat], o.first = n + 1, o.last = n + B + 4
       PROVE  IsMessage(o)'
  <2>1. /\ o.first + 1 = n + 2 /\ o.last - 3 = n + 1 + B /\ o.last - 2 = n + B + 2
        /\ o.last - 1 = n + B + 3
        /\ c + (n + 1) \in o.first .. o.last - 4
    BY <1>1, <1>11, <1>21
  <2>2. OnlyRaw(o, c + (n + 1))'
    BY <1>9, <2>1 DEF OnlyRaw
  <2>3. \E k \in o.first .. o.last - 4 : OnlyRaw(o, k)'
    BY <2>1, <2>2
  <2>4. sent'[o.last - 2] = xor_from(sent', o.first + 1, o.last - 3)
    BY <1>8, <1>10, <2>1
  <2>5. sent'[o.first] = ESC /\ sent'[o.last - 1] = CR /\ sent'[o.last] = LF
    BY <1>8, <1>11, <2>1
  <2> QED BY <2>3, <2>4, <2>5 DEF IsMessage
<1>12. \A k \in 1 .. n : sent'[k] = sent[k]
  BY <1>1, <1>7
<1>13. PICK l \in Nat : l = n + B + 4
  BY <1>1
<1>14. n + 5 <= l /\ l - n >= MinLength
  BY <1>1, <1>13, <1>20
<1> QED BY <1>0, <1>7, <1>11, <1>12, <1>13, <1>14

LEMMA Bounds ==
  ASSUME IInv, WireOK
  PROVE  /\ Len(sent) \in Nat /\ Len(datagram) = Len(sent)
         /\ MinLength \in Nat /\ MinLength >= 4
         /\ \A m \in messages :
              /\ m.first \in Nat /\ m.last \in Nat
              /\ 1 <= m.first /\ m.first + 4 <= m.last /\ m.last <= Len(sent)
              /\ m.last - m.first + 1 >= MinLength
              /\ IsMessage(m)
         /\ \A k \in 1 .. Len(sent) : sent[k] \in Byte /\ datagram[k] \in Byte
<1>1. /\ sent \in Seq(Byte) /\ datagram \in Seq(Byte)
      /\ messages \subseteq [first : Nat, last : Nat]
  BY DEF IInv, TypeOK
<1>2. Len(datagram) = Len(sent) /\ Len(sent) \in Nat
  BY <1>1 DEF WireOK, OneDamaged
<1>3. MinLength \in Nat /\ MinLength >= 4
  BY FramingAssumption
<1> QED BY <1>1, <1>2, <1>3 DEF WireOK, MessagesSent

LEMMA WireStep == IInv /\ WireOK /\ [Next]_vars => WireOK'
<1> SUFFICES ASSUME IInv, WireOK, [Next]_vars
             PROVE  WireOK'
  OBVIOUS
<1>1. /\ Len(sent) \in Nat /\ MinLength \in Nat
      /\ \A m \in messages :
           /\ m.first \in Nat /\ m.last \in Nat
           /\ 1 <= m.first /\ m.first + 4 <= m.last /\ m.last <= Len(sent)
           /\ m.last - m.first + 1 >= MinLength
           /\ IsMessage(m)
  BY Bounds
<1>2. ASSUME NEW body \in Bodies, Send(body)
      PROVE  WireOK'
  <2>1. /\ sent' = sent \o Message(body) /\ datagram' = sent' /\ sent = datagram
        /\ messages' = messages \cup {[first |-> Len(sent) + 1, last |-> Len(sent')]}
    BY <1>2 DEF Send
  <2>2. PICK n \in Nat, l \in Nat :
          /\ n = Len(sent) /\ l = Len(sent')
          /\ n + 5 <= l /\ l - n >= MinLength
          /\ \A k \in 1 .. n : sent'[k] = sent[k]
          /\ \A m \in [first : Nat, last : Nat] :
               m.first = n + 1 /\ m.last = l => IsMessage(m)'
    BY <2>1, SendMessage
  <2>20. PICK new \in [first : Nat, last : Nat] :
           new.first = n + 1 /\ new.last = l /\ messages' = messages \cup {new}
    <3>1. [first |-> n + 1, last |-> l] \in [first : Nat, last : Nat]
      BY <2>2
    <3> QED BY <2>1, <2>2, <3>1
  <2>3. ASSUME NEW m \in messages
        PROVE  IsMessage(m)'
    <3>1. /\ m.first \in Nat /\ m.last \in Nat
          /\ 1 <= m.first /\ m.first + 4 <= m.last /\ m.last <= n /\ IsMessage(m)
      BY <1>1, <2>2
    <3>2. \A k \in m.first .. m.last : sent'[k] = sent[k]
      BY <2>2, <3>1
    <3>3. xor_from(sent', m.first + 1, m.last - 3) = xor_from(sent, m.first + 1, m.last - 3)
      <4>1. \A k \in m.first + 1 .. m.last - 3 : sent'[k] = sent[k]
        BY <3>1, <3>2
      <4> QED BY <4>1, XorSame
    <3>4. PICK c \in m.first .. m.last - 4 : OnlyRaw(m, c)
      BY <3>1 DEF IsMessage
    <3>5. OnlyRaw(m, c)'
      <4>1. \A k \in m.first + 1 .. m.last - 3 : sent'[k] = sent[k]
        BY <3>1, <3>2
      <4> QED BY <3>4, <4>1 DEF OnlyRaw
    <3>6. \E k \in m.first .. m.last - 4 : OnlyRaw(m, k)'
      BY <3>5
    <3>7. /\ sent'[m.first] = sent[m.first] /\ sent'[m.last - 2] = sent[m.last - 2]
          /\ sent'[m.last - 1] = sent[m.last - 1] /\ sent'[m.last] = sent[m.last]
      <4>1. /\ m.first \in m.first .. m.last /\ m.last - 2 \in m.first .. m.last
            /\ m.last - 1 \in m.first .. m.last /\ m.last \in m.first .. m.last
        BY <3>1
      <4> QED BY <3>2, <4>1
    <3> QED BY <3>1, <3>3, <3>6, <3>7 DEF IsMessage
  <2>4. ASSUME NEW m \in messages'
        PROVE  /\ 1 <= m.first /\ m.first + 4 <= m.last /\ m.last <= l
               /\ m.last - m.first + 1 >= MinLength
               /\ IsMessage(m)'
    <3>1. CASE m \in messages
      <4>1. m.last <= l
        BY <1>1, <2>2, <3>1
      <4> QED BY <1>1, <2>3, <3>1, <4>1
    <3>2. CASE m = new
      <4>1. 1 <= n + 1 /\ n + 1 + 4 <= l /\ l <= l /\ l - (n + 1) + 1 >= MinLength
        BY <1>1, <2>2
      <4> QED BY <2>2, <2>20, <3>2, <4>1
    <3> QED BY <2>20, <3>1, <3>2
  <2>5. ASSUME NEW k \in 1 .. l
        PROVE  \E m \in messages' : k \in m.first .. m.last
    <3>1. CASE k \in 1 .. n
      BY <2>2, <2>20, <3>1 DEF WireOK, NothingBetween
    <3>2. CASE k \in n + 1 .. l
      BY <2>20, <3>2
    <3> QED BY <2>2, <3>1, <3>2
  <2>6. \A m, o \in messages' : m = o \/ m.last < o.first \/ o.last < m.first
    <3>1. \A m \in messages : m.last < new.first
      BY <1>1, <2>2, <2>20
    <3>2. \A m, o \in messages : m = o \/ m.last < o.first \/ o.last < m.first
      BY DEF WireOK, NoneOverlap
    <3> QED BY <2>20, <3>1, <3>2
  <2>7. \E d \in Nat : \A k \in 1 .. Len(sent') : k # d => datagram'[k] = sent'[k]
    BY <2>1
  <2>8. Len(datagram') = Len(sent')
    BY <2>1
  <2>9. \A k \in 1 .. Len(sent') : \E m \in messages' : k \in m.first .. m.last
    BY <2>2, <2>5
  <2>10. MessagesSent'
    BY <2>2, <2>4 DEF MessagesSent
  <2>11. NothingBetween'
    BY <2>9 DEF NothingBetween
  <2>12. NoneOverlap'
    BY <2>6 DEF NoneOverlap
  <2>13. OneDamaged'
    BY <2>7, <2>8 DEF OneDamaged
  <2> QED BY <2>10, <2>11, <2>12, <2>13 DEF WireOK
<1>3. ASSUME NEW k \in 1 .. Len(datagram), NEW byte \in Damages, Damage(k, byte)
      PROVE  WireOK'
  <2>1. /\ datagram' = [datagram EXCEPT ![k] = byte] /\ sent = datagram
        /\ UNCHANGED <<sent, messages>>
    BY <1>3 DEF Damage
  <2>2. Len(datagram') = Len(datagram) /\ k \in Nat
    BY <2>1, FramingAssumption DEF IInv, TypeOK
  <2>3. \A j \in 1 .. Len(sent) : j # k => datagram'[j] = sent[j]
    BY <2>1 DEF IInv, TypeOK
  <2>4. MessagesSent'
    BY <2>1 DEF WireOK, MessagesSent, IsMessage, OnlyRaw
  <2>5. NothingBetween' /\ NoneOverlap'
    BY <2>1 DEF WireOK, NothingBetween, NoneOverlap
  <2>6. OneDamaged'
    BY <2>1, <2>2, <2>3 DEF OneDamaged
  <2> QED BY <2>4, <2>5, <2>6 DEF WireOK
<1>4. CASE process_datagram \/ Scan \/ UNCHANGED vars
  <2>1. UNCHANGED <<sent, messages, datagram>>
    BY <1>4 DEF process_datagram, Scan, vars
  <2> QED BY <2>1 DEF WireOK, MessagesSent, NothingBetween, NoneOverlap,
                                  OneDamaged, IsMessage, OnlyRaw
<1> QED BY <1>2, <1>3, <1>4 DEF Next

LEMMA WireHolds == Spec => [](IInv /\ WireOK)
<1>1. Init => WireOK
  BY DEF Init, WireOK, MessagesSent, NothingBetween, NoneOverlap, OneDamaged
<1> QED BY <1>1, InitHasInv, StepKeepsInv, WireStep, PTL DEF Spec
-----------------------------------------------------------------------------
(***************************************************************************)
(* Where control bytes stand in what was sent, and where a piece starts    *)
(***************************************************************************)
LEMMA MessageOf ==
  ASSUME IInv, WireOK, NEW k \in 1 .. Len(sent)
  PROVE  \E m \in messages : k \in m.first .. m.last
BY DEF WireOK, NothingBetween

LEMMA MessageBytes ==
  ASSUME NEW m, m.first \in Nat, m.last \in Nat, m.first + 4 <= m.last, IsMessage(m),
         NEW c \in m.first .. m.last - 4, OnlyRaw(m, c), NEW k \in m.first .. m.last
  PROVE  /\ sent[k] = ESC => k = m.first \/ k = c \/ k = m.last - 2
         /\ sent[k] = CR => k # m.first /\ (k = c \/ k = m.last - 2 \/ k = m.last - 1)
         /\ sent[k] = LF => k # m.first /\ (k = c \/ k = m.last - 2 \/ k = m.last)
<1>1. \/ k = m.first \/ k \in m.first + 1 .. m.last - 3 \/ k = m.last - 2
      \/ k = m.last - 1 \/ k = m.last
  OBVIOUS
<1>2. k \in m.first + 1 .. m.last - 3 /\ k # c => sent[k] \notin {ESC, CR, LF}
  BY DEF OnlyRaw
<1>3. /\ k = m.first => sent[k] = ESC
      /\ k = m.last - 1 => sent[k] = CR
      /\ k = m.last => sent[k] = LF
  BY DEF IsMessage
<1>4. k = m.last - 2 => k # m.first
  OBVIOUS
<1> QED BY <1>1, <1>2, <1>3, <1>4, FramingAssumption

\* A terminator on the wire ends a message.
LEMMA SentTerminator ==
  ASSUME IInv, WireOK, NEW k \in 1 .. Len(sent) - 1, sent[k] = CR, sent[k + 1] = LF
  PROVE  \E m \in messages : k = m.last - 1
<1>1. Len(sent) \in Nat /\ k \in 1 .. Len(sent)
  BY Bounds
<1>2. PICK m \in messages : k \in m.first .. m.last
  BY <1>1, MessageOf
<1>3. m.first \in Nat /\ m.last \in Nat /\ m.first + 4 <= m.last /\ IsMessage(m)
  BY Bounds
<1>4. PICK c \in m.first .. m.last - 4 : OnlyRaw(m, c)
  BY <1>3 DEF IsMessage
<1>5. k # m.first /\ (k = c \/ k = m.last - 2 \/ k = m.last - 1)
  BY <1>2, <1>3, <1>4, MessageBytes
<1>6. k # m.last - 2
  <2>1. SUFFICES ASSUME k = m.last - 2
                 PROVE  FALSE
    OBVIOUS
  <2>2. k + 1 = m.last - 1
    BY <1>3, <2>1
  <2> QED BY <1>3, <2>2, FramingAssumption DEF IsMessage
<1>7. k # c
  <2>1. SUFFICES ASSUME k = c
                 PROVE  FALSE
    OBVIOUS
  <2>2. k + 1 \in m.first + 1 .. m.last - 3 /\ k + 1 # c
    BY <1>3, <1>4, <2>1
  <2> QED BY <1>4, <2>2 DEF OnlyRaw
<1> QED BY <1>5, <1>6, <1>7

\* Messages follow each other.
LEMMA Neighbours ==
  ASSUME IInv, WireOK, NEW m \in messages
  PROVE  /\ m.last < Len(sent) => \E o \in messages : o.first = m.last + 1
         /\ m.first # 1 => \E o \in messages : o.last = m.first - 1
<1>1. /\ Len(sent) \in Nat
      /\ \A o \in messages :
           /\ o.first \in Nat /\ o.last \in Nat
           /\ 1 <= o.first /\ o.first + 4 <= o.last /\ o.last <= Len(sent)
  BY Bounds
<1>2. \A o \in messages : m = o \/ m.last < o.first \/ o.last < m.first
  BY DEF WireOK, NoneOverlap
<1>3. ASSUME m.last < Len(sent)
      PROVE  \E o \in messages : o.first = m.last + 1
  <2>1. m.last + 1 \in 1 .. Len(sent)
    BY <1>1, <1>3
  <2>2. PICK o \in messages : m.last + 1 \in o.first .. o.last
    BY <2>1, MessageOf
  <2> QED BY <1>1, <1>2, <2>2
<1>4. ASSUME m.first # 1
      PROVE  \E o \in messages : o.last = m.first - 1
  <2>1. m.first - 1 \in 1 .. Len(sent)
    BY <1>1, <1>4
  <2>2. PICK o \in messages : m.first - 1 \in o.first .. o.last
    BY <2>1, MessageOf
  <2> QED BY <1>1, <1>2, <2>2
<1> QED BY <1>3, <1>4

\* A piece begins the datagram, or follows a terminator.
LEMMA PieceBounds ==
  ASSUME IInv, NEW p \in pieces
  PROVE  /\ p.first \in Nat /\ p.last \in Nat
         /\ 1 <= p.first /\ p.first < p.last /\ p.last <= Len(datagram)
         /\ \A k \in p.first .. p.last - 1 : IsTerminator(k) <=> k = p.last - 1
         /\ p.first = 1 \/ (p.first > 2 /\ IsTerminator(p.first - 2))
<1>1. /\ start_pos \in Nat /\ i \in Nat /\ i <= Len(datagram) /\ Len(datagram) \in Nat
      /\ \A q \in pieces : q.first \in Nat /\ q.last \in Nat
  BY DEF IInv, TypeOK
<1>2. /\ start_pos \in 1 .. i + 1
      /\ \A k \in 1 .. start_pos - 1 : \E q \in pieces : k \in q.first .. q.last
      /\ \A q, r \in pieces : q = r \/ q.last < r.first \/ r.last < q.first
      /\ \A q \in pieces :
           /\ 1 <= q.first /\ q.first < q.last /\ q.last < start_pos
           /\ \A k \in q.first .. q.last - 1 : IsTerminator(k) <=> k = q.last - 1
  BY DEF IInv, PiecesTile
<1>3. ASSUME p.first # 1
      PROVE  p.first > 2 /\ IsTerminator(p.first - 2)
  <2>1. p.first - 1 \in 1 .. start_pos - 1
    BY <1>1, <1>2, <1>3
  <2>2. PICK q \in pieces : p.first - 1 \in q.first .. q.last
    BY <1>2, <2>1
  <2>3. q = p \/ q.last < p.first \/ p.last < q.first
    BY <1>2
  <2>4. q.last = p.first - 1 /\ 1 <= q.first /\ q.first < q.last
    BY <1>1, <1>2, <2>2, <2>3
  <2>5. q.last - 1 \in q.first .. q.last - 1
    BY <1>1, <2>4
  <2>6. IsTerminator(q.last - 1) /\ q.last - 1 = p.first - 2
    BY <1>1, <1>2, <2>4, <2>5
  <2> QED BY <1>1, <2>4, <2>6
<1> QED BY <1>1, <1>2, <1>3

\* A message that was accepted starts where one was sent: no other byte that
\* reads as ESC follows what reads as a terminator.
LEMMA AcceptedStarts ==
  ASSUME IInv, WireOK, NEW p \in Accepted
  PROVE  \E m \in messages : p.first = m.first
<1>0. PICK f \in Nat, l \in Nat : f = p.first /\ l = p.last
  BY PieceBounds DEF Accepted
<1>1. /\ Len(sent) \in Nat /\ Len(datagram) = Len(sent) /\ MinLength \in Nat /\ MinLength >= 4
      /\ \A m \in messages :
           /\ m.first \in Nat /\ m.last \in Nat
           /\ 1 <= m.first /\ m.first + 4 <= m.last /\ m.last <= Len(sent) /\ IsMessage(m)
  BY Bounds
<1>2. /\ 1 <= f /\ f < l /\ l <= Len(sent)
      /\ \A k \in f .. l - 1 : IsTerminator(k) <=> k = l - 1
      /\ f = 1 \/ (f > 2 /\ IsTerminator(f - 2))
  BY <1>0, <1>1, PieceBounds DEF Accepted
<1>3. datagram[f] = ESC /\ l - f + 1 >= MinLength
  BY <1>0 DEF Accepted, process_raw_data
<1>4. PICK d \in Nat : \A k \in 1 .. Len(sent) : k # d => datagram[k] = sent[k]
  BY DEF WireOK, OneDamaged
<1>5. f \in 1 .. Len(sent) /\ l >= f + 3
  BY <1>1, <1>2, <1>3
<1>6. CASE f = 1
  <2>1. PICK m \in messages : f \in m.first .. m.last
    BY <1>5, MessageOf
  <2>2. m.first = f
    BY <1>1, <1>6, <2>1
  <2> QED BY <1>0, <2>2
<1>7. CASE f # 1
  <2>1. /\ f > 2 /\ f - 2 \in 1 .. Len(sent) - 1 /\ f - 1 \in 1 .. Len(sent)
        /\ f - 2 \in 1 .. Len(sent) /\ f - 2 + 1 = f - 1
    BY <1>1, <1>2, <1>7
  <2>2. datagram[f - 2] = CR /\ datagram[f - 1] = LF
    BY <1>2, <1>7, <2>1 DEF IsTerminator
  <2>3. CASE d # f - 2 /\ d # f - 1
    <3>1. sent[f - 2] = CR /\ sent[f - 1] = LF
      BY <1>4, <2>1, <2>2, <2>3
    <3>2. PICK m \in messages : f - 2 = m.last - 1
      BY <2>1, <3>1, SentTerminator
    <3>3. m.last < Len(sent) /\ m.last + 1 = f
      BY <1>1, <1>2, <3>2
    <3>4. PICK o \in messages : o.first = m.last + 1
      BY <3>3, Neighbours
    <3> QED BY <1>0, <3>3, <3>4
  <2>4. CASE d = f - 2 \/ d = f - 1
    <3>1. sent[f] = ESC
      <4>1. f # d
        BY <2>4
      <4> QED BY <1>3, <1>4, <1>5, <4>1
    <3>2. PICK m \in messages : f \in m.first .. m.last
      BY <1>5, MessageOf
    <3>3. /\ m.first \in Nat /\ m.last \in Nat /\ 1 <= m.first /\ m.first + 4 <= m.last
          /\ m.last <= Len(sent) /\ IsMessage(m)
      BY <1>1
    <3>4. PICK c \in m.first .. m.last - 4 : OnlyRaw(m, c)
      BY <3>3 DEF IsMessage
    <3>5. f = m.first \/ f = c \/ f = m.last - 2
      BY <3>1, <3>2, <3>3, <3>4, MessageBytes
    <3>6. f # m.last - 2
      <4>1. SUFFICES ASSUME f = m.last - 2
                     PROVE  FALSE
        OBVIOUS
      <4>2. /\ f + 1 = m.last - 1 /\ f + 2 = m.last /\ f + 1 + 1 = f + 2
            /\ f + 1 \in 1 .. Len(sent) /\ f + 2 \in 1 .. Len(sent)
            /\ f + 1 # d /\ f + 2 # d
        <5>1. PICK n \in Nat, e \in Nat : n = Len(sent) /\ e = m.last /\ f + 2 = e /\ e <= n
          BY <1>1, <3>3, <4>1
        <5>2. /\ f + 1 = e - 1 /\ f + 1 + 1 = f + 2
              /\ f + 1 \in 1 .. n /\ f + 2 \in 1 .. n
          BY <5>1
        <5>3. f + 1 # d /\ f + 2 # d
          BY <2>4
        <5> QED BY <5>1, <5>2, <5>3
      <4>3. sent[f + 1] = CR /\ sent[f + 2] = LF
        BY <3>3, <4>2 DEF IsMessage
      <4>4. IsTerminator(f + 1)
        BY <1>4, <4>2, <4>3 DEF IsTerminator
      <4>5. f + 1 \in f .. l - 1 /\ f + 1 # l - 1
        BY <1>5
      <4> QED BY <1>2, <4>4, <4>5
    <3>7. CASE f = c /\ f # m.first
      <4>1. f - 1 \in m.first .. m.last /\ f - 1 # c /\ f - 1 < m.last - 2 /\ f <= m.last - 4
        BY <3>2, <3>3, <3>4, <3>7
      <4>2. sent[f - 1] # LF
        <5>1. PICK g \in m.first .. m.last : g = f - 1
          BY <4>1
        <5>2. sent[g] = LF => g # m.first /\ (g = c \/ g = m.last - 2 \/ g = m.last)
          BY <3>3, <3>4, MessageBytes
        <5>3. sent[g] # LF
          BY <3>3, <4>1, <5>1, <5>2
        <5> QED BY <5>1, <5>3
      <4>3. d = f - 1
        <5>1. SUFFICES ASSUME d # f - 1
                       PROVE  FALSE
          OBVIOUS
        <5> QED BY <1>4, <2>1, <2>2, <4>2, <5>1
      <4>4. sent[f - 2] = CR
        <5>1. f - 2 # d
          BY <4>3
        <5> QED BY <1>4, <2>1, <2>2, <5>1
      <4>5. CASE f - 2 >= m.first
        <5>1. PICK g \in m.first .. m.last : g = f - 2 /\ g # c /\ g < m.last - 2
          <6>1. f - 2 \in m.first .. m.last /\ f - 2 # c /\ f - 2 < m.last - 2
            BY <3>3, <3>7, <4>1, <4>5
          <6> QED BY <6>1
        <5>2. sent[g] = CR => g # m.first /\ (g = c \/ g = m.last - 2 \/ g = m.last - 1)
          BY <3>3, <3>4, MessageBytes
        <5>3. sent[g] # CR
          BY <3>3, <5>1, <5>2
        <5> QED BY <4>4, <5>1, <5>3
      <4>6. CASE f - 2 < m.first
        <5>1. m.first - 1 = f - 2 /\ m.first # 1
          BY <2>1, <3>3, <4>1, <4>6
        <5>2. PICK o \in messages : o.last = m.first - 1
          BY <5>1, Neighbours
        <5>3. sent[f - 2] = LF
          BY <1>1, <5>1, <5>2 DEF IsMessage
        <5> QED BY <4>4, <5>3, FramingAssumption
      <4> QED BY <3>3, <4>5, <4>6
    <3> QED BY <1>0, <3>5, <3>6, <3>7
  <2> QED BY <2>3, <2>4
<1> QED BY <1>6, <1>7
-----------------------------------------------------------------------------
(***************************************************************************)
(* What is accepted was sent, or is cut at its display_item                *)
(***************************************************************************)
\* A piece that ends before the message does, ends with a terminator of which one
\* byte is a damaged one.  The other is display_item: when it is the checksum, the
\* bytes in front of it do not add up as verify_checksum wants them to.
LEMMA AcceptedIsLongOrCut ==
  ASSUME IInv, WireOK, NEW p \in Accepted, NEW m \in messages,
         p.first = m.first, p.last < m.last
  PROVE  IsCut(p, m)
<1>0. PICK f \in Nat, l \in Nat, e \in Nat :
        f = p.first /\ l = p.last /\ f = m.first /\ e = m.last
  BY PieceBounds, Bounds DEF Accepted
<1>1. /\ Len(sent) \in Nat /\ Len(datagram) = Len(sent) /\ MinLength \in Nat /\ MinLength >= 4
      /\ 1 <= f /\ e <= Len(sent) /\ IsMessage(m) /\ f + 4 <= e
      /\ \A k \in 1 .. Len(sent) : sent[k] \in Byte
  BY <1>0, Bounds
<1>2. /\ f < l /\ l < e
      /\ \A k \in f .. l - 1 : IsTerminator(k) <=> k = l - 1
  BY <1>0, PieceBounds DEF Accepted
<1>3. l - f + 1 >= MinLength /\ xor_from(datagram, f + 1, l - 3) = datagram[l - 2]
  BY <1>0 DEF Accepted, process_raw_data, verify_checksum
<1>4. PICK d \in Nat : \A k \in 1 .. Len(sent) : k # d => datagram[k] = sent[k]
  BY DEF WireOK, OneDamaged
<1>5. PICK c \in f .. e - 4 : OnlyRaw(m, c)
  BY <1>0, <1>1 DEF IsMessage
<1>6. l >= f + 3 /\ l - 1 \in f .. e /\ l \in f .. e /\ l - 1 \in 1 .. Len(sent) /\ l \in 1 .. Len(sent)
  BY <1>1, <1>2, <1>3
<1>7. datagram[l - 1] = CR /\ datagram[l] = LF
  <2>1. l - 1 \in f .. l - 1 /\ (l - 1) + 1 = l
    BY <1>2
  <2> QED BY <1>2, <2>1 DEF IsTerminator
<1>8. ~(sent[l - 1] = CR /\ sent[l] = LF)
  <2>1. SUFFICES ASSUME sent[l - 1] = CR, sent[l] = LF
                 PROVE  FALSE
    OBVIOUS
  <2>2. PICK k \in 1 .. Len(sent) - 1 : k = l - 1 /\ k + 1 = l
    <3>1. l - 1 \in 1 .. Len(sent) - 1 /\ l - 1 + 1 = l
      BY <1>1, <1>6
    <3> QED BY <3>1
  <2>3. PICK o \in messages : k = o.last - 1
    BY <2>1, <2>2, SentTerminator
  <2>4. o.last = l /\ o.first \in Nat /\ o.first < l
    BY <2>2, <2>3, Bounds
  <2>5. m = o \/ m.last < o.first \/ o.last < m.first
    BY DEF WireOK, NoneOverlap
  <2> QED BY <1>0, <1>2, <2>4, <2>5
\* All of the message before the terminator arrived, so that a byte which is in
\* front of the checksum, and preceded by its own, leaves nothing for it to sum.
<1>9. /\ e - 2 \in f .. e /\ e - 3 \in f + 1 .. e - 3 /\ e - 3 # c
      /\ sent[e - 3] \notin {ESC, CR, LF}
      /\ sent[e - 2] = xor_from(sent, f + 1, e - 3)
      /\ sent[e - 1] = CR
  <2>1. e - 2 \in f .. e /\ e - 3 \in f + 1 .. e - 3 /\ e - 3 # c
    BY <1>1, <1>5
  <2> QED BY <1>0, <1>1, <1>5, <2>1 DEF IsMessage, OnlyRaw
<1>10. d >= l - 1 => xor_from(sent, f + 1, l - 3) = sent[l - 2]
  <2>1. SUFFICES ASSUME d >= l - 1
                 PROVE  xor_from(sent, f + 1, l - 3) = sent[l - 2]
    OBVIOUS
  <2>2. \A k \in f + 1 .. l - 2 : datagram[k] = sent[k]
    BY <1>1, <1>2, <1>4, <1>6, <2>1
  <2>3. \A k \in f + 1 .. l - 3 : datagram[k] = sent[k]
    BY <2>2
  <2>4. l - 2 \in f + 1 .. l - 2
    BY <1>6
  <2> QED BY <1>3, <2>2, <2>3, <2>4, XorSame
<1>11. CASE sent[l - 1] # CR
  <2>1. d = l - 1 /\ sent[l] = LF
    BY <1>4, <1>6, <1>7, <1>11
  <2>2. l = c \/ l = e - 2
    <3>1. sent[l] = LF => l # m.first /\ (l = c \/ l = m.last - 2 \/ l = m.last)
      BY <1>0, <1>1, <1>5, <1>6, MessageBytes
    <3> QED BY <1>0, <1>2, <2>1, <3>1
  <2>3. l # e - 2
    <3>1. SUFFICES ASSUME l = e - 2
                   PROVE  FALSE
      OBVIOUS
    <3>2. PICK first \in Int, last \in Int, before \in Int, second \in Int :
            /\ first = f + 1 /\ last = e - 3 /\ before = l - 2 /\ second = l - 3
            /\ first <= last /\ before = last - 1 /\ first <= before /\ second = before - 1
      <4>1. /\ f + 1 <= e - 3 /\ l - 2 = e - 3 - 1 /\ f + 1 <= l - 2 /\ l - 3 = l - 2 - 1
        BY <1>6, <3>1
      <4> QED BY <4>1
    <3>3. xor_from(sent, first, before) = {}
      <4>1. xor_from(sent, first, second) = sent[before]
        BY <1>10, <2>1, <3>2
      <4> QED BY <3>2, <4>1, XorOfSum
    <3>4. \A bit \in Bits : bit \in xor_from(sent, first, last) <=> bit \in sent[last]
      BY <3>2, <3>3, XorAppend
    <3>5. xor_from(sent, first, last) = sent[l] /\ sent[last] \in Byte /\ sent[l] \in Byte
      <4>1. last \in 1 .. Len(sent)
        BY <1>1, <3>2
      <4> QED BY <1>1, <1>6, <1>9, <3>1, <3>2, <4>1
    <3>6. sent[last] = sent[l]
      BY <3>4, <3>5 DEF Byte
    <3> QED BY <1>9, <2>1, <3>2, <3>6
  <2>4. l \in m.first + 1 .. m.last - 3
    <3>1. l \in f .. e - 4 /\ l >= f + 3
      BY <1>5, <1>6, <2>2, <2>3
    <3>2. l \in f + 1 .. e - 3
      BY <3>1
    <3> QED BY <1>0, <3>2
  <2>5. Damaged = {p.last - 1, p.last} \ {l}
    <3>1. \A k \in 1 .. Len(sent) : sent[k] # datagram[k] <=> k = l - 1
      BY <1>4, <1>6, <1>7, <1>11, <2>1
    <3>2. Damaged = {l - 1}
      BY <1>6, <3>1 DEF Damaged
    <3>3. l - 1 # l
      OBVIOUS
    <3> QED BY <1>0, <3>2, <3>3
  <2> QED BY <1>0, <2>1, <2>4, <2>5 DEF IsCut
<1>12. CASE sent[l - 1] = CR
  <2>1. d = l
    <3>1. sent[l] # LF
      BY <1>8, <1>12
    <3> QED BY <1>4, <1>6, <1>7, <3>1
  <2>2. l - 1 # f /\ (l - 1 = c \/ l - 1 = e - 2)
    <3>1. PICK g \in f .. e : g = l - 1
      BY <1>6
    <3>2. sent[g] = CR => g # m.first /\ (g = c \/ g = m.last - 2 \/ g = m.last - 1)
      BY <1>0, <1>1, <1>5, MessageBytes
    <3> QED BY <1>0, <1>2, <1>12, <3>1, <3>2
  <2>3. l - 1 # e - 2
    <3>1. SUFFICES ASSUME l - 1 = e - 2
                   PROVE  FALSE
      OBVIOUS
    <3>2. PICK first \in Int, last \in Int, before \in Int :
            /\ first = f + 1 /\ last = e - 3 /\ last = l - 2 /\ before = l - 3
            /\ first <= last /\ before = last - 1
      <4>1. f + 1 <= e - 3 /\ l - 2 = e - 3 /\ l - 3 = e - 3 - 1
        BY <1>6, <3>1
      <4> QED BY <4>1
    <3>3. xor_from(sent, first, last) = {}
      <4>1. xor_from(sent, first, before) = sent[last]
        BY <1>10, <2>1, <3>2
      <4> QED BY <3>2, <4>1, XorOfSum
    <3>4. sent[l - 1] = {}
      BY <1>9, <3>1, <3>2, <3>3
    <3> QED BY <1>12, <3>4, FramingAssumption
  <2>4. l - 1 \in m.first + 1 .. m.last - 3
    BY <1>0, <1>5, <2>2, <2>3
  <2>5. Damaged = {p.last - 1, p.last} \ {l - 1}
    <3>1. \A k \in 1 .. Len(sent) : sent[k] # datagram[k] <=> k = l
      BY <1>4, <1>6, <1>7, <1>8, <1>12, <2>1
    <3>2. Damaged = {l}
      BY <1>6, <3>1 DEF Damaged
    <3>3. l - 1 # l
      OBVIOUS
    <3> QED BY <1>0, <3>2, <3>3
  <2> QED BY <1>0, <1>12, <2>4, <2>5 DEF IsCut
<1> QED BY <1>11, <1>12

\* What holds the whole of a message agrees with it up to the checksum: a damaged
\* byte of it would show there.
LEMMA AcceptedAgrees ==
  ASSUME IInv, WireOK, NEW p \in Accepted, NEW m \in messages,
         p.first = m.first, p.last >= m.last, NEW k \in m.first .. m.last - 2
  PROVE  sent[k] = datagram[k]
<1>0. PICK f \in Nat, l \in Nat, e \in Nat :
        f = p.first /\ l = p.last /\ f = m.first /\ e = m.last
  BY PieceBounds, Bounds DEF Accepted
<1>1. /\ Len(sent) \in Nat /\ Len(datagram) = Len(sent)
      /\ sent \in Seq(Byte) /\ datagram \in Seq(Byte)
      /\ 1 <= f /\ f + 4 <= e /\ e <= Len(sent) /\ IsMessage(m)
  BY <1>0, Bounds DEF IInv, TypeOK
<1>2. e <= l /\ \A j \in f .. l - 1 : IsTerminator(j) <=> j = l - 1
  BY <1>0, PieceBounds DEF Accepted
<1>3. datagram[f] = ESC /\ verify_checksum(datagram, f, l)
  BY <1>0 DEF Accepted, process_raw_data
<1>4. PICK d \in Nat : \A j \in 1 .. Len(sent) : j # d => datagram[j] = sent[j]
  BY DEF WireOK, OneDamaged
<1>5. SUFFICES ASSUME sent[k] # datagram[k]
               PROVE  FALSE
  OBVIOUS
<1>6. k \in f .. e - 2 /\ k \in 1 .. Len(sent) /\ k = d
  <2>1. k \in f .. e - 2 /\ k \in 1 .. Len(sent)
    BY <1>0, <1>1
  <2> QED BY <1>4, <1>5, <2>1
<1>7. l = e
  <2>1. /\ e - 1 \in 1 .. Len(sent) /\ e \in 1 .. Len(sent)
        /\ e - 1 # d /\ e # d /\ e - 1 + 1 = e /\ e - 1 \in f .. l - 1
    BY <1>1, <1>2, <1>6
  <2>2. IsTerminator(e - 1)
    BY <1>0, <1>1, <1>4, <2>1 DEF IsTerminator, IsMessage
  <2>3. e - 1 = l - 1
    BY <1>2, <2>1, <2>2
  <2> QED BY <2>3
<1>8. k # f
  BY <1>0, <1>1, <1>3, <1>5 DEF IsMessage
<1>9. k \in f + 1 .. l - 2 /\ f + 3 <= l
  BY <1>1, <1>6, <1>7, <1>8
<1>10. verify_checksum(sent, f, l)
  BY <1>0, <1>1, <1>7 DEF verify_checksum, IsMessage
<1>11. datagram[k] \in Byte
  BY <1>1, <1>6
<1>12. datagram = [sent EXCEPT ![k] = datagram[k]]
  <2> DEFINE byte == [sent EXCEPT ![k] = datagram[k]]
  <2>1. byte \in Seq(Byte) /\ Len(byte) = Len(sent)
    BY <1>1, <1>6, <1>11
  <2>2. \A j \in 1 .. Len(sent) : byte[j] = datagram[j]
    BY <1>1, <1>4, <1>6
  <2> HIDE DEF byte
  <2> QED BY <1>1, <2>1, <2>2, SeqEqual DEF byte
<1>13. ~verify_checksum([sent EXCEPT ![k] = datagram[k]], f, l)
  BY <1>1, <1>5, <1>7, <1>9, <1>10, <1>11, SingleErrorDetected
<1> QED BY <1>3, <1>12, <1>13

\* What is accepted was sent: it starts where a message starts and agrees with it
\* up to the checksum, or it is a message cut at its display_item, and then the
\* damaged byte is the other one of the terminator.  This is for bodies of every
\* length in which one byte, but not the last, may read as ESC, CR or LF, and for
\* at most one damaged byte (process_datagram, verify_checksum).
THEOREM AcceptedIsSentOrCut == Spec => []SentOrCut
<1>1. IInv /\ WireOK => SentOrCut
  <2> SUFFICES ASSUME IInv, WireOK, NEW p \in Accepted
               PROVE  \E m \in messages :
                        /\ p.first = m.first
                        /\ \/ p.last >= m.last /\ Damaged \cap (m.first .. m.last - 2) = {}
                           \/ IsCut(p, m)
    BY DEF SentOrCut
  <2>1. PICK m \in messages : p.first = m.first
    BY AcceptedStarts
  <2>2. CASE p.last < m.last
    BY <2>1, <2>2, AcceptedIsLongOrCut
  <2>3. CASE p.last >= m.last
    <3>1. \A k \in m.first .. m.last - 2 : k \notin Damaged
      BY <2>1, <2>3, AcceptedAgrees DEF Damaged
    <3> QED BY <2>1, <2>3, <3>1
  <2>4. p.last \in Nat /\ m.last \in Nat
    BY PieceBounds, Bounds DEF Accepted
  <2> QED BY <2>2, <2>3, <2>4
<1> QED BY <1>1, WireHolds, PTL
-----------------------------------------------------------------------------
(***************************************************************************)
(* What was not damaged is accepted                                        *)
(***************************************************************************)
\* The piece that ends with an undamaged message starts with it, when the
\* terminator in front of the message is undamaged too.
LEMMA PieceIsMessage ==
  ASSUME IInv, WireOK, NEW m \in messages, NEW p \in pieces, p.last = m.last,
         \A k \in 1 .. Len(sent) : k \in m.first - 2 .. m.last => datagram[k] = sent[k]
  PROVE  p.first = m.first
<1>0. PICK f \in Nat, s \in Nat, e \in Nat : f = p.first /\ s = m.first /\ e = m.last
  BY PieceBounds, Bounds
<1>1. /\ Len(sent) \in Nat /\ Len(datagram) = Len(sent)
      /\ 1 <= s /\ s + 4 <= e /\ e <= Len(sent) /\ IsMessage(m)
      /\ \A o \in messages :
           /\ o.first \in Nat /\ o.last \in Nat /\ 1 <= o.first /\ o.first + 4 <= o.last
           /\ IsMessage(o)
  BY <1>0, Bounds
<1>2. /\ 1 <= f /\ f < e
      /\ \A k \in f .. e - 1 : IsTerminator(k) <=> k = e - 1
      /\ f = 1 \/ (f > 2 /\ IsTerminator(f - 2))
  BY <1>0, PieceBounds
<1>3. \A k \in 1 .. Len(sent) : k \in s - 2 .. e => datagram[k] = sent[k]
  BY <1>0
<1>4. ~(f < s)
  <2>1. SUFFICES ASSUME f < s
                 PROVE  FALSE
    OBVIOUS
  <2>2. PICK o \in messages : o.last = s - 1
    <3>1. s # 1
      BY <1>2, <2>1
    <3> QED BY <1>0, <3>1, Neighbours
  <2>3. s > 5 /\ o.last - 1 = s - 2 /\ s - 2 + 1 = s - 1
    BY <1>1, <2>2
  <2>4. datagram[s - 2] = CR /\ datagram[s - 1] = LF
    <3>1. /\ s - 2 \in s - 2 .. e /\ s - 1 \in s - 2 .. e
          /\ s - 2 \in 1 .. Len(sent) /\ s - 1 \in 1 .. Len(sent)
      BY <1>1, <2>3
    <3>2. sent[s - 2] = CR /\ sent[s - 1] = LF
      BY <1>1, <2>2, <2>3 DEF IsMessage
    <3> QED BY <1>3, <3>1, <3>2
  <2>5. IsTerminator(s - 2)
    BY <2>3, <2>4 DEF IsTerminator
  <2>6. f # s - 1
    <3>1. SUFFICES ASSUME f = s - 1
                   PROVE  FALSE
      OBVIOUS
    <3>2. f - 2 + 1 = s - 2 /\ f # 1
      BY <2>3, <3>1
    <3> QED BY <1>2, <2>4, <3>2, FramingAssumption DEF IsTerminator
  <2>7. s - 2 \in f .. e - 1 /\ s - 2 # e - 1
    BY <1>1, <1>2, <2>1, <2>6
  <2> QED BY <1>2, <2>5, <2>7
<1>5. ~(f > s)
  <2>1. SUFFICES ASSUME f > s
                 PROVE  FALSE
    OBVIOUS
  <2>2. f > 2 /\ datagram[f - 2] = CR /\ datagram[f - 1] = LF
    <3>1. f # 1 /\ f - 2 + 1 = f - 1
      BY <1>1, <2>1
    <3> QED BY <1>2, <3>1 DEF IsTerminator
  <2>3. PICK k \in 1 .. Len(sent) - 1 :
          /\ k = f - 2 /\ k + 1 = f - 1 /\ k \in s - 2 .. e /\ k + 1 \in s - 2 .. e
    <3>1. /\ f - 2 \in 1 .. Len(sent) - 1 /\ f - 2 + 1 = f - 1
          /\ f - 2 \in s - 2 .. e /\ f - 2 + 1 \in s - 2 .. e
      BY <1>1, <1>2, <2>1, <2>2
    <3> QED BY <3>1
  <2>4. sent[k] = CR /\ sent[k + 1] = LF
    <3>1. k \in 1 .. Len(sent) /\ k + 1 \in 1 .. Len(sent)
      BY <1>1
    <3> QED BY <1>3, <2>2, <2>3, <3>1
  <2>5. PICK o \in messages : k = o.last - 1
    BY <2>4, SentTerminator
  <2>6. o.last = f - 1 /\ o.first \in Nat /\ o.first < o.last
    BY <1>1, <2>3, <2>5
  <2>7. m = o \/ m.last < o.first \/ o.last < m.first
    BY DEF WireOK, NoneOverlap
  <2> QED BY <1>0, <1>2, <2>1, <2>6, <2>7
<1> QED BY <1>0, <1>4, <1>5

\* A damaged byte costs at most the message it is in and the next one: all the
\* others are accepted, whatever their checksum and display_item
\* (process_datagram).
THEOREM UndamagedArrive == Spec => []OthersArrive
<1>1. IInv /\ WireOK => OthersArrive
  <2> SUFFICES ASSUME IInv, WireOK, Done, NEW m \in messages,
                      Damaged \cap (m.first - 2 .. m.last) = {}
               PROVE  m \in Accepted
    BY DEF OthersArrive
  <2>0. PICK s \in Nat, e \in Nat : s = m.first /\ e = m.last
    BY Bounds
  <2>1. /\ Len(sent) \in Nat /\ Len(datagram) = Len(sent)
        /\ 1 <= s /\ s + 4 <= e /\ e <= Len(sent) /\ e - s + 1 >= MinLength /\ IsMessage(m)
    BY <2>0, Bounds
  <2>2. \A k \in 1 .. Len(sent) : k \in s - 2 .. e => datagram[k] = sent[k]
    BY <2>0 DEF Damaged
  <2>3. \A k \in s .. e : datagram[k] = sent[k]
    BY <2>1, <2>2
  <2>4. /\ e - 1 \in 1 .. Len(sent) - 1 /\ e - 1 + 1 = e
        /\ datagram[e - 1] = CR /\ datagram[e] = LF
    <3>1. e - 1 \in s .. e /\ e \in s .. e /\ e - 1 \in 1 .. Len(sent) - 1 /\ e - 1 + 1 = e
      BY <2>1
    <3>2. sent[e - 1] = CR /\ sent[e] = LF
      BY <2>0, <2>1 DEF IsMessage
    <3>3. datagram[e - 1] = sent[e - 1] /\ datagram[e] = sent[e]
      BY <2>3, <3>1
    <3> QED BY <3>1, <3>2, <3>3
  <2>5. IsTerminator(e - 1)
    BY <2>4 DEF IsTerminator
  <2>6. PICK p \in pieces : e - 1 \in p.first .. p.last
    <3>1. /\ start_pos \in 1 .. i + 1 /\ i = Len(datagram) /\ i \in Nat
          /\ \A k \in 1 .. start_pos - 1 : \E p \in pieces : k \in p.first .. p.last
          /\ \A k \in start_pos .. i - 1 : ~IsTerminator(k)
      BY DEF Done, IInv, TypeOK, PiecesTile
    <3>2. e - 1 \notin start_pos .. i - 1
      BY <2>5, <3>1
    <3>3. e - 1 \in 1 .. start_pos - 1
      BY <2>1, <2>4, <3>1, <3>2
    <3> QED BY <3>1, <3>3
  <2>7. /\ p.first \in Nat /\ p.last \in Nat /\ p.first < p.last
        /\ \A k \in p.first .. p.last - 1 : IsTerminator(k) <=> k = p.last - 1
    BY PieceBounds
  <2>8. p.last # e - 1
    <3>1. SUFFICES ASSUME p.last = e - 1
                   PROVE  FALSE
      OBVIOUS
    <3>2. p.last - 1 \in p.first .. p.last - 1 /\ p.last - 1 + 1 = e - 1
      BY <2>1, <2>7, <3>1
    <3> QED BY <2>4, <2>7, <3>2, FramingAssumption DEF IsTerminator
  <2>9. p.last = e
    BY <2>1, <2>5, <2>6, <2>7, <2>8
  <2>10. p.first = s
    BY <2>0, <2>2, <2>9, PieceIsMessage
  <2>11. process_raw_data(datagram, s, e)
    <3>1. datagram[s] = ESC
      <4>1. s \in s .. e
        BY <2>1
      <4>2. sent[s] = ESC
        BY <2>0, <2>1 DEF IsMessage
      <4> QED BY <2>3, <4>1, <4>2
    <3>2. xor_from(datagram, s + 1, e - 3) = xor_from(sent, s + 1, e - 3)
      <4>1. \A k \in s + 1 .. e - 3 : datagram[k] = sent[k]
        BY <2>1, <2>3
      <4> QED BY <4>1, XorSame
    <3>3. datagram[e - 2] = sent[e - 2]
      BY <2>1, <2>3
    <3> QED BY <2>0, <2>1, <3>1, <3>2, <3>3 DEF process_raw_data, verify_checksum, IsMessage
  <2>12. p = m
    BY <2>0, <2>9, <2>10 DEF IInv, TypeOK
  <2> QED BY <2>0, <2>11, <2>12 DEF Accepted
<1> QED BY <1>1, WireHolds, PTL
=============================================================================
