--------------------------- MODULE HeadlessProofs ---------------------------
(***************************************************************************)
(* Proofs about Headless for any mapping file, any number of listeners,    *)
(* any lengths of packets and addresses and any rate-limit interval.       *)
(***************************************************************************)
EXTENDS Headless, FiniteSetTheorems, SequenceTheorems, TLAPS

(***************************************************************************)
(* The magic packet.                                                       *)
(***************************************************************************)
LEMMA PacketLengthType ==
    /\ MacLength * Repeats \in Nat
    /\ PacketLength \in Nat /\ HeaderLength + MacLength <= PacketLength
<1>1. MacLength * Repeats \in Nat /\ MacLength <= MacLength * Repeats
  BY LengthsPositive, Z3
<1> QED BY <1>1, LengthsPositive DEF PacketLength

\* A payload is a sequence of bytes.
LEMMA DatagramType ==
    ASSUME NEW data \in Datagrams
    PROVE  /\ data \in Seq(Bytes) /\ Len(data) \in Nat
           /\ data \in [1 .. Len(data) -> Bytes]
<1>1. PICK n \in 0 .. PacketLength + 1 : data \in [1 .. n -> Bytes]
  BY DEF Datagrams
<1>2. n \in Nat
  BY PacketLengthType
<1>3. data \in Seq(Bytes)
  BY <1>1, <1>2, SeqDef
<1> QED BY <1>3, LenProperties

\* What the parser takes for the address is one.
LEMMA MacOfType ==
    ASSUME NEW data \in Datagrams, IsMagicPacket(data)
    PROVE  MacOf(data) \in Macs
<1>1. /\ Len(data) = PacketLength
      /\ \A i \in 1 .. PacketLength : data[i] \in Bytes
  BY DatagramType DEF IsMagicPacket
<1>2. \A i \in HeaderLength + 1 .. HeaderLength + MacLength : data[i] \in Bytes
  BY <1>1, PacketLengthType, LengthsPositive
<1>3. /\ MacOf(data) \in Seq(Bytes)
      /\ Len(MacOf(data)) = MacLength
  BY <1>2, SubSeqProperties, LengthsPositive DEF MacOf
<1> QED BY <1>3, LenProperties DEF Macs

\* A packet the parser accepts is what build_magic_packet makes of its address.
LEMMA AcceptedIsBuilt ==
    ASSUME NEW data \in Datagrams, IsMagicPacket(data)
    PROVE  data = BuildMagicPacket(MacOf(data))
<1>1. Len(data) = PacketLength /\ data \in Seq(Bytes)
  BY DatagramType DEF IsMagicPacket
<1>2. /\ 1 \in 1 .. Len(data) + 1
      /\ HeaderLength \in 0 .. Len(data)
      /\ Len(data) \in HeaderLength .. Len(data)
  BY <1>1, PacketLengthType, LengthsPositive
<1>3. Header(data) \o SubSeq(data, HeaderLength + 1, Len(data))
        = SubSeq(data, 1, Len(data))
  BY <1>1, <1>2, ConcatAdjacentSubSeq DEF Header
<1>4. SubSeq(data, 1, Len(data)) = data
  BY <1>1, SubSeqFull
<1> QED BY <1>3, <1>4 DEF IsMagicPacket, BuildMagicPacket

\* Repeating a non-empty sequence.
LEMMA TileType ==
    ASSUME NEW b \in Seq(Bytes), Len(b) \in Nat \ {0}, NEW n \in Nat
    PROVE  /\ Tile(b, n) \in Seq(Bytes) /\ Len(Tile(b, n)) = n * Len(b)
           /\ \A i \in 1 .. n * Len(b) : Tile(b, n)[i] = b[((i - 1) % Len(b)) + 1]
<1> DEFINE l == Len(b)
           m == n * l
<1>1. m \in Nat /\ l \in Nat \ {0}
  <2> SUFFICES n * l \in Nat
    OBVIOUS
  <2> QED BY Z3
<1>2. Tile(b, n) = [i \in 1 .. m |-> b[((i - 1) % l) + 1]]
  BY DEF Tile
<1> HIDE DEF m, l
<1>3. ASSUME NEW i \in 1 .. m PROVE ((i - 1) % l) + 1 \in 1 .. l
  BY <1>1
<1>4. \A i \in 1 .. m : b[((i - 1) % l) + 1] \in Bytes
  BY <1>3, ElementOfSeq DEF l
<1>5. Tile(b, n) \in [1 .. m -> Bytes]
  BY <1>2, <1>4
<1>6. Tile(b, n) \in Seq(Bytes)
  BY <1>1, <1>5, SeqDef
<1>7. Len(Tile(b, n)) = m
  BY <1>1, <1>5, <1>6, LenProperties
<1> QED BY <1>2, <1>6, <1>7 DEF m, l

\* What build_magic_packet makes of an address is accepted, and parsed as it.
LEMMA BuiltIsAccepted ==
    ASSUME NEW mac \in Macs
    PROVE  /\ BuildMagicPacket(mac) \in Datagrams
           /\ IsMagicPacket(BuildMagicPacket(mac))
           /\ MacOf(BuildMagicPacket(mac)) = mac
<1> DEFINE data == BuildMagicPacket(mac)
           head == Tile(<<FF>>, HeaderLength)
           rest == Tile(mac, Repeats)
<1>1. mac \in Seq(Bytes) /\ Len(mac) = MacLength
  BY LengthsPositive, SeqDef, LenProperties DEF Macs
<1>2. /\ head \in Seq(Bytes) /\ Len(head) = HeaderLength
      /\ rest \in Seq(Bytes) /\ Len(rest) = MacLength * Repeats
      /\ \A i \in 1 .. MacLength * Repeats :
             rest[i] = mac[((i - 1) % MacLength) + 1]
  <2> DEFINE ff == <<FF>>
  <2>1. ff \in Seq(Bytes) /\ Len(ff) = 1
    BY FFIsByte
  <2> HIDE DEF ff
  <2>2. Tile(ff, HeaderLength) \in Seq(Bytes)
        /\ Len(Tile(ff, HeaderLength)) = HeaderLength * Len(ff)
    <3>1. Len(ff) \in Nat \ {0} /\ HeaderLength \in Nat
      BY <2>1, LengthsPositive
    <3> QED BY <2>1, <3>1, TileType
  <2>3. head \in Seq(Bytes) /\ Len(head) = HeaderLength
    BY <2>1, <2>2, LengthsPositive DEF ff
  <2>4. Len(mac) \in Nat \ {0} /\ Repeats \in Nat
    BY <1>1, LengthsPositive
  <2>5. /\ rest \in Seq(Bytes) /\ Len(rest) = Repeats * Len(mac)
        /\ \A i \in 1 .. Repeats * Len(mac) :
               rest[i] = mac[((i - 1) % Len(mac)) + 1]
    BY <1>1, <2>4, TileType
  <2>6. Repeats * MacLength = MacLength * Repeats
    BY LengthsPositive
  <2> HIDE DEF head, rest
  <2> QED BY <1>1, <2>3, <2>5, <2>6
<1> HIDE DEF head, rest
<1>3. data = head \o rest
  BY DEF BuildMagicPacket, head, rest
<1> HIDE DEF data
<1>4. /\ data \in Seq(Bytes) /\ Len(data) = PacketLength
      /\ \A i \in 1 .. PacketLength :
             data[i] = IF i <= HeaderLength THEN head[i]
                                            ELSE rest[i - HeaderLength]
  <2>1. /\ data \in Seq(Bytes) /\ Len(data) = Len(head) + Len(rest)
        /\ \A i \in 1 .. Len(head) + Len(rest) :
               data[i] = IF i <= Len(head) THEN head[i] ELSE rest[i - Len(head)]
    BY <1>2, <1>3, ConcatProperties
  <2>2. Len(head) + Len(rest) = PacketLength /\ Len(head) = HeaderLength
    BY <1>2 DEF PacketLength
  <2> QED BY <2>1, <2>2
<1>5. \A i \in 1 .. PacketLength : data[i] \in Bytes
  BY <1>4, ElementOfSeq
<1>6. Header(data) = head
  <2>1. /\ Header(data) \in Seq(Bytes) /\ Len(Header(data)) = HeaderLength
        /\ \A i \in 1 .. HeaderLength : Header(data)[i] = data[i]
    <3>1. \A i \in 1 .. HeaderLength : data[i] \in Bytes
      BY <1>5, PacketLengthType, LengthsPositive
    <3>2. /\ SubSeq(data, 1, HeaderLength) \in Seq(Bytes)
          /\ Len(SubSeq(data, 1, HeaderLength)) = HeaderLength - 1 + 1
          /\ \A i \in 1 .. HeaderLength - 1 + 1 :
                 SubSeq(data, 1, HeaderLength)[i] = data[1 + i - 1]
      BY <3>1, SubSeqProperties, LengthsPositive
    <3> QED BY <3>2, LengthsPositive DEF Header
  <2>2. \A i \in 1 .. HeaderLength : data[i] = head[i]
    BY <1>4, PacketLengthType, LengthsPositive
  <2> QED BY <1>2, <2>1, <2>2, SeqEqual
<1>7. ASSUME NEW n \in 1 .. MacLength * Repeats
      PROVE  /\ SubSeq(data, HeaderLength + 1, HeaderLength + n) \in Seq(Bytes)
             /\ Len(SubSeq(data, HeaderLength + 1, HeaderLength + n)) = n
             /\ \A i \in 1 .. n :
                    SubSeq(data, HeaderLength + 1, HeaderLength + n)[i] = rest[i]
  <2> DEFINE a == HeaderLength + 1
             z == HeaderLength + n
  <2>1. a \in Int /\ z \in Int /\ a <= z /\ z - a + 1 = n /\ z <= PacketLength
    BY PacketLengthType, LengthsPositive DEF PacketLength
  <2>2. \A i \in a .. z : data[i] \in Bytes
    <3> SUFFICES ASSUME NEW i \in a .. z PROVE i \in 1 .. PacketLength
      BY <1>5
    <3> QED BY <2>1, PacketLengthType, LengthsPositive
  <2> HIDE DEF a, z
  <2>3. /\ SubSeq(data, a, z) \in Seq(Bytes) /\ Len(SubSeq(data, a, z)) = n
        /\ \A i \in 1 .. n : SubSeq(data, a, z)[i] = data[a + i - 1]
    BY <2>1, <2>2, SubSeqProperties
  <2>4. \A i \in 1 .. n : data[a + i - 1] = rest[i]
    <3> SUFFICES ASSUME NEW i \in 1 .. n PROVE data[a + i - 1] = rest[i]
      OBVIOUS
    <3> DEFINE j == a + i - 1
    <3>1. n \in Nat /\ HeaderLength \in Nat
      BY PacketLengthType, LengthsPositive
    <3>2. j = HeaderLength + i /\ i \in Nat
      BY <3>1 DEF a
    <3> HIDE DEF j
    <3>3. j \in 1 .. PacketLength /\ ~(j <= HeaderLength) /\ j - HeaderLength = i
      BY <2>1, <3>1, <3>2, PacketLengthType DEF z
    <3>4. data[j] = rest[i]
      BY <1>4, <3>3
    <3> QED BY <3>4 DEF j
  <2> QED BY <2>3, <2>4 DEF a, z
<1>8. SubSeq(data, HeaderLength + 1, Len(data)) = rest
  <2>1. MacLength * Repeats \in 1 .. MacLength * Repeats
    BY PacketLengthType, LengthsPositive DEF PacketLength
  <2>2. Len(data) = HeaderLength + MacLength * Repeats
    BY <1>4 DEF PacketLength
  <2>3. /\ SubSeq(data, HeaderLength + 1, Len(data)) \in Seq(Bytes)
        /\ Len(SubSeq(data, HeaderLength + 1, Len(data))) = MacLength * Repeats
        /\ \A i \in 1 .. MacLength * Repeats :
               SubSeq(data, HeaderLength + 1, Len(data))[i] = rest[i]
    BY <1>7, <2>1, <2>2
  <2> QED BY <1>2, <2>3, SeqEqual
<1>9. MacOf(data) = mac
  <2>1. MacLength \in 1 .. MacLength * Repeats
    BY PacketLengthType, LengthsPositive DEF PacketLength
  <2>2. /\ MacOf(data) \in Seq(Bytes) /\ Len(MacOf(data)) = MacLength
        /\ \A i \in 1 .. MacLength : MacOf(data)[i] = rest[i]
    BY <1>7, <2>1 DEF MacOf
  <2>3. \A i \in 1 .. MacLength : rest[i] = mac[i]
    <3> SUFFICES ASSUME NEW i \in 1 .. MacLength PROVE rest[i] = mac[i]
      OBVIOUS
    <3>1. (i - 1) % MacLength = i - 1
      BY LengthsPositive
    <3>2. i \in 1 .. MacLength * Repeats
      BY <2>1, PacketLengthType
    <3>3. (i - 1) + 1 = i
      OBVIOUS
    <3> QED BY <1>2, <3>1, <3>2, <3>3
  <2> QED BY <1>1, <2>2, <2>3, SeqEqual
<1>10. IsMagicPacket(data)
  BY <1>4, <1>6, <1>8, <1>9 DEF IsMagicPacket, head, rest
<1>11. data \in Datagrams
  <2>1. data \in [1 .. PacketLength -> Bytes]
    BY <1>4, LenProperties
  <2>2. PacketLength \in 0 .. PacketLength + 1
    BY PacketLengthType
  <2> QED BY <2>1, <2>2 DEF Datagrams
<1> QED BY <1>9, <1>10, <1>11 DEF data

(* parse_magic_packet accepts a payload if and only if build_magic_packet   *)
(* makes it of some address, and then it returns that address: lengths, the *)
(* header and every repetition count.                                       *)
THEOREM ParserExact ==
    \A data \in Datagrams, mac \in Macs :
        (IsMagicPacket(data) /\ MacOf(data) = mac) <=> data = BuildMagicPacket(mac)
BY AcceptedIsBuilt, BuiltIsAccepted

-----------------------------------------------------------------------------
(***************************************************************************)
(* The threads.  Most steps of a listener only move its thread, and change *)
(* nothing but its own socket and session: Moves says what such a step     *)
(* must respect.                                                           *)
(***************************************************************************)
ThreadType == [pc : Pcs, source : Optional(Sources),
               data : Optional(Datagrams), now : Optional(Time)]

Inv == TypeOK /\ LifeInv /\ PacketInv /\ LimitInv /\ DeafInv /\ ExitTruthful

Moves(p, to) ==
    /\ thread[p].pc \notin {"unstarted", "ended"}
    /\ to \in Pcs \ {"unstarted", "create", "clock", "limit", "connect"}
    /\ Goto(p, to)
    /\ UNCHANGED <<mainVars, sigVars, lastAllowed, grants, clock>>
    /\ socket' \in [Ports -> Optional({"open", "closed"})]
    /\ \A q \in Ports \ {p} : socket'[q] = socket[q]
    /\ to # "ended" => socket'[p] # Nothing
    /\ bound' \in {bound, bound \cup {p}}
    /\ p \in bound' => to # "bind" /\ (to = "ended" => stop)
    /\ sessions' \in {sessions \ {p}, sessions \cup {p}}
    /\ p \in sessions' => to \in {"exec", "status", "close"}
    /\ to = "recv" => ~stop

LEMMA AtType ==
    ASSUME NEW pc \in Pcs
    PROVE  /\ At(pc) \in ThreadType
           /\ At(pc).pc = pc /\ At(pc).data = Nothing
BY DEF At, ThreadType, Optional

LEMMA ThreadFrame ==
    ASSUME thread \in [Ports -> ThreadType], NEW p \in Ports, NEW t \in ThreadType,
           thread' = [thread EXCEPT ![p] = t]
    PROVE  /\ thread' \in [Ports -> ThreadType] /\ thread'[p] = t
           /\ \A q \in Ports \ {p} : thread'[q] = thread[q]
OBVIOUS

LEMMA MovesFrame ==
    ASSUME TypeOK, NEW p \in Ports, NEW to \in Pcs, Goto(p, to)
    PROVE  /\ thread' \in [Ports -> ThreadType]
           /\ thread'[p].pc = to /\ thread'[p].data = Nothing
           /\ \A q \in Ports \ {p} : thread'[q] = thread[q]
<1>1. thread \in [Ports -> ThreadType]
  BY DEF TypeOK, ThreadType
<1> QED BY <1>1, AtType, ThreadFrame DEF Goto

LEMMA MovesInv ==
    ASSUME Inv, NEW p \in Ports, NEW to, Moves(p, to)
    PROVE  Inv'
<1>0. /\ thread' \in [Ports -> ThreadType]
      /\ thread'[p].pc = to /\ thread'[p].data = Nothing
      /\ \A q \in Ports \ {p} : thread'[q] = thread[q]
      /\ to \in Pcs \ {"unstarted", "create", "clock", "limit", "connect"}
  BY MovesFrame DEF Moves, Inv
<1>1. p \in listeners /\ main # "config" /\ main # "returned"
  BY DEF Inv, LifeInv, Moves, ExitTruthful
<1>2. TypeOK'
  BY <1>0, <1>1 DEF Inv, TypeOK, Moves, mainVars, sigVars, ThreadType
<1>3. LifeInv'
  <2>1. /\ thread[p].pc # "unstarted" /\ UNCHANGED <<main, listeners, stop>>
        /\ \A q \in Ports \ {p} : socket'[q] = socket[q]
        /\ to # "ended" => socket'[p] # Nothing
    BY DEF Moves, mainVars, sigVars
  <2>2. ASSUME NEW q \in Ports
        PROVE  /\ thread'[q].pc # "unstarted" => q \in listeners'
               /\ thread'[q].pc \notin {"unstarted", "create", "ended"}
                      => socket'[q] # Nothing
    BY <1>0, <1>1, <2>1 DEF Inv, LifeInv
  <2>3. ASSUME NEW q \in Ports, q \in bound'
        PROVE  /\ thread'[q].pc \notin {"unstarted", "create", "bind"}
               /\ thread'[q].pc = "ended" => stop'
    BY <1>0, <2>1, <2>3 DEF Inv, LifeInv, Moves
  <2>4. ASSUME NEW q \in Ports, q \in sessions'
        PROVE  thread'[q].pc \in {"exec", "status", "close"}
    BY <1>0, <2>4 DEF Inv, LifeInv, Moves
  <2> QED BY <1>1, <2>1, <2>2, <2>3, <2>4 DEF LifeInv
<1>4. PacketInv'
  BY <1>0 DEF Inv, PacketInv
<1>5. LimitInv'
  BY DEF Inv, LimitInv, Moves
<1>6. DeafInv'
  BY <1>0 DEF Inv, DeafInv, Moves, sigVars
<1>7. ExitTruthful'
  BY <1>1 DEF ExitTruthful, Moves, mainVars
<1> QED BY <1>2, <1>3, <1>4, <1>5, <1>6, <1>7 DEF Inv

\* The steps of run() and execute_wol() that only move the thread.
LEMMA ThreadMoves ==
    ASSUME Inv, NEW p \in Ports,
           \/ CreateSocket(p) \/ CreateFails(p) \/ Bind(p) \/ BindFails(p)
           \/ TestStop(p) \/ RecvTimeout(p) \/ Refuse(p)
           \/ Connect(p) \/ ConnectFails(p) \/ ExecCommand(p) \/ ExecFails(p)
           \/ CloseSession(p) \/ ExitStatus(p)
    PROVE  \E to \in Pcs : Moves(p, to)
<1>0. /\ socket \in [Ports -> Optional({"open", "closed"})]
      /\ [socket EXCEPT ![p] = "open"] \in [Ports -> Optional({"open", "closed"})]
      /\ [socket EXCEPT ![p] = "closed"] \in [Ports -> Optional({"open", "closed"})]
  BY DEF Inv, TypeOK, Optional
<1>1. /\ thread[p].pc \notin {"unstarted", "create", "ended"} => socket[p] # Nothing
      /\ p \in bound => thread[p].pc \notin {"unstarted", "create", "bind"}
      /\ p \in sessions => thread[p].pc \in {"exec", "status", "close"}
  BY DEF Inv, LifeInv
<1> USE DEF Moves, Pcs, wakeVars
<1>2. CASE CreateSocket(p)
  BY <1>0, <1>1, <1>2, NothingDistinct DEF CreateSocket
<1>3. CASE CreateFails(p)
  BY <1>0, <1>1, <1>3 DEF CreateFails
<1>4. CASE Bind(p)
  BY <1>0, <1>1, <1>4 DEF Bind
<1>5. CASE BindFails(p)
  BY <1>0, <1>1, <1>5 DEF BindFails
<1>6. CASE TestStop(p)
  <2>1. CASE stop
    BY <1>0, <1>1, <1>6, <2>1 DEF TestStop
  <2>2. CASE ~stop
    BY <1>0, <1>1, <1>6, <2>2 DEF TestStop
  <2> QED BY <2>1, <2>2
<1>7. CASE RecvTimeout(p) \/ Refuse(p) \/ ConnectFails(p)
  BY <1>0, <1>1, <1>7 DEF RecvTimeout, Refuse, ConnectFails
<1>8. CASE Connect(p)
  BY <1>0, <1>1, <1>8 DEF Connect
<1>9. CASE ExecCommand(p)
  BY <1>0, <1>1, <1>9 DEF ExecCommand
<1>10. CASE ExecFails(p) \/ ExitStatus(p)
  BY <1>0, <1>1, <1>10 DEF ExecFails, ExitStatus
<1>11. CASE CloseSession(p)
  BY <1>0, <1>1, <1>11 DEF CloseSession
<1> QED BY <1>2, <1>3, <1>4, <1>5, <1>6, <1>7, <1>8, <1>9, <1>10, <1>11

\* A datagram is taken or dropped.
LEMMA ReceiveInv ==
    ASSUME Inv, NEW p \in Ports, NEW source \in Sources, NEW data \in Datagrams,
           Receive(p, source, data)
    PROVE  Inv'
<1>1. CASE ~Accepted(source, data)
  <2>1. Moves(p, "test")
    BY <1>1, NothingDistinct
    DEF Receive, Moves, Pcs, Inv, LifeInv, TypeOK, wakeVars
  <2> QED BY <2>1, MovesInv
<1>2. CASE Accepted(source, data)
  <2> DEFINE t == [pc |-> "clock", source |-> source, data |-> data,
                   now |-> Nothing]
  <2>1. t \in ThreadType /\ thread \in [Ports -> ThreadType]
    BY DEF ThreadType, Optional, Pcs, Inv, TypeOK
  <2>2. thread' = [thread EXCEPT ![p] = t] /\ thread[p].pc = "recv"
        /\ UNCHANGED <<mainVars, sigVars, socket, bound, wakeVars, clock>>
    BY <1>2 DEF Receive
  <2>3. t.pc = "clock" /\ t.data = data /\ t.source = source
    OBVIOUS
  <2> HIDE DEF t
  <2>4. /\ thread' \in [Ports -> ThreadType] /\ thread'[p] = t
        /\ \A q \in Ports \ {p} : thread'[q] = thread[q]
    BY <2>1, <2>2, ThreadFrame
  <2> USE DEF mainVars, sigVars, wakeVars
  <2>5. p \in listeners /\ main # "config" /\ main # "returned"
    BY <2>2 DEF Inv, LifeInv, ExitTruthful
  <2>6. TypeOK'
    BY <2>2, <2>4 DEF Inv, TypeOK, ThreadType
  <2>7. LifeInv'
    BY <2>2, <2>3, <2>4, <2>5 DEF Inv, LifeInv
  <2>8. PacketInv'
    BY <1>2, <2>3, <2>4, NothingDistinct DEF Inv, PacketInv
  <2>9. LimitInv' /\ DeafInv'
    BY <2>2, <2>3, <2>4 DEF Inv, LimitInv, DeafInv
  <2>10. ExitTruthful'
    BY <2>2, <2>5 DEF ExitTruthful
  <2> QED BY <2>6, <2>7, <2>8, <2>9, <2>10 DEF Inv
<1> QED BY <1>1, <1>2

LEMMA ReadClockInv ==
    ASSUME Inv, NEW p \in Ports, ReadClock(p)
    PROVE  Inv'
<1>1. /\ thread[p].pc = "clock" /\ thread[p] \in ThreadType /\ clock \in Time
      /\ thread \in [Ports -> ThreadType] /\ thread[p].data # Nothing
  BY DEF ReadClock, Inv, TypeOK, ThreadType, PacketInv
<1> DEFINE t == [thread[p] EXCEPT !.pc = "limit", !.now = clock]
<1>2. t \in ThreadType /\ t.pc = "limit" /\ t.now = clock /\ t.now # Nothing
      /\ t.data = thread[p].data /\ t.source = thread[p].source
  BY <1>1, NothingDistinct DEF ThreadType, Pcs, Optional
<1>3. thread' = [thread EXCEPT ![p] = t]
      /\ UNCHANGED <<mainVars, sigVars, socket, bound, wakeVars, clock>>
  BY <1>1 DEF ReadClock, ThreadType
<1> HIDE DEF t
<1>4. /\ thread' \in [Ports -> ThreadType] /\ thread'[p] = t
      /\ \A q \in Ports \ {p} : thread'[q] = thread[q]
  BY <1>1, <1>2, <1>3, ThreadFrame
<1> USE DEF mainVars, sigVars, wakeVars
<1>5. p \in listeners /\ main # "config" /\ main # "returned"
  BY <1>1 DEF Inv, LifeInv, ExitTruthful
<1>6. TypeOK'
  BY <1>3, <1>4 DEF Inv, TypeOK, ThreadType
<1>7. LifeInv'
  BY <1>1, <1>2, <1>3, <1>4, <1>5 DEF Inv, LifeInv
<1>8. PacketInv'
  BY <1>1, <1>2, <1>4 DEF Inv, PacketInv
<1>9. LimitInv' /\ DeafInv'
  BY <1>2, <1>3, <1>4 DEF Inv, LimitInv, DeafInv
<1>10. ExitTruthful'
  BY <1>3, <1>5 DEF ExitTruthful
<1> QED BY <1>6, <1>7, <1>8, <1>9, <1>10 DEF Inv

\* A thread that asks the limiter has a key.
LEMMA KeyType ==
    ASSUME Inv, NEW p \in Ports, thread[p].pc = "limit"
    PROVE  /\ Key(p) \in Ports \X Macs /\ thread[p].now \in Time
           /\ thread[p].now \in Nat /\ interval \in Nat
           /\ thread[p].data # Nothing
           /\ \A k \in Ports \X Macs : grants[k] \subseteq Time
           /\ \A g \in Time : g \in Nat
<1>1. /\ thread[p].data \in Datagrams /\ IsMagicPacket(thread[p].data)
      /\ thread[p].now \in Time
  BY DEF Inv, TypeOK, PacketInv, Accepted, Optional
<1>2. MacOf(thread[p].data) \in Macs
  BY <1>1, MacOfType
<1> QED BY <1>1, <1>2, NothingDistinct, IntervalsNatural, BoundsNatural
        DEF Key, Time, Inv, TypeOK

LEMMA GrantInv ==
    ASSUME Inv, NEW p \in Ports, Grant(p)
    PROVE  Inv'
<1>1. /\ thread[p].pc = "limit" /\ thread[p] \in ThreadType
      /\ thread \in [Ports -> ThreadType]
  BY DEF Grant, Inv, TypeOK, ThreadType
<1> DEFINE t == [thread[p] EXCEPT !.pc = "connect", !.now = Nothing]
           key == Key(p)
           now == thread[p].now
<1>2. t \in ThreadType /\ t.pc = "connect"
      /\ t.data = thread[p].data /\ t.source = thread[p].source
  BY <1>1 DEF ThreadType, Pcs, Optional
<1>3. /\ thread' = [thread EXCEPT ![p] = t]
      /\ lastAllowed' = [lastAllowed EXCEPT ![key] = now]
      /\ grants' = [grants EXCEPT ![key] = grants[key] \cup {now}]
      /\ UNCHANGED <<mainVars, sigVars, socket, bound, sessions, clock>>
  BY <1>1 DEF Grant, ThreadType
<1> HIDE DEF t
<1>4. /\ thread' \in [Ports -> ThreadType] /\ thread'[p] = t
      /\ \A q \in Ports \ {p} : thread'[q] = thread[q]
  BY <1>1, <1>2, <1>3, ThreadFrame
<1>5. ~Limited(p)
  BY DEF Grant
<1>6. /\ key \in Ports \X Macs /\ now \in Time /\ now \in Nat /\ interval \in Nat
      /\ thread[p].data # Nothing
      /\ \A k \in Ports \X Macs : grants[k] \subseteq Time
      /\ \A g \in Time : g \in Nat
  BY <1>1, KeyType
<1>7. lastAllowed[key] # Nothing =>
          lastAllowed[key] \in Time /\ now - lastAllowed[key] >= interval
  <2>1. lastAllowed[key] # Nothing => ~(now - lastAllowed[key] < interval)
    BY <1>5 DEF Limited
  <2>2. lastAllowed[key] \in Optional(Time)
    BY <1>6 DEF Inv, TypeOK
  <2>3. lastAllowed[key] # Nothing => lastAllowed[key] \in Time
    BY <2>2 DEF Optional
  <2> DEFINE last == lastAllowed[key]
  <2> HIDE DEF key, now, last
  <2>4. ASSUME last \in Nat, ~(now - last < interval) PROVE now - last >= interval
    BY <1>6, <2>4
  <2> QED BY <1>6, <2>1, <2>3, <2>4 DEF last
<1> HIDE DEF key, now
<1> USE DEF mainVars, sigVars
<1>8. p \in listeners /\ main # "config" /\ main # "returned"
  BY <1>1 DEF Inv, LifeInv, ExitTruthful
<1>9. TypeOK'
  <2>1. /\ lastAllowed' \in [Ports \X Macs -> Optional(Time)]
        /\ grants' \in [Ports \X Macs -> SUBSET Time]
    BY <1>3, <1>6 DEF Inv, TypeOK, Optional
  <2> QED BY <1>3, <1>4, <2>1 DEF Inv, TypeOK, ThreadType
<1>10. LifeInv'
  BY <1>1, <1>2, <1>3, <1>4, <1>8 DEF Inv, LifeInv
<1>11. PacketInv'
  BY <1>2, <1>4, <1>6 DEF Inv, PacketInv
<1>12. LimitInv'
  <2>1. /\ lastAllowed'[key] = now /\ grants'[key] = grants[key] \cup {now}
        /\ \A k \in (Ports \X Macs) \ {key} :
               lastAllowed'[k] = lastAllowed[k] /\ grants'[k] = grants[k]
    BY <1>3, <1>6 DEF Inv, TypeOK
  <2>2. now # Nothing
    BY <1>6, NothingDistinct
  <2>3. \A g \in grants[key] : g <= now
    <3>1. CASE lastAllowed[key] = Nothing
      BY <1>6, <3>1 DEF Inv, LimitInv
    <3>2. CASE lastAllowed[key] # Nothing
      <4> SUFFICES ASSUME NEW g \in grants[key] PROVE g <= now
        OBVIOUS
      <4>1. g <= lastAllowed[key]
        BY <1>6, <3>2 DEF Inv, LimitInv
      <4>2. g \in Nat /\ lastAllowed[key] \in Nat
        BY <1>6, <1>7, <3>2
      <4> QED BY <1>6, <1>7, <3>2, <4>1, <4>2
    <3> QED BY <3>1, <3>2
  <2>4. \A g \in grants'[key] : g <= now
    BY <1>6, <2>1, <2>3
  <2> QED BY <2>1, <2>2, <2>4 DEF Inv, LimitInv
<1>13. DeafInv'
  BY <1>2, <1>3, <1>4 DEF Inv, DeafInv
<1>14. ExitTruthful'
  BY <1>3, <1>8 DEF ExitTruthful
<1> QED BY <1>9, <1>10, <1>11, <1>12, <1>13, <1>14 DEF Inv

-----------------------------------------------------------------------------
(***************************************************************************)
(* The main thread and its signal handler.                                 *)
(***************************************************************************)
\* load_mappings: the listeners are distinct, unprivileged and known ports.
LEMMA LoadedPorts ==
    ASSUME NEW d \in Documents, LoadMappings(d)
    PROVE  /\ ConfigPorts(d) \subseteq MinPort .. MaxPort
           /\ ConfigPorts(d) \subseteq Ports
           /\ Cardinality(ConfigPorts(d)) = Len(d)
<1>1. d \in Seq(Entry) /\ Len(d) \in Nat /\ DOMAIN d = 1 .. Len(d)
  BY DocumentsAssumption, LenProperties
<1>2. ConfigPorts(d) \subseteq MinPort .. MaxPort
  BY DEF LoadMappings, EntryAccepted, ConfigPorts
<1>3. ConfigPorts(d) \subseteq Ports
  BY <1>2, DocumentsAssumption
<1> DEFINE n == Len(d)
           f == [i \in 1 .. n |-> d[i].port]
<1>4. f \in [1 .. n -> ConfigPorts(d)]
  BY <1>1 DEF ConfigPorts
<1>5. \A i, j \in 1 .. n : f[i] = f[j] => i = j
  <2> SUFFICES ASSUME NEW i \in 1 .. n, NEW j \in 1 .. n, i < j,
                      d[i].port = d[j].port
               PROVE  FALSE
    BY <1>1
  <2>1. i \in 1 .. j - 1
    BY <1>1
  <2> QED BY <1>1, <2>1 DEF LoadMappings, EntryAccepted
<1>6. \A x \in ConfigPorts(d) : \E i \in 1 .. n : f[i] = x
  BY <1>1 DEF ConfigPorts
<1> HIDE DEF f
<1>7. f \in Bijection(1 .. n, ConfigPorts(d))
  BY <1>4, <1>5, <1>6
  DEF Bijection, Injection, Surjection, IsInjective
<1>8. ExistsBijection(1 .. n, ConfigPorts(d))
  BY <1>7 DEF ExistsBijection
<1> QED BY <1>1, <1>2, <1>3, <1>8, FS_CountingElements

LEMMA MainInv ==
    ASSUME Inv, MainStep \/ Signal \/ Tick
    PROVE  Inv'
<1> USE DEF Inv, mainVars, sigVars, wakeVars
<1>1. CASE ReadConfig
  <2>1. /\ main = "config" /\ document \in Documents /\ LoadMappings(document)
        /\ listeners = {} /\ ~stop
    BY <1>1 DEF ReadConfig, LifeInv
  <2>2. listeners' \subseteq Ports
    BY <1>1, <2>1, LoadedPorts DEF ReadConfig
  <2>3. \A p \in Ports : thread[p].pc = "unstarted"
    BY <2>1 DEF LifeInv
  <2>4. bound = {} /\ sessions = {} /\ closing = {}
    BY <2>1 DEF TypeOK
  <2>5. /\ main' = "starting" /\ interval' \in Intervals
        /\ UNCHANGED <<code, stop, closing, thread, socket, bound, sessions,
                       lastAllowed, clock, grants>>
    BY <1>1 DEF ReadConfig
  <2>6. TypeOK'
    BY <2>2, <2>4, <2>5 DEF TypeOK
  <2>7. LifeInv'
    BY <2>3, <2>4, <2>5 DEF LifeInv
  <2>8. PacketInv' /\ LimitInv' /\ DeafInv' /\ ExitTruthful'
    BY <2>5 DEF PacketInv, LimitInv, DeafInv, ExitTruthful
  <2> QED BY <2>6, <2>7, <2>8
<1>2. CASE ConfigFails
  <2>1. main = "config" /\ listeners = {} /\ ~stop /\ bound = {} /\ sessions = {}
    BY <1>2 DEF ConfigFails, LifeInv, TypeOK
  <2>2. /\ main' = "returned" /\ code' = 1
        /\ UNCHANGED <<document, interval, listeners, stop, closing, thread,
                       socket, bound, sessions, lastAllowed, clock, grants>>
    BY <1>2 DEF ConfigFails
  <2>3. TypeOK'
    BY <2>2 DEF TypeOK, Optional
  <2>4. LifeInv' /\ PacketInv' /\ LimitInv' /\ DeafInv'
    BY <2>2 DEF LifeInv, PacketInv, LimitInv, DeafInv
  <2>5. ExitTruthful'
    BY <2>1, <2>2 DEF ExitTruthful
  <2> QED BY <2>3, <2>4, <2>5
<1>3. ASSUME NEW p \in listeners, StartThread(p) PROVE Inv'
  <2>1. p \in Ports /\ thread \in [Ports -> ThreadType]
    BY DEF TypeOK, ThreadType
  <2>2. At("create") \in ThreadType /\ At("create").pc = "create"
        /\ At("create").data = Nothing
    BY AtType DEF Pcs
  <2>3. /\ thread' \in [Ports -> ThreadType] /\ thread'[p] = At("create")
        /\ \A q \in Ports \ {p} : thread'[q] = thread[q]
    BY <1>3, <2>1, <2>2, ThreadFrame DEF StartThread
  <2>4. /\ thread[p].pc = "unstarted" /\ main = "starting"
        /\ main' \in {"starting", "joining"}
        /\ UNCHANGED <<document, code, interval, listeners, stop, closing,
                       socket, bound, sessions, lastAllowed, clock, grants>>
    BY <1>3 DEF StartThread
  <2>5. TypeOK'
    BY <2>3, <2>4 DEF TypeOK, ThreadType
  <2>6. LifeInv'
    BY <2>1, <2>2, <2>3, <2>4 DEF LifeInv
  <2>7. PacketInv'
    BY <2>2, <2>3 DEF PacketInv
  <2>8. LimitInv' /\ DeafInv' /\ ExitTruthful'
    BY <2>2, <2>3, <2>4 DEF LimitInv, DeafInv, ExitTruthful
  <2> QED BY <2>5, <2>6, <2>7, <2>8
<1>4. CASE Joined
  <2>1. /\ main' = "returned" /\ code' = (IF stop THEN 0 ELSE 1)
        /\ main # "config" /\ \A p \in listeners : thread[p].pc = "ended"
        /\ UNCHANGED <<document, interval, listeners, stop, closing, thread,
                       socket, bound, sessions, lastAllowed, clock, grants>>
    BY <1>4 DEF Joined
  <2>2. TypeOK'
    BY <2>1 DEF TypeOK, Optional
  <2>3. LifeInv' /\ PacketInv' /\ LimitInv' /\ DeafInv'
    BY <2>1 DEF LifeInv, PacketInv, LimitInv, DeafInv
  <2>4. sessions = {} /\ (bound # {} => stop)
    BY <2>1 DEF LifeInv, TypeOK
  <2>5. ExitTruthful'
    BY <2>1, <2>4 DEF ExitTruthful
  <2> QED BY <2>2, <2>3, <2>5
<1>5. CASE Signal
  <2>1. /\ stop' = TRUE /\ closing' = listeners
        /\ main # "config" /\ main # "returned"
        /\ UNCHANGED <<document, main, code, interval, listeners, thread,
                       socket, bound, sessions, lastAllowed, clock, grants>>
    BY <1>5 DEF Signal
  <2>2. TypeOK'
    BY <2>1 DEF TypeOK
  <2>3. LifeInv' /\ PacketInv' /\ LimitInv' /\ ExitTruthful'
    BY <2>1 DEF LifeInv, PacketInv, LimitInv, ExitTruthful
  <2>4. DeafInv'
    BY <2>1 DEF DeafInv, LifeInv
  <2> QED BY <2>2, <2>3, <2>4
<1>6. ASSUME NEW p \in closing, CloseListener(p) PROVE Inv'
  <2>1. /\ p \in Ports /\ p \in listeners /\ closing' = closing \ {p}
        /\ UNCHANGED <<document, main, code, interval, listeners, stop, thread,
                       bound, sessions, lastAllowed, clock, grants>>
    BY <1>6 DEF CloseListener, TypeOK
  <2>2. /\ socket' \in [Ports -> Optional({"open", "closed"})]
        /\ \A q \in Ports \ {p} : socket'[q] = socket[q]
        /\ socket[p] # Nothing => socket'[p] = "closed"
    BY <1>6, <2>1 DEF CloseListener, TypeOK, Optional
  <2>3. TypeOK'
    BY <2>1, <2>2 DEF TypeOK
  <2>4. LifeInv'
    BY <2>1, <2>2, NothingDistinct DEF LifeInv
  <2>5. PacketInv' /\ LimitInv' /\ ExitTruthful'
    BY <2>1 DEF PacketInv, LimitInv, ExitTruthful
  <2>6. DeafInv'
    <3> SUFFICES ASSUME NEW q \in Ports, stop, q \notin closing',
                        thread[q].pc = "recv"
                 PROVE  socket'[q] # "open"
      BY <2>1 DEF DeafInv
    <3>1. CASE q = p
      BY <2>1, <2>2, <3>1 DEF LifeInv
    <3>2. CASE q # p
      BY <2>1, <2>2, <3>2 DEF DeafInv
    <3> QED BY <3>1, <3>2
  <2> QED BY <2>3, <2>4, <2>5, <2>6
<1>7. CASE Tick
  <2>1. /\ clock' = clock + 1 /\ clock < MaxTime
        /\ UNCHANGED <<mainVars, sigVars, thread, socket, bound, wakeVars>>
    BY <1>7 DEF Tick
  <2>2. clock' \in Time
    BY <2>1, BoundsNatural DEF TypeOK, Time
  <2>3. TypeOK'
    BY <2>1, <2>2 DEF TypeOK
  <2> QED BY <2>1, <2>3
          DEF LifeInv, PacketInv, LimitInv, DeafInv, ExitTruthful
<1> QED BY <1>1, <1>2, <1>3, <1>4, <1>5, <1>6, <1>7 DEF MainStep

(* The invariant is inductive.                                              *)
LEMMA InvStep == Inv /\ [Next]_vars => Inv'
<1> SUFFICES ASSUME Inv, [Next]_vars PROVE Inv'
    OBVIOUS
<1>1. ASSUME NEW p \in Ports, ThreadStep(p) \/ DeviceStep(p) PROVE Inv'
  BY <1>1, ThreadMoves, MovesInv, ReadClockInv, GrantInv DEF ThreadStep,
     DeviceStep
<1>2. CASE UNCHANGED vars
  BY <1>2 DEF vars, Inv, TypeOK, LifeInv, PacketInv, LimitInv, DeafInv,
              ExitTruthful
<1> QED BY <1>1, <1>2, MainInv, ReceiveInv DEF Next

LEMMA InvCorrect == Spec => []Inv
<1>1. Init => Inv
  <2> SUFFICES ASSUME Init PROVE Inv
    OBVIOUS
  <2>1. At("unstarted") \in ThreadType /\ At("unstarted").pc = "unstarted"
        /\ At("unstarted").data = Nothing
    BY AtType DEF Pcs
  <2>2. \A p \in Ports : thread[p] = At("unstarted")
    BY DEF Init
  <2>3. TypeOK
    <3>1. thread \in [Ports -> ThreadType]
      BY <2>1 DEF Init
    <3>2. /\ socket \in [Ports -> Optional({"open", "closed"})]
          /\ lastAllowed \in [Ports \X Macs -> Optional(Time)]
      BY DEF Init, Optional
    <3>3. grants \in [Ports \X Macs -> SUBSET Time] /\ clock \in Time
      BY BoundsNatural DEF Init, Time
    <3> QED BY <3>1, <3>2, <3>3 DEF Init, TypeOK, ThreadType, Optional
  <2>4. LifeInv /\ PacketInv
    BY <2>1, <2>2 DEF Init, LifeInv, PacketInv
  <2>5. LimitInv /\ DeafInv /\ ExitTruthful
    BY <2>1, <2>2 DEF Init, LimitInv, DeafInv, ExitTruthful
  <2> QED BY <2>3, <2>4, <2>5 DEF Inv
<1> QED BY <1>1, InvStep, PTL DEF Spec

(* Every variable keeps its type; a port that is bound and one with an SSH  *)
(* session belong to a listener of the mapping file.                        *)
THEOREM TypeCorrect == Spec => []TypeOK
<1>1. Inv => TypeOK
  BY DEF Inv
<1> QED BY <1>1, InvCorrect, PTL

(* A wake is on its way only for a datagram of the allowed address that is  *)
(* exactly a magic packet for the machine that is woken.                    *)
THEOREM WakesAreJustified == Spec => []WakesJustified
<1>1. Inv => WakesJustified
  <2> SUFFICES ASSUME Inv, NEW p \in Ports, thread[p].data # Nothing
               PROVE  /\ thread[p].source = AllowedIp
                      /\ \E mac \in Macs : thread[p].data = BuildMagicPacket(mac)
                                          /\ MacOf(thread[p].data) = mac
    BY DEF WakesJustified
  <2>1. /\ thread[p].data \in Datagrams /\ IsMagicPacket(thread[p].data)
        /\ thread[p].source = AllowedIp
    BY DEF Inv, TypeOK, PacketInv, Accepted, Optional
  <2> QED BY <2>1, MacOfType, AcceptedIsBuilt
<1> QED BY <1>1, InvCorrect, PTL

(* Once the signal handler has returned no listener can take a datagram.    *)
THEOREM ShutdownIsDeaf == Spec => []DeafAfterShutdown
<1>1. Inv => DeafAfterShutdown
  BY DEF Inv, DeafInv, DeafAfterShutdown
<1> QED BY <1>1, InvCorrect, PTL

(* main() returns with every thread ended and every session closed, and its *)
(* code is 0 after a signal and 1 when no listener ever served.             *)
THEOREM ExitIsTruthful == Spec => []ExitTruthful
<1>1. Inv => ExitTruthful
  BY DEF Inv
<1> QED BY <1>1, InvCorrect, PTL

\* A load that succeeds opens one unprivileged listener per entry.
THEOREM ConfigIsFaithful == Spec => ConfigFaithful
<1> DEFINE Loaded == main' = "starting" /\ main = "config" =>
                         /\ Cardinality(listeners') = Len(document)
                         /\ listeners' \subseteq MinPort .. MaxPort
<1>1. ASSUME Inv, [Next]_vars, main = "config", main' = "starting" PROVE Loaded
  <2>1. ReadConfig
    <3>1. \A p \in Ports : ThreadStep(p) \/ DeviceStep(p) => UNCHANGED main
      BY DEF ThreadStep, DeviceStep, CreateSocket, CreateFails, Bind, BindFails,
             TestStop, RecvTimeout, ReadClock, Refuse, Grant, Connect,
             ConnectFails, ExecCommand, ExecFails, CloseSession, ExitStatus,
             mainVars
    <3>2. \A p \in Ports, source \in Sources, data \in Datagrams :
              Receive(p, source, data) => UNCHANGED main
      BY DEF Receive, mainVars
    <3>3. \A p \in Ports : ~StartThread(p) /\ (CloseListener(p) => UNCHANGED main)
      BY <1>1 DEF StartThread, CloseListener, mainVars
    <3>4. listeners \subseteq Ports /\ closing \subseteq Ports
      BY <1>1 DEF Inv, TypeOK
    <3> QED BY <1>1, <3>1, <3>2, <3>3, <3>4
            DEF Next, MainStep, ConfigFails, Joined, Signal, Tick, vars, mainVars
  <2>2. document \in Documents /\ LoadMappings(document)
        /\ listeners' = ConfigPorts(document)
    BY <1>1, <2>1 DEF ReadConfig, Inv, LifeInv
  <2> QED BY <2>2, LoadedPorts
<1>2. Inv /\ [Next]_vars => [Loaded]_vars
  BY <1>1
<1> QED BY <1>2, InvCorrect, PTL DEF Spec, ConfigFaithful

\* Only its own verdict takes a thread out of RateLimiter.allow.
LEMMA LimitLeft ==
    ASSUME Inv, [Next]_vars, NEW p \in Ports,
           thread[p].pc = "limit", thread'[p].pc # "limit"
    PROVE  Refuse(p) \/ Grant(p)
<1>0. thread \in [Ports -> ThreadType] /\ listeners \subseteq Ports
  BY DEF Inv, TypeOK, ThreadType
<1>1. ASSUME NEW q \in Ports, ThreadStep(q) \/ DeviceStep(q)
      PROVE  Refuse(p) \/ Grant(p)
  <2>1. CASE q = p
    BY <1>1, <2>1
    DEF ThreadStep, DeviceStep, CreateSocket, CreateFails, Bind, BindFails,
        TestStop, RecvTimeout, ReadClock, Connect, ConnectFails, ExecCommand,
        ExecFails, CloseSession, ExitStatus
  <2>2. CASE q # p
    <3>1. ReadClock(q) \/ Grant(q) => thread'[p] = thread[p]
      BY <1>0, <2>2 DEF ReadClock, Grant, ThreadType
    <3>2. \A to : Goto(q, to) => thread'[p] = thread[p]
      BY <1>0, <2>2 DEF Goto
    <3> QED BY <1>1, <3>1, <3>2
        DEF ThreadStep, DeviceStep, CreateSocket, CreateFails, Bind, BindFails,
            TestStop, RecvTimeout, Refuse, Connect, ConnectFails, ExecCommand,
            ExecFails, CloseSession, ExitStatus
  <2> QED BY <2>1, <2>2
<1>2. ASSUME NEW q \in Ports, NEW source \in Sources, NEW data \in Datagrams,
             Receive(q, source, data)
      PROVE  FALSE
  <2>1. thread[q].pc = "recv" /\ q # p
    BY <1>2 DEF Receive
  <2> QED BY <1>0, <1>2, <2>1 DEF Receive, Goto
<1>3. MainStep \/ Signal \/ Tick => FALSE
  <2>1. ASSUME NEW q \in listeners, StartThread(q) PROVE FALSE
    <3>1. q # p /\ q \in Ports
      BY <1>0, <2>1 DEF StartThread
    <3> QED BY <1>0, <2>1, <3>1 DEF StartThread
  <2> QED BY <2>1 DEF MainStep, ReadConfig, ConfigFails, CloseListener, Joined,
                      Signal, Tick
<1> QED BY <1>1, <1>2, <1>3 DEF Next, vars

(* RateLimiter.allow decides exactly by the grants of the last interval.    *)
THEOREM LimiterIsExact == Spec => LimiterExact
<1> DEFINE Exact(p) ==
        (thread[p].pc = "limit" /\ thread'[p].pc # "limit") =>
            (thread'[p].pc = "connect" <=>
                 \A g \in grants[Key(p)] : thread[p].now - g >= interval)
<1>1. ASSUME Inv, [Next]_vars, NEW p \in Ports,
             thread[p].pc = "limit", thread'[p].pc # "limit"
      PROVE  thread'[p].pc = "connect" <=>
                 \A g \in grants[Key(p)] : thread[p].now - g >= interval
  <2> DEFINE key == Key(p)
             now == thread[p].now
             last == lastAllowed[key]
  <2>0. TypeOK /\ thread \in [Ports -> ThreadType]
    BY <1>1 DEF Inv, TypeOK, ThreadType
  <2>1. /\ key \in Ports \X Macs /\ now \in Nat /\ interval \in Nat
        /\ \A k \in Ports \X Macs : grants[k] \subseteq Time
        /\ \A g \in Time : g \in Nat
    BY <1>1, KeyType
  <2>2. Limited(p) <=> last # Nothing /\ now - last < interval
    BY DEF Limited
  <2>3. IF last = Nothing THEN grants[key] = {}
        ELSE last \in grants[key] /\ \A g \in grants[key] : g <= last
    BY <1>1, <2>1 DEF Inv, LimitInv
  <2> HIDE DEF key, now, last
  <2>4. Limited(p) <=> ~\A g \in grants[key] : now - g >= interval
    <3>1. CASE last = Nothing
      BY <2>2, <2>3, <3>1
    <3>2. CASE last # Nothing
      <4>1. last \in Nat /\ \A g \in grants[key] : g \in Nat /\ g <= last
        BY <2>1, <2>3, <3>2
      <4>2. now - last >= interval =>
                \A g \in grants[key] : now - g >= interval
        BY <2>1, <4>1
      <4>3. ~(now - last < interval) <=> now - last >= interval
        BY <2>1, <4>1
      <4> QED BY <2>2, <2>3, <3>2, <4>2, <4>3
    <3> QED BY <3>1, <3>2
  <2>5. CASE Refuse(p)
    <3>1. Goto(p, "test") /\ Limited(p)
      BY <2>5 DEF Refuse
    <3>2. thread'[p].pc = "test"
      BY <2>0, <3>1, MovesFrame DEF Pcs
    <3> QED BY <2>4, <3>1, <3>2 DEF key, now
  <2>6. CASE Grant(p)
    <3>1. thread'[p].pc = "connect" /\ ~Limited(p)
      BY <2>0, <2>6 DEF Grant, ThreadType
    <3> QED BY <2>4, <3>1 DEF key, now
  <2> QED BY <1>1, <2>5, <2>6, LimitLeft
<1>2. Inv /\ [Next]_vars => [\A p \in Ports : Exact(p)]_vars
  BY <1>1
<1> QED BY <1>2, InvCorrect, PTL DEF Spec, LimiterExact
=============================================================================
