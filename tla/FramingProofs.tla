---------------------------- MODULE FramingProofs ---------------------------
(***************************************************************************)
(* The packets of a connection, for messages and payloads of any length.   *)
(***************************************************************************)
EXTENDS Framing, SequenceTheorems, FiniteSetTheorems, TLAPS

\* Of a packet: the place of its first byte in the message, and whether it is
\* the last packet of it.
First(p) == p.payload[1].at
Ends(p)  == p.payload[Len(p.payload)].newline

\* The bytes of a packet are consecutive ones of one message.
IsRun(p) ==
    /\ p.payload # <<>> /\ Len(p.payload) <= MaxPayload
    /\ \A j \in 1 .. Len(p.payload) :
          /\ p.payload[j].op = p.op /\ p.payload[j].id = p.id
          /\ p.payload[j].at = First(p) + j - 1
          /\ p.payload[j].newline => j = Len(p.payload)

GoodPacket == {p \in PacketType : IsRun(p)}

Length(p) == Header + Len(p.payload)

GoodCell ==
    {c \in [packet : GoodPacket, at : 1 .. MaxPacket] :
        c.at <= Length(c.packet)}

\* q goes on where p stopped, or begins a message if p ended one.
Follows(p, q) ==
    IF Ends(p) THEN First(q) = 1
    ELSE /\ q.op = p.op /\ q.id = p.id
         /\ First(q) = First(p) + Len(p.payload)

\* The packets of a message, from some place in it to its end.
IsRestOfMessage(packets, s) ==
    /\ \A k \in 1 .. Len(packets) : packets[k].op = s
    /\ \A k \in 1 .. Len(packets) - 1 :
          ~Ends(packets[k]) /\ Follows(packets[k], packets[k + 1])
    /\ packets # <<>> => Ends(packets[Len(packets)])

-----------------------------------------------------------------------------
(* How a message is cut into packets.                                       *)

LEMMA PacketCount ==
    ASSUME NEW length \in Nat \ {0}, NEW M \in Nat \ {0}
    PROVE  LET n == (length + M - 1) \div M
           IN  /\ n \in Nat \ {0}
               /\ (n - 1) * M < length /\ length <= n * M
<1> DEFINE n == (length + M - 1) \div M
<1>1. n \in Nat /\ M * n <= length + M - 1 /\ length + M - 1 < M * n + M
  OBVIOUS
<1>2. n # 0
  BY <1>1
<1> HIDE DEF n
<1>3. M * n = n * M /\ (n - 1) * M = n * M - M
  BY <1>1
<1>4. QED
  BY <1>1, <1>2, <1>3 DEF n

LEMMA Monotone ==
    ASSUME NEW a \in Nat, NEW b \in Nat, NEW M \in Nat, a <= b
    PROVE  a * M \in Nat /\ b * M \in Nat /\ a * M <= b * M
OBVIOUS

\* The k-th packet takes the bytes after those of the packets before it.
LEMMA OnePacket ==
    ASSUME FramingAssumptions, NEW s \in Senders, NEW id \in Ids,
           NEW length \in 1 .. MaxLength,
           NEW k \in 1 .. (length + MaxPayload - 1) \div MaxPayload
    PROVE  LET p == Packets(s, id, length)[k]
           IN  /\ p \in GoodPacket /\ p.op = s /\ p.id = id
               /\ First(p) = (k - 1) * MaxPayload + 1
               /\ IF k = (length + MaxPayload - 1) \div MaxPayload
                  THEN Ends(p)
                  ELSE ~Ends(p) /\ Len(p.payload) = MaxPayload
<1> DEFINE n == (length + MaxPayload - 1) \div MaxPayload
           from == (k - 1) * MaxPayload
           to == IF k * MaxPayload < length THEN k * MaxPayload ELSE length
           W == Whole(s, id, length)
           q == SubSeq(W, from + 1, to)
           p == Packets(s, id, length)[k]
<1>0. length \in Nat \ {0} /\ MaxPayload \in Nat \ {0} /\ MaxLength \in Nat
  BY FramingAssumptions
<1>1. /\ n \in Nat \ {0}
      /\ (n - 1) * MaxPayload < length /\ length <= n * MaxPayload
  BY <1>0, PacketCount
<1>2. p = [op |-> s, id |-> id, payload |-> q]
  BY DEF Packets
<1> HIDE DEF n
<1>3. k \in Nat \ {0} /\ k <= n /\ (k < n => k <= n - 1)
  BY <1>1 DEF n
<1>4. /\ from \in Nat /\ k * MaxPayload \in Nat
      /\ k * MaxPayload = from + MaxPayload
  BY <1>0, <1>3
<1>5. /\ from <= (n - 1) * MaxPayload
      /\ k < n => k * MaxPayload <= (n - 1) * MaxPayload
  BY <1>0, <1>1, <1>3, Monotone
<1>6. (n - 1) * MaxPayload \in Nat /\ n * MaxPayload \in Nat
  BY <1>0, <1>1, Monotone
<1>7. from < length /\ (k < n => k * MaxPayload < length)
      /\ (k = n => length <= k * MaxPayload)
  BY <1>0, <1>1, <1>4, <1>5, <1>6
<1> HIDE DEF from
<1>8. /\ to \in Nat /\ from < to /\ to <= length /\ to - from <= MaxPayload
      /\ k < n => to < length /\ to - from = MaxPayload
      /\ k = n => to = length
  BY <1>0, <1>3, <1>4, <1>7
<1> HIDE DEF to
<1>9. \A i \in 1 .. length : W[i] \in ByteType /\ W[i] = Byte(s, id, length, i)
  BY <1>0 DEF Whole, Byte, ByteType, Senders, Ids
<1> HIDE DEF W
<1>10. /\ q \in Seq(ByteType) /\ Len(q) = to - from
       /\ \A j \in 1 .. Len(q) : q[j] = Byte(s, id, length, from + j)
  <2>1. \A i \in from + 1 .. to : W[i] \in ByteType
    BY <1>0, <1>4, <1>8, <1>9
  <2>2. /\ q \in Seq(ByteType)
        /\ Len(q) = IF from + 1 <= to THEN to - (from + 1) + 1 ELSE 0
        /\ \A j \in 1 .. to - (from + 1) + 1 : q[j] = W[from + 1 + j - 1]
    <3>1. from + 1 \in Int /\ to \in Int
      BY <1>4, <1>8
    <3>2. QED
      BY ONLY <2>1, <3>1, SubSeqProperties
  <2>3. Len(q) = to - from
    BY <1>4, <1>8, <2>2
  <2>4. ASSUME NEW j \in 1 .. Len(q)
        PROVE  q[j] = Byte(s, id, length, from + j)
    <3>1. /\ j \in 1 .. to - (from + 1) + 1 /\ from + 1 + j - 1 = from + j
          /\ from + j \in 1 .. length
      BY <1>0, <1>4, <1>8, <2>3
    <3>2. QED
      BY <1>9, <2>2, <3>1
  <2>5. QED
    BY <2>2, <2>3, <2>4
<1> HIDE DEF q
<1>11. Len(q) \in Nat \ {0} /\ Len(q) <= MaxPayload /\ q # <<>>
  BY <1>4, <1>8, <1>10
<1>12. ASSUME NEW j \in 1 .. Len(q)
       PROVE  /\ q[j].op = s /\ q[j].id = id /\ q[j].at = from + j
              /\ q[j].newline <=> from + j = length
  <2>1. q[j] = [op |-> s, id |-> id, newline |-> from + j = length,
                at |-> from + j]
    BY <1>10 DEF Byte
  <2>2. /\ q[j].op = s /\ q[j].id = id /\ q[j].at = from + j
        /\ q[j].newline = (from + j = length)
    BY <2>1
  <2>3. QED
    BY ONLY <2>2, Zenon
<1>13. q[1].at = from + 1
  BY <1>11, <1>12
<1> HIDE DEF p
<1>14. p.payload = q /\ p.op = s /\ p.id = id
  BY <1>2
<1>15. IsRun(p)
  <2>1. ASSUME NEW j \in 1 .. Len(q)
        PROVE  /\ q[j].op = s /\ q[j].id = id /\ q[j].at = from + 1 + j - 1
               /\ q[j].newline => j = Len(q)
    <3>1. /\ q[j].op = s /\ q[j].id = id /\ q[j].at = from + j
          /\ q[j].newline <=> from + j = length
      BY <1>12
    <3>2. from + j = length => j = Len(q)
      BY <1>0, <1>4, <1>8, <1>10
    <3>3. from + j = from + 1 + j - 1
      BY <1>4
    <3>4. QED
      BY <3>1, <3>2, <3>3
  <2>2. QED
    BY <1>11, <1>13, <1>14, <2>1 DEF IsRun, First
<1>16. p \in PacketType
  BY <1>2, <1>10 DEF PacketType
<1>17. Ends(p) <=> from + Len(q) = length
  BY <1>11, <1>12, <1>14 DEF Ends
<1>18. IF k = n THEN Ends(p) ELSE ~Ends(p) /\ Len(q) = MaxPayload
  <2>1. /\ k = n => from + Len(q) = length
        /\ k # n => from + Len(q) # length /\ Len(q) = MaxPayload
    BY <1>0, <1>1, <1>3, <1>4, <1>8, <1>10
  <2>2. QED
    BY <1>17, <2>1
<1>19. First(p) = from + 1
  BY <1>13, <1>14 DEF First
<1>20. QED
  BY <1>14, <1>15, <1>16, <1>18, <1>19 DEF GoodPacket, from, n, p

\* Together they are the message.
LEMMA PacketsAreTheMessage ==
    ASSUME FramingAssumptions, NEW s \in Senders, NEW id \in Ids,
           NEW length \in 1 .. MaxLength
    PROVE  LET packets == Packets(s, id, length)
           IN  /\ packets \in Seq(GoodPacket) /\ packets # <<>>
               /\ First(packets[1]) = 1
               /\ IsRestOfMessage(packets, s)
               /\ \A k \in 1 .. Len(packets) : packets[k].id = id
<1> DEFINE n == (length + MaxPayload - 1) \div MaxPayload
           packets == Packets(s, id, length)
<1>0. length \in Nat \ {0} /\ MaxPayload \in Nat \ {0}
  BY FramingAssumptions
<1>1. n \in Nat \ {0}
  BY <1>0, PacketCount
<1>2. \A k \in 1 .. n :
         /\ packets[k] \in GoodPacket /\ packets[k].op = s /\ packets[k].id = id
         /\ First(packets[k]) = (k - 1) * MaxPayload + 1
         /\ IF k = n THEN Ends(packets[k])
            ELSE ~Ends(packets[k]) /\ Len(packets[k].payload) = MaxPayload
  BY OnePacket
<1>3. Len(packets) = n /\ packets = [k \in 1 .. n |-> packets[k]]
  BY <1>1 DEF Packets
<1> HIDE DEF n, packets
<1>4. packets \in Seq(GoodPacket) /\ packets # <<>>
  <2>1. [k \in 1 .. n |-> packets[k]] \in Seq(GoodPacket)
    BY ONLY <1>1, <1>2
  <2>2. QED
    BY <1>1, <1>3, <2>1
<1>5. First(packets[1]) = 1
  BY <1>0, <1>1, <1>2
<1>6. ASSUME NEW k \in 1 .. n - 1
      PROVE  ~Ends(packets[k]) /\ Follows(packets[k], packets[k + 1])
  <2>1. /\ k \in 1 .. n /\ k + 1 \in 1 .. n /\ k # n /\ k + 1 - 1 = k
        /\ k \in Nat
    BY <1>1
  <2>2. First(packets[k + 1]) = k * MaxPayload + 1
    BY <1>2, <2>1
  <2>3. k * MaxPayload = (k - 1) * MaxPayload + MaxPayload
        /\ (k - 1) * MaxPayload \in Nat
    BY <1>0, <1>6
  <2>4. First(packets[k + 1]) = First(packets[k]) + Len(packets[k].payload)
    BY <1>0, <1>2, <2>1, <2>2, <2>3
  <2>5. QED
    BY <1>2, <2>1, <2>4 DEF Follows
<1>7. IsRestOfMessage(packets, s)
  BY <1>1, <1>2, <1>3, <1>6 DEF IsRestOfMessage
<1>8. \A k \in 1 .. Len(packets) : packets[k].id = id
  BY <1>2, <1>3
<1>9. QED
  BY <1>4, <1>5, <1>7, <1>8 DEF packets

-----------------------------------------------------------------------------
(* Types.                                                                   *)

FramingInv ==
    /\ nextId \in [Senders -> 0 .. MaxId + 1]
    /\ sending \in [Senders -> Seq(GoodPacket)]
    /\ ended \in SUBSET Senders /\ closed \in BOOLEAN /\ reading \in BOOLEAN
    /\ wire \in Seq(GoodCell) /\ leftOver \in Seq(GoodCell)
    /\ current \in [op : Senders, id : Ids] \cup {NoMessage}
    /\ running \in Seq(ByteType)
    /\ processed \in Seq(Seq(ByteType))
    /\ upset \in SUBSET {"mixed", "zeros", "closed"}

LEMMA CellsOfAPacket ==
    ASSUME FramingAssumptions, NEW p \in GoodPacket
    PROVE  /\ Cells(p) \in Seq(GoodCell)
           /\ Length(p) \in Header + 1 .. MaxPacket
           /\ Len(Cells(p)) = Length(p)
           /\ \A k \in 1 .. Length(p) : Cells(p)[k] = [packet |-> p, at |-> k]
<1>1. /\ Len(p.payload) \in Nat \ {0} /\ Len(p.payload) <= MaxPayload
      /\ MaxPayload \in Nat
  <2>1. p.payload \in Seq(ByteType) /\ p.payload # <<>>
    BY DEF GoodPacket, PacketType, IsRun
  <2>2. QED
    BY <2>1, FramingAssumptions DEF GoodPacket, IsRun, FramingAssumptions
<1>2. Length(p) \in Header + 1 .. MaxPacket
  BY <1>1 DEF Length, MaxPacket, Header
<1>3. \A k \in 1 .. Length(p) : [packet |-> p, at |-> k] \in GoodCell
  BY <1>1, <1>2 DEF GoodCell, Length, MaxPacket, Header
<1>4. Cells(p) = [k \in 1 .. Length(p) |-> [packet |-> p, at |-> k]]
  BY DEF Cells, Length
<1>5. Length(p) \in Nat
  BY <1>2, <1>1 DEF MaxPacket, Header
<1> HIDE DEF Length
<1>6. QED
  BY <1>2, <1>3, <1>4, <1>5

\* Joined, two sequences keep their elements; so do the parts of one.
LEMMA Joined ==
    ASSUME NEW S, NEW s \in Seq(S), NEW t \in Seq(S)
    PROVE  /\ s \o t \in Seq(S) /\ Len(s \o t) = Len(s) + Len(t)
           /\ Len(s) \in Nat /\ Len(t) \in Nat
           /\ \A i \in 1 .. Len(s) : (s \o t)[i] = s[i]
           /\ \A i \in 1 .. Len(t) : (s \o t)[Len(s) + i] = t[i]
OBVIOUS

LEMMA CutOff ==
    ASSUME NEW S, NEW s \in Seq(S), NEW m \in Nat, m <= Len(s)
    PROVE  LET front == SubSeq(s, 1, m)
               rest  == SubSeq(s, m + 1, Len(s))
           IN  /\ front \in Seq(S) /\ rest \in Seq(S)
               /\ Len(front) = m /\ Len(rest) = Len(s) - m
               /\ \A i \in 1 .. m : front[i] = s[i]
               /\ \A i \in 1 .. Len(s) - m : rest[i] = s[m + i]
<1>1. /\ \A i \in 1 .. m : s[i] \in S
      /\ \A i \in m + 1 .. Len(s) : s[i] \in S
      /\ Len(s) \in Nat
  OBVIOUS
<1>2. /\ SubSeq(s, 1, m) \in Seq(S)
      /\ Len(SubSeq(s, 1, m)) = IF 1 <= m THEN m - 1 + 1 ELSE 0
      /\ \A i \in 1 .. m - 1 + 1 : SubSeq(s, 1, m)[i] = s[1 + i - 1]
  <2>1. 1 \in Int /\ m \in Int
    OBVIOUS
  <2>2. QED
    BY ONLY <1>1, <2>1, SubSeqProperties
<1>3. /\ SubSeq(s, m + 1, Len(s)) \in Seq(S)
      /\ Len(SubSeq(s, m + 1, Len(s))) =
            IF m + 1 <= Len(s) THEN Len(s) - (m + 1) + 1 ELSE 0
      /\ \A i \in 1 .. Len(s) - (m + 1) + 1 :
            SubSeq(s, m + 1, Len(s))[i] = s[m + 1 + i - 1]
  <2>1. m + 1 \in Int /\ Len(s) \in Int
    BY <1>1
  <2>2. QED
    BY ONLY <1>1, <2>1, SubSeqProperties
<1> DEFINE front == SubSeq(s, 1, m)
           rest == SubSeq(s, m + 1, Len(s))
<1> HIDE DEF front, rest
<1>4. front \in Seq(S) /\ Len(front) = m /\ \A i \in 1 .. m : front[i] = s[i]
  BY <1>2 DEF front
<1>5. rest \in Seq(S) /\ Len(rest) = Len(s) - m
  BY <1>1, <1>3 DEF rest
<1>6. \A i \in 1 .. Len(s) - m : rest[i] = s[m + i]
  <2> SUFFICES ASSUME NEW i \in 1 .. Len(s) - m
               PROVE  rest[i] = s[m + i]
    OBVIOUS
  <2>1. i \in 1 .. Len(s) - (m + 1) + 1 /\ m + 1 + i - 1 = m + i
    BY <1>1
  <2>2. QED
    BY <1>3, <2>1 DEF rest
<1>7. QED
  BY <1>4, <1>5, <1>6 DEF front, rest

LEMMA InitTypes == Init => FramingInv
<1> SUFFICES ASSUME Init
             PROVE  FramingInv
  OBVIOUS
<1>1. /\ <<>> \in Seq(GoodPacket) /\ <<>> \in Seq(GoodCell)
      /\ <<>> \in Seq(ByteType) /\ <<>> \in Seq(Seq(ByteType))
  OBVIOUS
<1>2. 0 \in 0 .. MaxId + 1
  BY FramingAssumptions
<1>3. QED
  BY <1>1, <1>2 DEF Init, FramingInv

LEMMA NextTypes == FramingInv /\ [Next]_vars => FramingInv'
<1> SUFFICES ASSUME FramingInv, [Next]_vars
             PROVE  FramingInv'
  OBVIOUS
<1> USE FramingAssumptions
<1>a. MaxId \in Nat
  BY DEF FramingAssumptions
<1>1. ASSUME NEW s \in Senders, NEW length \in 1 .. MaxLength, Encode(s, length)
      PROVE  FramingInv'
  <2>1. nextId[s] \in Ids /\ nextId[s] + 1 \in 0 .. MaxId + 1
    BY <1>a, <1>1 DEF FramingInv, Encode, Ids
  <2>2. Packets(s, nextId[s], length) \in Seq(GoodPacket)
    BY <2>1, PacketsAreTheMessage
  <2>3. QED
    BY <1>1, <2>1, <2>2 DEF FramingInv, Encode, readerVars
<1>2. ASSUME NEW s \in Senders, EncodeTooLargeId(s)
      PROVE  FramingInv'
  BY <1>2 DEF FramingInv, EncodeTooLargeId, readerVars
<1>3. ASSUME NEW s \in Senders, SendPacket(s)
      PROVE  FramingInv'
  <2>1. CASE ~closed
    <3>1. /\ Head(sending[s]) \in GoodPacket
          /\ Tail(sending[s]) \in Seq(GoodPacket)
      BY <1>3 DEF FramingInv, SendPacket
    <3>2. wire \o Cells(Head(sending[s])) \in Seq(GoodCell)
      <4>1. Cells(Head(sending[s])) \in Seq(GoodCell)
        BY <3>1, CellsOfAPacket
      <4>2. QED
        BY <4>1 DEF FramingInv
    <3>3. QED
      BY <1>3, <2>1, <3>1, <3>2 DEF FramingInv, SendPacket, readerVars
  <2>2. CASE closed
    <3>1. <<>> \in Seq(GoodPacket)
      OBVIOUS
    <3>2. QED
      BY <1>3, <2>2, <3>1 DEF FramingInv, SendPacket, readerVars
  <2>3. QED
    BY <2>1, <2>2
<1>4. CASE ParsePacket
  <2> DEFINE p == leftOver[Header].packet
             message == Continued(p)
  <2>1. /\ p \in GoodPacket /\ Length(p) \in Nat /\ Length(p) <= Len(leftOver)
        /\ Len(leftOver) \in Nat
    <3>1. Len(leftOver) \in Nat /\ Header \in 1 .. Len(leftOver)
      BY <1>4 DEF ParsePacket, Parsable, Header, FramingInv
    <3>2. p \in GoodPacket
      BY <3>1 DEF FramingInv, GoodCell
    <3>3. Len(p.payload) \in Nat
      BY <3>2 DEF GoodPacket, PacketType
    <3>4. Len(leftOver) - Header >= Len(p.payload)
      BY <1>4 DEF ParsePacket, Parsable
    <3>5. QED
      BY <3>1, <3>2, <3>3, <3>4 DEF Length, Header
  <2>2. Rest(p) \in Seq(GoodCell)
    <3>1. SubSeq(leftOver, Length(p) + 1, Len(leftOver)) \in Seq(GoodCell)
      BY <2>1, CutOff DEF FramingInv
    <3>2. QED
      BY <3>1 DEF Rest, Length
  <2>3. /\ p.payload \in Seq(ByteType) /\ p.op \in Senders /\ p.id \in Ids
    BY <2>1 DEF GoodPacket, PacketType
  <2>4. message \in Seq(ByteType)
    BY <2>3 DEF Continued, FramingInv
  <2>5. [op |-> p.op, id |-> p.id] \in [op : Senders, id : Ids]
    BY <2>3
  <2>6. IsWhole(message) \in BOOLEAN
    BY DEF IsWhole
  <2>7. /\ leftOver' = Rest(p)
        /\ UNCHANGED <<nextId, sending, ended, closed, wire, upset>>
        /\ \/ /\ processed' = Append(processed, message)
              /\ reading' = IsWhole(message)
              /\ current' = NoMessage /\ running' = <<>>
           \/ /\ current' = [op |-> p.op, id |-> p.id]
              /\ running' = message
              /\ UNCHANGED <<reading, processed>>
    BY <1>4 DEF ParsePacket, senderVars
  <2> HIDE DEF message, p
  <2>8. Append(processed, message) \in Seq(Seq(ByteType))
    BY <2>4 DEF FramingInv
  <2>9. <<>> \in Seq(ByteType)
    OBVIOUS
  <2>10. QED
    BY <2>2, <2>4, <2>5, <2>6, <2>7, <2>8, <2>9 DEF FramingInv
<1>5. CASE ReceiveEnd
  BY <1>5 DEF ReceiveEnd, FramingInv, senderVars
<1>6. ASSUME NEW length \in 1 .. MaxPacket, Receive(length)
      PROVE  FramingInv'
  <2> DEFINE chunk == SubSeq(wire, 1, length)
  <2>1. length \in Nat /\ length <= Len(wire)
    BY <1>6 DEF Receive, MaxPacket, FramingAssumptions, Header
  <2>2. chunk \in Seq(GoodCell) /\ wire' \in Seq(GoodCell)
    BY <1>6, <2>1, CutOff DEF FramingInv, Receive
  <2>3. leftOver' \in Seq(GoodCell)
    <3>1. leftOver \o chunk \in Seq(GoodCell)
      BY <2>2 DEF FramingInv
    <3>2. leftOver' \in {leftOver \o chunk, leftOver}
      BY <1>6 DEF Receive
    <3>3. QED
      BY <3>1, <3>2 DEF FramingInv
  <2>4. /\ reading' \in BOOLEAN
        /\ upset' \in SUBSET {"mixed", "zeros", "closed"}
        /\ UNCHANGED <<nextId, sending, ended, closed, current, running,
                       processed>>
    BY <1>6 DEF FramingInv, Receive, senderVars
  <2>5. QED
    BY <2>2, <2>3, <2>4 DEF FramingInv
<1>7. CASE UNCHANGED vars
  BY <1>7 DEF vars, senderVars, readerVars, FramingInv
<1>8. QED
  BY <1>1, <1>2, <1>3, <1>4, <1>5, <1>6, <1>7 DEF Next

LEMMA InvHasTypes == FramingInv => FramingTypeOK
<1> SUFFICES ASSUME FramingInv
             PROVE  FramingTypeOK
  OBVIOUS
<1>1. GoodPacket \subseteq PacketType
  BY DEF GoodPacket
<1>2. GoodCell \subseteq CellType
  BY <1>1 DEF GoodCell, CellType
<1>3. Seq(GoodPacket) \subseteq Seq(PacketType)
  BY <1>1
<1>4. Seq(GoodCell) \subseteq Seq(CellType)
  BY <1>2
<1>5. QED
  BY <1>3, <1>4 DEF FramingInv, FramingTypeOK

\* What the threads, the stream and the reader hold has its type.
THEOREM FramingTypeCorrect == Spec => []FramingTypeOK
<1>1. Spec => []FramingInv
  BY InitTypes, NextTypes, PTL DEF Spec
<1>2. QED
  BY <1>1, InvHasTypes, PTL

-----------------------------------------------------------------------------
(* Every cell of the stream lies in a whole packet.                         *)

InBlock(st, i) ==
    /\ 1 <= st[i].at /\ st[i].at <= i
    /\ i - st[i].at + Length(st[i].packet) <= Len(st)
    /\ \A k \in 1 .. Length(st[i].packet) :
          st[i - st[i].at + k] = [packet |-> st[i].packet, at |-> k]

IsBlocks(st) == \A i \in 1 .. Len(st) : InBlock(st, i)

LEMMA GoodCells ==
    ASSUME FramingAssumptions, NEW st \in Seq(GoodCell), NEW i \in 1 .. Len(st)
    PROVE  /\ Len(st) \in Nat /\ i \in Nat
           /\ st[i].packet \in GoodPacket
           /\ Length(st[i].packet) \in Nat /\ Length(st[i].packet) > Header
           /\ st[i].at \in 1 .. Length(st[i].packet)
           /\ st[i] = [packet |-> st[i].packet, at |-> st[i].at]
<1>1. st[i] \in GoodCell
  OBVIOUS
<1>2. /\ st[i].packet \in GoodPacket /\ st[i].at \in 1 .. MaxPacket
      /\ st[i].at <= Length(st[i].packet)
      /\ st[i] = [packet |-> st[i].packet, at |-> st[i].at]
  BY <1>1 DEF GoodCell
<1>3. Length(st[i].packet) \in Header + 1 .. MaxPacket
  BY <1>2, CellsOfAPacket
<1>4. MaxPacket \in Nat /\ Header \in Nat
  BY FramingAssumptions DEF MaxPacket, Header, FramingAssumptions
<1>5. QED
  BY <1>2, <1>3, <1>4

LEMMA FirstBlock ==
    ASSUME FramingAssumptions, NEW st \in Seq(GoodCell), IsBlocks(st), st # <<>>
    PROVE  LET p == st[1].packet
           IN  /\ st[1].at = 1 /\ p \in GoodPacket
               /\ Length(p) \in Nat /\ Length(p) > Header
               /\ Length(p) <= Len(st)
               /\ \A k \in 1 .. Length(p) : st[k] = [packet |-> p, at |-> k]
<1> DEFINE p == st[1].packet
           a == st[1].at
<1>1. 1 \in 1 .. Len(st) /\ Len(st) \in Nat
  OBVIOUS
<1>2. /\ p \in GoodPacket /\ Length(p) \in Nat /\ Length(p) > Header
      /\ a \in 1 .. Length(p)
  BY <1>1, GoodCells
<1>3. /\ 1 <= a /\ a <= 1 /\ 1 - a + Length(p) <= Len(st)
      /\ \A k \in 1 .. Length(p) : st[1 - a + k] = [packet |-> p, at |-> k]
  BY <1>1 DEF IsBlocks, InBlock
<1> HIDE DEF p, a
<1>4. a = 1 /\ Length(p) <= Len(st)
  BY <1>1, <1>2, <1>3
<1>5. ASSUME NEW k \in 1 .. Length(p)
      PROVE  st[k] = [packet |-> p, at |-> k]
  <2>1. 1 - a + k = k
    BY <1>2, <1>4
  <2>2. QED
    BY <1>3, <2>1
<1>6. QED
  BY <1>2, <1>4, <1>5 DEF p, a

LEMMA AddBlock ==
    ASSUME FramingAssumptions, NEW st \in Seq(GoodCell), IsBlocks(st),
           NEW p \in GoodPacket
    PROVE  IsBlocks(st \o Cells(p))
<1> DEFINE n == Len(st)
           L == Length(p)
           new == st \o Cells(p)
<1>1. /\ Cells(p) \in Seq(GoodCell) /\ L \in Nat /\ Len(Cells(p)) = L
      /\ \A k \in 1 .. L : Cells(p)[k] = [packet |-> p, at |-> k]
  <2>1. L \in Header + 1 .. MaxPacket /\ MaxPacket \in Nat /\ Header \in Nat
    BY CellsOfAPacket DEF MaxPacket, Header, FramingAssumptions
  <2>2. QED
    BY <2>1, CellsOfAPacket
<1>2. /\ n \in Nat /\ new \in Seq(GoodCell) /\ Len(new) = n + L
      /\ \A i \in 1 .. n : new[i] = st[i]
      /\ \A k \in 1 .. L : new[n + k] = [packet |-> p, at |-> k]
  <2>1. /\ new \in Seq(GoodCell) /\ Len(new) = n + L /\ n \in Nat
        /\ \A i \in 1 .. n : new[i] = st[i]
        /\ \A k \in 1 .. L : new[n + k] = Cells(p)[k]
    <3>1. Cells(p) \in Seq(GoodCell)
      BY <1>1
    <3>2. /\ new \in Seq(GoodCell) /\ Len(new) = n + Len(Cells(p)) /\ n \in Nat
          /\ \A i \in 1 .. n : new[i] = st[i]
          /\ \A k \in 1 .. Len(Cells(p)) : new[n + k] = Cells(p)[k]
      BY ONLY <3>1, Joined, st \in Seq(GoodCell)
    <3>3. QED
      BY ONLY <1>1, <3>2
  <2>2. QED
    BY ONLY <1>1, <2>1
<1> HIDE DEF n, L, new
<1>3. ASSUME NEW i \in 1 .. n
      PROVE  /\ 1 <= new[i].at /\ new[i].at <= i
             /\ i - new[i].at + Length(new[i].packet) <= n + L
             /\ \A k \in 1 .. Length(new[i].packet) :
                   new[i - new[i].at + k] = [packet |-> new[i].packet, at |-> k]
  <2> DEFINE q == st[i].packet
             a == st[i].at
  <2>1. /\ q \in GoodPacket /\ Length(q) \in Nat /\ a \in 1 .. Length(q)
        /\ i \in Nat
    BY GoodCells DEF n
  <2>2. /\ 1 <= a /\ a <= i /\ i - a + Length(q) <= n
        /\ \A k \in 1 .. Length(q) : st[i - a + k] = [packet |-> q, at |-> k]
    BY DEF IsBlocks, InBlock, n
  <2>3. new[i].packet = q /\ new[i].at = a
    BY <1>2
  <2> HIDE DEF q, a
  <2>4. ASSUME NEW k \in 1 .. Length(q)
        PROVE  new[i - a + k] = [packet |-> q, at |-> k]
    <3>1. i - a + k \in 1 .. n
      BY <1>2, <2>1, <2>2
    <3>2. QED
      BY <1>2, <2>2, <3>1
  <2>5. i - a + Length(q) <= n + L
    BY <1>1, <1>2, <2>1, <2>2
  <2>6. QED
    BY <2>2, <2>3, <2>4, <2>5
<1>4. ASSUME NEW i \in 1 .. n + L, i > n
      PROVE  /\ 1 <= new[i].at /\ new[i].at <= i
             /\ i - new[i].at + Length(new[i].packet) <= n + L
             /\ \A k \in 1 .. Length(new[i].packet) :
                   new[i - new[i].at + k] = [packet |-> new[i].packet, at |-> k]
  <2>1. i - n \in 1 .. L /\ n + (i - n) = i /\ i \in Nat
    BY <1>1, <1>2, <1>4
  <2>2. new[i] = [packet |-> p, at |-> i - n]
    BY <1>2, <2>1
  <2>3. new[i].packet = p /\ new[i].at = i - n
    BY <2>2
  <2>4. i - (i - n) = n
    BY <1>2, <2>1
  <2>5. 1 <= i - n /\ i - n <= i /\ n + L <= n + L
    BY <1>1, <1>2, <2>1
  <2>6. QED
    BY <1>2, <2>3, <2>4, <2>5 DEF L
<1>5. \A i \in 1 .. n + L : i \in 1 .. n \/ i > n
  BY <1>1, <1>2
<1>6. QED
  BY <1>2, <1>3, <1>4, <1>5 DEF IsBlocks, InBlock, new

LEMMA DropBlock ==
    ASSUME FramingAssumptions, NEW st \in Seq(GoodCell), IsBlocks(st), st # <<>>
    PROVE  IsBlocks(SubSeq(st, Length(st[1].packet) + 1, Len(st)))
<1> DEFINE n == Len(st)
           p == st[1].packet
           L == Length(p)
           new == SubSeq(st, L + 1, n)
<1>1. /\ L \in Nat /\ L > 0 /\ L <= n /\ n \in Nat
      /\ \A k \in 1 .. L : st[k] = [packet |-> p, at |-> k]
  BY FirstBlock DEF Header
<1>2. /\ new \in Seq(GoodCell) /\ Len(new) = n - L
      /\ \A i \in 1 .. n - L : new[i] = st[L + i]
  BY <1>1, CutOff
<1> HIDE DEF n, p, L, new
<1>3. ASSUME NEW i \in 1 .. n - L
      PROVE  /\ 1 <= new[i].at /\ new[i].at <= i
             /\ i - new[i].at + Length(new[i].packet) <= n - L
             /\ \A k \in 1 .. Length(new[i].packet) :
                   new[i - new[i].at + k] = [packet |-> new[i].packet, at |-> k]
  <2> DEFINE q == st[L + i].packet
             a == st[L + i].at
  <2>1. L + i \in 1 .. n /\ i \in Nat /\ L + i \in Nat
    BY <1>1
  <2>2. /\ q \in GoodPacket /\ Length(q) \in Nat /\ a \in 1 .. Length(q)
    BY <2>1, GoodCells DEF n
  <2>3. /\ 1 <= a /\ a <= L + i /\ (L + i) - a + Length(q) <= n
        /\ \A k \in 1 .. Length(q) : st[(L + i) - a + k] = [packet |-> q, at |-> k]
    <3>1. InBlock(st, L + i)
      BY <2>1 DEF IsBlocks, n
    <3>2. QED
      BY <3>1 DEF InBlock, n
  <2>4. new[i].packet = q /\ new[i].at = a
    BY <1>2
  <2> HIDE DEF q, a
  \* It does not reach into the first packet.
  <2>5. a <= i
    <3> SUFFICES ASSUME a > i
                 PROVE  FALSE
      BY <2>1, <2>2
    <3> DEFINE b == (L + i) - a
    <3>1. b \in 0 .. L - 1 /\ b + 1 \in 1 .. L /\ 1 \in 1 .. Length(q)
      BY <1>1, <2>1, <2>2, <2>3
    <3>2. st[b + 1] = [packet |-> q, at |-> 1]
      BY <2>3, <3>1
    <3>3. st[b + 1] = [packet |-> p, at |-> b + 1]
      BY <1>1, <3>1
    <3>4. q = p /\ b + 1 = 1
      BY ONLY <3>2, <3>3
    <3>5. a = L + i /\ Length(q) = L
      <4>1. Length(q) = L
        BY <3>4 DEF L
      <4>2. QED
        BY <1>1, <2>1, <2>2, <3>4, <4>1
    <3>6. QED
      BY <1>1, <2>1, <2>2, <3>5
  <2>6. ASSUME NEW k \in 1 .. Length(q)
        PROVE  new[i - a + k] = [packet |-> q, at |-> k]
    <3>1. i - a + k \in 1 .. n - L /\ L + (i - a + k) = (L + i) - a + k
      BY <1>1, <2>1, <2>2, <2>3, <2>5
    <3>2. QED
      BY <1>2, <2>3, <3>1
  <2>7. i - a + Length(q) <= n - L
    BY <1>1, <2>1, <2>2, <2>3
  <2>8. QED
    BY <2>2, <2>4, <2>5, <2>6, <2>7
<1>4. QED
  BY <1>2, <1>3 DEF IsBlocks, InBlock, new, n, p, L

\* Next to a cell of a packet is the next one, or the first one of another.
LEMMA Neighbours ==
    ASSUME FramingAssumptions, NEW st \in Seq(GoodCell), IsBlocks(st),
           NEW i \in 1 .. Len(st) - 1
    PROVE  \/ /\ st[i + 1].packet = st[i].packet
              /\ st[i + 1].at = st[i].at + 1
           \/ /\ st[i].at = Length(st[i].packet)
              /\ st[i + 1].at = 1
<1> DEFINE p == st[i].packet
           a == st[i].at
           q == st[i + 1].packet
           b == st[i + 1].at
<1>1. i \in 1 .. Len(st) /\ i + 1 \in 1 .. Len(st) /\ i \in Nat
  OBVIOUS
<1>2. /\ Length(p) \in Nat /\ a \in 1 .. Length(p)
      /\ Length(q) \in Nat /\ b \in 1 .. Length(q)
      /\ st[i] = [packet |-> p, at |-> a]
  BY <1>1, GoodCells
<1>3. InBlock(st, i) /\ InBlock(st, i + 1)
  BY <1>1 DEF IsBlocks
<1>q. /\ \A k \in 1 .. Length(p) : st[i - a + k] = [packet |-> p, at |-> k]
      /\ \A k \in 1 .. Length(q) : st[(i + 1) - b + k] = [packet |-> q, at |-> k]
  BY <1>3 DEF InBlock
<1> HIDE DEF p, a, q, b
<1>4. CASE a < Length(p)
  <2>1. a + 1 \in 1 .. Length(p) /\ i - a + (a + 1) = i + 1
    BY <1>1, <1>2, <1>4
  <2>2. st[i + 1] = [packet |-> p, at |-> a + 1]
    BY <1>q, <2>1
  <2>3. QED
    BY <2>2 DEF p, a, q, b
<1>5. CASE a = Length(p) /\ b > 1
  <2>1. b - 1 \in 1 .. Length(q) /\ (i + 1) - b + (b - 1) = i
    BY <1>1, <1>2, <1>5
  <2>2. st[i] = [packet |-> q, at |-> b - 1]
    BY <1>q, <2>1
  <2>3. p = q /\ a = b - 1
    BY ONLY <1>2, <2>2
  <2>4. QED
    BY <1>2, <1>5, <2>3
<1>6. QED
  BY <1>2, <1>4, <1>5 DEF p, a, q, b

\* The last cell of a stream is the last one of its packet.
LEMMA LastCell ==
    ASSUME FramingAssumptions, NEW st \in Seq(GoodCell), IsBlocks(st), st # <<>>
    PROVE  st[Len(st)].at = Length(st[Len(st)].packet)
<1>1. Len(st) \in 1 .. Len(st) /\ Len(st) \in Nat
  OBVIOUS
<1>2. /\ Length(st[Len(st)].packet) \in Nat
      /\ st[Len(st)].at \in 1 .. Length(st[Len(st)].packet)
  BY <1>1, GoodCells
<1>3. Len(st) - st[Len(st)].at + Length(st[Len(st)].packet) <= Len(st)
  BY <1>1 DEF IsBlocks, InBlock
<1>4. QED
  BY <1>1, <1>2, <1>3

-----------------------------------------------------------------------------
(* The stream: what has been read and not parsed, and what is on its way.   *)

Stream == leftOver \o wire

LEMMA StreamIsTyped ==
    ASSUME FramingInv
    PROVE  /\ Stream \in Seq(GoodCell) /\ Len(Stream) = Len(leftOver) + Len(wire)
           /\ Len(leftOver) \in Nat /\ Len(wire) \in Nat
           /\ \A i \in 1 .. Len(leftOver) : Stream[i] = leftOver[i]
           /\ \A i \in 1 .. Len(wire) : Stream[Len(leftOver) + i] = wire[i]
BY DEF FramingInv, Stream

\* Sequences of cells that have the same length and the same cells are the same.
LEMMA SameCells ==
    ASSUME NEW S, NEW s \in Seq(S), NEW t \in Seq(S), Len(s) = Len(t),
           \A i \in 1 .. Len(s) : s[i] = t[i]
    PROVE  s = t
OBVIOUS

\* Cut in two, a sequence is its two parts.
LEMMA Rejoined ==
    ASSUME NEW S, NEW l \in Seq(S), NEW w \in Seq(S), NEW m \in Nat, m <= Len(w)
    PROVE  (l \o SubSeq(w, 1, m)) \o SubSeq(w, m + 1, Len(w)) = l \o w
<1> DEFINE front == SubSeq(w, 1, m)
           rest == SubSeq(w, m + 1, Len(w))
<1>1. /\ front \in Seq(S) /\ rest \in Seq(S)
      /\ Len(front) = m /\ Len(rest) = Len(w) - m
      /\ \A i \in 1 .. m : front[i] = w[i]
      /\ \A i \in 1 .. Len(w) - m : rest[i] = w[m + i]
  BY CutOff
<1> HIDE DEF front, rest
<1>2. /\ front \o rest \in Seq(S) /\ Len(front \o rest) = Len(w)
      /\ \A i \in 1 .. m : (front \o rest)[i] = front[i]
      /\ \A i \in 1 .. Len(w) - m : (front \o rest)[m + i] = rest[i]
  BY <1>1
<1>3. ASSUME NEW i \in 1 .. Len(w)
      PROVE  (front \o rest)[i] = w[i]
  <2>0. Len(w) \in Nat /\ i \in Nat
    OBVIOUS
  <2>1. CASE i <= m
    <3>1. i \in 1 .. m
      BY <2>1
    <3>2. QED
      BY ONLY Zenon, <1>1, <1>2, <3>1
  <2>2. CASE i > m
    <3>1. i - m \in 1 .. Len(w) - m /\ m + (i - m) = i
      BY <2>0, <2>2
    <3>2. (front \o rest)[m + (i - m)] = w[m + (i - m)]
      BY ONLY <1>1, <1>2, <3>1
    <3>3. QED
      BY <3>1, <3>2
  <2>3. i <= m \/ i > m
    BY <2>0
  <2>4. QED
    BY ONLY <2>1, <2>2, <2>3
<1>4. front \o rest = w
  BY ONLY <1>2, <1>3, SameCells
<1>5. (l \o front) \o rest = l \o (front \o rest)
  <2>1. l \in Seq(S) /\ front \in Seq(S) /\ rest \in Seq(S)
    BY <1>1
  <2>2. QED
    BY ONLY <2>1, ConcatAssociative
<1>6. QED
  BY <1>4, <1>5 DEF front, rest

\* What is cut off a sequence is cut off what it begins.
LEMMA CutOffTheFirst ==
    ASSUME NEW S, NEW l \in Seq(S), NEW w \in Seq(S), NEW m \in Nat, m <= Len(l)
    PROVE  SubSeq(l, m + 1, Len(l)) \o w = SubSeq(l \o w, m + 1, Len(l \o w))
<1> DEFINE rest == SubSeq(l, m + 1, Len(l))
           all == SubSeq(l \o w, m + 1, Len(l \o w))
<1>1. /\ rest \in Seq(S) /\ Len(rest) = Len(l) - m
      /\ \A i \in 1 .. Len(l) - m : rest[i] = l[m + i]
  BY CutOff
<1>2. /\ l \o w \in Seq(S) /\ Len(l \o w) = Len(l) + Len(w)
      /\ \A i \in 1 .. Len(l) : (l \o w)[i] = l[i]
      /\ \A i \in 1 .. Len(w) : (l \o w)[Len(l) + i] = w[i]
      /\ Len(l) \in Nat /\ Len(w) \in Nat
  OBVIOUS
<1>3. /\ all \in Seq(S) /\ Len(all) = Len(l) + Len(w) - m
      /\ \A i \in 1 .. Len(l) + Len(w) - m : all[i] = (l \o w)[m + i]
  <2>1. m <= Len(l \o w)
    BY <1>2
  <2>2. QED
    BY <1>2, <2>1, CutOff
<1> HIDE DEF rest, all
<1>4. /\ rest \o w \in Seq(S) /\ Len(rest \o w) = Len(l) + Len(w) - m
      /\ \A i \in 1 .. Len(l) - m : (rest \o w)[i] = rest[i]
      /\ \A i \in 1 .. Len(w) : (rest \o w)[(Len(l) - m) + i] = w[i]
  <2>1. /\ rest \o w \in Seq(S) /\ Len(rest \o w) = Len(rest) + Len(w)
        /\ \A i \in 1 .. Len(rest) : (rest \o w)[i] = rest[i]
        /\ \A i \in 1 .. Len(w) : (rest \o w)[Len(rest) + i] = w[i]
    <3>1. rest \in Seq(S) /\ w \in Seq(S)
      BY <1>1
    <3>2. QED
      BY ONLY <3>1, Joined
  <2>2. Len(l) - m + Len(w) = Len(l) + Len(w) - m
    BY <1>2
  <2>3. QED
    BY ONLY <1>1, <2>1, <2>2
<1>5. ASSUME NEW i \in 1 .. Len(l) + Len(w) - m
      PROVE  (rest \o w)[i] = all[i]
  <2>1. CASE i <= Len(l) - m
    <3>1. i \in 1 .. Len(l) - m /\ m + i \in 1 .. Len(l)
      BY <1>2, <2>1
    <3>2. (rest \o w)[i] = l[m + i] /\ (l \o w)[m + i] = l[m + i]
      BY ONLY <1>1, <1>2, <1>4, <3>1
    <3>3. QED
      BY <1>3, <3>2
  <2>2. CASE i > Len(l) - m
    <3> DEFINE j == i - (Len(l) - m)
    <3>1. /\ j \in 1 .. Len(w) /\ (Len(l) - m) + j = i
          /\ m + i = Len(l) + j
      BY <1>2, <2>2
    <3> HIDE DEF j
    <3>2. (rest \o w)[i] = w[j] /\ (l \o w)[m + i] = w[j]
      BY ONLY <1>2, <1>4, <3>1
    <3>3. QED
      BY ONLY Zenon, <1>3, <3>2, i \in 1 .. Len(l) + Len(w) - m
  <2>3. i <= Len(l) - m \/ i > Len(l) - m
    BY <1>2
  <2>4. QED
    BY ONLY <2>1, <2>2, <2>3
<1>6. rest \o w = all
  BY ONLY <1>3, <1>4, <1>5, SameCells
<1>7. QED
  BY <1>6 DEF rest, all

\* However long a chunk is, reading it leaves the stream as it is.
LEMMA ReceivedStream ==
    ASSUME FramingInv, NEW length \in 1 .. MaxPacket, Receive(length)
    PROVE  "zeros" \in upset' \/ Stream' = Stream
<1>1. length \in Nat /\ length <= Len(wire)
  BY DEF Receive
<1>2. CASE leftOver' = leftOver \o SubSeq(wire, 1, length)
  <2>1. wire' = SubSeq(wire, length + 1, Len(wire))
    BY DEF Receive
  <2>2. wire \in Seq(GoodCell) /\ leftOver \in Seq(GoodCell)
    BY DEF FramingInv
  <2>3. QED
    BY <1>1, <1>2, <2>1, <2>2, Rejoined DEF Stream
<1>3. QED
  BY <1>2 DEF Receive

LEMMA SentStream ==
    ASSUME FramingInv, NEW s \in Senders, SendPacket(s), ~closed
    PROVE  /\ Head(sending[s]) \in GoodPacket
           /\ Stream' = Stream \o Cells(Head(sending[s]))
<1>1. sending[s] \in Seq(GoodPacket) /\ sending[s] # <<>>
  BY DEF FramingInv, SendPacket
<1>2. Head(sending[s]) \in GoodPacket
  BY <1>1
<1>3. Cells(Head(sending[s])) \in Seq(GoodCell)
  BY <1>2, FramingAssumptions, CellsOfAPacket
<1>4. leftOver \o (wire \o Cells(Head(sending[s])))
         = (leftOver \o wire) \o Cells(Head(sending[s]))
  <2>1. leftOver \in Seq(GoodCell) /\ wire \in Seq(GoodCell)
    BY DEF FramingInv
  <2>2. QED
    BY ONLY <1>3, <2>1, ConcatAssociative
<1>5. QED
  <2>1. leftOver' = leftOver /\ wire' = wire \o Cells(Head(sending[s]))
    BY DEF SendPacket, readerVars
  <2>2. QED
    BY ONLY <1>2, <1>4, <2>1 DEF Stream

\* What is parsed is the first packet of the stream, as a whole.
LEMMA ParsedStream ==
    ASSUME FramingInv, ParsePacket, IsBlocks(Stream)
    PROVE  LET p == leftOver[Header].packet
           IN  /\ Stream # <<>> /\ p = Stream[1].packet
               /\ Stream' = SubSeq(Stream, Length(p) + 1, Len(Stream))
<1>1. /\ Stream \in Seq(GoodCell) /\ Len(Stream) = Len(leftOver) + Len(wire)
      /\ Len(leftOver) \in Nat /\ Len(wire) \in Nat
      /\ \A i \in 1 .. Len(leftOver) : Stream[i] = leftOver[i]
  BY StreamIsTyped
<1>2. Len(leftOver) > Header /\ Header = 3
  BY DEF ParsePacket, Parsable, Header
<1>3. Stream # <<>> /\ Stream[Header] = leftOver[Header]
  BY <1>1, <1>2
<1> DEFINE p == Stream[1].packet
<1>4. /\ p \in GoodPacket /\ Length(p) \in Nat /\ Length(p) > Header
      /\ \A k \in 1 .. Length(p) : Stream[k] = [packet |-> p, at |-> k]
  BY <1>1, <1>3, FramingAssumptions, FirstBlock
<1> HIDE DEF p
<1>5. Stream[Header] = [packet |-> p, at |-> Header]
  BY <1>2, <1>4
<1>6. leftOver[Header].packet = p
  BY <1>3, <1>5
<1>7. Length(p) <= Len(leftOver)
  <2>1. Len(p.payload) \in Nat
    BY <1>4 DEF GoodPacket, PacketType
  <2>2. Len(leftOver) - Header >= Len(p.payload)
    BY <1>6 DEF ParsePacket, Parsable
  <2>3. QED
    BY <1>1, <1>2, <2>1, <2>2 DEF Length
<1>8. /\ leftOver' = SubSeq(leftOver, Length(p) + 1, Len(leftOver))
      /\ wire' = wire
  BY <1>6 DEF ParsePacket, Rest, Length
<1>9. Stream' = SubSeq(Stream, Length(p) + 1, Len(Stream))
  <2>1. leftOver \in Seq(GoodCell) /\ wire \in Seq(GoodCell)
    BY DEF FramingInv
  <2>2. SubSeq(leftOver, Length(p) + 1, Len(leftOver)) \o wire
           = SubSeq(leftOver \o wire, Length(p) + 1, Len(leftOver \o wire))
    BY <1>4, <1>7, <2>1, CutOffTheFirst
  <2>3. QED
    BY <1>8, <2>2 DEF Stream
<1>10. QED
  BY <1>3, <1>6, <1>9 DEF p

-----------------------------------------------------------------------------
(* Packets stay together.                                                   *)

BlocksInv ==
    /\ "zeros" \notin upset => IsBlocks(Stream)
    /\ "zeros" \in upset => ~reading
    /\ closed => "closed" \in upset

LEMMA InitBlocks == Init => BlocksInv
<1> SUFFICES ASSUME Init
             PROVE  BlocksInv
  OBVIOUS
<1>1. Stream = <<>>
  BY DEF Init, Stream
<1>2. QED
  BY <1>1 DEF Init, BlocksInv, IsBlocks

LEMMA NextBlocks == FramingInv /\ BlocksInv /\ [Next]_vars => BlocksInv'
<1> SUFFICES ASSUME FramingInv, BlocksInv, [Next]_vars
             PROVE  BlocksInv'
  OBVIOUS
<1> USE FramingAssumptions
<1>t. Stream \in Seq(GoodCell)
  BY StreamIsTyped
<1>1. ASSUME NEW s \in Senders, NEW length \in 1 .. MaxLength, Encode(s, length)
      PROVE  BlocksInv'
  BY <1>1 DEF Encode, BlocksInv, Stream, readerVars
<1>2. ASSUME NEW s \in Senders, EncodeTooLargeId(s)
      PROVE  BlocksInv'
  BY <1>2 DEF EncodeTooLargeId, BlocksInv, Stream, readerVars
<1>3. ASSUME NEW s \in Senders, SendPacket(s)
      PROVE  BlocksInv'
  <2>1. CASE closed
    BY <1>3, <2>1 DEF SendPacket, BlocksInv, Stream, readerVars
  <2>2. CASE ~closed
    <3>1. "zeros" \notin upset => IsBlocks(Stream')
      BY <1>3, <1>t, <2>2, SentStream, AddBlock DEF BlocksInv
    <3>2. /\ "zeros" \in upset' <=> "zeros" \in upset
          /\ "closed" \in upset => "closed" \in upset'
          /\ UNCHANGED <<reading, closed>>
      BY <1>3 DEF SendPacket, readerVars
    <3>3. IsBlocks(Stream)' <=> IsBlocks(Stream')
      BY DEF IsBlocks, InBlock, Stream, Length
    <3>4. QED
      BY <3>1, <3>2, <3>3 DEF BlocksInv
  <2>3. QED
    BY <2>1, <2>2
<1>4. CASE ParsePacket
  <2>1. reading /\ UNCHANGED <<upset, closed>>
    BY <1>4 DEF ParsePacket, senderVars
  <2>2. "zeros" \notin upset
    BY <2>1 DEF BlocksInv
  <2>3. IsBlocks(Stream')
    BY <1>4, <1>t, <2>2, ParsedStream, DropBlock DEF BlocksInv
  <2>4. QED
    BY <2>1, <2>2, <2>3 DEF BlocksInv
<1>5. CASE ReceiveEnd
  BY <1>5 DEF ReceiveEnd, BlocksInv, Stream, senderVars
<1>6. ASSUME NEW length \in 1 .. MaxPacket, Receive(length)
      PROVE  BlocksInv'
  <2>1. /\ "zeros" \in upset' => ~reading' \/ "zeros" \in upset
        /\ "zeros" \in upset => ~reading
        /\ reading /\ closed' = closed /\ upset \subseteq upset'
    BY <1>6 DEF Receive, BlocksInv, senderVars
  <2>2. "zeros" \in upset' \/ Stream' = Stream
    BY <1>6, ReceivedStream
  <2>3. QED
    BY <2>1, <2>2 DEF BlocksInv
<1>7. CASE UNCHANGED vars
  BY <1>7 DEF vars, senderVars, readerVars, BlocksInv, Stream
<1>8. QED
  BY <1>1, <1>2, <1>3, <1>4, <1>5, <1>6, <1>7 DEF Next

LEMMA BlocksStayTogether == FramingInv /\ BlocksInv => PacketsStayTogether
<1> SUFFICES ASSUME FramingInv, BlocksInv, "zeros" \notin upset
             PROVE  /\ Stream # <<>> => Stream[1].at = 1
                    /\ \A i \in 1 .. Len(Stream) - 1 :
                         \/ /\ Stream[i + 1].packet = Stream[i].packet
                            /\ Stream[i + 1].at = Stream[i].at + 1
                         \/ /\ Stream[i].at = Length(Stream[i].packet)
                            /\ Stream[i + 1].at = 1
  BY DEF PacketsStayTogether, Stream, Length
<1>1. Stream \in Seq(GoodCell) /\ IsBlocks(Stream)
  BY StreamIsTyped DEF BlocksInv
<1>2. QED
  BY <1>1, FramingAssumptions, FirstBlock, Neighbours

LEMMA BlocksInvariant == Spec => [](FramingInv /\ BlocksInv)
BY InitTypes, NextTypes, InitBlocks, NextBlocks, PTL DEF Spec

\* The reader always has a header first, and the cells of each packet together,
\* however the stream is cut into chunks and the two threads alternate.
THEOREM StreamOfPackets == Spec => []PacketsStayTogether
BY BlocksInvariant, BlocksStayTogether, PTL

-----------------------------------------------------------------------------
(* As long as the messages of the two threads have not been mixed, every    *)
(* packet of the stream goes on where the one before it stopped, the first  *)
(* one where the reader is, and the next one to be sent where the last one  *)
(* of the stream stopped.                                                   *)

\* p is what a reader waits for that has r of the message c.
GoesOn(r, c, p) ==
    IF r = <<>> THEN First(p) = 1
    ELSE p.op = c.op /\ p.id = c.id /\ First(p) = Len(r) + 1

\* p is what may follow the stream, and s is in the middle of a message.
Fits(st, r, c, p) ==
    IF st = <<>> THEN GoesOn(r, c, p) ELSE Follows(st[Len(st)].packet, p)

Midway(st, r, c, s) ==
    IF st = <<>> THEN r # <<>> /\ c.op = s
    ELSE ~Ends(st[Len(st)].packet) /\ st[Len(st)].packet.op = s

ReaderOK(r, c) ==
    IF r = <<>> THEN c = NoMessage
    ELSE /\ c \in [op : Senders, id : Ids]
         /\ \A j \in 1 .. Len(r) : r[j].op = c.op /\ r[j].id = c.id /\ r[j].at = j

StreamOK(st, r, c) ==
    /\ st # <<>> => GoesOn(r, c, st[1].packet)
    /\ \A i \in 1 .. Len(st) - 1 :
          st[i].at = Length(st[i].packet) =>
             Follows(st[i].packet, st[i + 1].packet)

SendersOK(st, r, c, snd) ==
    \A s \in Senders :
       IF Midway(st, r, c, s)
       THEN /\ snd[s] # <<>> /\ First(Head(snd[s])) > 1
            /\ Fits(st, r, c, Head(snd[s]))
       ELSE snd[s] # <<>> => First(Head(snd[s])) = 1

LEMMA PacketFacts ==
    ASSUME FramingAssumptions, NEW p \in GoodPacket
    PROVE  /\ p.op \in Senders /\ p.id \in Ids /\ p.payload \in Seq(ByteType)
           /\ Len(p.payload) \in Nat \ {0}
           /\ First(p) \in Nat \ {0} /\ Length(p) \in Nat /\ Length(p) > Header
           /\ \A j \in 1 .. Len(p.payload) :
                 /\ p.payload[j].op = p.op /\ p.payload[j].id = p.id
                 /\ p.payload[j].at = First(p) + j - 1
<1>1. /\ p.op \in Senders /\ p.id \in Ids /\ p.payload \in Seq(ByteType)
      /\ p.payload # <<>>
      /\ \A j \in 1 .. Len(p.payload) :
            /\ p.payload[j].op = p.op /\ p.payload[j].id = p.id
            /\ p.payload[j].at = First(p) + j - 1
  BY DEF GoodPacket, PacketType, IsRun
<1>2. Len(p.payload) \in Nat \ {0}
  BY <1>1
<1>3. p.payload[1] \in ByteType
  BY <1>1, <1>2
<1>4. First(p) \in Nat \ {0}
  BY <1>3, FramingAssumptions DEF ByteType, First, FramingAssumptions
<1>5. Length(p) \in Nat /\ Length(p) > Header
  BY <1>2 DEF Length, Header
<1>6. QED
  BY <1>1, <1>2, <1>4, <1>5

LEMMA RestOfMessage ==
    ASSUME NEW snd \in Seq(GoodPacket), NEW s \in Senders,
           IsRestOfMessage(snd, s), snd # <<>>
    PROVE  /\ Head(snd) \in GoodPacket /\ Head(snd).op = s
           /\ Tail(snd) \in Seq(GoodPacket) /\ IsRestOfMessage(Tail(snd), s)
           /\ IF Ends(Head(snd)) THEN Tail(snd) = <<>>
              ELSE /\ Tail(snd) # <<>> /\ Head(Tail(snd)) \in GoodPacket
                   /\ Follows(Head(snd), Head(Tail(snd)))
<1> DEFINE n == Len(snd)
           rest == Tail(snd)
<1>1. /\ n \in Nat \ {0} /\ Head(snd) = snd[1] /\ snd[1] \in GoodPacket
      /\ rest \in Seq(GoodPacket) /\ Len(rest) = n - 1
      /\ \A i \in 1 .. n - 1 : rest[i] = snd[i + 1]
      /\ n > 1 => rest # <<>> /\ Head(rest) = snd[2] /\ snd[2] \in GoodPacket
      /\ n = 1 => rest = <<>>
      /\ rest # <<>> => n > 1
  <2>1. n \in Nat \ {0} /\ Head(snd) = snd[1] /\ snd[1] \in GoodPacket
    OBVIOUS
  <2>2. /\ rest \in Seq(GoodPacket) /\ Len(rest) = n - 1
        /\ \A i \in 1 .. n - 1 : rest[i] = snd[i + 1]
    OBVIOUS
  <2> HIDE DEF n, rest
  <2>3. ASSUME n > 1
        PROVE  rest # <<>> /\ Head(rest) = snd[2] /\ snd[2] \in GoodPacket
    <3>1. rest # <<>> /\ 1 \in 1 .. n - 1 /\ 1 + 1 = 2
      BY <2>1, <2>2, <2>3
    <3>2. rest[1] = snd[2] /\ rest[1] \in GoodPacket /\ Head(rest) = rest[1]
      BY <2>2, <3>1
    <3>3. QED
      BY <3>1, <3>2
  <2>4. (n = 1 => rest = <<>>) /\ (rest # <<>> => n > 1)
    <3>1. rest = <<>> <=> Len(rest) = 0
      <4>1. \A q \in Seq(GoodPacket) : q = <<>> <=> Len(q) = 0
        OBVIOUS
      <4>2. QED
        BY ONLY Zenon, <2>2, <4>1
    <3>2. QED
      BY <2>1, <2>2, <3>1
  <2>5. QED
    BY <2>1, <2>2, <2>3, <2>4
<1>2. /\ \A k \in 1 .. n : snd[k].op = s
      /\ \A k \in 1 .. n - 1 : ~Ends(snd[k]) /\ Follows(snd[k], snd[k + 1])
      /\ Ends(snd[n])
  BY DEF IsRestOfMessage
<1> HIDE DEF n, rest
<1>3. snd[1].op = s
  BY <1>1, <1>2
<1>4. \A k \in 1 .. n - 1 : rest[k].op = s
  <2> SUFFICES ASSUME NEW k \in 1 .. n - 1
               PROVE  rest[k].op = s
    OBVIOUS
  <2>1. k + 1 \in 1 .. n
    BY <1>1
  <2>2. QED
    BY <1>1, <1>2, <2>1
<1>5. ASSUME NEW k \in 1 .. (n - 1) - 1
      PROVE  ~Ends(rest[k]) /\ Follows(rest[k], rest[k + 1])
  <2>1. k \in 1 .. n - 1 /\ k + 1 \in 1 .. n - 1
    BY <1>1
  <2>2. rest[k] = snd[k + 1] /\ rest[k + 1] = snd[(k + 1) + 1]
    BY <1>1, <2>1
  <2>3. QED
    BY <1>2, <2>1, <2>2
<1>6. rest # <<>> => Ends(rest[n - 1])
  <2> SUFFICES ASSUME rest # <<>>
               PROVE  Ends(rest[n - 1])
    OBVIOUS
  <2>1. n - 1 \in 1 .. n - 1 /\ (n - 1) + 1 = n
    BY <1>1
  <2>2. rest[n - 1] = snd[n]
    BY <1>1, <2>1
  <2>3. QED
    BY <1>2, <2>2
<1>7. IsRestOfMessage(rest, s)
  BY <1>1, <1>4, <1>5, <1>6 DEF IsRestOfMessage
<1>8. CASE n = 1
  BY <1>1, <1>2, <1>3, <1>7, <1>8 DEF rest
<1>9. CASE n > 1
  <2>1. 1 \in 1 .. n - 1
    BY <1>1, <1>9
  <2>2. ~Ends(snd[1]) /\ Follows(snd[1], snd[2])
    BY <1>2, <2>1
  <2>3. QED
    BY <1>1, <1>3, <1>7, <1>9, <2>2 DEF rest
<1>10. QED
  BY <1>1, <1>8, <1>9

\* Sending a packet while no other thread is in the middle of a message.
LEMMA SendKeepsOrder ==
    ASSUME FramingAssumptions, NEW st \in Seq(GoodCell), NEW r, NEW c,
           NEW snd \in [Senders -> Seq(GoodPacket)],
           \A t \in Senders : IsRestOfMessage(snd[t], t),
           r # <<>> => c.op \in Senders,
           StreamOK(st, r, c), SendersOK(st, r, c, snd),
           NEW s \in Senders, snd[s] # <<>>,
           \A t \in Senders \ {s} :
              ~(snd[t] # <<>> /\ First(Head(snd[t])) > 1)
    PROVE  LET new == st \o Cells(Head(snd[s]))
           IN  /\ StreamOK(new, r, c)
               /\ SendersOK(new, r, c, [snd EXCEPT ![s] = Tail(@)])
<1> DEFINE p == Head(snd[s])
           n == Len(st)
           L == Length(p)
           new == st \o Cells(p)
           rest == [snd EXCEPT ![s] = Tail(@)]
<1>1. /\ p \in GoodPacket /\ p.op = s /\ Tail(snd[s]) \in Seq(GoodPacket)
      /\ IF Ends(p) THEN Tail(snd[s]) = <<>>
         ELSE /\ Tail(snd[s]) # <<>> /\ Head(Tail(snd[s])) \in GoodPacket
              /\ Follows(p, Head(Tail(snd[s])))
  <2>1. snd[s] \in Seq(GoodPacket) /\ IsRestOfMessage(snd[s], s)
    OBVIOUS
  <2>2. QED
    BY <2>1, RestOfMessage
<1> HIDE DEF p
<1>2. /\ First(p) \in Nat \ {0} /\ Len(p.payload) \in Nat \ {0}
      /\ L \in Nat /\ L > Header
  BY <1>1, PacketFacts
<1>3. /\ Cells(p) \in Seq(GoodCell) /\ Len(Cells(p)) = L
      /\ \A k \in 1 .. L : Cells(p)[k] = [packet |-> p, at |-> k]
  BY <1>1, CellsOfAPacket
<1>4. /\ n \in Nat /\ new \in Seq(GoodCell) /\ Len(new) = n + L
      /\ \A i \in 1 .. n : new[i] = st[i]
      /\ \A k \in 1 .. L : new[n + k] = [packet |-> p, at |-> k]
      /\ n = 0 <=> st = <<>>
  <2>1. /\ new \in Seq(GoodCell) /\ Len(new) = n + L /\ n \in Nat
        /\ \A i \in 1 .. n : new[i] = st[i]
        /\ \A k \in 1 .. L : new[n + k] = Cells(p)[k]
    BY <1>3, Joined
  <2>2. n = 0 <=> st = <<>>
    OBVIOUS
  <2>3. QED
    BY ONLY <1>3, <2>1, <2>2
<1> HIDE DEF n, new
<1>f. new[n + 1] = [packet |-> p, at |-> 1]
  <2>1. 1 \in 1 .. L
    BY <1>2 DEF Header
  <2>2. QED
    BY <1>4, <2>1
<1>e. new[n + L] = [packet |-> p, at |-> L]
  <2>1. L \in 1 .. L
    BY <1>2 DEF Header
  <2>2. QED
    BY <1>4, <2>1
<1>5. Fits(st, r, c, p)
  <2>1. CASE Midway(st, r, c, s)
    BY <2>1 DEF SendersOK, p
  <2>2. CASE ~Midway(st, r, c, s)
    <3>1. First(p) = 1
      BY <2>2 DEF SendersOK, p
    <3>2. \A t \in Senders : ~Midway(st, r, c, t)
      BY <2>2 DEF SendersOK
    <3>3. CASE st = <<>>
      <4>1. r = <<>>
        BY <3>2, <3>3 DEF Midway
      <4>2. QED
        BY <3>1, <3>3, <4>1 DEF Fits, GoesOn
    <3>4. CASE st # <<>>
      <4>1. n \in 1 .. Len(st)
        BY <1>4, <3>4 DEF n
      <4>2. st[n].packet \in GoodPacket
        BY <4>1, GoodCells
      <4>3. st[n].packet.op \in Senders
        BY <4>2, PacketFacts
      <4>4. Ends(st[n].packet)
        BY <3>2, <3>4, <4>3 DEF Midway, n
      <4>5. QED
        BY <3>1, <3>4, <4>4 DEF Fits, Follows, n
    <3>5. QED
      BY <3>3, <3>4
  <2>3. QED
    BY <2>1, <2>2
<1> HIDE DEF L
<1>6. new # <<>> /\ GoesOn(r, c, new[1].packet)
  <2>1. CASE st = <<>>
    <3>1. n = 0 /\ 1 \in 1 .. L /\ n + 1 = 1
      BY <1>2, <1>4, <2>1 DEF Header
    <3>2. new[1].packet = p
      BY <1>f, <3>1
    <3>3. QED
      BY <1>2, <1>4, <1>5, <2>1, <3>1, <3>2 DEF Fits
  <2>2. CASE st # <<>>
    <3>1. 1 \in 1 .. n
      BY <1>4, <2>2
    <3>2. new[1] = st[1]
      BY <1>4, <3>1
    <3>3. new # <<>>
      BY <1>2, <1>4, <3>1
    <3>4. QED
      BY <2>2, <3>2, <3>3 DEF StreamOK
  <2>3. QED
    BY <2>1, <2>2
<1>7. ASSUME NEW i \in 1 .. n + L - 1, new[i].at = Length(new[i].packet)
      PROVE  Follows(new[i].packet, new[i + 1].packet)
  <2>0. i \in Nat \ {0}
    OBVIOUS
  <2>1. CASE i < n
    <3>1. i \in 1 .. n /\ i + 1 \in 1 .. n /\ i \in 1 .. n - 1
      BY <1>4, <2>0, <2>1
    <3>2. new[i] = st[i] /\ new[i + 1] = st[i + 1]
      BY <1>4, <3>1
    <3>3. QED
      BY <1>7, <3>1, <3>2 DEF StreamOK, n
  <2>2. CASE i = n
    <3>1. n \in 1 .. n /\ 1 \in 1 .. L /\ st # <<>>
      BY <1>2, <1>4, <2>0, <2>2 DEF Header
    <3>2. new[i] = st[n] /\ new[i + 1].packet = p
      BY <1>4, <1>f, <2>2, <3>1
    <3>3. QED
      BY <1>5, <3>1, <3>2 DEF Fits, n
  <2>3. CASE i > n
    <3>1. i - n \in 1 .. L /\ n + (i - n) = i /\ i - n # L
      BY <1>2, <1>4, <2>0, <2>3
    <3>2. new[i] = [packet |-> p, at |-> i - n]
      BY <1>4, <3>1
    <3>3. new[i].at = i - n /\ Length(new[i].packet) = L
      BY <3>2 DEF L
    <3>4. QED
      BY <1>7, <3>1, <3>3
  <2>4. QED
    BY <1>4, <2>0, <2>1, <2>2, <2>3
<1>8. new[Len(new)].packet = p
  BY <1>4, <1>e
<1>9. ASSUME NEW t \in Senders
      PROVE  IF Midway(new, r, c, t)
             THEN /\ rest[t] # <<>> /\ First(Head(rest[t])) > 1
                  /\ Fits(new, r, c, Head(rest[t]))
             ELSE rest[t] # <<>> => First(Head(rest[t])) = 1
  <2>1. Midway(new, r, c, t) <=> ~Ends(p) /\ s = t
    BY <1>1, <1>6, <1>8 DEF Midway
  <2>2. CASE t = s
    <3>1. rest[t] = Tail(snd[s])
      BY <2>2
    <3>2. CASE Ends(p)
      BY <1>1, <2>1, <3>1, <3>2
    <3>3. CASE ~Ends(p)
      <4>1. First(Head(Tail(snd[s]))) > 1
        BY <1>1, <1>2, <3>3 DEF Follows
      <4>2. Fits(new, r, c, Head(Tail(snd[s])))
        BY <1>1, <1>6, <1>8, <3>3 DEF Fits
      <4>3. QED
        BY <1>1, <2>1, <2>2, <3>1, <3>3, <4>1, <4>2
    <3>4. QED
      BY <3>2, <3>3
  <2>3. CASE t # s
    <3>1. rest[t] = snd[t] /\ ~Midway(new, r, c, t)
      BY <2>1, <2>3
    <3>2. ASSUME snd[t] # <<>>
          PROVE  First(Head(snd[t])) = 1
      <4>1. Head(snd[t]) \in GoodPacket
        BY <3>2
      <4>2. First(Head(snd[t])) \in Nat \ {0}
        BY <4>1, PacketFacts
      <4>3. QED
        BY <2>3, <3>2, <4>2
    <3>3. QED
      BY <3>1, <3>2
  <2>4. QED
    BY <2>2, <2>3
<1> HIDE DEF rest
<1>10. StreamOK(new, r, c)
  <2>1. \A i \in 1 .. Len(new) - 1 :
           new[i].at = Length(new[i].packet) =>
              Follows(new[i].packet, new[i + 1].packet)
    <3>1. Len(new) - 1 = n + L - 1
      BY <1>2, <1>4
    <3>2. QED
      BY <1>7, <3>1
  <2>2. QED
    BY <1>6, <2>1 DEF StreamOK
<1>11. SendersOK(new, r, c, rest)
  BY <1>9 DEF SendersOK
<1>12. QED
  BY <1>10, <1>11 DEF new, rest, p

\* The message that the reader has after a packet that goes on where it is.
LEMMA WholeSoFar ==
    ASSUME FramingInv, ReaderOK(running, current), NEW p \in GoodPacket,
           GoesOn(running, current, p)
    PROVE  LET m == Continued(p)
           IN  /\ m \in Seq(ByteType) /\ m # <<>>
               /\ Len(m) + 1 = First(p) + Len(p.payload)
               /\ \A j \in 1 .. Len(m) :
                     m[j].op = p.op /\ m[j].id = p.id /\ m[j].at = j
               /\ Last(m).newline <=> Ends(p)
<1> DEFINE l == Len(p.payload)
<1>1. /\ p.op \in Senders /\ p.id \in Ids /\ p.payload \in Seq(ByteType)
      /\ l \in Nat \ {0} /\ First(p) \in Nat \ {0}
      /\ \A j \in 1 .. l :
            /\ p.payload[j].op = p.op /\ p.payload[j].id = p.id
            /\ p.payload[j].at = First(p) + j - 1
  BY FramingAssumptions, PacketFacts
<1>2. CASE running = <<>>
  <2>1. current # [op |-> p.op, id |-> p.id]
    <3>1. current = [op |-> "none", id |-> -1]
      BY <1>2 DEF ReaderOK, NoMessage
    <3>2. p.id # -1
      BY <1>1, FramingAssumptions DEF Ids, FramingAssumptions
    <3>3. QED
      BY <3>1, <3>2
  <2>2. Continued(p) = p.payload
    BY <2>1 DEF Continued
  <2>3. First(p) = 1
    BY <1>2 DEF GoesOn
  <2>4. ASSUME NEW j \in 1 .. l
        PROVE  /\ p.payload[j].op = p.op /\ p.payload[j].id = p.id
               /\ p.payload[j].at = j
    <3>1. First(p) + j - 1 = j
      BY <2>3
    <3>2. QED
      BY <1>1, <3>1
  <2>5. p.payload # <<>> /\ l + 1 = First(p) + l
    BY <1>1, <2>3
  <2>6. Last(p.payload).newline <=> Ends(p)
    BY DEF Last, Ends
  <2>7. QED
    BY <1>1, <2>2, <2>4, <2>5, <2>6
<1>3. CASE running # <<>>
  <2> DEFINE r == Len(running)
             m == running \o p.payload
  <2>1. /\ current \in [op : Senders, id : Ids]
        /\ \A j \in 1 .. r : /\ running[j].op = current.op
                             /\ running[j].id = current.id /\ running[j].at = j
    BY <1>3 DEF ReaderOK
  <2>2. p.op = current.op /\ p.id = current.id /\ First(p) = r + 1
    BY <1>3 DEF GoesOn
  <2>3. current = [op |-> p.op, id |-> p.id]
    BY <2>1, <2>2
  <2>4. Continued(p) = m
    BY <2>3 DEF Continued
  <2>5. running \in Seq(ByteType)
    BY DEF FramingInv
  <2>6. /\ m \in Seq(ByteType) /\ Len(m) = r + l /\ r \in Nat
        /\ \A j \in 1 .. r : m[j] = running[j]
        /\ \A j \in 1 .. l : m[r + j] = p.payload[j]
    BY <1>1, <2>5, Joined
  <2> HIDE DEF r, m, l
  <2>7. ASSUME NEW j \in 1 .. r + l
        PROVE  m[j].op = p.op /\ m[j].id = p.id /\ m[j].at = j
    <3>1. CASE j <= r
      <4>1. j \in 1 .. r
        BY <2>6, <3>1
      <4>2. QED
        BY <2>1, <2>2, <2>6, <4>1
    <3>2. CASE j > r
      <4>1. /\ j - r \in 1 .. l /\ r + (j - r) = j
            /\ First(p) + (j - r) - 1 = j
        BY <1>1, <2>2, <2>6, <3>2
      <4>2. m[j] = p.payload[j - r]
        BY <2>6, <4>1
      <4>3. p.payload[j - r].at = First(p) + (j - r) - 1
        BY <1>1, <4>1
      <4>4. QED
        BY <1>1, <4>1, <4>2, <4>3
    <3>3. j <= r \/ j > r
      BY <1>1, <2>6
    <3>4. QED
      BY <3>1, <3>2, <3>3
  <2>8. m # <<>> /\ Len(m) + 1 = First(p) + l
    <3>1. Len(m) # 0 /\ Len(m) + 1 = First(p) + l
      BY <1>1, <2>2, <2>6
    <3>2. Len(<<>>) = 0
      OBVIOUS
    <3>3. QED
      BY <3>1, <3>2
  <2>9. Last(m).newline <=> Ends(p)
    <3>1. l \in 1 .. l
      BY <1>1
    <3>2. m[Len(m)] = p.payload[l]
      BY <2>6, <3>1
    <3>3. QED
      BY <3>2 DEF Last, Ends, l
  <2>10. QED
    BY <2>4, <2>6, <2>7, <2>8, <2>9 DEF l
<1>4. QED
  BY <1>2, <1>3

\* Parsing the first packet: the reader waits for what followed it.
LEMMA ParseKeepsOrder ==
    ASSUME FramingAssumptions, NEW st \in Seq(GoodCell), IsBlocks(st), st # <<>>,
           NEW r, NEW c, NEW r2, NEW c2,
           NEW snd \in [Senders -> Seq(GoodPacket)],
           StreamOK(st, r, c),
           \A q \in GoodPacket : GoesOn(r2, c2, q) <=> Follows(st[1].packet, q),
           \A t \in Senders :
              (r2 # <<>> /\ c2.op = t)
                 <=> (~Ends(st[1].packet) /\ st[1].packet.op = t)
    PROVE  LET new == SubSeq(st, Length(st[1].packet) + 1, Len(st))
           IN  /\ StreamOK(new, r2, c2)
               /\ SendersOK(st, r, c, snd) => SendersOK(new, r2, c2, snd)
<1> DEFINE p == st[1].packet
           n == Len(st)
           L == Length(p)
           new == SubSeq(st, L + 1, n)
<1>1. /\ n \in Nat /\ L \in Nat /\ L > Header /\ L <= n /\ p \in GoodPacket
      /\ \A k \in 1 .. L : st[k] = [packet |-> p, at |-> k]
  BY FirstBlock
<1>2. /\ new \in Seq(GoodCell) /\ Len(new) = n - L
      /\ \A i \in 1 .. n - L : new[i] = st[L + i]
  BY <1>1, CutOff
<1>3. new = <<>> <=> n = L
  <2>1. \A q \in Seq(GoodCell) : q = <<>> <=> Len(q) = 0
    OBVIOUS
  <2>2. n = L <=> n - L = 0
    BY <1>1
  <2>3. QED
    BY ONLY <1>2, <2>1, <2>2
<1> HIDE DEF n, L, new
<1>4. st[L] = [packet |-> p, at |-> L]
  <2>1. L \in 1 .. L
    BY <1>1 DEF Header
  <2>2. QED
    BY <1>1, <2>1
<1>5. st[L].packet = p /\ st[L].at = Length(st[L].packet)
  BY <1>4 DEF L
<1>6. ASSUME new # <<>>
      PROVE  GoesOn(r2, c2, new[1].packet)
  <2>1. L \in 1 .. n - 1 /\ 1 \in 1 .. n - L /\ L + 1 \in 1 .. n
    BY <1>1, <1>3, <1>6 DEF Header
  <2>2. Follows(st[L].packet, st[L + 1].packet)
    BY <1>5, <2>1 DEF StreamOK, n
  <2>3. st[L + 1].packet \in GoodPacket
    BY <2>1, GoodCells DEF n
  <2>4. new[1] = st[L + 1]
    BY <1>2, <2>1
  <2>5. QED
    BY <1>5, <2>2, <2>3, <2>4
<1>7. ASSUME NEW i \in 1 .. (n - L) - 1, new[i].at = Length(new[i].packet)
      PROVE  Follows(new[i].packet, new[i + 1].packet)
  <2>1. /\ i \in 1 .. n - L /\ i + 1 \in 1 .. n - L /\ L + i \in 1 .. n - 1
        /\ L + (i + 1) = (L + i) + 1
    BY <1>1
  <2>2. new[i] = st[L + i] /\ new[i + 1] = st[(L + i) + 1]
    BY <1>2, <2>1
  <2>3. QED
    BY <1>7, <2>1, <2>2 DEF StreamOK, n
<1>8. StreamOK(new, r2, c2)
  BY <1>2, <1>6, <1>7 DEF StreamOK
<1>9. ASSUME NEW t \in Senders
      PROVE  /\ Midway(new, r2, c2, t) <=> Midway(st, r, c, t)
             /\ \A q \in GoodPacket :
                   Fits(new, r2, c2, q) <=> Fits(st, r, c, q)
  <2>1. CASE new = <<>>
    <3>1. st[Len(st)].packet = p
      BY <1>3, <1>5, <2>1 DEF n
    <3>2. QED
      BY <2>1, <3>1 DEF Midway, Fits
  <2>2. CASE new # <<>>
    <3>1. n - L \in 1 .. n - L /\ L + (n - L) = n
      BY <1>1, <1>3, <2>2
    <3>2. new[Len(new)] = st[Len(st)]
      BY <1>2, <3>1 DEF n
    <3>3. QED
      BY <2>2, <3>2 DEF Midway, Fits
  <2>3. QED
    BY <2>1, <2>2
<1>10. ASSUME SendersOK(st, r, c, snd)
       PROVE  SendersOK(new, r2, c2, snd)
  <2> SUFFICES ASSUME NEW t \in Senders
               PROVE  IF Midway(new, r2, c2, t)
                      THEN /\ snd[t] # <<>> /\ First(Head(snd[t])) > 1
                           /\ Fits(new, r2, c2, Head(snd[t]))
                      ELSE snd[t] # <<>> => First(Head(snd[t])) = 1
    BY DEF SendersOK
  <2>1. IF Midway(st, r, c, t)
        THEN /\ snd[t] # <<>> /\ First(Head(snd[t])) > 1
             /\ Fits(st, r, c, Head(snd[t]))
        ELSE snd[t] # <<>> => First(Head(snd[t])) = 1
    BY <1>10 DEF SendersOK
  <2>2. snd[t] # <<>> => Head(snd[t]) \in GoodPacket
    OBVIOUS
  <2>3. CASE snd[t] = <<>>
    <3>1. ~Midway(st, r, c, t)
      BY <2>1, <2>3
    <3>2. ~Midway(new, r2, c2, t)
      BY <1>9, <3>1
    <3>3. QED
      BY <2>3, <3>2
  <2>4. CASE snd[t] # <<>>
    <3>1. /\ Midway(new, r2, c2, t) <=> Midway(st, r, c, t)
          /\ Fits(new, r2, c2, Head(snd[t])) <=> Fits(st, r, c, Head(snd[t]))
      BY <1>9, <2>2, <2>4
    <3>2. QED
      BY <2>1, <2>4, <3>1
  <2>5. QED
    BY <2>3, <2>4
<1>11. QED
  BY <1>8, <1>10 DEF new, n, L

-----------------------------------------------------------------------------
(* The reader and complete messages.                                        *)

OrderInv ==
    /\ \A s \in Senders : IsRestOfMessage(sending[s], s)
    /\ "mixed" \notin upset /\ "zeros" \notin upset =>
          /\ ReaderOK(running, current)
          /\ StreamOK(Stream, running, current)
          /\ ~closed => SendersOK(Stream, running, current, sending)
    /\ WholeUnlessMixed
    /\ GivesUpOnlyIfUpset

LEMMA InitOrder == Init => OrderInv
<1> SUFFICES ASSUME Init
             PROVE  OrderInv
  OBVIOUS
<1>1. /\ \A s \in Senders : sending[s] = <<>>
      /\ Stream = <<>> /\ running = <<>> /\ current = NoMessage
      /\ processed = <<>> /\ reading = TRUE
  BY DEF Init, Stream
<1>2. \A s : IsRestOfMessage(<<>>, s)
  BY DEF IsRestOfMessage
<1>3. ReaderOK(<<>>, NoMessage) /\ StreamOK(<<>>, <<>>, NoMessage)
  BY DEF ReaderOK, StreamOK
<1>4. SendersOK(Stream, running, current, sending)
  BY <1>1 DEF SendersOK, Midway
<1>5. WholeUnlessMixed /\ GivesUpOnlyIfUpset
  BY <1>1
     DEF WholeUnlessMixed, OnlyWholeMessagesAreProcessed, GivesUpOnlyIfUpset
<1>6. QED
  BY <1>1, <1>2, <1>3, <1>4, <1>5 DEF OrderInv

LEMMA NextOrder ==
    FramingInv /\ BlocksInv /\ OrderInv /\ [Next]_vars => OrderInv'
<1> SUFFICES ASSUME FramingInv, BlocksInv, OrderInv, [Next]_vars
             PROVE  OrderInv'
  OBVIOUS
<1> USE FramingAssumptions
<1> DEFINE Unmixed == "mixed" \notin upset /\ "zeros" \notin upset
<1>t. /\ Stream \in Seq(GoodCell)
      /\ sending \in [Senders -> Seq(GoodPacket)]
      /\ \A s \in Senders : nextId[s] \in 0 .. MaxId + 1
  BY StreamIsTyped DEF FramingInv
<1>o. /\ \A s \in Senders : IsRestOfMessage(sending[s], s)
      /\ Unmixed => /\ ReaderOK(running, current)
                    /\ StreamOK(Stream, running, current)
                    /\ ~closed => SendersOK(Stream, running, current, sending)
                    /\ IsBlocks(Stream)
  BY DEF OrderInv, BlocksInv
\* A step that parses nothing and gives nothing up.
<1>w. ASSUME UNCHANGED <<processed, reading>>, upset \subseteq upset'
      PROVE  WholeUnlessMixed' /\ GivesUpOnlyIfUpset'
  BY <1>w DEF OrderInv, WholeUnlessMixed, OnlyWholeMessagesAreProcessed,
              GivesUpOnlyIfUpset
<1>1. ASSUME NEW s \in Senders, NEW length \in 1 .. MaxLength, Encode(s, length)
      PROVE  OrderInv'
  <2> DEFINE ps == Packets(s, nextId[s], length)
  <2>1. nextId[s] \in Ids
    BY <1>1, <1>t DEF Encode, Ids, FramingAssumptions
  <2>2. /\ ps \in Seq(GoodPacket) /\ ps # <<>> /\ First(ps[1]) = 1
        /\ IsRestOfMessage(ps, s)
    BY <2>1, PacketsAreTheMessage
  <2>3. /\ sending[s] = <<>> /\ sending' = [sending EXCEPT ![s] = ps]
        /\ UNCHANGED <<closed, wire, leftOver, current, running, reading,
                       processed, upset>>
    BY <1>1 DEF Encode, readerVars
  <2> HIDE DEF ps
  <2>4. Head(ps) = ps[1]
    BY <2>2
  <2>5. Stream' = Stream
    BY <2>3 DEF Stream
  <2>6. \A t \in Senders : IsRestOfMessage(sending'[t], t)
    BY <1>t, <1>o, <2>2, <2>3
  <2>7. ASSUME SendersOK(Stream, running, current, sending)
        PROVE  SendersOK(Stream, running, current, sending')
    <3> SUFFICES ASSUME NEW t \in Senders
                 PROVE  IF Midway(Stream, running, current, t)
                        THEN /\ sending'[t] # <<>>
                             /\ First(Head(sending'[t])) > 1
                             /\ Fits(Stream, running, current, Head(sending'[t]))
                        ELSE sending'[t] # <<>> => First(Head(sending'[t])) = 1
      BY DEF SendersOK
    <3>1. CASE t = s
      <4>1. ~Midway(Stream, running, current, s)
        BY <2>3, <2>7 DEF SendersOK
      <4>2. sending'[s] = ps
        BY <1>t, <2>3
      <4>3. QED
        BY <2>2, <2>4, <3>1, <4>1, <4>2
    <3>2. CASE t # s
      <4>1. sending'[t] = sending[t]
        BY <1>t, <2>3, <3>2
      <4>2. QED
        BY <2>7, <4>1 DEF SendersOK
    <3>3. QED
      BY <3>1, <3>2
  <2>8. WholeUnlessMixed' /\ GivesUpOnlyIfUpset'
    BY <1>w, <2>3
  <2>9. QED
    BY <1>o, <2>3, <2>5, <2>6, <2>7, <2>8 DEF OrderInv
<1>2. ASSUME NEW s \in Senders, EncodeTooLargeId(s)
      PROVE  OrderInv'
  <2>1. /\ UNCHANGED <<sending, wire, leftOver, current, running, reading,
                       processed>>
        /\ closed => closed'
        /\ upset' \in {upset, upset \cup {"closed"}}
    BY <1>2 DEF EncodeTooLargeId, readerVars
  <2>2. Stream' = Stream
    BY <2>1 DEF Stream
  <2>3. WholeUnlessMixed' /\ GivesUpOnlyIfUpset'
    BY <1>w, <2>1
  <2>4. /\ "mixed" \in upset' <=> "mixed" \in upset
        /\ "zeros" \in upset' <=> "zeros" \in upset
    BY <2>1
  <2>5. QED
    BY <1>o, <2>1, <2>2, <2>3, <2>4 DEF OrderInv
<1>3. ASSUME NEW s \in Senders, SendPacket(s)
      PROVE  OrderInv'
  <2>0. /\ sending[s] \in Seq(GoodPacket) /\ sending[s] # <<>>
        /\ UNCHANGED <<closed, leftOver, current, running, reading, processed>>
    BY <1>3, <1>t DEF SendPacket, readerVars
  <2>1. CASE closed
    <3>1. /\ sending' = [sending EXCEPT ![s] = <<>>]
          /\ UNCHANGED <<wire, upset>>
      BY <1>3, <2>1 DEF SendPacket
    <3>2. Stream' = Stream
      BY <2>0, <3>1 DEF Stream
    <3>3. \A t \in Senders : IsRestOfMessage(sending'[t], t)
      <4>1. IsRestOfMessage(<<>>, s)
        BY DEF IsRestOfMessage
      <4>2. QED
        BY <1>t, <1>o, <3>1, <4>1
    <3>4. WholeUnlessMixed' /\ GivesUpOnlyIfUpset'
      BY <1>w, <2>0, <3>1
    <3>5. QED
      BY <1>o, <2>0, <2>1, <3>1, <3>2, <3>3, <3>4 DEF OrderInv
  <2>2. CASE ~closed
    <3>1. /\ sending' = [sending EXCEPT ![s] = Tail(@)]
          /\ upset' = IF Between(s) THEN upset \cup {"mixed"} ELSE upset
      BY <1>3, <2>2 DEF SendPacket
    <3>2. Stream' = Stream \o Cells(Head(sending[s]))
      BY <1>3, <2>2, SentStream
    <3>3. \A t \in Senders : IsRestOfMessage(sending'[t], t)
      <4>1. IsRestOfMessage(Tail(sending[s]), s)
        BY <1>o, <2>0, RestOfMessage
      <4>2. QED
        BY <1>t, <1>o, <3>1, <4>1
    <3>4. WholeUnlessMixed' /\ GivesUpOnlyIfUpset'
      BY <1>w, <2>0, <3>1
    <3>5. ASSUME "mixed" \notin upset', "zeros" \notin upset'
          PROVE  /\ StreamOK(Stream', running, current)
                 /\ SendersOK(Stream', running, current, sending')
                 /\ ReaderOK(running, current)
      <4>1. Unmixed /\ ~Between(s)
        BY <3>1, <3>5
      <4>2. \A t \in Senders \ {s} :
               ~(sending[t] # <<>> /\ First(Head(sending[t])) > 1)
        BY <4>1 DEF Between, First
      <4>3. running # <<>> => current.op \in Senders
        BY <1>o, <4>1 DEF ReaderOK
      <4>4. LET new == Stream \o Cells(Head(sending[s]))
            IN  /\ StreamOK(new, running, current)
                /\ SendersOK(new, running, current,
                             [sending EXCEPT ![s] = Tail(@)])
        BY <1>t, <1>o, <2>0, <2>2, <4>1, <4>2, <4>3, SendKeepsOrder
      <4>5. QED
        BY <1>o, <3>1, <3>2, <4>1, <4>4
    <3>6. QED
      BY <2>0, <3>3, <3>4, <3>5 DEF OrderInv
  <2>3. QED
    BY <2>1, <2>2
<1>4. CASE ParsePacket
  <2> DEFINE p == leftOver[Header].packet
             m == Continued(p)
  <2>0. /\ reading /\ UNCHANGED <<sending, closed, upset>>
        /\ \/ /\ Last(m).newline
              /\ processed' = Append(processed, m)
              /\ reading' = IsWhole(m)
              /\ current' = NoMessage /\ running' = <<>>
           \/ /\ ~Last(m).newline
              /\ current' = [op |-> p.op, id |-> p.id]
              /\ running' = m
              /\ UNCHANGED <<reading, processed>>
    BY <1>4 DEF ParsePacket, senderVars
  <2>1. "zeros" \notin upset /\ IsBlocks(Stream)
    BY <2>0 DEF BlocksInv
  <2>2. CASE "mixed" \in upset
    <3>1. upset' # {} /\ "mixed" \in upset'
      BY <2>0, <2>2
    <3>2. WholeUnlessMixed' /\ GivesUpOnlyIfUpset'
      BY <3>1 DEF WholeUnlessMixed, GivesUpOnlyIfUpset
    <3>3. QED
      BY <1>o, <2>0, <3>1, <3>2 DEF OrderInv
  <2>3. CASE "mixed" \notin upset
    <3>1. /\ Stream # <<>> /\ p = Stream[1].packet
          /\ Stream' = SubSeq(Stream, Length(Stream[1].packet) + 1, Len(Stream))
      BY <1>4, <2>1, ParsedStream
    <3>2. p \in GoodPacket
      BY <1>t, <2>1, <3>1, FirstBlock
    <3> HIDE DEF p
    <3>3. GoesOn(running, current, p) /\ ReaderOK(running, current)
      BY <1>o, <2>1, <2>3, <3>1 DEF StreamOK
    <3>4. /\ m \in Seq(ByteType) /\ m # <<>>
          /\ Len(m) + 1 = First(p) + Len(p.payload)
          /\ \A j \in 1 .. Len(m) :
                m[j].op = p.op /\ m[j].id = p.id /\ m[j].at = j
          /\ Last(m).newline <=> Ends(p)
      BY <3>2, <3>3, WholeSoFar
    <3> HIDE DEF m
    <3>5. p.op \in Senders /\ p.id \in Ids
      BY <3>2, PacketFacts
    <3>6. IsWhole(m)
      <4>1. DOMAIN m = 1 .. Len(m) /\ 1 \in 1 .. Len(m)
        BY <3>4
      <4>2. QED
        BY <3>4, <4>1 DEF IsWhole
    <3>7. /\ ReaderOK(running', current')
          /\ \A q \in GoodPacket : GoesOn(running', current', q) <=> Follows(p, q)
          /\ \A t \in Senders : (running' # <<>> /\ current'.op = t)
                                   <=> (~Ends(p) /\ p.op = t)
      <4>1. CASE Ends(p)
        <5>1. running' = <<>> /\ current' = NoMessage
          BY <2>0, <3>4, <4>1
        <5>2. QED
          BY <4>1, <5>1 DEF ReaderOK, GoesOn, Follows
      <4>2. CASE ~Ends(p)
        <5>1. running' = m /\ current' = [op |-> p.op, id |-> p.id]
          BY <2>0, <3>4, <4>2
        <5>2. current'.op = p.op /\ current'.id = p.id
          BY <5>1
        <5>3. current' \in [op : Senders, id : Ids]
          BY <3>5, <5>1
        <5>4. ReaderOK(running', current')
          BY <3>4, <5>1, <5>2, <5>3 DEF ReaderOK
        <5>5. \A q \in GoodPacket :
                 GoesOn(running', current', q) <=> Follows(p, q)
          BY <3>4, <4>2, <5>1, <5>2 DEF GoesOn, Follows
        <5>6. QED
          BY <3>4, <4>2, <5>1, <5>2, <5>4, <5>5
      <4>3. QED
        BY <4>1, <4>2
    <3>8. /\ StreamOK(Stream', running', current')
          /\ SendersOK(Stream, running, current, sending) =>
                SendersOK(Stream', running', current', sending)
      <4>1. /\ StreamOK(Stream, running, current) /\ IsBlocks(Stream)
        BY <1>o, <2>1, <2>3
      <4>2. /\ \A q \in GoodPacket : GoesOn(running', current', q)
                                        <=> Follows(Stream[1].packet, q)
            /\ \A t \in Senders :
                  (running' # <<>> /\ current'.op = t)
                     <=> (~Ends(Stream[1].packet) /\ Stream[1].packet.op = t)
        BY <3>1, <3>7
      <4>3. QED
        BY <1>t, <3>1, <4>1, <4>2, ParseKeepsOrder
    <3>9. WholeUnlessMixed' /\ GivesUpOnlyIfUpset'
      <4>1. CASE processed' = Append(processed, m) /\ reading' = IsWhole(m)
        <5>1. \A i \in DOMAIN processed : IsWhole(processed[i])
          BY <2>3 DEF OrderInv, WholeUnlessMixed, OnlyWholeMessagesAreProcessed
        <5>2. processed \in Seq(Seq(ByteType))
          BY DEF FramingInv
        <5>3. \A i \in DOMAIN processed' : IsWhole(processed'[i])
          <6> SUFFICES ASSUME NEW i \in DOMAIN processed'
                       PROVE  IsWhole(processed'[i])
            OBVIOUS
          <6>1. \/ i \in DOMAIN processed /\ processed'[i] = processed[i]
                \/ processed'[i] = m
            BY <3>4, <4>1, <5>2
          <6>2. QED
            BY <3>6, <5>1, <6>1
        <5>4. reading'
          BY <3>6, <4>1
        <5>5. QED
          BY <5>3, <5>4 DEF WholeUnlessMixed, OnlyWholeMessagesAreProcessed,
                            GivesUpOnlyIfUpset, IsWhole
      <4>2. CASE UNCHANGED <<reading, processed>>
        BY <1>w, <2>0, <4>2
      <4>3. QED
        BY <2>0, <4>1, <4>2
    <3>10. QED
      BY <1>o, <2>0, <2>1, <2>3, <3>7, <3>8, <3>9 DEF OrderInv
  <2>4. QED
    BY <2>2, <2>3
<1>5. CASE ReceiveEnd
  <2>1. /\ UNCHANGED <<sending, closed, wire, leftOver, current, running,
                       processed, upset>>
        /\ upset # {}
    BY <1>5 DEF ReceiveEnd, senderVars, BlocksInv
  <2>2. WholeUnlessMixed' /\ GivesUpOnlyIfUpset'
    BY <2>1 DEF OrderInv, WholeUnlessMixed, OnlyWholeMessagesAreProcessed,
                GivesUpOnlyIfUpset
  <2>3. Stream' = Stream
    BY <2>1 DEF Stream
  <2>4. QED
    BY <1>o, <2>1, <2>2, <2>3 DEF OrderInv
<1>6. ASSUME NEW length \in 1 .. MaxPacket, Receive(length)
      PROVE  OrderInv'
  <2>1. /\ UNCHANGED <<sending, closed, current, running, processed>>
        /\ \/ UNCHANGED <<reading, upset>>
           \/ upset' = upset \cup {"zeros"}
    BY <1>6 DEF Receive, senderVars
  <2>2. "zeros" \in upset' \/ Stream' = Stream
    BY <1>6, ReceivedStream
  <2>3. WholeUnlessMixed' /\ GivesUpOnlyIfUpset'
    BY <2>1 DEF OrderInv, WholeUnlessMixed, OnlyWholeMessagesAreProcessed,
                GivesUpOnlyIfUpset
  <2>4. "mixed" \notin upset' /\ "zeros" \notin upset' => Unmixed
    BY <2>1
  <2>5. QED
    BY <1>o, <2>1, <2>2, <2>3, <2>4 DEF OrderInv
<1>7. CASE UNCHANGED vars
  <2>1. UNCHANGED <<sending, closed, wire, leftOver, current, running,
                    reading, processed, upset>>
    BY <1>7 DEF vars, senderVars, readerVars
  <2>2. Stream' = Stream
    BY <2>1 DEF Stream
  <2>3. WholeUnlessMixed' /\ GivesUpOnlyIfUpset'
    BY <1>w, <2>1
  <2>4. QED
    BY <1>o, <2>1, <2>2, <2>3 DEF OrderInv
<1>8. QED
  BY <1>1, <1>2, <1>3, <1>4, <1>5, <1>6, <1>7 DEF Next

LEMMA OrderInvariant == Spec => []OrderInv
BY InitTypes, NextTypes, InitBlocks, NextBlocks, InitOrder, NextOrder, PTL
   DEF Spec

\* A reader that gives up before the end of the connection has read a mixture
\* of two messages, or nothing but zeros.
THEOREM ReadersGoOn == Spec => []GivesUpOnlyIfUpset
<1>1. OrderInv => GivesUpOnlyIfUpset
  BY DEF OrderInv
<1>2. QED
  BY <1>1, OrderInvariant, PTL

\* As long as the two threads have not sent into each other's messages, only
\* complete messages are processed.
THEOREM MessagesAreWhole == Spec => []WholeUnlessMixed
<1>1. OrderInv => WholeUnlessMixed
  BY DEF OrderInv
<1>2. QED
  BY <1>1, OrderInvariant, PTL

-----------------------------------------------------------------------------
(* The ids that a thread's messages were processed with, in order.          *)

LEMMA OwnIsFinite ==
    ASSUME NEW messages, NEW s, NEW last \in Nat
    PROVE  /\ IsFiniteSet(OwnUpTo(messages, s, last))
           /\ Cardinality(OwnUpTo(messages, s, last)) \in Nat
<1>1. OwnUpTo(messages, s, last) \subseteq 1 .. last
  BY DEF OwnUpTo
<1>2. IsFiniteSet(1 .. last)
  BY FS_Interval
<1>3. IsFiniteSet(OwnUpTo(messages, s, last))
  BY ONLY <1>1, <1>2, FS_Subset
<1>4. QED
  BY <1>3, FS_CardinalityType

\* One more message adds its id, if it is a whole one of the thread.
LEMMA OneMore ==
    ASSUME NEW S, NEW messages \in Seq(S), NEW m \in S, NEW s
    PROVE  IdsOf(Append(messages, m), s) =
              IF m[1].op = s /\ IsWhole(m)
              THEN Append(IdsOf(messages, s), m[1].id) ELSE IdsOf(messages, s)
<1> DEFINE n == Len(messages)
           new == Append(messages, m)
           own(i) == OwnUpTo(messages, s, i)
           own2(i) == OwnUpTo(new, s, i)
           c == Cardinality(own(n))
           Mine == m[1].op = s /\ IsWhole(m)
<1>1. /\ n \in Nat /\ Len(new) = n + 1 /\ new[n + 1] = m
      /\ \A i \in 1 .. n : new[i] = messages[i]
  OBVIOUS
<1> HIDE DEF n, new
<1>2. ASSUME NEW i \in 1 .. n
      PROVE  own2(i) = own(i)
  <2>1. \A j \in 1 .. i : j \in 1 .. n
    BY <1>1
  <2>2. QED
    BY <1>1, <2>1 DEF OwnUpTo
<1>3. own2(n + 1) = own(n) \cup (IF Mine THEN {n + 1} ELSE {})
  <2>1. \A j : j \in 1 .. n + 1 <=> j \in 1 .. n \/ j = n + 1
    BY <1>1
  <2>2. QED
    BY <1>1, <2>1 DEF OwnUpTo
<1>4. n + 1 \notin own(n)
  BY <1>1 DEF OwnUpTo
<1>5. c \in Nat /\ IsFiniteSet(own(n))
  BY <1>1, OwnIsFinite
<1>6. Cardinality(own2(n + 1)) = IF Mine THEN c + 1 ELSE c
  <2>1. CASE Mine
    <3>1. own2(n + 1) = own(n) \cup {n + 1}
      BY <1>3, <2>1
    <3>2. Cardinality(own(n) \cup {n + 1}) = c + 1
      BY <1>4, <1>5, FS_AddElement
    <3>3. QED
      BY <2>1, <3>1, <3>2
  <2>2. CASE ~Mine
    BY <1>3, <2>2
  <2>3. QED
    BY <2>1, <2>2
<1>7. ASSUME NEW i \in 1 .. n
      PROVE  Cardinality(own(i)) \in Nat /\ Cardinality(own(i)) <= c
  <2>1. own(i) \subseteq own(n)
    BY <1>1 DEF OwnUpTo
  <2>2. QED
    BY <1>5, <2>1, FS_Subset, FS_CardinalityType
<1> HIDE DEF c
<1>8. ASSUME NEW k \in 1 .. c
      PROVE  NthId(new, s, k) = NthId(messages, s, k)
  <2> DEFINE places == {i \in own(n) : Cardinality(own(i)) = k}
             places2 == {i \in own2(n + 1) : Cardinality(own2(i)) = k}
  <2>1. own(n) \subseteq 1 .. n /\ own2(n + 1) \subseteq 1 .. n \cup {n + 1}
    <3>1. own(n) \subseteq 1 .. n
      BY DEF OwnUpTo
    <3>2. QED
      BY <1>3, <3>1
  <2>2. \A i \in 1 .. n : i \in own2(n + 1) <=> i \in own(n)
    <3>1. \A i \in 1 .. n : i # n + 1
      BY <1>1
    <3>2. QED
      BY <1>3, <3>1
  <2>3. n + 1 \in own2(n + 1) => Cardinality(own2(n + 1)) # k
    BY <1>3, <1>4, <1>5, <1>6
  <2>4. /\ NthId(new, s, k) = {new[i][1].id : i \in places2}
        /\ NthId(messages, s, k) = {messages[i][1].id : i \in places}
    BY <1>1 DEF NthId, n
  <2>5. \A i \in 1 .. n : Cardinality(own2(i)) = Cardinality(own(i))
    BY <1>2
  <2> HIDE DEF own, own2
  <2>6. places2 = places /\ places \subseteq 1 .. n
    BY <2>1, <2>2, <2>3, <2>5
  <2> HIDE DEF places, places2
  <2>7. \A i \in places : new[i][1].id = messages[i][1].id
    BY <1>1, <2>6
  <2>8. QED
    BY <2>4, <2>6, <2>7
<1>9. ASSUME Mine
      PROVE  NthId(new, s, c + 1) = {m[1].id}
  <2> DEFINE places2 == {i \in own2(n + 1) : Cardinality(own2(i)) = c + 1}
  <2>1. own(n) \subseteq 1 .. n
    BY DEF OwnUpTo
  <2>2. \A i \in own(n) : Cardinality(own2(i)) # c + 1
    <3>1. \A i \in 1 .. n : Cardinality(own2(i)) \in Nat
                             /\ Cardinality(own2(i)) <= c
      BY <1>2, <1>7
    <3>2. QED
      BY <1>5, <2>1, <3>1
  <2>3. own2(n + 1) = own(n) \cup {n + 1}
    BY <1>3, <1>9
  <2>4. Cardinality(own2(n + 1)) = c + 1
    BY <1>6, <1>9
  <2>5. NthId(new, s, c + 1) = {new[i][1].id : i \in places2}
    BY <1>1 DEF NthId
  <2> HIDE DEF own, own2
  <2>6. places2 = {n + 1}
    BY <2>2, <2>3, <2>4
  <2>7. QED
    BY <1>1, <2>5, <2>6
<1>10. /\ IdsOf(messages, s) = [k \in 1 .. c |->
                                   CHOOSE id \in NthId(messages, s, k) : TRUE]
       /\ IdsOf(new, s) = [k \in 1 .. IF Mine THEN c + 1 ELSE c |->
                              CHOOSE id \in NthId(new, s, k) : TRUE]
  BY <1>1, <1>6 DEF IdsOf, c, n
<1> HIDE DEF own, own2
<1>11. CASE ~Mine
  BY <1>8, <1>10, <1>11 DEF new
<1>12. CASE Mine
  <2> DEFINE ids == IdsOf(messages, s)
             ids2 == IdsOf(new, s)
  <2>1. ids2 = [k \in 1 .. c + 1 |-> IF k = c + 1 THEN m[1].id ELSE ids[k]]
    <3>1. \A k \in 1 .. c + 1 : k \in 1 .. c \/ k = c + 1
      BY <1>5
    <3>2. \A k \in 1 .. c : (CHOOSE id \in NthId(new, s, k) : TRUE) = ids[k]
      BY <1>8, <1>10
    <3>3. (CHOOSE id \in NthId(new, s, c + 1) : TRUE) = m[1].id
      BY <1>9, <1>12
    <3>4. c + 1 \notin 1 .. c
      BY <1>5
    <3> DEFINE nth(k) == CHOOSE id \in NthId(new, s, k) : TRUE
    <3>5. ids2 = [k \in 1 .. c + 1 |-> nth(k)]
      BY <1>10, <1>12
    <3> HIDE DEF nth, ids, ids2
    <3>6. \A k \in 1 .. c + 1 : nth(k) = IF k = c + 1 THEN m[1].id ELSE ids[k]
      <4>1. \A k \in 1 .. c : nth(k) = ids[k]
        BY <3>2 DEF nth, ids
      <4>2. nth(c + 1) = m[1].id
        BY <3>3 DEF nth
      <4>3. QED
        BY <3>1, <3>4, <4>1, <4>2
    <3>7. QED
      BY ONLY <3>5, <3>6
  <2>2. ids = [k \in 1 .. c |-> ids[k]]
    BY <1>10
  <2>3. \A q, x : q = [k \in 1 .. c |-> q[k]] =>
           Append(q, x) = [k \in 1 .. c + 1 |-> IF k = c + 1 THEN x ELSE q[k]]
    BY <1>5
  <2>4. ids2 = Append(ids, m[1].id)
    <3> HIDE DEF ids, ids2
    <3>1. QED
      BY ONLY <2>1, <2>2, <2>3
  <2>5. QED
    BY <1>12, <2>4 DEF new
<1>13. QED
  BY <1>11, <1>12 DEF new

-----------------------------------------------------------------------------
(* The messages of a thread, numbered by their ids: the first R of them are *)
(* processed, top is the id of the next one.  Packets may be mixed with     *)
(* those of the other thread.                                               *)

\* The i-th cell ends a packet of s; and the message k of s.
EndOf(st, i, s) ==
    st[i].at = Length(st[i].packet) /\ st[i].packet.op = s

EndOfMessage(st, i, s, k) ==
    EndOf(st, i, s) /\ Ends(st[i].packet) /\ st[i].packet.id = k

\* No message in the stream has been processed, and they come in order, with
\* none left out.
IdsOK(st, s, R, top) ==
    /\ \A i \in 1 .. Len(st) :
          EndOf(st, i, s) => R <= st[i].packet.id /\ st[i].packet.id < top
    /\ \A i, j \in 1 .. Len(st) :
          i < j /\ EndOf(st, i, s) /\ EndOf(st, j, s) =>
             /\ st[i].packet.id <= st[j].packet.id
             /\ Ends(st[i].packet) => st[i].packet.id # st[j].packet.id
    /\ \A j \in 1 .. Len(st) : EndOf(st, j, s) =>
          \A k \in R .. st[j].packet.id - 1 :
             \E i \in 1 .. j - 1 : EndOfMessage(st, i, s, k)

\* So do the packets that s has still to send.
QueueOK(st, s, R, top, q) ==
    /\ R <= top
    /\ \A k \in 1 .. Len(q) : q[k].id = top - 1
    /\ q # <<>> =>
          /\ R <= top - 1
          /\ \A i \in 1 .. Len(st) : ~EndOfMessage(st, i, s, top - 1)
    /\ \A k \in R .. IF q = <<>> THEN top - 1 ELSE top - 2 :
          \E i \in 1 .. Len(st) : EndOfMessage(st, i, s, k)

LEMMA EndsOfAnEmptyStream ==
    ASSUME NEW s, NEW n \in Nat
    PROVE  IdsOK(<<>>, s, n, n) /\ QueueOK(<<>>, s, n, n, <<>>)
BY DEF IdsOK, QueueOK

\* Cells in a stream to which a packet is added.
LEMMA EndsAfterSend ==
    ASSUME FramingAssumptions, NEW st \in Seq(GoodCell), NEW p \in GoodPacket
    PROVE  LET new == st \o Cells(p)
               last == Len(st) + Length(p)
           IN  /\ Len(st) \in Nat /\ last \in Nat /\ Len(new) = last
               /\ Len(st) < last
               /\ \A i \in 1 .. Len(st) : new[i] = st[i]
               /\ new[last].packet = p
               /\ \A s : EndOf(new, last, s) <=> p.op = s
               /\ \A i \in 1 .. last : \A s :
                     EndOf(new, i, s) => i \in 1 .. Len(st) \/ i = last
<1> DEFINE n == Len(st)
           L == Length(p)
           new == st \o Cells(p)
<1>1. /\ Cells(p) \in Seq(GoodCell) /\ Len(Cells(p)) = L
      /\ \A k \in 1 .. L : Cells(p)[k] = [packet |-> p, at |-> k]
  BY CellsOfAPacket
<1>2. L \in Nat /\ L > 0
  BY PacketFacts DEF Header
<1>3. /\ Len(new) = n + L /\ n \in Nat
      /\ \A i \in 1 .. n : new[i] = st[i]
      /\ \A k \in 1 .. L : new[n + k] = [packet |-> p, at |-> k]
  <2>1. /\ Len(new) = n + Len(Cells(p)) /\ n \in Nat
        /\ \A i \in 1 .. n : new[i] = st[i]
        /\ \A k \in 1 .. Len(Cells(p)) : new[n + k] = Cells(p)[k]
    <3>1. st \in Seq(GoodCell) /\ Cells(p) \in Seq(GoodCell)
      BY <1>1
    <3>2. QED
      BY ONLY <3>1, Joined
  <2>2. QED
    BY ONLY <1>1, <2>1
<1> HIDE DEF n, new
<1>4. new[n + L] = [packet |-> p, at |-> L]
  BY <1>2, <1>3
<1>5. new[n + L].packet = p /\ \A s : EndOf(new, n + L, s) <=> p.op = s
  BY <1>4 DEF EndOf
<1>6. ASSUME NEW i \in 1 .. n + L, NEW s, EndOf(new, i, s), i \notin 1 .. n
      PROVE  i = n + L
  <2>1. i - n \in 1 .. L /\ n + (i - n) = i
    BY <1>2, <1>3, <1>6
  <2>2. new[i] = [packet |-> p, at |-> i - n]
    BY <1>3, <2>1
  <2>3. i - n = L
    BY <1>6, <2>2 DEF EndOf
  <2>4. QED
    BY <1>2, <1>3, <2>1, <2>3
<1>7. QED
  BY <1>2, <1>3, <1>5, <1>6 DEF n, new

LEMMA IdsAfterSend ==
    ASSUME FramingAssumptions, NEW st \in Seq(GoodCell), NEW s \in Senders,
           NEW q \in Seq(GoodPacket), q # <<>>, IsRestOfMessage(q, s),
           NEW R \in Nat, NEW top \in Nat,
           IdsOK(st, s, R, top), QueueOK(st, s, R, top, q)
    PROVE  LET new == st \o Cells(Head(q))
           IN  IdsOK(new, s, R, top) /\ QueueOK(new, s, R, top, Tail(q))
<1> DEFINE p == Head(q)
           n == Len(st)
           new == st \o Cells(p)
           last == n + Length(p)
<1>1. /\ p \in GoodPacket /\ p.op = s /\ Tail(q) \in Seq(GoodPacket)
      /\ Ends(p) <=> Tail(q) = <<>>
  BY RestOfMessage
<1>2. /\ p = q[1] /\ p.id = top - 1
      /\ \A k \in 1 .. Len(Tail(q)) : Tail(q)[k].id = top - 1
  <2>1. /\ 1 \in 1 .. Len(q) /\ p = q[1]
        /\ \A k \in 1 .. Len(Tail(q)) :
              k + 1 \in 1 .. Len(q) /\ Tail(q)[k] = q[k + 1]
    OBVIOUS
  <2>2. QED
    BY <2>1 DEF QueueOK
<1> HIDE DEF p
<1>3. /\ n \in Nat /\ last \in Nat /\ Len(new) = last /\ n < last
      /\ \A i \in 1 .. n : new[i] = st[i]
      /\ new[last].packet = p /\ EndOf(new, last, s)
      /\ \A i \in 1 .. last : EndOf(new, i, s) => i \in 1 .. n \/ i = last
  BY <1>1, EndsAfterSend
<1> HIDE DEF n, new, last
<1>4. \A i \in 1 .. n : /\ i \in 1 .. last /\ i < last
                        /\ EndOf(new, i, s) <=> EndOf(st, i, s)
                        /\ new[i].packet = st[i].packet
                        /\ \A k : EndOfMessage(new, i, s, k)
                                     <=> EndOfMessage(st, i, s, k)
  BY <1>3 DEF EndOf, EndOfMessage
<1>5. /\ R <= top - 1 /\ \A i \in 1 .. n : ~EndOfMessage(st, i, s, top - 1)
      /\ \A k \in R .. top - 2 : \E i \in 1 .. n : EndOfMessage(st, i, s, k)
  BY DEF QueueOK, n
<1>6. /\ \A i \in 1 .. n : EndOf(st, i, s) =>
            R <= st[i].packet.id /\ st[i].packet.id < top
      /\ \A i, j \in 1 .. n :
            i < j /\ EndOf(st, i, s) /\ EndOf(st, j, s) =>
               /\ st[i].packet.id <= st[j].packet.id
               /\ Ends(st[i].packet) => st[i].packet.id # st[j].packet.id
      /\ \A j \in 1 .. n : EndOf(st, j, s) =>
            \A k \in R .. st[j].packet.id - 1 :
               \E i \in 1 .. j - 1 : EndOfMessage(st, i, s, k)
  BY DEF IdsOK, n
<1>d. \A i \in 1 .. n : EndOf(st, i, s) => st[i].packet.id \in Nat
  <2> SUFFICES ASSUME NEW i \in 1 .. n
               PROVE  st[i].packet.id \in Nat
    OBVIOUS
  <2>1. st[i].packet \in GoodPacket
    BY GoodCells DEF n
  <2>2. st[i].packet.id \in Ids
    BY <2>1, PacketFacts
  <2>3. QED
    BY <2>2 DEF Ids
<1>7. ASSUME NEW i \in 1 .. last, EndOf(new, i, s)
      PROVE  R <= new[i].packet.id /\ new[i].packet.id < top
  <2>1. CASE i \in 1 .. n
    BY <1>4, <1>6, <1>7, <2>1
  <2>2. CASE i = last
    <3>1. new[i].packet.id = top - 1
      BY <1>2, <1>3, <2>2
    <3>2. QED
      BY <1>5, <3>1
  <2>3. QED
    BY <1>3, <1>7, <2>1, <2>2
<1>8. ASSUME NEW i \in 1 .. last, NEW j \in 1 .. last, i < j,
             EndOf(new, i, s), EndOf(new, j, s)
      PROVE  /\ new[i].packet.id <= new[j].packet.id
             /\ Ends(new[i].packet) => new[i].packet.id # new[j].packet.id
  <2>1. i \in 1 .. n
    BY <1>3, <1>8
  <2>2. CASE j \in 1 .. n
    BY <1>4, <1>6, <1>8, <2>1, <2>2
  <2>3. CASE j = last
    <3>1. new[j].packet.id = top - 1
      BY <1>2, <1>3, <2>3
    <3>2. /\ EndOf(st, i, s) /\ new[i].packet = st[i].packet
          /\ st[i].packet.id \in Nat /\ st[i].packet.id < top
      BY <1>4, <1>6, <1>8, <1>d, <2>1
    <3>3. Ends(st[i].packet) => st[i].packet.id # top - 1
      BY <1>5, <2>1, <3>2 DEF EndOfMessage
    <3>4. QED
      BY <3>1, <3>2, <3>3
  <2>4. QED
    BY <1>3, <1>8, <2>2, <2>3
<1>9. ASSUME NEW j \in 1 .. last, EndOf(new, j, s),
             NEW k \in R .. new[j].packet.id - 1
      PROVE  \E i \in 1 .. j - 1 : EndOfMessage(new, i, s, k)
  <2>1. CASE j \in 1 .. n
    <3>1. PICK i \in 1 .. j - 1 : EndOfMessage(st, i, s, k)
      BY <1>4, <1>6, <1>9, <2>1
    <3>2. i \in 1 .. n
      BY <1>3, <2>1
    <3>3. QED
      BY <1>4, <3>1, <3>2
  <2>2. CASE j = last
    <3>1. k \in R .. top - 2
      <4>1. new[j].packet.id - 1 = top - 2
        BY <1>2, <1>3, <2>2
      <4>2. QED
        BY <4>1
    <3>2. PICK i \in 1 .. n : EndOfMessage(st, i, s, k)
      BY <1>5, <3>1
    <3>3. i \in 1 .. j - 1
      BY <1>3, <2>2
    <3>4. QED
      BY <1>4, <3>2, <3>3
  <2>3. QED
    BY <1>3, <1>9, <2>1, <2>2
<1>10. IdsOK(new, s, R, top)
  BY <1>3, <1>7, <1>8, <1>9 DEF IdsOK
<1>11. EndOfMessage(new, last, s, top - 1) <=> Ends(p)
  BY <1>2, <1>3 DEF EndOfMessage
<1>12. ASSUME NEW k \in R .. top - 2
       PROVE  \E i \in 1 .. last : EndOfMessage(new, i, s, k)
  BY <1>4, <1>5
<1>13. CASE Ends(p)
  <2>1. Tail(q) = <<>>
    BY <1>1, <1>13
  <2>2. ASSUME NEW k \in R .. top - 1
        PROVE  \E i \in 1 .. last : EndOfMessage(new, i, s, k)
    <3>1. CASE k = top - 1
      <4>1. last \in 1 .. last
        BY <1>3
      <4>2. QED
        BY <1>11, <1>13, <3>1, <4>1
    <3>2. CASE k # top - 1
      <4>1. k \in R .. top - 2
        BY <3>2
      <4>2. QED
        BY <1>12, <4>1
    <3>3. QED
      BY <3>1, <3>2
  <2>3. R <= top
    BY <1>5
  <2>4. QueueOK(new, s, R, top, Tail(q))
    BY <1>2, <1>3, <2>1, <2>2, <2>3 DEF QueueOK
  <2>5. QED
    BY <1>10, <2>4 DEF new, p
<1>14. CASE ~Ends(p)
  <2>1. Tail(q) # <<>>
    BY <1>1, <1>14
  <2>2. \A i \in 1 .. last : ~EndOfMessage(new, i, s, top - 1)
    <3> SUFFICES ASSUME NEW i \in 1 .. last, EndOfMessage(new, i, s, top - 1)
                 PROVE  FALSE
      OBVIOUS
    <3>1. i \in 1 .. n \/ i = last
      BY <1>3 DEF EndOfMessage
    <3>2. QED
      BY <1>4, <1>5, <1>11, <1>14, <3>1
  <2>3. R <= top
    BY <1>5
  <2>4. QueueOK(new, s, R, top, Tail(q))
    BY <1>2, <1>3, <1>5, <1>12, <2>1, <2>2, <2>3 DEF QueueOK
  <2>5. QED
    BY <1>10, <2>4 DEF new, p
<1>15. QED
  BY <1>13, <1>14

\* A packet of the other thread changes nothing.
LEMMA IdsOfOthers ==
    ASSUME FramingAssumptions, NEW st \in Seq(GoodCell), NEW p \in GoodPacket,
           NEW s, p.op # s, NEW R \in Nat, NEW top \in Nat
    PROVE  LET new == st \o Cells(p)
           IN  /\ IdsOK(st, s, R, top) => IdsOK(new, s, R, top)
               /\ \A q : QueueOK(st, s, R, top, q) => QueueOK(new, s, R, top, q)
<1> DEFINE n == Len(st)
           new == st \o Cells(p)
           last == n + Length(p)
<1>1. /\ n \in Nat /\ last \in Nat /\ Len(new) = last /\ n < last
      /\ \A i \in 1 .. n : new[i] = st[i]
      /\ \A i \in 1 .. last : EndOf(new, i, s) => i \in 1 .. n
  <2>1. /\ n \in Nat /\ last \in Nat /\ Len(new) = last /\ n < last
        /\ \A i \in 1 .. n : new[i] = st[i]
        /\ EndOf(new, last, s) <=> p.op = s
        /\ \A i \in 1 .. last : EndOf(new, i, s) => i \in 1 .. n \/ i = last
    BY EndsAfterSend
  <2> HIDE DEF n, new, last
  <2>2. QED
    BY <2>1
<1> HIDE DEF n, new, last
<1>2. \A i \in 1 .. n : /\ i \in 1 .. last
                        /\ EndOf(new, i, s) <=> EndOf(st, i, s)
                        /\ new[i].packet = st[i].packet
                        /\ \A k : EndOfMessage(new, i, s, k)
                                     <=> EndOfMessage(st, i, s, k)
  BY <1>1 DEF EndOf, EndOfMessage
<1>3. \A i \in 1 .. last : \A k : EndOfMessage(new, i, s, k) => i \in 1 .. n
  BY <1>1 DEF EndOfMessage
<1>4. ASSUME IdsOK(st, s, R, top)
      PROVE  IdsOK(new, s, R, top)
  <2>1. /\ \A i \in 1 .. n : EndOf(st, i, s) =>
              R <= st[i].packet.id /\ st[i].packet.id < top
        /\ \A i, j \in 1 .. n :
              i < j /\ EndOf(st, i, s) /\ EndOf(st, j, s) =>
                 /\ st[i].packet.id <= st[j].packet.id
                 /\ Ends(st[i].packet) => st[i].packet.id # st[j].packet.id
    BY <1>4 DEF IdsOK, n
  <2>2. ASSUME NEW j \in 1 .. last, EndOf(new, j, s),
               NEW k \in R .. new[j].packet.id - 1
        PROVE  \E i \in 1 .. j - 1 : EndOfMessage(new, i, s, k)
    <3>1. j \in 1 .. n
      BY <1>1, <2>2
    <3>2. PICK i \in 1 .. j - 1 : EndOfMessage(st, i, s, k)
      BY <1>2, <1>4, <2>2, <3>1 DEF IdsOK, n
    <3>3. i \in 1 .. n
      BY <1>1, <3>1
    <3>4. QED
      BY <1>2, <3>2, <3>3
  <2>3. /\ \A i \in 1 .. last : EndOf(new, i, s) =>
              R <= new[i].packet.id /\ new[i].packet.id < top
        /\ \A i, j \in 1 .. last :
              i < j /\ EndOf(new, i, s) /\ EndOf(new, j, s) =>
                 /\ new[i].packet.id <= new[j].packet.id
                 /\ Ends(new[i].packet) => new[i].packet.id # new[j].packet.id
    BY <1>1, <1>2, <2>1
  <2>4. QED
    BY <1>1, <2>2, <2>3 DEF IdsOK
<1>5. ASSUME NEW q, QueueOK(st, s, R, top, q)
      PROVE  QueueOK(new, s, R, top, q)
  BY <1>1, <1>2, <1>3, <1>5 DEF QueueOK, n
<1>6. QED
  BY <1>4, <1>5 DEF new

\* The first packet of a thread is one of its next message, and the rest of the
\* stream what remains of it.
LEMMA IdsAfterParse ==
    ASSUME FramingAssumptions, NEW st \in Seq(GoodCell), IsBlocks(st), st # <<>>,
           NEW s \in Senders, NEW R \in Nat, NEW top \in Nat, NEW q,
           IdsOK(st, s, R, top)
    PROVE  LET p == st[1].packet
               new == SubSeq(st, Length(p) + 1, Len(st))
               R2 == IF p.op = s /\ Ends(p) THEN R + 1 ELSE R
           IN  /\ p.op = s => p.id = R /\ R < top
               /\ IdsOK(new, s, R2, top)
               /\ QueueOK(st, s, R, top, q) => QueueOK(new, s, R2, top, q)
<1> DEFINE p == st[1].packet
           n == Len(st)
           L == Length(p)
           new == SubSeq(st, L + 1, n)
           R2 == IF p.op = s /\ Ends(p) THEN R + 1 ELSE R
<1>1. /\ n \in Nat /\ L \in Nat /\ L > 0 /\ L <= n /\ p \in GoodPacket
      /\ \A k \in 1 .. L : st[k] = [packet |-> p, at |-> k]
  BY FirstBlock DEF Header
<1>2. /\ Len(new) = n - L /\ \A i \in 1 .. n - L : new[i] = st[L + i]
  <2>1. st \in Seq(GoodCell) /\ L \in 0 .. Len(st)
    BY <1>1
  <2>2. QED
    BY ONLY <2>1, CutOff DEF new, n
<1>3. p.id \in Nat
  BY <1>1, PacketFacts DEF Ids
<1> HIDE DEF n, L, new, p, R2
<1>4. L = Length(p)
  BY DEF L
<1>5. /\ st[L].packet = p
      /\ EndOf(st, L, s) <=> p.op = s
  <2>1. st[L] = [packet |-> p, at |-> L]
    BY <1>1
  <2>2. QED
    BY <1>4, <2>1 DEF EndOf
<1>6. \A i \in 1 .. L : EndOf(st, i, s) => i = L
  <2> SUFFICES ASSUME NEW i \in 1 .. L, EndOf(st, i, s)
               PROVE  i = L
    OBVIOUS
  <2>1. st[i] = [packet |-> p, at |-> i]
    BY <1>1
  <2>2. QED
    BY <1>4, <2>1 DEF EndOf
<1>7. /\ \A i \in 1 .. n : EndOf(st, i, s) =>
            R <= st[i].packet.id /\ st[i].packet.id < top
      /\ \A i, j \in 1 .. n :
            i < j /\ EndOf(st, i, s) /\ EndOf(st, j, s) =>
               /\ st[i].packet.id <= st[j].packet.id
               /\ Ends(st[i].packet) => st[i].packet.id # st[j].packet.id
      /\ \A j \in 1 .. n : EndOf(st, j, s) =>
            \A k \in R .. st[j].packet.id - 1 :
               \E i \in 1 .. j - 1 : EndOfMessage(st, i, s, k)
  BY DEF IdsOK, n
<1>8. \A i \in 1 .. n : st[i].packet.id \in Nat
  <2> SUFFICES ASSUME NEW i \in 1 .. n
               PROVE  st[i].packet.id \in Nat
    OBVIOUS
  <2>1. st[i].packet \in GoodPacket
    BY GoodCells DEF n
  <2>2. st[i].packet.id \in Ids
    BY <2>1, PacketFacts
  <2>3. QED
    BY <2>2 DEF Ids
<1>9. L \in 1 .. n /\ L \in 1 .. L
  BY <1>1
<1>10. ASSUME p.op = s
       PROVE  p.id = R /\ R < top
  <2>1. EndOf(st, L, s)
    BY <1>5, <1>10
  <2>2. R <= p.id /\ p.id < top
    BY <1>5, <1>7, <1>9, <2>1
  <2>3. ASSUME R < p.id
        PROVE  FALSE
    <3>1. R \in R .. st[L].packet.id - 1
      BY <1>3, <1>5, <2>3
    <3>2. PICK i \in 1 .. L - 1 : EndOfMessage(st, i, s, R)
      BY <1>7, <1>9, <2>1, <3>1
    <3>3. i \in 1 .. L /\ i # L
      BY <1>1
    <3>4. QED
      BY <1>6, <3>2, <3>3 DEF EndOfMessage
  <2>4. QED
    BY <1>3, <2>2, <2>3
<1>11. \A i \in 1 .. n - L :
          /\ L + i \in 1 .. n /\ L < L + i
          /\ EndOf(new, i, s) <=> EndOf(st, L + i, s)
          /\ new[i].packet = st[L + i].packet
          /\ \A k : EndOfMessage(new, i, s, k) <=> EndOfMessage(st, L + i, s, k)
  BY <1>1, <1>2 DEF EndOf, EndOfMessage
\* What ends a later message is in the rest.
<1>12. ASSUME NEW i \in 1 .. n, NEW k \in Nat, R2 <= k, EndOfMessage(st, i, s, k)
       PROVE  i - L \in 1 .. n - L /\ EndOfMessage(new, i - L, s, k)
  <2>1. i > L
    <3> SUFFICES ASSUME i <= L
                 PROVE  FALSE
      BY <1>1
    <3>1. i \in 1 .. L /\ EndOf(st, i, s)
      BY <1>12 DEF EndOfMessage
    <3>2. i = L
      BY <1>6, <3>1
    <3>3. p.op = s /\ Ends(p) /\ p.id = k
      BY <1>5, <1>12, <3>1, <3>2 DEF EndOfMessage
    <3>4. QED
      BY <1>10, <1>12, <3>3 DEF R2
  <2>2. i - L \in 1 .. n - L /\ L + (i - L) = i
    BY <1>1, <2>1
  <2>3. QED
    BY <1>11, <1>12, <2>2
<1>13. R2 \in Nat /\ R <= R2 /\ (R2 = R \/ (R2 = R + 1 /\ p.op = s /\ Ends(p)))
  BY DEF R2
<1>14. IdsOK(new, s, R2, top)
  <2>1. ASSUME NEW i \in 1 .. n - L, EndOf(new, i, s)
        PROVE  R2 <= new[i].packet.id /\ new[i].packet.id < top
    <3>1. /\ L + i \in 1 .. n /\ L < L + i /\ EndOf(st, L + i, s)
          /\ new[i].packet.id = st[L + i].packet.id
      BY <1>11, <2>1
    <3>2. R <= st[L + i].packet.id /\ st[L + i].packet.id < top
      BY <1>7, <3>1
    <3>3. CASE p.op = s /\ Ends(p)
      <4>1. st[L].packet.id # st[L + i].packet.id
        BY <1>5, <1>7, <1>9, <3>1, <3>3
      <4>2. R # st[L + i].packet.id
        BY <1>5, <1>10, <3>3, <4>1
      <4>3. QED
        BY <1>8, <1>13, <3>1, <3>2, <4>2
    <3>4. QED
      BY <1>13, <3>1, <3>2, <3>3
  <2>2. ASSUME NEW i \in 1 .. n - L, NEW j \in 1 .. n - L, i < j,
               EndOf(new, i, s), EndOf(new, j, s)
        PROVE  /\ new[i].packet.id <= new[j].packet.id
               /\ Ends(new[i].packet) => new[i].packet.id # new[j].packet.id
    <3>1. /\ L + i \in 1 .. n /\ L + j \in 1 .. n /\ L + i < L + j
          /\ EndOf(st, L + i, s) /\ EndOf(st, L + j, s)
          /\ new[i].packet = st[L + i].packet
          /\ new[j].packet = st[L + j].packet
      BY <1>1, <1>11, <2>2
    <3>2. QED
      BY <1>7, <3>1
  <2>3. ASSUME NEW j \in 1 .. n - L, EndOf(new, j, s),
               NEW k \in R2 .. new[j].packet.id - 1
        PROVE  \E i \in 1 .. j - 1 : EndOfMessage(new, i, s, k)
    <3>1. /\ L + j \in 1 .. n /\ EndOf(st, L + j, s)
          /\ new[j].packet.id = st[L + j].packet.id
          /\ st[L + j].packet.id \in Nat
      BY <1>8, <1>11, <2>3
    <3>2. k \in R .. st[L + j].packet.id - 1 /\ k \in Nat /\ R2 <= k
      BY <1>13, <3>1
    <3>3. PICK i \in 1 .. (L + j) - 1 : EndOfMessage(st, i, s, k)
      BY <1>7, <3>1, <3>2
    <3>4. i \in 1 .. n /\ i - L < j
      BY <1>1, <3>1
    <3>5. i - L \in 1 .. n - L /\ EndOfMessage(new, i - L, s, k)
      BY <1>12, <3>2, <3>3, <3>4
    <3>6. i - L \in 1 .. j - 1
      BY <1>1, <3>4, <3>5
    <3>7. QED
      BY <3>5, <3>6
  <2>4. QED
    BY <1>2, <2>1, <2>2, <2>3 DEF IdsOK
<1>15. ASSUME QueueOK(st, s, R, top, q)
       PROVE  QueueOK(new, s, R2, top, q)
  <2> DEFINE end == IF q = <<>> THEN top - 1 ELSE top - 2
  <2>1. /\ R <= top /\ \A k \in 1 .. Len(q) : q[k].id = top - 1
        /\ q # <<>> =>
              /\ R <= top - 1
              /\ \A i \in 1 .. n : ~EndOfMessage(st, i, s, top - 1)
        /\ \A k \in R .. end : \E i \in 1 .. n : EndOfMessage(st, i, s, k)
    BY <1>15 DEF QueueOK, n
  <2> HIDE DEF end
  <2>2. R2 <= top
    BY <1>10, <1>13, <2>1
  <2>3. ASSUME q # <<>>
        PROVE  /\ R2 <= top - 1
               /\ \A i \in 1 .. n - L : ~EndOfMessage(new, i, s, top - 1)
    <3>1. \A i \in 1 .. n - L : ~EndOfMessage(new, i, s, top - 1)
      BY <1>11, <2>1, <2>3
    <3>2. ASSUME p.op = s, Ends(p)
          PROVE  R # top - 1
      <4>1. EndOfMessage(st, L, s, R)
        BY <1>5, <1>10, <3>2 DEF EndOfMessage
      <4>2. QED
        BY <1>9, <2>1, <2>3, <4>1
    <3>3. R <= top - 1
      BY <2>1, <2>3
    <3>4. QED
      BY <1>13, <3>1, <3>2, <3>3
  <2>4. ASSUME NEW k \in R2 .. end
        PROVE  \E i \in 1 .. n - L : EndOfMessage(new, i, s, k)
    <3>1. end \in Int
      BY DEF end
    <3>2. k \in R .. end /\ k \in Nat /\ R2 <= k
      BY <1>13, <3>1
    <3>3. PICK i \in 1 .. n : EndOfMessage(st, i, s, k)
      BY <2>1, <3>2
    <3>4. QED
      BY <1>12, <3>2, <3>3
  <2>5. QED
    BY <1>2, <2>1, <2>2, <2>3, <2>4 DEF QueueOK, end
<1>16. QED
  BY <1>10, <1>14, <1>15 DEF new, p, n, L, R2

\* A thread that begins its next message.
LEMMA IdsAfterEncode ==
    ASSUME FramingAssumptions, NEW st \in Seq(GoodCell), NEW s,
           NEW R \in Nat, NEW top \in Nat, NEW q, q # <<>>,
           \A k \in 1 .. Len(q) : q[k].id = top,
           IdsOK(st, s, R, top)
    PROVE  /\ IdsOK(st, s, R, top + 1)
           /\ QueueOK(st, s, R, top, <<>>) => QueueOK(st, s, R, top + 1, q)
<1>1. \A i \in 1 .. Len(st) : st[i].packet.id \in Nat
  <2> SUFFICES ASSUME NEW i \in 1 .. Len(st)
               PROVE  st[i].packet.id \in Nat
    OBVIOUS
  <2>1. st[i].packet \in GoodPacket
    BY GoodCells
  <2>2. st[i].packet.id \in Ids
    BY <2>1, PacketFacts
  <2>3. QED
    BY <2>2 DEF Ids
<1>2. IdsOK(st, s, R, top + 1)
  BY <1>1 DEF IdsOK
<1>3. ASSUME QueueOK(st, s, R, top, <<>>)
      PROVE  QueueOK(st, s, R, top + 1, q)
  <2>1. R <= top
        /\ \A k \in R .. top - 1 :
              \E i \in 1 .. Len(st) : EndOfMessage(st, i, s, k)
    BY <1>3 DEF QueueOK
  <2>2. \A i \in 1 .. Len(st) : ~EndOfMessage(st, i, s, top)
    BY <1>1 DEF IdsOK, EndOfMessage
  <2>3. top + 1 - 1 = top /\ top + 1 - 2 = top - 1
    OBVIOUS
  <2>4. QED
    BY <2>1, <2>2, <2>3 DEF QueueOK
<1>4. QED
  BY <1>2, <1>3

\* The message that a packet goes on with or begins is one of its thread, and
\* has its id.
LEMMA ContinuedFacts ==
    ASSUME FramingInv, NEW p \in GoodPacket,
           running # <<>> =>
              running[1].op = current.op /\ running[1].id = current.id
    PROVE  LET m == Continued(p)
           IN  /\ m \in Seq(ByteType) /\ m # <<>>
               /\ m[1].op = p.op /\ m[1].id = p.id
               /\ Last(m).newline <=> Ends(p)
<1> DEFINE l == Len(p.payload)
<1>1. /\ p.payload \in Seq(ByteType) /\ l \in Nat \ {0}
      /\ p.payload[1].op = p.op /\ p.payload[1].id = p.id
  <2>1. /\ p.payload \in Seq(ByteType) /\ l \in Nat \ {0}
        /\ \A j \in 1 .. l :
              p.payload[j].op = p.op /\ p.payload[j].id = p.id
    BY FramingAssumptions, PacketFacts
  <2>2. 1 \in 1 .. l
    BY <2>1
  <2>3. QED
    BY <2>1, <2>2
<1>2. CASE Continued(p) = p.payload
  <2>1. Last(p.payload) = p.payload[l]
    BY DEF Last
  <2>2. QED
    BY <1>1, <1>2, <2>1 DEF Ends
<1>3. CASE /\ current = [op |-> p.op, id |-> p.id] /\ running # <<>>
           /\ Continued(p) = running \o p.payload
  <2> DEFINE r == Len(running)
             m == running \o p.payload
  <2>1. /\ m \in Seq(ByteType) /\ Len(m) = r + l /\ r \in Nat \ {0}
        /\ \A i \in 1 .. r : m[i] = running[i]
        /\ \A i \in 1 .. l : m[r + i] = p.payload[i]
    <3>1. running \in Seq(ByteType)
      BY DEF FramingInv
    <3>2. /\ m \in Seq(ByteType) /\ Len(m) = r + l /\ r \in Nat
          /\ \A i \in 1 .. r : m[i] = running[i]
          /\ \A i \in 1 .. l : m[r + i] = p.payload[i]
      BY ONLY <1>1, <3>1, Joined
    <3>3. r # 0
      BY <1>3, <3>1
    <3>4. QED
      BY ONLY <3>2, <3>3
  <2> HIDE DEF l, m, r
  <2>2. m # <<>> /\ m[1] = running[1] /\ m[r + l] = p.payload[l]
    BY <1>1, <2>1
  <2>3. Last(m) = m[r + l]
    BY <2>1 DEF Last
  <2>4. Last(m) = p.payload[Len(p.payload)]
    BY <2>2, <2>3 DEF l
  <2>5. m[1].op = p.op /\ m[1].id = p.id
    BY <1>3, <2>2
  <2>6. QED
    BY <1>3, <2>1, <2>2, <2>4, <2>5 DEF Ends, m
<1>4. CASE /\ current = [op |-> p.op, id |-> p.id] /\ running = <<>>
           /\ Continued(p) = running \o p.payload
  <2>1. <<>> \o p.payload = p.payload
    BY <1>1
  <2>2. QED
    BY <1>2, <1>4, <2>1
<1>5. QED
  BY <1>2, <1>3, <1>4 DEF Continued

Upto(n) == [i \in 1 .. n |-> i - 1]

\* The reader has got the messages of s in order, the stream and the queue of s
\* hold those that follow.
InOrder(s, R) ==
    /\ Received(s) = Upto(R)
    /\ IdsOK(Stream, s, R, nextId[s])
    /\ ~closed => QueueOK(Stream, s, R, nextId[s], sending[s])

ChannelInv ==
    /\ running # <<>> =>
          running[1].op = current.op /\ running[1].id = current.id
    /\ reading => \A s \in Senders : \E R \in Nat : InOrder(s, R)

LEMMA InitChannel == Init => ChannelInv
<1> SUFFICES ASSUME Init, NEW s \in Senders
             PROVE  InOrder(s, 0)
  <2>1. Init => running = <<>> /\ 0 \in Nat
    BY DEF Init
  <2>2. QED
    BY <2>1 DEF ChannelInv
<1>1. /\ Stream = <<>> /\ processed = <<>>
      /\ nextId[s] = 0 /\ sending[s] = <<>>
  BY DEF Init, Stream
<1>2. Received(s) = Upto(0)
  <2>1. OwnUpTo(<<>>, s, Len(<<>>)) = {}
    BY DEF OwnUpTo
  <2>2. Cardinality(OwnUpTo(<<>>, s, Len(<<>>))) = 0
    BY <2>1, FS_EmptySet
  <2>3. QED
    BY <1>1, <2>2 DEF Received, IdsOf, Upto
<1>3. QED
  BY <1>1, <1>2, EndsOfAnEmptyStream DEF InOrder

\* What the reader has got after it has parsed a packet.
LEMMA ParsedMessages ==
    ASSUME FramingInv, BlocksInv, ChannelInv, ParsePacket
    PROVE  LET p == Stream[1].packet
           IN  /\ Stream # <<>> /\ p \in GoodPacket /\ IsBlocks(Stream)
               /\ Stream' = SubSeq(Stream, Length(p) + 1, Len(Stream))
               /\ \A s \in Senders : Received(s)' =
                     IF reading' /\ Ends(p) /\ p.op = s
                     THEN Append(Received(s), p.id) ELSE Received(s)
               /\ running' # <<>> =>
                     running'[1].op = current'.op /\ running'[1].id = current'.id
<1> DEFINE p == Stream[1].packet
           m == Continued(p)
<1>1. IsBlocks(Stream)
  BY DEF BlocksInv, ParsePacket
<1>2. /\ Stream # <<>> /\ p = leftOver[Header].packet
      /\ Stream' = SubSeq(Stream, Length(p) + 1, Len(Stream))
  BY <1>1, ParsedStream
<1>3. p \in GoodPacket
  BY <1>1, <1>2, StreamIsTyped, FramingAssumptions, FirstBlock
<1>4. \/ /\ Last(m).newline
         /\ processed' = Append(processed, m)
         /\ reading' = IsWhole(m)
         /\ current' = NoMessage /\ running' = <<>>
      \/ /\ ~Last(m).newline
         /\ current' = [op |-> p.op, id |-> p.id]
         /\ running' = m
         /\ UNCHANGED <<reading, processed>>
  BY <1>2 DEF ParsePacket
<1> HIDE DEF p
<1>5. /\ m \in Seq(ByteType) /\ m # <<>>
      /\ m[1].op = p.op /\ m[1].id = p.id
      /\ Last(m).newline <=> Ends(p)
  BY <1>3, ContinuedFacts DEF ChannelInv
<1> HIDE DEF m
<1>6. CASE Ends(p)
  <2>1. /\ processed' = Append(processed, m) /\ reading' = IsWhole(m)
        /\ running' = <<>>
    BY <1>4, <1>5, <1>6
  <2>2. ASSUME NEW s \in Senders
        PROVE  IdsOf(processed', s) =
                  IF m[1].op = s /\ IsWhole(m)
                  THEN Append(IdsOf(processed, s), m[1].id)
                  ELSE IdsOf(processed, s)
    <3>1. processed \in Seq(Seq(ByteType)) /\ m \in Seq(ByteType)
      BY <1>5 DEF FramingInv
    <3>2. QED
      BY <2>1, <3>1, OneMore
  <2>3. \A s \in Senders : Received(s)' =
           IF reading' /\ Ends(p) /\ p.op = s
           THEN Append(Received(s), p.id) ELSE Received(s)
    <3> SUFFICES ASSUME NEW s \in Senders
                 PROVE  Received(s)' =
                           IF reading' /\ Ends(p) /\ p.op = s
                           THEN Append(Received(s), p.id) ELSE Received(s)
      OBVIOUS
    <3>1. Received(s)' = IdsOf(processed', s) /\ Received(s) = IdsOf(processed, s)
      BY DEF Received, IdsOf, OwnUpTo, NthId, IsWhole
    <3>2. m[1].op = s <=> p.op = s
      BY <1>5
    <3>3. reading' <=> IsWhole(m)
      BY <2>1
    <3>4. QED
      BY <1>5, <1>6, <2>2, <3>1, <3>2, <3>3
  <2>4. QED
    BY <1>1, <1>2, <1>3, <2>1, <2>3 DEF p
<1>7. CASE ~Ends(p)
  <2>1. /\ current' = [op |-> p.op, id |-> p.id]
        /\ running' = m
        /\ UNCHANGED <<reading, processed>>
    BY <1>4, <1>5, <1>7
  <2>2. \A s \in Senders : Received(s)' = Received(s)
    BY <2>1 DEF Received, IdsOf, OwnUpTo, NthId, IsWhole
  <2>3. current'.op = p.op /\ current'.id = p.id
    BY <2>1
  <2>4. running'[1].op = current'.op /\ running'[1].id = current'.id
    BY <1>5, <2>1, <2>3
  <2>5. QED
    BY <1>1, <1>2, <1>3, <1>7, <2>2, <2>4 DEF p
<1>8. QED
  BY <1>6, <1>7

LEMMA ParseKeepsChannel ==
    ASSUME FramingInv, BlocksInv, ChannelInv, ParsePacket
    PROVE  ChannelInv'
<1> DEFINE p == Stream[1].packet
<1>1. /\ Stream # <<>> /\ p \in GoodPacket /\ IsBlocks(Stream)
      /\ Stream' = SubSeq(Stream, Length(p) + 1, Len(Stream))
      /\ \A s \in Senders : Received(s)' =
            IF reading' /\ Ends(p) /\ p.op = s
            THEN Append(Received(s), p.id) ELSE Received(s)
      /\ running' # <<>> =>
            running'[1].op = current'.op /\ running'[1].id = current'.id
  BY ParsedMessages
<1>2. reading /\ UNCHANGED <<nextId, sending, closed>>
  BY DEF ParsePacket, senderVars
<1>3. Stream \in Seq(GoodCell) /\ nextId \in [Senders -> 0 .. MaxId + 1]
  BY StreamIsTyped DEF FramingInv
<1>4. ASSUME reading', NEW s \in Senders
      PROVE  \E R \in Nat : InOrder(s, R)'
  <2>1. PICK R \in Nat : InOrder(s, R)
    BY <1>2 DEF ChannelInv
  <2> DEFINE R2 == IF p.op = s /\ Ends(p) THEN R + 1 ELSE R
             new == SubSeq(Stream, Length(p) + 1, Len(Stream))
  <2>2. nextId[s] \in Nat
    BY <1>3, FramingAssumptions DEF FramingAssumptions
  <2>3. /\ Received(s) = Upto(R)
        /\ IdsOK(Stream, s, R, nextId[s])
        /\ ~closed => QueueOK(Stream, s, R, nextId[s], sending[s])
    BY <2>1 DEF InOrder
  <2>4. /\ p.op = s => p.id = R /\ R < nextId[s]
        /\ IdsOK(new, s, R2, nextId[s])
        /\ QueueOK(Stream, s, R, nextId[s], sending[s])
              => QueueOK(new, s, R2, nextId[s], sending[s])
    BY <1>1, <1>3, <2>2, <2>3, FramingAssumptions, IdsAfterParse
  <2>5. Received(s)' = Upto(R2)
    <3>1. CASE p.op = s /\ Ends(p)
      <4>1. Received(s)' = Append(Upto(R), R)
        BY <1>1, <1>4, <2>3, <2>4, <3>1
      <4>2. Append(Upto(R), R) = Upto(R + 1)
        BY DEF Upto
      <4>3. QED
        BY <3>1, <4>1, <4>2
    <3>2. CASE ~(p.op = s /\ Ends(p))
      BY <1>1, <2>3, <3>2
    <3>3. QED
      BY <3>1, <3>2
  <2>6. R2 \in Nat
    OBVIOUS
  <2> HIDE DEF R2
  <2>7. PICK Q \in Nat : Q = R2
    BY <2>6
  <2>8. /\ IdsOK(Stream', s, Q, nextId'[s])
        /\ ~closed' => QueueOK(Stream', s, Q, nextId'[s], sending'[s])
    BY <1>1, <1>2, <2>3, <2>4, <2>7
  <2>9. Received(s)' = Upto(Q)
    BY <2>5, <2>7
  <2>10. InOrder(s, Q)'
    BY <2>8, <2>9 DEF InOrder, IdsOK, QueueOK, EndOfMessage, EndOf, Length
  <2>11. QED
    BY <2>10
<1>5. QED
  BY <1>1, <1>4 DEF ChannelInv

\* A step that sends, encodes and parses nothing.
LEMMA ChannelKept ==
    ASSUME ChannelInv, UNCHANGED <<nextId, sending, current, running, processed>>,
           reading' => reading /\ Stream' = Stream, closed => closed'
    PROVE  ChannelInv'
<1>1. ASSUME reading', NEW s \in Senders
      PROVE  \E R \in Nat : InOrder(s, R)'
  <2>1. PICK R \in Nat : InOrder(s, R)
    BY <1>1 DEF ChannelInv
  <2>2. Received(s)' = Received(s)
    BY DEF Received, IdsOf, OwnUpTo, NthId, IsWhole
  <2>3. /\ IdsOK(Stream', s, R, nextId'[s])
        /\ ~closed' => QueueOK(Stream', s, R, nextId'[s], sending'[s])
    BY <1>1, <2>1 DEF InOrder
  <2>4. InOrder(s, R)'
    BY <2>1, <2>2, <2>3
       DEF InOrder, IdsOK, QueueOK, EndOfMessage, EndOf, Length
  <2>5. QED
    BY <2>4
<1>2. QED
  BY <1>1 DEF ChannelInv

LEMMA EncodeKeepsChannel ==
    ASSUME FramingInv, ChannelInv, NEW t \in Senders,
           NEW length \in 1 .. MaxLength, Encode(t, length)
    PROVE  ChannelInv'
<1> DEFINE ps == Packets(t, nextId[t], length)
<1>1. /\ sending[t] = <<>> /\ nextId[t] <= MaxId
      /\ sending' = [sending EXCEPT ![t] = ps]
      /\ nextId' = [nextId EXCEPT ![t] = @ + 1]
      /\ UNCHANGED <<closed, wire, leftOver, current, running, reading,
                     processed>>
  BY DEF Encode, readerVars
<1>2. /\ Stream \in Seq(GoodCell) /\ nextId \in [Senders -> 0 .. MaxId + 1]
      /\ sending \in [Senders -> Seq(GoodPacket)]
  BY StreamIsTyped DEF FramingInv
<1>3. \A s \in Senders : nextId[s] \in Nat
  BY <1>2, FramingAssumptions DEF FramingAssumptions
<1>4. /\ ps # <<>> /\ \A k \in 1 .. Len(ps) : ps[k].id = nextId[t]
  <2>1. nextId[t] \in Ids
    BY <1>1, <1>3, FramingAssumptions DEF Ids, FramingAssumptions
  <2>2. QED
    BY <2>1, FramingAssumptions, PacketsAreTheMessage
<1> HIDE DEF ps
<1>5. Stream' = Stream /\ \A s : Received(s)' = Received(s)
  BY <1>1 DEF Stream, Received, IdsOf, OwnUpTo, NthId, IsWhole
<1>6. ASSUME reading', NEW s \in Senders
      PROVE  \E R \in Nat : InOrder(s, R)'
  <2>1. PICK R \in Nat : InOrder(s, R)
    BY <1>1, <1>6 DEF ChannelInv
  <2>2. /\ Received(s) = Upto(R)
        /\ IdsOK(Stream, s, R, nextId[s])
        /\ ~closed => QueueOK(Stream, s, R, nextId[s], sending[s])
    BY <2>1 DEF InOrder
  <2>3. /\ IdsOK(Stream, s, R, nextId'[s])
        /\ ~closed => QueueOK(Stream, s, R, nextId'[s], sending'[s])
    <3>1. CASE s = t
      <4>1. nextId'[s] = nextId[s] + 1 /\ sending'[s] = ps
        BY <1>1, <1>2, <3>1
      <4>2. /\ IdsOK(Stream, s, R, nextId[s] + 1)
            /\ QueueOK(Stream, s, R, nextId[s], <<>>)
                  => QueueOK(Stream, s, R, nextId[s] + 1, ps)
        BY <1>2, <1>3, <1>4, <2>2, <3>1, FramingAssumptions, IdsAfterEncode
      <4>3. QED
        BY <1>1, <2>2, <3>1, <4>1, <4>2
    <3>2. CASE s # t
      <4>1. nextId'[s] = nextId[s] /\ sending'[s] = sending[s]
        BY <1>1, <1>2, <3>2
      <4>2. QED
        BY <2>2, <4>1
    <3>3. QED
      BY <3>1, <3>2
  <2>4. InOrder(s, R)'
    BY <1>1, <1>5, <2>2, <2>3
       DEF InOrder, IdsOK, QueueOK, EndOfMessage, EndOf, Length
  <2>5. QED
    BY <2>4
<1>7. QED
  BY <1>1, <1>6 DEF ChannelInv

LEMMA SendKeepsChannel ==
    ASSUME FramingInv, OrderInv, ChannelInv, NEW t \in Senders, SendPacket(t)
    PROVE  ChannelInv'
<1>1. /\ sending[t] \in Seq(GoodPacket) /\ sending[t] # <<>>
      /\ IsRestOfMessage(sending[t], t)
      /\ UNCHANGED <<nextId, closed, leftOver, current, running, reading,
                     processed>>
  BY DEF SendPacket, readerVars, FramingInv, OrderInv
<1>2. /\ Stream \in Seq(GoodCell) /\ nextId \in [Senders -> 0 .. MaxId + 1]
      /\ sending \in [Senders -> Seq(GoodPacket)]
  BY StreamIsTyped DEF FramingInv
<1>3. \A s \in Senders : nextId[s] \in Nat
  BY <1>2, FramingAssumptions DEF FramingAssumptions
<1>4. \A s : Received(s)' = Received(s)
  BY <1>1 DEF Received, IdsOf, OwnUpTo, NthId, IsWhole
<1>5. ASSUME reading', NEW s \in Senders
      PROVE  \E R \in Nat : InOrder(s, R)'
  <2>1. PICK R \in Nat : InOrder(s, R)
    BY <1>1, <1>5 DEF ChannelInv
  <2>2. /\ Received(s) = Upto(R)
        /\ IdsOK(Stream, s, R, nextId[s])
        /\ ~closed => QueueOK(Stream, s, R, nextId[s], sending[s])
    BY <2>1 DEF InOrder
  <2>3. /\ IdsOK(Stream', s, R, nextId[s])
        /\ ~closed => QueueOK(Stream', s, R, nextId[s], sending'[s])
    <3>1. CASE closed
      <4>1. Stream' = Stream
        BY <1>1, <3>1 DEF SendPacket, Stream
      <4>2. QED
        BY <2>2, <3>1, <4>1
    <3>2. CASE ~closed
      <4> DEFINE p == Head(sending[t])
      <4>1. /\ Stream' = Stream \o Cells(p) /\ p \in GoodPacket
            /\ sending' = [sending EXCEPT ![t] = Tail(@)]
        BY <3>2, SentStream DEF SendPacket
      <4>2. p.op = t
        BY <1>1, FramingAssumptions, RestOfMessage
      <4>3. CASE s = t
        <5>1. sending'[s] = Tail(sending[s])
          BY <1>2, <4>1, <4>3
        <5>2. LET new == Stream \o Cells(Head(sending[s]))
              IN  /\ IdsOK(new, s, R, nextId[s])
                  /\ QueueOK(new, s, R, nextId[s], Tail(sending[s]))
          BY <1>1, <1>2, <1>3, <2>2, <3>2, <4>3, FramingAssumptions, IdsAfterSend
        <5>3. QED
          BY <4>1, <4>3, <5>1, <5>2
      <4>4. CASE s # t
        <5>1. sending'[s] = sending[s]
          BY <1>2, <4>1, <4>4
        <5>2. LET new == Stream \o Cells(p)
              IN  /\ IdsOK(Stream, s, R, nextId[s])
                        => IdsOK(new, s, R, nextId[s])
                  /\ \A q : QueueOK(Stream, s, R, nextId[s], q)
                               => QueueOK(new, s, R, nextId[s], q)
          BY <1>2, <1>3, <4>1, <4>2, <4>4, FramingAssumptions, IdsOfOthers
        <5>3. QED
          BY <2>2, <4>1, <5>1, <5>2
      <4>5. QED
        BY <4>3, <4>4
    <3>3. QED
      BY <3>1, <3>2
  <2>4. InOrder(s, R)'
    BY <1>1, <1>4, <2>2, <2>3
       DEF InOrder, IdsOK, QueueOK, EndOfMessage, EndOf, Length
  <2>5. QED
    BY <2>4
<1>6. QED
  BY <1>1, <1>5 DEF ChannelInv

LEMMA NextChannel ==
    FramingInv /\ BlocksInv /\ OrderInv /\ ChannelInv /\ [Next]_vars
       => ChannelInv'
<1> SUFFICES ASSUME FramingInv, BlocksInv, OrderInv, ChannelInv, [Next]_vars
             PROVE  ChannelInv'
  OBVIOUS
<1>1. ASSUME NEW s \in Senders, EncodeTooLargeId(s)
      PROVE  ChannelInv'
  <2>1. /\ UNCHANGED <<nextId, sending, wire, leftOver, current, running,
                       reading, processed>>
        /\ closed => closed'
    BY <1>1 DEF EncodeTooLargeId, readerVars
  <2>2. Stream' = Stream
    BY <2>1 DEF Stream
  <2>3. QED
    BY <2>1, <2>2, ChannelKept
<1>2. CASE ReceiveEnd
  <2>1. UNCHANGED <<nextId, sending, closed, current, running, processed>>
        /\ ~reading'
    BY <1>2 DEF ReceiveEnd, senderVars
  <2>2. QED
    BY <2>1, ChannelKept
<1>3. ASSUME NEW length \in 1 .. MaxPacket, Receive(length)
      PROVE  ChannelInv'
  <2>1. UNCHANGED <<nextId, sending, closed, current, running, processed>>
        /\ reading
    BY <1>3 DEF Receive, senderVars
  <2>2. reading' => "zeros" \notin upset'
    BY <1>3 DEF Receive, BlocksInv
  <2>3. reading' => Stream' = Stream
    BY <1>3, <2>2, ReceivedStream
  <2>4. QED
    BY <2>1, <2>3, ChannelKept
<1>4. CASE UNCHANGED vars
  <2>1. UNCHANGED <<nextId, sending, closed, wire, leftOver, current, running,
                    reading, processed>>
    BY <1>4 DEF vars, senderVars, readerVars
  <2>2. Stream' = Stream
    BY <2>1 DEF Stream
  <2>3. QED
    BY <2>1, <2>2, ChannelKept
<1>5. QED
  BY <1>1, <1>2, <1>3, <1>4, EncodeKeepsChannel, SendKeepsChannel,
     ParseKeepsChannel DEF Next

LEMMA ChannelInvariant ==
    Spec => [](FramingInv /\ BlocksInv /\ OrderInv /\ ChannelInv)
BY InitTypes, NextTypes, InitBlocks, NextBlocks, InitOrder, NextOrder,
   InitChannel, NextChannel, PTL DEF Spec

-----------------------------------------------------------------------------
(* The connection is a channel.                                             *)

\* What a step that changes neither is for the channel.
LEMMA SameMessages ==
    ASSUME UNCHANGED <<nextId, processed>>, reading' => reading,
           reading \in BOOLEAN, reading' \in BOOLEAN
    PROVE  Chan!Next \/ UNCHANGED
              <<[s \in Senders |-> [i \in 1 .. nextId[s] |-> i - 1]],
                [s \in Senders |-> Received(s)], reading>>
<1>1. \A s \in Senders : Received(s)' = Received(s)
  BY DEF Received, IdsOf, OwnUpTo, NthId, IsWhole
<1>2. [s \in Senders |-> Received(s)]' = [s \in Senders |-> Received(s)]
  BY <1>1
<1>3. [s \in Senders |-> [i \in 1 .. nextId[s] |-> i - 1]]'
         = [s \in Senders |-> [i \in 1 .. nextId[s] |-> i - 1]]
  OBVIOUS
<1>4. CASE reading' = reading
  BY <1>2, <1>3, <1>4
<1>5. CASE reading' = FALSE
  BY <1>2, <1>3, <1>5 DEF Chan!Next, Chan!GiveUp
<1>6. QED
  BY <1>4, <1>5

LEMMA EncodeIsSend ==
    ASSUME FramingInv, NEW t \in Senders, NEW length \in 1 .. MaxLength,
           Encode(t, length)
    PROVE  Chan!Next
<1> DEFINE Sent == [s \in Senders |-> Upto(nextId[s])]
           n == nextId[t]
<1>1. /\ nextId' = [nextId EXCEPT ![t] = @ + 1] /\ n <= MaxId
      /\ UNCHANGED <<processed, reading>>
  BY DEF Encode, readerVars
<1>2. nextId \in [Senders -> 0 .. MaxId + 1]
  BY DEF FramingInv
<1>3. n \in Nat /\ n \in Ids
  BY <1>1, <1>2, FramingAssumptions DEF Ids, FramingAssumptions
<1>4. Upto(n + 1) = Append(Upto(n), n)
  BY <1>3 DEF Upto
<1>5. Sent' = [Sent EXCEPT ![t] = Append(@, n)]
  <2>1. \A s \in Senders : Upto(nextId[s])' =
           IF s = t THEN Append(Upto(n), n) ELSE Upto(nextId[s])
    <3>1. \A s \in Senders :
             nextId'[s] = IF s = t THEN n + 1 ELSE nextId[s]
      BY <1>1, <1>2
    <3>2. QED
      BY <1>4, <3>1 DEF Upto
  <2>2. QED
    BY <2>1
<1>6. [s \in Senders |-> Received(s)]' = [s \in Senders |-> Received(s)]
  <2>1. \A s \in Senders : Received(s)' = Received(s)
    BY <1>1 DEF Received, IdsOf, OwnUpTo, NthId, IsWhole
  <2>2. QED
    BY <2>1
<1>7. PICK id \in Ids : id = n
  BY <1>3
<1>8. Chan!Send(t, id)
  BY <1>1, <1>5, <1>6, <1>7 DEF Chan!Send, Upto
<1>9. QED
  BY <1>8 DEF Chan!Next

LEMMA ParseIsReceive ==
    ASSUME FramingInv, BlocksInv, ChannelInv, ParsePacket,
           reading' \in BOOLEAN
    PROVE  Chan!Next \/ UNCHANGED
              <<[s \in Senders |-> [i \in 1 .. nextId[s] |-> i - 1]],
                [s \in Senders |-> Received(s)], reading>>
<1> DEFINE p == Stream[1].packet
           Sent == [s \in Senders |-> Upto(nextId[s])]
           Got == [s \in Senders |-> Received(s)]
<1>1. /\ Stream # <<>> /\ p \in GoodPacket /\ IsBlocks(Stream)
      /\ \A s \in Senders : Received(s)' =
            IF reading' /\ Ends(p) /\ p.op = s
            THEN Append(Received(s), p.id) ELSE Received(s)
  BY ParsedMessages
<1>2. reading /\ UNCHANGED nextId
  BY DEF ParsePacket, senderVars
<1>3. Sent' = Sent
  BY <1>2 DEF Upto
<1> HIDE DEF p
<1>4. CASE reading' /\ Ends(p)
  <2>1. p.op \in Senders
    BY <1>1, FramingAssumptions, PacketFacts
  <2>2. PICK R \in Nat : InOrder(p.op, R)
    BY <1>2, <2>1 DEF ChannelInv
  <2>3. /\ Received(p.op) = Upto(R)
        /\ IdsOK(Stream, p.op, R, nextId[p.op])
    BY <2>2 DEF InOrder
  <2>4. nextId[p.op] \in Nat
    BY <2>1, FramingAssumptions DEF FramingInv, FramingAssumptions
  <2>5. p.id = R /\ R < nextId[p.op]
    BY <1>1, <2>1, <2>3, <2>4, StreamIsTyped, FramingAssumptions,
       IdsAfterParse DEF p
  <2>6. Got[p.op] = Upto(R) /\ Len(Got[p.op]) = R
    BY <2>1, <2>3 DEF Upto
  <2>7. Sent[p.op] = Upto(nextId[p.op]) /\ Len(Sent[p.op]) = nextId[p.op]
        /\ Sent[p.op][R + 1] = p.id
    BY <2>1, <2>4, <2>5 DEF Upto
  <2>8. Got' = [Got EXCEPT ![p.op] = Append(@, p.id)]
    BY <1>1, <1>4, <2>1
  <2>9. reading' = reading
    BY <1>2, <1>4
  <2> HIDE DEF Got, Sent
  <2>10. /\ reading /\ Len(Got[p.op]) < Len(Sent[p.op])
         /\ Got' = [Got EXCEPT ![p.op] =
                      Append(@, Sent[p.op][Len(Got[p.op]) + 1])]
         /\ Sent' = Sent /\ reading' = reading
    BY <1>2, <1>3, <2>5, <2>6, <2>7, <2>8, <2>9
  <2>11. Chan!Receive(p.op)
    BY <2>10 DEF Chan!Receive, Got, Sent, Upto
  <2>12. QED
    BY <2>1, <2>11 DEF Chan!Next
<1>5. CASE ~(reading' /\ Ends(p))
  <2>1. Got' = Got
    BY <1>1, <1>5
  <2>2. CASE reading'
    BY <1>2, <1>3, <2>1, <2>2 DEF Upto
  <2>3. CASE ~reading'
    BY <1>3, <2>1, <2>3 DEF Chan!Next, Chan!GiveUp, Upto
  <2>4. QED
    BY <2>2, <2>3
<1>6. QED
  BY <1>4, <1>5

\* The messages of each thread reach message_processor whole, once and in their
\* order, with none left out, until the reader gives up: however they are cut
\* into packets and chunks, and however the packets of the two threads
\* alternate.
THEOREM WireIsAChannel == Spec => ServesAsChannel
<1>1. Init => Chan!Init
  <2> SUFFICES ASSUME Init
               PROVE  Chan!Init
    OBVIOUS
  <2>1. \A s \in Senders : Received(s) = <<>>
    <3>1. \A s : Cardinality(OwnUpTo(<<>>, s, Len(<<>>))) = 0
      <4>1. \A s : OwnUpTo(<<>>, s, Len(<<>>)) = {}
        BY DEF OwnUpTo
      <4>2. QED
        BY <4>1, FS_EmptySet
    <3>2. processed = <<>>
      BY DEF Init
    <3>3. QED
      BY <3>1, <3>2 DEF Received, IdsOf
  <2>2. \A s \in Senders : [i \in 1 .. nextId[s] |-> i - 1] = <<>>
    BY DEF Init
  <2>3. QED
    BY <2>1, <2>2 DEF Init, Chan!Init
<1>2. /\ FramingInv /\ BlocksInv /\ OrderInv /\ ChannelInv /\ FramingInv'
      /\ [Next]_vars
      => [Chan!Next]_<<[s \in Senders |-> [i \in 1 .. nextId[s] |-> i - 1]],
                       [s \in Senders |-> Received(s)], reading>>
  <2> SUFFICES ASSUME FramingInv, BlocksInv, OrderInv, ChannelInv, FramingInv',
                      [Next]_vars
               PROVE  Chan!Next \/ UNCHANGED
                        <<[s \in Senders |-> [i \in 1 .. nextId[s] |-> i - 1]],
                          [s \in Senders |-> Received(s)], reading>>
    OBVIOUS
  <2>t. reading \in BOOLEAN /\ reading' \in BOOLEAN
    BY DEF FramingInv
  <2>1. CASE /\ UNCHANGED <<nextId, processed>>
             /\ reading' => reading
    BY <2>t, <2>1, SameMessages
  <2>2. CASE \E s \in Senders, length \in 1 .. MaxLength : Encode(s, length)
    BY <2>2, EncodeIsSend
  <2>3. CASE ParsePacket
    BY <2>t, <2>3, ParseIsReceive
  <2>4. ASSUME NEW s \in Senders, EncodeTooLargeId(s) \/ SendPacket(s)
        PROVE  UNCHANGED <<nextId, processed, reading>>
    BY <2>4 DEF EncodeTooLargeId, SendPacket, readerVars
  <2>5. ASSUME ReceiveEnd \/ \E length \in 1 .. MaxPacket : Receive(length)
        PROVE  UNCHANGED <<nextId, processed>> /\ reading
    BY <2>5 DEF ReceiveEnd, Receive, senderVars
  <2>6. CASE UNCHANGED vars
    BY <2>1, <2>6 DEF vars, senderVars, readerVars
  <2>7. QED
    BY <2>1, <2>2, <2>3, <2>4, <2>5, <2>6 DEF Next
<1>3. QED
  BY <1>1, <1>2, ChannelInvariant, PTL DEF Spec, ServesAsChannel, Chan!Spec
=============================================================================
