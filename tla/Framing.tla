------------------------------ MODULE Framing -------------------------------
(***************************************************************************)
(* The wire protocol (src/protocol.py) on one connection from the server to*)
(* a client.  Two threads of the server write to it: the client's handler  *)
(* its responses, the delivery thread the messages for the client's account*)
(* Each message is cut into packets; the socket's lock is held for one     *)
(* packet.  The reader gets the stream in chunks, which end anywhere.      *)
(*                                                                         *)
(* A byte of the stream is a cell: what packet it belongs to, and where.   *)
(* The socket is a blocking one, whose send takes a packet as a whole.     *)
(***************************************************************************)
EXTENDS Integers, Sequences, FiniteSets, SequencesExt

CONSTANTS
    Handler, Delivery, \* the two threads, whose operation codes differ
    MaxLength,  \* the longest message
    MaxPayload, \* MAX_PAYLOAD_SIZE
    MaxId       \* the largest id that fits into two bytes

\* A header is a version, which is not zero, a byte that is zero, and a byte
\* that is not: between them they stand for METADATA_SIZES.
Header == 3
Zero   == 2

MaxPacket == Header + MaxPayload

ASSUME FramingAssumptions ==
    /\ Handler # Delivery
    /\ MaxLength \in Nat \ {0} /\ MaxPayload \in Nat \ {0} /\ MaxId \in Nat

Senders == {Handler, Delivery}

VARIABLES
    nextId,    \* nextId[s]: id_accum of the handler, msg_counter of the other
    sending,   \* sending[s]: the packets of s's message that are not sent yet
    ended,     \* threads that an exception has ended
    closed,    \* the server has closed the connection
    wire,      \* the cells on their way
    leftOver,  \* left_over_packet: the cells read and not parsed
    current,   \* curr_op and curr_msg_id, the message that is being built
    running,   \* running_msg, the bytes of it
    reading,   \* read_packets has not returned
    processed, \* history: what message_processor was called with
    upset      \* history: what has happened to the stream

senderVars == <<nextId, sending, ended, closed>>
readerVars == <<leftOver, current, running, reading, processed>>
vars == <<senderVars, wire, readerVars, upset>>

NoMessage == [op |-> "none", id |-> -1]

Init ==
    /\ nextId = [s \in Senders |-> 0]
    /\ sending = [s \in Senders |-> <<>>]
    /\ ended = {} /\ closed = FALSE
    /\ wire = <<>> /\ leftOver = <<>>
    /\ current = NoMessage /\ running = <<>>
    /\ reading = TRUE
    /\ processed = <<>> /\ upset = {}

-----------------------------------------------------------------------------
(* Senders.                                                                 *)

\* The i-th byte of a message; the last is the newline that ends it.
Byte(s, id, length, i) == [op |-> s, id |-> id, newline |-> i = length, at |-> i]

Whole(s, id, length) == [i \in 1 .. length |-> Byte(s, id, length, i)]

Packets(s, id, length) ==
    [k \in 1 .. (length + MaxPayload - 1) \div MaxPayload |->
        [op |-> s, id |-> id,
         payload |-> SubSeq(Whole(s, id, length), (k - 1) * MaxPayload + 1,
                            IF k * MaxPayload < length THEN k * MaxPayload
                            ELSE length)]]

EncodeAnyId(s, length) == \* mutant: ids without a limit
    /\ s \notin ended
    /\ sending[s] = <<>>
    /\ sending' = [sending EXCEPT ![s] = Packets(s, nextId[s], length)]
    /\ nextId' = [nextId EXCEPT ![s] = @ + 1]
    /\ UNCHANGED <<ended, closed, wire, readerVars, upset>>

\* One after the other: a thread returns from send before it encodes again.
Encode(s, length) ==
    /\ s \notin ended
    /\ sending[s] = <<>>
    /\ nextId[s] <= MaxId
    /\ sending' = [sending EXCEPT ![s] = Packets(s, nextId[s], length)]
    /\ nextId' = [nextId EXCEPT ![s] = @ + 1]
    /\ UNCHANGED <<ended, closed, wire, readerVars, upset>>

\* OverflowError: to_bytes.  It ends the delivery thread; the handler closes the
\* connection.
EncodeTooLargeId(s) ==
    /\ s \notin ended
    /\ sending[s] = <<>>
    /\ nextId[s] > MaxId
    /\ ended' = ended \cup {s}
    /\ closed' = (closed \/ s = Handler)
    /\ upset' = IF s = Handler THEN upset \cup {"closed"} ELSE upset
    /\ UNCHANGED <<nextId, sending, wire, readerVars>>

Cells(packet) ==
    [i \in 1 .. Header + Len(packet.payload) |-> [packet |-> packet, at |-> i]]

\* The other thread is in the middle of a message of several packets.
Between(s) ==
    \E t \in Senders \ {s} :
        sending[t] # <<>> /\ Head(sending[t]).payload[1].at > 1

\* _send_one_packet.  On a closed connection the rest is not sent either.
SendPacket(s) ==
    /\ sending[s] # <<>>
    /\ \/ /\ ~closed
          /\ wire' = wire \o Cells(Head(sending[s]))
          /\ sending' = [sending EXCEPT ![s] = Tail(@)]
          /\ upset' = IF Between(s) THEN upset \cup {"mixed"} ELSE upset
       \/ /\ closed
          /\ sending' = [sending EXCEPT ![s] = <<>>]
          /\ UNCHANGED <<wire, upset>>
    /\ UNCHANGED <<nextId, ended, closed, readerVars>>

-----------------------------------------------------------------------------
(* The reader.                                                              *)

\* Mutant: more than the packet must be there.
ParsableLater(cells) ==
    /\ Len(cells) > Header
    /\ Len(cells) - Header > Len(cells[Header].packet.payload)

Parsable(cells) ==
    /\ Len(cells) > Header
    /\ Len(cells) - Header >= Len(cells[Header].packet.payload)

OnlyZeros(chunk) == \A i \in DOMAIN chunk : chunk[i].at = Zero

\* A chunk of any length, read when nothing more can be parsed.  One that is
\* nothing but zeros is taken for the end of the connection.
Receive(length) ==
    /\ reading
    /\ ~Parsable(leftOver)
    /\ length <= Len(wire)
    /\ LET chunk == SubSeq(wire, 1, length)
       IN  \/ /\ ~OnlyZeros(chunk)
              /\ leftOver' = leftOver \o chunk
              /\ UNCHANGED <<reading, upset>>
           \/ /\ OnlyZeros(chunk)
              /\ reading' = FALSE
              /\ upset' = upset \cup {"zeros"}
              /\ UNCHANGED leftOver
    /\ wire' = SubSeq(wire, length + 1, Len(wire))
    /\ UNCHANGED <<senderVars, current, running, processed>>

\* recv returns no bytes.
ReceiveEnd ==
    /\ reading
    /\ ~Parsable(leftOver)
    /\ wire = <<>> /\ closed
    /\ reading' = FALSE
    /\ UNCHANGED <<senderVars, wire, leftOver, current, running, processed,
                   upset>>

IsWhole(bytes) ==
    \A i \in DOMAIN bytes :
        /\ bytes[i].at = i
        /\ bytes[i].op = bytes[1].op /\ bytes[i].id = bytes[1].id

\* Mutants: what follows a packet is dropped, or what came before it.
RestDropped(packet)    == <<>>
ContinuedNever(packet) == packet.payload

Rest(packet) == SubSeq(leftOver, Header + Len(packet.payload) + 1, Len(leftOver))

\* The message that the packet goes on with, or begins.
Continued(packet) ==
    IF current = [op |-> packet.op, id |-> packet.id]
    THEN running \o packet.payload ELSE packet.payload

\* One turn of the loop over the packets of left_over_packet and what was read.
\* Of a fragment of a message no arguments can be made: the exception ends
\* read_packets.
ParsePacket ==
    /\ reading
    /\ Parsable(leftOver)
    /\ LET packet == leftOver[Header].packet
           message == Continued(packet)
       IN  /\ leftOver' = Rest(packet)
           /\ \/ /\ Last(message).newline
                 /\ processed' = Append(processed, message)
                 /\ reading' = IsWhole(message)
                 /\ current' = NoMessage /\ running' = <<>>
              \/ /\ ~Last(message).newline
                 /\ current' = [op |-> packet.op, id |-> packet.id]
                 /\ running' = message
                 /\ UNCHANGED <<reading, processed>>
    /\ UNCHANGED <<senderVars, wire, upset>>

-----------------------------------------------------------------------------
Read == ParsePacket \/ ReceiveEnd \/ \E length \in 1 .. MaxPacket : Receive(length)

Next ==
    \/ \E s \in Senders, length \in 1 .. MaxLength : Encode(s, length)
    \/ \E s \in Senders : EncodeTooLargeId(s) \/ SendPacket(s)
    \/ ParsePacket \/ ReceiveEnd
    \/ \E length \in 1 .. MaxPacket : Receive(length)

\* TCP delivers what was sent, and both ends are threads in a loop.
Fairness ==
    /\ \A s \in Senders : WF_vars(SendPacket(s))
    /\ WF_vars(Read)

Spec == Init /\ [][Next]_vars

FairSpec == Spec /\ Fairness

-----------------------------------------------------------------------------
Ids == 0 .. MaxId

ByteType == [op : Senders, id : Ids, newline : BOOLEAN, at : 1 .. MaxLength]

PacketType == [op : Senders, id : Ids, payload : Seq(ByteType)]

CellType == [packet : PacketType, at : 1 .. MaxPacket]

FramingTypeOK ==
    /\ nextId \in [Senders -> 0 .. MaxId + 1]
    /\ sending \in [Senders -> Seq(PacketType)]
    /\ ended \in SUBSET Senders /\ closed \in BOOLEAN /\ reading \in BOOLEAN
    /\ wire \in Seq(CellType) /\ leftOver \in Seq(CellType)
    /\ current \in [op : Senders, id : Ids] \cup {NoMessage}
    /\ running \in Seq(ByteType)
    /\ processed \in Seq(Seq(ByteType))
    /\ upset \in SUBSET {"mixed", "zeros", "closed"}

\* The stream the reader has before it begins with a header, however it was cut
\* into chunks, and the cells of a packet lie together in it, however the two
\* threads alternate.
PacketsStayTogether ==
    LET stream == leftOver \o wire
    IN  "zeros" \notin upset =>
            /\ stream # <<>> => stream[1].at = 1
            /\ \A i \in 1 .. Len(stream) - 1 :
                 \/ /\ stream[i + 1].packet = stream[i].packet
                    /\ stream[i + 1].at = stream[i].at + 1
                 \/ /\ stream[i].at = Header + Len(stream[i].packet.payload)
                    /\ stream[i + 1].at = 1

\* The reader does not give up before the end of the connection, unless packets
\* of two messages have alternated or it has read nothing but zeros.
GivesUpOnlyIfUpset == ~reading => upset # {}

\* message_processor is called on complete messages only.
OnlyWholeMessagesAreProcessed ==
    \A i \in DOMAIN processed : IsWhole(processed[i])

\* As long as the packets of two messages have not alternated.
WholeUnlessMixed == "mixed" \notin upset => OnlyWholeMessagesAreProcessed

\* The ids of the messages of s that were processed as a whole, in order.  The
\* k-th of them is found by counting, in the place of a recursion.
OwnUpTo(messages, s, last) ==
    {i \in 1 .. last : messages[i][1].op = s /\ IsWhole(messages[i])}

NthId(messages, s, k) ==
    {messages[i][1].id : i \in {j \in OwnUpTo(messages, s, Len(messages)) :
                                  Cardinality(OwnUpTo(messages, s, j)) = k}}

IdsOf(messages, s) ==
    [k \in 1 .. Cardinality(OwnUpTo(messages, s, Len(messages))) |->
        CHOOSE id \in NthId(messages, s, k) : TRUE]

Received(s) == IdsOf(processed, s)

\* Even so, whatever else is processed: those of each thread in order, each
\* once, none left out, and none after the reader has given up.
Chan == INSTANCE Channel
          WITH Messages <- Ids,
               sent <- [s \in Senders |-> [i \in 1 .. nextId[s] |-> i - 1]],
               received <- [s \in Senders |-> Received(s)],
               open <- reading

ServesAsChannel == Chan!Spec

\* Whatever has been sent is processed in the end, unless something happens to
\* the stream: the reader never waits for more with a whole message before it.
EverythingIsProcessed ==
    []<>(upset # {} \/ \A s \in Senders : Len(Received(s)) = nextId[s])

=============================================================================
