------------------------------ MODULE Framing ------------------------------
(***************************************************************************)
(* Commands on a TCP connection of hackermud: CServerConnection of the     *)
(* server and of the client (connection.cpp), the stream buffer CStreamData*)
(* (streamdata.cpp) and the loops that drain it (HandlePlayerData in       *)
(* server/main.cpp, main in client/main.cpp).                              *)
(*                                                                         *)
(* A command is a number, a length of LenBytes bytes, least significant    *)
(* first, and a body.  TCP delivers the bytes in order, in pieces of any   *)
(* size.  The stream keeps them in chunks that are made when they are      *)
(* first written and never used again: what a connection can receive in    *)
(* all is ChunkSize * MaxChunks bytes.  The other side need not be this    *)
(* program: behind its commands it may send any bytes.                     *)
(***************************************************************************)
EXTENDS Naturals, Sequences

CONSTANTS
  Numbers,     \* command numbers
  Bodies,      \* bodies the senders use, sequences of bytes
  OtherBytes,  \* what a sender may send that SendCommand did not make
  Bad,         \* numbers of the commands DoNetworkCommand refuses
  Base,        \* values of a byte (256)
  LenBytes,    \* bytes of the length (4)
  RecvMax,     \* most bytes of one RecvData (4096)
  ChunkSize,   \* MEMORY_CHUNK_SIZE
  MaxChunks,   \* MAX_MEMORY_CHUNKS
  Roles,       \* which loop is receiving: "server" (HandlePlayerData), "client"
               \* (main), "login" (GetProofOfWork, DoCreatePlayer)
  MaxSent,     \* bound: commands sent in a behaviour
  NoChunk

Commands == [number : Numbers, body : Bodies]
HeaderLen == 1 + LenBytes

\* Base to the k: what byte k + 1 of the length counts.
Power[k \in 0 .. LenBytes] == IF k = 0 THEN 1 ELSE Base * Power[k - 1]
Word == Power[LenBytes]          \* uint32_t arithmetic is modulo Word

ASSUME FramingAssumption ==
  /\ LenBytes \in Nat \ {0}
  /\ Base \in Nat \ {0, 1}
  /\ RecvMax \in Nat \ {0}
  /\ ChunkSize \in Nat \ {0}
  /\ MaxChunks \in Nat \ {0}
  /\ Numbers \subseteq 0 .. Base - 1
  /\ ChunkSize * MaxChunks < Word
  /\ Bad \subseteq 0 .. Base - 1
  /\ \A b \in Bodies : b \in Seq(0 .. Base - 1) /\ Len(b) + HeaderLen < Word
  /\ OtherBytes \subseteq Seq(0 .. Base - 1)
  /\ NoChunk \notin [0 .. ChunkSize - 1 -> 0 .. Base - 1]
  /\ Roles \subseteq {"server", "client", "login"}

VARIABLES
  role,
  sending,       \* the sender has a socket, and sends commands
  foreign,       \* it has sent something else
  wire,          \* bytes in the network
  socket,        \* the receiver has a socket
  draining,      \* the receiver is in its loop over RecvCommand
  chunks,        \* m_memoryChunks
  writePos,      \* m_memoryWritePos
  readPos,       \* m_memoryReadPos
  sent,          \* history: commands passed to SendCommand with success
  handled        \* history: commands passed to DoNetworkCommand

stream == <<chunks, writePos, readPos>>
framingVars == <<role, sending, foreign, wire, socket, draining, stream, sent, handled>>

FramingInit ==
  /\ role \in Roles
  /\ sending = TRUE
  /\ foreign = FALSE
  /\ wire = <<>>
  /\ socket = TRUE
  /\ draining = FALSE
  /\ chunks = [i \in 0 .. MaxChunks - 1 |-> NoChunk]
  /\ writePos = 0
  /\ readPos = 0
  /\ sent = <<>>
  /\ handled = <<>>

FramingTypeOK ==
  /\ role \in Roles
  /\ sending \in BOOLEAN
  /\ foreign \in BOOLEAN
  /\ wire \in Seq(0 .. Base - 1)
  /\ socket \in BOOLEAN
  /\ draining \in BOOLEAN
  /\ chunks \in [0 .. MaxChunks - 1 ->
                   [0 .. ChunkSize - 1 -> 0 .. Base - 1] \cup {NoChunk}]
  /\ 0 <= readPos /\ readPos <= writePos /\ writePos <= ChunkSize * MaxChunks
  /\ sent \in Seq(Commands)
  /\ handled \in Seq([number : 0 .. Base - 1, body : Seq(0 .. Base - 1)])

-----------------------------------------------------------------------------
(* The wire format *)

\* *((uint32_t*)(pSocketData+1)) = dataLen
LengthBytes(n) == [i \in 1 .. LenBytes |-> (n \div Power[i - 1]) % Base]

Encode(c) == <<c.number>> \o LengthBytes(Len(c.body)) \o c.body

\* *((uint32_t*)(cmdData+1)) of a header
LengthOf(header) ==
  LET sum[i \in 0 .. LenBytes] ==
        IF i = 0 THEN 0 ELSE sum[i - 1] + header[i + 1] * Power[i - 1]
  IN sum[LenBytes]

-----------------------------------------------------------------------------
(* CStreamData *)

GetReadAvailable == writePos - readPos

\* The byte at a position of the stream; a chunk that was never made has none.
Made(pos) == chunks[pos \div ChunkSize] # NoChunk
ByteAt(pos) == chunks[pos \div ChunkSize][pos % ChunkSize]

\* Read and Peak throw when there is not enough data or no chunk behind it.
Readable(pos, n) ==
  /\ n <= writePos - pos
  /\ \A k \in pos .. pos + n - 1 : k < ChunkSize * MaxChunks /\ Made(k)

Read(pos, n) == [i \in 1 .. n |-> ByteAt(pos + i - 1)]

\* Write: it throws at the first byte that falls behind the last chunk, and
\* has then written the bytes before it but not moved writePos.
Fits(n) == writePos + n <= ChunkSize * MaxChunks

\* Mutant: every part of a write starts at the offset of the first one.
WrittenAtOffset(data) ==
  [c \in 0 .. MaxChunks - 1 |->
     LET mine == {i \in 1 .. Len(data) : (writePos + i - 1) \div ChunkSize = c}
     IN IF mine = {} THEN chunks[c]
        ELSE [o \in 0 .. ChunkSize - 1 |->
                LET i == (o + 1) - (writePos % ChunkSize)
                IN IF i \in 1 .. Len(data) THEN data[i]
                   ELSE IF chunks[c] # NoChunk THEN chunks[c][o] ELSE 0]]

Written(data) ==
  [c \in 0 .. MaxChunks - 1 |->
     LET mine == {i \in 1 .. Len(data) : (writePos + i - 1) \div ChunkSize = c}
     IN IF mine = {} THEN chunks[c]
        ELSE [o \in 0 .. ChunkSize - 1 |->
                LET i == (c * ChunkSize + o + 1) - writePos
                IN IF i \in mine THEN data[i]
                   ELSE IF chunks[c] # NoChunk THEN chunks[c][o] ELSE 0]]

-----------------------------------------------------------------------------
(* The sender *)

SendCommand(c) ==
  /\ sending
  /\ Len(sent) < MaxSent
  /\ wire' = wire \o Encode(c)
  /\ sent' = Append(sent, c)
  /\ UNCHANGED <<role, sending, foreign, socket, draining, stream, handled>>

\* The socket takes a part of the command only, or nothing: SendCommand
\* fails and the sender disconnects.
SendCommandFails(c) ==
  /\ sending
  /\ Len(sent) < MaxSent
  /\ \E n \in 0 .. Len(Encode(c)) - 1 : wire' = wire \o SubSeq(Encode(c), 1, n)
  /\ sending' = FALSE
  /\ UNCHANGED <<role, foreign, socket, draining, stream, sent, handled>>

\* A sender of another make: after some commands come any bytes.
SendOther(bytes) ==
  /\ sending
  /\ sending' = FALSE /\ foreign' = TRUE
  /\ wire' = wire \o bytes
  /\ UNCHANGED <<role, socket, draining, stream, sent, handled>>

-----------------------------------------------------------------------------
(* The receiver *)

\* ReadStream after select: what has arrived, up to RecvMax bytes.
ReadStream(n) ==
  /\ socket /\ ~ draining
  /\ n \in 1 .. RecvMax /\ n <= Len(wire)
  /\ Fits(n)
  /\ chunks' = Written(SubSeq(wire, 1, n))
  /\ writePos' = writePos + n
  /\ wire' = SubSeq(wire, n + 1, Len(wire))
  /\ draining' = TRUE
  /\ UNCHANGED <<role, sending, foreign, socket, readPos, sent, handled>>

\* The stream is full, or the connection broke: the receiver disconnects.
ReadStreamFails(n) ==
  /\ socket /\ ~ draining
  /\ n \in 0 .. RecvMax /\ n <= Len(wire)
  /\ n = 0 \/ ~ Fits(n)
  /\ chunks' = Written(SubSeq(wire, 1, n))
  /\ wire' = SubSeq(wire, n + 1, Len(wire))
  /\ socket' = FALSE
  /\ UNCHANGED <<role, sending, foreign, draining, writePos, readPos, sent, handled>>

Header == Read(readPos, HeaderLen)

\* Mutant: the header is not counted.
CompleteBody ==
  /\ GetReadAvailable >= HeaderLen
  /\ GetReadAvailable >= LengthOf(Header)

\* Mutant: the last command of the buffer has to be followed by something.
CompleteMore ==
  /\ GetReadAvailable >= HeaderLen
  /\ GetReadAvailable > (LengthOf(Header) + HeaderLen) % Word

\* The whole command is there.  The sum is one of uint32_t, and a length at the end of
\* its range passes for one of no bytes.
Complete ==
  /\ GetReadAvailable >= HeaderLen
  /\ GetReadAvailable >= (LengthOf(Header) + HeaderLen) % Word

\* RecvCommand returns a command and DoNetworkCommand handles it.  A command
\* it refuses ends the connection on the server; the client only leaves its
\* loop, and looks at the rest of the stream when more data has come.  The
\* steps of the login take one command and look no further.
RecvCommand ==
  /\ socket /\ draining
  /\ Complete
  /\ Readable(readPos + HeaderLen, LengthOf(Header))
  /\ LET c == [number |-> Header[1],
               body   |-> Read(readPos + HeaderLen, LengthOf(Header))] IN
     /\ handled' = Append(handled, c)
     /\ readPos' = readPos + HeaderLen + Len(c.body)
     /\ socket' = (c.number \notin Bad \/ role = "client")
     /\ draining' = (c.number \notin Bad /\ role # "login")
  /\ UNCHANGED <<role, sending, foreign, wire, chunks, writePos, sent>>

\* Read, or the allocation before it, throws where nobody catches: the process ends.
RecvCommandThrows ==
  /\ socket /\ draining
  /\ Complete
  /\ ~ Readable(readPos + HeaderLen, LengthOf(Header))
  /\ socket' = FALSE
  /\ UNCHANGED <<role, sending, foreign, wire, draining, stream, sent, handled>>

\* RecvCommand returns false: the loop ends.  A step of the login gives up
\* when the answer is not complete after one ReadStream.
Drained ==
  /\ socket /\ draining
  /\ ~ Complete
  /\ draining' = FALSE
  /\ socket' = (role # "login")
  /\ UNCHANGED <<role, sending, foreign, wire, stream, sent, handled>>

FramingNext ==
  \/ \E c \in Commands : SendCommand(c) \/ SendCommandFails(c)
  \/ \E bytes \in OtherBytes : SendOther(bytes)
  \/ \E n \in 0 .. RecvMax : ReadStream(n) \/ ReadStreamFails(n)
  \/ RecvCommand \/ RecvCommandThrows
  \/ Drained

FramingSpec == FramingInit /\ [][FramingNext]_framingVars

\* The network delivers, select reports it and the loops go on.
FramingFairSpec ==
  /\ FramingSpec
  /\ WF_framingVars(\E n \in 1 .. RecvMax : ReadStream(n) \/ ReadStreamFails(n))
  /\ WF_framingVars(RecvCommand \/ RecvCommandThrows \/ Drained)

-----------------------------------------------------------------------------
(* Properties *)

\* Those of the commands handled that SendCommand made.
Own(commands) ==
  IF foreign /\ Len(commands) > Len(sent) THEN SubSeq(commands, 1, Len(sent)) ELSE commands

\* The loops over RecvCommand handle what was sent: in order, once, whole, whatever
\* the pieces the network makes of it, wherever a chunk ends and whatever comes behind.
Queue == INSTANCE CommandQueue WITH
           pending <- SubSeq(sent, Len(handled) + 1, Len(sent)),
           handled <- Own(handled),
           open    <- socket
HandlesWhatWasSent == Queue!Spec

\* Peak and Read throw in RecvCommand, where nobody catches it and the process ends,
\* for a length whose sum with that of the header wraps (connection.cpp:114), and for
\* nothing else: otherwise the chunks behind the counters exist.  No command that
\* SendCommand makes is of that kind.
ThrowsOnWrapOnly ==
  LET n == LengthOf(Header) IN
  socket /\ draining =>
    /\ GetReadAvailable >= HeaderLen => Readable(readPos, HeaderLen)
    /\ Complete => (Readable(readPos + HeaderLen, n) <=> n + HeaderLen < Word)
    /\ Complete /\ n + HeaderLen >= Word => foreign /\ Len(handled) >= Len(sent)

\* The server handles every command that was sent whole, or disconnects.
ServerHandlesAll ==
  \A k \in 1 .. MaxSent :
    (role = "server" /\ Len(sent) >= k) ~> (Len(handled) >= k \/ ~ socket)

=============================================================================
