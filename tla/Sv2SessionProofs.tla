-------------------------- MODULE Sv2SessionProofs --------------------------
(***************************************************************************)
(* The theorem that read_frame is cancel safe, for frames of any number    *)
(* and length, read in any pieces.                                         *)
(***************************************************************************)
EXTENDS Sv2Session, TLAPS

-----------------------------------------------------------------------------
(* The inductive invariant. *)

\* The places of a byte in the stream, and what a cell of the buffer holds.
Place ==
  {b \in Nat \X {1, 2} \X Nat :
     (b[1] = 0 => b[2] = 1) /\ (b[2] = 2 => b[1] <= Len(Bodies))}
Cell == Place \cup {<<>>}

\* The length of the part that b is in.
Size(b) == IF b[1] = 0 THEN HandshakeLen ELSE IF b[2] = 1 THEN HeaderLen ELSE Bodies[b[1]]

\* The bytes that arrived and were not read, and the next one to come.
At(i) == IF i <= Len(socket) THEN socket[i] ELSE sent

Shape ==
  /\ TypeOK
  /\ sent \in Place /\ socket \in Seq(Place) /\ current_frame_buf \in Seq(Cell)
  /\ decoded \in Seq(Seq(Cell)) /\ dispatched \in Seq(Seq(Seq(Cell)))
  /\ phase \in {"handshake", "closed"} => reading = "no"

\* The stream is what the miner sends: byte after byte, and within one part
\* the byte that is d further on.
Stream ==
  /\ \A i \in 1 .. Len(socket) : socket[i][1] <= Len(Bodies) /\ At(i + 1) = Following(At(i))
  /\ \A i, j \in 1 .. Len(socket) + 1 :
       LET b == At(i)
       IN  i <= j /\ b[3] + (j - i) <= Size(b) =>
             At(j) = <<b[1], b[2], b[3] + (j - i)>>

\* The part that is being read: frame and part number.
FrameNo == Len(dispatched) + 1
PartNo  == Len(decoded) + 1

\* Nothing was lost or read twice: the buffer holds the first bytes_read bytes
\* of the part, and the stream goes on with the byte that follows them.
Progress ==
  phase \in {"setup", "serving"} =>
    /\ decoded = <<>> \/ decoded = <<Bytes(FrameNo, 1)>>
    /\ decoded # <<>> \/ bytes_read > 0 => FrameNo <= Len(Bodies)
    /\ bytes_read > 0 \/ reading = "read" => Len(current_frame_buf) = Expected
    /\ \A k \in 1 .. bytes_read : current_frame_buf[k] = <<FrameNo, PartNo, k>>
    /\ At(1) = IF bytes_read = 0 THEN <<FrameNo, PartNo, 1>>
               ELSE Following(<<FrameNo, PartNo, bytes_read>>)

Before ==
  phase = "handshake" =>
    At(1) = <<0, 1, 1>> /\ dispatched = <<>> /\ decoded = <<>> /\ bytes_read = 0

Intact == \A i \in 1 .. Len(dispatched) : dispatched[i] = <<Bytes(i, 1), Bytes(i, 2)>>

IInv == Shape /\ Stream /\ Progress /\ Before /\ Intact

-----------------------------------------------------------------------------
(* The bytes of the stream. *)

\* A part has at least one byte.
LEMMA SizeNat ==
  ASSUME NEW b \in Place
  PROVE  Size(b) \in Nat \ {0}
<1>1. b[1] \in Nat /\ b[2] \in {1, 2} /\ (b[2] = 2 => b[1] <= Len(Bodies))
  BY DEF Place
<1>2. b[1] # 0 /\ b[2] # 1 => b[1] \in 1 .. Len(Bodies)
  BY <1>1, SessionAssumption
<1>3. b[1] # 0 /\ b[2] # 1 => Bodies[b[1]] \in Nat \ {0}
  BY <1>2, SessionAssumption
<1> QED BY <1>1, <1>3, SessionAssumption DEF Size

\* A place is the triple of its parts.
LEMMA PlaceTriple ==
  ASSUME NEW b \in Place
  PROVE  /\ b = <<b[1], b[2], b[3]>> /\ b[1] \in Nat /\ b[2] \in {1, 2} /\ b[3] \in Nat
         /\ b[1] = 0 => b[2] = 1
         /\ b[2] = 2 => b[1] <= Len(Bodies)
BY DEF Place

LEMMA TriplePlace ==
  ASSUME NEW f \in Nat, NEW p \in {1, 2}, NEW k \in Nat,
         f = 0 => p = 1, p = 2 => f <= Len(Bodies)
  PROVE  <<f, p, k>> \in Place
BY DEF Place

\* Size is the length that the stream's definition uses.
LEMMA SizeParts ==
  ASSUME NEW b \in Place
  PROVE  Parts(b[1])[b[2]] = Size(b) /\ Len(Parts(b[1])) = IF b[1] = 0 THEN 1 ELSE 2
BY PlaceTriple DEF Parts, Size

\* The byte after b: the next one of its part, or the first of the next part.
LEMMA FollowingIs ==
  ASSUME NEW b \in Place
  PROVE  /\ b[3] < Size(b) => Following(b) = <<b[1], b[2], b[3] + 1>>
         /\ b[3] >= Size(b) /\ b[1] # 0 /\ b[2] = 1 => Following(b) = <<b[1], 2, 1>>
         /\ b[3] >= Size(b) /\ (b[1] = 0 \/ b[2] = 2) => Following(b) = <<b[1] + 1, 1, 1>>
BY PlaceTriple, SizeParts, SizeNat DEF Following

LEMMA FollowingPlace ==
  ASSUME NEW b \in Place, b[1] <= Len(Bodies)
  PROVE  Following(b) \in Place
<1>1. Size(b) \in Nat /\ Len(Bodies) \in Nat
  BY SizeNat, SessionAssumption
<1>2. CASE b[3] < Size(b)
  BY <1>1, <1>2, FollowingIs, PlaceTriple, TriplePlace
<1>3. CASE b[3] >= Size(b) /\ b[1] # 0 /\ b[2] = 1
  BY <1>1, <1>3, FollowingIs, PlaceTriple, TriplePlace
<1>4. CASE b[3] >= Size(b) /\ (b[1] = 0 \/ b[2] = 2)
  BY <1>1, <1>4, FollowingIs, PlaceTriple, TriplePlace
<1> QED BY <1>1, <1>2, <1>3, <1>4, PlaceTriple

\* Every byte of the stream has a place.
LEMMA AtPlace ==
  ASSUME Shape, NEW i \in 1 .. Len(socket) + 1
  PROVE  At(i) \in Place
BY DEF Shape, At

\* Within a part the stream counts up.
LEMMA Along ==
  ASSUME Stream, NEW i \in 1 .. Len(socket) + 1, NEW j \in 1 .. Len(socket) + 1,
         i <= j, At(i)[3] + (j - i) <= Size(At(i))
  PROVE  At(j) = <<At(i)[1], At(i)[2], At(i)[3] + (j - i)>>
BY DEF Stream

-----------------------------------------------------------------------------
(* What becomes of the stream when bytes are read and when one arrives. *)

\* Taking n bytes from the socket moves the stream on by n.
LEMMA Shift ==
  ASSUME Shape, Stream, NEW n \in 0 .. Len(socket),
         socket' = SubSeq(socket, n + 1, Len(socket)), sent' = sent
  PROVE  /\ socket' \in Seq(Place) /\ Len(socket') = Len(socket) - n
         /\ \A i \in 1 .. Len(socket') + 1 : At(i)' = At(n + i)
         /\ Stream'
<1>1. socket \in Seq(Place) /\ sent \in Place /\ Len(socket) \in Nat /\ n \in Nat
  BY DEF Shape
<1>2. /\ socket' \in Seq(Place) /\ Len(socket') = Len(socket) - n
      /\ \A i \in 1 .. Len(socket') : socket'[i] = socket[n + i]
  BY <1>1
<1>3. \A i \in 1 .. Len(socket') + 1 : At(i)' = At(n + i)
  BY <1>1, <1>2 DEF At
<1>4. \A i \in 1 .. Len(socket') :
        socket'[i][1] <= Len(Bodies) /\ At(i + 1)' = Following(At(i)')
  <2> SUFFICES ASSUME NEW i \in 1 .. Len(socket')
               PROVE  socket'[i][1] <= Len(Bodies) /\ At(i + 1)' = Following(At(i)')
    OBVIOUS
  <2>1. n + i \in 1 .. Len(socket) /\ i + 1 \in 1 .. Len(socket') + 1 /\ n + (i + 1) = (n + i) + 1
    BY <1>1, <1>2
  <2>2. socket[n + i][1] <= Len(Bodies) /\ At((n + i) + 1) = Following(At(n + i))
    BY <2>1 DEF Stream
  <2>3. At(i + 1)' = At((n + i) + 1) /\ At(i)' = At(n + i)
    BY <2>1, <1>3, <1>2
  <2> QED BY <1>2, <2>2, <2>3
<1>5. ASSUME NEW i \in 1 .. Len(socket') + 1, NEW j \in 1 .. Len(socket') + 1,
             i <= j, At(i)'[3] + (j - i) <= Size(At(i)')
      PROVE  At(j)' = <<At(i)'[1], At(i)'[2], At(i)'[3] + (j - i)>>
  <2>1. n + i \in 1 .. Len(socket) + 1 /\ n + j \in 1 .. Len(socket) + 1
        /\ n + i <= n + j /\ (n + j) - (n + i) = j - i
    BY <1>1, <1>2, <1>5
  <2>2. At(i)' = At(n + i) /\ At(j)' = At(n + j)
    BY <1>3
  <2> QED BY <1>5, <2>1, <2>2 DEF Stream
<1>6. Stream'
  BY <1>4, <1>5 DEF Stream, Size, Following, Parts
<1> QED BY <1>2, <1>3, <1>6

\* A byte that arrives is the one the stream was to go on with.
LEMMA Grow ==
  ASSUME Shape, Stream, Arrive
  PROVE  /\ socket' \in Seq(Place) /\ sent' \in Place
         /\ At(1)' = At(1)
         /\ Stream'
<1>1. socket \in Seq(Place) /\ sent \in Place /\ Len(socket) \in Nat /\ sent[1] <= Len(Bodies)
  BY DEF Shape, Arrive
<1>L. PICK L \in Nat : L = Len(socket)
  BY <1>1
<1>2. sent' = Following(sent) /\ sent' \in Place
  BY <1>1, <1>L, FollowingPlace DEF Arrive
<1>3. /\ socket' \in Seq(Place) /\ Len(socket') = L + 1
      /\ \A i \in 1 .. L : socket'[i] = socket[i]
      /\ socket'[L + 1] = sent
  BY <1>1, <1>L DEF Arrive
<1>4. \A i \in 1 .. L + 1 : At(i)' = At(i) /\ At(i)' = socket'[i]
  BY <1>1, <1>L, <1>3 DEF At
<1>5. At(L + 2)' = Following(At(L + 1)) /\ At(L + 1) = sent
  BY <1>1, <1>L, <1>2, <1>3 DEF At
<1>6. \A i \in 1 .. L + 1 :
        socket'[i][1] <= Len(Bodies) /\ At(i + 1)' = Following(At(i)')
  <2> SUFFICES ASSUME NEW i \in 1 .. L + 1
               PROVE  socket'[i][1] <= Len(Bodies) /\ At(i + 1)' = Following(At(i)')
    OBVIOUS
  <2>1. CASE i = L + 1
    <3>1. i + 1 = L + 2
      BY <2>1, <1>1, <1>L
    <3>2. At(i)' = At(L + 1)
      BY <2>1, <1>4
    <3> QED BY <2>1, <3>1, <3>2, <1>1, <1>L, <1>3, <1>5
  <2>2. CASE i \in 1 .. L
    <3>1. i + 1 \in 1 .. L + 1
      BY <2>2, <1>1, <1>L
    <3>2. At(i + 1)' = At(i + 1) /\ At(i)' = At(i)
      BY <3>1, <1>4
    <3> QED BY <1>L, <2>2, <3>2, <1>3 DEF Stream
  <2> QED BY <2>1, <2>2, <1>1, <1>L
<1>7. ASSUME NEW i \in 1 .. L + 2, NEW j \in 1 .. L + 2,
             i <= j, At(i)'[3] + (j - i) <= Size(At(i)')
      PROVE  At(j)' = <<At(i)'[1], At(i)'[2], At(i)'[3] + (j - i)>>
  <2>1. CASE j \in 1 .. L + 1
    <3>1. i \in 1 .. L + 1
      BY <2>1, <1>7, <1>1, <1>L
    <3>2. At(i)' = At(i) /\ At(j)' = At(j)
      BY <3>1, <2>1, <1>4
    <3> QED BY <1>L, <3>1, <3>2, <2>1, <1>7 DEF Stream
  <2>2. CASE j = L + 2 /\ i = L + 2
    <3>1. At(i)' = sent'
      BY <2>2, <1>1, <1>L, <1>3 DEF At
    <3>2. sent' = <<sent'[1], sent'[2], sent'[3]>> /\ sent'[3] \in Nat
      BY <1>2, PlaceTriple
    <3>3. sent'[3] + (j - i) = sent'[3]
      BY <2>2, <3>2, <1>1, <1>L
    <3> QED BY <3>1, <3>2, <3>3, <2>2
  <2>3. CASE j = L + 2 /\ i \in 1 .. L + 1
    <3> DEFINE b == At(i)
    <3>1. b \in Place /\ At(i)' = b
      BY <1>L, <2>3, <1>4, AtPlace
    <3>2. b[1] \in Nat /\ b[2] \in {1, 2} /\ b[3] \in Nat /\ Size(b) \in Nat
      BY <3>1, PlaceTriple, SizeNat
    <3> DEFINE d == L + 1 - i
    <3>3. d \in Nat /\ j - i = d + 1 /\ b[3] + d < Size(b)
      BY <3>1, <3>2, <2>3, <1>1, <1>L, <1>7
    <3> HIDE DEF b, d
    <3>4. At(L + 1) = <<b[1], b[2], b[3] + d>>
      <4>1. PICK m \in 1 .. Len(socket) + 1 : m = L + 1
        BY <1>1, <1>L
      <4>2. i \in 1 .. Len(socket) + 1 /\ i <= m /\ m - i = d
        BY <2>3, <1>L, <4>1 DEF d
      <4>3. b[3] + (m - i) <= Size(b)
        BY <3>2, <3>3, <4>2
      <4>4. At(m) = <<At(i)[1], At(i)[2], At(i)[3] + (m - i)>>
        BY <4>2, <4>3, Along DEF b
      <4> QED BY <4>1, <4>2, <4>4 DEF b
    <3> DEFINE c == At(L + 1)
    <3>5. c \in Place /\ c[3] = b[3] + d /\ c[1] = b[1] /\ c[2] = b[2]
      BY <3>4, <1>1, <1>L, <1>5
    <3>6. Size(c) = Size(b)
      BY <3>5 DEF Size
    <3>7. Following(c) = <<b[1], b[2], (b[3] + d) + 1>>
      BY <3>3, <3>5, <3>6, FollowingIs
    <3>8. (b[3] + d) + 1 = b[3] + (j - i)
      BY <3>2, <3>3
    <3>9. At(j)' = <<b[1], b[2], b[3] + (j - i)>>
      BY <2>3, <3>7, <3>8, <1>5
    <3> QED BY <3>1, <3>9
  <2> QED BY <2>1, <2>2, <2>3, <1>1, <1>L
<1>8. Stream'
  <2>1. Len(socket') + 1 = L + 2
    BY <1>1, <1>L, <1>3
  <2> QED BY <1>3, <1>6, <1>7, <2>1 DEF Stream, Size, Following, Parts
<1>9. At(1)' = At(1)
  BY <1>1, <1>L, <1>4
<1> QED BY <1>2, <1>3, <1>8, <1>9

\* A step that leaves socket and sent alone leaves the stream alone.
LEMMA Still ==
  ASSUME Stream, socket' = socket, sent' = sent
  PROVE  Stream' /\ At(1)' = At(1)
BY DEF Stream, At, Size, Following, Parts

-----------------------------------------------------------------------------
(* The part that is being read. *)

Serving == phase \in {"setup", "serving"}

\* Its numbers name a place, and writable_len() is its length.
LEMMA PartIs ==
  ASSUME Shape, Progress, Serving
  PROVE  /\ FrameNo \in Nat \ {0} /\ PartNo \in {1, 2}
         /\ \A k \in Nat : <<FrameNo, PartNo, k>> \in Place /\ Size(<<FrameNo, PartNo, k>>) = Expected
         /\ Expected \in Nat \ {0}
         /\ PartNo = IF decoded = <<>> THEN 1 ELSE 2
<1>1. FrameNo \in Nat \ {0}
  BY DEF FrameNo, Shape
<1>2. CASE decoded = <<>>
  <2>1. PartNo = 1 /\ Expected = HeaderLen
    BY <1>2 DEF PartNo, Expected
  <2>2. \A k \in Nat : <<FrameNo, 1, k>> \in Place
    BY <1>1, TriplePlace
  <2> QED BY <1>1, <1>2, <2>1, <2>2, SessionAssumption DEF Size
<1>3. CASE decoded = <<Bytes(FrameNo, 1)>>
  <2>1. PartNo = 2 /\ FrameNo <= Len(Bodies) /\ decoded # <<>>
    BY <1>3 DEF PartNo, Progress, Serving
  <2>2. Parts(FrameNo)[1] = HeaderLen
    BY <1>1 DEF Parts
  <2>3. 1 \in 1 .. HeaderLen
    BY SessionAssumption
  <2>4. Bytes(FrameNo, 1)[1] = <<FrameNo, 1, 1>>
    BY <2>2, <2>3 DEF Bytes
  <2>5. decoded[1][1][1] = FrameNo
    BY <1>3, <2>4
  <2>6. Expected = Bodies[FrameNo]
    BY <2>1, <2>5 DEF Expected
  <2>7. \A k \in Nat : <<FrameNo, 2, k>> \in Place
    BY <1>1, <2>1, TriplePlace
  <2>8. \A k \in Nat : Size(<<FrameNo, 2, k>>) = Expected
    BY <1>1, <2>6 DEF Size
  <2>9. Expected \in Nat \ {0}
    BY <1>1, <2>1, <2>6, SessionAssumption
  <2> QED BY <1>1, <2>1, <2>7, <2>8, <2>9
<1> QED BY <1>2, <1>3 DEF Progress, Serving

\* The bytes of a part as they stand in a full buffer.
LEMMA PartBytes ==
  ASSUME NEW f \in Nat \ {0}, NEW p \in {1, 2}, p = 2 => f <= Len(Bodies),
         NEW s \in Seq(Cell), Len(s) = Size(<<f, p, 1>>),
         \A k \in 1 .. Len(s) : s[k] = <<f, p, k>>
  PROVE  s = Bytes(f, p)
<1>1. <<f, p, 1>> \in Place
  BY TriplePlace
<1>2. Parts(f)[p] = Len(s)
  BY <1>1, SizeParts
<1>3. s = [k \in 1 .. Len(s) |-> s[k]]
  BY SMT
<1> QED BY <1>2, <1>3 DEF Bytes

-----------------------------------------------------------------------------
(* One lemma for each action. *)

LEMMA InitIInv == Init => IInv
<1> SUFFICES ASSUME Init PROVE IInv
  OBVIOUS
<1>1. sent \in Place /\ socket = <<>> /\ current_frame_buf = <<>> /\ decoded = <<>> /\ dispatched = <<>>
  BY TriplePlace DEF Init
<1>2. Shape
  <2>1. Len(Bodies) \in Nat /\ Len(dispatched) = 0 /\ Len(decoded) = 0 /\ Len(current_frame_buf) = 0
    BY <1>1, SessionAssumption
  <2>2. updates \in 0 .. MaxUpdates /\ template_seen \in 0 .. updates
    BY SessionAssumption DEF Init
  <2>3. eof \in BOOLEAN /\ shutdown \in BOOLEAN /\ dropped \in BOOLEAN
    BY DEF Init
  <2>4. TypeOK
    BY <2>1, <2>2, <2>3 DEF Init, TypeOK
  <2>5. /\ socket \in Seq(Place) /\ current_frame_buf \in Seq(Cell) /\ decoded \in Seq(Seq(Cell))
        /\ dispatched \in Seq(Seq(Seq(Cell)))
    BY <1>1
  <2> QED BY <1>1, <2>4, <2>5 DEF Init, Shape
<1>3. At(1) = <<0, 1, 1>>
  BY <1>1 DEF At, Init
<1>4. Stream
  <2>1. ASSUME NEW i \in 1 .. 1, NEW j \in 1 .. 1
        PROVE  At(j) = <<At(i)[1], At(i)[2], At(i)[3] + (j - i)>>
    <3>1. i = 1 /\ j = 1
      OBVIOUS
    <3> QED BY <1>3, <3>1
  <2>2. Len(socket) = 0
    BY <1>1
  <2> QED BY <2>1, <2>2 DEF Stream
<1>5. Progress /\ Before
  BY <1>1, <1>3 DEF Progress, Before, Init
<1>6. Intact
  BY <1>1 DEF Intact
<1> QED BY <1>2, <1>4, <1>5, <1>6 DEF IInv

\* Steps that change neither the stream nor the reader nor the phase.
LEMMA IdleIInv ==
  ASSUME IInv,
         \/ PeerClose \/ PublishState \/ PublisherGone \/ Shutdown \/ UNCHANGED vars
         \/ PushJobs \/ ForwardDone \/ (WriteDone /\ handler # "refuse")
  PROVE  IInv'
<1>1. UNCHANGED <<phase, sent, socket, reading, current_frame_buf, bytes_read, decoded, dispatched>>
  BY DEF PeerClose, PublishState, PublisherGone, Shutdown, PushJobs, ForwardDone, WriteDone, vars,
         readVars, bufVars, taskVars, envVars
<1>2. Stream' /\ At(1)' = At(1)
  BY <1>1, Still DEF IInv
<1>3. /\ updates' \in 0 .. MaxUpdates /\ template_seen' \in 0 .. updates'
      /\ eof' \in BOOLEAN /\ shutdown' \in BOOLEAN /\ dropped' \in BOOLEAN
  <2>1. /\ updates \in 0 .. MaxUpdates /\ template_seen \in 0 .. updates
        /\ eof \in BOOLEAN /\ shutdown \in BOOLEAN /\ dropped \in BOOLEAN /\ MaxUpdates \in Nat
    BY SessionAssumption DEF IInv, Shape, TypeOK
  <2>2. CASE PublishState
    BY <2>1, <2>2 DEF PublishState, taskVars
  <2>3. CASE PushJobs
    BY <2>1, <2>3 DEF PushJobs, envVars
  <2>4. CASE PeerClose \/ PublisherGone \/ Shutdown \/ ForwardDone \/ WriteDone \/ UNCHANGED vars
    BY <2>1, <2>4 DEF PeerClose, PublisherGone, Shutdown, ForwardDone, WriteDone, vars, taskVars,
                      envVars
  <2> QED BY <2>2, <2>3, <2>4
<1>4. /\ handler' \in {"no", "update", "forward", "write", "refuse"}
      /\ handler' # "no" => handler # "no"
  BY DEF IInv, Shape, TypeOK, PeerClose, PublishState, PublisherGone, Shutdown, PushJobs,
         ForwardDone, WriteDone, vars, taskVars
<1>5. Shape'
  BY <1>1, <1>3, <1>4 DEF IInv, Shape, TypeOK
<1>6. Progress'
  BY <1>1, <1>2 DEF IInv, Progress, FrameNo, PartNo, Expected, Bytes, Parts, Following
<1>7. Before' /\ Intact'
  BY <1>1, <1>2 DEF IInv, Before, Intact, Bytes, Parts
<1> QED BY <1>2, <1>5, <1>6, <1>7 DEF IInv

LEMMA ArriveIInv ==
  ASSUME IInv, Arrive
  PROVE  IInv'
<1>1. /\ UNCHANGED <<phase, reading, current_frame_buf, bytes_read, decoded, dispatched>>
      /\ UNCHANGED <<handler, eof, updates, dropped, template_seen, shutdown>>
  BY DEF Arrive, taskVars, readVars, bufVars
<1>2. socket' \in Seq(Place) /\ sent' \in Place /\ Stream' /\ At(1)' = At(1)
  BY Grow DEF IInv
<1>3. Shape'
  BY <1>1, <1>2 DEF IInv, Shape, TypeOK
<1>4. Progress'
  BY <1>1, <1>2 DEF IInv, Progress, FrameNo, PartNo, Expected, Bytes, Parts, Following
<1>5. Before' /\ Intact'
  BY <1>1, <1>2 DEF IInv, Before, Intact, Bytes, Parts
<1> QED BY <1>2, <1>3, <1>4, <1>5 DEF IInv

\* The read is dropped, or the connection ends: the reader's progress stays.
LEMMA DropIInv ==
  ASSUME IInv,
         \/ HandshakeFail \/ DecodeFail \/ ReadEof
         \/ ShutdownArm \/ TemplateArm \/ PublisherArm
         \/ ForwardGone \/ WriteFail \/ (WriteDone /\ handler = "refuse")
  PROVE  IInv'
<1>1. UNCHANGED <<sent, socket, current_frame_buf, decoded, dispatched, template_seen, eof, updates,
                  dropped, shutdown>>
  BY DEF HandshakeFail, DecodeFail, ReadEof, ShutdownArm, TemplateArm, PublisherArm, ForwardGone,
         WriteFail, WriteDone, bufVars, envVars
<1>2. /\ reading' = "no" /\ handler' \in {"no", "update"}
      /\ phase' \in {phase, "closed"} /\ (phase' # "closed" => phase = "serving" /\ bytes_read' = bytes_read)
      /\ bytes_read' \in {0, bytes_read}
  <2>1. CASE TemplateArm \/ PublisherArm
    BY <2>1 DEF TemplateArm, PublisherArm, bufVars
  <2>2. CASE \/ HandshakeFail \/ DecodeFail \/ ReadEof \/ ShutdownArm
             \/ ForwardGone \/ WriteFail \/ (WriteDone /\ handler = "refuse")
    BY <2>2 DEF HandshakeFail, DecodeFail, ReadEof, ShutdownArm, ForwardGone, WriteFail, WriteDone,
                Close, bufVars
  <2> QED BY <2>1, <2>2
<1>3. Stream' /\ At(1)' = At(1)
  BY <1>1, Still DEF IInv
<1>4. Shape'
  BY <1>1, <1>2 DEF IInv, Shape, TypeOK
<1>5. Progress'
  <2>1. CASE phase' = "closed"
    BY <2>1 DEF Progress
  <2>2. CASE phase' # "closed"
    BY <1>1, <1>2, <1>3, <2>2 DEF IInv, Progress, FrameNo, PartNo, Expected, Bytes, Parts, Following
  <2> QED BY <2>1, <2>2
<1>6. Before'
  BY <1>2 DEF Before
<1>7. Intact'
  BY <1>1 DEF IInv, Intact, Bytes, Parts
<1> QED BY <1>3, <1>4, <1>5, <1>6, <1>7 DEF IInv

\* The handshake takes its own bytes: the first frame is next.
LEMMA HandshakeIInv ==
  ASSUME IInv, HandshakeRead
  PROVE  IInv'
<1> DEFINE n == HandshakeLen
<1>1. /\ UNCHANGED <<reading, current_frame_buf, bytes_read, decoded, dispatched>>
      /\ UNCHANGED <<sent, eof, updates, dropped, template_seen, shutdown>>
      /\ phase' = "setup" /\ handler' = "write" /\ phase = "handshake" /\ reading = "no"
      /\ socket' = SubSeq(socket, n + 1, Len(socket)) /\ n \in 1 .. Len(socket)
  BY SessionAssumption DEF HandshakeRead, readVars, bufVars, envVars, IInv, Shape
<1>2. At(1) = <<0, 1, 1>> /\ dispatched = <<>> /\ decoded = <<>> /\ bytes_read = 0
  BY <1>1 DEF IInv, Before
<1>3. /\ socket' \in Seq(Place) /\ Len(socket') \in Nat
      /\ \A i \in 1 .. Len(socket') + 1 : At(i)' = At(n + i)
      /\ Stream'
  BY <1>1, Shift DEF IInv
<1>4. At(1)' = At(n + 1)
  BY <1>3
<1>5. At(n) = <<0, 1, n>>
  <2>1. 1 \in 1 .. Len(socket) + 1 /\ n \in 1 .. Len(socket) + 1 /\ 1 <= n
    BY <1>1
  <2>2. At(1)[3] + (n - 1) = n /\ Size(At(1)) = n
    BY <1>1, <1>2 DEF Size
  <2>3. At(1)[3] + (n - 1) <= Size(At(1))
    BY <2>2, <1>1
  <2>4. At(n) = <<At(1)[1], At(1)[2], At(1)[3] + (n - 1)>>
    BY <2>1, <2>3, Along DEF IInv
  <2> QED BY <1>2, <2>2, <2>4
<1>6. At(n + 1) = Following(At(n))
  BY <1>1 DEF IInv, Stream
<1>7. Following(<<0, 1, n>>) = <<1, 1, 1>>
  BY SessionAssumption DEF Following, Parts
<1>8. Shape'
  BY <1>1, <1>3 DEF IInv, Shape, TypeOK
<1>9. Progress'
  <2>1. At(1)' = <<1, 1, 1>>
    BY <1>4, <1>5, <1>6, <1>7
  <2>2. FrameNo' = 1 /\ PartNo' = 1
    BY <1>1, <1>2 DEF FrameNo, PartNo
  <2> QED BY <1>1, <1>2, <2>1, <2>2 DEF Progress
<1>10. Before' /\ Intact'
  BY <1>1, <1>2 DEF Before, Intact
<1> QED BY <1>3, <1>8, <1>9, <1>10 DEF IInv

\* The buffer is set up only where it holds nothing of the part.
LEMMA StartIInv ==
  ASSUME IInv, StartRead
  PROVE  IInv'
<1>1. /\ UNCHANGED <<phase, handler, socket, decoded, dispatched, template_seen, sent, eof, updates,
                    dropped, shutdown>>
      /\ FitBuffer /\ reading' = "read" /\ handler = "no" /\ Serving
  BY DEF StartRead, ReadPolled, envVars, Serving
<1>2. /\ FrameNo \in Nat \ {0} /\ PartNo \in {1, 2} /\ Expected \in Nat \ {0}
  BY <1>1, PartIs DEF IInv
<1>3. Stream' /\ At(1)' = At(1)
  BY <1>1, Still DEF IInv
<1>4. FrameNo' = FrameNo /\ PartNo' = PartNo /\ Expected' = Expected
  BY <1>1 DEF FrameNo, PartNo, Expected
<1>5. /\ current_frame_buf' \in Seq(Cell) /\ bytes_read' = bytes_read
      /\ Len(current_frame_buf') = Expected
      /\ bytes_read > 0 => current_frame_buf' = current_frame_buf
  <2>1. CASE Len(current_frame_buf) = Expected
    BY <1>1, <2>1 DEF FitBuffer, IInv, Shape
  <2>2. CASE Len(current_frame_buf) # Expected
    <3>1. /\ current_frame_buf' = [k \in 1 .. Expected |-> <<>>] /\ bytes_read' = 0
      BY <1>1, <2>2 DEF FitBuffer
    <3>2. bytes_read = 0
      BY <1>1, <2>2 DEF IInv, Progress, Serving, Shape, TypeOK
    <3>3. <<>> \in Cell
      BY DEF Cell
    <3> QED BY <1>2, <3>1, <3>2, <3>3
  <2> QED BY <2>1, <2>2
<1>6. Shape'
  <2>1. bytes_read \in 0 .. Len(current_frame_buf')
    BY <1>2, <1>5 DEF IInv, Shape, TypeOK
  <2>2. phase \notin {"handshake", "closed"}
    BY <1>1 DEF Serving
  <2> QED BY <1>1, <1>5, <2>1, <2>2 DEF IInv, Shape, TypeOK
<1>7. Progress'
  <2>1. /\ decoded = <<>> \/ decoded = <<Bytes(FrameNo, 1)>>
        /\ decoded # <<>> \/ bytes_read > 0 => FrameNo <= Len(Bodies)
        /\ \A k \in 1 .. bytes_read : current_frame_buf[k] = <<FrameNo, PartNo, k>>
        /\ At(1) = IF bytes_read = 0 THEN <<FrameNo, PartNo, 1>>
                   ELSE Following(<<FrameNo, PartNo, bytes_read>>)
    BY <1>1 DEF IInv, Progress, Serving
  <2>2. \A k \in 1 .. bytes_read : current_frame_buf'[k] = <<FrameNo, PartNo, k>>
    <3>1. CASE bytes_read > 0
      BY <1>5, <2>1, <3>1
    <3>2. CASE bytes_read = 0
      BY <3>2
    <3> QED BY <3>1, <3>2 DEF IInv, Shape, TypeOK
  <2> QED BY <1>1, <1>3, <1>4, <1>5, <2>1, <2>2 DEF Progress, Bytes, Parts, Following
<1>8. Before' /\ Intact'
  BY <1>1, <1>3 DEF IInv, Before, Intact, Bytes, Parts, Serving
<1> QED BY <1>3, <1>6, <1>7, <1>8 DEF IInv

\* What a read() adds to the buffer are the next bytes of the part, and no
\* byte of the next one.
LEMMA ReadSomeIInv ==
  ASSUME IInv, NEW n \in 1 .. Len(socket), ReadSome(n)
  PROVE  IInv'
<1>1. /\ UNCHANGED <<phase, handler, reading, decoded, dispatched, template_seen, sent, eof, updates,
                    dropped, shutdown>>
      /\ socket' = SubSeq(socket, n + 1, Len(socket)) /\ reading = "read"
      /\ bytes_read' = bytes_read + n /\ n <= Len(current_frame_buf) - bytes_read
      /\ current_frame_buf' = [k \in 1 .. Len(current_frame_buf) |->
                                 IF k \in bytes_read + 1 .. bytes_read + n
                                 THEN socket[k - bytes_read] ELSE current_frame_buf[k]]
  BY DEF ReadSome, envVars
<1>2. /\ Serving /\ socket \in Seq(Place) /\ current_frame_buf \in Seq(Cell)
      /\ bytes_read \in Nat /\ n \in Nat \ {0} /\ Len(socket) \in Nat /\ Len(current_frame_buf) \in Nat
  BY <1>1 DEF Serving, IInv, Shape, TypeOK
<1> DEFINE f == FrameNo
           p == PartNo
<1>3. /\ f \in Nat \ {0} /\ p \in {1, 2} /\ Expected \in Nat \ {0}
      /\ \A k \in Nat : <<f, p, k>> \in Place /\ Size(<<f, p, k>>) = Expected
  BY <1>2, PartIs DEF IInv
<1>4. /\ decoded = <<>> \/ decoded = <<Bytes(f, 1)>>
      /\ Len(current_frame_buf) = Expected
      /\ \A k \in 1 .. bytes_read : current_frame_buf[k] = <<f, p, k>>
      /\ At(1) = IF bytes_read = 0 THEN <<f, p, 1>> ELSE Following(<<f, p, bytes_read>>)
  BY <1>1, <1>2 DEF IInv, Progress, Serving
<1>5. /\ FrameNo' = f /\ PartNo' = p /\ Expected' = Expected
  BY <1>1 DEF FrameNo, PartNo, Expected
<1> HIDE DEF f, p
<1>6. /\ socket' \in Seq(Place) /\ Len(socket') \in Nat
      /\ \A i \in 1 .. Len(socket') + 1 : At(i)' = At(n + i)
      /\ Stream'
  <2>1. n \in 0 .. Len(socket) /\ Shape /\ Stream
    BY <1>2 DEF IInv
  <2>2. /\ socket' \in Seq(Place)
        /\ \A i \in 1 .. Len(socket') + 1 : At(i)' = At(n + i)
        /\ Stream'
    BY <1>1, <2>1, Shift
  <2> QED BY <2>2
<1>7. At(1) = <<f, p, bytes_read + 1>>
  <2>1. CASE bytes_read = 0
    BY <1>4, <2>1
  <2>2. CASE bytes_read # 0
    <3>1. bytes_read < Expected
      BY <1>1, <1>2, <1>4
    <3>2. Following(<<f, p, bytes_read>>) = <<f, p, bytes_read + 1>>
      BY <1>2, <1>3, <3>1, FollowingIs
    <3> QED BY <1>4, <2>2, <3>2
  <2> QED BY <2>1, <2>2
<1>8. \A j \in 1 .. n : At(j) = <<f, p, bytes_read + j>>
  <2> SUFFICES ASSUME NEW j \in 1 .. n PROVE At(j) = <<f, p, bytes_read + j>>
    OBVIOUS
  <2>1. 1 \in 1 .. Len(socket) + 1 /\ j \in 1 .. Len(socket) + 1 /\ 1 <= j
    BY <1>2
  <2>2. At(1)[3] + (j - 1) = bytes_read + j
    BY <1>2, <1>7
  <2>3. Size(At(1)) = Expected
    BY <1>2, <1>3, <1>7
  <2>4. At(1)[3] + (j - 1) <= Size(At(1))
    BY <1>1, <1>2, <1>3, <1>4, <2>2, <2>3
  <2>5. At(j) = <<At(1)[1], At(1)[2], At(1)[3] + (j - 1)>>
    BY <2>1, <2>4, Along DEF IInv
  <2> QED BY <1>7, <2>2, <2>5
<1>9. At(1)' = Following(<<f, p, bytes_read + n>>)
  <2>1. At(1)' = At(n + 1)
    BY <1>6
  <2>2. At(n + 1) = Following(At(n))
    BY <1>2 DEF IInv, Stream
  <2>3. n \in 1 .. n
    BY <1>2
  <2>4. At(n) = <<f, p, bytes_read + n>>
    BY <1>8, <2>3
  <2> QED BY <2>1, <2>2, <2>4
<1>10. f <= Len(Bodies)
  <2>1. socket[1][1] <= Len(Bodies) /\ At(1) = socket[1]
    BY <1>2 DEF IInv, Stream, At
  <2> QED BY <1>7, <2>1
<1>11. /\ current_frame_buf' \in Seq(Cell) /\ Len(current_frame_buf') = Expected
       /\ \A k \in 1 .. bytes_read + n : current_frame_buf'[k] = <<f, p, k>>
  <2>1. \A k \in 1 .. Len(current_frame_buf) : current_frame_buf[k] \in Cell
    BY <1>2
  <2>2. \A k \in bytes_read + 1 .. bytes_read + n :
          socket[k - bytes_read] = <<f, p, k>> /\ socket[k - bytes_read] \in Cell
    <3> SUFFICES ASSUME NEW k \in bytes_read + 1 .. bytes_read + n
                 PROVE  socket[k - bytes_read] = <<f, p, k>> /\ socket[k - bytes_read] \in Cell
      OBVIOUS
    <3>1. PICK j \in 1 .. n : j = k - bytes_read /\ bytes_read + j = k /\ j <= Len(socket)
      BY <1>2
    <3>2. At(j) = socket[j] /\ socket[j] \in Place
      BY <1>2, <3>1 DEF At
    <3> QED BY <1>8, <3>1, <3>2 DEF Cell
  <2>3. \A k \in 1 .. Len(current_frame_buf) :
          (IF k \in bytes_read + 1 .. bytes_read + n
           THEN socket[k - bytes_read] ELSE current_frame_buf[k]) \in Cell
    BY <2>1, <2>2
  <2>4. current_frame_buf' \in Seq(Cell) /\ Len(current_frame_buf') = Len(current_frame_buf)
    BY <1>1, <1>2, <2>3
  <2>5. \A k \in 1 .. bytes_read + n : current_frame_buf'[k] = <<f, p, k>>
    <3> SUFFICES ASSUME NEW k \in 1 .. bytes_read + n
                 PROVE  current_frame_buf'[k] = <<f, p, k>>
      OBVIOUS
    <3>1. k \in 1 .. Len(current_frame_buf)
      BY <1>1, <1>2
    <3>2. k \in 1 .. bytes_read \/ k \in bytes_read + 1 .. bytes_read + n
      BY <1>2
    <3>3. CASE k \in bytes_read + 1 .. bytes_read + n
      BY <1>1, <2>2, <3>1, <3>3
    <3>4. CASE k \in 1 .. bytes_read /\ k \notin bytes_read + 1 .. bytes_read + n
      BY <1>1, <1>4, <3>1, <3>4
    <3> QED BY <3>2, <3>3, <3>4
  <2> QED BY <1>4, <2>4, <2>5
<1>12. Shape'
  <2>1. bytes_read' \in 0 .. Len(current_frame_buf')
    BY <1>1, <1>2, <1>4, <1>11
  <2> QED BY <1>1, <1>6, <1>11, <2>1 DEF IInv, Shape, TypeOK
<1>13. Progress'
  <2>1. bytes_read' # 0 /\ bytes_read' > 0
    BY <1>1, <1>2
  <2>2. \A k \in 1 .. bytes_read' : current_frame_buf'[k] = <<f, p, k>>
    BY <1>1, <1>11
  <2>3. At(1)' = Following(<<f, p, bytes_read'>>)
    BY <1>1, <1>9
  <2> QED BY <1>1, <1>4, <1>5, <1>10, <1>11, <2>1, <2>2, <2>3 DEF Progress, Bytes, Parts, Following
<1>14. Before' /\ Intact'
  BY <1>1, <1>2 DEF IInv, Before, Intact, Bytes, Parts, Serving
<1> QED BY <1>6, <1>12, <1>13, <1>14 DEF IInv

\* A full buffer is the whole part, and the stream is behind its last byte.
LEMMA FullBuffer ==
  ASSUME IInv, reading = "read", bytes_read = Len(current_frame_buf)
  PROVE  /\ Serving /\ FrameNo <= Len(Bodies)
         /\ current_frame_buf = Bytes(FrameNo, PartNo)
         /\ At(1) = IF decoded = <<>> THEN <<FrameNo, 2, 1>> ELSE <<FrameNo + 1, 1, 1>>
<1>1. /\ Serving /\ current_frame_buf \in Seq(Cell) /\ bytes_read \in Nat
  BY DEF Serving, IInv, Shape, TypeOK
<1>2. /\ FrameNo \in Nat \ {0} /\ PartNo \in {1, 2} /\ Expected \in Nat \ {0}
      /\ \A k \in Nat : <<FrameNo, PartNo, k>> \in Place /\ Size(<<FrameNo, PartNo, k>>) = Expected
      /\ PartNo = IF decoded = <<>> THEN 1 ELSE 2
  BY <1>1, PartIs DEF IInv
<1>3. bytes_read = Expected /\ bytes_read > 0 /\ Len(current_frame_buf) = Expected
  BY <1>1, <1>2 DEF IInv, Progress, Serving
<1>4. /\ FrameNo <= Len(Bodies)
      /\ \A k \in 1 .. bytes_read : current_frame_buf[k] = <<FrameNo, PartNo, k>>
      /\ At(1) = Following(<<FrameNo, PartNo, bytes_read>>)
  BY <1>1, <1>3 DEF IInv, Progress, Serving
<1>5. current_frame_buf = Bytes(FrameNo, PartNo)
  BY <1>1, <1>2, <1>3, <1>4, PartBytes
<1>6. At(1) = IF decoded = <<>> THEN <<FrameNo, 2, 1>> ELSE <<FrameNo + 1, 1, 1>>
  BY <1>1, <1>2, <1>3, <1>4, FollowingIs
<1> QED BY <1>1, <1>4, <1>5, <1>6

LEMMA DecodeHeaderIInv ==
  ASSUME IInv, DecodeHeader
  PROVE  IInv'
<1>1. /\ UNCHANGED <<phase, handler, socket, current_frame_buf, dispatched, template_seen>>
      /\ UNCHANGED <<sent, eof, updates, dropped, shutdown>> /\ reading = "read"
      /\ decoded = <<>> /\ decoded' = <<current_frame_buf>> /\ bytes_read' = 0 /\ reading' = "yield"
  BY DEF DecodeHeader, envVars
<1>2. /\ Serving /\ FrameNo <= Len(Bodies) /\ PartNo = 1
      /\ current_frame_buf = Bytes(FrameNo, 1) /\ At(1) = <<FrameNo, 2, 1>>
  BY <1>1, FullBuffer DEF DecodeHeader, PartNo
<1>3. Stream' /\ At(1)' = At(1)
  BY <1>1, Still DEF IInv
<1>4. current_frame_buf \in Seq(Cell) /\ decoded' \in Seq(Seq(Cell)) /\ Len(decoded') = 1
  BY <1>1 DEF IInv, Shape
<1>5. Shape'
  BY <1>1, <1>2, <1>4 DEF IInv, Shape, TypeOK, Serving
<1>6. Progress'
  <2>1. FrameNo' = FrameNo /\ PartNo' = 2
    BY <1>1, <1>4 DEF FrameNo, PartNo
  <2> QED BY <1>1, <1>2, <1>3, <2>1 DEF Progress, Bytes, Parts
<1>7. Before' /\ Intact'
  BY <1>1, <1>2 DEF IInv, Before, Intact, Bytes, Parts, Serving
<1> QED BY <1>3, <1>5, <1>6, <1>7 DEF IInv

LEMMA Pair ==
  ASSUME NEW a, NEW b
  PROVE  <<a>> \o <<b>> = <<a, b>>
<1> DEFINE S == {a, b}
           c == <<a>> \o <<b>>
<1>1. <<a>> \in Seq(S) /\ <<b>> \in Seq(S) /\ <<a, b>> \in Seq(S)
  OBVIOUS
<1>2. c \in Seq(S) /\ Len(c) = 2 /\ c[1] = a /\ c[2] = b
  BY <1>1
<1> HIDE DEF c
<1>3. DOMAIN c = 1 .. 2 /\ c = [i \in 1 .. 2 |-> c[i]]
  BY <1>2
<1>4. DOMAIN <<a, b>> = 1 .. 2 /\ <<a, b>> = [i \in 1 .. 2 |-> <<a, b>>[i]]
  OBVIOUS
<1>5. \A i \in 1 .. 2 : c[i] = <<a, b>>[i]
  BY <1>2
<1>6. c = <<a, b>>
  BY <1>3, <1>4, <1>5
<1> QED BY <1>6 DEF c

LEMMA DecodeBodyIInv ==
  ASSUME IInv, DecodeBody
  PROVE  IInv'
<1>1. /\ UNCHANGED <<socket, current_frame_buf, template_seen, sent, eof, updates, dropped, shutdown>>
      /\ decoded # <<>> /\ decoded' = <<>> /\ bytes_read' = 0 /\ reading' = "no"
      /\ dispatched' = Append(dispatched, decoded \o <<current_frame_buf>>)
      /\ phase' \in {"setup", "serving", "closed"}
      /\ handler' \in {"no", "write", "refuse", "forward"}
  BY DEF DecodeBody, Handle, envVars
<1>2. /\ Serving /\ FrameNo <= Len(Bodies)
      /\ current_frame_buf = Bytes(FrameNo, PartNo) /\ At(1) = <<FrameNo + 1, 1, 1>>
  BY <1>1, FullBuffer DEF DecodeBody
<1>3. decoded = <<Bytes(FrameNo, 1)>> /\ PartNo = 2
  <2>1. decoded = <<Bytes(FrameNo, 1)>>
    BY <1>1, <1>2 DEF IInv, Progress, Serving
  <2> QED BY <2>1 DEF PartNo
<1>4. Stream' /\ At(1)' = At(1)
  BY <1>1, Still DEF IInv
<1> DEFINE frame == decoded \o <<current_frame_buf>>
<1>5. frame = <<Bytes(FrameNo, 1), Bytes(FrameNo, 2)>> /\ frame \in Seq(Seq(Cell))
  <2>1. decoded \in Seq(Seq(Cell)) /\ <<current_frame_buf>> \in Seq(Seq(Cell))
    BY DEF IInv, Shape
  <2> DEFINE header == Bytes(FrameNo, 1)
             body   == Bytes(FrameNo, 2)
  <2>2. decoded = <<header>> /\ current_frame_buf = body
    BY <1>2, <1>3
  <2> HIDE DEF header, body
  <2>3. frame = <<header, body>>
    BY <2>2, Pair
  <2> QED BY <2>1, <2>3 DEF header, body
<1>6. dispatched \in Seq(Seq(Seq(Cell))) /\ Len(dispatched) \in Nat
  BY DEF IInv, Shape
<1> HIDE DEF frame
<1>7. /\ dispatched' \in Seq(Seq(Seq(Cell))) /\ Len(dispatched') = Len(dispatched) + 1
      /\ \A i \in 1 .. Len(dispatched) : dispatched'[i] = dispatched[i]
      /\ dispatched'[Len(dispatched) + 1] = frame
  <2>1. dispatched' = Append(dispatched, frame)
    BY <1>1 DEF frame
  <2> QED BY <1>5, <1>6, <2>1
<1>8. Shape'
  <2>1. decoded' \in Seq(Seq(Cell)) /\ Len(decoded') = 0
    BY <1>1
  <2>2. Len(dispatched') <= Len(Bodies)
    BY <1>2, <1>6, <1>7 DEF FrameNo
  <2> QED BY <1>1, <1>7, <2>1, <2>2 DEF IInv, Shape, TypeOK
<1>9. Progress'
  <2>1. FrameNo' = FrameNo + 1 /\ PartNo' = 1
    BY <1>1, <1>6, <1>7 DEF FrameNo, PartNo
  <2> QED BY <1>1, <1>2, <1>4, <2>1 DEF Progress
<1>10. Before'
  BY <1>1 DEF Before
<1>11. Intact'
  <2>1. \A i \in 1 .. Len(dispatched) : dispatched[i] = <<Bytes(i, 1), Bytes(i, 2)>>
    BY DEF IInv, Intact
  <2>2. dispatched'[Len(dispatched) + 1] = <<Bytes(Len(dispatched) + 1, 1), Bytes(Len(dispatched) + 1, 2)>>
    BY <1>5, <1>7 DEF FrameNo
  <2>3. ASSUME NEW i \in 1 .. Len(dispatched')
        PROVE  dispatched'[i] = <<Bytes(i, 1), Bytes(i, 2)>>
    <3>1. i \in 1 .. Len(dispatched) \/ i = Len(dispatched) + 1
      BY <1>6, <1>7
    <3> QED BY <1>7, <2>1, <2>2, <3>1
  <2> QED BY <2>3 DEF Intact, Bytes, Parts
<1> QED BY <1>4, <1>8, <1>9, <1>10, <1>11 DEF IInv

-----------------------------------------------------------------------------
\* However the reads are split, and whenever a template update or the shutdown
\* drops a pending read_frame, the frames dispatched are the frames the miner
\* sent, in order, none torn, skipped or repeated: for frames of any number and
\* length, a body as long as a header included.
THEOREM FramesAlwaysIntact == Spec => []FramesIntact
<1>1. Init => IInv
  BY InitIInv
<1>2. IInv /\ [Next]_vars => IInv'
  <2> SUFFICES ASSUME IInv, [Next]_vars PROVE IInv'
    OBVIOUS
  <2>1. CASE \/ PeerClose \/ PublishState \/ PublisherGone \/ Shutdown \/ UNCHANGED vars
             \/ PushJobs \/ ForwardDone \/ (WriteDone /\ handler # "refuse")
    BY <2>1, IdleIInv
  <2>2. CASE Arrive
    BY <2>2, ArriveIInv
  <2>3. CASE \/ HandshakeFail \/ DecodeFail \/ ReadEof
             \/ ShutdownArm \/ TemplateArm \/ PublisherArm
             \/ ForwardGone \/ WriteFail \/ (WriteDone /\ handler = "refuse")
    BY <2>3, DropIInv
  <2>4. CASE HandshakeRead
    BY <2>4, HandshakeIInv
  <2>5. CASE StartRead
    BY <2>5, StartIInv
  <2>6. CASE \E n \in 1 .. Len(socket) : ReadSome(n)
    BY <2>6, ReadSomeIInv
  <2>7. CASE DecodeHeader
    BY <2>7, DecodeHeaderIInv
  <2>8. CASE DecodeBody
    BY <2>8, DecodeBodyIInv
  <2>9. CASE WriteDone
    BY <2>1, <2>3, <2>9
  <2> QED BY <2>1, <2>2, <2>3, <2>4, <2>5, <2>6, <2>7, <2>8, <2>9 DEF Next, ReadStep
<1>3. IInv => FramesIntact
  BY DEF IInv, Intact, Shape, FramesIntact
<1> QED BY <1>1, <1>2, <1>3, PTL DEF Spec
=============================================================================
