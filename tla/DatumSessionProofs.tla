------------------------- MODULE DatumSessionProofs -------------------------
(***************************************************************************)
(* Theorems about both directions of a DATUM connection: it reaches a pool *)
(* that opened its hello, that pool decrypts what the gateway sends, and   *)
(* the gateway hands up what the pool sends; and no nonce is used twice.   *)
(* Keys and nonces have any size, frames and connections any number, and   *)
(* frames may be torn anywhere.                                            *)
(***************************************************************************)
EXTENDS DatumSession, SequenceTheorems, NaturalsInduction, WellFoundedInduction, TLAPS

-----------------------------------------------------------------------------
(* The inductive invariant. *)

\* A sequence whose elements may be anything.
IsSeq(s) == Len(s) \in Nat /\ s = [i \in 1 .. Len(s) |-> s[i]]

\* The records have their fields, the histories are sequences, and a version
\* with a NUL byte is never dialled with.
Shape ==
  /\ conn \in Nat /\ nk \in Seeds /\ conf \in Confs
  /\ phase \in {"idle", "dial", "await", "await_body", "up", "failed"}
  /\ writer \in {"idle", "header", "body", "ended"}
  /\ client = [send_key |-> client.send_key, recv_key |-> client.recv_key,
               send_nonce |-> client.send_nonce, recv_nonce |-> client.recv_nonce]
  /\ pool = [phase |-> pool.phase, end |-> pool.end, reply |-> pool.reply, pending |-> pool.pending]
  /\ pool.end = [send_key |-> pool.end.send_key, recv_key |-> pool.end.recv_key,
                 send_nonce |-> pool.end.send_nonce, recv_nonce |-> pool.end.recv_nonce]
  /\ used = [up |-> used.up, down |-> used.down]
  /\ IsSeq(up) /\ IsSeq(down) /\ IsSeq(sent) /\ IsSeq(got) /\ IsSeq(used.up)
  /\ IsSeq(pool.pending)
  /\ phase \in {"dial", "await", "await_body", "up"} => ~HasNul(conf.version)

\* The pool's answer, as it is put on the wire.
Answer       == Response(ClientKeys(conn), pool.reply)
AnswerHeader == Obfuscate(ForReceiver(nk), Pack(Header(Answer.body.len, FALSE, TRUE, FALSE, Answer.cmd)))
Hello        == BoxSeal(conf.pool_pub, HelloPayload)

\* How far the pool is when connect is at each of its awaits.
PoolPhase ==
  /\ pool.phase \in {"off", "hello", "up"}
  /\ down_open => phase \in {"await", "await_body", "up"}
  /\ phase = "dial" => pool.phase = "off"
  /\ phase = "await" => pool.phase \in {"hello", "up"}
  /\ phase \in {"await_body", "up"} => pool.phase = "up"
  /\ pool.phase = "up" => pool.reply \in ReplyKinds
  /\ phase = "up" => pool.reply = "pong"

\* What is on the wire until the client has read the answer: the hello, then
\* the header of the answer, then its body, which is the head of what follows.
OnWire ==
  /\ phase = "dial" => up = <<>> /\ down = <<>> /\ pool.pending = <<>>
  /\ phase = "await" /\ pool.phase = "hello" =>
       /\ down = <<>> /\ pool.pending = <<>>
       /\ up = <<>> \/ (Len(up) = 2 /\ up[2] = Hello)
  /\ phase = "await" /\ pool.phase = "up" =>
       /\ down # <<>> /\ down[1] = AnswerHeader
       /\ IF pool.pending = <<>> THEN Len(down) >= 2 /\ down[2] = Answer.body
          ELSE pool.pending = <<Answer.body>> /\ Len(down) = 1
  /\ phase = "await_body" =>
       /\ pool.reply \in {"pong", "short", "echo", "box"}
       /\ IF pool.pending = <<>> THEN down # <<>> /\ down[1] = Answer.body
          ELSE pool.pending = <<Answer.body>> /\ down = <<>>

\* Before the first command nothing was sent, and a pool that answered holds
\* the chain and the nonce that Connected starts from.
Agreed ==
  /\ phase \in {"dial", "await", "await_body"} =>
       sent = <<>> /\ got = <<>> /\ used.up = <<>> /\ writer = "idle"
  /\ phase \in {"await", "await_body"} /\ pool.phase = "up" =>
       /\ up = <<>>
       /\ pool.end.recv_key = ForSender(nk)
       /\ pool.end.recv_nonce = DeriveSessionNonces(nk).send

\* The header key and the nonce of the k-th frame of the connection.
KeyOf(k)   == [chain |-> "nk", seed |-> nk, n |-> k - 1]
First      == DeriveSessionNonces(nk).send
NonceOf(k) == used.up[k]

\* The nonces the commands were encrypted with count up, one by one, and the
\* nonce of the writer is the next or, while a frame is written, the last.
NonceChain ==
  phase = "up" =>
    /\ Len(sent) <= Len(used.up)
    /\ Len(used.up) > 0 => NonceOf(1) = First
    /\ \A k \in 1 .. Len(used.up) - 1 : NonceOf(k + 1) = IncrementNonce(NonceOf(k))
    /\ writer # "ended" => Len(used.up) = Len(sent)
    /\ writer = "idle" =>
         client.send_nonce = IF sent = <<>> THEN First ELSE IncrementNonce(NonceOf(Len(sent)))
    /\ writer \in {"header", "body"} => sent # <<>> /\ client.send_nonce = NonceOf(Len(sent))

\* Both ends are as far along the two chains as the frames they sent and read.
InStep ==
  phase = "up" =>
    /\ writer # "ended" => client.send_key = KeyOf(Len(sent) + 1)
    /\ pool.end.recv_key = KeyOf(Len(got) + 1)
    /\ pool.end.recv_nonce = IF got = <<>> THEN First ELSE IncrementNonce(NonceOf(Len(got)))

\* A header and a body of the k-th frame.
IsHeader(x, k) == x.item = "header" /\ x.key = KeyOf(k)
IsBody(x, k)   == x = BoxEasy(SessionBox, NonceOf(k), sent[k])

\* The wire holds the frames from the one after the last read to the last
\* written, which may be torn.
Frames ==
  phase = "up" =>
    /\ Len(up) <= 2 * (Len(sent) - Len(got))
    /\ \A k \in 1 .. Len(sent) - Len(got) :
         /\ 2 * k - 1 <= Len(up) => IsHeader(up[2 * k - 1], Len(got) + k)
         /\ 2 * k <= Len(up) => IsBody(up[2 * k], Len(got) + k)
    /\ writer = "idle" => Len(up) = 2 * (Len(sent) - Len(got))
    /\ writer = "header" => Len(up) = 2 * (Len(sent) - Len(got)) - 2
    /\ writer = "body" => Len(up) = 2 * (Len(sent) - Len(got)) - 1
    /\ writer \in {"header", "body"} =>
         IsHeader(frame[1], Len(sent)) /\ IsBody(frame[2], Len(sent))

\* What the pool decrypted is what was sent.
Delivered == Len(got) <= Len(sent) /\ \A i \in 1 .. Len(got) : got[i] = sent[i]

IInv == Shape /\ PoolPhase /\ OnWire /\ Agreed /\ NonceChain /\ InStep /\ Frames /\ Delivered

-----------------------------------------------------------------------------
(* Sequences of anything. *)

LEMMA SeqOf ==
  ASSUME NEW s, IsSeq(s)
  PROVE  s \in Seq({s[i] : i \in 1 .. Len(s)}) /\ Len(s) \in Nat
<1> DEFINE S == {s[i] : i \in 1 .. Len(s)}
           t == [i \in 1 .. Len(s) |-> s[i]]
<1>1. Len(s) \in Nat /\ s = t
  BY DEF IsSeq
<1>2. \A i \in 1 .. Len(s) : s[i] \in S
  OBVIOUS
<1>3. t \in [1 .. Len(s) -> S]
  BY <1>2
<1>4. t \in Seq(S)
  BY <1>1, <1>3, SeqDef
<1> QED BY <1>1, <1>4

LEMMA IsSeqOf ==
  ASSUME NEW S, NEW s \in Seq(S)
  PROVE  IsSeq(s)
BY DEF IsSeq

LEMMA EmptyIs == IsSeq(<<>>) /\ Len(<<>>) = 0
BY DEF IsSeq

LEMMA LenZero ==
  ASSUME NEW s, IsSeq(s)
  PROVE  Len(s) = 0 <=> s = <<>>
BY SeqOf

\* Append adds one element behind the others.
LEMMA Appended ==
  ASSUME NEW s, IsSeq(s), NEW e
  PROVE  /\ IsSeq(Append(s, e)) /\ Len(Append(s, e)) = Len(s) + 1 /\ Append(s, e) # <<>>
         /\ Append(s, e)[Len(s) + 1] = e
         /\ \A i \in 1 .. Len(s) : Append(s, e)[i] = s[i]
<1> DEFINE S == {s[i] : i \in 1 .. Len(s)} \cup {e}
<1>1. s \in Seq({s[i] : i \in 1 .. Len(s)}) /\ Len(s) \in Nat
  BY SeqOf
<1>2. \A i \in 1 .. Len(s) : s[i] \in S
  OBVIOUS
<1>3. s \in Seq(S) /\ e \in S
  BY <1>1, <1>2, SeqMonotonic
<1> HIDE DEF S
<1>4. Append(s, e) \in Seq(S)
  BY <1>3
<1>5. IsSeq(Append(s, e))
  BY <1>4, IsSeqOf
<1>6. Len(Append(s, e)) = Len(s) + 1 /\ Append(s, e) # <<>>
  BY <1>1, <1>3
<1>7. Append(s, e)[Len(s) + 1] = e /\ \A i \in 1 .. Len(s) : Append(s, e)[i] = s[i]
  BY <1>1, <1>3
<1> QED BY <1>5, <1>6, <1>7

LEMMA Concatenated ==
  ASSUME NEW s, IsSeq(s), NEW t, IsSeq(t)
  PROVE  /\ IsSeq(s \o t) /\ Len(s \o t) = Len(s) + Len(t)
         /\ \A i \in 1 .. Len(s) : (s \o t)[i] = s[i]
         /\ \A i \in 1 .. Len(t) : (s \o t)[Len(s) + i] = t[i]
<1> DEFINE S == {s[i] : i \in 1 .. Len(s)}
           T == {t[i] : i \in 1 .. Len(t)}
<1>1. s \in Seq(S) /\ t \in Seq(T) /\ Len(s) \in Nat /\ Len(t) \in Nat
  BY SeqOf
<1> HIDE DEF S, T
<1>2. s \in Seq(S \cup T) /\ t \in Seq(S \cup T)
  BY <1>1, SeqMonotonic
<1>3. s \o t \in Seq(S \cup T)
  BY <1>2
<1>4. IsSeq(s \o t)
  BY <1>3, IsSeqOf
<1>5. Len(s \o t) = Len(s) + Len(t)
  BY <1>2
<1>6. \A i \in 1 .. Len(s) + Len(t) :
        (s \o t)[i] = IF i <= Len(s) THEN s[i] ELSE t[i - Len(s)]
  BY <1>2, ConcatProperties
<1>7. PICK a \in Nat, b \in Nat : a = Len(s) /\ b = Len(t)
  BY <1>1
<1>8. \A i \in 1 .. a : (s \o t)[i] = s[i]
  BY <1>6, <1>7
<1>9. \A i \in 1 .. b : (s \o t)[a + i] = t[i]
  <2> SUFFICES ASSUME NEW i \in 1 .. b
               PROVE  (s \o t)[a + i] = t[i]
    OBVIOUS
  <2>1. a + i \in 1 .. a + b /\ ~(a + i <= a) /\ (a + i) - a = i
    BY <1>7
  <2> QED BY <2>1, <1>6, <1>7
<1> QED BY <1>4, <1>5, <1>7, <1>8, <1>9

\* What is left when the first n elements are taken.
LEMMA Dropped ==
  ASSUME NEW s, IsSeq(s), NEW n \in 0 .. Len(s), NEW m, m = n + 1
  PROVE  /\ IsSeq(SubSeq(s, m, Len(s))) /\ Len(SubSeq(s, m, Len(s))) = Len(s) - n
         /\ \A i \in 1 .. Len(s) - n : SubSeq(s, m, Len(s))[i] = s[n + i]
<1> DEFINE S == {s[i] : i \in 1 .. Len(s)}
<1>1. s \in Seq(S) /\ Len(s) \in Nat
  BY SeqOf
<1> HIDE DEF S
<1>2. SubSeq(s, m, Len(s)) \in Seq(S)
  BY <1>1
<1>3. IsSeq(SubSeq(s, m, Len(s)))
  BY <1>2, IsSeqOf
<1>4. /\ Len(SubSeq(s, m, Len(s))) = Len(s) - n
      /\ \A i \in 1 .. Len(s) - n : SubSeq(s, m, Len(s))[i] = s[n + i]
  BY <1>1
<1> QED BY <1>3, <1>4

LEMMA TailOf ==
  ASSUME NEW s, IsSeq(s), s # <<>>
  PROVE  /\ IsSeq(Tail(s)) /\ Len(Tail(s)) = Len(s) - 1 /\ Head(s) = s[1]
         /\ \A i \in 1 .. Len(s) - 1 : Tail(s)[i] = s[i + 1]
<1> DEFINE S == {s[i] : i \in 1 .. Len(s)}
<1>1. s \in Seq(S) /\ Len(s) \in Nat
  BY SeqOf
<1> HIDE DEF S
<1>2. Tail(s) \in Seq(S)
  BY <1>1
<1>3. IsSeq(Tail(s))
  BY <1>2, IsSeqOf
<1>4. /\ Len(Tail(s)) = Len(s) - 1 /\ Head(s) = s[1]
      /\ \A i \in 1 .. Len(s) - 1 : Tail(s)[i] = s[i + 1]
  BY <1>1
<1> QED BY <1>3, <1>4

-----------------------------------------------------------------------------
(* The handshake. *)

\* The hello opens with the four keys, and behind the text and its NUL byte the
\* pool finds the seed that was put there.
LEMMA HelloIs ==
  ASSUME NEW v \in Seq(Byte), v = conf.version, ~HasNul(v)
  PROVE  SubSeq(HelloPayload, 1, 4) = ClientKeys(conn) /\ FindNk(HelloPayload) = nk
<1> DEFINE K == ClientKeys(conn)
           T == << 0, 254, nk, 1 >>
           G == << <<"sig", <<"lt_ed", conn>>, HelloFields>> >>
           n == Len(v)
<1>1. IsSeq(K) /\ Len(K) = 4 /\ IsSeq(T) /\ Len(T) = 4 /\ IsSeq(G) /\ Len(G) = 1
  BY DEF IsSeq, ClientKeys
<1>2. IsSeq(v) /\ n \in Nat
  BY IsSeqOf
<1>3. T[1] = 0 /\ T[3] = nk
  OBVIOUS
<1>4. HelloPayload = ((K \o v) \o T) \o G
  BY DEF HelloPayload, HelloFields
<1>5. \A i \in 1 .. n : v[i] # 0
  BY DEF HasNul
<1> HIDE DEF K, T, G
<1> DEFINE A == K \o v
           B == A \o T
           P == B \o G
<1>6. /\ IsSeq(A) /\ Len(A) = 4 + n
      /\ \A i \in 1 .. 4 : A[i] = K[i]
      /\ \A i \in 1 .. n : A[4 + i] = v[i]
  <2>1. /\ IsSeq(A) /\ Len(A) = Len(K) + Len(v)
        /\ \A i \in 1 .. Len(K) : A[i] = K[i]
        /\ \A i \in 1 .. Len(v) : A[Len(K) + i] = v[i]
    <3>1. IsSeq(K) /\ IsSeq(v)
      BY <1>1, <1>2
    <3> QED BY <3>1, Concatenated
  <2> QED BY <2>1, <1>1
<1> HIDE DEF A
<1>7. /\ IsSeq(B) /\ Len(B) = Len(A) + 4
      /\ \A i \in 1 .. Len(A) : B[i] = A[i]
      /\ \A i \in 1 .. 4 : B[Len(A) + i] = T[i]
  <2>1. /\ IsSeq(B) /\ Len(B) = Len(A) + Len(T)
        /\ \A i \in 1 .. Len(A) : B[i] = A[i]
        /\ \A i \in 1 .. Len(T) : B[Len(A) + i] = T[i]
    <3>1. IsSeq(A) /\ IsSeq(T)
      BY <1>1, <1>6
    <3> QED BY <3>1, Concatenated
  <2> QED BY <2>1, <1>1
<1> HIDE DEF B
<1>8. /\ IsSeq(P) /\ Len(P) = Len(B) + 1
      /\ \A i \in 1 .. Len(B) : P[i] = B[i]
  <2>1. /\ IsSeq(P) /\ Len(P) = Len(B) + Len(G)
        /\ \A i \in 1 .. Len(B) : P[i] = B[i]
    <3>1. IsSeq(B) /\ IsSeq(G)
      BY <1>1, <1>7
    <3> QED BY <3>1, Concatenated
  <2> QED BY <2>1, <1>1
<1> HIDE DEF P, n
<1>9. Len(P) = n + 9
  BY <1>2, <1>6, <1>7, <1>8
<1>10. \A i \in 1 .. 4 : P[i] = K[i]
  BY <1>2, <1>6, <1>7, <1>8
<1>11. \A i \in 1 .. n : P[4 + i] = v[i]
  <2> SUFFICES ASSUME NEW i \in 1 .. n
               PROVE  P[4 + i] = v[i]
    OBVIOUS
  <2>1. 4 + i \in 1 .. Len(A) /\ 4 + i \in 1 .. Len(B)
    BY <1>2, <1>6, <1>7
  <2> QED BY <2>1, <1>6, <1>7, <1>8
<1>12. P[5 + n] = 0 /\ P[7 + n] = nk
  <2>1. 5 + n = Len(A) + 1 /\ 7 + n = Len(A) + 3 /\ 5 + n \in 1 .. Len(B) /\ 7 + n \in 1 .. Len(B)
    BY <1>2, <1>6, <1>7
  <2>2. B[Len(A) + 1] = T[1] /\ B[Len(A) + 3] = T[3]
    BY <1>7
  <2> QED BY <2>1, <2>2, <1>3, <1>8
<1>13. \A j \in 5 .. 4 + n : P[j] # 0
  <2> SUFFICES ASSUME NEW j \in 5 .. 4 + n
               PROVE  P[j] # 0
    OBVIOUS
  <2>1. j - 4 \in 1 .. n /\ 4 + (j - 4) = j
    BY <1>2
  <2>2. P[4 + (j - 4)] = v[j - 4] /\ v[j - 4] # 0
    BY <2>1, <1>5, <1>11
  <2> QED BY <2>1, <2>2
<1>14. NulAt(P) = 5 + n
  <2> DEFINE Q(i) == P[i] = 0 /\ \A j \in 5 .. i - 1 : P[j] # 0
  <2>1. 5 + n \in 5 .. Len(P) /\ Q(5 + n)
    BY <1>2, <1>9, <1>12, <1>13
  <2>2. ASSUME NEW i \in 5 .. Len(P), Q(i)
        PROVE  i = 5 + n
    <3>1. ~(i < 5 + n)
      BY <1>2, <1>9, <1>13, <2>2
    <3>2. ~(5 + n < i)
      BY <1>2, <1>9, <1>12, <2>2
    <3> QED BY <3>1, <3>2, <1>2, <1>9
  <2> QED BY <2>1, <2>2 DEF NulAt
<1>15. FindNk(P) = nk
  <2>1. (5 + n) + 2 = 7 + n
    BY <1>2
  <2> QED BY <2>1, <1>12, <1>14 DEF FindNk
<1>16. SubSeq(P, 1, 4) = K
  <2>1. P \in Seq({P[i] : i \in 1 .. Len(P)}) /\ Len(P) >= 4
    BY <1>2, <1>8, <1>9, SeqOf
  <2>2. SubSeq(P, 1, 4) = [i \in 1 .. 4 |-> P[i]]
    BY <2>1
  <2>3. K = [i \in 1 .. 4 |-> K[i]]
    BY <1>1 DEF IsSeq
  <2> QED BY <2>2, <2>3, <1>10
<1>17. HelloPayload = P
  BY <1>4 DEF P, B, A
<1> QED BY <1>15, <1>16, <1>17 DEF K

\* A header of another command, or with no length, ends the attempt.
LEMMA HeaderOnly ==
  ASSUME NEW keys, NEW r \in ReplyKinds,
         LET a == Response(keys, r)
             h == Unpack(Pack(Header(a.body.len, FALSE, TRUE, FALSE, a.cmd)))
         IN  h.cmd_len >= 48 /\ FromBits(h.proto_cmd) = "Pong"
  PROVE  r \in {"pong", "short", "echo", "box"}
<1> DEFINE a == Response(keys, r)
           h == Unpack(Pack(Header(a.body.len, FALSE, TRUE, FALSE, a.cmd)))
<1>1. r # "cmd"
  <2> SUFFICES ASSUME r = "cmd"
               PROVE  FALSE
    OBVIOUS
  <2>1. a.cmd = 3
    BY DEF Response
  <2> HIDE DEF a
  <2>2. h.proto_cmd = (0 + 2 * 1 + 4 * 0 + 8 * (3 % 32)) \div 8
    BY <2>1 DEF Unpack, Pack, Header, Bit
  <2> HIDE DEF h
  <2>3. h.proto_cmd = 3
    BY <2>2
  <2>4. FromBits(h.proto_cmd) = "Hello"
    BY <2>3 DEF FromBits
  <2> QED BY <2>4 DEF h, a
<1>2. r # "empty"
  <2> SUFFICES ASSUME r = "empty"
               PROVE  FALSE
    OBVIOUS
  <2>1. a.body.len = 0
    BY DEF Response, Plain
  <2> HIDE DEF a
  <2>2. h.cmd_len = (0 % 256) + 256 * ((0 \div 256) % 256) + 65536 * (((0 \div 65536) % 64) % 64)
    BY <2>1 DEF Unpack, Pack, Header
  <2>3. h.cmd_len >= 48
    BY DEF a
  <2> HIDE DEF h
  <2>4. h.cmd_len = 0
    BY <2>2
  <2> QED BY <2>3, <2>4
<1> QED BY <1>1, <1>2 DEF ReplyKinds

\* Of the answers that open with a proper header only the right one echoes the
\* keys, in order, in a box for this session.
LEMMA EchoOnly ==
  ASSUME NEW r \in {"pong", "short", "echo", "box"}, EchoOk(Response(ClientKeys(conn), r).body)
  PROVE  r = "pong"
<1> DEFINE keys == ClientKeys(conn)
           body == Response(keys, r).body
<1>0. SealOpens(body, SessionKey(conn)) /\ Len(body.plain) >= 6 /\ SubSeq(body.plain, 1, 4) = keys
  BY DEF EchoOk
<1>1. r # "short"
  <2> SUFFICES ASSUME r = "short"
               PROVE  FALSE
    OBVIOUS
  <2>1. body.plain = keys \o <<>>
    BY DEF Response, BoxSeal
  <2>2. Len(keys \o <<>>) = 4
    <3>1. IsSeq(keys) /\ Len(keys) = 4 /\ IsSeq(<<>>) /\ Len(<<>>) = 0
      BY EmptyIs DEF IsSeq, ClientKeys
    <3> HIDE DEF keys
    <3>2. Len(keys \o <<>>) = Len(keys) + Len(<<>>)
      BY <3>1, Concatenated
    <3> QED BY <3>1, <3>2
  <2> HIDE DEF body, keys
  <2>3. Len(body.plain) = 4
    BY <2>1, <2>2
  <2> QED BY <2>3, <1>0
<1>2. r # "echo"
  <2> SUFFICES ASSUME r = "echo"
               PROVE  FALSE
    OBVIOUS
  <2> DEFINE s == << keys[1], keys[2], keys[4], keys[3] >>
             t == << <<"pool_ed", 0>>, PoolSession, 77, 0 >>
             p == s \o t
  <2>1. body.plain = p
    BY DEF Response, BoxSeal
  <2>2. IsSeq(s) /\ Len(s) = 4 /\ IsSeq(t) /\ Len(t) = 4 /\ s[3] = keys[4]
    BY DEF IsSeq
  <2>3. keys[4] = <<"client", conn>> /\ keys[3] = <<"session_ed", conn>>
    BY DEF ClientKeys, SessionKey
  <2> HIDE DEF s, t, keys
  <2>4. IsSeq(p) /\ Len(p) = 8 /\ p[3] = s[3]
    <3>1. /\ IsSeq(p) /\ Len(p) = Len(s) + Len(t)
          /\ \A i \in 1 .. Len(s) : p[i] = s[i]
      <4>1. IsSeq(s) /\ IsSeq(t)
        BY <2>2
      <4> QED BY <4>1, Concatenated
    <3> QED BY <3>1, <2>2
  <2> HIDE DEF p
  <2>5. p \in Seq({p[i] : i \in 1 .. Len(p)})
    BY <2>4, SeqOf
  <2>6. SubSeq(p, 1, 4)[3] = p[3]
    BY <2>4, <2>5
  <2>7. SubSeq(p, 1, 4) = keys
    BY <2>1, <1>0 DEF keys
  <2>8. <<"client", conn>> = <<"session_ed", conn>>
    BY <2>2, <2>3, <2>4, <2>6, <2>7
  <2> QED BY <2>8
<1>3. r # "box"
  <2> SUFFICES ASSUME r = "box"
               PROVE  FALSE
    OBVIOUS
  <2>1. body.key = PoolKey
    BY DEF Response, BoxSeal
  <2>2. SessionKey(conn) = PoolKey
    BY <2>1, <1>0 DEF SealOpens
  <2> QED BY <2>2 DEF SessionKey, PoolKey
<1> QED BY <1>1, <1>2, <1>3

-----------------------------------------------------------------------------
(* What a step leaves alone. *)

LEMMA AnswerKept ==
  ASSUME UNCHANGED <<conn, nk, conf>>, pool'.reply = pool.reply
  PROVE  Answer' = Answer /\ AnswerHeader' = AnswerHeader
BY DEF Answer, AnswerHeader, Response, ClientKeys, SessionKey, PoolKey, PoolSession,
       Obfuscate, ForReceiver, Pack, Header, BoxSeal, Plain, Bit

LEMMA HelloKept ==
  ASSUME UNCHANGED <<conn, nk, conf>>
  PROVE  Hello' = Hello
BY DEF Hello, BoxSeal, HelloPayload, HelloFields, ClientKeys, SessionKey

\* A step that is not about the path to the pool keeps what is known of it.
LEMMA PathKept ==
  ASSUME NonceChain, InStep, Frames, Delivered,
         phase' = "up" => phase = "up",
         UNCHANGED <<conn, nk, up, writer, frame, sent, got>>,
         used'.up = used.up,
         client'.send_key = client.send_key, client'.send_nonce = client.send_nonce,
         pool'.end.recv_key = pool.end.recv_key, pool'.end.recv_nonce = pool.end.recv_nonce
  PROVE  NonceChain' /\ InStep' /\ Frames' /\ Delivered'
<1>1. \A k : KeyOf(k)' = KeyOf(k)
  BY DEF KeyOf
<1>2. \A k : NonceOf(k)' = NonceOf(k)
  BY DEF NonceOf
<1>3. First' = First
  BY DEF First, DeriveSessionNonces
<1>4. SessionBox' = SessionBox
  BY DEF SessionBox, SessionKey, PoolSession
<1>5. \A x, k : IsHeader(x, k)' = IsHeader(x, k)
  BY <1>1 DEF IsHeader
<1>6. \A x, k : IsBody(x, k)' = IsBody(x, k)
  BY <1>2, <1>4 DEF IsBody
<1>7. NonceChain'
  BY <1>2, <1>3 DEF NonceChain
<1>8. InStep'
  BY <1>1, <1>2, <1>3 DEF InStep
<1>9. Frames'
  BY <1>5, <1>6 DEF Frames
<1>10. Delivered'
  BY DEF Delivered
<1> QED BY <1>7, <1>8, <1>9, <1>10

\* Outside of a session nothing is said of the path but what was delivered.
LEMMA PathVoid ==
  ASSUME Delivered, phase' # "up", UNCHANGED <<sent, got>>
  PROVE  NonceChain' /\ InStep' /\ Frames' /\ Delivered'
BY DEF NonceChain, InStep, Frames, Delivered

-----------------------------------------------------------------------------
(* The steps of an attempt to connect. *)

LEMMA InitOk == Init => IInv
<1> SUFFICES ASSUME Init
             PROVE  IInv
  OBVIOUS
<1> USE DEF Init, PoolIdle, Idle
<1>1. Shape
  BY EmptyIs DEF Shape
<1>2. PoolPhase /\ OnWire /\ Agreed
  BY DEF PoolPhase, OnWire, Agreed
<1>3. NonceChain /\ InStep /\ Frames /\ Delivered
  BY EmptyIs DEF NonceChain, InStep, Frames, Delivered
<1> QED BY <1>1, <1>2, <1>3 DEF IInv

LEMMA DialKeeps == IInv /\ Dial => IInv'
<1> SUFFICES ASSUME IInv, Dial
             PROVE  IInv'
  OBVIOUS
<1> USE DEF Dial, PoolIdle, Idle
<1>1. Shape'
  <2>1. conn' \in Nat
    BY DEF IInv, Shape
  <2>2. phase' \in {"failed", "dial"} /\ (phase' = "dial" => ~HasNul(conf.version)')
    BY DEF HasNul
  <2> QED BY <2>1, <2>2, EmptyIs DEF IInv, Shape
<1>2. PoolPhase' /\ OnWire' /\ Agreed'
  BY DEF PoolPhase, OnWire, Agreed
<1>3. NonceChain' /\ InStep' /\ Frames' /\ Delivered'
  BY EmptyIs DEF NonceChain, InStep, Frames, Delivered
<1> QED BY <1>1, <1>2, <1>3 DEF IInv

LEMMA FailKeeps == IInv /\ Fail => IInv'
<1> SUFFICES ASSUME IInv, Fail
             PROVE  IInv'
  OBVIOUS
<1> USE DEF Fail, sendVars, readVars
<1>1. Shape'
  BY DEF IInv, Shape
<1>2. PoolPhase' /\ OnWire' /\ Agreed'
  BY DEF IInv, PoolPhase, OnWire, Agreed
<1>3. NonceChain' /\ InStep' /\ Frames' /\ Delivered'
  BY PathVoid DEF IInv
<1> QED BY <1>1, <1>2, <1>3 DEF IInv

LEMMA RetryKeeps == IInv /\ Retry => IInv'
<1> SUFFICES ASSUME IInv, Retry
             PROVE  IInv'
  OBVIOUS
<1> USE DEF Retry, sendVars, readVars, poolVars
<1>1. Shape'
  BY DEF IInv, Shape
<1>2. PoolPhase' /\ OnWire' /\ Agreed'
  BY DEF IInv, PoolPhase, OnWire, Agreed
<1>3. NonceChain' /\ InStep' /\ Frames' /\ Delivered'
  BY PathVoid DEF IInv
<1> QED BY <1>1, <1>2, <1>3 DEF IInv

LEMMA HelloKeeps == IInv /\ SendHello => IInv'
<1> SUFFICES ASSUME IInv, SendHello
             PROVE  IInv'
  OBVIOUS
<1> USE DEF SendHello, sendVars, readVars
<1>1. PICK w : up' = <<Obfuscate(InitialSendingKey, w), Hello>>
  BY DEF Hello
<1>2. IsSeq(up') /\ Len(up') = 2 /\ up'[2] = Hello
  BY <1>1 DEF IsSeq
<1>3. pool' = [phase |-> "hello", end |-> pool.end, reply |-> pool.reply, pending |-> pool.pending]
  BY DEF IInv, Shape
<1>4. Shape'
  <2>1. phase' = "await" /\ ~HasNul(conf.version)'
    BY DEF IInv, Shape, HasNul
  <2> QED BY <1>2, <1>3, <2>1 DEF IInv, Shape
<1>5. Hello' = Hello
  BY HelloKept
<1>6. OnWire'
  BY <1>2, <1>3, <1>5 DEF IInv, OnWire
<1>7. PoolPhase' /\ Agreed'
  BY <1>3 DEF IInv, PoolPhase, Agreed
<1>8. NonceChain' /\ InStep' /\ Frames' /\ Delivered'
  BY PathVoid DEF IInv
<1> QED BY <1>4, <1>6, <1>7, <1>8 DEF IInv

LEMMA AnswerKeeps ==
  ASSUME IInv, NEW kind \in ReplyKinds, PoolAnswer(kind)
  PROVE  IInv'
<1> USE DEF connVars, sendVars, readVars
<1>1. /\ pool.phase = "hello" /\ Len(up) = 2 /\ down_open
      /\ UNCHANGED <<phase, conn, nk, conf, client, writer, frame, sent, got, used>> /\ up' = <<>>
  BY DEF PoolAnswer
<1>2. phase = "await" /\ down = <<>> /\ up[2] = Hello
  <2>1. phase = "await"
    BY <1>1 DEF IInv, PoolPhase
  <2>2. up # <<>>
    BY <1>1, EmptyIs
  <2> QED BY <1>1, <2>1, <2>2 DEF IInv, OnWire
<1>3. up[2].plain = HelloPayload
  BY <1>2 DEF Hello, BoxSeal
<1>4. SubSeq(HelloPayload, 1, 4) = ClientKeys(conn) /\ FindNk(HelloPayload) = nk
  <2>1. conf \in Confs /\ ~HasNul(conf.version)
    BY <1>2 DEF IInv, Shape
  <2>2. PICK v \in Seq(Byte) : v = conf.version
    BY <2>1, ConfsAssumption
  <2> QED BY <2>1, <2>2, HelloIs
<1>5. sent = <<>> /\ got = <<>> /\ used.up = <<>> /\ writer = "idle"
  BY <1>2 DEF IInv, Agreed
<1>6. NonceChain' /\ InStep' /\ Frames' /\ Delivered'
  BY <1>1, <1>2, PathVoid DEF IInv
<1>7. CASE down_open' = FALSE /\ UNCHANGED <<down, pool>>
  <2>1. Shape'
    BY <1>1, <1>7, EmptyIs DEF IInv, Shape, HasNul
  <2>2. PoolPhase' /\ OnWire' /\ Agreed'
    BY <1>1, <1>2, <1>5, <1>7 DEF IInv, PoolPhase, OnWire, Agreed
  <2> QED BY <2>1, <2>2, <1>6 DEF IInv
<1>8. CASE ~(down_open' = FALSE /\ UNCHANGED <<down, pool>>)
  <2> DEFINE r   == Response(ClientKeys(conn), kind)
             raw == Pack(Header(r.body.len, FALSE, TRUE, FALSE, r.cmd))
             n   == DeriveSessionNonces(nk)
  <2>1. /\ down' = << Obfuscate(ForReceiver(nk), raw) >>
        /\ pool' = [phase |-> "up", reply |-> kind, pending |-> << r.body >>,
                    end |-> [send_key |-> Feedback(ForReceiver(nk)), recv_key |-> ForSender(nk),
                             send_nonce |-> n.recv, recv_nonce |-> n.send]]
        /\ UNCHANGED down_open
    BY <1>3, <1>4, <1>8 DEF PoolAnswer
  <2>2. /\ pool'.phase = "up" /\ pool'.reply = kind /\ pool'.pending = << r.body >>
        /\ pool'.end.recv_key = ForSender(nk) /\ pool'.end.recv_nonce = n.send
        /\ pool' = [phase |-> pool'.phase, end |-> pool'.end, reply |-> pool'.reply,
                    pending |-> pool'.pending]
        /\ pool'.end = [send_key |-> pool'.end.send_key, recv_key |-> pool'.end.recv_key,
                        send_nonce |-> pool'.end.send_nonce, recv_nonce |-> pool'.end.recv_nonce]
    BY <2>1
  <2>3. Answer' = r /\ AnswerHeader' = Obfuscate(ForReceiver(nk), raw)
    <3>1. Answer' = r
      BY <1>1, <2>2 DEF Answer, Response, ClientKeys, SessionKey, PoolKey, PoolSession, BoxSeal, Plain
    <3> HIDE DEF r
    <3> QED BY <1>1, <3>1 DEF AnswerHeader, Obfuscate, ForReceiver, Pack, Header, Bit
  <2> HIDE DEF r, raw, n
  <2>4. Shape'
    <3>1. IsSeq(down') /\ IsSeq(pool'.pending)
      BY <2>1, <2>2 DEF IsSeq
    <3> QED BY <1>1, <2>2, <3>1, EmptyIs DEF IInv, Shape, HasNul
  <2>5. PoolPhase'
    BY <1>1, <1>2, <2>1, <2>2 DEF IInv, PoolPhase
  <2>6. OnWire'
    <3>1. down' # <<>> /\ down'[1] = AnswerHeader' /\ Len(down') = 1
      BY <2>1, <2>3
    <3>2. pool'.pending # <<>> /\ pool'.pending = << Answer'.body >>
      BY <2>2, <2>3
    <3> QED BY <1>1, <1>2, <2>2, <3>1, <3>2 DEF OnWire
  <2>7. Agreed'
    BY <1>1, <1>2, <1>5, <2>2 DEF Agreed, ForSender, DeriveSessionNonces, n
  <2> QED BY <2>4, <2>5, <2>6, <2>7, <1>6 DEF IInv
<1> QED BY <1>7, <1>8

LEMMA AnswerBodyKeeps == IInv /\ PoolAnswerBody => IInv'
<1> SUFFICES ASSUME IInv, PoolAnswerBody
             PROVE  IInv'
  OBVIOUS
<1> USE DEF connVars, sendVars, readVars
<1>1. /\ pool.pending # <<>> /\ down' = down \o pool.pending
      /\ UNCHANGED <<phase, conn, nk, conf, client, up, writer, frame, sent, got, down_open, used>>
  BY DEF PoolAnswerBody
<1>2. pool' = [phase |-> pool.phase, end |-> pool.end, reply |-> pool.reply, pending |-> <<>>]
  BY DEF PoolAnswerBody, IInv, Shape
<1>3. /\ pool'.phase = pool.phase /\ pool'.end = pool.end /\ pool'.reply = pool.reply
      /\ pool'.pending = <<>>
  BY <1>2
<1>4. Answer' = Answer /\ AnswerHeader' = AnswerHeader /\ Hello' = Hello
  BY <1>1, <1>3, AnswerKept, HelloKept
<1>5. IsSeq(down) /\ IsSeq(pool.pending)
  BY DEF IInv, Shape
<1>6. /\ IsSeq(down') /\ Len(down') = Len(down) + Len(pool.pending)
      /\ \A i \in 1 .. Len(down) : down'[i] = down[i]
      /\ \A i \in 1 .. Len(pool.pending) : down'[Len(down) + i] = pool.pending[i]
  <2>1. /\ IsSeq(down \o pool.pending) /\ Len(down \o pool.pending) = Len(down) + Len(pool.pending)
        /\ \A i \in 1 .. Len(down) : (down \o pool.pending)[i] = down[i]
        /\ \A i \in 1 .. Len(pool.pending) : (down \o pool.pending)[Len(down) + i] = pool.pending[i]
    BY <1>5, Concatenated
  <2> QED BY <1>1, <2>1
<1>7. Shape'
  BY <1>1, <1>2, <1>3, <1>6, EmptyIs DEF IInv, Shape, HasNul
<1>8. PoolPhase'
  BY <1>1, <1>3 DEF IInv, PoolPhase
<1>9. OnWire'
  <2>1. CASE phase = "await"
    <3>1. pool.phase = "up" /\ down[1] = AnswerHeader /\ Len(down) = 1 /\ pool.pending = <<Answer.body>>
      BY <1>1, <2>1 DEF IInv, PoolPhase, OnWire
    <3>2. Len(pool.pending) = 1 /\ pool.pending[1] = Answer.body
      BY <3>1
    <3>3. Len(down') = 2 /\ down'[1] = AnswerHeader /\ down'[2] = Answer.body
      BY <1>6, <3>1, <3>2
    <3>4. down' # <<>>
      BY <3>3, EmptyIs
    <3> QED BY <1>1, <1>3, <1>4, <2>1, <3>1, <3>3, <3>4 DEF OnWire
  <2>2. CASE phase = "await_body"
    <3>1. /\ pool.reply \in {"pong", "short", "echo", "box"}
          /\ down = <<>> /\ pool.pending = <<Answer.body>>
      BY <1>1, <2>2 DEF IInv, OnWire
    <3>2. Len(pool.pending) = 1 /\ pool.pending[1] = Answer.body /\ Len(down) = 0
      BY <3>1
    <3>3. Len(down') = 1 /\ down'[1] = Answer.body
      BY <1>6, <3>2
    <3>4. down' # <<>>
      <4>1. IsSeq(down') /\ Len(down') # 0
        BY <1>6, <3>3
      <4> QED BY <4>1, LenZero, Zenon
    <3> QED BY <1>1, <1>3, <1>4, <2>2, <3>1, <3>3, <3>4 DEF OnWire
  <2>3. CASE phase \notin {"await", "await_body"}
    BY <1>1, <2>3 DEF IInv, OnWire
  <2> QED BY <2>1, <2>2, <2>3
<1>10. Agreed'
  BY <1>1, <1>3 DEF IInv, Agreed, ForSender, DeriveSessionNonces
<1>11. NonceChain' /\ InStep' /\ Frames' /\ Delivered'
  BY <1>1, <1>3, PathKept DEF IInv
<1> QED BY <1>7, <1>8, <1>9, <1>10, <1>11 DEF IInv

LEMMA ResponseHeaderKeeps == IInv /\ RecvResponseHeader => IInv'
<1> SUFFICES ASSUME IInv, RecvResponseHeader
             PROVE  IInv'
  OBVIOUS
<1> USE DEF sendVars
<1>1. /\ phase = "await" /\ down # <<>> /\ down' = Tail(down) /\ phase' \in {"await_body", "failed"}
      /\ down_open' = (down_open /\ phase' # "failed")
      /\ UNCHANGED <<conn, nk, conf, pool, up, writer, frame, sent, got, used>>
  BY DEF RecvResponseHeader
<1>2. client' = [client EXCEPT !.recv_key = Feedback(ForReceiver(nk))]
  BY DEF RecvResponseHeader
<1>3. /\ IsSeq(down') /\ Len(down') = Len(down) - 1 /\ Head(down) = down[1]
      /\ \A i \in 1 .. Len(down) - 1 : down'[i] = down[i + 1]
  <2>1. IsSeq(down)
    BY DEF IInv, Shape
  <2> QED BY <1>1, <2>1, TailOf
<1>4. Shape'
  BY <1>1, <1>2, <1>3 DEF IInv, Shape, HasNul
<1>5. pool.phase = "up" /\ pool.reply \in ReplyKinds
  BY <1>1, EmptyIs DEF IInv, PoolPhase, OnWire
<1>6. PoolPhase'
  BY <1>1, <1>5 DEF IInv, PoolPhase
<1>7. Agreed'
  BY <1>1, <1>5 DEF IInv, Agreed, ForSender, DeriveSessionNonces
<1>8. Answer' = Answer /\ AnswerHeader' = AnswerHeader
  BY <1>1, AnswerKept
<1>9. ASSUME phase' = "await_body"
      PROVE  pool.reply \in {"pong", "short", "echo", "box"}
  <2> DEFINE h == Unpack(Head(down).word)
  <2>1. h.cmd_len >= 48 /\ FromBits(h.proto_cmd) = "Pong"
    BY <1>9 DEF RecvResponseHeader
  <2>2. Head(down) = AnswerHeader
    BY <1>1, <1>3, <1>5 DEF IInv, OnWire
  <2>3. AnswerHeader.word = Pack(Header(Answer.body.len, FALSE, TRUE, FALSE, Answer.cmd))
    BY DEF AnswerHeader, Obfuscate
  <2>4. h = Unpack(Pack(Header(Response(ClientKeys(conn), pool.reply).body.len, FALSE, TRUE, FALSE,
                               Response(ClientKeys(conn), pool.reply).cmd)))
    BY <2>2, <2>3 DEF Answer
  <2> HIDE DEF h
  <2> QED BY <1>5, <2>1, <2>4, HeaderOnly
<1>10. OnWire'
  <2>1. CASE pool.pending = <<>>
    <3>1. Len(down) >= 2 /\ down[2] = Answer.body /\ Len(down) \in Nat
      BY <1>1, <1>5, <2>1, SeqOf DEF IInv, OnWire, Shape
    <3>2. Len(down') >= 1 /\ down'[1] = Answer.body
      BY <1>3, <3>1
    <3>3. down' # <<>>
      BY <3>2, EmptyIs
    <3> QED BY <1>1, <1>8, <1>9, <2>1, <3>2, <3>3 DEF OnWire
  <2>2. CASE pool.pending # <<>>
    <3>1. pool.pending = <<Answer.body>> /\ Len(down) = 1
      BY <1>1, <1>5, <2>2 DEF IInv, OnWire
    <3>2. down' = <<>>
      BY <1>3, <3>1, LenZero
    <3> QED BY <1>1, <1>8, <1>9, <2>2, <3>1, <3>2 DEF OnWire
  <2> QED BY <2>1, <2>2
<1>11. NonceChain' /\ InStep' /\ Frames' /\ Delivered'
  BY <1>1, PathVoid DEF IInv
<1> QED BY <1>4, <1>6, <1>7, <1>10, <1>11 DEF IInv

LEMMA ResponseBodyKeeps == IInv /\ RecvResponseBody => IInv'
<1> SUFFICES ASSUME IInv, RecvResponseBody
             PROVE  IInv'
  OBVIOUS
<1> USE DEF sendVars, readVars
<1>1. /\ phase = "await_body" /\ down # <<>> /\ down' = Tail(down)
      /\ UNCHANGED <<conn, nk, conf, pool, up, writer, frame, sent, got, used>>
  BY DEF RecvResponseBody
<1>2. IsSeq(down') /\ Head(down) = down[1]
  <2>1. IsSeq(down)
    BY DEF IInv, Shape
  <2> QED BY <1>1, <2>1, TailOf
<1>3. CASE phase' = "failed" /\ down_open' = FALSE /\ UNCHANGED client
  <2>1. Shape'
    BY <1>1, <1>2, <1>3 DEF IInv, Shape
  <2>2. PoolPhase' /\ OnWire' /\ Agreed'
    BY <1>1, <1>3 DEF IInv, PoolPhase, OnWire, Agreed
  <2>3. NonceChain' /\ InStep' /\ Frames' /\ Delivered'
    BY <1>1, <1>3, PathVoid DEF IInv
  <2> QED BY <2>1, <2>2, <2>3 DEF IInv
<1>4. CASE EchoOk(Head(down)) /\ phase' = "up" /\ client' = Connected /\ UNCHANGED down_open
  <2>1. /\ client' = [send_key |-> client'.send_key, recv_key |-> client'.recv_key,
                      send_nonce |-> client'.send_nonce, recv_nonce |-> client'.recv_nonce]
        /\ client'.send_key = ForSender(nk) /\ client'.send_nonce = First
    BY <1>4 DEF Connected, First
  <2>2. Shape'
    BY <1>1, <1>2, <1>4, <2>1 DEF IInv, Shape, HasNul
  <2>3. pool.phase = "up" /\ pool.reply \in ReplyKinds
    BY <1>1 DEF IInv, PoolPhase
  <2>4. pool.reply = "pong"
    <3>1. pool.reply \in {"pong", "short", "echo", "box"} /\ down[1] = Answer.body
      BY <1>1 DEF IInv, OnWire
    <3>2. EchoOk(Response(ClientKeys(conn), pool.reply).body)
      BY <1>2, <1>4, <3>1 DEF Answer
    <3> QED BY <3>1, <3>2, EchoOnly
  <2>5. PoolPhase' /\ OnWire' /\ Agreed'
    BY <1>1, <1>4, <2>3, <2>4 DEF IInv, PoolPhase, OnWire, Agreed
  <2>6. /\ sent = <<>> /\ got = <<>> /\ used.up = <<>> /\ writer = "idle" /\ up = <<>>
        /\ pool.end.recv_key = ForSender(nk) /\ pool.end.recv_nonce = First
    BY <1>1, <2>3 DEF IInv, Agreed, First
  <2>7. KeyOf(1) = ForSender(nk)
    BY DEF KeyOf, ForSender
  <2>8. First' = First /\ KeyOf(1)' = KeyOf(1)
    BY <1>1 DEF First, DeriveSessionNonces, KeyOf
  <2>9. NonceChain'
    BY <1>1, <2>1, <2>6, <2>8, EmptyIs DEF NonceChain
  <2>10. InStep'
    BY <1>1, <2>1, <2>6, <2>7, <2>8, EmptyIs DEF InStep
  <2>11. Frames' /\ Delivered'
    BY <1>1, <2>6, EmptyIs DEF Frames, Delivered
  <2> QED BY <2>2, <2>5, <2>9, <2>10, <2>11 DEF IInv
<1> QED BY <1>3, <1>4 DEF RecvResponseBody

\* The pool's frames come behind its answer.
LEMMA PoolSendKeeps ==
  ASSUME IInv, NEW f, PoolSend(f)
  PROVE  IInv'
<1> USE DEF connVars, sendVars, readVars
<1>1. /\ pool.phase = "up" /\ pool.pending = <<>> /\ pool.reply = "pong"
      /\ UNCHANGED <<phase, conn, nk, conf, client, up, writer, frame, sent, got, down_open>>
      /\ used'.up = used.up /\ used' = [up |-> used'.up, down |-> used'.down]
  BY DEF PoolSend, IInv, Shape
<1>2. PICK x, y : down' = down \o <<x, y>>
  BY DEF PoolSend
<1>3. /\ pool'.phase = pool.phase /\ pool'.reply = pool.reply /\ pool'.pending = pool.pending
      /\ pool'.end.recv_key = pool.end.recv_key /\ pool'.end.recv_nonce = pool.end.recv_nonce
      /\ pool' = [phase |-> pool'.phase, end |-> pool'.end, reply |-> pool'.reply,
                  pending |-> pool'.pending]
      /\ pool'.end = [send_key |-> pool'.end.send_key, recv_key |-> pool'.end.recv_key,
                      send_nonce |-> pool'.end.send_nonce, recv_nonce |-> pool'.end.recv_nonce]
  <2>1. /\ pool = [phase |-> pool.phase, end |-> pool.end, reply |-> pool.reply,
                   pending |-> pool.pending]
        /\ pool.end = [send_key |-> pool.end.send_key, recv_key |-> pool.end.recv_key,
                       send_nonce |-> pool.end.send_nonce, recv_nonce |-> pool.end.recv_nonce]
    BY DEF IInv, Shape
  <2>2. PICK k, n : pool' = [pool EXCEPT !.end.send_key = k, !.end.send_nonce = n]
    BY DEF PoolSend
  <2> QED BY <2>1, <2>2
<1>4. /\ IsSeq(down') /\ Len(down') >= Len(down) + 2
      /\ \A i \in 1 .. Len(down) : down'[i] = down[i]
  <2> DEFINE t == <<x, y>>
  <2>1. IsSeq(down) /\ IsSeq(t) /\ Len(t) = 2 /\ Len(down) \in Nat
    BY DEF IInv, Shape, IsSeq
  <2> HIDE DEF t
  <2>2. /\ IsSeq(down \o t) /\ Len(down \o t) = Len(down) + Len(t)
        /\ \A i \in 1 .. Len(down) : (down \o t)[i] = down[i]
    BY <2>1, Concatenated
  <2>3. down' = down \o t
    BY <1>2 DEF t
  <2> QED BY <2>1, <2>2, <2>3
<1>5. Answer' = Answer /\ AnswerHeader' = AnswerHeader
  BY <1>1, <1>3, AnswerKept
<1>6. Shape'
  BY <1>1, <1>3, <1>4 DEF IInv, Shape, HasNul
<1>7. PoolPhase' /\ Agreed'
  BY <1>1, <1>3 DEF IInv, PoolPhase, Agreed, ForSender, DeriveSessionNonces
<1>8. OnWire'
  <2>1. Len(down) \in Nat /\ IsSeq(down)
    BY DEF IInv, Shape, IsSeq
  <2>2. down' # <<>>
    <3>1. Len(down') # 0
      BY <1>4, <2>1
    <3>2. IsSeq(down')
      BY <1>4
    <3> QED BY <3>1, <3>2, LenZero, Zenon
  <2>3. CASE phase = "await"
    <3>1. Len(down) >= 2 /\ down[1] = AnswerHeader /\ down[2] = Answer.body
      BY <1>1, <2>3 DEF IInv, OnWire
    <3>2. Len(down') >= 2 /\ down'[1] = AnswerHeader /\ down'[2] = Answer.body
      BY <1>4, <2>1, <3>1
    <3> QED BY <1>1, <1>3, <1>5, <2>2, <2>3, <3>2 DEF OnWire
  <2>4. CASE phase = "await_body"
    <3>1. down # <<>> /\ down[1] = Answer.body /\ pool.reply \in {"pong", "short", "echo", "box"}
      BY <1>1, <2>4 DEF IInv, OnWire
    <3>2. Len(down) >= 1
      BY <2>1, <3>1, LenZero
    <3>3. down'[1] = Answer.body
      BY <1>4, <2>1, <3>1, <3>2
    <3> QED BY <1>1, <1>3, <1>5, <2>2, <2>4, <3>1, <3>3 DEF OnWire
  <2>5. CASE phase = "dial"
    BY <1>1, <2>5 DEF IInv, PoolPhase
  <2>6. CASE phase \notin {"await", "await_body", "dial"}
    BY <1>1, <2>6 DEF OnWire
  <2> QED BY <2>3, <2>4, <2>5, <2>6
<1>9. NonceChain' /\ InStep' /\ Frames' /\ Delivered'
  BY <1>1, <1>3, PathKept DEF IInv
<1> QED BY <1>6, <1>7, <1>8, <1>9 DEF IInv

-----------------------------------------------------------------------------
(* The steps of a session. *)

LEMMA SessionKept ==
  ASSUME UNCHANGED <<conn, nk>>
  PROVE  (\A k : KeyOf(k)' = KeyOf(k)) /\ First' = First /\ SessionBox' = SessionBox
BY DEF KeyOf, First, DeriveSessionNonces, SessionBox, SessionKey, PoolSession

\* What concerns the handshake is settled while the session lasts.
LEMMA SettledKept ==
  ASSUME PoolPhase, phase = "up", phase' = "up", pool'.phase = "up", pool'.reply = pool.reply
  PROVE  PoolPhase' /\ OnWire' /\ Agreed'
BY DEF PoolPhase, OnWire, Agreed

\* Reading, and the end of the stream, leave the path to the pool alone.
LEMMA ReadKeeps == IInv /\ (PoolClose \/ ReadHeader \/ ReadBody \/ ReadEof) => IInv'
<1> SUFFICES ASSUME IInv, PoolClose \/ ReadHeader \/ ReadBody \/ ReadEof
             PROVE  IInv'
  OBVIOUS
<1> USE DEF connVars, sendVars, readVars, poolVars
<1>1. /\ phase = "up"
      /\ UNCHANGED <<phase, conn, nk, conf, pool, up, writer, frame, sent, got, used>>
      /\ down' = down \/ (down # <<>> /\ down' = Tail(down))
  BY DEF PoolClose, ReadHeader, ReadBody, ReadEof
<1>2. /\ client' = [send_key |-> client'.send_key, recv_key |-> client'.recv_key,
                    send_nonce |-> client'.send_nonce, recv_nonce |-> client'.recv_nonce]
      /\ client'.send_key = client.send_key /\ client'.send_nonce = client.send_nonce
  <2>1. client = [send_key |-> client.send_key, recv_key |-> client.recv_key,
                  send_nonce |-> client.send_nonce, recv_nonce |-> client.recv_nonce]
    BY DEF IInv, Shape
  <2>2. \/ client' = client
        \/ \E k : client' = [client EXCEPT !.recv_key = k]
        \/ \E k : client' = [client EXCEPT !.recv_nonce = k]
    BY DEF PoolClose, ReadHeader, ReadBody, ReadEof
  <2> QED BY <2>1, <2>2
<1>3. IsSeq(down')
  <2>1. IsSeq(down)
    BY DEF IInv, Shape
  <2> QED BY <1>1, <2>1, TailOf
<1>4. Shape'
  BY <1>1, <1>2, <1>3 DEF IInv, Shape, HasNul
<1>5. PoolPhase' /\ OnWire' /\ Agreed'
  <2>1. PoolPhase /\ pool'.phase = "up" /\ pool'.reply = pool.reply
    BY <1>1 DEF IInv, PoolPhase
  <2> QED BY <1>1, <2>1, SettledKept
<1>6. NonceChain' /\ InStep' /\ Frames' /\ Delivered'
  BY <1>1, <1>2, PathKept DEF IInv
<1> QED BY <1>4, <1>5, <1>6 DEF IInv

\* The lengths, as the arithmetic needs them.
LEMMA Lengths ==
  ASSUME IInv
  PROVE  /\ Len(sent) \in Nat /\ Len(got) \in Nat /\ Len(up) \in Nat /\ Len(used.up) \in Nat
         /\ Len(got) <= Len(sent)
         /\ Len(sent) = 0 <=> sent = <<>>
         /\ Len(got) = 0 <=> got = <<>>
<1>1. IsSeq(sent) /\ IsSeq(got) /\ IsSeq(up) /\ IsSeq(used.up)
  BY DEF IInv, Shape
<1>2. Len(sent) \in Nat /\ Len(got) \in Nat /\ Len(up) \in Nat /\ Len(used.up) \in Nat
  BY <1>1 DEF IsSeq
<1>3. Len(sent) = 0 <=> sent = <<>>
  BY <1>1, LenZero
<1>4. Len(got) = 0 <=> got = <<>>
  BY <1>1, LenZero
<1> QED BY <1>2, <1>3, <1>4 DEF IInv, Delivered

LEMMA WriteFailKeeps == IInv /\ WriteFail => IInv'
<1> SUFFICES ASSUME IInv, WriteFail
             PROVE  IInv'
  OBVIOUS
<1> USE DEF connVars, sendVars, readVars, poolVars
<1>1. /\ phase = "up" /\ writer' = "ended"
      /\ UNCHANGED <<phase, conn, nk, conf, client, pool, up, down, down_open, frame, sent, got, used>>
  BY DEF WriteFail
<1>2. Shape'
  BY <1>1 DEF IInv, Shape, HasNul
<1>3. PoolPhase' /\ OnWire' /\ Agreed'
  BY <1>1 DEF IInv, PoolPhase, OnWire, Agreed
<1>4. (\A k : KeyOf(k)' = KeyOf(k)) /\ First' = First /\ SessionBox' = SessionBox
  BY <1>1, SessionKept
<1>5. \A k : NonceOf(k)' = NonceOf(k)
  BY <1>1 DEF NonceOf
<1>6. NonceChain'
  BY <1>1, <1>4, <1>5 DEF IInv, NonceChain
<1>7. InStep'
  BY <1>1, <1>4, <1>5 DEF IInv, InStep
<1>8. Frames'
  <2>1. \A x, k : IsHeader(x, k)' = IsHeader(x, k)
    BY <1>4 DEF IsHeader
  <2>2. \A x, k : IsBody(x, k)' = IsBody(x, k)
    BY <1>1, <1>4, <1>5 DEF IsBody
  <2> QED BY <1>1, <2>1, <2>2 DEF IInv, Frames
<1>9. Delivered'
  BY <1>1 DEF IInv, Delivered
<1> QED BY <1>2, <1>3, <1>6, <1>7, <1>8, <1>9 DEF IInv

\* A command is encrypted with the next nonce and the next key; one whose header
\* does not pack uses up the nonce and ends the writer.
LEMMA BeginSendKeeps ==
  ASSUME IInv, NEW c, BeginSend(c)
  PROVE  IInv'
<1> USE DEF connVars, readVars, poolVars
<1>1. /\ phase = "up" /\ writer = "idle" /\ used'.up = Append(used.up, client.send_nonce)
      /\ used' = [up |-> used'.up, down |-> used'.down]
      /\ UNCHANGED <<phase, conn, nk, conf, pool, up, down, down_open, got>>
  BY DEF BeginSend, IInv, Shape
<1>2. PICK m \in Nat, n \in Nat, L \in Nat :
        /\ m = Len(sent) /\ n = Len(got) /\ L = Len(up) /\ n <= m
        /\ Len(used.up) = m /\ L = 2 * (m - n)
  <2>1. Len(used.up) = Len(sent) /\ Len(up) = 2 * (Len(sent) - Len(got))
    BY <1>1 DEF IInv, NonceChain, Frames
  <2> QED BY <2>1, Lengths
<1>3. /\ IsSeq(used'.up) /\ Len(used'.up) = m + 1 /\ NonceOf(m + 1)' = client.send_nonce
      /\ \A k \in 1 .. m : NonceOf(k)' = NonceOf(k)
  <2>1. IsSeq(used.up)
    BY DEF IInv, Shape
  <2> QED BY <1>1, <1>2, <2>1, Appended DEF NonceOf
<1>4. (\A k : KeyOf(k)' = KeyOf(k)) /\ First' = First /\ SessionBox' = SessionBox
  BY <1>1, SessionKept
<1>5. PoolPhase' /\ OnWire' /\ Agreed'
  <2>1. PoolPhase /\ pool'.phase = "up" /\ pool'.reply = pool.reply
    BY <1>1 DEF IInv, PoolPhase
  <2> QED BY <1>1, <2>1, SettledKept
<1>6. /\ NonceOf(1)' = First
      /\ \A k \in 1 .. m : NonceOf(k + 1)' = IncrementNonce(NonceOf(k)')
  <2>1. client.send_nonce = IF m = 0 THEN First ELSE IncrementNonce(NonceOf(m))
    BY <1>1, <1>2, Lengths DEF IInv, NonceChain
  <2>2. m > 0 => NonceOf(1) = First
    BY <1>1, <1>2 DEF IInv, NonceChain
  <2>3. NonceOf(1)' = First
    BY <2>1, <2>2, <1>2, <1>3
  <2>4. ASSUME NEW k \in 1 .. m
        PROVE  NonceOf(k + 1)' = IncrementNonce(NonceOf(k)')
    <3>1. NonceOf(k)' = NonceOf(k)
      BY <1>3
    <3>2. CASE k = m
      BY <2>1, <3>1, <3>2, <1>2, <1>3
    <3>3. CASE k # m
      <4>1. k \in 1 .. m - 1 /\ k + 1 \in 1 .. m
        BY <1>2, <3>3
      <4>2. NonceOf(k + 1) = IncrementNonce(NonceOf(k))
        BY <1>1, <1>2, <4>1 DEF IInv, NonceChain
      <4> QED BY <1>3, <3>1, <4>1, <4>2
    <3> QED BY <3>2, <3>3
  <2> QED BY <2>3, <2>4
<1>7. pool'.end.recv_nonce = IF got' = <<>> THEN First' ELSE IncrementNonce(NonceOf(n)')
  <2>1. pool.end.recv_nonce = IF n = 0 THEN First ELSE IncrementNonce(NonceOf(n))
    BY <1>1, <1>2, Lengths DEF IInv, InStep
  <2>2. n # 0 => NonceOf(n)' = NonceOf(n)
    BY <1>2, <1>3
  <2> QED BY <1>1, <1>2, <1>4, <2>1, <2>2, Lengths
<1>8. CASE writer' = "ended" /\ UNCHANGED <<frame, client, sent>>
  <2>1. Shape'
    BY <1>1, <1>3, <1>8 DEF IInv, Shape, HasNul
  <2>2. NonceChain'
    BY <1>1, <1>2, <1>3, <1>4, <1>6, <1>8 DEF NonceChain
  <2>3. InStep'
    BY <1>1, <1>2, <1>4, <1>7, <1>8 DEF IInv, InStep
  <2>4. Frames'
    <3>1. \A x, k : IsHeader(x, k)' = IsHeader(x, k)
      BY <1>4 DEF IsHeader
    <3>2. \A x : \A k \in 1 .. m : IsBody(x, k)' = IsBody(x, k)
      BY <1>3, <1>4, <1>8 DEF IsBody
    <3>3. ASSUME NEW k \in 1 .. m - n
          PROVE  /\ 2 * k - 1 <= L => IsHeader(up[2 * k - 1], n + k)'
                 /\ 2 * k <= L => IsBody(up[2 * k], n + k)'
      <4>1. n + k \in 1 .. m
        BY <1>2
      <4>2. /\ 2 * k - 1 <= L => IsHeader(up[2 * k - 1], n + k)
            /\ 2 * k <= L => IsBody(up[2 * k], n + k)
        BY <1>1, <1>2 DEF IInv, Frames
      <4> QED BY <1>1, <3>1, <3>2, <4>1, <4>2
    <3> QED BY <1>1, <1>2, <1>8, <3>3 DEF Frames
  <2>5. Delivered'
    BY <1>1, <1>8 DEF IInv, Delivered
  <2> QED BY <1>5, <2>1, <2>2, <2>3, <2>4, <2>5 DEF IInv
<1>9. CASE ~(writer' = "ended" /\ UNCHANGED <<frame, client, sent>>)
  <2>1. /\ writer' = "header" /\ sent' = Append(sent, c.body)
        /\ client' = [client EXCEPT !.send_key = Feedback(client.send_key)]
        /\ frame'[2] = BoxEasy(SessionBox, client.send_nonce, c.body)
        /\ frame'[1].item = "header" /\ frame'[1].key = client.send_key
    <3>1. PICK w :
            /\ frame' = << Obfuscate(client.send_key, w), BoxEasy(SessionBox, client.send_nonce, c.body) >>
            /\ client' = [client EXCEPT !.send_key = Feedback(client.send_key)]
            /\ writer' = "header" /\ sent' = Append(sent, c.body)
      BY <1>9 DEF BeginSend
    <3> QED BY <3>1 DEF Obfuscate
  <2>2. /\ IsSeq(sent') /\ Len(sent') = m + 1 /\ sent' # <<>> /\ sent'[m + 1] = c.body
        /\ \A k \in 1 .. m : sent'[k] = sent[k]
    <3>1. IsSeq(sent)
      BY DEF IInv, Shape
    <3> QED BY <1>2, <2>1, <3>1, Appended
  <2>3. client.send_key = KeyOf(m + 1)
    BY <1>1, <1>2 DEF IInv, InStep
  <2>4. /\ client' = [send_key |-> client'.send_key, recv_key |-> client'.recv_key,
                      send_nonce |-> client'.send_nonce, recv_nonce |-> client'.recv_nonce]
        /\ client'.send_nonce = client.send_nonce
        /\ client'.send_key = Feedback(KeyOf(m + 1))
    BY <2>1, <2>3 DEF IInv, Shape
  <2>5. client'.send_key = KeyOf(m + 2)'
    <3>1. (m + 1) - 1 + 1 = (m + 2) - 1
      BY <1>2
    <3>2. Feedback(KeyOf(m + 1)) = [chain |-> "nk", seed |-> nk, n |-> (m + 1) - 1 + 1]
      BY DEF Feedback, KeyOf
    <3> QED BY <1>4, <2>4, <3>1, <3>2 DEF KeyOf
  <2>6. Shape'
    BY <1>1, <1>3, <2>1, <2>2, <2>4 DEF IInv, Shape, HasNul
  <2>7. NonceChain'
    BY <1>1, <1>2, <1>3, <1>4, <1>6, <2>1, <2>2, <2>4 DEF NonceChain
  <2>8. InStep'
    <3>1. pool'.end.recv_key = KeyOf(n + 1)'
      BY <1>1, <1>2, <1>4 DEF IInv, InStep
    <3>2. Len(sent') + 1 = m + 2
      BY <2>2, <1>2
    <3> QED BY <1>1, <1>2, <1>7, <2>5, <3>1, <3>2 DEF InStep
  <2>9. Frames'
    <3>1. \A x, k : IsHeader(x, k)' = IsHeader(x, k)
      BY <1>4 DEF IsHeader
    <3>2. \A x : \A k \in 1 .. m : IsBody(x, k)' = IsBody(x, k)
      BY <1>3, <1>4, <2>2 DEF IsBody
    <3>3. ASSUME NEW k \in 1 .. (m + 1) - n
          PROVE  /\ 2 * k - 1 <= L => IsHeader(up[2 * k - 1], n + k)'
                 /\ 2 * k <= L => IsBody(up[2 * k], n + k)'
      <4>1. CASE k \in 1 .. m - n
        <5>1. n + k \in 1 .. m
          BY <1>2, <4>1
        <5>2. /\ 2 * k - 1 <= L => IsHeader(up[2 * k - 1], n + k)
              /\ 2 * k <= L => IsBody(up[2 * k], n + k)
          BY <1>1, <1>2, <4>1 DEF IInv, Frames
        <5> QED BY <1>1, <3>1, <3>2, <5>1, <5>2
      <4>2. CASE k = (m + 1) - n
        <5>1. ~(2 * k - 1 <= L) /\ ~(2 * k <= L)
          BY <1>2, <4>2
        <5> QED BY <5>1
      <4> QED BY <1>2, <4>1, <4>2
    <3>4. IsHeader(frame[1], m + 1)' /\ IsBody(frame[2], m + 1)'
      <4>1. IsHeader(frame[1], m + 1)'
        BY <1>4, <2>1, <2>3 DEF IsHeader
      <4>2. IsBody(frame[2], m + 1)'
        BY <1>3, <1>4, <2>1, <2>2 DEF IsBody
      <4> QED BY <4>1, <4>2
    <3>5. L <= 2 * ((m + 1) - n) /\ L = 2 * ((m + 1) - n) - 2
      BY <1>2
    <3> QED BY <1>1, <1>2, <2>1, <2>2, <3>3, <3>4, <3>5 DEF Frames
  <2>10. Delivered'
    BY <1>1, <1>2, <2>2 DEF IInv, Delivered
  <2> QED BY <1>5, <2>6, <2>7, <2>8, <2>9, <2>10 DEF IInv
<1> QED BY <1>8, <1>9

\* The halves of a frame go on the wire one after the other; the nonce is counted
\* up behind the second.
LEMMA WriteKeeps == IInv /\ (WriteHeader \/ WriteBody) => IInv'
<1> SUFFICES ASSUME IInv, WriteHeader \/ WriteBody
             PROVE  IInv'
  OBVIOUS
<1> USE DEF connVars, readVars, poolVars
<1>1. /\ phase = "up" /\ writer \in {"header", "body"}
      /\ writer' = IF writer = "header" THEN "body" ELSE "idle"
      /\ up' = Append(up, IF writer = "header" THEN frame[1] ELSE frame[2])
      /\ UNCHANGED <<phase, conn, nk, conf, pool, down, down_open, frame, sent, got, used>>
  BY DEF WriteHeader, WriteBody
<1>2. PICK m \in Nat, n \in Nat, L \in Nat :
        /\ m = Len(sent) /\ n = Len(got) /\ L = Len(up) /\ n <= m
        /\ Len(used.up) = m /\ m # 0
        /\ L + 1 = IF writer = "header" THEN 2 * (m - n) - 1 ELSE 2 * (m - n)
  <2>1. /\ Len(used.up) = Len(sent) /\ sent # <<>>
        /\ Len(up) = IF writer = "header" THEN 2 * (Len(sent) - Len(got)) - 2
                     ELSE 2 * (Len(sent) - Len(got)) - 1
    BY <1>1 DEF IInv, NonceChain, Frames
  <2> QED BY <2>1, Lengths
<1>3. /\ IsSeq(up') /\ Len(up') = L + 1
      /\ up'[L + 1] = IF writer = "header" THEN frame[1] ELSE frame[2]
      /\ \A i \in 1 .. L : up'[i] = up[i]
  <2>1. IsSeq(up)
    BY DEF IInv, Shape
  <2> QED BY <1>1, <1>2, <2>1, Appended
<1>4. /\ client' = [send_key |-> client'.send_key, recv_key |-> client'.recv_key,
                    send_nonce |-> client'.send_nonce, recv_nonce |-> client'.recv_nonce]
      /\ client'.send_key = client.send_key
      /\ client'.send_nonce = IF writer = "header" THEN client.send_nonce
                              ELSE IncrementNonce(client.send_nonce)
  <2>1. client = [send_key |-> client.send_key, recv_key |-> client.recv_key,
                  send_nonce |-> client.send_nonce, recv_nonce |-> client.recv_nonce]
    BY DEF IInv, Shape
  <2>2. \/ writer = "header" /\ client' = client
        \/ writer # "header" /\ client' = [client EXCEPT !.send_nonce = IncrementNonce(client.send_nonce)]
    BY DEF WriteHeader, WriteBody
  <2> QED BY <2>1, <2>2
<1>5. (\A k : KeyOf(k)' = KeyOf(k)) /\ First' = First /\ SessionBox' = SessionBox
  BY <1>1, SessionKept
<1>6. \A k : NonceOf(k)' = NonceOf(k)
  BY <1>1 DEF NonceOf
<1>7. Shape'
  BY <1>1, <1>3, <1>4 DEF IInv, Shape, HasNul
<1>8. PoolPhase' /\ OnWire' /\ Agreed'
  <2>1. PoolPhase /\ pool'.phase = "up" /\ pool'.reply = pool.reply
    BY <1>1 DEF IInv, PoolPhase
  <2> QED BY <1>1, <2>1, SettledKept
<1>9. NonceChain'
  <2>1. client.send_nonce = NonceOf(m) /\ sent # <<>>
    BY <1>1, <1>2 DEF IInv, NonceChain
  <2> QED BY <1>1, <1>2, <1>4, <1>5, <1>6, <2>1 DEF IInv, NonceChain
<1>10. InStep'
  BY <1>1, <1>4, <1>5, <1>6 DEF IInv, InStep
<1>11. \A x, k : IsHeader(x, k)' = IsHeader(x, k)
  BY <1>5 DEF IsHeader
<1>12. \A x, k : IsBody(x, k)' = IsBody(x, k)
  BY <1>1, <1>5, <1>6 DEF IsBody
<1>13. IsHeader(frame[1], m) /\ IsBody(frame[2], m)
  BY <1>1, <1>2 DEF IInv, Frames
<1>14. ASSUME NEW k \in 1 .. m - n
       PROVE  /\ 2 * k - 1 <= L + 1 => IsHeader(up'[2 * k - 1], n + k)
              /\ 2 * k <= L + 1 => IsBody(up'[2 * k], n + k)
  <2>1. /\ 2 * k - 1 <= L => IsHeader(up[2 * k - 1], n + k)
        /\ 2 * k <= L => IsBody(up[2 * k], n + k)
    BY <1>1, <1>2 DEF IInv, Frames
  <2>2. 2 * k - 1 <= L => IsHeader(up'[2 * k - 1], n + k)
    <3>1. 2 * k - 1 <= L => 2 * k - 1 \in 1 .. L
      BY <1>2
    <3> QED BY <1>3, <2>1, <3>1
  <2>3. 2 * k <= L => IsBody(up'[2 * k], n + k)
    <3>1. 2 * k <= L => 2 * k \in 1 .. L
      BY <1>2
    <3> QED BY <1>3, <2>1, <3>1
  <2>4. 2 * k - 1 = L + 1 => IsHeader(up'[2 * k - 1], n + k)
    <3>1. 2 * k - 1 = L + 1 => writer = "header" /\ n + k = m
      BY <1>2
    <3> QED BY <1>3, <1>13, <3>1
  <2>5. 2 * k = L + 1 => IsBody(up'[2 * k], n + k)
    <3>1. 2 * k = L + 1 => writer # "header" /\ n + k = m
      BY <1>2
    <3> QED BY <1>3, <1>13, <3>1
  <2> QED BY <1>2, <2>2, <2>3, <2>4, <2>5
<1>15. Frames'
  <2>1. L + 1 <= 2 * (m - n)
    BY <1>2
  <2> QED BY <1>1, <1>2, <1>3, <1>11, <1>12, <1>13, <1>14, <2>1 DEF Frames
<1>16. Delivered'
  BY <1>1 DEF IInv, Delivered
<1> QED BY <1>7, <1>8, <1>9, <1>10, <1>15, <1>16 DEF IInv

\* The pool reads the first frame on the wire, with the key and the nonce it was
\* written with: it is never one that it cannot read.
LEMMA PoolRecvKeeps == IInv /\ PoolRecv => IInv'
<1> SUFFICES ASSUME IInv, PoolRecv
             PROVE  IInv'
  OBVIOUS
<1> USE DEF connVars, sendVars, readVars
<1>1. /\ phase = "up" /\ pool.phase = "up" /\ Len(up) >= 2 /\ up' = SubSeq(up, 3, Len(up))
      /\ UNCHANGED <<phase, conn, nk, conf, client, down, down_open, writer, frame, sent, used>>
  BY DEF PoolRecv
<1>2. PICK m \in Nat, n \in Nat, L \in Nat :
        /\ m = Len(sent) /\ n = Len(got) /\ L = Len(up) /\ L <= 2 * (m - n) /\ m <= Len(used.up)
        /\ Len(used.up) \in Nat
  <2>1. Len(up) <= 2 * (Len(sent) - Len(got)) /\ Len(sent) <= Len(used.up)
    BY <1>1 DEF IInv, Frames, NonceChain
  <2> QED BY <2>1, Lengths
<1>3. n + 1 \in 1 .. m /\ 1 \in 1 .. m - n /\ L - 2 \in Nat
  BY <1>1, <1>2
<1>4. IsHeader(up[1], n + 1) /\ IsBody(up[2], n + 1)
  <2>1. /\ 2 * 1 - 1 <= L => IsHeader(up[2 * 1 - 1], n + 1)
        /\ 2 * 1 <= L => IsBody(up[2 * 1], n + 1)
    BY <1>1, <1>2, <1>3 DEF IInv, Frames
  <2> QED BY <1>1, <1>2, <2>1
<1>5. pool.end.recv_key = KeyOf(n + 1) /\ pool.end.recv_nonce = NonceOf(n + 1)
  <2>1. /\ pool.end.recv_key = KeyOf(n + 1)
        /\ pool.end.recv_nonce = IF n = 0 THEN First ELSE IncrementNonce(NonceOf(n))
    BY <1>1, <1>2, Lengths DEF IInv, InStep
  <2>2. CASE n = 0
    <3>1. NonceOf(1) = First
      BY <1>1, <1>2, <1>3 DEF IInv, NonceChain
    <3> QED BY <2>1, <2>2, <3>1
  <2>3. CASE n # 0
    <3>1. n \in 1 .. Len(used.up) - 1
      BY <1>2, <1>3, <2>3
    <3>2. NonceOf(n + 1) = IncrementNonce(NonceOf(n))
      BY <1>1, <3>1 DEF IInv, NonceChain
    <3> QED BY <2>1, <2>3, <3>2
  <2> QED BY <2>2, <2>3
<1>6. /\ Readable(pool.end.recv_key, up[1]) /\ BoxOpens(up[2], SessionBox, pool.end.recv_nonce)
      /\ up[2].plain = sent[n + 1]
  BY <1>4, <1>5 DEF Readable, BoxOpens, IsHeader, IsBody, BoxEasy
<1>7. /\ got' = Append(got, sent[n + 1])
      /\ pool' = [pool EXCEPT !.end.recv_key = Feedback(@), !.end.recv_nonce = IncrementNonce(@)]
  BY <1>6 DEF PoolRecv
<1>8. /\ pool'.phase = pool.phase /\ pool'.reply = pool.reply /\ pool'.pending = pool.pending
      /\ pool'.end.recv_key = Feedback(KeyOf(n + 1))
      /\ pool'.end.recv_nonce = IncrementNonce(NonceOf(n + 1))
      /\ pool' = [phase |-> pool'.phase, end |-> pool'.end, reply |-> pool'.reply,
                  pending |-> pool'.pending]
      /\ pool'.end = [send_key |-> pool'.end.send_key, recv_key |-> pool'.end.recv_key,
                      send_nonce |-> pool'.end.send_nonce, recv_nonce |-> pool'.end.recv_nonce]
  <2>1. /\ pool = [phase |-> pool.phase, end |-> pool.end, reply |-> pool.reply,
                   pending |-> pool.pending]
        /\ pool.end = [send_key |-> pool.end.send_key, recv_key |-> pool.end.recv_key,
                       send_nonce |-> pool.end.send_nonce, recv_nonce |-> pool.end.recv_nonce]
    BY DEF IInv, Shape
  <2> QED BY <1>5, <1>7, <2>1
<1>9. /\ IsSeq(got') /\ Len(got') = n + 1 /\ got' # <<>> /\ got'[n + 1] = sent[n + 1]
      /\ \A k \in 1 .. n : got'[k] = got[k]
  <2>1. IsSeq(got)
    BY DEF IInv, Shape
  <2> QED BY <1>2, <1>7, <2>1, Appended
<1>10. /\ IsSeq(up') /\ Len(up') = L - 2
       /\ \A i \in 1 .. L - 2 : up'[i] = up[2 + i]
  <2>1. IsSeq(up) /\ 2 \in 0 .. Len(up) /\ 3 = 2 + 1
    BY <1>1, <1>2 DEF IInv, Shape
  <2> QED BY <1>1, <1>2, <2>1, Dropped
<1>11. (\A k : KeyOf(k)' = KeyOf(k)) /\ First' = First /\ SessionBox' = SessionBox
  BY <1>1, SessionKept
<1>12. \A k : NonceOf(k)' = NonceOf(k)
  BY <1>1 DEF NonceOf
<1>13. Shape'
  BY <1>1, <1>8, <1>9, <1>10 DEF IInv, Shape, HasNul
<1>14. PoolPhase' /\ OnWire' /\ Agreed'
  <2>1. PoolPhase /\ pool'.phase = "up"
    BY <1>1, <1>8 DEF IInv
  <2> QED BY <1>1, <1>8, <2>1, SettledKept
<1>15. NonceChain'
  BY <1>1, <1>11, <1>12 DEF IInv, NonceChain
<1>16. InStep'
  <2>1. Feedback(KeyOf(n + 1)) = KeyOf(n + 2)
    <3>1. (n + 1) - 1 + 1 = (n + 2) - 1
      BY <1>2
    <3>2. Feedback(KeyOf(n + 1)) = [chain |-> "nk", seed |-> nk, n |-> (n + 1) - 1 + 1]
      BY DEF Feedback, KeyOf
    <3> QED BY <3>1, <3>2 DEF KeyOf
  <2>2. Len(got') + 1 = n + 2
    BY <1>2, <1>9
  <2> QED BY <1>1, <1>8, <1>9, <1>11, <1>12, <2>1, <2>2 DEF IInv, InStep
<1>17. Frames'
  <2>1. \A x, k : IsHeader(x, k)' = IsHeader(x, k)
    BY <1>11 DEF IsHeader
  <2>2. \A x, k : IsBody(x, k)' = IsBody(x, k)
    BY <1>1, <1>11, <1>12 DEF IsBody
  <2>3. ASSUME NEW k \in 1 .. m - (n + 1)
        PROVE  /\ 2 * k - 1 <= L - 2 => IsHeader(up'[2 * k - 1], (n + 1) + k)
               /\ 2 * k <= L - 2 => IsBody(up'[2 * k], (n + 1) + k)
    <3>1. PICK j \in 1 .. m - n :
            /\ j = k + 1 /\ n + j = (n + 1) + k
            /\ 2 * j - 1 = 2 + (2 * k - 1) /\ 2 * j = 2 + 2 * k
            /\ 2 * k - 1 \in Nat \ {0} /\ 2 * k \in Nat \ {0}
      BY <1>2, <1>3
    <3>2. /\ 2 * j - 1 <= L => IsHeader(up[2 * j - 1], n + j)
          /\ 2 * j <= L => IsBody(up[2 * j], n + j)
      BY <1>1, <1>2 DEF IInv, Frames
    <3>3. 2 * k - 1 <= L - 2 => up'[2 * k - 1] = up[2 * j - 1] /\ 2 * j - 1 <= L
      <4>1. 2 * k - 1 <= L - 2 => 2 * k - 1 \in 1 .. L - 2 /\ 2 * j - 1 <= L
        BY <1>2, <3>1
      <4>2. 2 * k - 1 <= L - 2 => up'[2 * k - 1] = up[2 + (2 * k - 1)]
        BY <1>10, <4>1
      <4> QED BY <3>1, <4>1, <4>2
    <3>4. 2 * k <= L - 2 => up'[2 * k] = up[2 * j] /\ 2 * j <= L
      <4>1. 2 * k <= L - 2 => 2 * k \in 1 .. L - 2 /\ 2 * j <= L
        BY <1>2, <3>1
      <4>2. 2 * k <= L - 2 => up'[2 * k] = up[2 + (2 * k)]
        BY <1>10, <4>1
      <4> QED BY <3>1, <4>1, <4>2
    <3> QED BY <3>1, <3>2, <3>3, <3>4
  <2>4. /\ writer = "idle" => L - 2 = 2 * (m - (n + 1))
        /\ writer = "header" => L - 2 = 2 * (m - (n + 1)) - 2
        /\ writer = "body" => L - 2 = 2 * (m - (n + 1)) - 1
        /\ L - 2 <= 2 * (m - (n + 1))
    <3>1. /\ writer = "idle" => L = 2 * (m - n)
          /\ writer = "header" => L = 2 * (m - n) - 2
          /\ writer = "body" => L = 2 * (m - n) - 1
      BY <1>1, <1>2 DEF IInv, Frames
    <3> QED BY <1>2, <3>1
  <2>5. writer \in {"header", "body"} => IsHeader(frame[1], m) /\ IsBody(frame[2], m)
    BY <1>1, <1>2 DEF IInv, Frames
  <2> QED BY <1>1, <1>2, <1>9, <1>10, <2>1, <2>2, <2>3, <2>4, <2>5 DEF Frames
<1>18. Delivered'
  <2>1. \A k \in 1 .. n : got[k] = sent[k]
    BY <1>2 DEF IInv, Delivered
  <2>2. \A k \in 1 .. n + 1 : got'[k] = sent[k]
    BY <1>2, <1>9, <2>1
  <2>3. n + 1 <= m
    BY <1>3
  <2> QED BY <1>1, <1>2, <1>9, <2>2, <2>3 DEF Delivered
<1> QED BY <1>13, <1>14, <1>15, <1>16, <1>17, <1>18 DEF IInv

-----------------------------------------------------------------------------
(* The theorem. *)

LEMMA StepKeeps == IInv /\ [Next]_vars => IInv'
<1> SUFFICES ASSUME IInv, [Next]_vars
             PROVE  IInv'
  OBVIOUS
<1>1. CASE Dial
  BY <1>1, DialKeeps
<1>2. CASE ClientConnect
  <2>1. CASE SendHello
    BY <2>1, HelloKeeps
  <2>2. CASE ConnectTimeout \/ RecvResponseEof
    BY <2>2, FailKeeps DEF ConnectTimeout, RecvResponseEof
  <2>3. CASE RecvResponseHeader
    BY <2>3, ResponseHeaderKeeps
  <2>4. CASE RecvResponseBody
    BY <2>4, ResponseBodyKeeps
  <2> QED BY <1>2, <2>1, <2>2, <2>3, <2>4 DEF ClientConnect
<1>3. CASE Retry
  BY <1>3, RetryKeeps
<1>4. CASE \E kind \in ReplyKinds : PoolAnswer(kind)
  BY <1>4, AnswerKeeps
<1>5. CASE PoolAnswerBody
  BY <1>5, AnswerBodyKeeps
<1>6. CASE PoolRecv
  BY <1>6, PoolRecvKeeps
<1>7. CASE PoolClose \/ ReadHeader \/ ReadBody \/ ReadEof
  BY <1>7, ReadKeeps
<1>8. CASE \E f \in PoolFrames : PoolSend(f)
  BY <1>8, PoolSendKeeps
<1>9. CASE \E c \in Commands : BeginSend(c)
  BY <1>9, BeginSendKeeps
<1>10. CASE WriteHeader \/ WriteBody
  BY <1>10, WriteKeeps
<1>11. CASE WriteFail
  BY <1>11, WriteFailKeeps
<1>12. CASE Teardown
  BY <1>12, FailKeeps DEF Teardown
<1>13. CASE UNCHANGED vars
  <2> USE <1>13 DEF vars, connVars, sendVars, readVars, poolVars
  <2>1. Shape'
    BY DEF IInv, Shape, HasNul
  <2>2. Answer' = Answer /\ AnswerHeader' = AnswerHeader /\ Hello' = Hello
    BY AnswerKept, HelloKept
  <2>3. PoolPhase' /\ OnWire' /\ Agreed'
    BY <2>2 DEF IInv, PoolPhase, OnWire, Agreed, ForSender, DeriveSessionNonces
  <2>4. NonceChain' /\ InStep' /\ Frames' /\ Delivered'
    BY PathKept DEF IInv
  <2> QED BY <2>1, <2>3, <2>4 DEF IInv
<1> QED BY <1>1, <1>2, <1>3, <1>4, <1>5, <1>6, <1>7, <1>8, <1>9, <1>10, <1>11, <1>12, <1>13
        DEF Next

LEMMA InvUpInOrder == IInv => UpInOrder
<1> SUFFICES ASSUME IInv
             PROVE  UpInOrder
  OBVIOUS
<1>1. phase = "up" => pool.phase # "off" /\ pool.reply = "pong"
  BY DEF IInv, PoolPhase
<1>2. pool.phase # "garbled"
  BY DEF IInv, PoolPhase
<1>3. PICK m \in Nat, n \in Nat : m = Len(sent) /\ n = Len(got) /\ n <= m
  BY Lengths
<1>4. got = SubSeq(sent, 1, n)
  <2>1. \A k \in 1 .. n : got[k] = sent[k]
    BY <1>3 DEF IInv, Delivered
  <2>2. IsSeq(got) /\ IsSeq(sent)
    BY DEF IInv, Shape
  <2>3. got = [k \in 1 .. n |-> got[k]]
    BY <1>3, <2>2 DEF IsSeq
  <2>4. sent \in Seq({sent[i] : i \in 1 .. Len(sent)})
    BY <2>2, SeqOf
  <2>5. SubSeq(sent, 1, n) = [k \in 1 .. n |-> sent[k]]
    BY <1>3, <2>4
  <2> QED BY <2>1, <2>3, <2>5
<1> QED BY <1>1, <1>2, <1>3, <1>4 DEF UpInOrder

\* connect returns only with a pool that opened this attempt's hello and echoed
\* its keys, and the pool decrypts exactly the bodies given to send_frame, in
\* order: a torn frame, a refused one or a lost connection never puts the two
\* chains or the two counters out of step.
THEOREM PoolReadsWhatIsSent == Spec => []UpInOrder
<1>1. Init => IInv
  BY InitOk
<1>2. IInv /\ [Next]_vars => IInv'
  BY StepKeeps
<1>3. IInv => UpInOrder
  BY InvUpInOrder
<1> QED BY <1>1, <1>2, <1>3, PTL DEF Spec

-----------------------------------------------------------------------------
(* The other direction.  What the pool writes is one stream of items: the      *)
(* answer, then two items for each frame.                                  *)

\* The histories are sequences, and the events are those of the first frames.
Handed ==
  /\ reader \in {"header", "body", "ended"}
  /\ IsSeq(events) /\ IsSeq(pool_sent)
  /\ \A k \in 1 .. Len(pool_sent) : pool_sent[k] \in PoolFrames
  /\ Len(events) <= Len(pool_sent)
  /\ \A k \in 1 .. Len(events) :
       events[k] = IF pool_sent[k].cut = 0 THEN pool_sent[k].msg ELSE Unknown

\* Frames come after the answer, and are read after it.
AnswerFirst ==
  /\ phase \in {"dial", "await", "await_body"} => events = <<>> /\ reader = "header"
  /\ phase \in {"dial", "await"} /\ pool.phase # "up" => pool_sent = <<>>
  /\ phase \in {"await", "await_body"} /\ pool.pending # <<>> => pool_sent = <<>>
  /\ phase = "up" \/ reader = "ended" => pool.pending = <<>>

\* Why the receive loop ended.
WhyEnded ==
  reader = "ended" =>
    \/ down = <<>> /\ ~down_open
    \/ Len(events) < Len(pool_sent) /\ pool_sent[Len(events) + 1].cut > 0

\* The header key of the k-th frame; the answer had the one before the first.
DownKey(k) == [chain |-> "not_nk", seed |-> nk, n |-> k]

\* What the pool makes of a frame under a nonce.
FrameBody(f, nonce) ==
  IF f.channel THEN BoxEasy(SessionBox, nonce, FrameBytes(f)) ELSE Plain(FrameBytes(f))
FrameHeader(f) ==
  Pack(Header(Len(FrameBytes(f)) + (IF f.channel THEN 16 ELSE 0), f.signed, FALSE, f.channel, f.cmd))

\* The items the client has read, and whether x and y are the header and the
\* body of the k-th frame.
Consumed ==
  CASE phase = "await" -> 0 [] phase = "await_body" -> 1
    [] OTHER -> 2 + 2 * Len(events) + (IF reader = "body" THEN 1 ELSE 0)
IsDownHeader(x, k)  == x = Obfuscate(DownKey(k), FrameHeader(pool_sent[k]))
IsDownBody(y, k, X) == y = FrameBody(pool_sent[k], X[k])

\* X lists the pool's nonce before each frame and after the last one: it moves on
\* only with frames encrypted for the channel.
Nonces(X) ==
  /\ IsSeq(X) /\ Len(X) = Len(pool_sent) + 1
  /\ X[1] = DeriveSessionNonces(nk).recv
  /\ \A k \in 1 .. Len(pool_sent) :
       X[k + 1] = IF pool_sent[k].channel THEN IncrementNonce(X[k]) ELSE X[k]

\* Pool and client are at their places of the two chains.
DownStep(X) ==
  /\ pool.end.send_key = DownKey(Len(pool_sent) + 1)
  /\ pool.end.send_nonce = X[Len(pool_sent) + 1]
  /\ phase = "await_body" => client.recv_key = DownKey(1)
  /\ phase = "up" =>
       /\ client.recv_key = DownKey(Len(events) + (IF reader = "body" THEN 2 ELSE 1))
       /\ client.recv_nonce = X[Len(events) + 1]
       /\ reader = "body" =>
            Len(events) < Len(pool_sent) /\ header = Unpack(FrameHeader(pool_sent[Len(events) + 1]))

\* The wire is the stream behind what the client has read.
DownWire(X) ==
  /\ Consumed + Len(down) + Len(pool.pending) = 2 + 2 * Len(pool_sent)
  /\ \A k \in 1 .. Len(pool_sent) :
       /\ 2 * k + 1 - Consumed \in 1 .. Len(down) => IsDownHeader(down[2 * k + 1 - Consumed], k)
       /\ 2 * k + 2 - Consumed \in 1 .. Len(down) => IsDownBody(down[2 * k + 2 - Consumed], k, X)

Listening == phase \in {"await", "await_body", "up"} /\ pool.phase = "up" /\ reader # "ended"
DownPath  == Listening => \E X : Nonces(X) /\ DownStep(X) /\ DownWire(X)

DownInv == Handed /\ AnswerFirst /\ WhyEnded /\ DownPath

-----------------------------------------------------------------------------
(* What a step leaves alone. *)

LEMMA FrameKept ==
  ASSUME UNCHANGED <<conn, nk>>
  PROVE  /\ \A k : DownKey(k)' = DownKey(k)
         /\ \A f, n : FrameBody(f, n)' = FrameBody(f, n)
         /\ \A f : FrameHeader(f)' = FrameHeader(f)
         /\ DeriveSessionNonces(nk)' = DeriveSessionNonces(nk)
<1>1. SessionBox' = SessionBox
  BY DEF SessionBox, SessionKey, PoolSession
<1>2. \A f, n : FrameBody(f, n)' = FrameBody(f, n)
  BY <1>1 DEF FrameBody
<1>3. \A f : FrameHeader(f)' = FrameHeader(f)
  BY DEF FrameHeader
<1>4. \A k : DownKey(k)' = DownKey(k)
  BY DEF DownKey
<1>5. DeriveSessionNonces(nk)' = DeriveSessionNonces(nk)
  BY DEF DeriveSessionNonces
<1> QED BY <1>2, <1>3, <1>4, <1>5

\* The frames sent before stay what they are.
LEMMA ItemsKept ==
  ASSUME UNCHANGED <<conn, nk>>, NEW k, pool_sent'[k] = pool_sent[k]
  PROVE  /\ \A x : IsDownHeader(x, k)' = IsDownHeader(x, k)
         /\ \A y, X : IsDownBody(y, k, X)' = IsDownBody(y, k, X)
<1>1. \A x : IsDownHeader(x, k)' = IsDownHeader(x, k)
  BY FrameKept DEF IsDownHeader
<1>2. \A y, X : IsDownBody(y, k, X)' = IsDownBody(y, k, X)
  BY FrameKept DEF IsDownBody
<1> QED BY <1>1, <1>2

LEMMA NoncesKept ==
  ASSUME NEW X, Nonces(X), UNCHANGED <<conn, nk, pool_sent>>
  PROVE  Nonces(X)'
BY FrameKept DEF Nonces

LEMMA HandedKept ==
  ASSUME Handed, UNCHANGED <<events, pool_sent>>, reader' \in {"header", "body", "ended"}
  PROVE  Handed'
BY DEF Handed

\* A step of the other direction.
LEMMA DownKept ==
  ASSUME DownInv,
         UNCHANGED <<conn, nk, phase, reader, header, events, pool_sent, down>>, ~down_open => ~down_open',
         client'.recv_key = client.recv_key, client'.recv_nonce = client.recv_nonce,
         pool'.phase = pool.phase, pool'.pending = pool.pending,
         pool'.end.send_key = pool.end.send_key, pool'.end.send_nonce = pool.end.send_nonce
  PROVE  DownInv'
<1>1. Handed'
  BY HandedKept DEF DownInv, Handed
<1>2. AnswerFirst' /\ WhyEnded'
  BY DEF DownInv, AnswerFirst, WhyEnded
<1>3. DownPath'
  <2> SUFFICES ASSUME Listening'
               PROVE  \E X : Nonces(X)' /\ DownStep(X)' /\ DownWire(X)'
    BY DEF DownPath
  <2>1. PICK X : Nonces(X) /\ DownStep(X) /\ DownWire(X)
    BY DEF DownInv, DownPath, Listening
  <2>2. Nonces(X)'
    BY <2>1, NoncesKept
  <2>3. DownStep(X)'
    BY <2>1, FrameKept DEF DownStep
  <2>4. Consumed' = Consumed
    BY DEF Consumed
  <2>5. DownWire(X)'
    BY <2>1, <2>4, ItemsKept DEF DownWire
  <2> QED BY <2>2, <2>3, <2>5
<1> QED BY <1>1, <1>2, <1>3 DEF DownInv

\* The end of an attempt, or of a session.
LEMMA DownVoid ==
  ASSUME DownInv, phase' \in {"failed", "idle"}, pool' = pool,
         UNCHANGED <<reader, events, pool_sent, down>>, ~down_open'
  PROVE  DownInv'
<1>1. Handed'
  BY HandedKept DEF DownInv, Handed
<1>2. AnswerFirst'
  BY DEF DownInv, AnswerFirst
<1>3. WhyEnded'
  BY DEF DownInv, WhyEnded
<1>4. DownPath'
  BY DEF DownPath, Listening
<1> QED BY <1>1, <1>2, <1>3, <1>4 DEF DownInv

\* Reading the item at the head of the wire.
LEMMA Taken ==
  ASSUME NEW X, DownWire(X), IsSeq(down), down # <<>>, down' = Tail(down),
         UNCHANGED <<conn, nk, pool_sent>>, pool'.pending = pool.pending,
         Consumed \in Nat, Consumed' = Consumed + 1, IsSeq(pool_sent), IsSeq(pool.pending)
  PROVE  DownWire(X)'
<1>1. PICK c \in Nat, L \in Nat, p \in Nat, q \in Nat :
        c = Consumed /\ L = Len(down) /\ p = Len(pool.pending) /\ q = Len(pool_sent)
  BY DEF IsSeq
<1>2. Len(down') = L - 1 /\ \A i \in 1 .. L - 1 : down'[i] = down[i + 1]
  BY <1>1, TailOf
<1>3. L # 0
  BY <1>1, LenZero
<1>4. c + L + p = 2 + 2 * q
  BY <1>1 DEF DownWire
<1>5. Consumed' = c + 1
  BY <1>1
<1>6. ASSUME NEW k \in 1 .. q
      PROVE  /\ 2 * k + 1 - (c + 1) \in 1 .. L - 1 => IsDownHeader(down'[2 * k + 1 - (c + 1)], k)
             /\ 2 * k + 2 - (c + 1) \in 1 .. L - 1 => IsDownBody(down'[2 * k + 2 - (c + 1)], k, X)
  <2>1. /\ 2 * k + 1 - c \in 1 .. L => IsDownHeader(down[2 * k + 1 - c], k)
        /\ 2 * k + 2 - c \in 1 .. L => IsDownBody(down[2 * k + 2 - c], k, X)
    BY <1>1 DEF DownWire
  <2>2. ASSUME NEW i \in 1 .. L - 1, i = 2 * k + 1 - (c + 1)
        PROVE  IsDownHeader(down'[i], k)
    <3>1. i + 1 = 2 * k + 1 - c /\ i + 1 \in 1 .. L
      BY <1>1, <2>2
    <3>2. down'[i] = down[i + 1]
      BY <1>2
    <3> QED BY <2>1, <3>1, <3>2
  <2>3. ASSUME NEW i \in 1 .. L - 1, i = 2 * k + 2 - (c + 1)
        PROVE  IsDownBody(down'[i], k, X)
    <3>1. i + 1 = 2 * k + 2 - c /\ i + 1 \in 1 .. L
      BY <1>1, <2>3
    <3>2. down'[i] = down[i + 1]
      BY <1>2
    <3> QED BY <2>1, <3>1, <3>2
  <2> QED BY <2>2, <2>3
<1>7. (c + 1) + (L - 1) + p = 2 + 2 * q
  BY <1>4
<1>8. ASSUME NEW k \in 1 .. q
      PROVE  /\ \A x : IsDownHeader(x, k)' = IsDownHeader(x, k)
             /\ \A y : IsDownBody(y, k, X)' = IsDownBody(y, k, X)
  BY ItemsKept
<1>9. Len(pool_sent') = q /\ Len(pool'.pending) = p /\ Len(down') = L - 1
  BY <1>1, <1>2
<1>10. ASSUME NEW k \in 1 .. q
       PROVE  /\ 2 * k + 1 - (c + 1) \in 1 .. L - 1 => IsDownHeader(down[2 * k + 1 - (c + 1)], k)'
              /\ 2 * k + 2 - (c + 1) \in 1 .. L - 1 => IsDownBody(down[2 * k + 2 - (c + 1)], k, X)'
  BY <1>6, <1>8
<1> QED BY <1>5, <1>7, <1>9, <1>10 DEF DownWire

-----------------------------------------------------------------------------
(* The steps up to the session. *)

LEMMA DownInit == Init => DownInv
<1> SUFFICES ASSUME Init
             PROVE  DownInv
  OBVIOUS
<1> USE DEF Init, PoolIdle
<1>1. Handed
  BY EmptyIs DEF Handed
<1>2. AnswerFirst /\ WhyEnded /\ DownPath
  BY DEF AnswerFirst, WhyEnded, DownPath, Listening
<1> QED BY <1>1, <1>2 DEF DownInv

LEMMA DownDial == Dial => DownInv'
<1> SUFFICES ASSUME Dial
             PROVE  DownInv'
  OBVIOUS
<1> USE DEF Dial, PoolIdle
<1>1. Handed'
  BY EmptyIs DEF Handed
<1>2. AnswerFirst' /\ WhyEnded' /\ DownPath'
  BY DEF AnswerFirst, WhyEnded, DownPath, Listening
<1> QED BY <1>1, <1>2 DEF DownInv

LEMMA DownHello == IInv /\ DownInv /\ SendHello => DownInv'
<1> SUFFICES ASSUME IInv, DownInv, SendHello
             PROVE  DownInv'
  OBVIOUS
<1> USE DEF SendHello, readVars
<1>1. Handed'
  BY HandedKept DEF DownInv, Handed
<1>2. pool'.phase = "hello" /\ pool'.pending = pool.pending /\ pool.phase = "off"
  BY DEF IInv, Shape, PoolPhase
<1>3. AnswerFirst' /\ WhyEnded' /\ DownPath'
  BY <1>2 DEF DownInv, AnswerFirst, WhyEnded, DownPath, Listening
<1> QED BY <1>1, <1>3 DEF DownInv

LEMMA DownAnswer ==
  ASSUME IInv, DownInv, NEW kind, PoolAnswer(kind)
  PROVE  DownInv'
<1> USE DEF connVars, sendVars, readVars
<1>1. /\ pool.phase = "hello" /\ Len(up) = 2 /\ down_open
      /\ UNCHANGED <<phase, conn, nk, client, reader, header, events, pool_sent>>
  BY DEF PoolAnswer
<1>2. phase = "await"
  BY <1>1 DEF IInv, PoolPhase
<1>3. events = <<>> /\ reader = "header" /\ pool_sent = <<>>
  BY <1>1, <1>2 DEF DownInv, AnswerFirst
<1>4. Handed'
  BY <1>1, HandedKept DEF DownInv, Handed
<1>5. AnswerFirst' /\ WhyEnded'
  BY <1>1, <1>2, <1>3 DEF AnswerFirst, WhyEnded
<1>6. DownPath'
  <2> SUFFICES ASSUME Listening'
               PROVE  \E X : Nonces(X)' /\ DownStep(X)' /\ DownWire(X)'
    BY DEF DownPath
  <2> DEFINE k == FindNk(up[2].plain)
  <2>1. PICK raw, body : down' = << Obfuscate(ForReceiver(k), raw) >>
           /\ pool' = [phase |-> "up", reply |-> kind, pending |-> << body >>,
                       end |-> [send_key |-> Feedback(ForReceiver(k)), recv_key |-> ForSender(k),
                                send_nonce |-> DeriveSessionNonces(k).recv,
                                recv_nonce |-> DeriveSessionNonces(k).send]]
    <3>1. pool' # pool
      BY <1>1 DEF Listening
    <3> QED BY <3>1 DEF PoolAnswer
  <2>2. k = nk
    <3>1. up[2] = Hello
      <4>1. up # <<>>
        BY <1>1, EmptyIs
      <4> QED BY <1>1, <1>2, <4>1 DEF IInv, OnWire
    <3>2. up[2].plain = HelloPayload
      BY <3>1 DEF Hello, BoxSeal
    <3>3. conf \in Confs /\ ~HasNul(conf.version)
      BY <1>2 DEF IInv, Shape
    <3>4. PICK v \in Seq(Byte) : v = conf.version
      BY <3>3, ConfsAssumption
    <3> QED BY <3>2, <3>3, <3>4, HelloIs
  <2> HIDE DEF k
  <2>3. PICK X : IsSeq(X) /\ Len(X) = 1 /\ X[1] = DeriveSessionNonces(nk).recv
    <3>1. PICK Y : Y = << DeriveSessionNonces(nk).recv >>
      OBVIOUS
    <3> QED BY <3>1 DEF IsSeq
  <2>4. Len(pool_sent') = 0 /\ Len(down') = 1 /\ Len(pool'.pending) = 1
    BY <1>1, <1>3, <2>1, EmptyIs
  <2>5. Nonces(X)'
    <3>1. DeriveSessionNonces(nk)' = DeriveSessionNonces(nk)
      BY <1>1, FrameKept
    <3> QED BY <2>3, <2>4, <3>1 DEF Nonces
  <2>6. DownStep(X)'
    <3>1. pool'.end.send_key = Feedback(ForReceiver(nk)) /\ pool'.end.send_nonce = X[1]
      BY <2>1, <2>2, <2>3
    <3>2. Feedback(ForReceiver(nk)) = DownKey(1) /\ DownKey(1)' = DownKey(1)
      BY <1>1 DEF Feedback, ForReceiver, DownKey
    <3>3. Len(pool_sent') + 1 = 1
      BY <2>4
    <3>4. phase' = "await"
      BY <1>1, <1>2
    <3> QED BY <3>1, <3>2, <3>3, <3>4 DEF DownStep
  <2>7. DownWire(X)'
    <3>1. Consumed' = 0
      BY <1>1, <1>2 DEF Consumed
    <3> QED BY <2>4, <3>1 DEF DownWire
  <2> QED BY <2>5, <2>6, <2>7
<1> QED BY <1>4, <1>5, <1>6 DEF DownInv

LEMMA DownAnswerBody == IInv /\ DownInv /\ PoolAnswerBody => DownInv'
<1> SUFFICES ASSUME IInv, DownInv, PoolAnswerBody
             PROVE  DownInv'
  OBVIOUS
<1> USE DEF connVars, sendVars, readVars
<1>1. /\ pool.pending # <<>> /\ down' = down \o pool.pending
      /\ UNCHANGED <<phase, conn, nk, client, reader, header, events, pool_sent, down_open>>
  BY DEF PoolAnswerBody
<1>2. /\ pool'.phase = pool.phase /\ pool'.end = pool.end /\ pool'.pending = <<>>
  BY DEF PoolAnswerBody, IInv, Shape
<1>3. reader # "ended" /\ phase # "up"
  BY <1>1 DEF DownInv, AnswerFirst
<1>4. Handed'
  BY <1>1, HandedKept DEF DownInv, Handed
<1>5. AnswerFirst' /\ WhyEnded'
  BY <1>1, <1>2, <1>3 DEF DownInv, AnswerFirst, WhyEnded
<1>6. DownPath'
  <2> SUFFICES ASSUME Listening'
               PROVE  \E X : Nonces(X)' /\ DownStep(X)' /\ DownWire(X)'
    BY DEF DownPath
  <2>1. Listening /\ phase \in {"await", "await_body"}
    BY <1>1, <1>2, <1>3 DEF Listening
  <2>2. PICK X : Nonces(X) /\ DownStep(X) /\ DownWire(X)
    BY <2>1 DEF DownInv, DownPath
  <2>3. Nonces(X)'
    BY <1>1, <2>2, NoncesKept
  <2>4. DownStep(X)'
    BY <1>1, <1>2, <2>2, FrameKept DEF DownStep
  <2>5. Len(pool_sent) = 0 /\ pool_sent' = pool_sent
    BY <1>1, <2>1, EmptyIs DEF DownInv, AnswerFirst
  <2>6. IsSeq(down) /\ IsSeq(pool.pending)
    BY DEF IInv, Shape
  <2>7. Len(down') = Len(down) + Len(pool.pending)
    BY <1>1, <2>6, Concatenated
  <2>8. Consumed' = Consumed /\ Consumed \in Nat
    BY <1>1, <2>1 DEF Consumed
  <2>9. Len(down) \in Nat /\ Len(pool.pending) \in Nat /\ Len(pool'.pending) = 0
    BY <1>2, <2>6, EmptyIs DEF IsSeq
  <2>10. Consumed + Len(down) + Len(pool.pending) = 2 + 2 * Len(pool_sent)
    BY <2>2 DEF DownWire
  <2>11. Consumed' + Len(down') + Len(pool'.pending) = 2 + 2 * Len(pool_sent')
    <3>1. PICK c \in Nat, a \in Nat, b \in Nat :
            c = Consumed /\ a = Len(down) /\ b = Len(pool.pending)
      BY <2>8, <2>9
    <3>2. c + a + b = 2 + 2 * 0
      BY <2>5, <2>10, <3>1
    <3>3. c + (a + b) + 0 = 2 + 2 * 0
      BY <3>2
    <3> QED BY <2>5, <2>7, <2>8, <2>9, <3>1, <3>3
  <2>12. DownWire(X)'
    BY <2>5, <2>11 DEF DownWire
  <2> QED BY <2>3, <2>4, <2>12
<1> QED BY <1>4, <1>5, <1>6 DEF DownInv

LEMMA DownResponseHeader == IInv /\ DownInv /\ RecvResponseHeader => DownInv'
<1> SUFFICES ASSUME IInv, DownInv, RecvResponseHeader
             PROVE  DownInv'
  OBVIOUS
<1> USE DEF sendVars
<1>1. /\ phase = "await" /\ down # <<>> /\ down' = Tail(down) /\ phase' \in {"await_body", "failed"}
      /\ UNCHANGED <<conn, nk, conf, pool, reader, events, pool_sent>>
  BY DEF RecvResponseHeader
<1>2. events = <<>> /\ reader = "header"
  BY <1>1 DEF DownInv, AnswerFirst
<1>3. pool.phase = "up"
  BY <1>1, EmptyIs DEF IInv, PoolPhase, OnWire
<1>4. Handed'
  BY <1>1, HandedKept DEF DownInv, Handed
<1>5. AnswerFirst' /\ WhyEnded'
  BY <1>1, <1>2 DEF DownInv, AnswerFirst, WhyEnded
<1>6. DownPath'
  <2> SUFFICES ASSUME Listening'
               PROVE  \E X : Nonces(X)' /\ DownStep(X)' /\ DownWire(X)'
    BY DEF DownPath
  <2>1. phase' = "await_body"
    BY <1>1 DEF Listening
  <2>2. PICK X : Nonces(X) /\ DownStep(X) /\ DownWire(X)
    BY <1>1, <1>2, <1>3 DEF DownInv, DownPath, Listening
  <2>3. Nonces(X)'
    BY <1>1, <2>2, NoncesKept
  <2>4. client'.recv_key = DownKey(1)
    BY DEF RecvResponseHeader, IInv, Shape, DownKey, Feedback, ForReceiver
  <2>5. DownStep(X)'
    BY <1>1, <2>1, <2>2, <2>4, FrameKept DEF DownStep
  <2>6. IsSeq(down) /\ IsSeq(pool_sent) /\ IsSeq(pool.pending)
    BY DEF IInv, Shape, DownInv, Handed
  <2>7. Consumed = 0 /\ Consumed' = 1
    BY <1>1, <2>1 DEF Consumed
  <2>8. DownWire(X)'
    <3>1. Consumed \in Nat /\ Consumed' = Consumed + 1
      BY <2>7
    <3> QED BY <1>1, <2>2, <2>6, <3>1, Taken
  <2> QED BY <2>3, <2>5, <2>8
<1> QED BY <1>4, <1>5, <1>6 DEF DownInv

LEMMA DownResponseBody == IInv /\ DownInv /\ RecvResponseBody => DownInv'
<1> SUFFICES ASSUME IInv, DownInv, RecvResponseBody
             PROVE  DownInv'
  OBVIOUS
<1> USE DEF sendVars, readVars
<1>1. /\ phase = "await_body" /\ down # <<>> /\ down' = Tail(down) /\ phase' \in {"up", "failed"}
      /\ UNCHANGED <<conn, nk, conf, pool, reader, header, events, pool_sent>>
      /\ phase' = "up" => client' = Connected
  BY DEF RecvResponseBody
<1>2. events = <<>> /\ reader = "header"
  BY <1>1 DEF DownInv, AnswerFirst
<1>3. pool.phase = "up" /\ pool.pending = <<>>
  BY <1>1 DEF IInv, PoolPhase, OnWire
<1>4. Handed'
  BY <1>1, HandedKept DEF DownInv, Handed
<1>5. AnswerFirst' /\ WhyEnded'
  BY <1>1, <1>2, <1>3 DEF DownInv, AnswerFirst, WhyEnded
<1>6. DownPath'
  <2> SUFFICES ASSUME Listening'
               PROVE  \E X : Nonces(X)' /\ DownStep(X)' /\ DownWire(X)'
    BY DEF DownPath
  <2>1. phase' = "up"
    BY <1>1 DEF Listening
  <2>2. PICK X : Nonces(X) /\ DownStep(X) /\ DownWire(X)
    BY <1>1, <1>2, <1>3 DEF DownInv, DownPath, Listening
  <2>3. Nonces(X)'
    BY <1>1, <2>2, NoncesKept
  <2>4. client'.recv_key = DownKey(1) /\ client'.recv_nonce = X[1]
    BY <1>1, <2>1, <2>2 DEF Connected, DownStep, Nonces
  <2>5. DownStep(X)'
    <3>1. Len(events') = 0
      BY <1>1, <1>2, EmptyIs
    <3>2. reader' = "header" /\ phase' = "up" /\ Len(events') + 1 = 1
      BY <1>1, <1>2, <2>1, <3>1
    <3>3. /\ \A k : DownKey(k)' = DownKey(k)
          /\ pool' = pool /\ pool_sent' = pool_sent
      BY <1>1, FrameKept
    <3>4. /\ pool.end.send_key = DownKey(Len(pool_sent) + 1)
          /\ pool.end.send_nonce = X[Len(pool_sent) + 1]
      BY <2>2 DEF DownStep
    <3> QED BY <2>4, <3>2, <3>3, <3>4 DEF DownStep
  <2>6. IsSeq(down) /\ IsSeq(pool_sent) /\ IsSeq(pool.pending)
    BY DEF IInv, Shape, DownInv, Handed
  <2>7. Consumed = 1 /\ Consumed' = 2
    BY <1>1, <1>2, <2>1, EmptyIs DEF Consumed
  <2>8. DownWire(X)'
    <3>1. Consumed \in Nat /\ Consumed' = Consumed + 1
      BY <2>7
    <3> QED BY <1>1, <2>2, <2>6, <3>1, Taken
  <2> QED BY <2>3, <2>5, <2>8
<1> QED BY <1>4, <1>5, <1>6 DEF DownInv

-----------------------------------------------------------------------------
(* The steps of the session. *)

\* Appending f to the frames sent leaves the earlier ones where they are.
LEMMA Sending ==
  ASSUME Handed, NEW f \in PoolFrames, pool_sent' = Append(pool_sent, f),
         UNCHANGED <<reader, events>>
  PROVE  /\ Handed' /\ Len(pool_sent') = Len(pool_sent) + 1
         /\ pool_sent'[Len(pool_sent) + 1] = f
         /\ \A k \in 1 .. Len(pool_sent) : pool_sent'[k] = pool_sent[k]
<1>1. PICK q \in Nat, e \in Nat : q = Len(pool_sent) /\ e = Len(events) /\ e <= q
  BY DEF Handed, IsSeq
<1>2. /\ IsSeq(pool_sent') /\ Len(pool_sent') = q + 1 /\ pool_sent'[q + 1] = f
      /\ \A k \in 1 .. q : pool_sent'[k] = pool_sent[k]
  BY <1>1, Appended DEF Handed
<1>3. \A k \in 1 .. q + 1 : pool_sent'[k] \in PoolFrames
  BY <1>1, <1>2 DEF Handed
<1>4. \A k \in 1 .. e : events[k] = IF pool_sent'[k].cut = 0 THEN pool_sent'[k].msg ELSE Unknown
  BY <1>1, <1>2 DEF Handed
<1>5. Handed'
  BY <1>1, <1>2, <1>3, <1>4 DEF Handed
<1> QED BY <1>1, <1>2, <1>5

LEMMA DownSend ==
  ASSUME IInv, DownInv, NEW f \in PoolFrames, PoolSend(f)
  PROVE  DownInv'
<1> USE DEF connVars, sendVars, readVars
<1>1. /\ pool.phase = "up" /\ pool.pending = <<>> /\ down_open
      /\ UNCHANGED <<conn, nk, phase, client, reader, header, events, down_open>>
      /\ pool_sent' = Append(pool_sent, f)
  BY DEF PoolSend
<1>2. f.channel \in BOOLEAN
  BY FramesAssumption
<1>3. /\ Handed' /\ Len(pool_sent') = Len(pool_sent) + 1
      /\ pool_sent'[Len(pool_sent) + 1] = f
      /\ \A k \in 1 .. Len(pool_sent) : pool_sent'[k] = pool_sent[k]
  BY <1>1, Sending DEF DownInv
<1>4. PICK q \in Nat, e \in Nat, L \in Nat :
        q = Len(pool_sent) /\ e = Len(events) /\ L = Len(down) /\ e <= q
  BY DEF DownInv, Handed, IInv, Shape, IsSeq
<1>5. /\ pool'.phase = "up" /\ pool'.pending = <<>>
      /\ pool'.end.send_key = Feedback(pool.end.send_key)
      /\ pool'.end.send_nonce = IF f.channel THEN IncrementNonce(pool.end.send_nonce)
                                ELSE pool.end.send_nonce
  <2>1. /\ pool = [phase |-> pool.phase, end |-> pool.end, reply |-> pool.reply,
                   pending |-> pool.pending]
        /\ pool.end = [send_key |-> pool.end.send_key, recv_key |-> pool.end.recv_key,
                       send_nonce |-> pool.end.send_nonce, recv_nonce |-> pool.end.recv_nonce]
    BY DEF IInv, Shape
  <2>2. pool' = [pool EXCEPT !.end.send_key = Feedback(pool.end.send_key),
                             !.end.send_nonce = IF f.channel THEN IncrementNonce(pool.end.send_nonce)
                                                ELSE pool.end.send_nonce]
    BY DEF PoolSend
  <2> QED BY <1>1, <2>1, <2>2
<1>6. AnswerFirst'
  BY <1>1, <1>5 DEF DownInv, AnswerFirst
<1>7. WhyEnded'
  <2> SUFFICES ASSUME reader = "ended"
               PROVE  e < q + 1 /\ pool_sent'[e + 1].cut > 0
    BY <1>1, <1>3, <1>4 DEF WhyEnded
  <2>1. e < q /\ pool_sent[e + 1].cut > 0
    BY <1>1, <1>4 DEF DownInv, WhyEnded
  <2>2. e + 1 \in 1 .. q
    BY <1>4, <2>1
  <2> QED BY <1>3, <1>4, <2>1, <2>2
<1>8. DownPath'
  <2> SUFFICES ASSUME Listening'
               PROVE  \E X : Nonces(X)' /\ DownStep(X)' /\ DownWire(X)'
    BY DEF DownPath
  <2>1. PICK X : Nonces(X) /\ DownStep(X) /\ DownWire(X)
    BY <1>1, <1>5 DEF DownInv, DownPath, Listening
  <2>2. PICK x : x = pool.end.send_nonce
    OBVIOUS
  <2>3. PICK y : y = IF f.channel THEN IncrementNonce(x) ELSE x
    OBVIOUS
  <2>4. PICK Y : Y = Append(X, y)
    OBVIOUS
  <2>5. IsSeq(X) /\ Len(X) = q + 1 /\ X[q + 1] = x
    BY <1>4, <2>1, <2>2 DEF Nonces, DownStep
  <2>6. /\ IsSeq(Y) /\ Len(Y) = q + 2 /\ Y[q + 2] = y
        /\ \A i \in 1 .. q + 1 : Y[i] = X[i]
    <3>1. /\ IsSeq(Append(X, y)) /\ Len(Append(X, y)) = Len(X) + 1
          /\ Append(X, y)[Len(X) + 1] = y
          /\ \A i \in 1 .. Len(X) : Append(X, y)[i] = X[i]
      BY <2>5, Appended
    <3>2. Len(X) + 1 = q + 2
      BY <1>4, <2>5
    <3> QED BY <2>4, <2>5, <3>1, <3>2
  <2>7. Nonces(Y)'
    <3>1. DeriveSessionNonces(nk)' = DeriveSessionNonces(nk)
      BY <1>1, FrameKept
    <3>2. Y[1] = DeriveSessionNonces(nk).recv
      BY <1>4, <2>1, <2>6 DEF Nonces
    <3>3. ASSUME NEW k \in 1 .. q + 1
          PROVE  Y[k + 1] = IF pool_sent'[k].channel THEN IncrementNonce(Y[k]) ELSE Y[k]
      <4>1. CASE k \in 1 .. q
        <5>1. k \in 1 .. q + 1 /\ k + 1 \in 1 .. q + 1
          BY <1>4, <4>1
        <5>2. X[k + 1] = IF pool_sent[k].channel THEN IncrementNonce(X[k]) ELSE X[k]
          BY <1>4, <2>1, <4>1 DEF Nonces
        <5> QED BY <1>3, <1>4, <2>6, <4>1, <5>1, <5>2
      <4>2. CASE k = q + 1
        <5>1. k + 1 = q + 2 /\ q + 1 \in 1 .. q + 1
          BY <1>4, <4>2
        <5>2. Y[q + 1] = x /\ pool_sent'[q + 1] = f
          BY <1>3, <1>4, <2>5, <2>6, <5>1
        <5> QED BY <2>3, <2>6, <4>2, <5>1, <5>2
      <4> QED BY <1>4, <4>1, <4>2
    <3>4. Len(pool_sent') = q + 1 /\ Len(Y) = Len(pool_sent') + 1
      BY <1>3, <1>4, <2>6
    <3> QED BY <2>6, <3>1, <3>2, <3>3, <3>4 DEF Nonces
  <2>8. DownStep(Y)'
    <3>1. pool'.end.send_key = DownKey(q + 2)
      <4>1. pool.end.send_key = DownKey(q + 1) /\ (q + 1) + 1 = q + 2
        BY <1>4, <2>1 DEF DownStep
      <4> QED BY <1>5, <4>1 DEF DownKey, Feedback
    <3>2. pool'.end.send_nonce = Y[q + 2]
      BY <1>5, <2>2, <2>3, <2>6
    <3>3. Len(pool_sent') + 1 = q + 2
      BY <1>3, <1>4
    <3>4. ASSUME phase = "up"
          PROVE  /\ client.recv_key = DownKey(e + (IF reader = "body" THEN 2 ELSE 1))
                 /\ client.recv_nonce = Y[e + 1]
                 /\ reader = "body" => e < q + 1 /\ header = Unpack(FrameHeader(pool_sent'[e + 1]))
      <4>1. /\ client.recv_key = DownKey(e + (IF reader = "body" THEN 2 ELSE 1))
            /\ client.recv_nonce = X[e + 1]
            /\ reader = "body" => e < q /\ header = Unpack(FrameHeader(pool_sent[e + 1]))
        BY <1>4, <2>1, <3>4 DEF DownStep
      <4>2. e + 1 \in 1 .. q + 1
        BY <1>4
      <4>3. reader = "body" => e + 1 \in 1 .. q
        BY <1>4, <4>1
      <4>4. X[e + 1] = Y[e + 1]
        BY <2>6, <4>2
      <4>5. reader = "body" => e < q + 1 /\ pool_sent'[e + 1] = pool_sent[e + 1]
        BY <1>3, <1>4, <4>1, <4>3
      <4> QED BY <4>1, <4>4, <4>5
    <3>5. phase = "await_body" => client.recv_key = DownKey(1)
      BY <2>1 DEF DownStep
    <3>6. /\ \A k : DownKey(k)' = DownKey(k)
          /\ \A g : FrameHeader(g)' = FrameHeader(g)
      BY <1>1, FrameKept
    <3>7. Len(pool_sent') = q + 1
      BY <1>3, <1>4
    <3> QED BY <1>1, <1>4, <3>1, <3>2, <3>3, <3>4, <3>5, <3>6, <3>7 DEF DownStep
  <2>9. DownWire(Y)'
    <3>1. PICK h, b : /\ down' = down \o <<h, b>>
                      /\ h = Obfuscate(pool.end.send_key, FrameHeader(f))
                      /\ b = FrameBody(f, x)
      <4>1. f.channel => BoxEasy(SessionBox, pool.end.send_nonce, FrameBytes(f)).len
                           = Len(FrameBytes(f)) + 16
        BY DEF BoxEasy
      <4>2. ~f.channel => Plain(FrameBytes(f)).len = Len(FrameBytes(f)) + 0
        BY DEF Plain
      <4> QED BY <2>2, <4>1, <4>2 DEF PoolSend, FrameHeader, FrameBody
    <3>2. /\ Len(down') = L + 2 /\ down'[L + 1] = h /\ down'[L + 2] = b
          /\ \A i \in 1 .. L : down'[i] = down[i]
      <4>1. PICK t : t = <<h, b>>
        OBVIOUS
      <4>2. IsSeq(t) /\ Len(t) = 2 /\ t[1] = h /\ t[2] = b
        BY <4>1 DEF IsSeq
      <4>3. IsSeq(down)
        BY DEF IInv, Shape
      <4>4. /\ Len(down \o t) = Len(down) + Len(t)
            /\ \A i \in 1 .. Len(down) : (down \o t)[i] = down[i]
            /\ \A i \in 1 .. Len(t) : (down \o t)[Len(down) + i] = t[i]
        <5>1. IsSeq(down) /\ IsSeq(t)
          BY <4>2, <4>3
        <5> QED BY <5>1, Concatenated
      <4>5. down' = down \o t
        BY <3>1, <4>1
      <4> QED BY <1>4, <4>2, <4>4, <4>5
    <3>3. PICK c \in Nat : c = Consumed
      BY <1>1, <1>4 DEF Consumed
    <3>4. Consumed' = c
      BY <1>1, <3>3 DEF Consumed
    <3>5. c + L = 2 + 2 * q
      <4>1. Consumed + Len(down) + Len(pool.pending) = 2 + 2 * Len(pool_sent)
        BY <2>1 DEF DownWire
      <4>2. Len(pool.pending) = 0
        BY <1>1, EmptyIs
      <4> QED BY <1>4, <3>3, <4>1, <4>2
    <3>6. ASSUME NEW k \in 1 .. q + 1
          PROVE  /\ 2 * k + 1 - c \in 1 .. L + 2 => IsDownHeader(down[2 * k + 1 - c], k)'
                 /\ 2 * k + 2 - c \in 1 .. L + 2 => IsDownBody(down[2 * k + 2 - c], k, Y)'
      <4>1. CASE k \in 1 .. q
        <5>1. /\ 2 * k + 1 - c \in 1 .. L => IsDownHeader(down[2 * k + 1 - c], k)
              /\ 2 * k + 2 - c \in 1 .. L => IsDownBody(down[2 * k + 2 - c], k, X)
          BY <1>4, <2>1, <3>3, <4>1 DEF DownWire
        <5>2. 2 * k + 1 - c <= L /\ 2 * k + 2 - c <= L
          BY <3>5, <4>1, <1>4
        <5>3. pool_sent'[k] = pool_sent[k] /\ Y[k] = X[k]
          BY <1>3, <1>4, <2>6, <4>1
        <5>4. /\ \A z : IsDownHeader(z, k)' = IsDownHeader(z, k)
              /\ \A z : IsDownBody(z, k, Y)' = IsDownBody(z, k, Y)
          BY <1>1, <5>3, ItemsKept
        <5>5. \A z : IsDownBody(z, k, X) = IsDownBody(z, k, Y)
          BY <5>3 DEF IsDownBody
        <5>6. ASSUME NEW i \in 1 .. L + 2, i = 2 * k + 1 - c
              PROVE  IsDownHeader(down[i], k)'
          <6>1. i \in 1 .. L
            BY <1>4, <5>2, <5>6
          <6> QED BY <3>2, <5>1, <5>4, <5>6, <6>1
        <5>7. ASSUME NEW i \in 1 .. L + 2, i = 2 * k + 2 - c
              PROVE  IsDownBody(down[i], k, Y)'
          <6>1. i \in 1 .. L
            BY <1>4, <5>2, <5>7
          <6> QED BY <3>2, <5>1, <5>4, <5>5, <5>7, <6>1
        <5> QED BY <5>6, <5>7
      <4>2. CASE k = q + 1
        <5>1. 2 * k + 1 - c = L + 1 /\ 2 * k + 2 - c = L + 2
          BY <1>4, <3>3, <3>5, <4>2
        <5>2. pool_sent'[k] = f /\ pool.end.send_key = DownKey(k) /\ Y[k] = x
          BY <1>3, <1>4, <2>1, <2>5, <2>6, <4>2 DEF DownStep
        <5>3. IsDownHeader(h, k)'
          BY <1>1, <3>1, <5>2, FrameKept DEF IsDownHeader
        <5>4. IsDownBody(b, k, Y)'
          BY <1>1, <3>1, <5>2, FrameKept DEF IsDownBody
        <5>5. IsDownHeader(down[L + 1], k)' /\ IsDownBody(down[L + 2], k, Y)'
          BY <3>2, <5>3, <5>4 DEF IsDownHeader, IsDownBody
        <5> QED BY <5>1, <5>5
      <4> QED BY <1>4, <4>1, <4>2
    <3>7. Len(pool_sent') = q + 1
      BY <1>3, <1>4
    <3>8. Len(pool'.pending) = 0
      BY <1>5, EmptyIs
    <3>9. c + (L + 2) + 0 = 2 + 2 * (q + 1)
      BY <1>4, <3>3, <3>5
    <3> QED BY <3>2, <3>4, <3>6, <3>7, <3>8, <3>9 DEF DownWire
  <2> QED BY <2>7, <2>8, <2>9
<1> QED BY <1>3, <1>6, <1>7, <1>8 DEF DownInv

\* A reader of the session always finds the next frame where it looks for it.
LEMMA AtHand ==
  ASSUME IInv, DownInv, phase = "up", reader \in {"header", "body"}, down # <<>>,
         NEW X, Nonces(X), DownStep(X), DownWire(X)
  PROVE  /\ Len(events) < Len(pool_sent) /\ pool_sent[Len(events) + 1] \in PoolFrames
         /\ reader = "header" => IsDownHeader(Head(down), Len(events) + 1)
         /\ reader = "body" => IsDownBody(Head(down), Len(events) + 1, X)
<1>1. PICK e \in Nat, q \in Nat, L \in Nat :
        e = Len(events) /\ q = Len(pool_sent) /\ L = Len(down) /\ e <= q
  BY DEF DownInv, Handed, IInv, Shape, IsSeq
<1>2. IsSeq(down)
  BY DEF IInv, Shape
<1>3. L # 0 /\ Head(down) = down[1]
  BY <1>1, <1>2, LenZero, TailOf
<1>4. Len(pool.pending) = 0
  BY EmptyIs DEF DownInv, AnswerFirst
<1>5. Consumed = 2 + 2 * e + (IF reader = "body" THEN 1 ELSE 0)
  BY <1>1 DEF Consumed
<1>6. PICK c \in Nat : c = Consumed /\ c + L = 2 + 2 * q
  <2>1. PICK c \in Nat : c = Consumed
    BY <1>1, <1>5
  <2>2. c + L + 0 = 2 + 2 * q
    BY <1>1, <1>4, <2>1 DEF DownWire
  <2> QED BY <1>1, <2>1, <2>2
<1>7. e < q
  <2>1. c >= 2 + 2 * e
    BY <1>1, <1>5, <1>6
  <2> QED BY <1>1, <1>3, <1>6, <2>1
<1>8. PICK k \in 1 .. q : k = e + 1
  BY <1>1, <1>7
<1>9. /\ 2 * k + 1 - c \in 1 .. L => IsDownHeader(down[2 * k + 1 - c], k)
      /\ 2 * k + 2 - c \in 1 .. L => IsDownBody(down[2 * k + 2 - c], k, X)
  BY <1>1, <1>6, <1>8 DEF DownWire
<1>10. 1 \in 1 .. L
  BY <1>1, <1>3
<1>11. ASSUME reader = "header"
       PROVE  IsDownHeader(Head(down), e + 1)
  <2>1. 2 * k + 1 - c = 1
    BY <1>1, <1>5, <1>6, <1>8, <1>11
  <2> QED BY <1>3, <1>8, <1>9, <1>10, <2>1
<1>12. ASSUME reader = "body"
       PROVE  IsDownBody(Head(down), e + 1, X)
  <2>1. 2 * k + 2 - c = 1
    BY <1>1, <1>5, <1>6, <1>8, <1>12
  <2> QED BY <1>3, <1>8, <1>9, <1>10, <2>1
<1>13. pool_sent[e + 1] \in PoolFrames
  BY <1>1, <1>8 DEF DownInv, Handed
<1> QED BY <1>1, <1>7, <1>11, <1>12, <1>13

LEMMA DownReadHeader == IInv /\ DownInv /\ ReadHeader => DownInv'
<1> SUFFICES ASSUME IInv, DownInv, ReadHeader
             PROVE  DownInv'
  OBVIOUS
<1> USE DEF connVars, sendVars, poolVars
<1>1. /\ phase = "up" /\ reader = "header" /\ down # <<>> /\ down' = Tail(down)
      /\ UNCHANGED <<phase, conn, nk, conf, pool, events, pool_sent, down_open>>
  BY DEF ReadHeader
<1>2. pool.phase = "up"
  BY <1>1 DEF IInv, PoolPhase
<1>3. PICK X : Nonces(X) /\ DownStep(X) /\ DownWire(X)
  BY <1>1, <1>2 DEF DownInv, DownPath, Listening
<1>4. PICK e \in Nat, q \in Nat : e = Len(events) /\ q = Len(pool_sent)
  BY DEF DownInv, Handed, IsSeq
<1>5. e < q /\ Head(down) = Obfuscate(DownKey(e + 1), FrameHeader(pool_sent[e + 1]))
  BY <1>1, <1>3, <1>4, AtHand DEF IsDownHeader
<1>6. client.recv_key = DownKey(e + 1) /\ client.recv_nonce = X[e + 1]
  BY <1>1, <1>3, <1>4 DEF DownStep
<1>7. /\ reader' = "body" /\ header' = Unpack(FrameHeader(pool_sent[e + 1]))
      /\ client' = [client EXCEPT !.recv_key = Feedback(DownKey(e + 1))]
  BY <1>5, <1>6 DEF ReadHeader, Readable, Obfuscate
<1>8. client'.recv_key = DownKey(e + 2) /\ client'.recv_nonce = X[e + 1]
  <2>1. Feedback(DownKey(e + 1)) = DownKey((e + 1) + 1) /\ (e + 1) + 1 = e + 2
    BY <1>4 DEF Feedback, DownKey
  <2> QED BY <1>6, <1>7, <2>1 DEF IInv, Shape
<1>9. Handed'
  BY <1>1, <1>7, HandedKept DEF DownInv
<1>10. AnswerFirst' /\ WhyEnded'
  BY <1>1, <1>7 DEF DownInv, AnswerFirst, WhyEnded
<1>11. DownStep(X)'
  <2>1. /\ \A k : DownKey(k)' = DownKey(k)
        /\ \A f : FrameHeader(f)' = FrameHeader(f)
    BY <1>1, FrameKept
  <2>2. pool'.end.send_key = DownKey(q + 1) /\ pool'.end.send_nonce = X[q + 1]
    BY <1>1, <1>3, <1>4 DEF DownStep
  <2>3. Len(events') = e /\ Len(pool_sent') = q /\ pool_sent' = pool_sent /\ phase' = "up"
    BY <1>1, <1>4
  <2> QED BY <1>5, <1>7, <1>8, <2>1, <2>2, <2>3 DEF DownStep
<1>12. DownWire(X)'
  <2>1. Consumed = 2 + 2 * e + 0 /\ Consumed' = 2 + 2 * e + 1
    BY <1>1, <1>4, <1>7 DEF Consumed
  <2>2. Consumed \in Nat /\ Consumed' = Consumed + 1
    BY <1>4, <2>1
  <2>3. IsSeq(down) /\ IsSeq(pool_sent) /\ IsSeq(pool.pending)
    BY DEF IInv, Shape, DownInv, Handed
  <2> QED BY <1>1, <1>3, <2>2, <2>3, Taken
<1>13. Nonces(X)'
  BY <1>1, <1>3, NoncesKept
<1> QED BY <1>9, <1>10, <1>11, <1>12, <1>13 DEF DownInv, DownPath

\* The flags of a frame come out of its header as they went in.
LEMMA FlagsKept ==
  ASSUME NEW f \in PoolFrames, NEW h, h = Unpack(FrameHeader(f))
  PROVE  h.is_encrypted_channel = f.channel /\ ~h.is_encrypted_pubkey
<1>1. f.signed \in BOOLEAN /\ f.channel \in BOOLEAN /\ f.cmd \in 0 .. 31
  BY FramesAssumption
<1>2. PICK s \in 0 .. 1, c \in 0 .. 1, m \in Int :
        s = Bit(f.signed) /\ c = Bit(f.channel) /\ m = f.cmd % 32
  BY <1>1 DEF Bit
<1>3. FrameHeader(f)[4] = s + 2 * 0 + 4 * c + 8 * m
  BY <1>2 DEF FrameHeader, Pack, Header, Bit
<1>4. PICK b \in Int : b = s + 4 * c + 8 * m /\ b = FrameHeader(f)[4]
  BY <1>3
<1>5. b \div 2 = 2 * c + 4 * m /\ b \div 4 = c + 2 * m
  BY <1>4
<1>6. (2 * c + 4 * m) % 2 = 0 /\ (c + 2 * m) % 2 = c
  OBVIOUS
<1>7. ~h.is_encrypted_pubkey
  <2>1. Unpack(FrameHeader(f)).is_encrypted_pubkey = ((FrameHeader(f)[4] \div 2) % 2 = 1)
    BY DEF Unpack
  <2>2. ~((b \div 2) % 2 = 1)
    BY <1>5, <1>6
  <2> QED BY <1>4, <2>1, <2>2, Zenon
<1>8. h.is_encrypted_channel = (c = 1)
  BY <1>4, <1>5, <1>6 DEF Unpack
<1>9. (c = 1) = f.channel
  BY <1>1, <1>2 DEF Bit
<1> QED BY <1>7, <1>8, <1>9

LEMMA DownReadBody == IInv /\ DownInv /\ ReadBody => DownInv'
<1> SUFFICES ASSUME IInv, DownInv, ReadBody
             PROVE  DownInv'
  OBVIOUS
<1> USE DEF connVars, sendVars, poolVars
<1>1. /\ phase = "up" /\ reader = "body" /\ down # <<>> /\ down' = Tail(down)
      /\ UNCHANGED <<phase, conn, nk, conf, pool, header, pool_sent, down_open>>
  BY DEF ReadBody
<1>2. pool.phase = "up"
  BY <1>1 DEF IInv, PoolPhase
<1>3. PICK X : Nonces(X) /\ DownStep(X) /\ DownWire(X)
  BY <1>1, <1>2 DEF DownInv, DownPath, Listening
<1>4. PICK e \in Nat, q \in Nat : e = Len(events) /\ q = Len(pool_sent) /\ IsSeq(events)
  BY DEF DownInv, Handed, IsSeq
<1>5. PICK f \in PoolFrames : f = pool_sent[e + 1]
  BY <1>1, <1>3, <1>4, AtHand
<1>6. PICK n : n = X[e + 1]
  OBVIOUS
<1>7. e < q /\ Head(down) = FrameBody(f, n)
  BY <1>1, <1>3, <1>4, <1>5, <1>6, AtHand DEF IsDownBody
<1>8. /\ client.recv_key = DownKey(e + 2) /\ client.recv_nonce = n
      /\ header = Unpack(FrameHeader(f))
  BY <1>1, <1>3, <1>4, <1>5, <1>6 DEF DownStep
<1>9. header.is_encrypted_channel = f.channel /\ ~header.is_encrypted_pubkey /\ f.channel \in BOOLEAN
  BY <1>8, FlagsKept, FramesAssumption
<1>10. PICK ev : ev = DecodeEvent(header, Strip(header, FrameBytes(f)))
  OBVIOUS
<1>11. f.cut \in Nat /\ IF f.cut = 0 THEN ev = f.msg /\ ev # Err ELSE ev \in {Err, Unknown}
  BY <1>8, <1>10, FramesAssumption DEF FrameHeader
<1>12. FrameBody(f, n).plain = FrameBytes(f)
  BY <1>9 DEF FrameBody, BoxEasy, Plain
<1>13. Decrypt(header, FrameBody(f, n)) =
         [ok |-> TRUE, nonce |-> IF f.channel THEN IncrementNonce(n) ELSE n]
  BY <1>8, <1>9 DEF Decrypt, FrameBody, BoxEasy, BoxOpens
<1>14. /\ client' = [client EXCEPT !.recv_nonce = IF f.channel THEN IncrementNonce(n) ELSE n]
       /\ IF ev = Err THEN reader' = "ended" /\ events' = events
          ELSE reader' = "header" /\ events' = Append(events, ev)
  BY <1>7, <1>10, <1>12, <1>13 DEF ReadBody
<1>15. CASE ev = Err
  <2>1. reader' = "ended" /\ events' = events
    BY <1>14, <1>15
  <2>2. f.cut > 0
    BY <1>11, <1>15
  <2>3. Handed'
    BY <1>1, <2>1, HandedKept DEF DownInv
  <2>4. AnswerFirst'
    BY <1>1, <2>1 DEF DownInv, AnswerFirst
  <2>5. WhyEnded'
    BY <1>1, <1>4, <1>5, <1>7, <2>1, <2>2 DEF WhyEnded
  <2>6. DownPath'
    BY <2>1 DEF DownPath, Listening
  <2> QED BY <2>3, <2>4, <2>5, <2>6 DEF DownInv
<1>16. CASE ev # Err
  <2>1. reader' = "header" /\ events' = Append(events, ev)
    BY <1>14, <1>16
  <2>2. /\ IsSeq(events') /\ Len(events') = e + 1 /\ events'[e + 1] = ev
        /\ \A i \in 1 .. e : events'[i] = events[i]
    BY <1>4, <2>1, Appended
  <2>3. Handed'
    <3>1. ASSUME NEW k \in 1 .. e + 1
          PROVE  events'[k] = IF pool_sent[k].cut = 0 THEN pool_sent[k].msg ELSE Unknown
      <4>1. CASE k \in 1 .. e
        BY <1>4, <2>2, <4>1 DEF DownInv, Handed
      <4>2. CASE k = e + 1
        BY <1>5, <1>11, <1>16, <2>2, <4>2
      <4> QED BY <1>4, <4>1, <4>2
    <3>2. e + 1 <= q
      BY <1>4, <1>7
    <3> QED BY <1>1, <1>4, <2>1, <2>2, <3>1, <3>2 DEF DownInv, Handed
  <2>4. AnswerFirst' /\ WhyEnded'
    BY <1>1, <2>1 DEF DownInv, AnswerFirst, WhyEnded
  <2>5. client'.recv_key = DownKey(e + 2) /\ client'.recv_nonce = X[e + 2]
    <3>1. client'.recv_key = client.recv_key
          /\ client'.recv_nonce = IF f.channel THEN IncrementNonce(n) ELSE n
      BY <1>14 DEF IInv, Shape
    <3>2. e + 1 \in 1 .. q /\ (e + 1) + 1 = e + 2
      BY <1>4, <1>7
    <3>3. X[(e + 1) + 1] = IF pool_sent[e + 1].channel THEN IncrementNonce(X[e + 1]) ELSE X[e + 1]
      BY <1>3, <1>4, <3>2 DEF Nonces
    <3> QED BY <1>5, <1>6, <1>8, <3>1, <3>2, <3>3
  <2>6. DownStep(X)'
    <3>1. \A k : DownKey(k)' = DownKey(k)
      BY <1>1, FrameKept
    <3>2. pool'.end.send_key = DownKey(q + 1) /\ pool'.end.send_nonce = X[q + 1]
      BY <1>1, <1>3, <1>4 DEF DownStep
    <3>3. Len(pool_sent') = q /\ phase' = "up" /\ Len(events') + 1 = e + 2
      BY <1>1, <1>4, <2>2
    <3> QED BY <2>1, <2>5, <3>1, <3>2, <3>3 DEF DownStep
  <2>7. DownWire(X)'
    <3>1. Consumed = 2 + 2 * e + 1 /\ Consumed' = 2 + 2 * (e + 1) + 0
      BY <1>1, <1>4, <2>1, <2>2 DEF Consumed
    <3>2. Consumed \in Nat /\ Consumed' = Consumed + 1
      BY <1>4, <3>1
    <3>3. IsSeq(down) /\ IsSeq(pool_sent) /\ IsSeq(pool.pending)
      BY DEF IInv, Shape, DownInv, Handed
    <3> QED BY <1>1, <1>3, <3>2, <3>3, Taken
  <2>8. Nonces(X)'
    BY <1>1, <1>3, NoncesKept
  <2> QED BY <2>3, <2>4, <2>6, <2>7, <2>8 DEF DownInv, DownPath
<1> QED BY <1>15, <1>16

LEMMA DownReadEof == IInv /\ DownInv /\ ReadEof => DownInv'
<1> SUFFICES ASSUME IInv, DownInv, ReadEof
             PROVE  DownInv'
  OBVIOUS
<1> USE DEF ReadEof, connVars, sendVars, poolVars
<1>1. Handed'
  BY HandedKept DEF DownInv
<1>2. AnswerFirst' /\ WhyEnded'
  BY DEF DownInv, AnswerFirst, WhyEnded
<1>3. DownPath'
  BY DEF DownPath, Listening
<1> QED BY <1>1, <1>2, <1>3 DEF DownInv

-----------------------------------------------------------------------------

\* A step that does not read or write the pool's stream.
LEMMA DownAside ==
  ASSUME IInv, DownInv,
         (\E c \in Commands : BeginSend(c)) \/ WriteHeader \/ WriteBody \/ WriteFail \/ PoolRecv
           \/ PoolClose \/ UNCHANGED vars
  PROVE  DownInv'
<1> USE DEF connVars, sendVars, readVars, poolVars
<1>1. /\ UNCHANGED <<conn, nk, phase, reader, header, events, pool_sent, down>>
      /\ ~down_open => ~down_open'
  <2>1. UNCHANGED <<conn, nk, phase, reader, header, events, pool_sent, down>>
    BY DEF BeginSend, WriteHeader, WriteBody, WriteFail, PoolRecv, PoolClose, vars
  <2>2. CASE PoolClose
    BY <2>1, <2>2 DEF PoolClose
  <2>3. CASE ~PoolClose
    <3>1. UNCHANGED down_open
      BY <2>3 DEF BeginSend, WriteHeader, WriteBody, WriteFail, PoolRecv, vars
    <3> QED BY <2>1, <3>1
  <2> QED BY <2>2, <2>3
<1>2. client'.recv_key = client.recv_key /\ client'.recv_nonce = client.recv_nonce
  BY DEF BeginSend, WriteHeader, WriteBody, WriteFail, PoolRecv, PoolClose, vars, IInv, Shape
<1>3. CASE PoolRecv
  <2>1. /\ pool = [phase |-> pool.phase, end |-> pool.end, reply |-> pool.reply,
                   pending |-> pool.pending]
        /\ pool.end = [send_key |-> pool.end.send_key, recv_key |-> pool.end.recv_key,
                       send_nonce |-> pool.end.send_nonce, recv_nonce |-> pool.end.recv_nonce]
    BY DEF IInv, Shape
  <2>2. pool.phase = "up" /\ pool'.phase \in {"up", "garbled"}
    BY <1>3, <2>1 DEF PoolRecv
  <2>3. pool'.phase = "up"
    BY <1>3, <2>2, PoolRecvKeeps DEF IInv, PoolPhase
  <2>4. /\ pool'.phase = pool.phase /\ pool'.pending = pool.pending
        /\ pool'.end.send_key = pool.end.send_key /\ pool'.end.send_nonce = pool.end.send_nonce
    BY <1>3, <2>1, <2>2, <2>3 DEF PoolRecv
  <2> QED BY <1>1, <1>2, <2>4, DownKept
<1>4. CASE ~PoolRecv
  <2>1. pool' = pool
    BY <1>4 DEF BeginSend, WriteHeader, WriteBody, WriteFail, PoolClose, vars
  <2> QED BY <1>1, <1>2, <2>1, DownKept
<1> QED BY <1>3, <1>4

LEMMA DownStepKeeps == IInv /\ DownInv /\ [Next]_vars => DownInv'
<1> SUFFICES ASSUME IInv, DownInv, [Next]_vars
             PROVE  DownInv'
  OBVIOUS
<1>1. CASE Fail \/ Retry
  BY <1>1, DownVoid DEF Fail, Retry, sendVars, readVars, poolVars, IInv, PoolPhase
<1>2. CASE Dial
  BY <1>2, DownDial
<1>3. CASE ClientConnect
  BY <1>1, <1>3, DownHello, DownResponseHeader, DownResponseBody
     DEF ClientConnect, ConnectTimeout, RecvResponseEof
<1>4. CASE \E kind \in ReplyKinds : PoolAnswer(kind)
  BY <1>4, DownAnswer
<1>5. CASE PoolAnswerBody
  BY <1>5, DownAnswerBody
<1>6. CASE \E f \in PoolFrames : PoolSend(f)
  BY <1>6, DownSend
<1>7. CASE ReadHeader \/ ReadBody \/ ReadEof
  BY <1>7, DownReadHeader, DownReadBody, DownReadEof
<1>8. CASE \/ \E c \in Commands : BeginSend(c)
           \/ WriteHeader \/ WriteBody \/ WriteFail \/ PoolRecv \/ PoolClose \/ UNCHANGED vars
  BY <1>8, DownAside
<1>9. CASE Teardown
  BY <1>1, <1>9 DEF Teardown
<1> QED BY <1>1, <1>2, <1>3, <1>4, <1>5, <1>6, <1>7, <1>8, <1>9 DEF Next

LEMMA DownInvInOrder == DownInv => DownInOrder
<1> SUFFICES ASSUME DownInv
             PROVE  DownInOrder
  OBVIOUS
<1>1. DOMAIN events = 1 .. Len(events)
  BY DEF DownInv, Handed, IsSeq
<1>2. EventsMatch
  BY <1>1 DEF DownInv, Handed, EventsMatch
<1> QED BY <1>2 DEF DownInv, WhyEnded, DownInOrder

\* recv_frame and decode_event hand up the messages the pool sent, none skipped,
\* repeated or garbled, whatever mix of signed, encrypted and plain frames: keys
\* advance with every header, nonces with encrypted bodies only, at both ends.
\* And the receive loop ends only on a frame cut short or at the end of the stream.
THEOREM EventsInOrder == Spec => []DownInOrder
<1>1. Init => IInv /\ DownInv
  BY InitOk, DownInit
<1>2. IInv /\ DownInv /\ [Next]_vars => IInv' /\ DownInv'
  BY StepKeeps, DownStepKeeps
<1>3. DownInv => DownInOrder
  BY DownInvInOrder
<1> QED BY <1>1, <1>2, <1>3, PTL DEF Spec

-----------------------------------------------------------------------------
(* The arithmetic of nonces.  Claims about the lowest i words are proved by   *)
(* going up the words one by one.                                             *)

\* Induction over the numbers up to m, for a set.
LEMMA UpTo ==
  ASSUME NEW m \in Nat, NEW S, 0 \in S, \A i \in 1 .. m : i - 1 \in S => i \in S
  PROVE  \A i \in 0 .. m : i \in S
<1> DEFINE R == {ss \in Nat \X Nat : ss[1] < ss[2]}
           T == {i \in 0 .. m : i \notin S}
<1>1. IsWellFoundedOn(R, Nat)
  BY NatLessThanWellFounded DEF OpToRel
<1>2. \A x, y \in Nat : y < x => <<y, x>> \in R
  OBVIOUS
<1> HIDE DEF R
<1>3. T = {}
  <2> SUFFICES ASSUME T # {} PROVE FALSE
    OBVIOUS
  <2>1. T \subseteq Nat
    OBVIOUS
  <2> HIDE DEF T
  <2>2. PICK x \in T : \A y \in T : ~ (<<y, x>> \in R)
    BY <1>1, <2>1, WFMin
  <2>3. x \in 1 .. m
    BY <2>2 DEF T
  <2>4. x \in Nat /\ x - 1 \in Nat /\ x - 1 < x
    BY <2>3
  <2>5. <<x - 1, x>> \in R
    BY <1>2, <2>4
  <2>6. x - 1 \notin T
    BY <2>2, <2>5
  <2> QED
    BY <2>2, <2>3, <2>6 DEF T
<1> QED
  BY <1>3

\* A function on 0 .. Words may be defined by its first value and a step.
LEMMA Recursion ==
  ASSUME NEW c \in Nat, NEW g \in [(1 .. Words) \X Nat -> Nat]
  PROVE  \E f \in [0 .. Words -> Nat] :
           f = [i \in 0 .. Words |-> IF i = 0 THEN c ELSE g[<<i, f[i - 1]>>]]
<1> USE SessionAssumption
<1> DEFINE P(m, f) == /\ f \in [0 .. m -> Nat] /\ f[0] = c
                      /\ \A i \in 1 .. m : f[i] = g[<<i, f[i - 1]>>]
           S == {m \in 0 .. Words : \E f : P(m, f)}
<1>1. 0 \in S
  <2>1. P(0, [i \in 0 .. 0 |-> c])
    OBVIOUS
  <2>2. \E f : P(0, f)
    BY <2>1
  <2> QED
    BY <2>2
<1>2. ASSUME NEW m \in 1 .. Words, m - 1 \in S PROVE m \in S
  <2>1. PICK f : P(m - 1, f)
    BY <1>2
  <2> DEFINE h == [i \in 0 .. m |-> IF i = m THEN g[<<m, f[m - 1]>>] ELSE f[i]]
  <2>2. f[m - 1] \in Nat /\ g[<<m, f[m - 1]>>] \in Nat
    BY <2>1
  <2>3. h \in [0 .. m -> Nat] /\ h[0] = c
    BY <2>1, <2>2
  <2>4. ASSUME NEW i \in 1 .. m PROVE h[i] = g[<<i, h[i - 1]>>]
    <3>1. h[i - 1] = f[i - 1]
      OBVIOUS
    <3>2. i # m => h[i] = f[i] /\ f[i] = g[<<i, f[i - 1]>>]
      BY <2>1
    <3>3. i = m => h[i] = g[<<i, f[i - 1]>>]
      OBVIOUS
    <3> QED
      BY <3>1, <3>2, <3>3
  <2>5. P(m, h)
    BY <2>3, <2>4
  <2>6. \E f1 : P(m, f1)
    BY <2>5
  <2> QED
    BY <2>6
<1> HIDE DEF S
<1>3. \A m \in 0 .. Words : m \in S
  BY <1>1, <1>2, UpTo
<1>4. Words \in S
  BY <1>3
<1>5. PICK f : P(Words, f)
  BY <1>4 DEF S
<1>6. f = [i \in 0 .. Words |-> IF i = 0 THEN c ELSE g[<<i, f[i - 1]>>]]
  BY <1>5
<1> QED
  BY <1>5, <1>6

\* Each word counts for WordMod of the one below.
LEMMA PowerIs ==
  /\ Power \in [0 .. Words -> Nat] /\ Power[0] = 1
  /\ \A i \in 1 .. Words : Power[i] = WordMod * Power[i - 1]
  /\ \A i \in 0 .. Words : Power[i] > 0
<1> USE SessionAssumption
<1> DEFINE g == [x \in (1 .. Words) \X Nat |-> WordMod * x[2]]
<1>1. g \in [(1 .. Words) \X Nat -> Nat]
  OBVIOUS
<1>2. \A i \in 1 .. Words, v \in Nat : g[<<i, v>>] = WordMod * v
  OBVIOUS
<1> HIDE DEF g
<1>3. 1 \in Nat
  OBVIOUS
<1>4. PICK f \in [0 .. Words -> Nat] : f = [i \in 0 .. Words |-> IF i = 0 THEN 1 ELSE g[<<i, f[i - 1]>>]]
  BY <1>1, <1>3, Recursion
<1>5. \A i \in 1 .. Words : g[<<i, f[i - 1]>>] = WordMod * f[i - 1]
  <2>1. \A i \in 1 .. Words : f[i - 1] \in Nat
    BY <1>4
  <2> QED
    BY <1>2, <2>1
<1>6. f = [i \in 0 .. Words |-> IF i = 0 THEN 1 ELSE WordMod * f[i - 1]]
  <2> DEFINE h == [i \in 0 .. Words |-> IF i = 0 THEN 1 ELSE WordMod * f[i - 1]]
  <2>1. ASSUME NEW i \in 0 .. Words PROVE f[i] = h[i]
    <3>1. CASE i = 0
      BY <1>4, <3>1
    <3>2. CASE i \in 1 .. Words
      <4>1. f[i] = g[<<i, f[i - 1]>>]
        BY <1>4, <3>2
      <4> QED
        BY <1>5, <3>2, <4>1
    <3> QED
      BY <3>1, <3>2
  <2>2. f = [i \in 0 .. Words |-> f[i]]
    BY <1>4
  <2> QED
    BY <2>1, <2>2
<1>7. Power = [i \in 0 .. Words |-> IF i = 0 THEN 1 ELSE WordMod * Power[i - 1]]
  BY <1>6, Zenon DEF Power
<1>8. Power[0] = 1 /\ \A i \in 1 .. Words : Power[i] = WordMod * Power[i - 1]
  BY <1>7
<1> DEFINE S == {i \in 0 .. Words : Power[i] \in Nat /\ Power[i] > 0}
<1>9. ASSUME NEW i \in 1 .. Words, i - 1 \in S PROVE i \in S
  <2>1. PICK p \in Nat : p = Power[i - 1] /\ p > 0
    BY <1>9
  <2>2. WordMod * p \in Nat /\ WordMod * p > 0
    BY <2>1
  <2> QED
    BY <1>8, <2>1, <2>2
<1>10. 0 \in S
  BY <1>8
<1> HIDE DEF S
<1>11. \A i \in 0 .. Words : i \in S
  BY <1>9, <1>10, UpTo
<1>12. \A i \in 0 .. Words : Power[i] \in Nat /\ Power[i] > 0
  BY <1>11 DEF S
<1>13. Power \in [0 .. Words -> Nat]
  <2>1. Power = [i \in 0 .. Words |-> Power[i]]
    BY <1>7
  <2> QED
    BY <1>12, <2>1
<1> QED
  BY <1>8, <1>12, <1>13

\* The numbers of the lowest words, one by one.
LEMMA LowWordsAre ==
  ASSUME NEW n \in Nonce
  PROVE  /\ LowWords(n) \in [0 .. Words -> Nat] /\ LowWords(n)[0] = 0
         /\ \A i \in 1 .. Words : LowWords(n)[i] = LowWords(n)[i - 1] + n[i] * Power[i - 1]
<1> USE SessionAssumption
<1> DEFINE t == [i \in 1 .. Words |-> n[i] * Power[i - 1]]
           g == [x \in (1 .. Words) \X Nat |-> x[2] + t[x[1]]]
<1>1. \A i \in 1 .. Words : t[i] = n[i] * Power[i - 1] /\ t[i] \in Nat
  <2>1. ASSUME NEW i \in 1 .. Words PROVE n[i] * Power[i - 1] \in Nat
    <3>1. n[i] \in Nat
      BY DEF Nonce, Word
    <3>2. i - 1 \in 0 .. Words
      OBVIOUS
    <3>3. Power[i - 1] \in Nat
      BY <3>2, PowerIs
    <3> QED
      BY <3>1, <3>3
  <2> QED
    BY <2>1
<1> HIDE DEF t
<1>2. g \in [(1 .. Words) \X Nat -> Nat]
  BY <1>1
<1>3. \A i \in 1 .. Words, v \in Nat : g[<<i, v>>] = v + n[i] * Power[i - 1]
  BY <1>1
<1> HIDE DEF g
<1>4. 0 \in Nat
  OBVIOUS
<1>5. PICK f \in [0 .. Words -> Nat] : f = [i \in 0 .. Words |-> IF i = 0 THEN 0 ELSE g[<<i, f[i - 1]>>]]
  BY <1>2, <1>4, Recursion
<1>6. f = [i \in 0 .. Words |-> IF i = 0 THEN 0 ELSE f[i - 1] + n[i] * Power[i - 1]]
  <2> DEFINE h == [i \in 0 .. Words |-> IF i = 0 THEN 0 ELSE f[i - 1] + n[i] * Power[i - 1]]
  <2>1. ASSUME NEW i \in 0 .. Words PROVE f[i] = h[i]
    <3>1. CASE i = 0
      BY <1>5, <3>1
    <3>2. CASE i \in 1 .. Words
      <4>1. f[i] = g[<<i, f[i - 1]>>] /\ f[i - 1] \in Nat
        BY <1>5, <3>2
      <4>2. f[i] = f[i - 1] + n[i] * Power[i - 1]
        BY <1>3, <3>2, <4>1
      <4> QED
        BY <3>2, <4>2
    <3> QED
      BY <3>1, <3>2
  <2>2. f = [i \in 0 .. Words |-> f[i]]
    BY <1>5
  <2> QED
    BY <2>1, <2>2
<1> DEFINE Is(w) == w = [i \in 0 .. Words |-> IF i = 0 THEN 0 ELSE w[i - 1] + n[i] * Power[i - 1]]
<1>7. LowWords(n) = CHOOSE w : Is(w)
  BY DEF LowWords
<1>8. \E w : Is(w)
  BY <1>6
<1> HIDE DEF Is
<1>9. Is(LowWords(n))
  BY <1>7, <1>8, Zenon
<1>10. PICK w : w = LowWords(n) /\ Is(w)
  BY <1>9
<1>11. w[0] = 0 /\ \A i \in 1 .. Words : w[i] = w[i - 1] + n[i] * Power[i - 1]
  BY <1>10 DEF Is
<1> DEFINE S == {i \in 0 .. Words : w[i] \in Nat}
<1>12. ASSUME NEW i \in 1 .. Words, i - 1 \in S PROVE i \in S
  <2>1. w[i] = w[i - 1] + t[i] /\ w[i - 1] \in Nat
    BY <1>1, <1>11, <1>12
  <2>2. w[i] \in Nat
    BY <1>1, <2>1
  <2> QED
    BY <2>2
<1>13. 0 \in S
  BY <1>11
<1> HIDE DEF S
<1>14. \A i \in 0 .. Words : i \in S
  BY <1>12, <1>13, UpTo
<1>15. \A i \in 0 .. Words : w[i] \in Nat
  BY <1>14 DEF S
<1>16. w = [i \in 0 .. Words |-> w[i]]
  BY <1>10 DEF Is
<1>17. w \in [0 .. Words -> Nat]
  BY <1>15, <1>16
<1> QED
  BY <1>10, <1>11, <1>17

\* The low words of a nonce stand for less than one unit of the next word.
LEMMA LowBound ==
  ASSUME NEW n \in Nonce
  PROVE  \A i \in 0 .. Words : LowWords(n)[i] \in 0 .. Power[i] - 1
<1> USE SessionAssumption
<1> DEFINE S == {i \in 0 .. Words : LowWords(n)[i] < Power[i]}
<1>1. 0 \in S
  BY LowWordsAre, PowerIs
<1>2. ASSUME NEW i \in 1 .. Words, i - 1 \in S PROVE i \in S
  <2>1. PICK v \in Nat : v = LowWords(n)[i - 1]
    BY LowWordsAre
  <2>2. PICK p \in Nat : p = Power[i - 1]
    BY PowerIs
  <2>3. PICK d \in Nat : d = n[i] /\ d <= WordMod - 1
    BY DEF Nonce, Word
  <2>4. LowWords(n)[i] = v + d * p
    BY <2>1, <2>2, <2>3, LowWordsAre
  <2>5. Power[i] = WordMod * p
    BY <2>2, PowerIs
  <2>6. v < p
    BY <1>2, <2>1, <2>2
  <2>7. d * p <= (WordMod - 1) * p
    BY <2>2, <2>3
  <2>8. (WordMod - 1) * p = WordMod * p - p
    BY <2>2
  <2>9. v + d * p < WordMod * p
    <3>1. PICK dp \in Int : dp = d * p
      BY <2>2, <2>3
    <3>2. PICK wp \in Int : wp = WordMod * p
      BY <2>2
    <3> QED
      BY <2>1, <2>2, <2>6, <2>7, <2>8, <3>1, <3>2
  <2> QED
    BY <2>4, <2>5, <2>9
<1> HIDE DEF S
<1>3. \A i \in 0 .. Words : i \in S
  BY <1>1, <1>2, UpTo
<1>4. ASSUME NEW i \in 0 .. Words PROVE LowWords(n)[i] \in 0 .. Power[i] - 1
  <2>1. LowWords(n)[i] \in Nat
    BY LowWordsAre
  <2>2. Power[i] \in Nat
    BY PowerIs
  <2>3. LowWords(n)[i] < Power[i]
    BY <1>3 DEF S
  <2> QED
    BY <2>1, <2>2, <2>3
<1> QED
  BY <1>4

\* All words below the next are at their end.
Full(n, i) == \A j \in 1 .. i : n[j] = WordMod - 1

LEMMA IncrementIsNonce ==
  ASSUME NEW n \in Nonce
  PROVE  /\ IncrementNonce(n) \in Nonce
         /\ \A i \in 1 .. Words :
              IncrementNonce(n)[i] = IF Full(n, i - 1) THEN (n[i] + 1) % WordMod ELSE n[i]
<1> USE SessionAssumption
<1> DEFINE w(i) == IF Full(n, i - 1) THEN (n[i] + 1) % WordMod ELSE n[i]
<1>1. IncrementNonce(n) = [i \in 1 .. Words |-> w(i)]
  BY Zenon DEF IncrementNonce, Full
<1>2. ASSUME NEW i \in 1 .. Words PROVE w(i) \in Word
  <2>1. n[i] \in Word
    BY DEF Nonce
  <2>2. (n[i] + 1) % WordMod \in Word
    BY <2>1 DEF Word
  <2> QED
    BY <2>1, <2>2
<1> HIDE DEF w
<1>3. IncrementNonce(n) \in Nonce
  BY <1>1, <1>2 DEF Nonce
<1>4. \A i \in 1 .. Words : IncrementNonce(n)[i] = w(i)
  BY <1>1
<1> QED
  BY <1>3, <1>4 DEF w

\* Incrementing adds one to the number of the lowest words, or takes the whole
\* of it away when they are all at their end.
LEMMA LowIncrement ==
  ASSUME NEW n \in Nonce
  PROVE  \A i \in 0 .. Words :
           LowWords(IncrementNonce(n))[i] = LowWords(n)[i] + 1 - (IF Full(n, i) THEN Power[i] ELSE 0)
<1> USE SessionAssumption
<1> DEFINE m == IncrementNonce(n)
           S == {i \in 0 .. Words :
                  LowWords(m)[i] = LowWords(n)[i] + 1 - (IF Full(n, i) THEN Power[i] ELSE 0)}
<1>1. m \in Nonce /\ \A i \in 1 .. Words : m[i] = IF Full(n, i - 1) THEN (n[i] + 1) % WordMod ELSE n[i]
  BY IncrementIsNonce
<1> HIDE DEF m
<1>2. 0 \in S
  <2>1. Full(n, 0)
    BY DEF Full
  <2>2. LowWords(m)[0] = 0 /\ LowWords(n)[0] = 0
    BY <1>1, LowWordsAre
  <2> QED
    BY <2>1, <2>2, PowerIs
<1>3. ASSUME NEW i \in 1 .. Words, i - 1 \in S PROVE i \in S
  <2>0. i - 1 \in 0 .. Words
    OBVIOUS
  <2>1. PICK v \in Nat : v = LowWords(n)[i - 1]
    BY <2>0, LowWordsAre
  <2>2. PICK u \in Nat : u = LowWords(m)[i - 1]
    BY <1>1, <2>0, LowWordsAre
  <2>3. PICK p \in Nat : p = Power[i - 1]
    BY <2>0, PowerIs
  <2>4. PICK d \in Word : d = n[i]
    BY DEF Nonce
  <2>5. PICK e \in Word : e = m[i]
    BY <1>1 DEF Nonce
  <2>6. LowWords(n)[i] = v + d * p
    BY <2>1, <2>3, <2>4, LowWordsAre
  <2>7. LowWords(m)[i] = u + e * p
    BY <1>1, <2>2, <2>3, <2>5, LowWordsAre
  <2>8. Power[i] = WordMod * p
    BY <2>3, PowerIs
  <2>9. u = v + 1 - (IF Full(n, i - 1) THEN p ELSE 0)
    BY <1>3, <2>1, <2>2, <2>3
  <2>10. Full(n, i) <=> Full(n, i - 1) /\ d = WordMod - 1
    BY <2>4 DEF Full
  <2>11. e = IF Full(n, i - 1) THEN (d + 1) % WordMod ELSE d
    BY <1>1, <2>4, <2>5
  <2>12. CASE ~ Full(n, i - 1)
    BY <2>6, <2>7, <2>8, <2>9, <2>10, <2>11, <2>12 DEF Word
  <2>13. CASE Full(n, i - 1) /\ d = WordMod - 1
    <3>1. e = 0
      BY <2>11, <2>13
    <3>2. d * p = WordMod * p - p
      BY <2>3, <2>13
    <3>3. e * p = 0
      BY <2>3, <3>1
    <3>4. LowWords(m)[i] = v + 1 - p /\ LowWords(n)[i] = v + (WordMod * p - p)
      BY <2>1, <2>3, <2>6, <2>7, <2>9, <2>13, <3>2, <3>3
    <3>5. PICK wp \in Int : wp = WordMod * p
      BY <2>3
    <3>6. LowWords(m)[i] = LowWords(n)[i] + 1 - wp
      BY <2>1, <2>3, <3>4, <3>5
    <3> QED
      BY <2>8, <2>10, <2>13, <3>5, <3>6
  <2>14. CASE Full(n, i - 1) /\ d # WordMod - 1
    <3>1. e = d + 1
      <4>1. d \in Nat /\ d + 1 \in 0 .. WordMod - 1 /\ WordMod \in Nat
        BY <2>14 DEF Word
      <4>2. (d + 1) % WordMod = d + 1
        BY <4>1
      <4> QED
        BY <2>11, <2>14, <4>2
    <3>2. e * p = d * p + p
      <4>1. d \in Int /\ p \in Int
        BY DEF Word
      <4>2. (d + 1) * p = d * p + p
        BY <4>1
      <4> QED
        BY <3>1, <4>2
    <3>3. PICK dp \in Int : dp = d * p
      BY <2>3, <2>4 DEF Word
    <3>4. LowWords(m)[i] = v + 1 - p + (dp + p) /\ LowWords(n)[i] = v + dp
      BY <2>6, <2>7, <2>9, <2>14, <3>2, <3>3
    <3>5. LowWords(m)[i] = LowWords(n)[i] + 1
      BY <2>1, <2>3, <3>3, <3>4
    <3> QED
      BY <2>1, <2>3, <2>10, <2>14, <3>3, <3>4, <3>5
  <2> QED
    BY <2>12, <2>13, <2>14
<1> HIDE DEF S
<1>4. \A i \in 0 .. Words : i \in S
  BY <1>2, <1>3, UpTo
<1> QED
  BY <1>4 DEF S, m

\* increment_nonce adds one to the number a nonce stands for, modulo the number
\* of nonces.
LEMMA IncrementCounts ==
  ASSUME NEW n \in Nonce
  PROVE  Value(IncrementNonce(n)) = (Value(n) + 1) % Power[Words]
<1> USE SessionAssumption
<1>1. Words \in 0 .. Words
  OBVIOUS
<1>2. PICK p \in Nat : p = Power[Words] /\ p > 0
  BY <1>1, PowerIs
<1>3. PICK v \in 0 .. p - 1 : v = Value(n)
  BY <1>1, <1>2, LowBound DEF Value
<1>4. PICK u \in 0 .. p - 1 : u = Value(IncrementNonce(n))
  BY <1>1, <1>2, LowBound, IncrementIsNonce DEF Value
<1>5. u = v + 1 - (IF Full(n, Words) THEN p ELSE 0)
  BY <1>1, <1>2, <1>3, <1>4, LowIncrement DEF Value
<1>6. CASE Full(n, Words)
  <2>1. v + 1 = p /\ u = 0
    BY <1>2, <1>5, <1>6
  <2>2. p % p = 0
    BY <1>2
  <2> QED
    BY <1>2, <1>3, <1>4, <2>1, <2>2
<1>7. CASE ~ Full(n, Words)
  <2>1. u = v + 1
    BY <1>5, <1>7
  <2>2. (v + 1) % p = v + 1
    BY <1>2, <1>4, <2>1
  <2> QED
    BY <1>2, <1>3, <1>4, <2>1, <2>2
<1> QED
  BY <1>6, <1>7

\* Numbers that agree modulo m and differ are m apart.
LEMMA SameModulo ==
  ASSUME NEW m \in Nat, m > 0, NEW x \in Nat, NEW y \in Nat, x % m = y % m, x < y
  PROVE  y - x >= m
<1>1. PICK q \in Int : x = m * q + (x % m)
  <2>1. x \div m \in Int /\ x = m * (x \div m) + (x % m)
    OBVIOUS
  <2> QED
    BY <2>1
<1>2. PICK r \in Int : y = m * r + (y % m)
  <2>1. y \div m \in Int /\ y = m * (y \div m) + (y % m)
    OBVIOUS
  <2> QED
    BY <2>1
<1>3. PICK z \in Int : z = x % m
  OBVIOUS
<1>4. PICK mq \in Int, mr \in Int : mq = m * q /\ mr = m * r
  BY <1>1, <1>2
<1>5. x = mq + z /\ y = mr + z /\ y - x = mr - mq
  BY <1>1, <1>2, <1>3, <1>4
<1>6. r > q
  <2>1. SUFFICES ASSUME r <= q PROVE FALSE
    OBVIOUS
  <2>2. m * r <= m * q
    BY <1>1, <1>2, <2>1
  <2> QED
    BY <1>3, <1>4, <1>5, <2>2
<1>7. m * r >= m * q + m
  <2>1. r >= q + 1
    BY <1>6
  <2>2. m * r >= m * (q + 1)
    BY <2>1
  <2>3. m * (q + 1) = m * q + m
    OBVIOUS
  <2> QED
    BY <1>1, <1>2, <2>2, <2>3
<1> QED
  BY <1>4, <1>5, <1>7

LEMMA AddModulo ==
  ASSUME NEW m \in Nat, m > 0, NEW x \in Nat
  PROVE  ((x % m) + 1) % m = (x + 1) % m
<1>1. PICK q \in Int : x = m * q + (x % m)
  <2>1. x \div m \in Int /\ x = m * (x \div m) + (x % m)
    OBVIOUS
  <2> QED
    BY <2>1
<1>2. PICK z \in 0 .. m - 1 : z = x % m
  OBVIOUS
<1>3. \A p \in Int, v \in 0 .. m - 1 : (m * p + v) % m = v
  OBVIOUS
<1>4. CASE z + 1 < m
  <2>1. x + 1 = m * q + (z + 1)
    BY <1>1, <1>2
  <2>2. (x + 1) % m = z + 1
    BY <1>1, <1>2, <1>3, <1>4, <2>1
  <2>3. (m * 0 + (z + 1)) % m = z + 1
    BY <1>2, <1>3, <1>4
  <2>4. m * 0 + (z + 1) = z + 1
    BY <1>2
  <2> QED
    BY <1>2, <2>2, <2>3, <2>4
<1>5. CASE z + 1 = m
  <2>1. m * (q + 1) = m * q + m
    BY <1>1
  <2>2. x + 1 = m * (q + 1) + 0
    BY <1>1, <1>2, <1>5, <2>1
  <2>3. (x + 1) % m = 0
    BY <1>1, <1>3, <2>2
  <2>4. (m * 1 + 0) % m = 0 /\ m * 1 + 0 = m
    BY <1>3
  <2> QED
    BY <1>2, <1>5, <2>3, <2>4
<1> QED
  BY <1>2, <1>4, <1>5

\* The nonces of a session start as words do.
LEMMA FirstNonces ==
  ASSUME NEW k \in Seeds
  PROVE  /\ DeriveSessionNonces(k).send \in Nonce /\ DeriveSessionNonces(k).recv \in Nonce
         /\ \A i \in 1 .. Words :
              DeriveSessionNonces(k).send[i] = Mask[DeriveSessionNonces(k).recv[i]]
<1> USE SessionAssumption
<1>1. BaseNonce[k] \in Nonce
  OBVIOUS
<1>2. \A i \in 1 .. Words : BaseNonce[k][i] \in Word
  BY <1>1 DEF Nonce
<1>3. [i \in 1 .. Words |-> Mask[BaseNonce[k][i]]] \in Nonce
  BY <1>2 DEF Nonce
<1> QED
  BY <1>1, <1>3 DEF DeriveSessionNonces

\* The two directions of a session never meet: their nonces start further apart
\* than they can count.
LEMMA DirectionsApart ==
  ASSUME NEW k \in Seeds, NEW i \in 0 .. Power[Words - 1], NEW j \in 0 .. Power[Words - 1]
  PROVE  (Value(DeriveSessionNonces(k).send) + i) % Power[Words]
           # (Value(DeriveSessionNonces(k).recv) + j) % Power[Words]
<1> USE SessionAssumption
<1>1. PICK s \in Nonce, r \in Nonce :
        /\ s = DeriveSessionNonces(k).send /\ r = DeriveSessionNonces(k).recv
        /\ s[Words] = Mask[r[Words]]
  BY FirstNonces
<1>2. Words \in 1 .. Words /\ Words - 1 \in 0 .. Words
  OBVIOUS
<1>3. PICK b \in Nat : b = Power[Words - 1] /\ b > 0
  BY <1>2, PowerIs
<1>4. Power[Words] = WordMod * b
  BY <1>2, <1>3, PowerIs
<1>5. PICK a \in Word : a = r[Words]
  BY <1>2 DEF Nonce
<1>6. PICK c \in Word : c = s[Words] /\ c = Mask[a]
  BY <1>1, <1>2, <1>5 DEF Nonce
<1>7. (c + WordMod - a) % WordMod \in 2 .. WordMod - 2
  BY <1>6, NonceAssumption
<1>8. c - a \in 2 .. WordMod - 2 \/ a - c \in 2 .. WordMod - 2
  <2>1. PICK w \in Nat : w = WordMod
    OBVIOUS
  <2>2. a \in 0 .. w - 1 /\ c \in 0 .. w - 1
    BY <2>1 DEF Word
  <2>3. CASE c >= a
    <3>1. PICK e \in 0 .. w - 1 : e = c - a
      BY <2>2, <2>3
    <3>2. (e + w) % w = e
      BY <2>1, <3>1
    <3>3. c + w - a = e + w
      BY <2>1, <2>2, <3>1
    <3> QED
      BY <1>7, <2>1, <3>1, <3>2, <3>3
  <2>4. CASE c < a
    <3>1. PICK e \in 0 .. w - 1 : e = c + w - a
      BY <2>1, <2>2, <2>4
    <3>2. e % w = e
      BY <2>1, <3>1
    <3> QED
      BY <1>7, <2>1, <2>2, <3>1, <3>2
  <2> QED
    BY <2>2, <2>3, <2>4
<1>9. PICK u \in 0 .. b - 1 : u = LowWords(s)[Words - 1]
  BY <1>2, <1>3, LowBound
<1>10. PICK v \in 0 .. b - 1 : v = LowWords(r)[Words - 1]
  BY <1>2, <1>3, LowBound
<1>11. Value(s) = u + c * b
  BY <1>2, <1>3, <1>6, <1>9, LowWordsAre DEF Value
<1>12. Value(r) = v + a * b
  BY <1>2, <1>3, <1>5, <1>10, LowWordsAre DEF Value
<1>13. PICK cb \in Nat, ab \in Nat, mb \in Nat : cb = c * b /\ ab = a * b /\ mb = WordMod * b
  <2>1. a \in Nat /\ c \in Nat /\ WordMod \in Nat
    BY DEF Word
  <2>2. a * b \in Nat /\ c * b \in Nat /\ WordMod * b \in Nat
    BY <1>3, <2>1
  <2> QED
    BY <2>2
<1>14. \/ cb - ab >= 2 * b /\ cb - ab <= mb - 2 * b
       \/ ab - cb >= 2 * b /\ ab - cb <= mb - 2 * b
  <2>1. c \in Int /\ a \in Int /\ WordMod \in Int
    BY DEF Word
  <2>2. ASSUME NEW x \in Int, NEW y \in Int, x - y \in 2 .. WordMod - 2
        PROVE  x * b - y * b >= 2 * b /\ x * b - y * b <= WordMod * b - 2 * b
    <3>1. PICK d \in 2 .. WordMod - 2 : d = x - y
      BY <2>2
    <3>2. x * b - y * b = d * b
      BY <1>3, <2>2, <3>1
    <3>3. d * b >= 2 * b
      BY <1>3, <3>1
    <3>4. d * b <= (WordMod - 2) * b
      BY <1>3, <3>1
    <3>5. (WordMod - 2) * b = WordMod * b - 2 * b
      BY <1>3, <2>1
    <3> QED
      BY <3>2, <3>3, <3>4, <3>5
  <2> QED
    BY <1>8, <1>13, <2>1, <2>2
<1>15. mb > 0 /\ i \in 0 .. b /\ j \in 0 .. b
  BY <1>3, <1>13
<1>16. PICK x \in Nat : x = u + cb + i
  BY <1>9, <1>13, <1>15
<1>17. PICK y \in Nat : y = v + ab + j
  BY <1>10, <1>13, <1>15
<1>18. x # y /\ x - y < mb /\ y - x < mb
  BY <1>3, <1>9, <1>10, <1>13, <1>14, <1>15, <1>16, <1>17
<1>19. x % mb # y % mb
  BY <1>15, <1>18, SameModulo
<1> QED
  BY <1>1, <1>4, <1>11, <1>12, <1>13, <1>16, <1>17, <1>19
-----------------------------------------------------------------------------
(* The nonces that were used. *)

DownFirst == DeriveSessionNonces(nk).recv

\* What the connection and its two ends hold has its type.
Ends == conn \in 0 .. MaxConns /\ client \in End /\ pool.end \in End /\ down_open \in BOOLEAN

\* A list of nonces that counts up from base.
CountUp(seq, base) ==
  /\ IsSeq(seq) /\ \A i \in 1 .. Len(seq) : seq[i] \in Nonce
  /\ Counts(seq, base)

\* Both directions count up from their first nonce, whatever became of the
\* attempt, and the pool's next nonce goes on where the last one used left off.
Counted ==
  /\ CountUp(used.up, First) /\ CountUp(used.down, DownFirst)
  /\ Len(used.up) <= MaxSends /\ Len(used.down) <= Len(pool_sent) /\ Len(pool_sent) <= MaxPoolFrames
  /\ pool.phase \in {"off", "hello"} => used.down = <<>>
  /\ pool.phase = "up" =>
       Value(pool.end.send_nonce) = (Value(DownFirst) + Len(used.down)) % Power[Words]

NonceInv == Ends /\ Counted

HeaderKey == [chain : {"initial", "nk", "not_nk"}, seed : Seeds \cup {0}, n : Nat]

LEMMA KeysAre ==
  /\ InitialSendingKey \in HeaderKey
  /\ \A k \in Seeds : ForSender(k) \in HeaderKey /\ ForReceiver(k) \in HeaderKey
  /\ \A key \in HeaderKey : Feedback(key) \in HeaderKey
<1>1. InitialSendingKey \in HeaderKey
  BY DEF InitialSendingKey, HeaderKey
<1>2. \A k \in Seeds : ForSender(k) \in HeaderKey /\ ForReceiver(k) \in HeaderKey
  BY DEF ForSender, ForReceiver, HeaderKey
<1>3. ASSUME NEW key \in HeaderKey PROVE Feedback(key) \in HeaderKey
  <2>1. /\ key = [chain |-> key.chain, seed |-> key.seed, n |-> key.n]
        /\ key.chain \in {"initial", "nk", "not_nk"} /\ key.seed \in Seeds \cup {0} /\ key.n \in Nat
    BY DEF HeaderKey
  <2>2. Feedback(key) = [chain |-> key.chain, seed |-> key.seed, n |-> key.n + 1]
    BY <2>1 DEF Feedback
  <2> QED
    BY <2>1, <2>2 DEF HeaderKey
<1> QED
  BY <1>1, <1>2, <1>3

\* The ends of a connection, by their fields.
LEMMA EndIs ==
  ASSUME NEW e
  PROVE  e \in End <=>
           /\ e = [send_key |-> e.send_key, recv_key |-> e.recv_key,
                   send_nonce |-> e.send_nonce, recv_nonce |-> e.recv_nonce]
           /\ e.send_key \in HeaderKey /\ e.recv_key \in HeaderKey
           /\ e.send_nonce \in Nonce /\ e.recv_nonce \in Nonce
BY DEF End, HeaderKey

LEMMA IdleIs == Idle \in End
<1>1. [i \in 1 .. Words |-> 0] \in Nonce
  BY SessionAssumption DEF Nonce, Word
<1> QED
  BY <1>1, KeysAre, EndIs DEF Idle

\* The number of nonces, and the numbers of the nonces.
LEMMA ValueIs ==
  /\ Power[Words] \in Nat /\ Power[Words] > 0
  /\ \A n \in Nonce : Value(n) \in 0 .. Power[Words] - 1
<1>1. Words \in 0 .. Words
  BY SessionAssumption
<1>2. Power[Words] \in Nat /\ Power[Words] > 0
  BY <1>1, PowerIs
<1> QED
  BY <1>1, <1>2, LowBound DEF Value

\* A list that counts up goes on with the next nonce.
LEMMA CountOn ==
  ASSUME NEW seq, NEW base \in Nonce, CountUp(seq, base), NEW e \in Nonce,
         Value(e) = (Value(base) + Len(seq)) % Power[Words]
  PROVE  /\ CountUp(Append(seq, e), base) /\ Len(Append(seq, e)) = Len(seq) + 1
         /\ Value(IncrementNonce(e)) = (Value(base) + Len(Append(seq, e))) % Power[Words]
<1> DEFINE t == Append(seq, e)
<1>0. IsSeq(seq)
  BY DEF CountUp
<1>1. /\ IsSeq(t) /\ Len(t) = Len(seq) + 1 /\ t[Len(seq) + 1] = e
      /\ \A i \in 1 .. Len(seq) : t[i] = seq[i]
  BY <1>0, Appended
<1> HIDE DEF t
<1>2. PICK n \in Nat : n = Len(seq)
  BY <1>0 DEF IsSeq
<1>3. PICK m \in Nat : m = Power[Words] /\ m > 0
  BY ValueIs
<1>4. PICK v \in Nat : v = Value(base)
  BY <1>3, ValueIs
<1>5. \A i \in 1 .. n : seq[i] \in Nonce /\ Value(seq[i]) = (v + i - 1) % m
  <2>1. DOMAIN seq = 1 .. n
    BY <1>0, <1>2 DEF IsSeq
  <2> QED
    BY <1>2, <1>3, <1>4, <2>1 DEF CountUp, Counts
<1>6. \A i \in 1 .. n + 1 : t[i] \in Nonce /\ Value(t[i]) = (v + i - 1) % m
  <2>1. ASSUME NEW i \in 1 .. n PROVE t[i] \in Nonce /\ Value(t[i]) = (v + i - 1) % m
    BY <1>1, <1>2, <1>5
  <2>2. t[n + 1] \in Nonce /\ Value(t[n + 1]) = (v + n) % m
    BY <1>1, <1>2, <1>3, <1>4
  <2>3. ASSUME NEW i \in 1 .. n + 1, i \notin 1 .. n
        PROVE  i = n + 1 /\ v + i - 1 = v + n
    BY <1>2, <1>4, <2>3
  <2> QED
    BY <2>1, <2>2, <2>3
<1>7. CountUp(t, base)
  <2>1. DOMAIN t = 1 .. n + 1
    BY <1>1, <1>2 DEF IsSeq
  <2>2. Counts(t, base)
    BY <1>3, <1>4, <1>6, <2>1 DEF Counts
  <2> QED
    BY <1>1, <1>2, <1>6, <2>2 DEF CountUp
<1>8. Value(IncrementNonce(e)) = (v + (n + 1)) % m
  <2>1. Value(IncrementNonce(e)) = (Value(e) + 1) % m
    BY <1>3, IncrementCounts
  <2>2. PICK x \in Nat : x = v + n
    BY <1>2, <1>4
  <2>3. ((x % m) + 1) % m = (x + 1) % m
    BY <1>3, <2>2, AddModulo
  <2>4. Value(e) = x % m /\ x + 1 = v + (n + 1)
    BY <1>2, <1>3, <1>4, <2>2
  <2> QED
    BY <2>1, <2>3, <2>4
<1> QED
  BY <1>1, <1>2, <1>3, <1>4, <1>7, <1>8 DEF t

LEMMA CountNone ==
  ASSUME NEW base \in Nonce
  PROVE  CountUp(<<>>, base) /\ Value(base) = (Value(base) + Len(<<>>)) % Power[Words]
<1>1. PICK m \in Nat : m = Power[Words] /\ m > 0
  BY ValueIs
<1>2. PICK v \in 0 .. m - 1 : v = Value(base)
  BY <1>1, ValueIs
<1>3. (v + 0) % m = v
  BY <1>1, <1>2
<1>4. IsSeq(<<>>) /\ Len(<<>>) = 0
  BY EmptyIs
<1>5. CountUp(<<>>, base)
  BY <1>4 DEF CountUp, Counts
<1> QED
  BY <1>1, <1>2, <1>3, <1>4, <1>5

-----------------------------------------------------------------------------

LEMMA FirstIs ==
  ASSUME nk \in Seeds
  PROVE  First \in Nonce /\ DownFirst \in Nonce
BY FirstNonces DEF First, DownFirst

LEMMA EndsInit == Init => Ends
<1> SUFFICES ASSUME Init
             PROVE  Ends
  OBVIOUS
<1>1. client = Idle /\ pool.end = Idle
  BY DEF Init, PoolIdle
<1>2. conn \in 0 .. MaxConns
  BY SessionAssumption DEF Init
<1> QED
  BY <1>1, <1>2, IdleIs DEF Init, Ends

\* The client's half: what connect returns, the next key, the next nonce.
LEMMA ClientTyped ==
  ASSUME nk \in Seeds, client \in End
  PROVE  /\ Connected \in End
         /\ [client EXCEPT !.recv_key = Feedback(ForReceiver(nk))] \in End
         /\ [client EXCEPT !.send_key = Feedback(@)] \in End
         /\ [client EXCEPT !.recv_key = Feedback(@)] \in End
         /\ [client EXCEPT !.send_nonce = IncrementNonce(@)] \in End
         /\ \A n \in Nonce : [client EXCEPT !.recv_nonce = n] \in End
<1>1. /\ client = [send_key |-> client.send_key, recv_key |-> client.recv_key,
                   send_nonce |-> client.send_nonce, recv_nonce |-> client.recv_nonce]
      /\ client.send_key \in HeaderKey /\ client.recv_key \in HeaderKey
      /\ client.send_nonce \in Nonce /\ client.recv_nonce \in Nonce
  BY EndIs
<1>2. DeriveSessionNonces(nk).send \in Nonce /\ DeriveSessionNonces(nk).recv \in Nonce
  BY FirstNonces
<1>3. Connected \in End
  <2> DEFINE n == DeriveSessionNonces(nk)
             c == [send_key |-> ForSender(nk), recv_key |-> client.recv_key,
                   send_nonce |-> n.send, recv_nonce |-> n.recv]
  <2>1. Connected = c
    BY DEF Connected
  <2> HIDE DEF n
  <2>2. c.send_key = ForSender(nk) /\ c.recv_key = client.recv_key /\ c.send_nonce = n.send /\ c.recv_nonce = n.recv
    OBVIOUS
  <2>3. c = [send_key |-> c.send_key, recv_key |-> c.recv_key, send_nonce |-> c.send_nonce,
             recv_nonce |-> c.recv_nonce]
    OBVIOUS
  <2>4. n.send \in Nonce /\ n.recv \in Nonce
    BY <1>2 DEF n
  <2> HIDE DEF c
  <2> QED
    BY <1>1, <2>1, <2>2, <2>3, <2>4, KeysAre, EndIs
<1>4. /\ Feedback(ForReceiver(nk)) \in HeaderKey
      /\ Feedback(client.send_key) \in HeaderKey /\ Feedback(client.recv_key) \in HeaderKey
  BY <1>1, KeysAre
<1>5. IncrementNonce(client.send_nonce) \in Nonce
  BY <1>1, IncrementIsNonce
<1>6. \A k \in HeaderKey :
        [client EXCEPT !.send_key = k] \in End /\ [client EXCEPT !.recv_key = k] \in End
  BY <1>1 DEF End, HeaderKey
<1>7. \A n \in Nonce :
        [client EXCEPT !.send_nonce = n] \in End /\ [client EXCEPT !.recv_nonce = n] \in End
  BY <1>1 DEF End
<1> QED
  BY <1>3, <1>4, <1>5, <1>6, <1>7

LEMMA EndsKept ==
  ASSUME Ends, conn' = conn, client' \in End, pool'.end = pool.end, down_open' \in BOOLEAN
  PROVE  Ends'
BY DEF Ends, End, Nonce, Word

LEMMA ClientSteps ==
  ASSUME IInv, Ends,
         \/ Fail \/ Retry \/ SendHello \/ RecvResponseHeader \/ RecvResponseBody
         \/ PoolAnswerBody \/ WriteHeader \/ WriteBody \/ WriteFail \/ PoolClose
         \/ ReadHeader \/ ReadBody \/ ReadEof \/ (\E c \in Commands : BeginSend(c)) \/ UNCHANGED vars
  PROVE  Ends'
<1> USE DEF connVars, sendVars, readVars, poolVars
<1>1. nk \in Seeds /\ client \in End
  BY DEF IInv, Shape, Ends
<1>2. conn' = conn
  BY DEF Fail, Retry, SendHello, RecvResponseHeader, RecvResponseBody, PoolAnswerBody, WriteHeader,
         WriteBody, WriteFail, PoolClose, ReadHeader, ReadBody, ReadEof, BeginSend, vars
<1>3. pool'.end = pool.end
  <2>1. pool = [phase |-> pool.phase, end |-> pool.end, reply |-> pool.reply, pending |-> pool.pending]
    BY DEF IInv, Shape
  <2>2. CASE SendHello \/ PoolAnswerBody
    BY <2>1, <2>2 DEF SendHello, PoolAnswerBody
  <2>3. CASE ~(SendHello \/ PoolAnswerBody)
    BY <2>3 DEF Fail, Retry, RecvResponseHeader, RecvResponseBody, WriteHeader,
         WriteBody, WriteFail, PoolClose, ReadHeader, ReadBody, ReadEof, BeginSend, vars
  <2> QED
    BY <2>2, <2>3
<1>4. down_open' \in BOOLEAN
  <2>1. down_open' \in {TRUE, FALSE} \/ down_open' = down_open
          \/ down_open' = (down_open /\ phase' # "failed")
    BY DEF Fail, Retry, SendHello, RecvResponseHeader, RecvResponseBody, PoolAnswerBody, WriteHeader,
         WriteBody, WriteFail, PoolClose, ReadHeader, ReadBody, ReadEof, BeginSend, vars
  <2>2. down_open \in BOOLEAN
    BY DEF Ends
  <2> QED
    BY <2>1, <2>2, Zenon
<1>5. client' \in End
  <2>1. CASE RecvResponseHeader
    <3>1. client' = [client EXCEPT !.recv_key = Feedback(ForReceiver(nk))]
      BY <2>1 DEF RecvResponseHeader
    <3> QED
      BY <1>1, <3>1, ClientTyped
  <2>2. CASE RecvResponseBody
    <3>1. client' = Connected \/ client' = client
      BY <2>2 DEF RecvResponseBody
    <3> QED
      BY <1>1, <3>1, ClientTyped
  <2>3. CASE \E c \in Commands : BeginSend(c)
    <3>1. client' = [client EXCEPT !.send_key = Feedback(@)] \/ client' = client
      BY <2>3 DEF BeginSend
    <3> QED
      BY <1>1, <3>1, ClientTyped
  <2>4. CASE WriteBody
    <3>1. client' = [client EXCEPT !.send_nonce = IncrementNonce(@)]
      BY <2>4 DEF WriteBody
    <3> QED
      BY <1>1, <3>1, ClientTyped
  <2>5. CASE ReadHeader
    <3>1. client' = [client EXCEPT !.recv_key = Feedback(@)]
      BY <2>5 DEF ReadHeader
    <3> QED
      BY <1>1, <3>1, ClientTyped
  <2>6. CASE ReadBody
    <3>1. \/ client' = [client EXCEPT !.recv_nonce = IncrementNonce(client.recv_nonce)]
          \/ client' = [client EXCEPT !.recv_nonce = client.recv_nonce]
          \/ client' = client
      <4>1. Decrypt(header, Head(down)).nonce \in {IncrementNonce(client.recv_nonce), client.recv_nonce}
        BY DEF Decrypt
      <4>2. client' = [client EXCEPT !.recv_nonce = Decrypt(header, Head(down)).nonce] \/ client' = client
        BY <2>6 DEF ReadBody
      <4> QED
        BY <4>1, <4>2
    <3>2. client.recv_nonce \in Nonce /\ IncrementNonce(client.recv_nonce) \in Nonce
      BY <1>1, EndIs, IncrementIsNonce
    <3> QED
      BY <1>1, <3>1, <3>2, ClientTyped
  <2>7. CASE Fail \/ Retry \/ SendHello \/ PoolAnswerBody \/ WriteHeader \/ WriteFail \/ PoolClose
             \/ ReadEof \/ UNCHANGED vars
    <3>1. client' = client
      BY <2>7 DEF Fail, Retry, SendHello, PoolAnswerBody, WriteHeader, WriteFail, PoolClose, ReadEof, vars
    <3> QED
      BY <1>1, <3>1
  <2> QED
    BY <2>1, <2>2, <2>3, <2>4, <2>5, <2>6, <2>7
<1> QED
  BY <1>2, <1>3, <1>4, <1>5, EndsKept

\* The pool's half likewise.
LEMMA PoolTyped ==
  ASSUME IInv, Ends
  PROVE  /\ pool = [phase |-> pool.phase, end |-> pool.end, reply |-> pool.reply, pending |-> pool.pending]
         /\ \A k \in HeaderKey, n \in Nonce :
              /\ [pool.end EXCEPT !.recv_key = k, !.recv_nonce = n] \in End
              /\ [pool.end EXCEPT !.send_key = k, !.send_nonce = n] \in End
         /\ Feedback(pool.end.recv_key) \in HeaderKey /\ Feedback(pool.end.send_key) \in HeaderKey
         /\ pool.end.send_nonce \in Nonce
         /\ IncrementNonce(pool.end.recv_nonce) \in Nonce /\ IncrementNonce(pool.end.send_nonce) \in Nonce
<1>1. PICK e \in End : e = pool.end
  BY DEF Ends
<1>2. e.send_key \in HeaderKey /\ e.recv_key \in HeaderKey /\ e.send_nonce \in Nonce /\ e.recv_nonce \in Nonce
  BY EndIs
<1>3. \A k \in HeaderKey, n \in Nonce :
        /\ [e EXCEPT !.recv_key = k, !.recv_nonce = n] \in End
        /\ [e EXCEPT !.send_key = k, !.send_nonce = n] \in End
  BY DEF End, HeaderKey
<1>4. Feedback(e.recv_key) \in HeaderKey /\ Feedback(e.send_key) \in HeaderKey
  BY <1>2, KeysAre
<1>5. IncrementNonce(e.recv_nonce) \in Nonce /\ IncrementNonce(e.send_nonce) \in Nonce
  BY <1>2, IncrementIsNonce
<1> QED
  BY <1>1, <1>2, <1>3, <1>4, <1>5 DEF IInv, Shape

LEMMA DialNonces ==
  ASSUME IInv, Ends, Dial
  PROVE  NonceInv'
<1>1. /\ conn < MaxConns /\ conn' = conn + 1 /\ nk' \in Seeds
      /\ client' = Idle /\ pool'.end = Idle /\ pool'.phase = "off" /\ down_open' = FALSE
      /\ used'.up = <<>> /\ used'.down = <<>> /\ pool_sent' = <<>>
  BY DEF Dial, PoolIdle
<1>2. conn' \in 0 .. MaxConns
  BY <1>1, SessionAssumption DEF Ends
<1>4. Ends'
  BY <1>1, <1>2, IdleIs DEF Ends, End, Nonce, Word
<1>5. First' \in Nonce /\ DownFirst' \in Nonce
  BY <1>1, FirstNonces DEF First, DownFirst
<1>6. CountUp(used'.up, First') /\ CountUp(used'.down, DownFirst')
  BY <1>1, <1>5, CountNone
<1>7. Len(used'.up) = 0 /\ Len(used'.down) = 0 /\ Len(pool_sent') = 0
  BY <1>1, EmptyIs
<1>8. Counted'
  BY <1>1, <1>6, <1>7, SessionAssumption DEF Counted, CountUp, Counts
<1> QED
  BY <1>4, <1>8 DEF NonceInv

LEMMA AnswerNonces ==
  ASSUME IInv, NonceInv, NEW kind, PoolAnswer(kind)
  PROVE  NonceInv'
<1>1. /\ pool.phase = "hello" /\ Len(up) = 2 /\ down_open
      /\ UNCHANGED <<phase, conn, nk, client, pool_sent, used>>
  BY DEF PoolAnswer, connVars, sendVars, readVars
<1>2. phase = "await"
  BY <1>1 DEF IInv, PoolPhase
<1>3. FindNk(up[2].plain) = nk
  <2>1. up[2] = Hello
    <3>1. up # <<>>
      BY <1>1, EmptyIs
    <3> QED BY <1>1, <1>2, <3>1 DEF IInv, OnWire
  <2>2. up[2].plain = HelloPayload
    BY <2>1 DEF Hello, BoxSeal
  <2>3. conf \in Confs /\ ~HasNul(conf.version)
    BY <1>2 DEF IInv, Shape
  <2>4. PICK v \in Seq(Byte) : v = conf.version
    BY <2>3, ConfsAssumption
  <2> QED BY <2>2, <2>3, <2>4, HelloIs
<1>4. nk \in Seeds
  BY DEF IInv, Shape
<1>5. \/ pool' = pool /\ down_open' = FALSE
      \/ /\ pool'.phase = "up" /\ pool'.end.send_nonce = DownFirst
         /\ pool'.end = [send_key |-> Feedback(ForReceiver(nk)), recv_key |-> ForSender(nk),
                         send_nonce |-> DownFirst, recv_nonce |-> First]
         /\ down_open' = down_open
  <2>1. CASE pool' = pool /\ down_open' = FALSE
    BY <2>1
  <2>2. CASE ~(pool' = pool /\ down_open' = FALSE)
    <3>1. PICK b : pool' = [phase |-> "up", reply |-> kind, pending |-> << b >>,
                      end |-> [send_key |-> Feedback(ForReceiver(nk)), recv_key |-> ForSender(nk),
                               send_nonce |-> DownFirst, recv_nonce |-> First]]
             /\ down_open' = down_open
      BY <1>3, <2>2 DEF PoolAnswer, DownFirst, First
    <3> QED
      BY <3>1
  <2> QED
    BY <2>1, <2>2
<1>6. First' = First /\ DownFirst' = DownFirst
  BY <1>1 DEF First, DownFirst, DeriveSessionNonces
<1>7. pool'.end \in End
  <2>1. CASE pool' = pool
    BY <2>1 DEF NonceInv, Ends
  <2>2. CASE pool' # pool
    <3>1. First \in Nonce /\ DownFirst \in Nonce
      BY <1>4, FirstIs
    <3>2. Feedback(ForReceiver(nk)) \in HeaderKey /\ ForSender(nk) \in HeaderKey
      BY <1>4, KeysAre
    <3> HIDE DEF First, DownFirst
    <3>3. PICK e : e = pool'.end /\ e = [send_key |-> Feedback(ForReceiver(nk)), recv_key |-> ForSender(nk),
                         send_nonce |-> DownFirst, recv_nonce |-> First]
      BY <1>5, <2>2
    <3>4. e \in End
      BY <3>1, <3>2, <3>3, EndIs
    <3> QED
      BY <3>3, <3>4
  <2> QED
    BY <2>1, <2>2
<1>8. Ends'
  BY <1>1, <1>5, <1>7 DEF NonceInv, Ends, End, Nonce, Word
<1>9. used.down = <<>> /\ Len(used.down) = 0
  BY <1>1, EmptyIs DEF NonceInv, Counted
<1>10. Value(DownFirst) = (Value(DownFirst) + Len(used.down)) % Power[Words]
  BY <1>4, <1>9, FirstIs, CountNone
<1>11. Counted'
  <2>1. CountUp(used'.up, First') /\ CountUp(used'.down, DownFirst')
    BY <1>1, <1>6 DEF NonceInv, Counted
  <2>2. /\ Len(used'.up) <= MaxSends /\ Len(used'.down) <= Len(pool_sent') /\ Len(pool_sent') <= MaxPoolFrames
        /\ used'.down = <<>>
    BY <1>1, <1>9 DEF NonceInv, Counted
  <2>3. pool'.phase = "up" =>
          Value(pool'.end.send_nonce) = (Value(DownFirst') + Len(used'.down)) % Power[Words]
    BY <1>1, <1>5, <1>6, <1>10
  <2> QED
    BY <2>1, <2>2, <2>3 DEF Counted, CountUp, Counts
<1> QED
  BY <1>8, <1>11 DEF NonceInv

LEMMA CountedKept ==
  ASSUME Counted, UNCHANGED <<nk, used, pool_sent>>,
         pool'.phase \in {"off", "hello"} => pool.phase \in {"off", "hello"},
         pool'.phase = "up" => pool.phase = "up" /\ pool'.end.send_nonce = pool.end.send_nonce
  PROVE  Counted'
<1>1. First' = First /\ DownFirst' = DownFirst
  BY DEF First, DownFirst, DeriveSessionNonces
<1>2. CountUp(used'.up, First') /\ CountUp(used'.down, DownFirst')
  BY <1>1 DEF Counted
<1> QED
  BY <1>1, <1>2 DEF Counted, CountUp, Counts

LEMMA PoolRecvNonces ==
  ASSUME IInv, NonceInv, PoolRecv
  PROVE  NonceInv'
<1>1. /\ pool.phase = "up" /\ UNCHANGED <<conn, nk, client, pool_sent, used, down_open>>
      /\ \/ pool' = [pool EXCEPT !.end.recv_key = Feedback(@), !.end.recv_nonce = IncrementNonce(@)]
         \/ pool' = [pool EXCEPT !.phase = "garbled"]
  BY DEF PoolRecv, connVars, sendVars, readVars
<1>2. /\ pool'.end \in {[pool.end EXCEPT !.recv_key = Feedback(pool.end.recv_key),
                                       !.recv_nonce = IncrementNonce(pool.end.recv_nonce)], pool.end}
      /\ pool'.phase \in {"up", "garbled"}
  BY <1>1, PoolTyped DEF NonceInv
<1> DEFINE k == Feedback(pool.end.recv_key)
           n == IncrementNonce(pool.end.recv_nonce)
           e == [pool.end EXCEPT !.recv_key = k, !.recv_nonce = n]
<1>7. k \in HeaderKey /\ n \in Nonce
  BY PoolTyped DEF NonceInv
<1>8. pool'.end = e \/ pool'.end = pool.end
  BY <1>2
<1>9. pool.end \in End
  BY DEF NonceInv, Ends
<1> HIDE DEF k, n
<1>3. pool'.end \in End
  <2>1. e \in End
    BY <1>7, PoolTyped DEF NonceInv
  <2> QED
    BY <1>8, <1>9, <2>1
<1>4. Ends'
  BY <1>1, <1>3 DEF NonceInv, Ends, End, Nonce, Word
<1>5. pool'.end.send_nonce = pool.end.send_nonce
  <2>1. e.send_nonce = pool.end.send_nonce
    BY <1>9 DEF End
  <2> QED
    BY <1>8, <2>1
<1>6. Counted'
  BY <1>1, <1>2, <1>5, CountedKept DEF NonceInv
<1> QED
  BY <1>4, <1>6 DEF NonceInv

LEMMA PoolSendNonces ==
  ASSUME IInv, DownInv, NonceInv, NEW f \in PoolFrames, PoolSend(f)
  PROVE  NonceInv'
<1>1. /\ pool.phase = "up" /\ Len(pool_sent) < MaxPoolFrames /\ pool_sent' = Append(pool_sent, f)
      /\ UNCHANGED <<conn, nk, client, down_open>>
      /\ used' = IF f.channel THEN [used EXCEPT !.down = Append(@, pool.end.send_nonce)] ELSE used
      /\ pool' = [pool EXCEPT !.end.send_key = Feedback(@),
                              !.end.send_nonce = IF f.channel THEN IncrementNonce(@) ELSE @]
  BY DEF PoolSend, connVars, sendVars, readVars
<1> DEFINE k == Feedback(pool.end.send_key)
           m == pool.end.send_nonce
           n == IF f.channel THEN IncrementNonce(m) ELSE m
           e == [pool.end EXCEPT !.send_key = k, !.send_nonce = n]
<1>2. pool' = [pool EXCEPT !.end = e]
  BY <1>1, PoolTyped DEF NonceInv
<1>3. pool'.end = e /\ pool'.phase = "up"
  BY <1>1, <1>2, PoolTyped DEF NonceInv
<1>4. k \in HeaderKey /\ n \in Nonce /\ m \in Nonce
  BY PoolTyped DEF NonceInv
<1>5. pool.end \in End
  BY DEF NonceInv, Ends
<1> HIDE DEF k, m
<1>6. e \in End /\ e.send_nonce = n
  <2> HIDE DEF n
  <2>1. e \in End
    BY <1>4, PoolTyped DEF NonceInv
  <2>2. e.send_nonce = n
    BY <1>5 DEF End
  <2> QED
    BY <2>1, <2>2
<1> HIDE DEF e
<1>7. Ends'
  BY <1>1, <1>3, <1>6 DEF NonceInv, Ends, End, Nonce, Word
<1>8. DownFirst \in Nonce
  BY FirstIs DEF IInv, Shape
<1>9. First' = First /\ DownFirst' = DownFirst
  BY <1>1 DEF First, DownFirst, DeriveSessionNonces
<1> HIDE DEF First, DownFirst
<1>10. CountUp(used.up, First) /\ CountUp(used.down, DownFirst) /\ Len(used.up) <= MaxSends
  BY DEF NonceInv, Counted
<1>11. Value(m) = (Value(DownFirst) + Len(used.down)) % Power[Words]
  BY <1>1 DEF NonceInv, Counted, m
<1>12. used = [up |-> used.up, down |-> used.down]
  BY DEF IInv, Shape
<1>13. PICK q \in Nat, d \in Nat : q = Len(pool_sent) /\ d = Len(used.down) /\ d <= q /\ q < MaxPoolFrames
  BY <1>1, <1>10 DEF DownInv, Handed, IsSeq, NonceInv, Counted, CountUp
<1>14. Len(pool_sent') = q + 1
  BY <1>1, <1>13, Appended DEF DownInv, Handed
<1>15. used'.up = used.up
  BY <1>1, <1>12
<1>16. /\ CountUp(used'.down, DownFirst) /\ Len(used'.down) <= q + 1
       /\ Value(n) = (Value(DownFirst) + Len(used'.down)) % Power[Words]
  <2>1. CASE f.channel
    <3>1. used'.down = Append(used.down, m)
      BY <1>1, <1>12, <2>1 DEF m
    <3>2. n = IncrementNonce(m)
      BY <2>1
    <3>3. /\ CountUp(Append(used.down, m), DownFirst) /\ Len(Append(used.down, m)) = Len(used.down) + 1
          /\ Value(IncrementNonce(m)) = (Value(DownFirst) + Len(Append(used.down, m))) % Power[Words]
      BY <1>4, <1>8, <1>10, <1>11, CountOn
    <3> QED
      BY <1>13, <3>1, <3>2, <3>3
  <2>2. CASE ~ f.channel
    BY <1>1, <1>10, <1>11, <1>13, <2>2
  <2> QED
    BY <2>1, <2>2
<1>17. Len(pool_sent') <= MaxPoolFrames
  BY <1>13, <1>14, SessionAssumption
<1> HIDE DEF n
<1>18. Counted'
  <2>1. CountUp(used'.up, First') /\ CountUp(used'.down, DownFirst')
    BY <1>9, <1>10, <1>15, <1>16
  <2>2. Len(used'.up) <= MaxSends /\ Len(used'.down) <= Len(pool_sent')
    BY <1>10, <1>14, <1>15, <1>16
  <2>3. Value(pool'.end.send_nonce) = (Value(DownFirst') + Len(used'.down)) % Power[Words]
    BY <1>3, <1>6, <1>9, <1>16
  <2>4. pool'.phase \notin {"off", "hello"}
    BY <1>3
  <2> QED
    BY <1>17, <2>1, <2>2, <2>3, <2>4 DEF Counted, CountUp, Counts
<1> QED
  BY <1>7, <1>18 DEF NonceInv

\* The nonce of the next command.
LEMMA NextNonce ==
  ASSUME IInv, NonceInv, phase = "up", writer = "idle"
  PROVE  /\ client.send_nonce \in Nonce
         /\ Value(client.send_nonce) = (Value(First) + Len(used.up)) % Power[Words]
<1>1. First \in Nonce
  BY FirstIs DEF IInv, Shape
<1>2. /\ Len(used.up) = Len(sent)
      /\ client.send_nonce = IF sent = <<>> THEN First ELSE IncrementNonce(used.up[Len(sent)])
  BY DEF IInv, NonceChain, NonceOf
<1> HIDE DEF First
<1>3. CountUp(used.up, First) /\ IsSeq(sent) /\ IsSeq(used.up)
  BY DEF NonceInv, Counted, IInv, Shape
<1>4. PICK n \in Nat : n = Len(sent) /\ n = Len(used.up)
  BY <1>2, <1>3 DEF IsSeq
<1>5. CASE n = 0
  <2>1. sent = <<>> /\ used.up = <<>>
    BY <1>3, <1>4, <1>5, LenZero, Zenon
  <2> QED
    BY <1>1, <1>2, <2>1, CountNone
<1>6. CASE n > 0
  <2>1. sent # <<>>
    <3>1. Len(sent) # 0
      BY <1>4, <1>6
    <3> QED
      BY <3>1, EmptyIs, Zenon
  <2> DEFINE e == used.up[n]
  <2>2. PICK m \in Nat : m = Power[Words] /\ m > 0
    BY ValueIs
  <2>3. PICK v \in Nat : v = Value(First)
    BY <1>1, <2>2, ValueIs
  <2>4. e \in Nonce /\ n \in DOMAIN used.up
    BY <1>3, <1>4, <1>6 DEF CountUp, IsSeq
  <2>5. Value(e) = (v + n - 1) % m
    BY <1>3, <2>2, <2>3, <2>4 DEF CountUp, Counts
  <2>6. client.send_nonce = IncrementNonce(e)
    BY <1>2, <1>4, <2>1
  <2> HIDE DEF e
  <2>7. IncrementNonce(e) \in Nonce /\ Value(IncrementNonce(e)) = (Value(e) + 1) % m
    BY <2>2, <2>4, IncrementIsNonce, IncrementCounts
  <2>8. PICK x \in Nat : x = v + n - 1
    BY <1>6, <2>3
  <2>9. ((x % m) + 1) % m = (x + 1) % m
    BY <2>2, <2>8, AddModulo
  <2>10. x + 1 = v + n
    BY <1>4, <2>3, <2>8
  <2> QED
    BY <1>4, <2>2, <2>3, <2>5, <2>6, <2>7, <2>8, <2>9, <2>10
<1> QED
  BY <1>5, <1>6

LEMMA SendNonces ==
  ASSUME IInv, NonceInv, NEW c, BeginSend(c)
  PROVE  Counted'
<1>1. /\ phase = "up" /\ writer = "idle" /\ Len(sent) < MaxSends
      /\ used' = [used EXCEPT !.up = Append(@, client.send_nonce)]
      /\ UNCHANGED <<nk, pool, pool_sent>>
  BY DEF BeginSend, connVars, poolVars
<1>2. First \in Nonce
  BY FirstIs DEF IInv, Shape
<1>3. First' = First /\ DownFirst' = DownFirst
  BY <1>1 DEF First, DownFirst, DeriveSessionNonces
<1>4. Len(used.up) = Len(sent)
  BY <1>1 DEF IInv, NonceChain
<1> DEFINE e == client.send_nonce
<1>5. e \in Nonce /\ Value(e) = (Value(First) + Len(used.up)) % Power[Words]
  BY <1>1, NextNonce
<1>6. used'.up = Append(used.up, e) /\ used'.down = used.down
  <2>1. used = [up |-> used.up, down |-> used.down]
    BY DEF IInv, Shape
  <2> QED
    BY <1>1, <2>1
<1> HIDE DEF First, DownFirst, e
<1>7. CountUp(used.up, First) /\ CountUp(used.down, DownFirst)
  BY DEF NonceInv, Counted
<1>8. CountUp(Append(used.up, e), First) /\ Len(Append(used.up, e)) = Len(used.up) + 1
  BY <1>2, <1>5, <1>7, CountOn
<1>9. Len(used'.up) <= MaxSends
  <2>1. PICK n \in Nat : n = Len(sent)
    BY DEF IInv, Shape, IsSeq
  <2> QED
    BY <1>1, <1>4, <1>6, <1>8, <2>1, SessionAssumption
<1>10. /\ CountUp(used'.up, First') /\ CountUp(used'.down, DownFirst')
  BY <1>3, <1>6, <1>7, <1>8
<1>11. /\ Len(used'.down) <= Len(pool_sent') /\ Len(pool_sent') <= MaxPoolFrames
       /\ pool'.phase \in {"off", "hello"} => used'.down = <<>>
       /\ pool'.phase = "up" =>
            Value(pool'.end.send_nonce) = (Value(DownFirst') + Len(used'.down)) % Power[Words]
  BY <1>1, <1>3, <1>6 DEF NonceInv, Counted
<1> QED
  BY <1>9, <1>10, <1>11 DEF Counted, CountUp, Counts

LEMMA NonceInit == Init => NonceInv
<1> SUFFICES ASSUME Init
             PROVE  NonceInv
  OBVIOUS
<1>1. First \in Nonce /\ DownFirst \in Nonce
  BY FirstIs DEF Init
<1>2. used.up = <<>> /\ used.down = <<>> /\ pool_sent = <<>> /\ pool.phase = "off"
  BY DEF Init, PoolIdle
<1>3. Counted
  <2>1. CountUp(used.up, First) /\ CountUp(used.down, DownFirst)
    BY <1>1, <1>2, CountNone
  <2>2. Len(used.up) = 0 /\ Len(used.down) = 0 /\ Len(pool_sent) = 0
    BY <1>2, EmptyIs
  <2> QED
    BY <1>2, <2>1, <2>2, SessionAssumption DEF Counted
<1> QED
  BY <1>3, EndsInit DEF NonceInv

LEMMA NonceStep == IInv /\ DownInv /\ NonceInv /\ [Next]_vars => NonceInv'
<1> SUFFICES ASSUME IInv, DownInv, NonceInv, [Next]_vars
             PROVE  NonceInv'
  OBVIOUS
<1>1. Ends /\ Counted
  BY DEF NonceInv
<1>2. CASE Dial
  BY <1>1, <1>2, DialNonces
<1>3. CASE \E kind \in ReplyKinds : PoolAnswer(kind)
  BY <1>3, AnswerNonces
<1>4. CASE PoolRecv
  BY <1>4, PoolRecvNonces
<1>5. CASE \E f \in PoolFrames : PoolSend(f)
  BY <1>5, PoolSendNonces
<1>6. CASE \E c \in Commands : BeginSend(c)
  <2>1. Ends'
    BY <1>1, <1>6, ClientSteps
  <2>2. Counted'
    BY <1>6, SendNonces
  <2> QED
    BY <2>1, <2>2 DEF NonceInv
<1>7. CASE SendHello \/ PoolAnswerBody
  <2>1. Ends'
    BY <1>1, <1>7, ClientSteps
  <2>2. UNCHANGED <<nk, used, pool_sent>>
    BY <1>7 DEF SendHello, PoolAnswerBody, connVars, sendVars, readVars
  <2>3. /\ pool'.phase \in {"off", "hello"} => pool.phase \in {"off", "hello"}
        /\ pool'.phase = "up" => pool.phase = "up" /\ pool'.end.send_nonce = pool.end.send_nonce
    BY <1>1, <1>7, PoolTyped DEF SendHello, PoolAnswerBody, IInv, PoolPhase
  <2>4. Counted'
    BY <1>1, <2>2, <2>3, CountedKept
  <2> QED
    BY <2>1, <2>4 DEF NonceInv
<1>8. CASE \/ Fail \/ Retry \/ RecvResponseHeader \/ RecvResponseBody \/ WriteHeader \/ WriteBody
           \/ WriteFail \/ PoolClose \/ ReadHeader \/ ReadBody \/ ReadEof \/ UNCHANGED vars
  <2>1. Ends'
    BY <1>1, <1>8, ClientSteps
  <2>2. UNCHANGED <<nk, used, pool_sent, pool>>
    BY <1>8 DEF Fail, Retry, RecvResponseHeader, RecvResponseBody, WriteHeader, WriteBody, WriteFail,
       PoolClose, ReadHeader, ReadBody, ReadEof, vars, connVars, sendVars, readVars, poolVars
  <2>3. Counted'
    BY <1>1, <2>2, CountedKept
  <2> QED
    BY <2>1, <2>3 DEF NonceInv
<1> QED
  BY <1>2, <1>3, <1>4, <1>5, <1>6, <1>7, <1>8
     DEF Next, ClientConnect, ConnectTimeout, RecvResponseEof, Teardown

\* Two nonces of a direction differ: a direction has fewer than there are.
LEMMA OneDirection ==
  ASSUME NEW seq, NEW base \in Nonce, CountUp(seq, base), Len(seq) <= Power[Words - 1],
         NEW i \in 1 .. Len(seq), NEW j \in 1 .. Len(seq), i < j
  PROVE  seq[i] # seq[j]
<1>1. PICK m \in Nat : m = Power[Words] /\ m > 0
  BY ValueIs
<1>2. PICK b \in Nat : b = Power[Words - 1] /\ b <= m
  <2>1. Words \in 1 .. Words /\ Words - 1 \in 0 .. Words
    BY SessionAssumption
  <2>2. PICK b \in Nat : b = Power[Words - 1]
    BY <2>1, PowerIs
  <2>3. m = WordMod * b
    BY <1>1, <2>1, <2>2, PowerIs
  <2>4. WordMod * b >= 1 * b
    BY <2>2, SessionAssumption
  <2> QED
    BY <1>1, <2>2, <2>3, <2>4
<1>3. PICK v \in Nat : v = Value(base)
  BY <1>1, ValueIs
<1>4. PICK n \in Nat : n = Len(seq) /\ DOMAIN seq = 1 .. n
  BY DEF CountUp, IsSeq
<1>5. Value(seq[i]) = (v + i - 1) % m /\ Value(seq[j]) = (v + j - 1) % m
  BY <1>1, <1>3, <1>4 DEF CountUp, Counts
<1>6. PICK x \in Nat, y \in Nat : x = v + i - 1 /\ y = v + j - 1
  BY <1>3, <1>4
<1>7. x < y /\ y - x < m
  <2>1. n <= b /\ i \in 1 .. n /\ j \in 1 .. n
    BY <1>2, <1>4
  <2>2. y - x = j - i
    BY <1>3, <1>6, <2>1
  <2> QED
    BY <1>1, <1>2, <1>6, <2>1, <2>2
<1>8. x % m # y % m
  <2> SUFFICES ASSUME x % m = y % m PROVE FALSE
    OBVIOUS
  <2>1. m > 0 /\ x < y
    BY <1>1, <1>7
  <2>2. y - x >= m
    BY <2>1, SameModulo
  <2> QED
    BY <1>1, <1>6, <1>7, <2>2
<1> QED
  BY <1>5, <1>6, <1>8

LEMMA NonceInvFresh == IInv /\ DownInv /\ NonceInv => NoncesFresh
<1> SUFFICES ASSUME IInv, DownInv, NonceInv
             PROVE  NoncesFresh
  OBVIOUS
<1>1. TypeOK
  BY DEF IInv, Shape, PoolPhase, DownInv, Handed, NonceInv, Ends, TypeOK
<1>2. nk \in Seeds
  BY DEF IInv, Shape
<1> DEFINE u == used.up
           d == used.down
<1>3. PICK b \in Nat : b = Power[Words - 1] /\ MaxSends <= b /\ MaxPoolFrames <= b
  <2>1. Words - 1 \in 0 .. Words
    BY SessionAssumption
  <2> QED
    BY <2>1, PowerIs, NonceAssumption
<1>4. /\ CountUp(u, First) /\ CountUp(d, DownFirst) /\ Len(u) <= MaxSends
      /\ Len(d) <= Len(pool_sent) /\ Len(pool_sent) <= MaxPoolFrames
  BY DEF NonceInv, Counted
<1>5. Len(u) \in Nat /\ Len(d) \in Nat /\ Len(pool_sent) \in Nat
  BY <1>4 DEF CountUp, IsSeq, DownInv, Handed
<1>6. Len(u) <= b /\ Len(d) <= b
  BY <1>3, <1>4, <1>5, SessionAssumption
<1>7. First \in Nonce /\ DownFirst \in Nonce
  BY <1>2, FirstIs
<1> HIDE DEF u, d
<1>8. /\ \A i, j \in 1 .. Len(u) : i < j => u[i] # u[j]
      /\ \A i, j \in 1 .. Len(d) : i < j => d[i] # d[j]
  BY <1>3, <1>4, <1>6, <1>7, OneDirection
<1>9. ASSUME NEW i \in 1 .. Len(u), NEW j \in 1 .. Len(d) PROVE u[i] # d[j]
  <2>1. DOMAIN u = 1 .. Len(u) /\ DOMAIN d = 1 .. Len(d)
    BY <1>4 DEF CountUp, IsSeq
  <2>2. PICK m \in Nat : m = Power[Words] /\ m > 0
    BY ValueIs
  <2>3. PICK v \in Nat, w \in Nat : v = Value(First) /\ w = Value(DownFirst)
    BY <1>7, <2>2, ValueIs
  <2>4. Value(u[i]) = (v + i - 1) % m /\ Value(d[j]) = (w + j - 1) % m
    BY <1>4, <2>1, <2>2, <2>3 DEF CountUp, Counts
  <2>5. PICK p \in 0 .. b, q \in 0 .. b : p = i - 1 /\ q = j - 1
    BY <1>3, <1>5, <1>6
  <2>6. (v + p) % m # (w + q) % m
    BY <1>2, <1>3, <2>2, <2>3, <2>5, DirectionsApart DEF First, DownFirst
  <2>7. v + i - 1 = v + p /\ w + j - 1 = w + q
    BY <2>3, <2>5
  <2> QED
    BY <2>4, <2>6, <2>7
<1>10. LET all == used.up \o used.down
       IN  \A i, j \in DOMAIN all : i # j => all[i] # all[j]
  <2> DEFINE all == u \o d
  <2>1. IsSeq(u) /\ IsSeq(d)
    BY <1>4 DEF CountUp
  <2>2. /\ IsSeq(all) /\ Len(all) = Len(u) + Len(d)
        /\ \A i \in 1 .. Len(u) : all[i] = u[i]
        /\ \A i \in 1 .. Len(d) : all[Len(u) + i] = d[i]
    BY <2>1, Concatenated
  <2> HIDE DEF all
  <2>3. PICK m \in Nat, n \in Nat : m = Len(u) /\ n = Len(d)
    BY <1>5
  <2>4. DOMAIN all = 1 .. m + n
    BY <2>2, <2>3 DEF IsSeq
  <2>5. \A j \in m + 1 .. m + n : j - m \in 1 .. n /\ all[j] = d[j - m]
    <3> SUFFICES ASSUME NEW j \in m + 1 .. m + n
                 PROVE  j - m \in 1 .. n /\ all[j] = d[j - m]
      OBVIOUS
    <3>1. PICK k \in 1 .. n : k = j - m /\ m + k = j
      BY <2>3
    <3> QED
      BY <2>2, <2>3, <3>1
  <2>6. ASSUME NEW i \in 1 .. m + n, NEW j \in 1 .. m + n, i < j PROVE all[i] # all[j]
    <3>1. CASE j <= m
      BY <1>8, <2>2, <2>3, <2>6, <3>1
    <3>2. CASE i > m
      <4>0. i - m \in 1 .. n /\ j - m \in 1 .. n /\ i - m < j - m
        BY <2>3, <2>6, <3>2
      <4>1. PICK k \in 1 .. n, l \in 1 .. n : k = i - m /\ l = j - m /\ k < l
        BY <4>0
      <4>2. all[i] = d[k] /\ all[j] = d[l]
        BY <2>3, <2>5, <2>6, <3>2, <4>1
      <4> QED
        BY <1>8, <2>3, <4>1, <4>2
    <3>3. CASE i <= m /\ j > m
      <4>0. j \in m + 1 .. m + n
        BY <2>3, <3>3
      <4>1. PICK l \in 1 .. n : l = j - m /\ all[j] = d[l]
        BY <2>5, <4>0
      <4>2. all[i] = u[i] /\ i \in 1 .. m
        BY <2>2, <2>3, <3>3
      <4> QED
        BY <1>9, <2>3, <4>1, <4>2
    <3> QED
      BY <2>3, <3>1, <3>2, <3>3
  <2>7. \A i, j \in DOMAIN all : i # j => all[i] # all[j]
    <3> SUFFICES ASSUME NEW i \in 1 .. m + n, NEW j \in 1 .. m + n, i # j
                 PROVE  all[i] # all[j]
      BY <2>4
    <3>1. i < j \/ j < i
      BY <2>3
    <3> QED
      BY <2>6, <3>1
  <2> QED
    BY <2>7 DEF all, u, d
<1>11. phase = "up" =>
         LET n == DeriveSessionNonces(nk) IN Counts(used.up, n.send) /\ Counts(used.down, n.recv)
  BY <1>4 DEF CountUp, First, DownFirst, u, d
<1> QED
  BY <1>1, <1>10, <1>11 DEF NoncesFresh

\* No nonce encrypts two bodies under the session key, in one direction or across
\* the two, also when a send fails half way or its header does not pack: each
\* direction counts up from its derived nonce through every carry and wrap of
\* increment_nonce, and the two start further apart than they count.
THEOREM NoncesNeverRepeat == Spec => []NoncesFresh
<1>1. Init => IInv /\ DownInv /\ NonceInv
  BY InitOk, DownInit, NonceInit
<1>2. IInv /\ DownInv /\ NonceInv /\ [Next]_vars => IInv' /\ DownInv' /\ NonceInv'
  BY StepKeeps, DownStepKeeps, NonceStep
<1>3. IInv /\ DownInv /\ NonceInv => NoncesFresh
  BY NonceInvFresh
<1> QED BY <1>1, <1>2, <1>3, PTL DEF Spec
=============================================================================
