---------------------------- MODULE DatumSession ----------------------------
(***************************************************************************)
(* A DATUM connection below the message level: DatumClient::connect and    *)
(* its handshake, then send_frame and recv_frame on the two halves of the  *)
(* connection.  Each frame is a header obfuscated with the next key of a   *)
(* chain and a body encrypted under the next nonce of a counter.  Nothing  *)
(* on the wire says which key or which nonce was used: the two ends stay   *)
(* in step or understand nothing.                                          *)
(*                                                                         *)
(* Cryptography is symbolic.  A header word is readable only with the key  *)
(* it was written with, a sealed body only with the recipient's key, an    *)
(* encrypted one only with its nonce.  A chain is its seed and a position. *)
(* A nonce keeps its arithmetic: a number of WordMod-valued words.         *)
(*                                                                         *)
(* The streams up (to the pool) and down hold headers and bodies as items, *)
(* so a frame can be torn between the two.  The pool is external; until    *)
(* the handshake is done it is mock_pool.rs, or one that answers wrongly.  *)
(***************************************************************************)
EXTENDS Messages, FiniteSets

CONSTANTS
  Seeds,         \* values of nk
  Words,         \* words of a nonce (6)
  WordMod,       \* values of a word (2^32)
  BaseNonce,     \* the receiver nonce the mixing chain yields for each seed
  Mask,          \* a word XOR 0x57575757
  Confs,         \* what the gateway may be set up with: [version, pool_pub]
  ShareBodies,   \* shares the runtime submits, encoded
  Requests,      \* coinbaser requests
  RawFrames,     \* frames sent through the Raw escape hatch
  PoolFrames,    \* frames the pool may send once the session is up
  MaxSends,      \* bound: commands per connection
  MaxPoolFrames, \* bound: pool frames per connection
  MaxConns       \* bound: connection attempts

Word  == 0 .. WordMod - 1
Nonce == [1 .. Words -> Word]

ASSUME SessionAssumption ==
  /\ Words \in Nat \ {0} /\ WordMod \in Nat \ {0, 1}
  /\ Mask \in [Word -> Word] /\ BaseNonce \in [Seeds -> Nonce]
  /\ MaxSends \in Nat /\ MaxPoolFrames \in Nat /\ MaxConns \in Nat

\* A version text is bytes.
ASSUME ConfsAssumption == \A c \in Confs : c.version \in Seq(Byte)

VARIABLES
  phase,     \* DatumClient::connect: where the attempt is
  conn,      \* attempts started
  nk,        \* seed of this attempt
  conf,      \* version text and pool key the attempt uses
  client,    \* Connected: [send_key, recv_key, send_nonce, recv_nonce]
  pool,      \* the pool: its phase, the same four, its answer and what is left of it
  up, down,  \* bytes on the wire, as items
  down_open, \* the pool has not closed
  writer,    \* send_frame: "idle", "header", "body" (next write) or "ended"
  frame,     \* the frame being written
  reader,    \* recv_frame: "header", "body" (next read) or "ended"
  header,    \* the header the reader has unpacked
  sent, got, \* history: bodies given to send_frame; bodies the pool decrypted
  pool_sent, events, \* history: frames the pool sent; events handed up
  used       \* history: nonces bodies were encrypted with, in each direction

connVars == <<phase, conn, nk, conf>>
sendVars == <<writer, frame, sent>>
readVars == <<reader, header, events>>
poolVars == <<pool, got, pool_sent, down_open>>
vars == <<connVars, client, up, down, sendVars, readVars, poolVars, used>>

-----------------------------------------------------------------------------
(* Header keys, nonces and boxes. *)

InitialSendingKey == [chain |-> "initial", seed |-> 0, n |-> 0]
ForSender(k)      == [chain |-> "nk", seed |-> k, n |-> 0]
ForReceiver(k)    == [chain |-> "not_nk", seed |-> k, n |-> 0]
Feedback(key)     == [key EXCEPT !.n = @ + 1]

Obfuscate(key, word) == [item |-> "header", key |-> key, word |-> word]
Readable(key, wire)  == wire.item = "header" /\ wire.key = key

BoxSeal(to, plain)         == [item |-> "body", box |-> "seal", key |-> to, nonce |-> <<>>,
                               plain |-> plain, len |-> Len(plain) + 48]
BoxEasy(key, nonce, plain) == [item |-> "body", box |-> "secret", key |-> key, nonce |-> nonce,
                               plain |-> plain, len |-> Len(plain) + 16]
Plain(plain)               == [item |-> "body", box |-> "none", key |-> 0, nonce |-> <<>>,
                               plain |-> plain, len |-> Len(plain)]
SealOpens(body, key)       == body.box = "seal" /\ body.key = key
BoxOpens(body, key, nonce) == body.box = "secret" /\ body.key = key /\ body.nonce = nonce

DeriveSessionNonces(k) ==
  [send |-> [i \in 1 .. Words |-> Mask[BaseNonce[k][i]]], recv |-> BaseNonce[k]]

\* A word is incremented when all words below it wrapped to zero.
IncrementNonce(n) ==
  [i \in 1 .. Words |->
     IF \A j \in 1 .. i - 1 : n[j] = WordMod - 1 THEN (n[i] + 1) % WordMod ELSE n[i]]

\* What one unit of word i + 1 counts for; Power[Words] is the number of nonces.
Power[i \in 0 .. Words] == IF i = 0 THEN 1 ELSE WordMod * Power[i - 1]

\* The numbers that the lowest words of a nonce stand for, least significant
\* word first, and the number of the whole nonce.
LowWords(n) == LET low[i \in 0 .. Words] == IF i = 0 THEN 0 ELSE low[i - 1] + n[i] * Power[i - 1]
               IN  low
Value(n) == LowWords(n)[Words]

\* A word and its mask are far apart on the circle of words (by 682 million for
\* 0x57575757), and a connection has fewer frames than the lower words count.
ASSUME NonceAssumption ==
  /\ \A w \in Word : (Mask[w] + WordMod - w) % WordMod \in 2 .. WordMod - 2
  /\ MaxSends <= Power[Words - 1] /\ MaxPoolFrames <= Power[Words - 1]

-----------------------------------------------------------------------------
(* The handshake. *)

SessionKey(c) == <<"client", c>>
PoolKey       == <<"pool", 0>>
PoolSession   == <<"pool_session", 0>>
ClientKeys(c) == << <<"lt_ed", c>>, <<"lt_x", c>>, <<"session_ed", c>>, SessionKey(c) >>

HasNul(t) == \E i \in DOMAIN t : t[i] = 0

\* Fields 1-9 of the hello: four keys, text, NUL, sentinel, nk, padding; the
\* signature covers them all.
HelloFields  == ClientKeys(conn) \o conf.version \o << 0, 254, nk, 1 >>
HelloPayload == HelloFields \o << <<"sig", <<"lt_ed", conn>>, HelloFields>> >>

\* find_nk: the first NUL behind the keys, then the sentinel, then nk.
NulAt(plain) == CHOOSE i \in 5 .. Len(plain) : plain[i] = 0 /\ \A j \in 5 .. i - 1 : plain[j] # 0
HasSeed(plain) ==
  /\ \E i \in 5 .. Len(plain) - 1 : plain[i] = 0
  /\ plain[NulAt(plain) + 1] = 254
FindNk(plain) == plain[NulAt(plain) + 2]
Signed(plain) == plain[Len(plain)] = <<"sig", plain[1], SubSeq(plain, 1, Len(plain) - 1)>>

Header(len, signed, pubkey, channel, cmd) ==
  [cmd_len |-> len, is_signed |-> signed, is_encrypted_pubkey |-> pubkey,
   is_encrypted_channel |-> channel, proto_cmd |-> cmd]

Idle == [send_key |-> InitialSendingKey, recv_key |-> InitialSendingKey,
         send_nonce |-> [i \in 1 .. Words |-> 0], recv_nonce |-> [i \in 1 .. Words |-> 0]]

PoolIdle == [phase |-> "off", end |-> Idle, reply |-> "none", pending |-> <<>>]

Init ==
  /\ phase = "idle" /\ conn = 0 /\ nk \in Seeds /\ conf \in Confs
  /\ client = Idle /\ pool = PoolIdle
  /\ up = <<>> /\ down = <<>> /\ down_open = FALSE
  /\ writer = "idle" /\ frame = <<>> /\ reader = "header" /\ header = <<>>
  /\ sent = <<>> /\ got = <<>> /\ pool_sent = <<>> /\ events = <<>>
  /\ used = [up |-> <<>>, down |-> <<>>]

-----------------------------------------------------------------------------
(* DatumClient::connect. *)

Fail ==
  /\ phase' = "failed" /\ down_open' = FALSE
  /\ UNCHANGED <<conn, nk, conf, client, pool, up, down, sendVars, readVars, got, pool_sent, used>>

\* Fresh keys and a fresh nk; the hello is built before the connection is
\* made, and a version with a NUL byte is refused.
Dial ==
  /\ phase = "idle" /\ conn < MaxConns
  /\ conn' = conn + 1 /\ nk' \in Seeds
  /\ phase' = IF HasNul(conf.version) THEN "failed" ELSE "dial"
  /\ client' = Idle /\ pool' = PoolIdle
  /\ up' = <<>> /\ down' = <<>> /\ down_open' = FALSE
  /\ writer' = "idle" /\ frame' = <<>> /\ reader' = "header" /\ header' = <<>>
  /\ sent' = <<>> /\ got' = <<>> /\ pool_sent' = <<>> /\ events' = <<>>
  /\ used' = [up |-> <<>>, down |-> <<>>]
  /\ UNCHANGED conf

\* The connection is accepted and the hello written.
SendHello ==
  /\ phase = "dial"
  /\ LET sealed == BoxSeal(conf.pool_pub, HelloPayload)
         raw    == Pack(Header(sealed.len, TRUE, TRUE, FALSE, 1))
     IN  up' = << Obfuscate(InitialSendingKey, raw), sealed >>
  /\ pool' = [pool EXCEPT !.phase = "hello"]
  /\ down_open' = TRUE /\ phase' = "await"
  /\ UNCHANGED <<conn, nk, conf, client, down, sendVars, readVars, got, pool_sent, used>>

\* Mutant: the body of the response is awaited without a timeout.
ConnectTimeoutHeader == phase \in {"dial", "await"} /\ Fail

\* Connecting, writing and reading are each given up after timeout_dur.
ConnectTimeout == phase \in {"dial", "await", "await_body"} /\ Fail

\* The pool: open the hello, verify it, take nk out of it, answer.  kind says
\* how: as mock_pool.rs does, or wrongly.
Response(keys, kind) ==
  LET plain  == (IF kind = "echo" THEN << keys[1], keys[2], keys[4], keys[3] >> ELSE keys)
                  \o (IF kind = "short" THEN <<>> ELSE << <<"pool_ed", 0>>, PoolSession, 77, 0 >>)
      sealed == IF kind = "empty" THEN Plain(<<>>)
                ELSE BoxSeal(IF kind = "box" THEN PoolKey ELSE keys[4], plain)
  IN  [cmd |-> IF kind = "cmd" THEN 3 ELSE 2, body |-> sealed]

PoolAnswer(kind) ==
  /\ pool.phase = "hello" /\ Len(up) = 2 /\ down_open
  /\ Readable(InitialSendingKey, up[1])
  /\ up' = <<>>
  /\ LET plain == up[2].plain
         k     == FindNk(plain)
         r     == Response(SubSeq(plain, 1, 4), kind)
         raw   == Pack(Header(r.body.len, FALSE, TRUE, FALSE, r.cmd))
         n     == DeriveSessionNonces(k)
     IN  IF SealOpens(up[2], PoolKey) /\ Signed(plain) /\ HasSeed(plain)
         THEN /\ down' = << Obfuscate(ForReceiver(k), raw) >>
              /\ pool' = [phase |-> "up", reply |-> kind, pending |-> << r.body >>,
                          end |-> [send_key |-> Feedback(ForReceiver(k)), recv_key |-> ForSender(k),
                                   send_nonce |-> n.recv, recv_nonce |-> n.send]]
              /\ UNCHANGED down_open
         ELSE down_open' = FALSE /\ UNCHANGED <<down, pool>>
  /\ UNCHANGED <<connVars, client, sendVars, readVars, got, pool_sent, used>>

\* Header and body are written one after the other.
PoolAnswerBody ==
  /\ pool.pending # <<>>
  /\ down' = down \o pool.pending /\ pool' = [pool EXCEPT !.pending = <<>>]
  /\ UNCHANGED <<connVars, client, up, sendVars, readVars, got, pool_sent, down_open, used>>

ReplyKinds == {"pong", "cmd", "empty", "short", "echo", "box"}

\* The header of the response: long enough for a sealed box, and a Pong.  The
\* receiver chain advances by one and stays with the connection.
RecvResponseHeader ==
  /\ phase = "await" /\ down # <<>>
  /\ LET key == ForReceiver(nk)
         h   == Unpack(Head(down).word)
     IN  /\ header' = h
         /\ client' = [client EXCEPT !.recv_key = Feedback(key)]
         /\ phase' = IF Readable(key, Head(down)) /\ h.cmd_len >= 48 /\ FromBits(h.proto_cmd) = "Pong"
                     THEN "await_body" ELSE "failed"
         /\ down_open' = (down_open /\ phase' # "failed")
  /\ down' = Tail(down)
  /\ UNCHANGED <<conn, nk, conf, pool, up, sendVars, reader, events, got, pool_sent, used>>

\* Mutant: the connection starts a receiver chain of its own instead of
\* taking over the one that read the response.
ConnectedFreshChain ==
  LET n == DeriveSessionNonces(nk)
  IN  [send_key |-> ForSender(nk), recv_key |-> ForReceiver(nk), send_nonce |-> n.send, recv_nonce |-> n.recv]

\* The Connected that connect returns.
Connected ==
  LET n == DeriveSessionNonces(nk)
  IN  [send_key |-> ForSender(nk), recv_key |-> client.recv_key,
       send_nonce |-> n.send, recv_nonce |-> n.recv]

\* Mutant: the keys in the response are not compared.
EchoUnchecked(body) ==
  /\ SealOpens(body, SessionKey(conn))
  /\ Len(body.plain) >= 6

\* The body: sealed to the session key, long enough, our four keys echoed.
EchoOk(body) ==
  /\ SealOpens(body, SessionKey(conn))
  /\ Len(body.plain) >= 6
  /\ SubSeq(body.plain, 1, 4) = ClientKeys(conn)

RecvResponseBody ==
  /\ phase = "await_body" /\ down # <<>>
  /\ down' = Tail(down)
  /\ IF EchoOk(Head(down))
     THEN phase' = "up" /\ client' = Connected /\ UNCHANGED down_open
     ELSE phase' = "failed" /\ down_open' = FALSE /\ UNCHANGED client
  /\ UNCHANGED <<conn, nk, conf, pool, up, sendVars, readVars, got, pool_sent, used>>

\* read_exact meets the end of the stream.
RecvResponseEof ==
  /\ phase \in {"await", "await_body"} /\ down = <<>> /\ ~down_open
  /\ Fail

\* The runtime's backoff is over.
Retry ==
  /\ phase = "failed"
  /\ phase' = "idle"
  /\ UNCHANGED <<conn, nk, conf, client, up, down, sendVars, readVars, poolVars, used>>

-----------------------------------------------------------------------------
(* send_frame, called by Connected::run for one command after the other.   *)

SessionBox == <<SessionKey(conn), PoolSession>>   \* box_beforenm

Commands ==
  {[cmd |-> 5, body |-> b] : b \in ShareBodies}
    \cup {[cmd |-> 5, body |-> EncodeRequest(r) \o << 9 >>] : r \in Requests} \cup RawFrames

\* The body is encrypted and the header packed and obfuscated before anything
\* is written.  A header that does not pack ends run with the chain untouched.
BeginSend(c) ==
  /\ phase = "up" /\ writer = "idle" /\ Len(sent) < MaxSends
  /\ LET ct == BoxEasy(SessionBox, client.send_nonce, c.body)
         h  == Header(ct.len, FALSE, FALSE, TRUE, c.cmd)
     IN  IF CanPack(h)
         THEN /\ frame' = << Obfuscate(client.send_key, Pack(h)), ct >>
              /\ client' = [client EXCEPT !.send_key = Feedback(@)]
              /\ writer' = "header" /\ sent' = Append(sent, c.body)
         ELSE writer' = "ended" /\ UNCHANGED <<frame, client, sent>>
  /\ used' = [used EXCEPT !.up = Append(@, client.send_nonce)]
  /\ UNCHANGED <<connVars, up, down, readVars, poolVars>>

WriteHeader ==
  /\ phase = "up" /\ writer = "header"
  /\ up' = Append(up, frame[1]) /\ writer' = "body"
  /\ UNCHANGED <<connVars, client, down, frame, sent, readVars, poolVars, used>>

\* The nonce is incremented once the whole frame is written.
WriteBody ==
  /\ phase = "up" /\ writer = "body"
  /\ up' = Append(up, frame[2]) /\ writer' = "idle"
  /\ client' = [client EXCEPT !.send_nonce = IncrementNonce(@)]
  /\ UNCHANGED <<connVars, down, frame, sent, readVars, poolVars, used>>

\* Mutant: run logs the failure and goes on with the next command.
WriteFailContinues ==
  /\ phase = "up" /\ writer \in {"header", "body"}
  /\ writer' = "idle"
  /\ UNCHANGED <<connVars, client, up, down, frame, sent, readVars, poolVars, used>>

\* A write times out or fails: the frame is torn and run ends.
WriteFail ==
  /\ phase = "up" /\ writer \in {"header", "body"}
  /\ writer' = "ended"
  /\ UNCHANGED <<connVars, client, up, down, frame, sent, readVars, poolVars, used>>

\* The pool reads a frame with the keys it holds; what it cannot read makes it
\* close the connection.
PoolRecv ==
  /\ phase = "up" /\ pool.phase = "up" /\ Len(up) >= 2
  /\ up' = SubSeq(up, 3, Len(up))
  /\ IF Readable(pool.end.recv_key, up[1]) /\ BoxOpens(up[2], SessionBox, pool.end.recv_nonce)
     THEN /\ got' = Append(got, up[2].plain)
          /\ pool' = [pool EXCEPT !.end.recv_key = Feedback(@), !.end.recv_nonce = IncrementNonce(@)]
     ELSE pool' = [pool EXCEPT !.phase = "garbled"] /\ UNCHANGED got
  /\ UNCHANGED <<connVars, client, down, sendVars, readVars, pool_sent, down_open, used>>

-----------------------------------------------------------------------------
(* recv_frame and decode_event. *)

\* What the pool puts on the wire: a message, cut short or padded, signed or
\* not, encrypted or not.
Encoded(m) ==
  CASE m.kind = "share"          -> << SHARE_RESPONSE >> \o EncodeShareResponse(m)
    [] m.kind = "coinbaser"      -> << COINBASER_RESPONSE >> \o EncodeCoinbaser(m)
    [] m.kind = "config"         -> << CLIENT_CONFIG >> \o EncodeClientConfig(m)
    [] m.kind = "job_validation" -> << JOB_VALIDATION >> \o m.cmd
    [] m.kind = "block_notify"   -> m.payload

FrameBytes(f) ==
  LET whole == Encoded(f.msg) \o f.pad
  IN  SubSeq(whole, 1, Len(whole) - f.cut) \o (IF f.signed THEN Fill(7, 64) ELSE <<>>)

\* The pool may write as soon as its answer is out.
PoolSend(f) ==
  /\ pool.phase = "up" /\ pool.pending = <<>> /\ pool.reply = "pong" /\ down_open
  /\ Len(pool_sent) < MaxPoolFrames
  /\ LET body == IF f.channel THEN BoxEasy(SessionBox, pool.end.send_nonce, FrameBytes(f))
                 ELSE Plain(FrameBytes(f))
     IN  down' = down \o << Obfuscate(pool.end.send_key,
                                      Pack(Header(body.len, f.signed, FALSE, f.channel, f.cmd))), body >>
  /\ pool' = [pool EXCEPT !.end.send_key = Feedback(@),
                          !.end.send_nonce = IF f.channel THEN IncrementNonce(@) ELSE @]
  /\ used' = IF f.channel THEN [used EXCEPT !.down = Append(@, pool.end.send_nonce)] ELSE used
  /\ pool_sent' = Append(pool_sent, f)
  /\ UNCHANGED <<connVars, client, up, sendVars, readVars, got, down_open>>

PoolClose ==
  /\ down_open /\ phase = "up"
  /\ down_open' = FALSE
  /\ UNCHANGED <<connVars, client, up, down, sendVars, readVars, pool, got, pool_sent, used>>

ReadHeader ==
  /\ phase = "up" /\ reader = "header" /\ down # <<>>
  /\ down' = Tail(down)
  /\ IF Readable(client.recv_key, Head(down))
     THEN header' = Unpack(Head(down).word) /\ reader' = "body"
     ELSE reader' = "ended" /\ UNCHANGED header
  /\ client' = [client EXCEPT !.recv_key = Feedback(@)]
  /\ UNCHANGED <<connVars, up, sendVars, events, poolVars, used>>

Unknown == [kind |-> "unknown"]

\* A signature is the last 64 bytes; it is dropped unverified.
Strip(h, body) == IF h.is_signed /\ Len(body) >= 64 THEN SubSeq(body, 1, Len(body) - 64) ELSE body

SubCommand(body) ==
  CASE body[1] = SHARE_RESPONSE     -> DecodeShareResponse(Tail(body))
    [] body[1] = CLIENT_CONFIG      -> DecodeClientConfig(Tail(body))
    [] body[1] = COINBASER_RESPONSE -> DecodeCoinbaser(Tail(body))
    [] body[1] = JOB_VALIDATION     -> DecodeJobValidation(Tail(body))
    [] OTHER                        -> Unknown

DecodeEvent(h, body) ==
  CASE h.proto_cmd = 25 /\ ~h.is_signed /\ ~h.is_encrypted_pubkey -> DecodeBlockNotify(body)
    [] FromBits(h.proto_cmd) = "Coinbaser" ->
         IF body = <<>> THEN Err
         ELSE IF body[1] \in {COINBASER_RESPONSE, JOB_VALIDATION} THEN SubCommand(body) ELSE Unknown
    [] OTHER -> IF body = <<>> THEN Unknown ELSE SubCommand(body)

\* The frames the pool may send: a whole one decodes to its message, and one cut
\* short has lost so much that it is refused or unknown.
ASSUME FramesAssumption ==
  \A f \in PoolFrames :
    /\ f.signed \in BOOLEAN /\ f.channel \in BOOLEAN /\ f.cut \in Nat /\ f.cmd \in 0 .. 31
    /\ LET len == Len(FrameBytes(f)) + (IF f.channel THEN 16 ELSE 0)
           h   == Unpack(Pack(Header(len, f.signed, FALSE, f.channel, f.cmd)))
           ev  == DecodeEvent(h, Strip(h, FrameBytes(f)))
       IN  IF f.cut = 0 THEN ev = f.msg /\ ev # Err ELSE ev \in {Err, Unknown}

\* Only a body encrypted for the channel uses the nonce up; every other body is
\* passed on as it came.
Decrypt(h, body) ==
  IF h.is_encrypted_channel /\ ~h.is_encrypted_pubkey
  THEN [ok |-> BoxOpens(body, SessionBox, client.recv_nonce), nonce |-> IncrementNonce(client.recv_nonce)]
  ELSE [ok |-> TRUE, nonce |-> client.recv_nonce]

\* The event channel is drained by the runtime (see Upstream).
ReadBody ==
  /\ phase = "up" /\ reader = "body" /\ down # <<>>
  /\ down' = Tail(down)
  /\ LET d  == Decrypt(header, Head(down))
         ev == DecodeEvent(header, Strip(header, Head(down).plain))
     IN  IF d.ok
         THEN /\ client' = [client EXCEPT !.recv_nonce = d.nonce]
              /\ IF ev = Err THEN reader' = "ended" /\ UNCHANGED events
                 ELSE reader' = "header" /\ events' = Append(events, ev)
         ELSE reader' = "ended" /\ UNCHANGED <<client, events>>
  /\ UNCHANGED <<connVars, up, sendVars, header, poolVars, used>>

ReadEof ==
  /\ phase = "up" /\ reader # "ended" /\ down = <<>> /\ ~down_open
  /\ reader' = "ended"
  /\ UNCHANGED <<connVars, client, up, down, sendVars, header, events, poolVars, used>>

\* Both halves have ended: the runtime gives the connection up.
Teardown ==
  /\ phase = "up" /\ reader = "ended" /\ writer = "ended"
  /\ Fail

-----------------------------------------------------------------------------
ClientConnect ==
  \/ SendHello \/ ConnectTimeout \/ RecvResponseHeader \/ RecvResponseBody \/ RecvResponseEof

Next ==
  \/ Dial \/ ClientConnect \/ Retry
  \/ \E kind \in ReplyKinds : PoolAnswer(kind)
  \/ PoolAnswerBody \/ PoolRecv \/ PoolClose
  \/ \E f \in PoolFrames : PoolSend(f)
  \/ \E c \in Commands : BeginSend(c)
  \/ WriteHeader \/ WriteBody \/ WriteFail
  \/ ReadHeader \/ ReadBody \/ ReadEof \/ Teardown

\* connect is one future that is polled until it is done, and its timers fire.
Spec == Init /\ [][Next]_vars /\ WF_vars(ClientConnect)

-----------------------------------------------------------------------------
(* Properties. *)

End == [send_key : [chain : {"initial", "nk", "not_nk"}, seed : Seeds \cup {0}, n : Nat],
        recv_key : [chain : {"initial", "nk", "not_nk"}, seed : Seeds \cup {0}, n : Nat],
        send_nonce : Nonce, recv_nonce : Nonce]

\* Every variable keeps its type; the nonces of both ends stay arrays of words
\* whatever increment_nonce does to them.
TypeOK ==
  /\ phase \in {"idle", "dial", "await", "await_body", "up", "failed"}
  /\ conn \in 0 .. MaxConns /\ nk \in Seeds /\ conf \in Confs
  /\ client \in End /\ pool.end \in End
  /\ pool.phase \in {"off", "hello", "up", "garbled"} /\ down_open \in BOOLEAN
  /\ writer \in {"idle", "header", "body", "ended"} /\ reader \in {"header", "body", "ended"}

\* The events handed up are the messages the pool sent, in its order.
EventsMatch ==
  \A i \in DOMAIN events :
    events[i] = IF pool_sent[i].cut = 0 THEN pool_sent[i].msg ELSE Unknown

\* Towards the gateway the two ends stay in step: recv_frame and decode_event
\* hand up the messages the pool sent, none skipped, repeated, garbled or read
\* out of a frame that was cut short, whatever mix of signed, encrypted and
\* plain frames; and the receive loop ends only on a frame cut short or at the
\* end of the stream.
DownInOrder ==
  /\ EventsMatch
  /\ reader = "ended" =>
       \/ down = <<>> /\ ~down_open
       \/ Len(events) < Len(pool_sent) /\ pool_sent[Len(events) + 1].cut > 0

\* Towards the pool: connect returns only with a pool that opened this hello and
\* echoed its keys, and that pool then decrypts exactly the bodies given to
\* send_frame, in order, and never meets a frame it cannot read.
UpInOrder ==
  /\ phase = "up" => pool.phase # "off" /\ pool.reply = "pong"
  /\ Len(got) <= Len(sent) /\ got = SubSeq(sent, 1, Len(got))
  /\ pool.phase # "garbled"

Counts(seq, base) ==
  \A i \in DOMAIN seq : Value(seq[i]) = (Value(base) + i - 1) % Power[Words]

\* No nonce encrypts two bodies under the session key, in one direction or
\* across the two, also when a send fails half way; each direction counts up from
\* its derived nonce through every carry and wrap of increment_nonce.
NoncesFresh ==
  /\ TypeOK
  /\ LET all == used.up \o used.down
     IN  \A i, j \in DOMAIN all : i # j => all[i] # all[j]
  /\ phase = "up" =>
       LET n == DeriveSessionNonces(nk) IN Counts(used.up, n.send) /\ Counts(used.down, n.recv)

\* Every attempt to connect ends, with a session or with an error, however
\* long the pool stalls and wherever it stops.
AttemptsSettle == phase \in {"dial", "await", "await_body"} ~> phase \in {"up", "failed"}
=============================================================================
