------------------------------ MODULE Messages ------------------------------
(***************************************************************************)
(* The DATUM message bodies and the frame header, byte by byte: the layout *)
(* is what the two ends must agree on.  A byte is a number below 256, a    *)
(* body a sequence of bytes, and a number field its little-endian bytes.   *)
(* What a body decodes to is a record with a kind; Err is a refused one.   *)
(*                                                                         *)
(* Offsets in the comments count from 0 as in the code; Slice does too.    *)
(***************************************************************************)
EXTENDS Integers, Sequences, Functions

CONSTANTS
  MaxBlob,   \* longest coinbaser blob (32767)
  MaxCmdLen  \* frame bodies are shorter than this (1 << 22)

ASSUME MessagesAssumption ==
  MaxBlob \in Nat \ {0} /\ MaxCmdLen \in Nat \ {0} /\ MaxCmdLen <= 4194304

Byte == 0 .. 255
Err  == [kind |-> "error"]

\* uN::to_le_bytes and from_le_bytes on w bytes.
LE(n, w) ==
  LET q[i \in 0 .. w] == IF i = 0 THEN n ELSE q[i - 1] \div 256
  IN  [i \in 1 .. w |-> q[i - 1] % 256]

FromLE(b) == FoldFunctionOnSet(+, 0, [i \in DOMAIN b |-> IF b[i] = 0 THEN 0 ELSE b[i] * 256 ^ (i - 1)],
                               DOMAIN b)

Slice(body, from, len) == SubSeq(body, from + 1, from + len)
Fill(b, n)             == [i \in 1 .. n |-> b]

-----------------------------------------------------------------------------
(* The frame header: 22 bits of length, three flags, five bits of command. *)

Bit(b) == IF b THEN 1 ELSE 0

CanPack(h) == h.cmd_len < MaxCmdLen /\ h.proto_cmd < 32

Pack(h) ==
  << h.cmd_len % 256, (h.cmd_len \div 256) % 256, (h.cmd_len \div 65536) % 64,
     Bit(h.is_signed) + 2 * Bit(h.is_encrypted_pubkey) + 4 * Bit(h.is_encrypted_channel)
       + 8 * (h.proto_cmd % 32) >>

Unpack(b) ==
  [cmd_len              |-> b[1] + 256 * b[2] + 65536 * (b[3] % 64),
   is_signed            |-> b[4] % 2 = 1,
   is_encrypted_pubkey  |-> (b[4] \div 2) % 2 = 1,
   is_encrypted_channel |-> (b[4] \div 4) % 2 = 1,
   proto_cmd            |-> b[4] \div 8]

\* ProtoCmd::from_bits: 0x10 stands for Coinbaser and JobValidation, 0x19 for
\* ClientConfig and BlockNotify.
FromBits(b) ==
  CASE b = 1  -> "Ping"         [] b = 2  -> "Pong"     [] b = 3 -> "Hello"
    [] b = 16 -> "Coinbaser"    [] b = 17 -> "CoinbaserAck"
    [] b = 7  -> "Share"        [] b = 15 -> "ShareAck"
    [] b = 25 -> "ClientConfig" [] OTHER  -> "Unknown"

-----------------------------------------------------------------------------
(* Pool to gateway. *)

COINBASER_RESPONSE == 17
CLIENT_CONFIG      == 153
SHARE_RESPONSE     == 143
JOB_VALIDATION     == 80
ShareStatus        ==
  [s \in {80, 85, 102} |-> CASE s = 80 -> "accepted" [] s = 85 -> "tentative" [] s = 102 -> "rejected"]

EncodeShareResponse(m) ==
  << CHOOSE s \in DOMAIN ShareStatus : ShareStatus[s] = m.status >>
    \o LE(m.reason, 2) \o LE(m.nonce, 4) \o << m.target_pot, m.job_id >>

DecodeShareResponse(body) ==
  IF Len(body) < 9 \/ body[1] \notin DOMAIN ShareStatus THEN Err
  ELSE [kind |-> "share", status |-> ShareStatus[body[1]], reason |-> FromLE(Slice(body, 1, 2)),
        nonce |-> FromLE(Slice(body, 3, 4)), target_pot |-> body[8], job_id |-> body[9]]

EncodeCoinbaser(m) == LE(m.value, 8) \o LE(Len(m.blob), 4) \o m.blob

DecodeCoinbaser(body) ==
  IF Len(body) < 12 THEN Err
  ELSE LET blob_len == FromLE(Slice(body, 8, 4))
       IN  IF blob_len \notin 1 .. MaxBlob \/ blob_len > Len(body) - 12 THEN Err
           ELSE [kind |-> "coinbaser", value |-> FromLE(Slice(body, 0, 8)),
                 blob |-> Slice(body, 12, blob_len)]

EncodeClientConfig(m) ==
  << 1, Len(m.scriptsig) % 256 >> \o m.scriptsig \o LE(m.prime_id, 4)
    \o << Len(m.tag) % 256 >> \o m.tag \o LE(m.vardiff_min, 8) \o << 0, 254 >>

\* Each field is read only after its bytes were seen to be there.
DecodeClientConfig(body) ==
  LET prime   == 2 + body[2]
      tag     == prime + 5
      vardiff == tag + body[tag]
      trailer == vardiff + 8
  IN  IF /\ Len(body) >= 2 /\ body[1] = 1
         /\ tag <= Len(body)
         /\ trailer + 2 <= Len(body)
         /\ Slice(body, trailer, 2) = << 0, 254 >>
      THEN [kind |-> "config", scriptsig |-> Slice(body, 2, body[2]),
            prime_id |-> FromLE(Slice(body, prime, 4)), tag |-> Slice(body, tag, body[tag]),
            vardiff_min |-> FromLE(Slice(body, vardiff, 8))]
      ELSE Err

DecodeJobValidation(body) == [kind |-> "job_validation", cmd |-> body]
DecodeBlockNotify(body)   == [kind |-> "block_notify", payload |-> body]

-----------------------------------------------------------------------------
(* Gateway to pool. *)

\* ShareSubmissionPrefix: 30 bytes, then whatever the encoder appends.
EncodeShare(s) ==
  << 39, s.job_id, s.coinbase_id, s.flags, s.target_byte >> \o LE(s.ntime, 4) \o LE(s.nonce, 4)
    \o LE(s.version, 4) \o << 12 >> \o s.extranonce

\* The coinbaser request Connected::run writes, padding excluded.
EncodeRequest(r) == << 16 >> \o LE(r.value, 8) \o r.prevhash \o << 254 >>
=============================================================================
