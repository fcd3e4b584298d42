-------------------------------- MODULE Work --------------------------------
(***************************************************************************)
(* One piece of work from the configuration file to the block: the gateway *)
(* validates its configuration, combines it with the pool's settings, a    *)
(* template and the pool's outputs into the bytes miners hash, hands them  *)
(* to an SV1 miner or to an SV2 channel, and rebuilds the header from the  *)
(* share it gets back, for the pool (0x27) and for bitcoind (submitblock). *)
(* The miners, the pool and bitcoind are external: they read the fields in *)
(* the order the gateway documents for them.  Queues, reconnects and the   *)
(* order of shares are the subject of the other modules.                   *)
(***************************************************************************)
EXTENDS Config, Coinbase

CONSTANTS
  Nothing,     \* no value yet
  Keys,        \* the keys an operator may set: <<section, field, value>>
  MaxKeys,     \* bound on the keys set beyond the required ones
  Templates,   \* templates bitcoind may offer
  Outputs,     \* the pool's coinbase outputs: sequences of [value, script]
  PoolTags,    \* the pool's tag: [valid, invalid] numbers of bytes, as UTF-8
  PoolMins,    \* the pool's minimum difficulty
  MaxDiff,     \* the ceiling of vardiff (2^40 in the gateway)
  Hashes,      \* values the hash of a header may take, little-endian
  RollMask     \* what a miner may add to the version

\* Lengths are numbers, and the difficulty in the file is a u64.
ASSUME KeysAssumption ==
  \A key \in Keys :
    /\ key[2] \in {"coinbase_tag_primary", "coinbase_tag_secondary"} => key[3] \in Nat
    /\ key[2] = "vardiff_min" => IsU64(key[3])

\* The pool's minimum is any u64, which the client does not check; the ceiling
\* is a power of two.
ASSUME DifficultyAssumption ==
  /\ \A d \in PoolMins : IsU64(d)
  /\ IsU64(MaxDiff) /\ IsPowerOfTwo(MaxDiff)

\* What bitcoind and the pool send is of the types it is parsed into.
ASSUME InputsAssumption ==
  /\ \A t \in Templates :
       /\ IsHash(t.previous_block_hash)
       /\ t.txids \in Seq({t.txids[i] : i \in DOMAIN t.txids})
       /\ \A i \in DOMAIN t.txids : IsHash(t.txids[i])
       /\ t.bits \in [1 .. 4 -> 0 .. 255]
       /\ t.target = << >> \/ t.target \in [1 .. 32 -> 0 .. 255]
  /\ PoolTags \subseteq [valid : Nat, invalid : Nat]
  /\ Nothing \notin [valid : Nat, invalid : Nat]
  /\ Hashes \subseteq [1 .. 32 -> 0 .. 255]

VARIABLES
  cfg,       \* the configuration
  keysSet,   \* how many keys the operator has set
  phase,     \* "config", "running" or "exited"
  poolTag,   \* the tag override, Nothing before the pool's configuration
  poolMin,   \* the pool's minimum difficulty
  state,     \* the published template state
  job,       \* the tracker's record of the job, and what the miner was given
  share,     \* the share in flight, with the header its miner hashed
  body,      \* the 0x27 body and the header the gateway computed
  blocks,    \* the blocks handed to submitblock
  made       \* history: the template, outputs and scriptsig inputs of state

settings == <<cfg, keysSet, phase, poolTag, poolMin>>
workVars == <<settings, state, job, share, body, blocks, made>>

----------------------------------------------------------------------------
(* Configuration and pool settings *)

\* A file with the required keys; everything else is at its default.
Required ==
  Set(Set(Set(Default, <<"bitcoind", "rpccookiefile", TRUE>>),
          <<"bitcoind", "rpcurl", TRUE>>), <<"mining", "pool_address", TRUE>>)

WorkInit ==
  /\ cfg \in {Default, Required}
  /\ keysSet = 0 /\ phase = "config"
  /\ poolTag = Nothing /\ poolMin = 0
  /\ state = Nothing /\ job = Nothing /\ share = Nothing
  /\ body = Nothing /\ blocks = {} /\ made = Nothing

OperatorSets(key) ==
  /\ phase = "config" /\ keysSet < MaxKeys
  /\ cfg' = Set(cfg, key)
  /\ cfg' # cfg
  /\ keysSet' = keysSet + 1
  /\ UNCHANGED <<phase, poolTag, poolMin, state, job, share, body, blocks, made>>

\* run: nothing is started when the validation finds an error.
Start ==
  /\ phase = "config"
  /\ phase' = IF validate(cfg) = {} THEN "running" ELSE "exited"
  /\ UNCHANGED <<cfg, keysSet, poolTag, poolMin, state, job, share, body, blocks, made>>

\* ClientConfig: the pool's minimum, and its tag cut to 86 bytes.
ClientConfig(tag, min) ==
  /\ phase = "running" /\ poolTag = Nothing
  /\ poolMin' = min
  /\ poolTag' = IF tag.valid >= 86 THEN [valid |-> 86, invalid |-> 0]
                ELSE [tag EXCEPT !.invalid =
                        IF @ > 86 - tag.valid THEN 86 - tag.valid ELSE @]
  /\ UNCHANGED <<cfg, keysSet, phase, state, job, share, body, blocks, made>>

\* The primary tag, and the secondary one; from_utf8_lossy turns each invalid
\* byte into the three bytes of U+FFFD.
PrimaryTag == IF poolTag = Nothing
              THEN Rep(65, cfg.mining.coinbase_tag_primary)
              ELSE Rep(67, poolTag.valid + 3 * poolTag.invalid)
SecondaryTag == Rep(66, cfg.mining.coinbase_tag_secondary)

\* The job id seed of the first template, 0, XOR 0xB10C.
FirstEnprefix == 45324

\* The driver of the template state, for the first template of a run.
PublishState(t, outputs) ==
  /\ phase = "running" /\ state = Nothing
  /\ ChosenAuth(cfg) # "None"
  /\ LET s == [primary |-> PrimaryTag, secondary |-> SecondaryTag, pot |-> 255,
               uid |-> cfg.mining.coinbase_unique_id % 65536,
               enprefix |-> FirstEnprefix]
     IN  /\ state' = from_template_and_blob(t, outputs, s, 0)
         /\ made' = [template |-> t, outputs |-> outputs, scriptsig |-> s]
  /\ UNCHANGED <<settings, job, share, body, blocks>>

----------------------------------------------------------------------------
(* Handing out work *)

Floor == IF cfg.stratum.vardiff_min >= poolMin
         THEN cfg.stratum.vardiff_min ELSE poolMin

\* What a recheck of vardiff makes of the floor when shares come too fast.
Doubled == LET new_diff == IF 2 * Floor <= MaxDiff THEN 2 * Floor ELSE MaxDiff
           IN  IF new_diff < Floor THEN Floor ELSE new_diff

\* notify_from_template_state, and send_notify, which patches the byte of the
\* connection's difficulty: the floor, or what vardiff made of it.
EmitSv1(diff) ==
  /\ state # Nothing /\ job = Nothing
  /\ job' = [proto |-> "sv1", meta |-> JobMeta(state), diff |-> diff,
             prev_hash |-> SwapWords(Rev(state.prev_hash)),
             coinb1 |-> Patch(state.coinb1, state.target_pot_index, diff),
             coinb2 |-> state.coinb2,
             merkle_branch |-> state.merkle_branches,
             version |-> state.version, nbits |-> state.nbits,
             ntime |-> state.min_ntime]
  /\ UNCHANGED <<settings, state, share, body, blocks, made>>

\* The difficulty the listener assumes for every SV2 share.
Sv2Diff == 8

\* build_new_extended_job and build_set_new_prev_hash.
EmitExtended(prefix) ==
  /\ state # Nothing /\ job = Nothing /\ is_active(cfg)
  /\ job' = [proto |-> "extended", meta |-> JobMeta(state), diff |-> Sv2Diff,
             extranonce_prefix |-> prefix, prev_hash |-> state.prev_hash,
             coinbase_tx_prefix |-> state.coinb1,
             coinbase_tx_suffix |-> state.coinb2,
             merkle_path |-> [i \in DOMAIN state.merkle_branches |->
                                Rev(state.merkle_branches[i])],
             version |-> state.version, nbits |-> Reverse(state.nbits),
             ntime |-> state.min_ntime]
  /\ UNCHANGED <<settings, state, share, body, blocks, made>>

\* A standard channel is given the merkle root instead of its parts; its
\* prefix fills all 12 bytes, the part a miner would roll with zeros.
EmitStandard(prefix) ==
  /\ state # Nothing /\ job = Nothing /\ is_active(cfg)
  /\ job' = [proto |-> "standard", meta |-> JobMeta(state), diff |-> Sv2Diff,
             extranonce_prefix |-> prefix \o Rep(0, 10),
             prev_hash |-> state.prev_hash,
             merkle_root |-> compute_merkle_root(state.coinb1,
                               prefix \o Rep(0, 10), state.coinb2,
                               state.merkle_branches),
             version |-> state.version, nbits |-> Reverse(state.nbits),
             ntime |-> state.min_ntime]
  /\ UNCHANGED <<settings, state, share, body, blocks, made>>

----------------------------------------------------------------------------
(* External: the miner *)

\* The root a miner computes, from branches in tree order.
Climbed(coinbase, path) ==
  LET up[i \in 0 .. Len(path)] ==
        IF i = 0 THEN TxHash(coinbase) ELSE PairHash(up[i - 1], path[i])
  IN  up[Len(path)]

MinerRoot(xn) ==
  CASE job.proto = "sv1" ->
         Climbed(job.coinb1 \o xn \o job.coinb2,
                 [i \in DOMAIN job.merkle_branch |-> Rev(job.merkle_branch[i])])
    [] job.proto = "extended" ->
         Climbed(job.coinbase_tx_prefix \o job.extranonce_prefix \o xn
                   \o job.coinbase_tx_suffix, job.merkle_path)
    [] job.proto = "standard" -> job.merkle_root

MinerHeader(xn, version) ==
  [version |-> version, root |-> MinerRoot(xn), ntime |-> job.ntime,
   prev |-> IF job.proto = "sv1" THEN Rev(SwapWords(job.prev_hash))
            ELSE job.prev_hash,
   nbits |-> IF job.proto = "sv1" THEN Reverse(job.nbits) ELSE job.nbits]

\* What a miner rolls itself: both extranonces of SV1, 10 bytes of an extended
\* channel (or a wrong number of them), nothing of a standard one.
Rolled == CASE job.proto = "sv1" -> {Rep(9, 12)}
            [] job.proto = "extended" -> {Rep(9, 10), Rep(9, 9)}
            [] job.proto = "standard" -> {<< >>}

Mine(xn, version) ==
  /\ job # Nothing /\ share = Nothing
  /\ xn \in Rolled
  /\ share' = [extranonce |-> xn, version |-> version, ntime |-> job.ntime,
               hashed |-> MinerHeader(xn, version)]
  /\ UNCHANGED <<settings, state, job, body, blocks, made>>

----------------------------------------------------------------------------
(* The share path *)

\* validate_extended_share: wrong length, no share.
Reject ==
  /\ share # Nothing /\ body = Nothing
  /\ job.proto = "extended" /\ Len(share.extranonce) # 10
  /\ share' = Nothing /\ job' = Nothing
  /\ UNCHANGED <<settings, state, body, blocks, made>>

FullExtranonce ==
  IF job.proto = "sv1" THEN share.extranonce
  ELSE job.extranonce_prefix \o share.extranonce

\* The coinb1 a share is rebuilt with: the SV1 server passes what it sent, the
\* SV2 listener passes nothing and the encoder patches its own copy.
PatchedCoinb1 ==
  IF job.proto = "sv1" THEN job.coinb1
  ELSE Patch(job.meta.coinb1_bin, job.meta.target_pot_index, job.diff)

Header ==
  [version |-> share.version, prev |-> job.meta.prevhash_bin,
   root |-> compute_merkle_root(PatchedCoinb1, FullExtranonce,
                                job.meta.coinb2_bin,
                                job.meta.merkle_branches_bin),
   ntime |-> share.ntime, nbits |-> Reverse(job.meta.nbits_bin)]

\* The 0x01 sub-block carries the branches in display order.
Body0x01Display ==
  [prevhash |-> job.meta.prevhash_bin, nbits |-> Reverse(job.meta.nbits_bin),
   target_pot_index |-> job.meta.target_pot_index,
   branches |-> job.meta.merkle_branches_bin]

Body0x01 ==
  [prevhash |-> job.meta.prevhash_bin, nbits |-> Reverse(job.meta.nbits_bin),
   target_pot_index |-> job.meta.target_pot_index,
   branches |-> [i \in DOMAIN job.meta.merkle_branches_bin |->
                   Rev(job.meta.merkle_branches_bin[i])]]

Body0x02 == [coinb1 |-> job.meta.coinb1_bin, coinb2 |-> job.meta.coinb2_bin]

\* build_share_submission, for the first share of a job: both sub-blocks are
\* in the body.  hash is the value the header's hash happens to have.
Relay(hash) ==
  /\ share # Nothing /\ body = Nothing
  /\ job.proto = "extended" => Len(share.extranonce) = 10
  /\ body' = [header |-> Header, hash |-> hash,
              target_byte |-> floor_pot(job.diff), version |-> share.version,
              ntime |-> share.ntime, extranonce |-> FullExtranonce,
              sub1 |-> Body0x01, sub2 |-> Body0x02]
  /\ blocks' = IF hash_meets_target(hash, job.meta.block_target)
               THEN {[header |-> Header, txn_count |-> job.meta.txn_count + 1,
                      coinbase |-> PatchedCoinb1 \o FullExtranonce
                                     \o job.meta.coinb2_bin,
                      txns |-> job.meta.txns]}
               ELSE {}
  /\ UNCHANGED <<settings, state, job, share, made>>

WorkNext ==
  \/ \E key \in Keys : OperatorSets(key)
  \/ Start
  \/ \E tag \in PoolTags, min \in PoolMins : ClientConfig(tag, min)
  \/ \E t \in Templates, o \in Outputs : PublishState(t, o)
  \/ \E diff \in {Floor, Doubled} : EmitSv1(diff)
  \/ \E prefix \in {<<0, 1>>} : EmitExtended(prefix) \/ EmitStandard(prefix)
  \/ /\ job # Nothing
     /\ \E xn \in Rolled, v \in {job.version, job.version + RollMask} :
          Mine(xn, v)
  \/ Reject
  \/ \E hash \in Hashes : Relay(hash)

WorkSpec == WorkInit /\ [][WorkNext]_workVars

----------------------------------------------------------------------------
(* External: how bitcoind and the pool read what they are given *)

Varint(b, i) == IF b[i] < 253 THEN [n |-> b[i], next |-> i + 1]
                ELSE [n |-> b[i + 1] + 256 * b[i + 2], next |-> i + 3]

Malformed == <<<<-1>>>>

\* The data a script pushes, with direct pushes and OP_PUSHDATA1; from[i] is
\* what it pushes from position i on.
Pushes(script) ==
  LET from[i \in 1 .. Len(script) + 1] ==
        IF i > Len(script) THEN << >>
        ELSE LET at == IF script[i] = 76 THEN i + 1 ELSE i
                 end == at + script[at]
             IN  IF script[i] > 76 \/ end > Len(script) THEN Malformed
                 ELSE <<SubSeq(script, at + 1, end)>> \o from[end + 1]
  IN  from[1]

\* count outputs read from position first on; Malformed unless exactly the four
\* bytes of the lock time follow.
ReadOutputs(b, first, count) ==
  LET read[i \in first .. Len(b), n \in 0 .. count] ==
        IF n = 0 THEN IF Len(b) = i + 3 THEN << >> ELSE Malformed
        ELSE LET len == Varint(b, i + 8)
                 end == len.next + len.n
             IN  IF end > Len(b) THEN Malformed
                 ELSE <<[value |-> SubSeq(b, i, i + 7),
                         script |-> SubSeq(b, len.next, end - 1)]>>
                        \o read[end, n - 1]
  IN  read[first, count]

\* A level of the merkle tree, its last node doubled when it has no partner.
Halved(level) ==
  [i \in 1 .. (Len(level) + 1) \div 2 |->
     PairHash(level[2 * i - 1],
              level[IF 2 * i <= Len(level) THEN 2 * i ELSE 2 * i - 1])]

\* The merkle root of a list of transaction hashes in internal order.
MerkleRoot(leaves) ==
  LET row[r \in 0 .. Len(leaves)] ==
        IF r = 0 THEN leaves
        ELSE IF Len(row[r - 1]) = 1 THEN row[r - 1] ELSE Halved(row[r - 1])
  IN  row[Len(leaves)][1]

BlockRoot(coinbase, txids) ==
  MerkleRoot(<<TxHash(coinbase)>> \o [i \in DOMAIN txids |-> Rev(txids[i])])

\* The pool keeps the two sub-blocks and rebuilds the header of a share.
PoolHeader ==
  LET coinb1 == [body.sub2.coinb1 EXCEPT
                   ![body.sub1.target_pot_index + 1] = body.target_byte]
  IN  [version |-> body.version, prev |-> body.sub1.prevhash,
       root |-> Climbed(coinb1 \o body.extranonce \o body.sub2.coinb2,
                        body.sub1.branches),
       ntime |-> body.ntime, nbits |-> body.sub1.nbits]

----------------------------------------------------------------------------
(* Properties *)

WorkTypeOK ==
  /\ phase \in {"config", "running", "exited"} /\ keysSet \in 0 .. MaxKeys
  /\ phase # "running" => {state, job, share, body} = {Nothing}
  /\ (state = Nothing) = (made = Nothing)
  /\ body # Nothing => share # Nothing
  /\ share # Nothing => job # Nothing
  /\ job # Nothing => state # Nothing
  /\ blocks # {} => body # Nothing

\* The index given to the pool is that of the placeholder for the difficulty,
\* six bytes before the end of coinb1, and patching changes that byte only.
PotInPlace ==
  state # Nothing =>
    /\ state.coinb1[state.target_pot_index + 1] = 255
    /\ Patch(state.coinb1, state.target_pot_index, 1)
         = [state.coinb1 EXCEPT ![Len(state.coinb1) - 5] = 0]

\* For every configuration the validation accepts, every tag the pool may
\* impose and every template, what build_split_coinbase_bin produces is a
\* coinbase bitcoind can read: the scriptsig has the length it announces and
\* holds the height as a positive number, the tags, the three bytes of the
\* difficulty and the unique id, and a push of 14 bytes for the extranonce;
\* the outputs are those of the pool and the witness commitment; and the
\* index given to the pool is the index of the difficulty's byte.  (A tag
\* block of more than 255 bytes has no one-byte length; see the README.)
CoinbaseParses ==
  /\ WorkTypeOK
  /\ PotInPlace
  /\ state # Nothing /\ Len(TagBody(made.scriptsig.primary,
                                 made.scriptsig.secondary)) <= 255 =>
     LET tx == state.coinb1 \o Rep(0, 12) \o state.coinb2
         len == Varint(tx, 42)
         pushes == Pushes(SubSeq(tx, len.next, len.next + len.n - 1))
         count == Varint(tx, len.next + len.n + 4)
         body_ == TagBody(made.scriptsig.primary, made.scriptsig.secondary)
         number(b) == FoldRight(LAMBDA d, acc : d + 256 * acc, b, 0)
         commitment == made.template.commitment
         outs == [i \in DOMAIN made.outputs |->
                    [value |-> Bytes(made.outputs[i].value, 4) \o Rep(0, 4),
                     script |-> made.outputs[i].script]]
     IN  /\ Len(pushes) = 4
         /\ number(pushes[1]) = made.template.height
         /\ pushes[1][Len(pushes[1])] < 128
         /\ pushes[2] = IF body_ = << >> THEN <<0>> ELSE body_
         /\ pushes[3] = <<255>> \o Bytes(made.scriptsig.uid, 2)
         /\ Len(pushes[4]) = 14
         /\ SubSeq(tx, len.next + len.n, len.next + len.n + 3) = Rep(255, 4)
         /\ ReadOutputs(tx, count.next, count.n)
              = outs \o (IF commitment = << >> THEN << >>
                         ELSE <<[value |-> Rep(0, 8), script |-> commitment]>>)

\* The pool's minimum does not matter, or is a power of two.  The client takes
\* it as it comes.
RegularMin == poolMin <= cfg.stratum.vardiff_min \/ IsPowerOfTwo(poolMin)

\* The byte the pool reads as a power of two never credits an SV1 miner with
\* more than the difficulty it was told, and always with more than half of it.
\* It is exactly that difficulty (the validation of vardiff_min and vardiff's
\* doubling keep it a power of two) unless the pool imposes a minimum that is
\* none, which the client does not check: there byte and difficulty part.
PotExact ==
  (job # Nothing /\ job.proto = "sv1") =>
    LET pot == Power2[job.coinb1[job.meta.target_pot_index + 1]]
    IN  /\ pot <= job.diff /\ job.diff < 2 * pot
        /\ job.diff >= cfg.stratum.vardiff_min
        /\ RegularMin => pot = job.diff

\* The header build_share_submission hashes is the one the pool rebuilds from
\* the 0x27 body, whichever protocol the share came by; and it is the header
\* the miner hashed, except that an SV2 miner was given the coinbase before
\* the difficulty's byte was set, so that only the root may differ there.
Reconstructs ==
  body # Nothing =>
    /\ PoolHeader = body.header
    /\ job.proto = "sv1" => share.hashed = body.header
    /\ [share.hashed EXCEPT !.root = body.header.root] = body.header

\* A share becomes a block exactly when its hash, as a 256-bit number, is not
\* above the template's target; the header commits to the transactions sent
\* with it (for up to three transactions: see MerklePathComplete), and their
\* count is right.
BlockCommits ==
  body # Nothing =>
    LET h == body.hash
        t == IF made.template.target # << >> THEN Reverse(made.template.target)
             ELSE nbits_to_target_le(made.template.bits)
    IN  /\ (blocks # {})
             = (\/ h = t
                \/ \E i \in 1 .. 32 : /\ h[i] < t[i]
                                       /\ \A j \in i + 1 .. 32 : h[j] = t[j])
        /\ \A block \in blocks :
             /\ block.header = body.header
             /\ block.txn_count = 1 + Len(block.txns)
             /\ Len(block.txns) <= 3 =>
                  block.header.root = BlockRoot(block.coinbase, block.txns)

\* The merkle branches lead from the coinbase to the merkle root of the
\* template, whatever the number of transactions.  The code does not have
\* this property: from the second round on, the loop of
\* build_merkle_branches pairs each node with the wrong neighbour.
MerklePathComplete ==
  state # Nothing =>
    LET coinbase == state.coinb1 \o Rep(0, 12) \o state.coinb2
    IN  compute_merkle_root(state.coinb1, Rep(0, 12), state.coinb2,
                            state.merkle_branches)
          = BlockRoot(coinbase, state.txns)
==============================================================================
