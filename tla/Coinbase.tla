------------------------------ MODULE Coinbase ------------------------------
(***************************************************************************)
(* The bytes of the work: the two halves of the coinbase transaction       *)
(* around the 12 bytes of extranonce, the sibling path of the coinbase in  *)
(* the merkle tree, the network target, and the record the job tracker     *)
(* keeps of them.                                                          *)
(*                                                                         *)
(* Bytes of the coinbase are numbers.  A 32-byte hash is an opaque term    *)
(* with the order its bytes are in: "rev" tells whether they are reversed  *)
(* against the internal (little-endian) order, "swap" whether the bytes of *)
(* each 4-byte word are.  A hash of a text is the term of that text, so    *)
(* two hashes are equal exactly when the hashed texts are.                 *)
(***************************************************************************)
EXTENDS PowersOfTwo, Sequences, SequencesExt

Rep(b, n) == [i \in 1 .. n |-> b]

Bytes(n, w) == [i \in 1 .. w |-> (n \div 256 ^ (i - 1)) % 256]

Word32(term) == [term |-> term, rev |-> FALSE, swap |-> FALSE]
IsHash(h) == /\ h.rev \in BOOLEAN /\ h.swap \in BOOLEAN
             /\ h = [term |-> h.term, rev |-> h.rev, swap |-> h.swap]

Zero32 == Word32(<<"zero">>)
Rev(h) == [h EXCEPT !.rev = ~@]
SwapWords(h) == [h EXCEPT !.swap = ~@]

\* double_sha256 of a transaction, and of two hashes side by side.
TxHash(bytes) == Word32(<<"tx", bytes>>)
PairHash(l, r) == Word32(<<"pair", l, r>>)

----------------------------------------------------------------------------
(* The scriptsig and the two halves *)

push_varint(n) ==
  IF n < 253 THEN <<n>> ELSE <<253>> \o Bytes(n, 2)

\* The sign byte is forgotten: a height whose top bit is set turns negative.
bip34_height_scriptUnsigned(height) ==
  LET width == CHOOSE w \in 1 .. 4 :
                 /\ w = 4 \/ height < 256 ^ w
                 /\ w = 1 \/ ~ (height < 256 ^ (w - 1))
  IN  <<width>> \o Bytes(height, width)

bip34_height_script(height) ==
  LET width == CHOOSE w \in 1 .. 4 :
                 /\ w = 4 \/ height < 256 ^ w
                 /\ w = 1 \/ ~ (height < 256 ^ (w - 1))
      bytes == Bytes(height, width)
      signed == IF bytes[width] >= 128 THEN Append(bytes, 0) ELSE bytes
  IN  <<Len(signed)>> \o signed

\* p and s are the bytes of the two tags.
TagBody(p, s) ==
  (IF p # << >> THEN Append(p, IF s = << >> THEN 0 ELSE 15)
   ELSE IF s # << >> THEN <<15>> ELSE << >>)
  \o (IF s # << >> THEN Append(s, 0) ELSE << >>)

build_tag_push_block(p, s) ==
  LET body == TagBody(p, s)
      k == Len(body)
  IN  CASE k = 0 -> <<1, 0>>
        [] k \in 1 .. 75 -> <<k>> \o body
        [] k > 75 -> <<76, k % 256>> \o body

build_uid_push_block(pot, uid) == <<3, pot>> \o Bytes(uid, 2)

ENPREFIX_LEN == 2
EXTRANONCE_PLACEHOLDER_LEN == 12

\* outputs is a sequence of [value, script]; commitment is << >> or the bytes
\* of the template's witness commitment, the last output.
build_outputs(outputs, commitment) ==
  LET one(o) == Bytes(o.value, 4) \o Rep(0, 4) \o push_varint(Len(o.script))
                  \o o.script
      all == outputs \o (IF commitment = << >> THEN << >>
                         ELSE <<[value |-> 0, script |-> commitment]>>)
  IN  push_varint(Len(all)) \o FlattenSeq([i \in DOMAIN all |-> one(all[i])])

\* s holds the scriptsig inputs: the tags, the unique id, the enprefix and the
\* byte that stands for the difficulty until it is known.
build_split_coinbase_bin(height, s, outputs_blob) ==
  LET heightPush == bip34_height_script(height)
      tag_block == build_tag_push_block(s.primary, s.secondary)
      uid_block == build_uid_push_block(s.pot, s.uid)
      scriptsig_len == Len(heightPush) + Len(tag_block) + Len(uid_block) + 1
                         + ENPREFIX_LEN + EXTRANONCE_PLACEHOLDER_LEN
      head == Bytes(1, 4) \o <<1>> \o Rep(0, 32) \o Rep(255, 4)
                \o push_varint(scriptsig_len) \o heightPush \o tag_block
  IN  [coinb1 |-> head \o uid_block \o <<14>> \o Bytes(s.enprefix, 2),
       coinb2 |-> Rep(255, 4) \o outputs_blob \o Rep(0, 4),
       target_pot_index |-> Len(head) + 1]

----------------------------------------------------------------------------
(* The merkle path and the target *)

\* One round of the loop: level holds the hashes of the current level (the
\* first one without the coinbase), size counts its nodes with the coinbase.
Climb(level, size, branch) ==
  LET next_size == (size + 1) \div 2
      node(i) == LET left == level[2 * i]
                     right == IF 2 * i + 1 <= Len(level)
                              THEN level[2 * i + 1] ELSE left
                 IN  PairHash(left, right)
      next == [i \in 1 .. next_size |-> IF i = 1 THEN Zero32 ELSE node(i - 1)]
  IN  [level |-> next, size |-> next_size,
       branch |-> IF next_size > 1 THEN Append(branch, next[2]) ELSE branch]

\* txids and the result are in display order.  The loop ends when one node is
\* left, which takes no more rounds than there are transactions.
build_merkle_branches(txids) ==
  IF txids = << >> THEN << >>
  ELSE LET level == [i \in DOMAIN txids |-> Rev(txids[i])]
           round[r \in 0 .. Len(txids)] ==
             IF r = 0 THEN [level |-> level, size |-> Len(txids) + 1,
                            branch |-> <<level[1]>>]
             ELSE LET l == round[r - 1]
                  IN  IF l.size <= 1 THEN l ELSE Climb(l.level, l.size, l.branch)
           path == round[Len(txids)].branch
       IN  [i \in DOMAIN path |-> Rev(path[i])]

\* compute_merkle_root and compute_merkle_root_for_standard.
compute_merkle_root(coinb1, extranonce, coinb2, branches) ==
  LET acc[i \in 0 .. Len(branches)] ==
        IF i = 0 THEN TxHash(coinb1 \o extranonce \o coinb2)
        ELSE PairHash(acc[i - 1], Rev(branches[i]))
  IN  acc[Len(branches)]

\* The first of equal bytes decides, starting from the least significant one.
hash_meets_targetFromLow(hash, target) ==
  LET differ == {i \in 1 .. 32 : hash[i] # target[i]}
  IN  \/ differ = {}
      \/ LET low == CHOOSE i \in differ : \A j \in differ : i <= j
         IN  hash[low] < target[low]

\* Both in little-endian order: from the most significant byte down.
hash_meets_target(hash, target) ==
  LET differ == {i \in 1 .. 32 : hash[i] # target[i]}
  IN  \/ differ = {}
      \/ LET high == CHOOSE i \in differ : \A j \in differ : i >= j
         IN  hash[high] < target[high]

\* bits = <<exponent, mantissa's 3 bytes>>, the display bytes of nbits.
nbits_to_target_le(bits) ==
  LET exp == bits[1] IN
  IF exp \notin 3 .. 32 THEN Rep(0, 32)
  ELSE [i \in 1 .. 32 |-> IF i \in exp - 2 .. exp THEN bits[exp - i + 2]
                          ELSE 0]

\* A PoT byte is patched into coinb1; the index counts from zero.
Patch(coinb1, target_pot_index, diff) ==
  IF target_pot_index < Len(coinb1)
  THEN [coinb1 EXCEPT ![target_pot_index + 1] = floor_pot(diff)] ELSE coinb1

----------------------------------------------------------------------------
(* The template state, and the job record both protocols copy from it *)

\* t: the template of getblocktemplate; outputs: the pool's coinbase outputs.
from_template_and_blob(t, outputs, s, seed) ==
  LET split == build_split_coinbase_bin(t.height, s,
                                        build_outputs(outputs, t.commitment))
  IN  [prev_hash |-> Rev(t.previous_block_hash), height |-> t.height,
       nbits |-> t.bits, min_ntime |-> t.curtime, version |-> t.version,
       coinb1 |-> split.coinb1, coinb2 |-> split.coinb2,
       target_pot_index |-> split.target_pot_index,
       merkle_branches |-> build_merkle_branches(t.txids),
       block_target |-> IF t.target # << >> THEN Reverse(t.target)
                        ELSE nbits_to_target_le(t.bits),
       txn_count |-> Len(t.txids), txns |-> t.txids, job_id_seed |-> seed]

JobMeta(state) ==
  [target_pot_index |-> state.target_pot_index,
   prevhash_bin |-> state.prev_hash, nbits_bin |-> state.nbits,
   merkle_branches_bin |-> state.merkle_branches,
   coinb1_bin |-> state.coinb1, coinb2_bin |-> state.coinb2,
   height |-> state.height, txn_count |-> state.txn_count,
   block_target |-> state.block_target, txns |-> state.txns]
==============================================================================
