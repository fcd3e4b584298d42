--------------------------- MODULE MCDatumSession ---------------------------
(* DatumSession with two-byte nonces that start at a carry and at the wrap, *)
(* all kinds of pool frames, whole, padded and cut, and a body that is too  *)
(* long for a header.                                                       *)
EXTENDS DatumSession, Bitwise

MCMask      == [w \in Word |-> w ^^ 87]
MCBaseNonce == [s \in Seeds |-> IF s = 1 THEN << 255, 255 >> ELSE << 168, 3 >>]

MCConfs ==
  { [version |-> << 254, 118 >>, pool_pub |-> PoolKey],
    [version |-> << 118 >>, pool_pub |-> <<"pool", 1>>],
    [version |-> << 118, 0 >>, pool_pub |-> PoolKey] }

MCShare ==
  EncodeShare([job_id |-> 3, coinbase_id |-> 0, flags |-> 2, target_byte |-> 10, ntime |-> 70000,
               nonce |-> 5, version |-> 8192, extranonce |-> Fill(6, 12)])
MCShareBodies == { MCShare \o << 0 >> }
MCRequests    == { [value |-> 5000, prevhash |-> Fill(8, 2)] }
MCRawFrames   == { [cmd |-> 5, body |-> Fill(1, MaxCmdLen - 16)], [cmd |-> 32, body |-> << 1 >>] }

MCMessages ==
  { [kind |-> "share", status |-> "rejected", reason |-> 300, nonce |-> 5, target_pot |-> 10, job_id |-> 3],
    [kind |-> "coinbaser", value |-> 70000, blob |-> << 17, 0, 254 >>],
    [kind |-> "config", scriptsig |-> << 153, 17 >>, prime_id |-> 258, tag |-> << 1 >>, vardiff_min |-> 65536] }

Frame(m, cmd, signed, channel, cut, pad) ==
  [msg |-> m, cmd |-> cmd, signed |-> signed, channel |-> channel, cut |-> cut, pad |-> pad]

MCPoolFrames ==
  { Frame(m, 5, TRUE, TRUE, 0, << 0, 254 >>) : m \in MCMessages }
    \cup { Frame(m, 5, FALSE, FALSE, 0, <<>>) : m \in MCMessages }
    \cup { Frame(m, 5, FALSE, TRUE, 1, <<>>) : m \in MCMessages }
    \cup { Frame(m, 5, FALSE, TRUE, 10, <<>>) : m \in { k \in MCMessages : k.kind = "config" } }
    \cup { Frame([kind |-> "block_notify", payload |-> << 153, 1 >>], 25, FALSE, TRUE, 0, <<>>),
           Frame([kind |-> "job_validation", cmd |-> << 16, 1 >>], 16, FALSE, TRUE, 0, <<>>),
           Frame([kind |-> "coinbaser", value |-> 1, blob |-> << 5 >>], 16, TRUE, FALSE, 0, <<>>) }
=============================================================================
