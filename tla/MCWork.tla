------------------------------- MODULE MCWork -------------------------------
(* Work for model checking: keys at the edges the validation knows, and
   templates at the edges of the encodings. *)
EXTENDS Work

MCKeys ==
  {<<"bitcoind", "rpccookiefile", FALSE>>, <<"bitcoind", "rpcuser", TRUE>>,
   <<"bitcoind", "rpcpassword", TRUE>>, <<"bitcoind", "work_update_seconds", 4>>,
   <<"bitcoind", "work_update_seconds", 56>>,
   <<"stratum", "max_threads", 257>>, <<"stratum", "max_clients", 1025>>,
   <<"stratum", "max_clients_per_thread", 1025>>,
   <<"stratum", "vardiff_min", 0>>, <<"stratum", "vardiff_min", 1>>,
   <<"stratum", "vardiff_min", 24>>, <<"stratum", "vardiff_target_shares_min", 0>>,
   <<"stratum", "vardiff_quickdiff_count", 3>>,
   <<"stratum", "vardiff_quickdiff_delta", 2>>,
   <<"stratum", "share_stale_seconds", 59>>,
   <<"stratum", "modifiers_sum_to_one", FALSE>>,
   <<"stratum_v2", "enabled", TRUE>>, <<"stratum_v2", "authority_pubkey_path", TRUE>>,
   <<"stratum_v2", "authority_secret_path", TRUE>>,
   <<"stratum_v2", "cert_validity_sec", 31536001>>,
   <<"stratum_v2", "min_hashrate_threshold", 0>>,
   <<"stratum_v2", "shares_is_finite", FALSE>>,
   <<"mining", "coinbase_tag_primary", 0>>, <<"mining", "coinbase_tag_primary", 60>>,
   <<"mining", "coinbase_tag_secondary", 0>>, <<"mining", "coinbase_tag_secondary", 13>>,
   <<"mining", "coinbase_tag_secondary", 14>>, <<"mining", "coinbase_tag_secondary", 29>>,
   <<"mining", "coinbase_unique_id", 65537>>,
   <<"extra_block_submissions", "urls", <<513>>>>,
   <<"datum", "pool_host", FALSE>>, <<"datum", "pool_pubkey", 127>>,
   <<"datum", "pubkey_is_hex", FALSE>>, <<"datum", "protocol_global_timeout", 44>>,
   <<"logger", "log_to_file", TRUE>>, <<"logger", "log_level_console", 6>>}

Txids(n) == [i \in 1 .. n |-> Rev(Word32(<<"txid", i>>))]

Template(height, n, commitment, target) ==
  [previous_block_hash |-> Rev(Word32(<<"prev">>)), height |-> height,
   bits |-> <<29, 0, 255, 255>>, curtime |-> 5, version |-> 4,
   commitment |-> commitment, txids |-> Txids(n), target |-> target]

MCTemplates ==
  {Template(127, 0, <<106>>, << >>), Template(128, 1, << >>, << >>),
   Template(32767, 2, <<106, 36>>, << >>),
   Template(32768, 3, <<106>>, Rep(0, 4) \o <<255>> \o Rep(0, 27)),
   Template(800000, 4, << >>, << >>)}

MCManyTxs == {Template(800000, n, << >>, << >>) : n \in 0 .. 7}

MCOutputs == {<<[value |-> 70000, script |-> <<118, 169>>],
                [value |-> 5, script |-> Rep(7, 25)]>>}

MCPoolTags == {[valid |-> 0, invalid |-> 0], [valid |-> 80, invalid |-> 40]}

\* The target of the templates, one more, one less in a low byte only.
MCHashes ==
  LET t == nbits_to_target_le(<<29, 0, 255, 255>>)
  IN  {t, [t EXCEPT ![1] = 1], [t EXCEPT ![27] = 254, ![1] = 1]}

\* None, one that is no power of two, and one that is.
MCPoolMins == {0, 24576, 32768}
==============================================================================
