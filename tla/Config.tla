------------------------------- MODULE Config -------------------------------
(***************************************************************************)
(* The configuration file: its defaults (sections.rs), what a file leaves  *)
(* out (serde's defaults) and the validation a gateway runs before it      *)
(* starts anything (validate.rs).  A string is represented by its length,  *)
(* and only by whether it is empty where nothing else is asked of it; a    *)
(* floating-point setting by the class the validation distinguishes; an    *)
(* error by the name of its variant, without its text.                     *)
(***************************************************************************)
EXTENDS PowersOfTwo, Sequences

COINBASE_TAGS_COMBINED_MAX == 88
COINBASE_TAG_INDIVIDUAL_MAX == 60
MAX_EXTRA_BLOCK_SUBMIT_URLS == 32
MAX_EXTRA_BLOCK_SUBMIT_URL_LEN == 512
STRATUM_V2_CERT_VALIDITY_SEC_HARD_CAP == 31536000
STRATUM_V2_EXPECTED_SHARE_PER_MINUTE_MAX == 10000

\* Each section with the value every absent key takes; TRUE is a string that
\* is not empty.  The two floats are a whole number (in GH/s and in shares)
\* and whether they are finite.
BitcoindConfig ==
  [rpccookiefile |-> FALSE, rpcuser |-> FALSE, rpcpassword |-> FALSE,
   rpcurl |-> FALSE, work_update_seconds |-> 40]

StratumConfig ==
  [max_clients |-> 1024, max_threads |-> 8, max_clients_per_thread |-> 128,
   vardiff_min |-> 16384, vardiff_target_shares_min |-> 8,
   vardiff_quickdiff_count |-> 8, vardiff_quickdiff_delta |-> 8,
   share_stale_seconds |-> 120, modifiers_sum_to_one |-> TRUE]

StratumV2Config ==
  [enabled |-> FALSE, authority_pubkey_path |-> FALSE,
   authority_secret_path |-> FALSE, cert_validity_sec |-> 3600,
   min_hashrate_threshold |-> 1000, hashrate_is_finite |-> TRUE,
   expected_share_per_minute |-> 6, shares_is_finite |-> TRUE]

MiningConfig ==
  [pool_address |-> FALSE, coinbase_tag_primary |-> 13,
   coinbase_tag_secondary |-> 10, coinbase_unique_id |-> 4242]

ExtraBlockSubmissionsConfig == [urls |-> << >>]

DatumConfig ==
  [pool_host |-> TRUE, pool_pubkey |-> 128, pubkey_is_hex |-> TRUE,
   pooled_mining_only |-> TRUE, protocol_global_timeout |-> 60]

LoggerConfig ==
  [log_to_file |-> FALSE, log_file |-> FALSE,
   log_level_console |-> 2, log_level_file |-> 1]

\* Config::default, what an empty file deserialises to.
Default ==
  [bitcoind |-> BitcoindConfig, stratum |-> StratumConfig,
   stratum_v2 |-> StratumV2Config, mining |-> MiningConfig,
   extra_block_submissions |-> ExtraBlockSubmissionsConfig,
   datum |-> DatumConfig, logger |-> LoggerConfig]

\* One key of the file: a section, a field of it, and its value.
Set(c, key) == [c EXCEPT ![key[1]][key[2]] = key[3]]

Error(holds, name) == IF holds THEN {name} ELSE {}

validate_bitcoind(c) ==
  LET b == c.bitcoind IN
  Error(~b.rpccookiefile /\ ~b.rpcuser /\ ~b.rpcpassword,
        "BitcoindMissingCredentials")
  \cup Error(b.rpcuser /\ ~b.rpcpassword, "BitcoindRpcUserMissingPassword")
  \cup Error(~b.rpcurl, "BitcoindRpcUrlEmpty")
  \cup Error(b.work_update_seconds \notin 5 .. 120,
             "BitcoindWorkUpdateSecondsOutOfRange")

\* Nothing asks whether vardiff_min is a power of two.
VardiffMinAny(s) == Error(s.vardiff_min < 1, "StratumVardiffMinTooLow")

VardiffMin(s) ==
  Error(s.vardiff_min < 1, "StratumVardiffMinTooLow")
  \cup Error(s.vardiff_min >= 1 /\ ~IsPowerOfTwo(s.vardiff_min),
             "StratumVardiffMinNotPowerOfTwo")

validate_stratum(c) ==
  LET s == c.stratum IN
  Error(s.max_threads > 256, "StratumMaxThreadsTooHigh")
  \cup Error(s.max_clients_per_thread > 1024,
             "StratumMaxClientsPerThreadTooHigh")
  \cup Error(s.max_clients > s.max_threads * s.max_clients_per_thread,
             "StratumMaxClientsExceedsCap")
  \cup VardiffMin(s)
  \cup Error(s.vardiff_target_shares_min < 1,
             "StratumVardiffTargetSharesMinTooLow")
  \cup Error(s.vardiff_quickdiff_count < 4,
             "StratumVardiffQuickdiffCountTooLow")
  \cup Error(s.vardiff_quickdiff_delta < 3,
             "StratumVardiffQuickdiffDeltaTooLow")
  \cup Error(s.share_stale_seconds \notin 60 .. 150,
             "StratumShareStaleSecondsOutOfRange")
  \cup Error(~s.modifiers_sum_to_one, "StratumUsernameModifierProportions")

validate_stratum_v2(c) ==
  LET s == c.stratum_v2 IN
  Error(s.cert_validity_sec > STRATUM_V2_CERT_VALIDITY_SEC_HARD_CAP,
        "StratumV2CertValiditySecTooLarge")
  \cup Error(s.enabled /\ ~s.authority_pubkey_path,
             "StratumV2EnabledWithoutAuthorityPubkey")
  \cup Error(s.enabled /\ ~s.authority_secret_path,
             "StratumV2EnabledWithoutAuthoritySecret")
  \cup Error(~s.hashrate_is_finite \/ s.min_hashrate_threshold <= 0,
             "StratumV2MinHashrateThresholdInvalid")
  \cup Error(\/ ~s.shares_is_finite \/ s.expected_share_per_minute <= 0
             \/ s.expected_share_per_minute
                  >= STRATUM_V2_EXPECTED_SHARE_PER_MINUTE_MAX,
             "StratumV2ExpectedSharePerMinuteInvalid")

validate_mining(c) ==
  LET m == c.mining IN
  Error(~m.pool_address, "MiningPoolAddressEmpty")
  \cup Error(m.coinbase_tag_primary > COINBASE_TAG_INDIVIDUAL_MAX,
             "MiningCoinbaseTagPrimaryTooLong")
  \cup Error(m.coinbase_tag_secondary > COINBASE_TAG_INDIVIDUAL_MAX,
             "MiningCoinbaseTagSecondaryTooLong")
  \cup Error(m.coinbase_tag_primary + m.coinbase_tag_secondary
               > COINBASE_TAGS_COMBINED_MAX,
             "MiningCoinbaseTagsCombinedTooLong")

validate_extra_block_submissions(c) ==
  LET urls == c.extra_block_submissions.urls IN
  Error(Len(urls) > MAX_EXTRA_BLOCK_SUBMIT_URLS, "ExtraBlockSubmitTooManyUrls")
  \cup Error(\E i \in DOMAIN urls : urls[i] > MAX_EXTRA_BLOCK_SUBMIT_URL_LEN,
             "ExtraBlockSubmitUrlTooLong")

validate_datum(c) ==
  LET d == c.datum IN
  Error(d.protocol_global_timeout < c.bitcoind.work_update_seconds + 5,
        "DatumProtocolTimeoutTooLow")
  \cup Error(d.pooled_mining_only /\ ~d.pool_host,
             "DatumPooledMiningWithoutHost")
  \cup Error(d.pool_pubkey \notin {0, 128}, "DatumPoolPubkeyBadLength")
  \cup Error(d.pool_pubkey = 128 /\ ~d.pubkey_is_hex, "DatumPoolPubkeyNotHex")

validate_logger(c) ==
  LET l == c.logger IN
  Error(l.log_to_file /\ ~l.log_file, "LoggerFileWithoutPath")
  \cup Error(l.log_level_console \notin 0 .. 5, "LoggerLevelConsoleOutOfRange")
  \cup Error(l.log_level_file \notin 0 .. 5, "LoggerLevelFileOutOfRange")

validate(c) ==
  validate_bitcoind(c) \cup validate_stratum(c) \cup validate_stratum_v2(c)
    \cup validate_mining(c) \cup validate_extra_block_submissions(c)
    \cup validate_datum(c) \cup validate_logger(c)

is_active(c) == /\ c.stratum_v2.enabled
                /\ c.stratum_v2.authority_pubkey_path
                /\ c.stratum_v2.authority_secret_path

\* The credentials run_async hands to the RPC client, "None" when it starts
\* no template puller and no block submitter.
ChosenAuth(c) ==
  IF ~c.bitcoind.rpcurl THEN "None"
  ELSE IF c.bitcoind.rpccookiefile THEN "Cookie"
  ELSE IF c.bitcoind.rpcuser THEN "UserPass" ELSE "None"
==============================================================================
