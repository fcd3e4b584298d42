----------------------------- MODULE JobTracker -----------------------------
(***************************************************************************)
(* The cross-protocol job tracker of datum-share-relay: a bounded map from *)
(* job keys to job entries with FIFO eviction, the send-once flags of each *)
(* entry, and the (template_seed, coinbase_id) sentinel that both share    *)
(* relays consult before they emit the 0x02 sub-block.  Every operation    *)
(* runs under the Mutex around the tracker, so each is one atomic step.    *)
(*                                                                         *)
(* Both listeners use coinbase_id 0 for every job they build, so the flags *)
(* server_has_coinbase[0..7] and the sentinel keep only that column.       *)
(***************************************************************************)
EXTENDS Integers, Sequences, FiniteSets

CONSTANTS
  Keys,       \* JobKey: SV1 wire job ids and SV2 (channel_id, job_id) pairs
  Seeds,      \* TemplateState::job_id_seed
  MAX,        \* capacity of the tracker (256 in the code)
  IdxMod      \* number of datum_job_idx values (256, a u8)

ASSUME TrackerAssumption ==
  /\ MAX \in Nat \ {0}
  /\ IdxMod \in Nat \ {0}
  /\ MAX <= IdxMod

VARIABLES
  by_key,                   \* the entries, a function whose domain is the live keys
  order,                    \* insertion order, oldest first
  seen_template_coinbase,   \* seeds whose coinbase (0x02) is taken as sent
  next_datum_idx            \* next 8-bit pool slot

trackerVars == <<by_key, order, seen_template_coinbase, next_datum_idx>>

\* JobMeta is kept down to the template it was built from and the pool slot.
JobEntry ==
  [seed : Seeds, idx : 0 .. IdxMod - 1,
   server_has_merkle_branches : BOOLEAN, server_has_coinbase : BOOLEAN]

NewEntry(seed, idx) ==
  [seed |-> seed, idx |-> idx,
   server_has_merkle_branches |-> FALSE, server_has_coinbase |-> FALSE]

TrackerInit ==
  /\ by_key = [k \in {} |-> NewEntry(0, 0)]
  /\ order = <<>>
  /\ seen_template_coinbase = {}
  /\ next_datum_idx = 0

Contains(key) == key \in DOMAIN by_key

-----------------------------------------------------------------------------
(* Operations. *)

\* Mutant: the slot counter saturates instead of wrapping.
SaturatingIdx(i) == IF i + 1 >= IdxMod THEN i ELSE i + 1

\* Mutant: the slot counter is wider than the 8-bit field of the 0x27 prefix.
UnboundedIdx(i) == i + 1

\* u8 wrapping_add(1)
WrappingIdx(i) == (i + 1) % IdxMod

NextIdx ==
  /\ next_datum_idx' = WrappingIdx(next_datum_idx)
  /\ UNCHANGED <<by_key, order, seen_template_coinbase>>

\* Mutant: the bound is tested with > instead of >=.
MustEvictLate == Cardinality(DOMAIN by_key) > MAX /\ order # <<>>

MustEvict == Cardinality(DOMAIN by_key) >= MAX /\ order # <<>>

\* Mutant: eviction pops the queue but leaves the entry in the map.
InsertPopsOnly(key, seed, idx) ==
  /\ by_key' = [k \in DOMAIN by_key \cup {key} |->
                  IF k = key THEN NewEntry(seed, idx) ELSE by_key[k]]
  /\ order' = Append(IF MustEvict THEN Tail(order) ELSE order, key)
  /\ UNCHANGED <<seen_template_coinbase, next_datum_idx>>

\* insert: drop the entry of the oldest key when the map is full, then append
\* the key and store a fresh entry.  A key that is already present is not
\* special: it is queued in `order` a second time.
Insert(key, seed, idx) ==
  LET kept == IF MustEvict THEN DOMAIN by_key \ {Head(order)} ELSE DOMAIN by_key
  IN  /\ by_key' = [k \in kept \cup {key} |->
                      IF k = key THEN NewEntry(seed, idx) ELSE by_key[k]]
      /\ order' = Append(IF MustEvict THEN Tail(order) ELSE order, key)
      /\ UNCHANGED <<seen_template_coinbase, next_datum_idx>>

\* build_share_submission emits 0x01 until the entry's branches were sent ...
Emits01(key) == ~ by_key[key].server_has_merkle_branches

\* ... and 0x02 unless the entry or the cross-protocol sentinel for the seed
\* the caller passes says that the coinbase was sent.
Emits02(key, seed) ==
  /\ ~ by_key[key].server_has_coinbase
  /\ seed \notin seen_template_coinbase

\* Mutant: the 0x01 flag is not set after the sub-block was emitted.
EncodeForgetsBranches(key, seed) ==
  /\ Contains(key)
  /\ by_key' = [by_key EXCEPT ![key].server_has_coinbase = @ \/ Emits02(key, seed)]
  /\ seen_template_coinbase' = seen_template_coinbase \cup {seed}
  /\ UNCHANGED <<order, next_datum_idx>>

\* The flags build_share_submission leaves in the entry.
MarkedEntry(key, seed) ==
  [seed |-> by_key[key].seed, idx |-> by_key[key].idx,
   server_has_merkle_branches |-> TRUE,
   server_has_coinbase |-> by_key[key].server_has_coinbase \/ Emits02(key, seed)]

\* One encoding under the lock: the flags build_share_submission flips, then
\* the caller's mark: the sentinel is set when the entry's coinbase flag is
\* set afterwards, whether or not 0x02 was emitted just now.
Encode(key, seed) ==
  /\ Contains(key)
  /\ by_key' = [by_key EXCEPT ![key] = MarkedEntry(key, seed)]
  /\ seen_template_coinbase' =
       IF MarkedEntry(key, seed).server_has_coinbase
       THEN seen_template_coinbase \cup {seed}
       ELSE seen_template_coinbase
  /\ UNCHANGED <<order, next_datum_idx>>

\* Mutant: the reset forgets the per-entry flags.
ResetOnlySentinel ==
  /\ seen_template_coinbase' = {}
  /\ UNCHANGED <<by_key, order, next_datum_idx>>

ResetSendOnceFlags ==
  /\ by_key' = [k \in DOMAIN by_key |-> NewEntry(by_key[k].seed, by_key[k].idx)]
  /\ seen_template_coinbase' = {}
  /\ UNCHANGED <<order, next_datum_idx>>

-----------------------------------------------------------------------------
TrackerTypeOK ==
  /\ DOMAIN by_key \subseteq Keys
  /\ \A k \in DOMAIN by_key : by_key[k] \in JobEntry
  /\ order \in Seq(Keys)
  /\ seen_template_coinbase \subseteq Seeds
  /\ next_datum_idx \in 0 .. IdxMod - 1
=============================================================================
