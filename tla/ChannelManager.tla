--------------------------- MODULE ChannelManager ---------------------------
(***************************************************************************)
(* The SV2 channel managers: one per connection, each with its own channel *)
(* and job numbers and extranonce allocator, all following the one         *)
(* TemplateState channel and seeding the one job tracker.                  *)
(*                                                                         *)
(* A TemplateState is its number, a target a number.  The miner's side     *)
(* (`told`) holds what it was sent.  Requests that are refused write an    *)
(* error and change nothing, so their conditions appear as guards; the     *)
(* fields of a channel that nothing reads (max_target_le,                  *)
(* nominal_hash_rate) are left out, and so is the hash of a share, which   *)
(* no target is compared with.  The tracker's eviction is in JobTracker    *)
(* and the queues behind Submit in DualRelay.                              *)
(***************************************************************************)
EXTENDS Integers, Sequences, FiniteSets

CONSTANTS
  Conns,        \* connections, each used once
  MaxChannels,  \* slots of an extranonce allocator (65536)
  IdMod,        \* ids are u32: 2^32
  Rates,        \* nominal hash rates a miner may claim
  MinRate,      \* min_hashrate_threshold
  Targets,      \* targets a miner may ask for
  MinTarget,    \* min_target_le: the easiest target handed out
  MaxTemplates, \* bound: TemplateStates published
  MaxOpens,     \* bound: channels opened per connection
  MaxShares     \* bound: shares forwarded

ASSUME ManagerAssumption ==
  /\ MaxChannels \in Nat \ {0} /\ IdMod \in Nat \ {0, 1}
  /\ Rates \subseteq Int /\ MinRate \in Nat \ {0}
  /\ Targets \subseteq Nat /\ MinTarget \in Nat
  /\ MaxTemplates \in Nat /\ MaxOpens \in Nat /\ MaxShares \in Nat

\* No connection lives long enough for its ids to wrap: an update gives each of
\* at most MaxOpens channels one job id, and 2^32 ids are never used up.
ASSUME IdsAssumption == MaxOpens + 1 + MaxTemplates * MaxOpens < IdMod

VARIABLES
  template,     \* TemplateState watch channel: number of the newest, 0 before
  conn,         \* "none", "serving", "closed"
  mgr,          \* the ChannelManager of each connection
  template_seen,\* each connection's receiver of the template channel
  opening,      \* the channel a connection is opening, between manager and tracker
  told,         \* what each miner was sent
  tracker,      \* the shared tracker: key -> the state and connection of its entry
  forwarded     \* shares sent on to the pool, in order

vars == <<template, conn, mgr, template_seen, opening, told, tracker, forwarded>>

Lower(a, b) == IF a <= b THEN a ELSE b

\* Function f with key k set to v, and without it.
Set(f, k, v) == [x \in DOMAIN f \cup {k} |-> IF x = k THEN v ELSE f[x]]
Drop(f, k)   == [x \in DOMAIN f \ {k} |-> f[x]]
Empty        == [x \in {} |-> 0]

\* ChannelManager::with_policy.
NewManager == [channels |-> Empty, next_channel_id |-> 1, next_job_id |-> 1]

Init ==
  /\ template = 0 /\ tracker = Empty /\ forwarded = <<>>
  /\ conn = [c \in Conns |-> "none"]
  /\ mgr = [c \in Conns |-> NewManager]
  /\ template_seen = [c \in Conns |-> 0]
  /\ opening = [c \in Conns |-> <<>>]
  /\ told = [c \in Conns |-> [jobs |-> Empty, active |-> Empty, target |-> Empty]]

Idle(c) == conn[c] = "serving" /\ opening[c] = <<>>

PublishState ==
  /\ template < MaxTemplates
  /\ template' = template + 1
  /\ UNCHANGED <<conn, mgr, template_seen, opening, told, tracker, forwarded>>

Accept(c) ==
  /\ conn[c] = "none"
  /\ conn' = [conn EXCEPT ![c] = "serving"]
  /\ UNCHANGED <<template, mgr, template_seen, opening, told, tracker, forwarded>>

Disconnect(c) ==
  /\ Idle(c)
  /\ conn' = [conn EXCEPT ![c] = "closed"]
  /\ UNCHANGED <<template, mgr, template_seen, opening, told, tracker, forwarded>>

-----------------------------------------------------------------------------
(* Opening and closing channels. *)

Prefixes(m) == {m.channels[id].prefix : id \in DOMAIN m.channels}

\* The slot the allocator hands out, the lowest free one: what matters is that
\* it depends on the manager's own channels only.
Allocate(m) ==
  CHOOSE i \in 0 .. MaxChannels - 1 :
    i \notin Prefixes(m) /\ \A k \in 0 .. i - 1 : k \in Prefixes(m)

\* clamp_target_to_min_hashrate_le.
Clamp(target) == Lower(target, MinTarget)

RateOk(rate) == rate > 0 /\ rate >= MinRate

\* Mutant: the manager takes the state off the connection's receiver.
OpenMarksSeen(c, extended, rate, max_target) ==
  LET m == mgr[c]
  IN  /\ Idle(c) /\ m.next_channel_id <= MaxOpens
      /\ RateOk(rate) /\ template > 0
      /\ Cardinality(DOMAIN m.channels) < MaxChannels
      /\ mgr' = [mgr EXCEPT ![c] =
                  [channels |-> Set(m.channels, m.next_channel_id,
                                    [extended |-> extended, prefix |-> Allocate(m),
                                     last_job_id |-> m.next_job_id]),
                   next_channel_id |-> (m.next_channel_id + 1) % IdMod,
                   next_job_id |-> (m.next_job_id + 1) % IdMod]]
      /\ opening' = [opening EXCEPT ![c] = <<[id |-> m.next_channel_id, job |-> m.next_job_id,
                                              template |-> template,
                                              target |-> Clamp(max_target)]>>]
      /\ template_seen' = [template_seen EXCEPT ![c] = template]
      /\ UNCHANGED <<template, conn, told, tracker, forwarded>>

\* Opening a channel, up to the seeding: the manager reads the newest state
\* without marking it as seen.
Open(c, extended, rate, max_target) ==
  LET m == mgr[c]
  IN  /\ Idle(c) /\ m.next_channel_id <= MaxOpens
      /\ RateOk(rate) /\ template > 0
      /\ Cardinality(DOMAIN m.channels) < MaxChannels
      /\ mgr' = [mgr EXCEPT ![c] =
                  [channels |-> Set(m.channels, m.next_channel_id,
                                    [extended |-> extended, prefix |-> Allocate(m),
                                     last_job_id |-> m.next_job_id]),
                   next_channel_id |-> (m.next_channel_id + 1) % IdMod,
                   next_job_id |-> (m.next_job_id + 1) % IdMod]]
      /\ opening' = [opening EXCEPT ![c] = <<[id |-> m.next_channel_id, job |-> m.next_job_id,
                                              template |-> template,
                                              target |-> Clamp(max_target)]>>]
      /\ UNCHANGED <<template, conn, template_seen, told, tracker, forwarded>>

OpenExtended(c, rate, max_target) == Open(c, TRUE, rate, max_target)

\* A standard channel's prefix is the same slot, padded to the full extranonce.
OpenStandard(c, rate, max_target) == Open(c, FALSE, rate, max_target)

\* Mutant: the entry is made of the state the connection handled last, if any.
SeedFromSeen(c) == IF template_seen[c] = 0 THEN template ELSE template_seen[c]

\* The state seed_job_tracker makes the entry of: the newest, read again.
SeedState(c) == template

\* seed_job_tracker reads the newest state again; then the success, the job and
\* the SetNewPrevHash go to the miner.
SeedAndReply(c) ==
  LET o == opening[c][1]
  IN  /\ opening[c] # <<>>
      /\ tracker' = Set(tracker, <<o.id, o.job>>, [template |-> SeedState(c), conn |-> c])
      /\ told' = [told EXCEPT ![c] =
                   [jobs   |-> Set(@.jobs, <<o.id, o.job>>, o.template),
                    active |-> Set(@.active, o.id, o.job),
                    target |-> Set(@.target, o.id, o.target)]]
      /\ opening' = [opening EXCEPT ![c] = <<>>]
      /\ UNCHANGED <<template, conn, mgr, template_seen, forwarded>>

\* handle_close_channel: the slot is freed with the channel.
CloseChannel(c, id) ==
  /\ Idle(c) /\ id \in DOMAIN mgr[c].channels
  /\ mgr' = [mgr EXCEPT ![c].channels = Drop(@, id)]
  /\ told' = [told EXCEPT ![c].active = Drop(@, id), ![c].target = Drop(@, id)]
  /\ UNCHANGED <<template, conn, template_seen, opening, tracker, forwarded>>

-----------------------------------------------------------------------------
(* Template updates, target updates and shares. *)

\* The orders in which a hash map may be walked.
Ranks(S) == {r \in [S -> 0 .. Cardinality(S) - 1] : \A a, b \in S : r[a] = r[b] => a = b}

\* Mutant: the job id of the channel is used again.
JobFromLast(m, rank, id) == m.channels[id].last_job_id

\* The id of the job a template update gives to a channel.
JobFor(m, rank, id) == (m.next_job_id + rank[id]) % IdMod

\* on_template_update and the template arm of the connection.
TemplateUpdate(c, rank) ==
  LET m    == mgr[c]
      ids  == DOMAIN m.channels
      Job(id) == JobFor(m, rank, id)
      keys == {<<id, Job(id)>> : id \in ids}
  IN  /\ Idle(c) /\ template_seen[c] < template
      /\ template_seen' = [template_seen EXCEPT ![c] = template]
      /\ mgr' = [mgr EXCEPT
           ![c].next_job_id = (@ + Cardinality(ids)) % IdMod,
           ![c].channels = [id \in ids |-> [@[id] EXCEPT !.last_job_id = Job(id)]]]
      /\ told' = [told EXCEPT
           ![c].jobs = [k \in DOMAIN @ \cup keys |-> IF k \in keys THEN template ELSE @[k]],
           ![c].active = [id \in ids |-> Job(id)]]
      /\ UNCHANGED <<template, conn, opening, tracker, forwarded>>

\* Mutant: the requested target is echoed.
UpdateChannelEchoes(c, id, rate, target) ==
  /\ Idle(c) /\ id \in DOMAIN mgr[c].channels /\ RateOk(rate)
  /\ told' = [told EXCEPT ![c].target[id] = target]
  /\ UNCHANGED <<template, conn, mgr, template_seen, opening, tracker, forwarded>>

\* UpdateChannel: SetTarget with the clamped target.  (The reply is the same
\* for a channel that is not open, which the miner ignores.)
UpdateChannel(c, id, rate, target) ==
  /\ Idle(c) /\ id \in DOMAIN mgr[c].channels /\ RateOk(rate)
  /\ told' = [told EXCEPT ![c].target[id] = Clamp(target)]
  /\ UNCHANGED <<template, conn, mgr, template_seen, opening, tracker, forwarded>>

\* finalize_share: a share is accepted when the tracker has an entry for it.
Accepted(key) == key \in DOMAIN tracker

\* A share on a channel of the kind its message is for.
Submit(c, id, extended, job) ==
  LET key == <<id, job>>
  IN  /\ Idle(c) /\ id \in DOMAIN mgr[c].channels
      /\ mgr[c].channels[id].extended = extended
      /\ key \in DOMAIN told[c].jobs /\ Accepted(key)
      /\ Len(forwarded) < MaxShares
      /\ forwarded' = Append(forwarded,
           [conn |-> c, given |-> told[c].jobs[key], entry |-> tracker[key]])
      /\ UNCHANGED <<template, conn, mgr, template_seen, opening, told, tracker>>

SubmitExtended(c, id, job) == Submit(c, id, TRUE, job)
SubmitStandard(c, id, job) == Submit(c, id, FALSE, job)

-----------------------------------------------------------------------------
\* A job the miner of connection c was given on channel id.
JobsOn(c, id) == {k[2] : k \in {k \in DOMAIN told[c].jobs : k[1] = id}}

Serve(c) ==
  \/ \E rate \in Rates, t \in Targets : OpenExtended(c, rate, t) \/ OpenStandard(c, rate, t)
  \/ SeedAndReply(c)
  \/ \E rank \in Ranks(DOMAIN mgr[c].channels) : TemplateUpdate(c, rank)
  \/ \E id \in DOMAIN mgr[c].channels :
       \/ CloseChannel(c, id)
       \/ \E rate \in Rates, t \in Targets : UpdateChannel(c, id, rate, t)
       \/ \E job \in JobsOn(c, id) : SubmitExtended(c, id, job) \/ SubmitStandard(c, id, job)

Next ==
  \/ PublishState
  \/ \E c \in Conns : Accept(c) \/ Disconnect(c) \/ Serve(c)

Spec == Init /\ [][Next]_vars

-----------------------------------------------------------------------------
(* Properties. *)

Ids == 0 .. IdMod - 1
Channel == [extended : BOOLEAN, prefix : 0 .. MaxChannels - 1, last_job_id : Ids]

\* The values of every variable; a connection has at most MaxChannels channels.
TypeOK ==
  /\ template \in 0 .. MaxTemplates
  /\ \A c \in Conns :
       /\ conn[c] \in {"none", "serving", "closed"}
       /\ template_seen[c] \in 0 .. template
       /\ mgr[c].next_channel_id \in Ids /\ mgr[c].next_job_id \in Ids
       /\ DOMAIN mgr[c].channels \subseteq Ids
       /\ \A id \in DOMAIN mgr[c].channels : mgr[c].channels[id] \in Channel
       /\ Len(opening[c]) <= 1
       /\ DOMAIN told[c].active = DOMAIN told[c].target
  /\ \A k \in DOMAIN tracker :
       tracker[k].template \in 1 .. template /\ tracker[k].conn \in Conns
  /\ Len(forwarded) <= MaxShares

\* When a connection has handled the newest state, every channel it serves
\* works on that state, those opened while the state changed included.
NewestJobActive ==
  /\ TypeOK
  /\ \A c \in Conns : (Idle(c) /\ template_seen[c] = template) =>
       /\ DOMAIN told[c].active = DOMAIN mgr[c].channels
       /\ \A id \in DOMAIN told[c].active :
            /\ told[c].active[id] = mgr[c].channels[id].last_job_id
            /\ told[c].jobs[<<id, told[c].active[id]>>] = template

\* A job once sent to a miner is never sent again with other contents: job ids
\* are not reused on a channel.
JobsImmutable ==
  [][\A c \in Conns : \A k \in DOMAIN told[c].jobs :
       k \in DOMAIN told'[c].jobs /\ told'[c].jobs[k] = told[c].jobs[k]]_vars

\* No target handed out is easier than the hash rate floor allows, whatever
\* the miner asks for and in whichever message it asks.
TargetsClamped ==
  \A c \in Conns : \A id \in DOMAIN told[c].target : told[c].target[id] <= MinTarget

\* A share is never encoded from an entry older than its job: seed_job_tracker
\* reads the template channel after the job was made, and no later insertion of
\* the connection changes the entry.
EntryNotOlder ==
  \A i \in 1 .. Len(forwarded) :
    forwarded[i].entry.conn = forwarded[i].conn =>
      forwarded[i].entry.template >= forwarded[i].given
=============================================================================
