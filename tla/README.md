# TLA+ verification of the DATUM gateway (datum-rs)

The gateway sits between Bitcoin miners (Stratum V1 and V2), a bitcoind node and
a DATUM pool.  It fetches block templates, builds jobs, hands them to miners,
and relays the miners' shares to the pool over one encrypted connection.  This
directory models its control (tasks, queues, connections, retries) and the data
that both ends of a connection must agree on (frames, coinbases, headers, targets,
the configuration) and checks the models with TLC on small instances.  TLAPS proves,
for every value of the constants, safety properties of nine of them: the share path with
one and with both protocols, the upstream task, the template pipeline, the SV1 connection,
the SV2 channel manager and session, the DATUM connection and the block submission.

Run a model with `tlc -config <file>.cfg <module>`, a proof with
`tlapm <module>.tla`.  `PROJECT.json` lists every run, the source lines each
definition stands for, the hazards and the theorems.

## 1. The system

| part | source (under `src/crates/`) | state | operations |
|------|------------------------------|-------|------------|
| template puller | `datum-blocktemplates/src/lib.rs` | longpollid, watch channel of templates | long poll, error backoff, publish |
| template state | `datum-blocktemplates/src/template_state.rs`, driver in `datum-bin/src/main.rs` 251-314 | watch channel of `TemplateState`, job seed | wake on template or coinbaser, build, publish |
| job tracker | `datum-share-relay/src/lib.rs` | map of job entries, eviction queue, send-once flags, cross-protocol sentinel, 8-bit slot counter; one mutex | `next_idx`, `insert`, `get_mut`, `mark`, `reset_send_once_flags` |
| share encoder | `datum-share-relay/src/share_encoder.rs` | none (mutates a job entry) | `build_share_submission` |
| SV1 assembler and share relay | `datum-bin/src/main.rs` 320-519 | job tick, share in flight | notify a job, look up / encode / submitblock / send |
| SV1 server | `datum-stratum-sv1/src/server.rs`, `assembler.rs` | per connection: vardiff, emit ring, subscription, duplicates | configure, subscribe, authorize, submit, notify, vardiff tick |
| SV2 listener | `datum-stratum-sv2/src/listener.rs` | one task per connection | accept, open, close, submit, template update |
| SV2 channel manager, share path | `channel_manager.rs`, `share_path.rs` | channels, jobs, targets, extranonces | open, close, update, validate |
| Noise stream | `noise_stream.rs` | partially read frame | read and write frames |
| DATUM upstream task | `datum-bin/src/main.rs` 703-1022 | connection phase, request flags, override channels | connect, select, request the coinbaser, reconnect |
| DATUM client | `datum-protocol/src/client.rs` | receive task, command loop, nonces | recv, decode, send with timeout |
| handshake, crypto, frames, obfuscation | `datum-protocol/src/*.rs` | header keys, nonces | key exchange, seal and open |
| coinbaser | `datum-coinbaser/src/lib.rs` | none | parse the pool's blob, split the reward |
| duplicates | `datum-dupes/src/lib.rs` | set of seen shares | check, clear |
| submitblock | `datum-submitblock/src/lib.rs` | extra nodes | submit, fan out, preciousblock |
| RPC client | `datum-rpc/src/lib.rs` | cached cookie, shared by all tasks | call, reload the cookie after a 401 |
| configuration | `datum-config` | the file, its defaults | parse, validate |
| API, logger | `datum-api`, `datum-logger` | counters | I/O |

How they interact.  The puller publishes templates on a watch channel (only the
newest value is kept).  The template-state driver turns a template and the
pool's coinbaser into a `TemplateState` with a new seed and publishes it to both
listeners.  The SV1 assembler numbers a job, inserts it into the tracker and
notifies the miners; the SV2 listener does the same per channel.  A share is
encoded under the tracker's lock and put on a command queue that outlives the
connection to the pool.  For each connection the upstream task starts a bridge
from that queue to the connection's own command queue, which the writer drains;
a receive task turns the pool's frames into events for the upstream task.  The
pool keeps a slot table per connection: the first share of a job carries the
job's merkle branches (0x01) and the first of a template its coinbase (0x02);
later shares leave them out, so order and loss on this path decide whether the
pool can place a share at all.

What is hard here.

* Order and loss across five queues and a reconnect: the send-once flags are set
  when a share is encoded, long before it is delivered.
* Values read in one lock section and used in another (`next_idx`, the template
  seed, the template channel read twice in one handler).
* Two tasks per connection that end independently and a main loop that waits for
  both.
* Bounded channels whose senders park: a full queue stops a task in the middle of
  a handler.
* A bounded map with an eviction queue that tolerates re-insertion.
* An 8-bit slot counter equal in size to the map.
* A miner that works on a notify the server has since replaced, while the
  difficulty, the pool's floor and the job change independently.
* A `select!` that drops a half-read frame whenever another arm is ready, and polls nothing
  while a handler waits.
* Ids and extranonce prefixes that every SV2 connection counts for itself, used as
  keys in state shared by all of them.
* Two key chains and two nonce counters per DATUM connection of which nothing is on
  the wire: one step taken by one side only garbles the rest of the stream.
* A coinbase, a merkle path and hashes in three byte orders, built once and taken apart by
  three other parties (miner, pool, bitcoind).
* A cookie that bitcoind replaces at every restart, cached by a client that several
  tasks use at once without a lock around reading, storing and clearing it.

What makes each part correct.  Tracker: a job stays resolvable until `MAX` newer
ones exist, and no two live jobs share a slot.  Share path: the pool can place
every share it is sent.  Upstream task: a dead connection is replaced and a
withdrawn override does not survive it.  Template pipeline: no wake-up is lost and
a coinbase pays what the pool asked for and no more than the reward.  SV1
connection: the share is credited with the work the miner was told to do.  Channel
manager: every miner gets work of the newest state, and a share is encoded from
a state no older than its job's.  Session: the frames dispatched are the frames sent.
DATUM connection: the two ends stay in step and no nonce is used twice.  Work: for
every configuration the validation accepts, the coinbase can be read, the pool
rebuilds the header that was hashed and a block is recognised exactly at its target.
Block submission: what is reported accepted is in the chain, and stale credentials
never shut the gateway out.

`PROJECT.json` lists the hazards one by one, each at the line where it bites.

## 2. Modules

| module | models | how state and actions correspond |
|--------|--------|----------------------------------|
| `JobTracker` | `JobTracker`, send-once part of the encoder | fields of the struct one for one; each method, and the locked section around an encoding, is an action. Only coinbase id 0 exists, as both listeners always use it. |
| `Sv1Relay` (extends `JobTracker`) | assembler, relay, bridge, writer, reset on connect; the pool's slot table (external) | one action per await-free section: `AsmAllocate`/`AsmInsert` are the two lock sections of the assembler, `RelayEncode`/`RelaySend` the locked encoding and the awaited send, `BridgeTake`/`BridgePut`/`BridgeFail` the bridge's recv and send. |
| `DualRelay` (extends `Sv1Relay`) | SV2 connection tasks with their channel managers, SV2 queue and bridge | `OpenChannel`/`SeedJobTracker` and `BeginSubmit`/`Submit` separate what is read before the lock from what is done under it; `Forward` is `forward_share_outcome`, the block callback included. |
| `Upstream` | `run_datum_upstream` and `Connected::run` | `phase` is the await the main loop is at; `recv_out` and `phase = request_*` are tasks parked on a full channel. |
| `Link` | abstract life cycle of a connection | implemented by `Upstream`, whose tasks take several steps for each of its four; `Sv1Relay` and `DualRelay` have those four among their own actions. |
| `TemplatePipeline` | puller, coinbaser and tag channels, TemplateState driver | a watch channel is its value and a seen flag; the driver's wake-up, its two reads and `Publish` are separate steps because the upstream task may write between them; `Respond` is the handler of the pool's answer, and `Parse` the coinbaser's parser with its cap on outputs and on the value in the answer. |
| `Sv1Connection` | `handle_connection` of the SV1 server and the assembler's coinb1 patch | one action per arm of the select loop and per request; `emit_ring` is the two-slot ring of notifies, `wire` the messages the miner has not read yet. |
| `ChannelManager` | channel managers of all connections, seeding of the tracker, share path | `Open` and `SeedAndReply` are the two reads of the template channel in one handler; prefixes come from a per-connection allocator (external), by the lowest free slot. |
| `Sv2Session` | Noise handshake, SetupConnection, `read_frame` under the dispatch loop's select | fields of `NoiseTcpReadHalf` one for one; `reading` is the state of the pending future, which the arms before it in the biased select drop; `handler` says what the task waits for while nothing is polled (the miner, the command queue), `dropped` that no publisher of templates is left. |
| `Messages` | `messages.rs`, `header.rs`, opcodes | the bodies and the frame header byte by byte; `Encode...` and `Decode...` are the two directions, `Err` a refused body. |
| `DatumSession` (extends `Messages`) | `client.rs`, `handshake.rs`, `crypto.rs`, `obfuscation.rs` | one action per await of `connect` and of the two halves; a frame is two items on the stream, so that it can be torn; a pool (external) that may answer wrongly, stall or close. |
| `PowersOfTwo` | `floor_pot`, `is_power_of_two` | the powers of two a u64 holds, by their exponent. |
| `Config` (extends `PowersOfTwo`) | `sections.rs`, `validate.rs` | one record per section with the value of every absent key; `validate` is the set of errors. |
| `Coinbase` (extends `PowersOfTwo`) | `template_state.rs`, the coinb1 patch, the tracker's record of a job | operators on byte sequences; a 32-byte hash is a symbolic term with its byte order. |
| `Work` (extends `Config`, `Coinbase`) | start-up, `ClientConfig`, template, SV1 notify or SV2 job, share, 0x27 body and block | one action per hand-over; `Relay` is `build_share_submission` as a whole. The miner, the pool and bitcoind are external. |
| `BlockSubmit` | `datum-rpc`, `datum-submitblock`, their callers | one action per section of `call_value` between two awaits; `stage` is where a submission is. bitcoind is external. |
| `RelayProofs` | theorems about `Sv1Relay` and `DualRelay` | see section 5. |
| `UpstreamProofs`, `TemplatePipelineProofs`, `Sv1ConnectionProofs`, `ChannelManagerProofs`, `Sv2SessionProofs`, `DatumSessionProofs` | theorems about the module each is named after | see section 5. |
| `BlockProofs` | theorems about `Work` and `BlockSubmit` | see section 5. |
| `MC*` | instances for TLC | give the constant sets their values. |

The pool appears in `Sv1Relay` as `pool_slot`, `pool_coinbase` and `Verdict`,
modelled from how the encoder expects it to use the sub-blocks; the history
fields `n`, `src` and `epoch` of a share and the variables `verdicts`, `last` and
`enqueued` only record what happened.  Likewise `used`, `sent` and `pool_sent` of
`DatumSession`, `made` of `Work` and `raced` of `BlockSubmit`.

Cryptography is symbolic and perfect: a box opens only under its own key and nonce,
a header word only with the key it was written with, and the mixing function of the
obfuscation is an uninterpreted step along a chain.  The arithmetic of nonces is
kept.  Hashes are terms: two are equal exactly when the hashed texts are.  The
order in which an SV1 miner, an SV2 miner and the pool read the 32-byte fields is
an assumption, taken from the comments at the places that write them.

Some properties are conjunctions of named parts: `LiveKeysQueued` includes
`DualTypeOK`; `ConfigGoverns` is the type invariant, `TagWithdrawn` and
`OneRequest`; `WorkInStep` is `NewestWorkSent` and `ToldMatchesWork`; and
`StampMatchesCoinb1`, `TagWithBlob`, `FramesIntact`, `NewestJobActive`,
`NoncesFresh`, `CoinbaseParses` and `AcceptedBlockStored` include the type invariant
of their module (`CoinbaseParses` also `PotInPlace`).

## 3. Runs and what they show

| run | shows |
|-----|-------|
| `sv1_relay` | SV1 alone: the tracker holds exactly the newest jobs in order, live jobs have distinct slots, every share encoded since the reset reaches a pool that knows its job and coinbase, and no sub-block is sent twice. |
| `sv1_reconnect` (violation) | A share encoded before a reconnect waits in the persistent queue and reaches the new connection without its 0x01: the pool cannot place it. |
| `dual_relay` | Both protocols: every tracker entry stays evictable, and each source's shares are delivered in the order they were encoded. |
| `upstream` | The tag override never outlives its connection, one coinbaser request per connection, the request is settled whatever order its two triggers come in, the main loop never stays parked, a connection the pool closed is given up and replaced while miners submit, and the task implements `Link`. |
| `pipeline` | No wake-up is lost: the newest template and split are published or overtaken, the puller follows bitcoind through errors and backoff, a split the pool was asked for is published with the tag of its own connection, and a split stays within the value the pool's answer was about. |
| `sv1_connection` | While the miner reads late and difficulty, floor and job change: the difficulty a share is stamped with is the one in the coinb1 it is forwarded with, the newest work has been sent, the last two notifies resolve, the difficulty the miner was told is the one of its work, and a raised floor is caught up with. |
| `channels` | One connection: every channel ends on the newest state, a job id is never reused, no target exceeds the floor, and no share is encoded from a state older than its job's. |
| `sv2_session` | Frames that arrive byte by byte while updates drop the pending read: none is torn, lost or repeated; and, as long as handlers return, each whole frame is dispatched while the publisher of the templates lives, and shutdown ends the connection. |
| `datum_session` | A session from the dial to the teardown, twice: the events handed up are the pool's messages in its order, the pool decrypts exactly what was sent, no nonce encrypts two bodies in either direction or across them, also when a write fails half way, and every attempt to connect ends. |
| `work` | Configurations at every edge the validation knows: the coinbase of each accepted one parses to the height, tags, unique id, extranonce push and outputs it was made of; the power of two the pool reads is the highest bit of the SV1 difficulty, and all of it unless the pool's minimum decides and is no power of two; the pool rebuilds the header; a block is recognised exactly at its target and commits to its transactions. |
| `merkle_path` (violation) | With four transactions the merkle branches do not lead to the merkle root. |
| `block_submit` | Puller and two submissions share one client while bitcoind restarts and answers are lost: an accepted block is in the chain, one share sent twice is accepted once, a reload of the cookie helps, and the puller gets through again. |

Each violation run states what a comment or document of the repository says and
is listed under `findings` with the quotation.

### Bounds

* `MAX = 2`, `IdxMod = 2` with three jobs: the map evicts and the slot counter
  wraps, at the equality the code runs at (256 and 256).
* Queues of capacity one: every sender parks; three intermediate places and the
  parked share already give every interleaving of taking, putting and losing.
* Two connections: one reset with shares left from the connection before.
* Four shares: two on a job before and two after a reset or an eviction.
* `DualRelay`: two accepted SV2 connections one after the other, so that channel
  and job numbers repeat; two job numbers, so that a channel gets a second job.
* `Upstream`: channels of capacity one, two templates, two frames per connection
  and two connections: each order of ClientConfig and template, twice over.
* `TemplatePipeline`: two templates of two values and two connections, so that a
  split is older or newer than the template and of this or the connection before;
  two outputs are allowed and three are offered, so that both caps bite, on the number
  and on the value; the pool answers asked or not, about either value.
* `Sv1Connection`: two jobs, difficulties 1 to 4 and one raise of the floor to 2
  (vardiff goes up and down across the floor), three shares (the burst and one
  more), and two logins, so that a second subscribe or authorize happens.
* `ChannelManager`: two slots and three openings, so that the allocator runs out
  and a freed prefix is used again; two states, so that one is published at every
  point of an opening.
* `Sv2Session`: three frames; one body is as long as a header, so that the buffer is
  not resized between the two, and others are shorter or longer; two updates, so
  that one read is dropped twice; every handler may wait or fail (19 000 states).
* `DatumSession`: two connections, two frames each way, and nonces of two bytes that
  start at a carry and at the wrap; every kind of pool frame, whole, padded, cut,
  signed, encrypted and plain; one body too long for a header (450 000 states).
* `Work`: up to three keys besides the required ones, each at an edge of the
  validation (a validation error involves at most three keys); heights at which the
  encoding grows, zero to four transactions, with and without commitment and target;
  three hashes: the target, one more, one less in a low byte only.  `merkle_path` has
  zero to seven transactions.  Vardiff doubles the difficulty once, up to a ceiling of
  32768 (`MaxDiff`, 2^40 in the gateway), so that both sides of the `min` are taken; the
  pool's minimum is absent, a power of two or 24576, which is none.  One
  job and one share: nothing of `Work` is used again for the next.
* `BlockSubmit`: one restart, one lost answer, two finds of one block and one extra
  node: every order of two stale cookies, one of them stored late (390 000 states).

`CHECK_DEADLOCK FALSE` is set for the share path, the channel managers and the
connections, the session and the work, which stop when their bounds are used up or
the miner leaves; `Upstream`, `TemplatePipeline` and `BlockSubmit` are checked for deadlock.

### Fairness

Safety runs use none.  `Upstream!Fairness` says that tokio runs ready tasks
(weak fairness of the receive task, the main loop, the writer and the backoff
timer), and that a sender waiting for room in a bounded channel is served
(strong fairness of `RequestPut`: tokio grants permits first come, first served,
so the bridge cannot overtake the main loop for ever).  The writer is weakly fair
because `send_frame` has a 30 s timeout.  Nothing is assumed of the pool, of
bitcoind or of the miners; `Busy`, the hypothesis of `BusyReconnects`, adds that miners
keep submitting and that TCP eventually fails a write to a closed peer.

`TemplatePipeline` assumes nothing of the pool: it may answer without being asked and
about any value, as the handler (`main.rs` 824-841) checks neither, and `TagWithBlob` is
therefore about the splits asked for.  It assumes that the driver and the backoff timer run (weak) and
that bitcoind, asked again and again, at last answers with its new template
(strong, as errors may come in between).  Nothing is assumed about which channel
wakes the driver: its `select!` is biased towards templates, but whichever arm
wins, both channels are read afterwards.  `Sv1Connection` assumes that the relay takes shares and that ready arms of
the loop run (weak; the loop polls the miner's socket first, so this says that the miner does
not send requests faster than they are read), and that the vardiff interval keeps
ticking (strong, because a submission parked on the full queue disables it again
and again).  `Sv2Session`
assumes that the connection's task runs; what the handshake reads needs nothing of the
miner because it has a timeout.  Writes and the send into the command queue have none,
so nothing is assumed of them: that handlers return (`HandlersReturn`) is a hypothesis in
`FramesDispatched` and `ShutdownEnds`, and so is a live publisher in the first.  That the
select is biased is in the guards: an arm is taken only if none before it is ready.  `DatumSession` assumes that the future of `connect` is
polled and its timers fire, and nothing of the pool.  `BlockSubmit` assumes that
tasks run and that the HTTP client's timeouts end every request; nothing is assumed
of bitcoind, and `PullerRecovers` has its hypothesis (bitcoind stays up) in the
formula.

## 4. Findings

The two violation runs, and one passing run, show disagreements between the code and
what its comments or documents say; `PROJECT.json` quotes them.

* `sv1_reconnect`: a share encoded before a reconnect waits in the persistent queue
  and reaches a pool that was never told its job.
* `merkle_path`: `build_merkle_branches` pairs the nodes of every level as it pairs
  the first one, which alone lacks the coinbase.  From four transactions on a branch
  is wrong, and with it the merkle root of every job and block.
* `sv2_session` (passing): `read_frame` is commented "Not cancellation-safe"
  (`noise_stream.rs` 175-177), and the dispatch loop drops it in a select arm.  The code is
  right and the comment is not: what was read is kept in the struct, and `FramesIntact`
  holds wherever the future is dropped.

Five more properties fail on the models; run their configurations to see the
counterexample.

| configuration, module | property | what the code does |
|-----------------------|----------|--------------------|
| `DualBlock.cfg`, `MCDualRelay` | `SubmitBlockFirst` | an SV2 block waits for room in the DATUM queue before it is handed to submitblock |
| `UpstreamIdle.cfg`, `MCUpstream` | `ClosedReconnects` | without submissions a closed connection is not given up: the receive task ends, the writer waits on an empty queue, the main loop waits for both |
| `PipelineReward.cfg`, `MCTemplatePipeline` | `CoinbaseWithinReward` | a split is capped with the value in the pool's answer (`main.rs` 830), which is compared neither with the request nor with the template it is combined with, now or later |
| `Sv2Dropped.cfg`, `MCSv2Session` | `ServedWithoutPublisher` | once the publisher of the templates is gone its arm is ready for ever, and the biased loop goes round without polling `read_frame`; the comment at `listener.rs` 393-394 says "Keep serving existing frames so the miner closes us, not vice versa". The gateway keeps a publisher until `main` returns (`main.rs` 251), so that only other users of the listener meet it |
| `Sv1Ring.cfg`, `MCSv1Connection` | `OldNotifyResolves` | after a difficulty change both ring slots hold one job id; a share on the older notify resolves to the newer coinb1 |

The models show further behaviours that no run states, because the code makes no
attempt to exclude them (the hazards name the lines):

* Between SV2 connections nothing is unique.  Channel ids, job ids and extranonce
  slots all start anew on each connection (`NewManager`), while the tracker's keys
  and the coinbase's extranonce space are shared: entries replace each other, a key
  inserted twice is queued twice for eviction so that the map may outgrow `MAX`,
  and two standard channels may hash the same coinbase.
* `TemplateUpdate` inserts nothing into the tracker, so shares on those jobs are
  answered with an error (`Reject`).
* With both protocols, an SV1 share may overtake the SV2 share that carries the
  coinbase it left out, and a share on an older job marks the current template's
  seed, so that a coinbase may be announced twice.
* A state published between the two reads of an opening gives the job an entry
  newer than the job (`EntryNotOlder` is all that holds); a template published
  between the two reads of the ClientConfig handler sets `coinbaser_requested`
  without a request (`Recheck`).
* A raise of the floor consumed before the miner subscribes waits for the next
  vardiff tick (`FloorRestored` is all that holds).
* While an SV2 handler runs, its connection sees neither a shutdown, nor a template, nor a
  frame.  It waits without a timeout for room in the command queue (`listener.rs` 706-710,
  732-735) and for the miner to take what is written (`write_frame`), the reply of the
  handshake included, so a miner that stops reading keeps its task (`HandlersReturn`).
* `Submit` of an SV2 share compares no hash with a target and remembers no share.
* An SV2 job carries the placeholder 0xFF where the coinbase says its difficulty
  (`EmitExtended`, `EmitStandard`), and the encoder rebuilds the coinbase with the
  byte of difficulty 8.  The pool and the gateway agree (`Reconstructs`), but the
  miner hashed another root: `share_encoder.rs` 46-49 asks for the bytes it hashed.
* The pool's tag is cut to 86 bytes before `from_utf8_lossy`, which may triple it.  A
  tag block of more than 255 bytes wraps its one-byte length (`CoinbaseParses` covers
  the shorter ones), and a scriptsig of more than the 100 bytes bitcoind allows is
  possible well before.
* A `submitblock` that times out ends the submission: neither the extra nodes nor
  `preciousblock` are asked, although bitcoind may have taken the block.
* A task that read the old cookie may store it after another task reloaded
  (`raced`): that call fails, and the next one recovers.
* `rpcpassword` without `rpcuser` passes the validation (`ChosenAuth`), and neither
  puller nor submitter is started.  `extra_block_submissions.urls` is validated, but
  the gateway builds its submitter without extra nodes, and `save_submitblocks_dir`
  has no reader.

## 5. Proofs

Each theorem has the form `Spec => []P` (or `Spec => P` for a refinement or an action
property), where `P` is the property its run checks, and holds for all values of the
constants that satisfy the module's assumptions.  The bounds of section 3 are constants
too, so the theorems are about any number of jobs, shares, connections and frames.  The
argument is the same everywhere: an inductive invariant, called `IInv` unless said
otherwise, is true initially, is kept by every action (one lemma each) and implies `P`.

### Assumptions

Most say only that counts are numbers and that capacities are positive
(`TrackerAssumption`, `RelayAssumption`, `DualAssumption`, `UpstreamAssumption`,
`PipelineAssumption`, `ConnectionAssumption`, `ManagerAssumption`, `MessagesAssumption`,
the two `SessionAssumption`s, `BoundsAssumption`).  TLC evaluates every one of them in
the runs.  These say more:

* `TrackerAssumption`: `MAX <= IdxMod`.  In the code both are 256.
* `IdsAssumption`: a connection's channel and job ids do not wrap at 2^32.  At one
  update in 30 seconds and a thousand channels that takes four years on one connection;
  nothing in the code stops it.
* `ConfsAssumption`: the version text is bytes.
* `FramesAssumption`: what the pool may send.  A whole frame decodes to its message, and
  a frame cut short has lost so much that it is refused.  It is the part of
  `DownInOrder` that is about codecs: those sum bytes with folds, which needs induction
  over data (see below), so that TLC evaluates it, on every kind of frame of the run.
* `NamesAssumption`: the names of tasks, cookies and errors differ.

### The share path (`RelayProofs`)

* `TypeCorrect`: `TypeOK` alone is not inductive.  That ticks stay within the published
  templates needs `AsmInv`: the assembler never runs ahead of the watch channel.
* `NewestJobsTracked`: the tracker holds exactly the `MAX` newest jobs.  Needs the
  cardinality of an interval of keys to see when `insert` evicts.
* `SlotsDistinct`: live jobs have distinct slots.  The strengthening `SlotInv` says
  that the live jobs' slots are the last ones allocated, counted backwards from
  the slot of the next job, also while the assembler is between its two lock
  sections; distinctness is then arithmetic from `MAX <= IdxMod`.
* `FreshResolve`: every share encoded since the reset is placed.  The inductive
  invariant `PipeInv` sees all queues as one `Pipe`: handing a share on leaves it
  unchanged, encoding appends, writing pops.  It says that shares in one slot are
  ordered by job, the pool's table is never ahead of a share in the pipe, and
  whatever a fresh share leaves out, or a flag calls sent, is in the pool's table
  or ahead in the pipe.  While the link is not up the last part is void, because
  a lost share may be the one that carried the announcement; the reset on connect
  makes it true again.
* `SubBlocksOnce`: between two resets no sub-block is announced twice.  `OnceInv` adds
  the converse to `PipeInv`: at most one share of this connection in the pipe carries a
  given announcement, none does once the pool has it, and in both cases the flag is set.
* `EntriesStayQueued`: with both protocols every tracker entry is in the eviction queue.
  The key SV2 inserts again is queued twice, and evicting the first copy must not leave
  an entry without one; `ManagerInv` keeps the channel and job numbers a connection inserts
  within their range.
* `SharesDeliveredInOrder`: each source's shares are delivered in the order they were
  encoded.  `OrderedPath` reads the queues and bridges behind the sources as one sequence
  in which each source's numbers increase (`PathOrdered`), and the share a source is
  parked on is newer than all of its own there (`HeldBehind`).  Every step drops the
  oldest shares (`Drops`), changes what a source holds (`HeldNext`) or lets a held
  share in behind the earlier ones of its source (`Enters`), and each of the three
  keeps the order.

### The upstream task and the templates

* `ConfigAlwaysGoverns` (`UpstreamProofs`): no tag and no coinbaser request without the
  connection's own ClientConfig, at most one request, and no tag afterwards.  Needs that a
  handler about to ask has its ClientConfig and that nothing was asked before it
  (`AskingFirst`), that a request made is remembered by the flag or by the recheck still
  to come (`AskedOnce`), and that a connection given up has no writer (`Ends`).
* `UpstreamImplementsLink`: the task implements `Link` under the mapping `LinkState`.
* `TagAlwaysWithBlob` (`TemplatePipelineProofs`): a split that the connection that is up
  asked for is published with that connection's tag, although the driver reads the two
  channels in separate steps.  `TagCurrent` says that such a split, wherever it is held,
  implies that the connection's configuration and so its tag are there.
* `CoveredAlwaysPays`: a state pays no more than its template's value, unless the pool's
  answer was about a higher one.  `Pays` says of every split held anywhere (`Splits`)
  that it stays within the value of its answer.  What `Parse` pays is a sum over outputs; that its cap
  holds is proved by a least counterexample in the naturals.

### The miners' connections

* `StampsMatch`, `LastTwoAlwaysResolve`, `WorkKeepsStep` (`Sv1ConnectionProofs`).  The
  invariant follows each notify through the ring, the wire and the submission queue:
  every ring entry and every queued share was patched for the difficulty it records
  (`RingStamped`, `QueueStamped`), the newest entry is at the difficulty in force and
  for the newest job once that was seen (`RingNewest`), the entries are the last
  notifies sent (`RingSent`), and the last difficulty on the wire is the one in force
  (`DiffSent`).
* `NewestJobsMined`, `TargetsAlwaysClamped`, `EntriesNeverOlder`, `JobsNeverChange`
  (`ChannelManagerProofs`): `ConnInv` says of each connection that ids already given are
  below the next one (`Numbered`, `JobsNumbered`), and that the job of each channel, also
  of one that is being opened, was made of a state no older than the last one handled
  (`OpeningJob`, `ActiveJobs`).
  `EntriesFollowJobs` says that a tracker entry is no older than the job it stands for.
  The lowest free slot, and so its type, exists by the least-number principle.
* `FramesAlwaysIntact` (`Sv2SessionProofs`): dispatched frames, decoded header, buffered
  bytes and the socket, put together, are the stream the miner sends (`Stream`,
  `Before`), wherever a `select!` drops the pending read (`Progress`).

### The DATUM connection (`DatumSessionProofs`)

* `PoolReadsWhatIsSent`: the pool decrypts what is sent.  A nonce has no closed form
  here, so the history `used.up` is the chain: the k-th frame was encrypted under its
  k-th entry, each entry is the increment of the one before (`NonceChain`), and the two
  ends stand at the places of that chain given by the frames sent and read (`InStep`).
  `Frames` locates each header and body on the wire, torn or not.  Before the session,
  `OnWire` and `Agreed` carry the key exchange: a pool that echoed our keys holds the
  chain and the nonces that `Connected` starts from.
* `NoncesNeverRepeat`: no nonce is used twice.  `Value` reads a nonce as a number, by a
  recursive function over its words; `IncrementCounts` shows, word by word along the
  carry, that the code's increment adds one modulo the number of nonces.  Each direction
  therefore uses the numbers that follow its base (`Counted`).  The pool's base is the
  client's with every word masked, so the two top words are at least two units apart on
  the circle whatever the seed (`NonceAssumption`), and less than 2^160 frames cannot
  bridge that (`DirectionsApart`).
* `EventsInOrder`: the gateway hands up what the pool sends.  Here a frame moves the
  header chain always and the nonce only when it is encrypted for the channel, so
  `DownPath` says that some sequence of nonces (`Nonces`) fits all frames sent, both
  ends (`DownStep`) and every item on the wire (`DownWire`).  `WhyEnded` is void as
  long as the loop reads; it follows when the body just read is refused.  That the
  flags survive packing is bit arithmetic (`FlagsKept`).

### The work and its submission (`BlockProofs`)

The theorems about `Work` hold for every template, tag, output and number of transactions,
and for byte strings of any length.  Three assumptions bound its inputs.  `KeysAssumption`
and `InputsAssumption` say that the operator's keys, bitcoind and the pool give values of
the types they are parsed into; `DifficultyAssumption` says that the pool's minimum is any
64-bit number, as the client checks nothing of it, and that vardiff's ceiling is a power of
two.
The invariant `WorkInv` says of each hand-over what it was made of: the state is
`from_template_and_blob` of the recorded inputs (`StateMade`), the job carries the state
in its protocol's byte order (`JobFollowsState`), the miner hashed the header of its job
(`ShareHashed`), and the body and the block are those of the share (`BodyComplete`).

* `DifficultyByteInPlace`: the index given to the pool is that of the placeholder, whatever
  the lengths of what precedes it (`PotIndexInside`), and patching changes no other byte.
* `DifficultiesExact`: the byte of difficulty is the highest bit of what the SV1 miner was
  told, for any minimum of the pool, and all of it unless that minimum is in force and no
  power of two.  Nothing runs unless `validate(cfg)` is empty, so the configured minimum is
  a power of two; `DifficultiesSound` carries what holds through the floor, the doubling
  (`DoubleFits`) and the ceiling, `FloorPotBounds` bounds the logarithm and
  `FloorPotOfPower` takes it back.
* `HeadersRebuilt`: the pool rebuilds the header the gateway computed, and the miner's (an
  SV2 miner's but for the root).  `RootIsClimbed` identifies the encoder's loop with the
  climb of the pool and the miner for any number of branches; the byte orders cancel
  (`RevTwice`).
* `BlocksCommit`: a share becomes a block exactly at its target, and its header commits to
  up to three transactions.  `TargetOrder` shows that stopping at the highest differing
  byte compares numbers; `ShortTrees` runs the loop of `build_merkle_branches` and the
  merkle tree of the block side by side.  For four transactions and more the two differ
  (`merkle_path`).

Recursive functions are proved to exist by counting up (`UpTo`), one lemma for each.  The
theorems about `BlockSubmit`:

* `BlocksStored`: what is past its first call is in the chain, and no two submissions
  both report one block.  `Stored` says so of each stage; it needs `CallsInStage` and
  `BlocksNamed` to tell a block's calls from the puller's.
* `ReloadSuffices`: one reload of the cookie helps, unless a restart or a stale store
  raced with it.  `FileCurrent` says that the file is bitcoind's while it is up, `SecondTry`
  that a call on its second try uses the current cookie unless something raced.

### Only model-checked

* Liveness (`RequestSettled`, `NeverParkedForever`, `BusyReconnects`, `FloorRestored`,
  `PullerFollowsNode`, `StateConverges`, `FramesDispatched`, `ShutdownEnds`,
  `AttemptsSettle`, `PullerRecovers`): fairness and `ENABLED` are out of the prover's reach.
* That bitcoind can read the coinbase (`CoinbaseParses`), but for the difficulty's byte
  (`DifficultyByteInPlace`): the readers of its pushes and outputs, and the encoder of the
  outputs, recur over byte strings of any length, and the height is a fold of its digits.
  The same holds of the codecs of `Messages` (see `FramesAssumption`).

## 6. Not modelled, and the plan

* The duplicate cache (`DupeCache`), the SV2 library's job store and extranonce
  bridge, `VardiffState` and the codecs of `CoinbaserFetchRequest`,
  `JobValidationCmd` and `ShareSubmissionPrefix::decode` have no caller outside tests.
* The HTTP API reads counters and checks a digest; the logger installs a subscriber.
  Neither touches the state of the mining path.
* Noise keys, certificates and SV2 wire bytes belong to the libraries the SV2
  listener uses; error replies of its dispatch change no state.
* JSON text, log lines, user name formats, the random padding of a 0x27 body and the
  weight, size and sigop sums of a template are wording or untouched data.

What is left: the encoder and the readers of the coinbase, restated so that `CoinbaseParses`
can be proved output by output.
