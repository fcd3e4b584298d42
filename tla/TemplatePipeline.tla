-------------------------- MODULE TemplatePipeline --------------------------
(***************************************************************************)
(* From bitcoind and the pool to the published TemplateState: the template *)
(* puller's long-poll loop, the coinbaser and tag channels the upstream    *)
(* task feeds, and the driver that is woken by a template or a coinbaser,  *)
(* reads the channels one after the other and publishes the state both     *)
(* listeners build their jobs from.                                        *)
(*                                                                         *)
(* A watch channel is its newest value and, per receiver, whether that     *)
(* value was seen.  A template is its number and its coinbasevalue, a      *)
(* coinbase the values of its outputs.  Upstream models in detail how a    *)
(* connection asks for the coinbaser once.                                 *)
(***************************************************************************)
EXTENDS Integers, Sequences, SequencesExt

CONSTANTS
  Values,        \* coinbasevalues and output values, in satoshis
  MaxOutputs,    \* MAX_OUTPUTS of a coinbaser blob (512)
  Offers,        \* bound: what the pool puts in a blob, by its output values
  MaxTemplates,  \* bound: templates bitcoind makes
  MaxEpoch       \* bound: connections to the pool

ASSUME PipelineAssumption ==
  /\ Values \subseteq Nat /\ Values # {}
  /\ MaxOutputs \in Nat \ {0} /\ Offers \subseteq Seq(Values)
  /\ MaxTemplates \in Nat /\ MaxEpoch \in Nat

VARIABLES
  node,          \* bitcoind's current template; number 0 before the first
  puller,        \* "fetch" (a request is pending) or "backoff"
  template,      \* template watch channel
  t_changed,     \* the driver has not seen its newest value
  epoch,         \* connections made
  connected, configured,
  requested,     \* this connection asked for a coinbaser
  pool_tag,      \* tag watch channel: the connection whose tag is in force, or 0
  coinbaser,     \* coinbaser watch channel
  c_changed,     \* the driver has not seen its newest value
  driver,        \* where the driver is and what it has read
  published      \* the TemplateState watch channel

nodeVars == <<node, puller, template>>
connVars == <<epoch, connected, configured, requested>>
vars == <<nodeVars, t_changed, connVars, pool_tag, coinbaser, c_changed, driver, published>>

NoTemplate == [n |-> 0, value |-> 0]
NoBlob     == [epoch |-> 0, asked |-> FALSE, value |-> 0, outputs |-> <<>>]
Waiting    == [phase |-> "wait", template |-> NoTemplate, blob |-> NoBlob]

Init ==
  /\ node = NoTemplate /\ puller = "fetch" /\ template = NoTemplate /\ t_changed = FALSE
  /\ epoch = 0 /\ connected = FALSE /\ configured = FALSE /\ requested = FALSE
  /\ pool_tag = 0 /\ coinbaser = NoBlob /\ c_changed = FALSE /\ driver = Waiting
  /\ published = [template |-> NoTemplate, blob |-> NoBlob, tag |-> 0]

-----------------------------------------------------------------------------
(* bitcoind and the puller. *)

NodeTemplate(value) ==
  /\ node.n < MaxTemplates
  /\ node' = [n |-> node.n + 1, value |-> value]
  /\ UNCHANGED <<puller, template, t_changed, connVars, pool_tag, coinbaser, c_changed, driver,
                 published>>

\* getblocktemplate returns, for a new template or at the long poll's deadline.
FetchOk ==
  /\ puller = "fetch" /\ node.n > 0
  /\ template' = node /\ t_changed' = TRUE
  /\ UNCHANGED <<node, puller, connVars, pool_tag, coinbaser, c_changed, driver, published>>

\* An error drops the longpollid and backs off.
FetchErr ==
  /\ puller = "fetch"
  /\ puller' = "backoff"
  /\ UNCHANGED <<node, template, t_changed, connVars, pool_tag, coinbaser, c_changed, driver,
                 published>>

\* Mutant: the backoff starts again instead of ending.
BackoffEndAgain ==
  /\ puller = "backoff"
  /\ UNCHANGED <<nodeVars, t_changed, connVars, pool_tag, coinbaser, c_changed, driver,
                 published>>

BackoffEnd ==
  /\ puller = "backoff"
  /\ puller' = "fetch"
  /\ UNCHANGED <<node, template, t_changed, connVars, pool_tag, coinbaser, c_changed, driver,
                 published>>

-----------------------------------------------------------------------------
(* The upstream connection. *)

Connect ==
  /\ ~ connected /\ epoch < MaxEpoch
  /\ connected' = TRUE /\ epoch' = epoch + 1
  /\ configured' = FALSE /\ requested' = FALSE
  /\ UNCHANGED <<nodeVars, t_changed, pool_tag, coinbaser, c_changed, driver, published>>

\* Mutant: only the first connection's ClientConfig sets the tag.
ConfigFirstOnly ==
  /\ connected
  /\ configured' = TRUE /\ pool_tag' = IF epoch = 1 THEN epoch ELSE pool_tag
  /\ UNCHANGED <<nodeVars, t_changed, epoch, connected, requested, coinbaser, c_changed, driver,
                 published>>

\* ClientConfig publishes the pool's tag, before any request.
Config ==
  /\ connected
  /\ configured' = TRUE /\ pool_tag' = epoch
  /\ UNCHANGED <<nodeVars, t_changed, epoch, connected, requested, coinbaser, c_changed, driver,
                 published>>

\* The coinbaser of the current template is asked for, once.
Request ==
  /\ connected /\ configured /\ ~ requested /\ template.n > 0
  /\ requested' = TRUE
  /\ UNCHANGED <<nodeVars, t_changed, epoch, connected, configured, pool_tag, coinbaser,
                 c_changed, driver, published>>

SumOf(outs) == FoldSeq(LAMBDA x, y : x + y, 0, outs)

\* Mutant: the outputs are not capped.
ParseUncapped(outs, value) == SubSeq(outs, 1, MaxOutputs)

\* parse_v2_blob: the outputs up to the first that would exceed the value, and
\* at most MaxOutputs of them.
Parse(outs, value) ==
  LET Fits(k) == k <= Len(outs) /\ k <= MaxOutputs /\ SumOf(SubSeq(outs, 1, k)) \in 0 .. value
  IN  SubSeq(outs, 1, CHOOSE k \in 0 .. Len(outs) : Fits(k) /\ ~ Fits(k + 1))

\* A Coinbaser event: the split is parsed with the value the response carries,
\* which the handler compares neither with a template nor with a request; asked
\* is history and records whether this connection had made one.  A blob that
\* does not parse is logged only.
Respond(outs, value) ==
  /\ connected
  /\ coinbaser' = [epoch |-> epoch, asked |-> requested, value |-> value,
                   outputs |-> Parse(outs, value)]
  /\ c_changed' = TRUE
  /\ UNCHANGED <<nodeVars, t_changed, connVars, pool_tag, driver, published>>

\* The connection ends and the tag is withdrawn.
Disconnect ==
  /\ connected
  /\ connected' = FALSE /\ pool_tag' = 0
  /\ UNCHANGED <<nodeVars, t_changed, epoch, configured, requested, coinbaser, c_changed, driver,
                 published>>

-----------------------------------------------------------------------------
(* The TemplateState driver. *)

WakeTemplate ==
  /\ driver.phase = "wait" /\ t_changed
  /\ t_changed' = FALSE /\ driver' = [driver EXCEPT !.phase = "template"]
  /\ UNCHANGED <<nodeVars, connVars, pool_tag, coinbaser, c_changed, published>>

\* Mutant: a new coinbaser does not wake the driver.
WakeCoinbaserNever ==
  /\ driver.phase = "wait" /\ c_changed
  /\ c_changed' = FALSE /\ UNCHANGED driver
  /\ UNCHANGED <<nodeVars, t_changed, connVars, pool_tag, coinbaser, published>>

WakeCoinbaser ==
  /\ driver.phase = "wait" /\ c_changed
  /\ c_changed' = FALSE /\ driver' = [driver EXCEPT !.phase = "template"]
  /\ UNCHANGED <<nodeVars, t_changed, connVars, pool_tag, coinbaser, published>>

ReadTemplate ==
  /\ driver.phase = "template"
  /\ driver' = IF template.n = 0 THEN Waiting
               ELSE [driver EXCEPT !.phase = "coinbaser", !.template = template]
  /\ UNCHANGED <<nodeVars, t_changed, connVars, pool_tag, coinbaser, c_changed, published>>

ReadCoinbaser ==
  /\ driver.phase = "coinbaser"
  /\ driver' = IF coinbaser.epoch = 0 THEN Waiting
               ELSE [driver EXCEPT !.phase = "publish", !.blob = coinbaser]
  /\ UNCHANGED <<nodeVars, t_changed, connVars, pool_tag, coinbaser, c_changed, published>>

\* The tag is read last; from_template_and_blob takes the outputs as they are.
Publish ==
  /\ driver.phase = "publish"
  /\ published' = [template |-> driver.template, blob |-> driver.blob, tag |-> pool_tag]
  /\ driver' = Waiting
  /\ UNCHANGED <<nodeVars, t_changed, connVars, pool_tag, coinbaser, c_changed>>

-----------------------------------------------------------------------------
DriverStep == WakeTemplate \/ WakeCoinbaser \/ ReadTemplate \/ ReadCoinbaser \/ Publish

Next ==
  \/ \E value \in Values : NodeTemplate(value)
  \/ FetchOk \/ FetchErr \/ BackoffEnd
  \/ Connect \/ Config \/ Request \/ Disconnect
  \/ \E outs \in Offers, value \in Values : Respond(outs, value)
  \/ DriverStep

\* The driver is scheduled (whichever channel wakes it, it reads both), the
\* backoff ends, and bitcoind answers a request again and again, so that a new
\* template is delivered at last.
Fairness ==
  /\ WF_vars(DriverStep) /\ WF_vars(BackoffEnd)
  /\ SF_vars(FetchOk /\ template # node)

Spec == Init /\ [][Next]_vars /\ Fairness

-----------------------------------------------------------------------------
(* Properties. *)

Template == [n : 0 .. MaxTemplates, value : Values \cup {0}]
Blob == [epoch : 0 .. MaxEpoch, asked : BOOLEAN, value : Values \cup {0}, outputs : Seq(Values)]

\* The values of every variable; a blob has at most MaxOutputs outputs.
TypeOK ==
  /\ node \in Template /\ puller \in {"fetch", "backoff"} /\ template \in Template
  /\ t_changed \in BOOLEAN /\ epoch \in 0 .. MaxEpoch
  /\ connected \in BOOLEAN /\ configured \in BOOLEAN /\ requested \in BOOLEAN
  /\ pool_tag \in 0 .. MaxEpoch /\ coinbaser \in Blob /\ c_changed \in BOOLEAN
  /\ Len(coinbaser.outputs) <= MaxOutputs
  /\ driver \in [phase : {"wait", "template", "coinbaser", "publish"},
                 template : Template, blob : Blob]
  /\ published \in [template : Template, blob : Blob, tag : 0 .. MaxEpoch]

\* A coinbase split that the connection that is up asked for is published with
\* that connection's tag: ClientConfig sets the tag before the split is asked
\* for and the driver reads the tag last.  A split the pool sends unasked may
\* come before the ClientConfig; the handler takes it as well.
TagWithBlob ==
  /\ TypeOK
  /\ (connected /\ published.blob.asked /\ published.blob.epoch = epoch) => published.tag = epoch

\* However old the split is that the driver combines with a template, the state
\* pays no more than the template's value, unless the pool's answer was about a
\* higher one (parse_v2_blob caps with the value in the answer).
CoveredStatePays ==
  published.blob.value <= published.template.value =>
    SumOf(published.blob.outputs) <= published.template.value

\* Every template of bitcoind, or a later one, reaches the gateway, errors and
\* backoffs in between notwithstanding (TemplatePuller::run).
PullerFollowsNode ==
  \A n \in 1 .. MaxTemplates : (node.n = n) ~> (template.n >= n)

\* Once there are a template and a coinbaser, every template, and every
\* connection's split, is published or overtaken by a later one: the driver
\* misses no wake-up, although it waits for two channels and reads them again
\* afterwards.
StateConverges ==
  /\ \A n \in 1 .. MaxTemplates :
       (template.n = n /\ coinbaser.epoch > 0) ~> (published.template.n >= n)
  /\ \A e \in 1 .. MaxEpoch :
       (coinbaser.epoch = e /\ template.n > 0) ~> (published.blob.epoch >= e)

\* What parse_v2_blob says of the split, asked of the published state: the
\* outputs stay within the value of the template they are published with.
CoinbaseWithinReward ==
  SumOf(published.blob.outputs) <= published.template.value
=============================================================================
