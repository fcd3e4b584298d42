------------------------ MODULE ChannelManagerProofs ------------------------
(***************************************************************************)
(* Theorems about ChannelManager, for every number of connections, slots,  *)
(* channels, templates and shares.                                         *)
(***************************************************************************)
EXTENDS ChannelManager, FiniteSetTheorems, FunctionTheorems, SequenceTheorems,
        WellFoundedInduction, TLAPS

-----------------------------------------------------------------------------
(* The inductive invariant. *)

\* Hash maps: functions from some of the keys in K to V.
Maps(K, V) == UNION {[S -> V] : S \in SUBSET K}

JobKeys == Ids \X Ids
Opening == [id : Ids, job : Ids, template : Nat, target : Nat]
Entry   == [template : Nat, conn : Conns]

Shape ==
  /\ template \in 0 .. MaxTemplates
  /\ conn \in [Conns -> {"none", "serving", "closed"}]
  /\ mgr \in [Conns -> [channels : Maps(Ids, Channel), next_channel_id : Ids, next_job_id : Ids]]
  /\ template_seen \in [Conns -> Nat]
  /\ opening \in [Conns -> {<<>>} \cup {<<o>> : o \in Opening}]
  /\ told \in [Conns -> [jobs : Maps(JobKeys, Nat), active : Maps(Ids, Ids),
                         target : Maps(Ids, Nat)]]
  /\ tracker \in Maps(JobKeys, Entry)
  /\ forwarded \in Seq([conn : Conns, given : Nat, entry : Entry])
  /\ Len(forwarded) <= MaxShares

\* The channel the connection is opening, if any.
OpenIds(c) == {opening[c][i].id : i \in 1 .. Len(opening[c])}

\* Ids are handed out in order and do not wrap.
Numbered(c) ==
  /\ mgr[c].next_channel_id \in 1 .. MaxOpens + 1
  /\ mgr[c].next_job_id >= 1 /\ template_seen[c] <= template
  /\ mgr[c].next_job_id <= mgr[c].next_channel_id + template_seen[c] * MaxOpens
  /\ \A id \in DOMAIN mgr[c].channels : id \in 1 .. mgr[c].next_channel_id - 1

\* The job of a channel that is being opened is the newest of the connection,
\* and was made of a state no older than the last one handled.
OpeningJob(c) ==
  opening[c] # <<>> =>
    LET o == opening[c][1]
    IN  /\ o.id \in DOMAIN mgr[c].channels /\ o.job = mgr[c].channels[o.id].last_job_id
        /\ o.job + 1 = mgr[c].next_job_id
        /\ o.template > 0 /\ template_seen[c] <= o.template /\ o.template <= template
        /\ o.target <= MinTarget

\* The miner's jobs have smaller ids than the next one, and exist.
JobsNumbered(c) ==
  \A k \in DOMAIN told[c].jobs :
    /\ k[2] < (IF opening[c] = <<>> THEN mgr[c].next_job_id ELSE opening[c][1].job)
    /\ told[c].jobs[k] >= 1 /\ told[c].jobs[k] <= template

\* Each channel the miner knows of has the job the manager thinks it has, made
\* of a state no older than the last one handled.
ActiveJobs(c) ==
  /\ DOMAIN told[c].active = DOMAIN mgr[c].channels \ OpenIds(c)
  /\ DOMAIN told[c].target = DOMAIN told[c].active
  /\ \A id \in DOMAIN told[c].active :
       /\ told[c].active[id] = mgr[c].channels[id].last_job_id
       /\ <<id, told[c].active[id]>> \in DOMAIN told[c].jobs
       /\ template_seen[c] <= told[c].jobs[<<id, told[c].active[id]>>]
       /\ told[c].target[id] <= MinTarget

ConnInv(c) ==
  Numbered(c) /\ OpeningJob(c) /\ JobsNumbered(c) /\ ActiveJobs(c)

\* An entry of the tracker was made no earlier than the job it stands for.
EntriesFollowJobs ==
  \A k \in DOMAIN tracker :
    /\ k \in DOMAIN told[tracker[k].conn].jobs
    /\ tracker[k].template >= told[tracker[k].conn].jobs[k]
    /\ tracker[k].template <= template

IInv == Shape /\ (\A c \in Conns : ConnInv(c)) /\ EntriesFollowJobs /\ EntryNotOlder

-----------------------------------------------------------------------------
(* Facts about the operators. *)

\* Every set of natural numbers that is not empty has a least element.
LEMMA Least ==
  ASSUME NEW T \in SUBSET Nat, T # {}
  PROVE  \E x \in T : \A y \in T : x <= y
<1> DEFINE R == {ss \in Nat \X Nat : ss[1] < ss[2]}
<1>1. IsWellFoundedOn(R, Nat)
  BY NatLessThanWellFounded DEF OpToRel
<1> HIDE DEF R
<1>2. PICK x \in T : \A y \in T : ~ (<<y, x>> \in R)
  BY <1>1, WFMin
<1>3. ASSUME NEW y \in T PROVE x <= y
  <2>1. y < x => <<y, x>> \in R
    BY DEF R
  <2> QED
    BY <1>2, <2>1
<1> QED
  BY <1>3

\* What it means to be a map.
LEMMA MapDef ==
  ASSUME NEW K, NEW V, NEW f
  PROVE  f \in Maps(K, V) <=>
           /\ f = [x \in DOMAIN f |-> f[x]] /\ DOMAIN f \subseteq K
           /\ \A x \in DOMAIN f : f[x] \in V
<1>1. ASSUME f \in Maps(K, V)
      PROVE  f = [x \in DOMAIN f |-> f[x]] /\ DOMAIN f \subseteq K /\ \A x \in DOMAIN f : f[x] \in V
  <2>1. PICK S \in SUBSET K : f \in [S -> V]
    BY <1>1 DEF Maps
  <2> QED
    BY <2>1
<1>2. ASSUME f = [x \in DOMAIN f |-> f[x]], DOMAIN f \subseteq K, \A x \in DOMAIN f : f[x] \in V
      PROVE  f \in Maps(K, V)
  <2>1. f \in [DOMAIN f -> V]
    BY <1>2
  <2> QED
    BY <1>2, <2>1 DEF Maps
<1> QED
  BY <1>1, <1>2

\* Setting a key of a map, removing one, and the empty map.
LEMMA SetMap ==
  ASSUME NEW K, NEW V, NEW f \in Maps(K, V), NEW k \in K, NEW v \in V
  PROVE  /\ Set(f, k, v) \in Maps(K, V)
         /\ DOMAIN Set(f, k, v) = DOMAIN f \cup {k}
         /\ Set(f, k, v)[k] = v
         /\ \A x \in DOMAIN f : x # k => Set(f, k, v)[x] = f[x]
<1>1. DOMAIN f \subseteq K /\ \A x \in DOMAIN f : f[x] \in V
  BY MapDef
<1>2. Set(f, k, v) = [x \in DOMAIN Set(f, k, v) |-> Set(f, k, v)[x]]
  BY DEF Set
<1>3. DOMAIN Set(f, k, v) = DOMAIN f \cup {k}
  BY DEF Set
<1>4. \A x \in DOMAIN f \cup {k} : Set(f, k, v)[x] = IF x = k THEN v ELSE f[x]
  BY DEF Set
<1>5. \A x \in DOMAIN Set(f, k, v) : Set(f, k, v)[x] \in V
  BY <1>1, <1>3, <1>4
<1>6. Set(f, k, v) \in Maps(K, V)
  BY <1>1, <1>2, <1>3, <1>5, MapDef
<1> QED
  BY <1>3, <1>4, <1>6

LEMMA DropMap ==
  ASSUME NEW K, NEW V, NEW f \in Maps(K, V), NEW k
  PROVE  /\ Drop(f, k) \in Maps(K, V)
         /\ DOMAIN Drop(f, k) = DOMAIN f \ {k}
         /\ \A x \in DOMAIN f : x # k => Drop(f, k)[x] = f[x]
<1>1. DOMAIN f \subseteq K /\ \A x \in DOMAIN f : f[x] \in V
  BY MapDef
<1>2. Drop(f, k) = [x \in DOMAIN Drop(f, k) |-> Drop(f, k)[x]]
  BY DEF Drop
<1>3. DOMAIN Drop(f, k) = DOMAIN f \ {k} /\ \A x \in DOMAIN f \ {k} : Drop(f, k)[x] = f[x]
  BY DEF Drop
<1>4. Drop(f, k) \in Maps(K, V)
  BY <1>1, <1>2, <1>3, MapDef
<1> QED
  BY <1>3, <1>4

LEMMA EmptyMap ==
  ASSUME NEW K, NEW V
  PROVE  Empty \in Maps(K, V) /\ DOMAIN Empty = {}
<1>1. DOMAIN Empty = {} /\ Empty = [x \in DOMAIN Empty |-> Empty[x]]
  BY DEF Empty
<1> QED
  BY <1>1, MapDef

\* While a slot is left the allocator hands out one that no channel has.
LEMMA AllocateFree ==
  ASSUME NEW m, m.channels \in Maps(Ids, Channel),
         Cardinality(DOMAIN m.channels) < MaxChannels
  PROVE  Allocate(m) \in 0 .. MaxChannels - 1 /\ Allocate(m) \notin Prefixes(m)
<1> DEFINE D == DOMAIN m.channels
           f == [id \in D |-> m.channels[id].prefix]
           T == {i \in 0 .. MaxChannels - 1 : i \notin Prefixes(m)}
<1>0. MaxChannels \in Nat \ {0} /\ IdMod \in Nat
  BY ManagerAssumption
<1>1. D \subseteq Ids /\ IsFiniteSet(D)
  <2>1. D \subseteq Ids
    BY MapDef
  <2>2. IsFiniteSet(0 .. IdMod - 1)
    BY <1>0, FS_Interval
  <2> QED
    BY <2>1, <2>2, FS_Subset DEF Ids
<1>2. f \in Surjection(D, Prefixes(m))
  <2>1. f \in [D -> Prefixes(m)] /\ \A t \in Prefixes(m) : \E s \in D : f[s] = t
    BY DEF Prefixes
  <2> QED
    BY <2>1, Fun_IsSurj
<1>3. IsFiniteSet(Prefixes(m)) /\ Cardinality(Prefixes(m)) <= Cardinality(D)
  BY <1>1, <1>2, FS_Surjection
<1>4. T # {}
  <2>1. SUFFICES ASSUME 0 .. MaxChannels - 1 \subseteq Prefixes(m) PROVE FALSE
    OBVIOUS
  <2>2. Cardinality(0 .. MaxChannels - 1) = MaxChannels
    BY <1>0, FS_Interval
  <2>3. Cardinality(0 .. MaxChannels - 1) <= Cardinality(Prefixes(m))
    BY <1>3, <2>1, FS_Subset
  <2>4. Cardinality(D) \in Nat /\ Cardinality(Prefixes(m)) \in Nat
    BY <1>1, <1>3, FS_CardinalityType
  <2> QED
    BY <1>0, <1>3, <2>2, <2>3, <2>4
<1>5. PICK i \in T : \A j \in T : i <= j
  <2>1. T \in SUBSET Nat
    BY <1>0
  <2> HIDE DEF T
  <2> QED
    BY <1>4, <2>1, Least
<1>6. \A k \in 0 .. i - 1 : k \in Prefixes(m)
  BY <1>0, <1>5
<1> QED
  BY <1>5, <1>6 DEF Allocate

\* A product grows with its first factor.
LEMMA Products ==
  ASSUME NEW a \in Nat, NEW b \in Nat, NEW m \in Nat
  PROVE  /\ a * m \in Nat
         /\ a < b => a * m + m <= b * m
         /\ a <= b => a * m <= b * m
OBVIOUS

LEMMA ModSmall ==
  ASSUME NEW a \in Nat, NEW b \in Nat, a < b
  PROVE  a % b = a
OBVIOUS

-----------------------------------------------------------------------------
(* Steps. *)

\* The state of one connection.
LEMMA ShapeAt ==
  ASSUME Shape, NEW c \in Conns
  PROVE  /\ template \in Nat /\ template_seen[c] \in Nat
         /\ mgr[c].channels \in Maps(Ids, Channel)
         /\ mgr[c].next_channel_id \in Ids /\ mgr[c].next_job_id \in Ids
         /\ opening[c] # <<>> => opening[c][1] \in Opening /\ opening[c] = <<opening[c][1]>>
         /\ told[c].jobs \in Maps(JobKeys, Nat)
         /\ told[c].active \in Maps(Ids, Ids)
         /\ told[c].target \in Maps(Ids, Nat)
<1>1. mgr[c] \in [channels : Maps(Ids, Channel), next_channel_id : Ids, next_job_id : Ids]
  BY DEF Shape
<1>2. told[c] \in [jobs : Maps(JobKeys, Nat), active : Maps(Ids, Ids), target : Maps(Ids, Nat)]
  BY DEF Shape
<1>3. template \in Nat /\ template_seen[c] \in Nat
  BY ManagerAssumption DEF Shape
<1>4. opening[c] \in {<<>>} \cup {<<o>> : o \in Opening}
  BY DEF Shape
<1>5. told[c].jobs \in Maps(JobKeys, Nat)
  BY <1>2
<1>6. told[c].active \in Maps(Ids, Ids) /\ told[c].target \in Maps(Ids, Nat)
  BY <1>2
<1>7. opening[c] # <<>> => opening[c][1] \in Opening /\ opening[c] = <<opening[c][1]>>
  BY <1>4
<1> QED
  BY <1>1, <1>3, <1>5, <1>6, <1>7

\* A step that leaves a connection alone keeps its invariant: the newest state
\* only gets newer.
LEMMA ConnFrame ==
  ASSUME NEW c \in Conns, Shape, template' \in Nat, ConnInv(c), template <= template',
         mgr'[c] = mgr[c], template_seen'[c] = template_seen[c], opening'[c] = opening[c],
         told'[c] = told[c]
  PROVE  ConnInv(c)'
<1>1. Numbered(c)'
  BY ManagerAssumption DEF ConnInv, Numbered, Shape
<1>3. OpeningJob(c)'
  BY DEF ConnInv, OpeningJob, Opening, Shape
<1>4. JobsNumbered(c)'
  <2>1. told[c].jobs \in Maps(JobKeys, Nat) /\ template \in Nat
    BY ShapeAt
  <2>2. \A k \in DOMAIN told[c].jobs : told[c].jobs[k] \in Nat
    BY <2>1, MapDef
  <2> QED
    BY <2>1, <2>2 DEF ConnInv, JobsNumbered
<1>5. ActiveJobs(c)'
  BY DEF ConnInv, ActiveJobs, OpenIds
<1> QED
  BY <1>1, <1>3, <1>4, <1>5 DEF ConnInv

\* Steps that change neither the jobs the miners have nor the tracker keep the
\* relation between the two.
LEMMA EntriesFrame ==
  ASSUME IInv, UNCHANGED tracker, template' \in Nat, template <= template',
         \A c \in Conns : \A k \in DOMAIN told[c].jobs :
           k \in DOMAIN told'[c].jobs /\ told'[c].jobs[k] = told[c].jobs[k]
  PROVE  EntriesFollowJobs'
<1>1. ASSUME NEW k \in DOMAIN tracker
      PROVE  tracker[k].conn \in Conns /\ tracker[k].template \in Nat
  <2>1. tracker \in Maps(JobKeys, Entry)
    BY DEF IInv, Shape
  <2>2. tracker[k] \in Entry
    BY <2>1, MapDef
  <2> QED
    BY <2>2 DEF Entry
<1> QED
  BY <1>1 DEF IInv, Shape, EntriesFollowJobs

\* The ids a connection hands out next do not wrap.
LEMMA NoWrap ==
  ASSUME Shape, NEW c \in Conns, Numbered(c), NEW n \in 0 .. MaxOpens,
         mgr[c].next_channel_id <= MaxOpens \/ template_seen[c] < template
  PROVE  /\ mgr[c].next_job_id \in Nat /\ mgr[c].next_channel_id \in Nat
         /\ template_seen[c] < template =>
              mgr[c].next_job_id + n <= mgr[c].next_channel_id + template * MaxOpens
         /\ template_seen[c] < template => mgr[c].next_job_id + n < IdMod
         /\ mgr[c].next_channel_id <= MaxOpens =>
              mgr[c].next_job_id + 1 < IdMod /\ mgr[c].next_channel_id + 1 < IdMod
<1>0. /\ MaxOpens \in Nat /\ MaxTemplates \in Nat /\ template \in Nat /\ template <= MaxTemplates
      /\ template_seen[c] \in Nat /\ template_seen[c] <= template /\ IdMod \in Nat
  BY ManagerAssumption DEF Shape, Numbered
<1>1. /\ mgr[c].next_job_id \in Nat /\ mgr[c].next_channel_id \in Nat
      /\ mgr[c].next_channel_id <= MaxOpens + 1
      /\ mgr[c].next_job_id <= mgr[c].next_channel_id + template_seen[c] * MaxOpens
  BY <1>0 DEF Shape, Numbered, Ids
<1>2. /\ template_seen[c] * MaxOpens \in Nat /\ template * MaxOpens \in Nat
      /\ MaxTemplates * MaxOpens \in Nat
      /\ template * MaxOpens <= MaxTemplates * MaxOpens
      /\ template_seen[c] * MaxOpens <= template * MaxOpens
      /\ template_seen[c] < template => template_seen[c] * MaxOpens + MaxOpens <= template * MaxOpens
  BY <1>0, Products
<1>3. PICK a \in Nat : a = template_seen[c] * MaxOpens
  BY <1>2
<1>4. PICK b \in Nat : b = template * MaxOpens
  BY <1>2
<1>5. PICK d \in Nat : d = MaxTemplates * MaxOpens
  BY <1>2
<1>6. PICK j \in Nat : j = mgr[c].next_job_id
  BY <1>1
<1>7. PICK k \in Nat : k = mgr[c].next_channel_id
  BY <1>1
<1>8. /\ k <= MaxOpens + 1 /\ j <= k + a /\ a <= b /\ b <= d /\ MaxOpens + 1 + d < IdMod
      /\ template_seen[c] < template => a + MaxOpens <= b
  BY <1>1, <1>2, <1>3, <1>4, <1>5, <1>6, <1>7, IdsAssumption
<1>9. /\ template_seen[c] < template => j + n <= k + b /\ j + n < IdMod
      /\ k <= MaxOpens => j + 1 < IdMod /\ k + 1 < IdMod
  BY <1>0, <1>8
<1> QED
  BY <1>1, <1>4, <1>6, <1>7, <1>9

\* Opening a channel, up to the seeding.
LEMMA OpenStep ==
  ASSUME IInv, NEW c \in Conns, NEW extended \in BOOLEAN, NEW rate, NEW t \in Targets,
         Open(c, extended, rate, t)
  PROVE  IInv'
<1> DEFINE m  == mgr[c]
           id == m.next_channel_id
           j  == m.next_job_id
           ch == [extended |-> extended, prefix |-> Allocate(m), last_job_id |-> j]
           o  == [id |-> id, job |-> j, template |-> template, target |-> Clamp(t)]
<1>0. Shape /\ ConnInv(c) /\ Numbered(c) /\ opening[c] = <<>> /\ id <= MaxOpens /\ template > 0
  BY DEF IInv, ConnInv, Open, Idle
<1>1. id \in Ids /\ j \in Ids /\ id + 1 \in Ids /\ j + 1 \in Ids /\ id \in 1 .. MaxOpens /\ j \in Nat
  <2>1. 0 \in 0 .. MaxOpens /\ MaxOpens \in Nat /\ IdMod \in Nat
    BY ManagerAssumption
  <2>2. j + 1 < IdMod /\ id + 1 < IdMod /\ j \in Nat /\ id \in Nat
    BY <1>0, <2>1, NoWrap
  <2>3. id >= 1
    BY <1>0 DEF Numbered
  <2>4. id <= MaxOpens
    BY <1>0
  <2> HIDE DEF m, id, j
  <2> QED
    BY <2>1, <2>2, <2>3, <2>4 DEF Ids
<1>2. (id + 1) % IdMod = id + 1 /\ (j + 1) % IdMod = j + 1
  BY <1>1, ModSmall, ManagerAssumption DEF Ids
<1>3. m.channels \in Maps(Ids, Channel) /\ Cardinality(DOMAIN m.channels) < MaxChannels
  BY <1>0 DEF Shape, Open
<1>4. Allocate(m) \in 0 .. MaxChannels - 1 /\ Allocate(m) \notin Prefixes(m)
  BY <1>3, AllocateFree
<1>5. ch \in Channel
  BY <1>1, <1>4 DEF Channel
<1>6. Clamp(t) \in Nat /\ Clamp(t) <= MinTarget
  BY ManagerAssumption DEF Clamp, Lower
<1>7. o \in Opening
  BY <1>0, <1>1, <1>6 DEF Opening, Shape
<1> HIDE DEF ch, o
<1>8. /\ mgr' = [mgr EXCEPT ![c] = [channels |-> Set(m.channels, id, ch),
                                    next_channel_id |-> id + 1, next_job_id |-> j + 1]]
      /\ opening' = [opening EXCEPT ![c] = <<o>>]
      /\ UNCHANGED <<template, conn, template_seen, told, tracker, forwarded>>
  BY <1>2 DEF Open, ch, o
<1>9. /\ Set(m.channels, id, ch) \in Maps(Ids, Channel)
      /\ DOMAIN Set(m.channels, id, ch) = DOMAIN m.channels \cup {id}
      /\ Set(m.channels, id, ch)[id] = ch
      /\ \A x \in DOMAIN m.channels : x # id => Set(m.channels, id, ch)[x] = m.channels[x]
  <2>1. id \in Ids
    BY <1>1
  <2> DEFINE f == m.channels
  <2>2. f \in Maps(Ids, Channel)
    BY <1>3
  <2> HIDE DEF m, id, j, f
  <2>3. /\ Set(f, id, ch) \in Maps(Ids, Channel)
        /\ DOMAIN Set(f, id, ch) = DOMAIN f \cup {id}
        /\ Set(f, id, ch)[id] = ch
        /\ \A x \in DOMAIN f : x # id => Set(f, id, ch)[x] = f[x]
    BY <1>5, <2>1, <2>2, SetMap
  <2> QED
    BY <2>3 DEF f
<1>10. Shape'
  BY <1>0, <1>1, <1>7, <1>8, <1>9 DEF Shape
<1>11. /\ mgr'[c] = [channels |-> Set(m.channels, id, ch), next_channel_id |-> id + 1,
                     next_job_id |-> j + 1]
       /\ opening'[c] = <<o>> /\ template_seen'[c] = template_seen[c] /\ told'[c] = told[c]
       /\ template' = template
  BY <1>0, <1>8 DEF Shape
<1>12. \A x \in DOMAIN m.channels : x \in 1 .. id - 1
  BY <1>0 DEF Numbered
<1>13. Numbered(c)'
  <2>1. template_seen[c] \in Nat /\ MaxOpens \in Nat /\ template_seen[c] * MaxOpens \in Nat
    BY <1>0, Products, ManagerAssumption DEF Shape
  <2>2. j >= 1 /\ j <= id + template_seen[c] * MaxOpens /\ template_seen[c] <= template
    BY <1>0 DEF Numbered
  <2>3. \A x \in DOMAIN m.channels \cup {id} : x \in 1 .. id
    BY <1>1, <1>12
  <2> HIDE DEF m, id, j
  <2> QED
    BY <1>1, <1>9, <1>11, <2>1, <2>2, <2>3 DEF Numbered
<1>15. OpeningJob(c)'
  <2>1. o.id = id /\ o.job = j /\ o.template = template /\ o.target = Clamp(t) /\ ch.last_job_id = j
    BY DEF o, ch
  <2> QED
    BY <1>0, <1>1, <1>6, <1>9, <1>11, <2>1 DEF OpeningJob, Numbered, Shape
<1>16. JobsNumbered(c)'
  <2>1. o.job = j
    BY DEF o
  <2> QED
    BY <1>0, <1>11, <2>1 DEF ConnInv, JobsNumbered
<1>17. ActiveJobs(c)'
  <2>1. OpenIds(c) = {} /\ OpenIds(c)' = {id}
    BY <1>0, <1>11 DEF OpenIds, o
  <2>2. id \notin DOMAIN m.channels
    BY <1>1, <1>12
  <2> QED
    BY <1>0, <1>9, <1>11, <2>1, <2>2 DEF ConnInv, ActiveJobs
<1>18. ASSUME NEW d \in Conns, d # c PROVE ConnInv(d)'
  <2>1. /\ mgr'[d] = mgr[d] /\ template_seen'[d] = template_seen[d] /\ opening'[d] = opening[d]
        /\ told'[d] = told[d] /\ template' = template /\ template \in Nat
    BY <1>0, <1>8, <1>18 DEF Shape
  <2> QED
    BY <1>0, <2>1, ConnFrame DEF IInv
<1>19. EntriesFollowJobs' /\ EntryNotOlder'
  BY <1>8 DEF IInv, EntriesFollowJobs, EntryNotOlder
<1> QED
  BY <1>10, <1>13, <1>15, <1>16, <1>17, <1>18, <1>19 DEF IInv, ConnInv

\* The other connections do not notice a step of connection c.
LEMMA OthersFrame ==
  ASSUME IInv, NEW c \in Conns, UNCHANGED template,
         \A d \in Conns \ {c} :
           /\ mgr'[d] = mgr[d] /\ template_seen'[d] = template_seen[d]
           /\ opening'[d] = opening[d] /\ told'[d] = told[d]
  PROVE  \A d \in Conns \ {c} : ConnInv(d)'
<1>1. Shape
  BY DEF IInv
<1>2. template \in Nat
  BY <1>1, ShapeAt
<1> QED
  BY <1>1, <1>2, ConnFrame DEF IInv

\* The job of the new channel is entered in the tracker and sent.
LEMMA SeedStep ==
  ASSUME IInv, NEW c \in Conns, SeedAndReply(c)
  PROVE  IInv'
<1> DEFINE o   == opening[c][1]
           oid == o.id
           ojob == o.job
           made == o.template
           limit == o.target
           key == <<oid, ojob>>
           given == told[c].jobs
           active == told[c].active
           target == told[c].target
           entry == [template |-> template, conn |-> c]
<1>0. Shape /\ ConnInv(c) /\ opening[c] # <<>>
  BY DEF IInv, SeedAndReply
<1>1. /\ o \in Opening /\ opening[c] = <<o>> /\ template \in Nat /\ template_seen[c] \in Nat
      /\ given \in Maps(JobKeys, Nat) /\ active \in Maps(Ids, Ids) /\ target \in Maps(Ids, Nat)
  BY <1>0, ShapeAt
<1>2. oid \in Ids /\ ojob \in Ids /\ made \in Nat /\ limit \in Nat /\ key \in JobKeys
  BY <1>1 DEF Opening, JobKeys
<1>3. /\ oid \in DOMAIN mgr[c].channels /\ ojob = mgr[c].channels[oid].last_job_id
      /\ ojob + 1 = mgr[c].next_job_id
      /\ made > 0 /\ template_seen[c] <= made /\ made <= template
      /\ limit <= MinTarget
  BY <1>0 DEF ConnInv, OpeningJob
<1>4. tracker \in Maps(JobKeys, Entry) /\ entry \in Entry
  BY <1>0, <1>1 DEF Shape, Entry
<1>5. /\ tracker' = Set(tracker, key, entry)
      /\ told' = [told EXCEPT ![c] = [jobs |-> Set(given, key, made),
                                      active |-> Set(active, oid, ojob),
                                      target |-> Set(target, oid, limit)]]
      /\ opening' = [opening EXCEPT ![c] = <<>>]
      /\ UNCHANGED <<template, conn, mgr, template_seen, forwarded>>
  BY DEF SeedAndReply, SeedState
<1>6. told'[c] = [jobs |-> Set(given, key, made), active |-> Set(active, oid, ojob),
                  target |-> Set(target, oid, limit)]
  BY <1>0, <1>5 DEF Shape
<1>7. opening'[c] = <<>> /\ mgr'[c] = mgr[c] /\ template_seen'[c] = template_seen[c]
  BY <1>0, <1>5 DEF Shape
<1>8. \A d \in Conns \ {c} : /\ mgr'[d] = mgr[d] /\ template_seen'[d] = template_seen[d]
                             /\ opening'[d] = opening[d] /\ told'[d] = told[d]
  BY <1>0, <1>5 DEF Shape
<1> HIDE DEF o, oid, ojob, made, limit, key, given, active, target, entry
<1>9. /\ Set(given, key, made) \in Maps(JobKeys, Nat)
      /\ DOMAIN Set(given, key, made) = DOMAIN given \cup {key}
      /\ Set(given, key, made)[key] = made
      /\ \A x \in DOMAIN given : x # key => Set(given, key, made)[x] = given[x]
  <2> DEFINE V == Nat
  <2>1. given \in Maps(JobKeys, V) /\ key \in JobKeys /\ made \in V
    BY <1>1, <1>2
  <2> HIDE DEF V
  <2>2. Set(given, key, made) \in Maps(JobKeys, V)
    BY <2>1, SetMap
  <2>3. /\ DOMAIN Set(given, key, made) = DOMAIN given \cup {key}
        /\ Set(given, key, made)[key] = made
        /\ \A x \in DOMAIN given : x # key => Set(given, key, made)[x] = given[x]
    BY DEF Set
  <2> QED
    BY <2>2, <2>3 DEF V
<1>10. /\ Set(active, oid, ojob) \in Maps(Ids, Ids)
       /\ DOMAIN Set(active, oid, ojob) = DOMAIN active \cup {oid}
       /\ Set(active, oid, ojob)[oid] = ojob
       /\ \A x \in DOMAIN active : x # oid => Set(active, oid, ojob)[x] = active[x]
  <2>1. active \in Maps(Ids, Ids) /\ oid \in Ids /\ ojob \in Ids
    BY <1>1, <1>2
  <2> QED
    BY <2>1, SetMap
<1>11. /\ Set(target, oid, limit) \in Maps(Ids, Nat)
       /\ DOMAIN Set(target, oid, limit) = DOMAIN target \cup {oid}
       /\ Set(target, oid, limit)[oid] = limit
       /\ \A x \in DOMAIN target : x # oid => Set(target, oid, limit)[x] = target[x]
  <2>1. target \in Maps(Ids, Nat) /\ oid \in Ids /\ limit \in Nat
    BY <1>1, <1>2
  <2> QED
    BY <2>1, SetMap
<1>12. /\ Set(tracker, key, entry) \in Maps(JobKeys, Entry)
       /\ DOMAIN Set(tracker, key, entry) = DOMAIN tracker \cup {key}
       /\ Set(tracker, key, entry)[key] = entry
       /\ \A x \in DOMAIN tracker : x # key => Set(tracker, key, entry)[x] = tracker[x]
  BY <1>2, <1>4, SetMap
<1>13. Shape'
  <2>1. told' \in [Conns -> [jobs : Maps(JobKeys, Nat), active : Maps(Ids, Ids),
                             target : Maps(Ids, Nat)]]
    BY <1>0, <1>5, <1>9, <1>10, <1>11 DEF Shape
  <2> QED
    BY <1>0, <1>5, <1>12, <2>1 DEF Shape
<1>14. Numbered(c)' /\ OpeningJob(c)'
  BY <1>0, <1>5, <1>7 DEF ConnInv, Numbered, OpeningJob
<1>15. JobsNumbered(c)'
  <2>1. \A k \in DOMAIN given : k[2] < ojob /\ given[k] >= 1 /\ given[k] <= template
    BY <1>0 DEF ConnInv, JobsNumbered, o, ojob, given
  <2>2. \A k \in DOMAIN given : k \in JobKeys
    BY <1>1, MapDef
  <2>3. \A k \in DOMAIN given : k[2] \in Nat
    BY <2>2, ManagerAssumption DEF Ids, JobKeys
  <2>4. key[2] = ojob /\ ojob \in Nat
    BY <1>2, ManagerAssumption DEF key, Ids
  <2>5. \A k \in DOMAIN given \cup {key} : k[2] < mgr[c].next_job_id
    BY <1>3, <2>1, <2>3, <2>4
  <2> QED
    BY <1>2, <1>3, <1>5, <1>6, <1>7, <1>9, <2>1, <2>5 DEF JobsNumbered
<1>16. ActiveJobs(c)'
  <2>1. OpenIds(c) = {oid} /\ OpenIds(c)' = {}
    BY <1>1, <1>7 DEF OpenIds, o, oid
  <2>2. /\ DOMAIN active = DOMAIN mgr[c].channels \ {oid} /\ DOMAIN target = DOMAIN active
        /\ \A id \in DOMAIN active :
             /\ active[id] = mgr[c].channels[id].last_job_id
             /\ <<id, active[id]>> \in DOMAIN given
             /\ template_seen[c] <= given[<<id, active[id]>>]
             /\ target[id] <= MinTarget
    BY <1>0, <2>1 DEF ConnInv, ActiveJobs, active, target, given
  <2>3. /\ told'[c].jobs = Set(given, key, made)
        /\ told'[c].active = Set(active, oid, ojob)
        /\ told'[c].target = Set(target, oid, limit)
    BY <1>6
  <2>4. /\ DOMAIN told'[c].active = DOMAIN mgr[c].channels
        /\ DOMAIN told'[c].target = DOMAIN told'[c].active
    BY <1>3, <1>10, <1>11, <2>2, <2>3
  <2>5. ASSUME NEW id \in DOMAIN told'[c].active
        PROVE  /\ told'[c].active[id] = mgr[c].channels[id].last_job_id
               /\ <<id, told'[c].active[id]>> \in DOMAIN told'[c].jobs
               /\ template_seen[c] <= told'[c].jobs[<<id, told'[c].active[id]>>]
               /\ told'[c].target[id] <= MinTarget
    <3>1. CASE id = oid
      BY <1>3, <1>9, <1>10, <1>11, <2>3, <3>1 DEF key
    <3>2. CASE id # oid
      <4>1. id \in DOMAIN active /\ id \in DOMAIN target
        BY <1>10, <2>2, <2>3, <2>5, <3>2
      <4>2. told'[c].active[id] = active[id] /\ told'[c].target[id] = target[id]
        BY <1>10, <1>11, <2>3, <3>2, <4>1
      <4>3. <<id, active[id]>> # key
        BY <3>2 DEF key
      <4> QED
        BY <1>9, <2>2, <2>3, <4>1, <4>2, <4>3
    <3> QED
      BY <3>1, <3>2
  <2> QED
    BY <1>7, <2>1, <2>4, <2>5 DEF ActiveJobs
<1>17. \A d \in Conns \ {c} : ConnInv(d)'
  BY <1>5, <1>8, OthersFrame
<1>18. EntriesFollowJobs'
  <2>1. ASSUME NEW k \in DOMAIN tracker'
        PROVE  /\ k \in DOMAIN told'[tracker'[k].conn].jobs
               /\ tracker'[k].template >= told'[tracker'[k].conn].jobs[k]
               /\ tracker'[k].template <= template
    <3>1. CASE k = key
      <4>1. tracker'[k] = entry /\ entry.conn = c /\ entry.template = template
        BY <1>5, <1>12, <3>1 DEF entry
      <4> QED
        BY <1>1, <1>2, <1>3, <1>6, <1>9, <3>1, <4>1
    <3>2. CASE k # key
      <4>1. k \in DOMAIN tracker /\ tracker'[k] = tracker[k]
        BY <1>5, <1>12, <2>1, <3>2
      <4>2. tracker[k] \in Entry
        BY <1>4, <4>1, MapDef
      <4>3. /\ tracker[k].conn \in Conns /\ k \in DOMAIN told[tracker[k].conn].jobs
            /\ tracker[k].template >= told[tracker[k].conn].jobs[k]
            /\ tracker[k].template <= template
        BY <4>1, <4>2 DEF IInv, EntriesFollowJobs, Entry
      <4>4. CASE tracker[k].conn = c
        BY <1>6, <1>9, <3>2, <4>1, <4>3, <4>4 DEF given
      <4>5. CASE tracker[k].conn # c
        BY <1>8, <4>1, <4>3, <4>5
      <4> QED
        BY <4>4, <4>5
    <3> QED
      BY <3>1, <3>2
  <2> QED
    BY <1>5, <2>1 DEF EntriesFollowJobs
<1>19. EntryNotOlder'
  BY <1>5 DEF IInv, EntryNotOlder
<1> QED
  BY <1>13, <1>14, <1>15, <1>16, <1>17, <1>18, <1>19 DEF IInv, ConnInv

\* Closing a channel.
LEMMA CloseStep ==
  ASSUME IInv, NEW c \in Conns, NEW id, CloseChannel(c, id)
  PROVE  IInv'
<1> DEFINE chans  == mgr[c].channels
           active == told[c].active
           target == told[c].target
<1>0. Shape /\ ConnInv(c) /\ opening[c] = <<>> /\ id \in DOMAIN chans
  BY DEF IInv, CloseChannel, Idle
<1>1. /\ chans \in Maps(Ids, Channel) /\ active \in Maps(Ids, Ids) /\ target \in Maps(Ids, Nat)
      /\ template \in Nat
  BY <1>0, ShapeAt
<1>2. /\ mgr' = [mgr EXCEPT ![c] = [mgr[c] EXCEPT !.channels = Drop(chans, id)]]
      /\ told' = [told EXCEPT ![c] = [told[c] EXCEPT !.active = Drop(active, id),
                                                     !.target = Drop(target, id)]]
      /\ UNCHANGED <<template, conn, template_seen, opening, tracker, forwarded>>
  BY <1>0 DEF CloseChannel, Shape
<1>3. /\ mgr'[c].channels = Drop(chans, id) /\ told'[c].jobs = told[c].jobs
      /\ mgr'[c].next_channel_id = mgr[c].next_channel_id
      /\ mgr'[c].next_job_id = mgr[c].next_job_id
      /\ told'[c].active = Drop(active, id) /\ told'[c].target = Drop(target, id)
  BY <1>0, <1>2 DEF Shape
<1>4. \A d \in Conns \ {c} : /\ mgr'[d] = mgr[d] /\ template_seen'[d] = template_seen[d]
                             /\ opening'[d] = opening[d] /\ told'[d] = told[d]
  BY <1>0, <1>2 DEF Shape
<1> HIDE DEF chans, active, target
<1>5. /\ Drop(chans, id) \in Maps(Ids, Channel)
      /\ Drop(active, id) \in Maps(Ids, Ids)
      /\ Drop(target, id) \in Maps(Ids, Nat)
  BY <1>1, DropMap
<1>6. /\ DOMAIN Drop(chans, id) = DOMAIN chans \ {id}
      /\ DOMAIN Drop(active, id) = DOMAIN active \ {id}
      /\ DOMAIN Drop(target, id) = DOMAIN target \ {id}
      /\ \A x \in DOMAIN chans : x # id => Drop(chans, id)[x] = chans[x]
      /\ \A x \in DOMAIN active : x # id => Drop(active, id)[x] = active[x]
      /\ \A x \in DOMAIN target : x # id => Drop(target, id)[x] = target[x]
  BY DEF Drop
<1>7. Shape'
  <2>1. mgr' \in [Conns -> [channels : Maps(Ids, Channel), next_channel_id : Ids, next_job_id : Ids]]
    BY <1>0, <1>2, <1>5 DEF Shape
  <2>2. told' \in [Conns -> [jobs : Maps(JobKeys, Nat), active : Maps(Ids, Ids),
                             target : Maps(Ids, Nat)]]
    BY <1>0, <1>2, <1>5 DEF Shape
  <2> QED
    BY <1>0, <1>2, <2>1, <2>2 DEF Shape
<1>8. Numbered(c)'
  BY <1>0, <1>2, <1>3, <1>6 DEF ConnInv, Numbered, chans
<1>10. OpeningJob(c)'
  BY <1>0, <1>2 DEF OpeningJob
<1>11. JobsNumbered(c)'
  BY <1>0, <1>2, <1>3 DEF ConnInv, JobsNumbered
<1>12. ActiveJobs(c)'
  <2>1. OpenIds(c) = {} /\ OpenIds(c)' = {}
    BY <1>0, <1>2 DEF OpenIds
  <2>2. /\ DOMAIN active = DOMAIN chans /\ DOMAIN target = DOMAIN active
        /\ \A x \in DOMAIN active :
             /\ active[x] = chans[x].last_job_id
             /\ <<x, active[x]>> \in DOMAIN told[c].jobs
             /\ template_seen[c] <= told[c].jobs[<<x, active[x]>>]
             /\ target[x] <= MinTarget
    BY <1>0, <2>1 DEF ConnInv, ActiveJobs, active, target, chans
  <2> QED
    BY <1>2, <1>3, <1>6, <2>1, <2>2 DEF ActiveJobs
<1>13. \A d \in Conns \ {c} : ConnInv(d)'
  BY <1>2, <1>4, OthersFrame
<1>14. EntriesFollowJobs' /\ EntryNotOlder'
  <2>1. \A d \in Conns : told'[d].jobs = told[d].jobs
    BY <1>3, <1>4
  <2> QED
    BY <1>1, <1>2, <2>1, EntriesFrame DEF IInv, EntryNotOlder
<1> QED
  BY <1>7, <1>8, <1>10, <1>11, <1>12, <1>13, <1>14 DEF IInv, ConnInv

\* A new target for a channel.
LEMMA UpdateStep ==
  ASSUME IInv, NEW c \in Conns, NEW id, NEW rate, NEW t \in Targets,
         UpdateChannel(c, id, rate, t)
  PROVE  IInv'
<1> DEFINE target == told[c].target
           new    == [target EXCEPT ![id] = Clamp(t)]
<1>0. Shape /\ ConnInv(c) /\ opening[c] = <<>> /\ id \in DOMAIN mgr[c].channels
  BY DEF IInv, UpdateChannel, Idle
<1>1. target \in Maps(Ids, Nat) /\ template \in Nat
  BY <1>0, ShapeAt
<1>2. /\ told' = [told EXCEPT ![c] = [told[c] EXCEPT !.target = new]]
      /\ UNCHANGED <<template, conn, mgr, template_seen, opening, tracker, forwarded>>
  BY <1>0 DEF UpdateChannel, Shape
<1>3. told'[c].jobs = told[c].jobs /\ told'[c].active = told[c].active /\ told'[c].target = new
  BY <1>0, <1>2 DEF Shape
<1>4. \A d \in Conns \ {c} : told'[d] = told[d]
  BY <1>0, <1>2 DEF Shape
<1>5. Clamp(t) \in Nat /\ Clamp(t) <= MinTarget
  BY ManagerAssumption DEF Clamp, Lower
<1>6. new \in Maps(Ids, Nat) /\ DOMAIN new = DOMAIN target
      /\ \A x \in DOMAIN target : new[x] = IF x = id THEN Clamp(t) ELSE target[x]
  <2>1. target = [x \in DOMAIN target |-> target[x]] /\ DOMAIN target \subseteq Ids
        /\ \A x \in DOMAIN target : target[x] \in Nat
    BY <1>1, MapDef
  <2> HIDE DEF target
  <2>2. DOMAIN new = DOMAIN target /\ new = [x \in DOMAIN new |-> new[x]]
        /\ \A x \in DOMAIN target : new[x] = IF x = id THEN Clamp(t) ELSE target[x]
    BY <2>1
  <2>3. \A x \in DOMAIN new : new[x] \in Nat
    BY <1>5, <2>1, <2>2
  <2> HIDE DEF new
  <2> QED
    BY <2>1, <2>2, <2>3, MapDef
<1> HIDE DEF new, target
<1>7. Shape'
  <2>1. told' \in [Conns -> [jobs : Maps(JobKeys, Nat), active : Maps(Ids, Ids),
                             target : Maps(Ids, Nat)]]
    BY <1>0, <1>2, <1>6 DEF Shape
  <2> QED
    BY <1>0, <1>2, <2>1 DEF Shape
<1>8. Numbered(c)' /\ OpeningJob(c)' /\ JobsNumbered(c)'
  BY <1>0, <1>2, <1>3 DEF ConnInv, Numbered, OpeningJob, JobsNumbered
<1>9. ActiveJobs(c)'
  <2>1. OpenIds(c)' = OpenIds(c)
    BY <1>2 DEF OpenIds
  <2>2. \A x \in DOMAIN target : target[x] <= MinTarget
    BY <1>0 DEF ConnInv, ActiveJobs, target
  <2>3. \A x \in DOMAIN new : new[x] <= MinTarget
    BY <1>5, <1>6, <2>2
  <2> QED
    BY <1>0, <1>2, <1>3, <1>6, <2>1, <2>3 DEF ConnInv, ActiveJobs, target
<1>10. \A d \in Conns \ {c} : ConnInv(d)'
  BY <1>2, <1>4, OthersFrame
<1>11. EntriesFollowJobs' /\ EntryNotOlder'
  <2>1. \A d \in Conns : told'[d].jobs = told[d].jobs
    BY <1>3, <1>4
  <2> QED
    BY <1>1, <1>2, <2>1, EntriesFrame DEF IInv, EntryNotOlder
<1> QED
  BY <1>7, <1>8, <1>9, <1>10, <1>11 DEF IInv, ConnInv

\* A connection has fewer channels than it handed out channel ids.
LEMMA FewChannels ==
  ASSUME Shape, NEW c \in Conns, Numbered(c)
  PROVE  Cardinality(DOMAIN mgr[c].channels) \in 0 .. MaxOpens
<1> DEFINE n == mgr[c].next_channel_id
           D == DOMAIN mgr[c].channels
<1>1. n \in 1 .. MaxOpens + 1 /\ MaxOpens \in Nat /\ D \subseteq 1 .. n - 1
  BY ManagerAssumption DEF Numbered
<1> HIDE DEF n, D
<1>2. IsFiniteSet(1 .. n - 1) /\ Cardinality(1 .. n - 1) <= MaxOpens
      /\ Cardinality(1 .. n - 1) \in Nat
  <2>1. 1 \in Int /\ n - 1 \in Int
    BY <1>1
  <2>2. IsFiniteSet(1 .. n - 1)
        /\ Cardinality(1 .. n - 1) = IF 1 > n - 1 THEN 0 ELSE (n - 1) - 1 + 1
    BY <2>1, FS_Interval
  <2> QED
    BY <1>1, <2>2
<1>3. IsFiniteSet(D) /\ Cardinality(D) <= Cardinality(1 .. n - 1)
  BY <1>1, <1>2, FS_Subset
<1>4. Cardinality(D) \in Nat
  BY <1>3, FS_CardinalityType
<1>5. Cardinality(D) \in 0 .. MaxOpens
  BY <1>1, <1>2, <1>3, <1>4
<1> QED
  BY <1>5 DEF D

\* A template update gives every channel of the connection a new job.
LEMMA TemplateStep ==
  ASSUME IInv, NEW c \in Conns, NEW rank \in Ranks(DOMAIN mgr[c].channels),
         TemplateUpdate(c, rank)
  PROVE  /\ IInv'
         /\ \A k \in DOMAIN told[c].jobs :
              k \in DOMAIN told'[c].jobs /\ told'[c].jobs[k] = told[c].jobs[k]
<1> DEFINE chans == mgr[c].channels
           ids   == DOMAIN chans
           n     == Cardinality(ids)
           j     == mgr[c].next_job_id
           Job(id) == j + rank[id]
           keys  == {<<id, Job(id)>> : id \in ids}
           given == told[c].jobs
           newchans == [id \in ids |-> [chans[id] EXCEPT !.last_job_id = Job(id)]]
           newjobs  == [k \in DOMAIN given \cup keys |-> IF k \in keys THEN template ELSE given[k]]
           newactive == [id \in ids |-> Job(id)]
<1>0. Shape /\ ConnInv(c) /\ Numbered(c) /\ opening[c] = <<>> /\ template_seen[c] < template
  BY DEF IInv, ConnInv, TemplateUpdate, Idle
<1>1. /\ chans \in Maps(Ids, Channel) /\ given \in Maps(JobKeys, Nat)
      /\ told[c].target \in Maps(Ids, Nat) /\ template \in Nat /\ template_seen[c] \in Nat
  BY <1>0, ShapeAt
<1>2. n \in 0 .. MaxOpens /\ MaxOpens \in Nat /\ IdMod \in Nat
  BY <1>0, FewChannels, ManagerAssumption
<1>3. rank \in [ids -> 0 .. n - 1]
  BY DEF Ranks
<1>4. /\ j \in Nat /\ mgr[c].next_channel_id \in Nat
      /\ j + n <= mgr[c].next_channel_id + template * MaxOpens
      /\ j + n < IdMod
  BY <1>0, <1>2, NoWrap
<1>5. \A id \in ids : /\ Job(id) \in Ids /\ Job(id) >= j /\ Job(id) < j + n
                      /\ Job(id) % IdMod = Job(id)
  <2>1. ASSUME NEW id \in ids
        PROVE  Job(id) \in Nat /\ Job(id) >= j /\ Job(id) < j + n /\ Job(id) < IdMod
    <3>1. rank[id] \in 0 .. n - 1
      BY <1>3
    <3> HIDE DEF j, n
    <3> QED
      BY <1>2, <1>4, <3>1
  <2>2. \A id \in ids : Job(id) % IdMod = Job(id)
    BY <1>2, <2>1, ModSmall
  <2> QED
    BY <1>2, <2>1, <2>2 DEF Ids
<1>6. (j + n) % IdMod = j + n
  BY <1>2, <1>4, ModSmall
<1>7. /\ mgr' = [mgr EXCEPT ![c] = [mgr[c] EXCEPT !.next_job_id = j + n, !.channels = newchans]]
      /\ told' = [told EXCEPT ![c] = [told[c] EXCEPT !.jobs = newjobs, !.active = newactive]]
      /\ template_seen' = [template_seen EXCEPT ![c] = template]
      /\ UNCHANGED <<template, conn, opening, tracker, forwarded>>
  <2>1. \A id \in ids : JobFor(mgr[c], rank, id) = Job(id)
    BY <1>5 DEF JobFor
  <2>2. {<<id, JobFor(mgr[c], rank, id)>> : id \in ids} = keys
    BY <2>1
  <2>3. [id \in ids |-> [chans[id] EXCEPT !.last_job_id = JobFor(mgr[c], rank, id)]] = newchans
    BY <2>1
  <2>4. [id \in ids |-> JobFor(mgr[c], rank, id)] = newactive
    BY <2>1
  <2>5. /\ mgr' = [mgr EXCEPT ![c].next_job_id = (j + n) % IdMod, ![c].channels = newchans]
        /\ told' = [told EXCEPT ![c].jobs = newjobs, ![c].active = newactive]
        /\ template_seen' = [template_seen EXCEPT ![c] = template]
        /\ UNCHANGED <<template, conn, opening, tracker, forwarded>>
    BY <2>2, <2>3, <2>4 DEF TemplateUpdate
  <2> HIDE DEF newchans, newjobs, newactive
  <2> QED
    BY <1>0, <1>6, <2>5 DEF Shape
<1>8. /\ mgr'[c].channels = newchans /\ mgr'[c].next_job_id = j + n
      /\ mgr'[c].next_channel_id = mgr[c].next_channel_id
      /\ told'[c].jobs = newjobs /\ told'[c].active = newactive
      /\ told'[c].target = told[c].target
      /\ template_seen'[c] = template
  <2> HIDE DEF newchans, newjobs, newactive
  <2> QED
    BY <1>0, <1>7 DEF Shape
<1>9. \A d \in Conns \ {c} : /\ mgr'[d] = mgr[d] /\ template_seen'[d] = template_seen[d]
                             /\ opening'[d] = opening[d] /\ told'[d] = told[d]
  <2> HIDE DEF newchans, newjobs, newactive
  <2> QED
    BY <1>0, <1>7 DEF Shape
<1>10. /\ DOMAIN newchans = ids /\ newchans \in Maps(Ids, Channel)
       /\ \A id \in ids : /\ newchans[id].last_job_id = Job(id)
                          /\ newchans[id].prefix = chans[id].prefix
  <2>1. ids \subseteq Ids /\ \A id \in ids : chans[id] \in Channel
    BY <1>1, MapDef
  <2>2. \A id \in ids : /\ newchans[id] \in Channel /\ newchans[id].last_job_id = Job(id)
                        /\ newchans[id].prefix = chans[id].prefix
    BY <1>5, <2>1 DEF Channel
  <2>3. DOMAIN newchans = ids /\ newchans = [id \in DOMAIN newchans |-> newchans[id]]
    OBVIOUS
  <2> HIDE DEF newchans
  <2> QED
    BY <2>1, <2>2, <2>3, MapDef
<1>11. /\ DOMAIN newactive = ids /\ newactive \in Maps(Ids, Ids)
       /\ \A id \in ids : newactive[id] = Job(id)
  <2>1. ids \subseteq Ids
    BY <1>1, MapDef
  <2>2. DOMAIN newactive = ids /\ newactive = [id \in DOMAIN newactive |-> newactive[id]]
        /\ \A id \in ids : newactive[id] = Job(id)
    OBVIOUS
  <2>3. \A id \in DOMAIN newactive : newactive[id] \in Ids
    BY <1>5, <2>2
  <2> HIDE DEF newactive
  <2> QED
    BY <2>1, <2>2, <2>3, MapDef
<1>12. /\ DOMAIN given \subseteq JobKeys /\ keys \subseteq JobKeys
       /\ \A k \in DOMAIN given : given[k] \in Nat
       /\ \A k \in keys : k[2] >= j /\ k[2] < j + n /\ k[2] \in Nat
       /\ \A k \in DOMAIN given : k[2] < j /\ k[2] \in Nat
  <2>1. DOMAIN given \subseteq JobKeys /\ \A k \in DOMAIN given : given[k] \in Nat
    BY <1>1, MapDef
  <2>2. ids \subseteq Ids
    BY <1>1, MapDef
  <2>3. keys \subseteq JobKeys
    BY <1>5, <2>2 DEF JobKeys
  <2>4. \A k \in DOMAIN given : k[2] < j
    BY <1>0 DEF ConnInv, JobsNumbered
  <2>5. \A k \in JobKeys : k[2] \in Nat
    BY <1>2 DEF JobKeys, Ids
  <2>6. \A k \in keys : k[2] >= j /\ k[2] < j + n
    BY <1>5
  <2> QED
    BY <2>1, <2>3, <2>4, <2>5, <2>6
<1>13. \A k \in DOMAIN given : k \notin keys
  BY <1>4, <1>12
<1>14. /\ DOMAIN newjobs = DOMAIN given \cup keys /\ newjobs \in Maps(JobKeys, Nat)
       /\ \A k \in keys : newjobs[k] = template
       /\ \A k \in DOMAIN given : newjobs[k] = given[k]
  <2> HIDE DEF keys, given
  <2>1. DOMAIN newjobs = DOMAIN given \cup keys /\ newjobs = [k \in DOMAIN newjobs |-> newjobs[k]]
        /\ \A k \in DOMAIN newjobs : newjobs[k] = IF k \in keys THEN template ELSE given[k]
    OBVIOUS
  <2>2. DOMAIN newjobs \subseteq JobKeys /\ \A k \in DOMAIN newjobs : newjobs[k] \in Nat
    BY <1>1, <1>12, <2>1
  <2> HIDE DEF newjobs
  <2> QED
    BY <1>13, <2>1, <2>2, MapDef
<1> HIDE DEF newchans, newjobs, newactive
<1>15. Shape'
  <2>1. mgr' \in [Conns -> [channels : Maps(Ids, Channel), next_channel_id : Ids, next_job_id : Ids]]
    <3>1. j + n \in Ids
      BY <1>2, <1>4 DEF Ids
    <3> HIDE DEF j, n
    <3> QED
      BY <1>0, <1>7, <1>10, <3>1 DEF Shape
  <2>2. told' \in [Conns -> [jobs : Maps(JobKeys, Nat), active : Maps(Ids, Ids),
                             target : Maps(Ids, Nat)]]
    BY <1>0, <1>7, <1>11, <1>14 DEF Shape
  <2>3. template_seen' \in [Conns -> Nat]
    BY <1>0, <1>1, <1>7 DEF Shape
  <2> QED
    BY <1>0, <1>7, <2>1, <2>2, <2>3 DEF Shape
<1>16. Numbered(c)'
  <2>1. /\ mgr[c].next_channel_id \in 1 .. MaxOpens + 1 /\ j >= 1
        /\ \A id \in ids : id \in 1 .. mgr[c].next_channel_id - 1
    BY <1>0 DEF Numbered
  <2> HIDE DEF j, n, ids
  <2> QED
    BY <1>1, <1>2, <1>4, <1>7, <1>8, <1>10, <2>1 DEF Numbered
<1>18. OpeningJob(c)'
  BY <1>0, <1>7 DEF OpeningJob
<1>19. JobsNumbered(c)'
  <2>1. \A k \in DOMAIN given : given[k] >= 1 /\ given[k] <= template
    BY <1>0 DEF ConnInv, JobsNumbered
  <2>2. \A k \in DOMAIN newjobs : k[2] < j + n
    <3> HIDE DEF j, n, given, keys
    <3> QED
      BY <1>2, <1>4, <1>12, <1>14
  <2>3. \A k \in DOMAIN newjobs : newjobs[k] >= 1 /\ newjobs[k] <= template
    <3> HIDE DEF given, keys
    <3> QED
      BY <1>0, <1>1, <1>14, <2>1
  <2> QED
    BY <1>0, <1>7, <1>8, <2>2, <2>3 DEF JobsNumbered
<1>20. ActiveJobs(c)'
  <2>1. OpenIds(c) = {} /\ OpenIds(c)' = {}
    BY <1>0, <1>7 DEF OpenIds
  <2>2. DOMAIN told[c].target = ids /\ \A id \in ids : told[c].target[id] <= MinTarget
    BY <1>0, <2>1 DEF ConnInv, ActiveJobs
  <2>3. \A id \in ids : <<id, newactive[id]>> \in keys
    BY <1>11
  <2>4. \A id \in ids : <<id, newactive[id]>> \in DOMAIN newjobs
                        /\ newjobs[<<id, newactive[id]>>] = template
    <3> HIDE DEF keys, given, ids
    <3> QED
      BY <1>14, <2>3
  <2> QED
    BY <1>1, <1>8, <1>10, <1>11, <2>1, <2>2, <2>4 DEF ActiveJobs
<1>21. \A d \in Conns \ {c} : ConnInv(d)'
  BY <1>7, <1>9, OthersFrame
<1>22. \A k \in DOMAIN given : k \in DOMAIN told'[c].jobs /\ told'[c].jobs[k] = given[k]
  BY <1>8, <1>14
<1>23. EntriesFollowJobs' /\ EntryNotOlder'
  <2>1. \A d \in Conns : \A k \in DOMAIN told[d].jobs :
          k \in DOMAIN told'[d].jobs /\ told'[d].jobs[k] = told[d].jobs[k]
    BY <1>9, <1>22
  <2> QED
    BY <1>1, <1>7, <2>1, EntriesFrame DEF IInv, EntryNotOlder
<1> QED
  BY <1>15, <1>16, <1>18, <1>19, <1>20, <1>21, <1>22, <1>23 DEF IInv, ConnInv

\* A share takes the entry of its job with it.
LEMMA SubmitStep ==
  ASSUME IInv, NEW c \in Conns, NEW id, NEW extended, NEW job, Submit(c, id, extended, job)
  PROVE  IInv'
<1> DEFINE key == <<id, job>>
           given == told[c].jobs
           share == [conn |-> c, given |-> given[key], entry |-> tracker[key]]
<1>0. /\ Shape /\ key \in DOMAIN given /\ key \in DOMAIN tracker /\ Len(forwarded) < MaxShares
      /\ forwarded' = Append(forwarded, share)
      /\ UNCHANGED <<template, conn, mgr, template_seen, opening, told, tracker>>
  BY DEF IInv, Submit, Accepted
<1>1. given \in Maps(JobKeys, Nat) /\ tracker \in Maps(JobKeys, Entry) /\ template \in Nat
      /\ forwarded \in Seq([conn : Conns, given : Nat, entry : Entry])
  BY <1>0, ShapeAt DEF Shape
<1> HIDE DEF key, given
<1>2. given[key] \in Nat /\ tracker[key] \in Entry
  BY <1>0, <1>1, MapDef
<1>3. share \in [conn : Conns, given : Nat, entry : Entry]
  BY <1>2
<1>4. tracker[key].conn = c => tracker[key].template >= given[key]
  BY <1>0 DEF IInv, EntriesFollowJobs, given
<1>5. share.conn = c /\ share.entry = tracker[key] /\ share.given = given[key]
  OBVIOUS
<1> HIDE DEF share
<1>6. /\ forwarded' \in Seq([conn : Conns, given : Nat, entry : Entry])
      /\ Len(forwarded') = Len(forwarded) + 1 /\ Len(forwarded) \in Nat
      /\ forwarded'[Len(forwarded) + 1] = share
      /\ \A i \in 1 .. Len(forwarded) : forwarded'[i] = forwarded[i]
  BY <1>0, <1>1, <1>3
<1>7. Shape'
  BY <1>0, <1>6, ManagerAssumption DEF Shape
<1>8. EntryNotOlder'
  <2>1. ASSUME NEW i \in 1 .. Len(forwarded'), forwarded'[i].entry.conn = forwarded'[i].conn
        PROVE  forwarded'[i].entry.template >= forwarded'[i].given
    <3>1. CASE i = Len(forwarded) + 1
      BY <1>4, <1>5, <1>6, <2>1, <3>1
    <3>2. CASE i \in 1 .. Len(forwarded)
      BY <1>6, <2>1, <3>2 DEF IInv, EntryNotOlder
    <3> QED
      BY <1>6, <3>1, <3>2
  <2> QED
    BY <2>1 DEF EntryNotOlder
<1>9. (\A d \in Conns : ConnInv(d)') /\ EntriesFollowJobs'
  <2>1. \A d \in Conns : ConnInv(d)'
    BY <1>0, <1>1, ConnFrame DEF IInv
  <2> QED
    BY <1>0, <2>1 DEF IInv, EntriesFollowJobs
<1> QED
  BY <1>7, <1>8, <1>9 DEF IInv

\* A new state, a connection that opens or closes, and steps that do nothing.
LEMMA QuietStep ==
  ASSUME IInv, PublishState \/ (\E c \in Conns : Accept(c) \/ Disconnect(c)) \/ UNCHANGED vars
  PROVE  IInv' /\ UNCHANGED <<told, tracker>>
<1>0. /\ Shape /\ template' \in 0 .. MaxTemplates /\ template <= template' /\ template \in Nat
      /\ UNCHANGED <<mgr, template_seen, opening, told, tracker, forwarded>>
      /\ conn' \in [Conns -> {"none", "serving", "closed"}]
  <2>1. Shape /\ template \in 0 .. MaxTemplates /\ MaxTemplates \in Nat
    BY ManagerAssumption DEF IInv, Shape
  <2>2. CASE PublishState
    BY <2>1, <2>2 DEF PublishState, Shape
  <2>3. CASE \E c \in Conns : Accept(c) \/ Disconnect(c)
    <3>1. PICK c \in Conns : Accept(c) \/ Disconnect(c)
      BY <2>3
    <3>2. conn \in [Conns -> {"none", "serving", "closed"}]
      BY <2>1 DEF Shape
    <3>3. \/ conn' = [conn EXCEPT ![c] = "serving"]
          \/ conn' = [conn EXCEPT ![c] = "closed"]
      BY <3>1 DEF Accept, Disconnect
    <3>4. UNCHANGED <<template, mgr, template_seen, opening, told, tracker, forwarded>>
      BY <3>1 DEF Accept, Disconnect
    <3> QED
      BY <2>1, <3>2, <3>3, <3>4
  <2>4. CASE UNCHANGED vars
    BY <2>1, <2>4 DEF vars, Shape
  <2> QED
    BY <2>2, <2>3, <2>4
<1>1. template' \in Nat
  BY <1>0
<1>2. Shape'
  BY <1>0 DEF Shape
<1>3. \A d \in Conns : ConnInv(d)'
  BY <1>0, <1>1, ConnFrame DEF IInv
<1>4. EntriesFollowJobs' /\ EntryNotOlder'
  BY <1>0, <1>1, EntriesFrame DEF IInv, EntryNotOlder
<1> QED
  BY <1>0, <1>2, <1>3, <1>4 DEF IInv

-----------------------------------------------------------------------------
(* The theorems. *)

LEMMA InitIInv == Init => IInv
<1> SUFFICES ASSUME Init PROVE IInv
  OBVIOUS
<1>1. /\ Empty \in Maps(Ids, Channel) /\ Empty \in Maps(JobKeys, Nat) /\ Empty \in Maps(Ids, Ids)
      /\ Empty \in Maps(Ids, Nat) /\ Empty \in Maps(JobKeys, Entry) /\ DOMAIN Empty = {}
  BY EmptyMap
<1>2. 1 \in Ids /\ 0 \in 0 .. MaxTemplates /\ MaxShares \in Nat /\ MaxOpens \in Nat
  BY ManagerAssumption DEF Ids
<1>3. Shape
  <2>1. NewManager \in [channels : Maps(Ids, Channel), next_channel_id : Ids, next_job_id : Ids]
    BY <1>1, <1>2 DEF NewManager
  <2>2. [jobs |-> Empty, active |-> Empty, target |-> Empty]
          \in [jobs : Maps(JobKeys, Nat), active : Maps(Ids, Ids), target : Maps(Ids, Nat)]
    BY <1>1
  <2>3. forwarded \in Seq([conn : Conns, given : Nat, entry : Entry]) /\ Len(forwarded) = 0
    BY DEF Init
  <2> QED
    BY <1>1, <1>2, <2>1, <2>2, <2>3 DEF Init, Shape
<1>4. ASSUME NEW c \in Conns PROVE ConnInv(c)
  <2>1. /\ mgr[c].channels = Empty /\ mgr[c].next_channel_id = 1 /\ mgr[c].next_job_id = 1
        /\ told[c].jobs = Empty /\ told[c].active = Empty /\ told[c].target = Empty
        /\ opening[c] = <<>> /\ template_seen[c] = 0 /\ template = 0
    BY DEF Init, NewManager
  <2>2. Numbered(c)
    BY <1>1, <1>2, <2>1 DEF Numbered
  <2>3. OpeningJob(c) /\ JobsNumbered(c)
    BY <1>1, <2>1 DEF OpeningJob, JobsNumbered
  <2>4. ActiveJobs(c)
    BY <1>1, <2>1 DEF ActiveJobs
  <2> QED
    BY <2>2, <2>3, <2>4 DEF ConnInv
<1>5. EntriesFollowJobs /\ EntryNotOlder
  BY <1>1 DEF Init, EntriesFollowJobs, EntryNotOlder
<1> QED
  BY <1>3, <1>4, <1>5 DEF IInv

\* The disjuncts of Next.
LEMMA NextCases ==
  ASSUME [Next]_vars,
         NEW ACTION P,
         (PublishState \/ (\E c \in Conns : Accept(c) \/ Disconnect(c)) \/ UNCHANGED vars) => P,
         \A c \in Conns : \A e \in BOOLEAN : \A rate \in Rates : \A t \in Targets :
           Open(c, e, rate, t) => P,
         \A c \in Conns : SeedAndReply(c) => P,
         \A c \in Conns : \A rank \in Ranks(DOMAIN mgr[c].channels) : TemplateUpdate(c, rank) => P,
         \A c \in Conns : \A id \in DOMAIN mgr[c].channels : CloseChannel(c, id) => P,
         \A c \in Conns : \A id \in DOMAIN mgr[c].channels : \A rate \in Rates : \A t \in Targets :
           UpdateChannel(c, id, rate, t) => P,
         \A c \in Conns : \A id \in DOMAIN mgr[c].channels : \A e \in BOOLEAN : \A job \in JobsOn(c, id) :
           Submit(c, id, e, job) => P
  PROVE  P
<1>1. CASE UNCHANGED vars
  BY <1>1
<1>2. CASE PublishState
  BY <1>2
<1>3. ASSUME NEW c \in Conns, Accept(c) \/ Disconnect(c) PROVE P
  BY <1>3
<1>4. ASSUME NEW c \in Conns, Serve(c) PROVE P
  <2>1. CASE \E rate \in Rates, t \in Targets : OpenExtended(c, rate, t) \/ OpenStandard(c, rate, t)
    BY <2>1 DEF OpenExtended, OpenStandard
  <2>2. CASE SeedAndReply(c)
    BY <2>2
  <2>3. CASE \E rank \in Ranks(DOMAIN mgr[c].channels) : TemplateUpdate(c, rank)
    BY <2>3
  <2>4. ASSUME NEW id \in DOMAIN mgr[c].channels, CloseChannel(c, id) PROVE P
    BY <2>4
  <2>5. ASSUME NEW id \in DOMAIN mgr[c].channels, NEW rate \in Rates, NEW t \in Targets,
               UpdateChannel(c, id, rate, t)
        PROVE  P
    BY <2>5
  <2>6. ASSUME NEW id \in DOMAIN mgr[c].channels, NEW job \in JobsOn(c, id),
               SubmitExtended(c, id, job) \/ SubmitStandard(c, id, job)
        PROVE  P
    BY <2>6 DEF SubmitExtended, SubmitStandard
  <2> QED
    BY <1>4, <2>1, <2>2, <2>3, <2>4, <2>5, <2>6 DEF Serve
<1> QED
  BY <1>1, <1>2, <1>3, <1>4 DEF Next

LEMMA NextIInv == IInv /\ [Next]_vars => IInv'
<1> SUFFICES ASSUME IInv, [Next]_vars PROVE IInv'
  OBVIOUS
<1>1. (PublishState \/ (\E c \in Conns : Accept(c) \/ Disconnect(c)) \/ UNCHANGED vars) => IInv'
  BY QuietStep
<1>2. \A c \in Conns : \A e \in BOOLEAN : \A rate \in Rates : \A t \in Targets :
        Open(c, e, rate, t) => IInv'
  BY OpenStep
<1>3. \A c \in Conns : SeedAndReply(c) => IInv'
  BY SeedStep
<1>4. \A c \in Conns : \A rank \in Ranks(DOMAIN mgr[c].channels) : TemplateUpdate(c, rank) => IInv'
  BY TemplateStep
<1>5. \A c \in Conns : \A id \in DOMAIN mgr[c].channels : CloseChannel(c, id) => IInv'
  BY CloseStep
<1>6. \A c \in Conns : \A id \in DOMAIN mgr[c].channels : \A rate \in Rates : \A t \in Targets :
        UpdateChannel(c, id, rate, t) => IInv'
  BY UpdateStep
<1>7. \A c \in Conns : \A id \in DOMAIN mgr[c].channels : \A e \in BOOLEAN :
        \A job \in JobsOn(c, id) : Submit(c, id, e, job) => IInv'
  BY SubmitStep
<1> HIDE DEF IInv
<1> QED
  BY <1>1, <1>2, <1>3, <1>4, <1>5, <1>6, <1>7, NextCases

LEMMA SpecIInv == Spec => []IInv
<1> QED
  BY InitIInv, NextIInv, PTL DEF Spec

\* What the invariant says of the values of the variables.
LEMMA TypesFollow == IInv => TypeOK
<1> SUFFICES ASSUME IInv PROVE TypeOK
  OBVIOUS
<1>1. Shape
  BY DEF IInv
<1>2. ASSUME NEW c \in Conns
      PROVE  /\ conn[c] \in {"none", "serving", "closed"}
             /\ template_seen[c] \in 0 .. template
             /\ mgr[c].next_channel_id \in Ids /\ mgr[c].next_job_id \in Ids
             /\ DOMAIN mgr[c].channels \subseteq Ids
             /\ \A id \in DOMAIN mgr[c].channels : mgr[c].channels[id] \in Channel
             /\ Len(opening[c]) <= 1
             /\ DOMAIN told[c].active = DOMAIN told[c].target
  <2>1. /\ template \in Nat /\ template_seen[c] \in Nat /\ mgr[c].channels \in Maps(Ids, Channel)
        /\ mgr[c].next_channel_id \in Ids /\ mgr[c].next_job_id \in Ids
        /\ opening[c] # <<>> => opening[c] = <<opening[c][1]>>
    BY <1>1, ShapeAt
  <2>2. DOMAIN mgr[c].channels \subseteq Ids
        /\ \A id \in DOMAIN mgr[c].channels : mgr[c].channels[id] \in Channel
    BY <2>1, MapDef
  <2>3. Len(opening[c]) <= 1
    <3>1. CASE opening[c] = <<>>
      BY <3>1
    <3>2. CASE opening[c] # <<>>
      <4>1. PICK o : opening[c] = <<o>>
        BY <2>1, <3>2
      <4> QED
        BY <4>1
    <3> QED
      BY <3>1, <3>2
  <2>4. template_seen[c] <= template /\ DOMAIN told[c].active = DOMAIN told[c].target
    BY DEF IInv, ConnInv, Numbered, ActiveJobs
  <2>5. conn[c] \in {"none", "serving", "closed"}
    BY <1>1 DEF Shape
  <2>6. template_seen[c] \in 0 .. template
    BY <2>1, <2>4
  <2> QED
    BY <2>1, <2>2, <2>3, <2>4, <2>5, <2>6
<1>3. ASSUME NEW k \in DOMAIN tracker
      PROVE  tracker[k].template \in 1 .. template /\ tracker[k].conn \in Conns
  <2>1. tracker \in Maps(JobKeys, Entry)
    BY <1>1 DEF Shape
  <2>2. tracker[k] \in Entry
    BY <2>1, MapDef
  <2>3. tracker[k].template \in Nat /\ tracker[k].conn \in Conns
    BY <2>2 DEF Entry
  <2>4. /\ k \in DOMAIN told[tracker[k].conn].jobs
        /\ tracker[k].template >= told[tracker[k].conn].jobs[k]
        /\ tracker[k].template <= template
    BY DEF IInv, EntriesFollowJobs
  <2>5. told[tracker[k].conn].jobs[k] >= 1
    BY <2>3, <2>4 DEF IInv, ConnInv, JobsNumbered
  <2>6. told[tracker[k].conn].jobs[k] \in Nat
    <3>1. told[tracker[k].conn].jobs \in Maps(JobKeys, Nat)
      BY <1>1, <2>3, ShapeAt
    <3> QED
      BY <2>4, <3>1, MapDef
  <2>7. template \in Nat
    BY <1>1, ManagerAssumption DEF Shape
  <2> QED
    BY <2>3, <2>4, <2>5, <2>6, <2>7
<1> QED
  BY <1>1, <1>2, <1>3 DEF TypeOK, Shape

\* When a connection has handled the newest state, each of its channels mines
\* the job the manager made of that state (on_template_update, and the
\* template arm of the connection).
THEOREM NewestJobsMined == Spec => []NewestJobActive
<1>1. IInv => NewestJobActive
  <2>0. IInv => TypeOK
    BY TypesFollow
  <2> SUFFICES ASSUME IInv, NEW c \in Conns, Idle(c), template_seen[c] = template
               PROVE  /\ DOMAIN told[c].active = DOMAIN mgr[c].channels
                      /\ \A id \in DOMAIN told[c].active :
                           /\ told[c].active[id] = mgr[c].channels[id].last_job_id
                           /\ told[c].jobs[<<id, told[c].active[id]>>] = template
    BY <2>0 DEF NewestJobActive
  <2>1. OpenIds(c) = {}
    BY DEF Idle, OpenIds
  <2>2. told[c].jobs \in Maps(JobKeys, Nat) /\ template \in Nat
    BY ShapeAt DEF IInv
  <2>3. \A k \in DOMAIN told[c].jobs : told[c].jobs[k] \in Nat /\ told[c].jobs[k] <= template
    BY <2>2, MapDef DEF IInv, ConnInv, JobsNumbered
  <2>4. /\ DOMAIN told[c].active = DOMAIN mgr[c].channels
        /\ \A id \in DOMAIN told[c].active :
             /\ told[c].active[id] = mgr[c].channels[id].last_job_id
             /\ <<id, told[c].active[id]>> \in DOMAIN told[c].jobs
             /\ template_seen[c] <= told[c].jobs[<<id, told[c].active[id]>>]
    BY <2>1 DEF IInv, ConnInv, ActiveJobs
  <2>5. ASSUME NEW id \in DOMAIN told[c].active
        PROVE  told[c].jobs[<<id, told[c].active[id]>>] = template
    <3> DEFINE k == <<id, told[c].active[id]>>
    <3>1. k \in DOMAIN told[c].jobs /\ template <= told[c].jobs[k]
      BY <2>4, <2>5
    <3> HIDE DEF k
    <3>2. told[c].jobs[k] = template
      BY <2>2, <2>3, <3>1
    <3> QED
      BY <3>2 DEF k
  <2> QED
    BY <2>4, <2>5
<1> QED
  BY <1>1, SpecIInv, PTL

\* No message of the manager hands out a target easier than the floor
\* (clamp_target_to_min_hashrate_le).
THEOREM TargetsAlwaysClamped == Spec => []TargetsClamped
<1>1. IInv => TargetsClamped
  BY DEF IInv, ConnInv, ActiveJobs, TargetsClamped
<1> QED
  BY <1>1, SpecIInv, PTL

\* A share whose entry its own connection seeded is never encoded from a state
\* older than its job's (seed_job_tracker, finalize_share).
THEOREM EntriesNeverOlder == Spec => []EntryNotOlder
<1>1. IInv => EntryNotOlder
  BY DEF IInv
<1> QED
  BY <1>1, SpecIInv, PTL

\* A job id is never used again on a channel with other contents, whatever is
\* opened, closed and updated in between (next_job_id).
THEOREM JobsNeverChange == Spec => JobsImmutable
<1> DEFINE Kept == \A c \in Conns : \A k \in DOMAIN told[c].jobs :
                     k \in DOMAIN told'[c].jobs /\ told'[c].jobs[k] = told[c].jobs[k]
<1>1. IInv /\ [Next]_vars => Kept
  <2> SUFFICES ASSUME IInv, [Next]_vars PROVE Kept
    OBVIOUS
  <2>1. UNCHANGED told => Kept
    OBVIOUS
  <2>2. ASSUME NEW c \in Conns, \A d \in Conns \ {c} : told'[d] = told[d],
               \A k \in DOMAIN told[c].jobs :
                 k \in DOMAIN told'[c].jobs /\ told'[c].jobs[k] = told[c].jobs[k]
        PROVE  Kept
    BY <2>2
  <2> HIDE DEF Kept
  <2>3. (PublishState \/ (\E c \in Conns : Accept(c) \/ Disconnect(c)) \/ UNCHANGED vars) => Kept
    BY <2>1, QuietStep
  <2>4. \A c \in Conns : \A e \in BOOLEAN : \A rate \in Rates : \A t \in Targets :
          Open(c, e, rate, t) => Kept
    BY <2>1 DEF Open
  <2>5. ASSUME NEW c \in Conns, SeedAndReply(c) PROVE Kept
    <3> DEFINE o == opening[c][1]
               given == told[c].jobs
    <3>1. Shape /\ opening[c] # <<>> /\ told \in [Conns -> [jobs : Maps(JobKeys, Nat),
                                          active : Maps(Ids, Ids), target : Maps(Ids, Nat)]]
      BY <2>5 DEF SeedAndReply, IInv, Shape
    <3>2. told'[c].jobs = Set(given, <<o.id, o.job>>, o.template)
          /\ \A d \in Conns \ {c} : told'[d] = told[d]
      BY <2>5, <3>1 DEF SeedAndReply
    <3>3. o \in Opening /\ given \in Maps(JobKeys, Nat)
      BY <3>1, ShapeAt
    <3>4. DOMAIN given \subseteq JobKeys
      BY <3>3, MapDef
    <3>5. \A k \in DOMAIN given : k[2] < o.job /\ k[2] \in Nat
      BY <3>1, <3>4, ManagerAssumption DEF IInv, ConnInv, JobsNumbered, JobKeys, Ids
    <3>6. o.job \in Nat
      BY <3>3, ManagerAssumption DEF Opening, Ids
    <3>7. <<o.id, o.job>> \notin DOMAIN given
      BY <3>5, <3>6
    <3> HIDE DEF o, given
    <3>8. \A k \in DOMAIN given : k \in DOMAIN told'[c].jobs /\ told'[c].jobs[k] = given[k]
      BY <3>2, <3>7 DEF Set
    <3> QED
      BY <2>2, <3>2, <3>8 DEF given
  <2>6. ASSUME NEW c \in Conns, NEW rank \in Ranks(DOMAIN mgr[c].channels), TemplateUpdate(c, rank)
        PROVE  Kept
    <3>1. \A d \in Conns \ {c} : told'[d] = told[d]
      BY <2>6 DEF TemplateUpdate, IInv, Shape
    <3> QED
      BY <2>2, <2>6, <3>1, TemplateStep
  <2>7. ASSUME NEW c \in Conns, NEW id, CloseChannel(c, id) PROVE Kept
    <3>1. (\A d \in Conns \ {c} : told'[d] = told[d]) /\ told'[c].jobs = told[c].jobs
      BY <2>7 DEF CloseChannel, IInv, Shape
    <3> QED
      BY <2>2, <3>1
  <2>8. ASSUME NEW c \in Conns, NEW id, NEW rate, NEW t, UpdateChannel(c, id, rate, t) PROVE Kept
    <3>1. (\A d \in Conns \ {c} : told'[d] = told[d]) /\ told'[c].jobs = told[c].jobs
      BY <2>8 DEF UpdateChannel, IInv, Shape
    <3> QED
      BY <2>2, <3>1
  <2>9. \A c \in Conns : \A id \in DOMAIN mgr[c].channels : \A e \in BOOLEAN :
          \A job \in JobsOn(c, id) : Submit(c, id, e, job) => Kept
    BY <2>1 DEF Submit
  <2> QED
    BY <2>3, <2>4, <2>5, <2>6, <2>7, <2>8, <2>9, NextCases
<1>2. IInv /\ [Next]_vars => [Kept]_vars
  BY <1>1
<1> HIDE DEF Kept
<1>3. Spec => [][Kept]_vars
  BY <1>2, SpecIInv, PTL DEF Spec
<1> QED
  BY <1>3 DEF JobsImmutable, Kept
=============================================================================
