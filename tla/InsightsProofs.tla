--------------------------- MODULE InsightsProofs ---------------------------
(***************************************************************************)
(* Theorems about Insights and the two modules it composes.  The cache, the   *)
(* dashboard and the risk profile have an inductive invariant each, and a     *)
(* step of one part leaves the tables of the other two as they are.          *)
(***************************************************************************)
EXTENDS Insights, SumProofs, SequenceTheorems

USE DEF Versions, Epochs, Points

-----------------------------------------------------------------------------
(* The covariance cache.  CacheInv is inductive; that a served matrix is as   *)
(* new as promised is one of its parts.                                      *)
(* A step of one call leaves every table and key as it is.                   *)
LEMMA CallStep ==
  ASSUME CacheInv,
         NEW r \in Readers,
         cov' \in [Readers -> Reader],
         \A q \in Readers \ {r} : cov'[q] = cov[q],
         UNCHANGED <<prices, version, unsaid, cacheVars, seed>>,
         CallFresh(r)'
  PROVE  CacheInv'
<1>1. PriceTypeOK'
  BY DEF CacheInv, PriceTypeOK, cacheVars
<1>2. Counted' /\ KeysFresh'
  BY DEF CacheInv, Counted, KeysFresh, KeyFresh, cacheVars
<1>3. ASSUME NEW q \in Readers PROVE CallFresh(q)'
  <2>1. CASE q = r
    BY <2>1
  <2>2. CASE q # r
    <3>1. cov'[q] = cov[q] /\ CallFresh(q)
      BY <2>2 DEF CacheInv
    <3>2. QED
      BY <3>1 DEF CallFresh, Keyed, Fresh, cacheVars
  <2>3. QED
    BY <2>1, <2>2
<1>4. QED
  BY <1>1, <1>2, <1>3 DEF CacheInv

(* The parts of a call that is taken one step further.                       *)
LEMMA CallType ==
  ASSUME CacheInv, NEW r \in Readers
  PROVE  /\ cov \in [Readers -> Reader] /\ cov[r] \in Reader
         /\ gen \in 0..MaxWrites /\ epoch \in 0..MaxRestarts
         /\ announced \in 0..MaxWrites /\ version \in 0..MaxWrites
         /\ CallFresh(r) /\ Counted
BY DEF CacheInv, PriceTypeOK

LEMMA BeginFresh ==
  ASSUME CacheInv, NEW r \in Readers, CovBegin(r)
  PROVE  CacheInv'
<1>1. cov \in [Readers -> Reader] /\ cov[r] \in Reader
      /\ gen \in 0..MaxWrites /\ epoch \in 0..MaxRestarts /\ announced \in 0..MaxWrites
      /\ floor[epoch][gen] = announced
  BY CallType DEF Counted
<1>2. /\ cov'[r] = [cov[r] EXCEPT !.at = "keyed", !.gen = gen, !.epoch = epoch,
                                  !.promised = announced]
      /\ \A q \in Readers \ {r} : cov'[q] = cov[q]
  BY <1>1 DEF CovBegin
<1>3. cov' \in [Readers -> Reader]
  BY <1>1 DEF CovBegin, Reader
<1>4. CallFresh(r)'
  BY <1>1, <1>2 DEF CallFresh, Keyed, CovBegin, cacheVars, Reader
<1>5. QED
  BY <1>2, <1>3, <1>4, CallStep DEF CovBegin

LEMMA HitFresh ==
  ASSUME CacheInv, NEW r \in Readers, CovHit(r)
  PROVE  CacheInv'
<1>1. cov \in [Readers -> Reader] /\ cov[r] \in Reader /\ Keyed(r)
  BY CallType DEF CallFresh, CovHit
<1>2. keys[cov[r].gen] \in Matrix /\ KeyFresh(cov[r].gen)
  BY <1>1 DEF CovHit, CacheInv, PriceTypeOK, KeysFresh, Reader
<1>3. /\ cov'[r] = [cov[r] EXCEPT !.at = "served", !.matrix = keys[cov[r].gen]]
      /\ \A q \in Readers \ {r} : cov'[q] = cov[q]
  BY <1>1 DEF CovHit
<1>4. cov' \in [Readers -> Reader]
  BY <1>1, <1>2 DEF CovHit, Reader
<1>5. CallFresh(r)'
  BY <1>1, <1>2, <1>3 DEF CallFresh, Fresh, Keyed, KeyFresh, Reader, Matrix
<1>6. QED
  BY <1>3, <1>4, <1>5, CallStep DEF CovHit

LEMMA MissFresh ==
  ASSUME CacheInv, NEW r \in Readers, CovMiss(r)
  PROVE  CacheInv'
<1>1. cov \in [Readers -> Reader] /\ cov[r] \in Reader /\ CallFresh(r)
  BY CallType
<1>2. /\ cov'[r] = [cov[r] EXCEPT !.at = "missed"]
      /\ \A q \in Readers \ {r} : cov'[q] = cov[q]
  BY <1>1 DEF CovMiss
<1>3. cov' \in [Readers -> Reader]
  BY <1>1 DEF CovMiss, Reader
<1>4. CallFresh(r)'
  BY <1>1, <1>2 DEF CallFresh, Keyed, CovMiss, cacheVars, Reader
<1>5. QED
  BY <1>2, <1>3, <1>4, CallStep DEF CovMiss

LEMMA DegradeFresh ==
  ASSUME CacheInv, NEW r \in Readers, CovDegrade(r)
  PROVE  CacheInv'
<1>1. cov \in [Readers -> Reader] /\ cov[r] \in Reader /\ CallFresh(r)
      /\ epoch \in 0..MaxRestarts /\ announced \in 0..MaxWrites
  BY CallType
<1>2. /\ cov'[r].at = "direct"
      /\ cov'[r].promised = IF cov[r].at = "idle" THEN announced ELSE cov[r].promised
      /\ \A q \in Readers \ {r} : cov'[q] = cov[q]
  BY <1>1 DEF CovDegrade, Reader
<1>3. cov' \in [Readers -> Reader]
  BY <1>1 DEF CovDegrade, Reader
<1>4. CallFresh(r)'
  BY <1>1, <1>2 DEF CallFresh, CovDegrade, cacheVars, Reader
<1>5. QED
  BY <1>2, <1>3, <1>4, CallStep DEF CovDegrade

LEMMA ComputeFresh ==
  ASSUME CacheInv, NEW r \in Readers, CovCompute(r)
  PROVE  CacheInv'
<1>1. cov \in [Readers -> Reader] /\ cov[r] \in Reader /\ CallFresh(r)
      /\ announced \in 0..MaxWrites /\ version \in 0..MaxWrites /\ announced <= version
  BY CallType DEF Counted
<1>2. /\ cov'[r].at \in {"refused", "served", "computed"}
      /\ cov'[r].at = "computed" => cov[r].at = "missed"
      /\ cov'[r].matrix = [of |-> version, epoch |-> cov[r].epoch]
      /\ cov'[r].gen = cov[r].gen /\ cov'[r].epoch = cov[r].epoch
      /\ cov'[r].promised = cov[r].promised
      /\ \A q \in Readers \ {r} : cov'[q] = cov[q]
  BY <1>1 DEF CovCompute, Reader
<1>3. cov' \in [Readers -> Reader]
  BY <1>1 DEF CovCompute, Reader, Matrix
<1>4. cov[r].promised <= version
  BY <1>1 DEF CovCompute, CallFresh, Reader
<1>5. CallFresh(r)'
  BY <1>1, <1>2, <1>4 DEF CallFresh, Keyed, Fresh, CovCompute, cacheVars, Reader
<1>6. QED
  BY <1>2, <1>3, <1>5, CallStep DEF CovCompute

-----------------------------------------------------------------------------
(* The matrix is stored under the generation its call knows: no other key of *)
(* a newer generation gets an older matrix.                                  *)
LEMMA StoreFresh ==
  ASSUME CacheInv, NEW r \in Readers, CovStore(r)
  PROVE  CacheInv'
<1>1. /\ cov \in [Readers -> Reader] /\ cov[r] \in Reader /\ Keyed(r)
      /\ cov[r].matrix.of >= cov[r].promised /\ cov[r].matrix.epoch = cov[r].epoch
  BY CallType DEF CallFresh, CovStore
<1>2. PriceTypeOK'
  BY <1>1 DEF CovStore, CacheInv, PriceTypeOK, Reader, Key
<1>3. Counted'
  BY DEF CovStore, CacheInv, Counted
<1>4. ASSUME NEW g \in Versions, keys'[g] # NoEntry PROVE KeyFresh(g)'
  <2>1. CASE keys'[g] = keys[g]
    BY <1>4, <2>1 DEF CovStore, CacheInv, KeysFresh, KeyFresh
  <2>2. CASE g = cov[r].gen /\ keys'[g] = cov[r].matrix
    BY <1>1, <2>2 DEF CovStore, KeyFresh, Keyed
  <2>3. keys'[g] = keys[g] \/ (g = cov[r].gen /\ keys'[g] = cov[r].matrix)
    BY DEF CovStore, Key, CacheInv, PriceTypeOK
  <2>4. QED
    BY <2>1, <2>2, <2>3
<1>5. ASSUME NEW q \in Readers PROVE CallFresh(q)'
  <2>1. CallFresh(q)
    BY DEF CacheInv
  <2>2. CASE q = r
    <3>1. cov'[q].at = "served" /\ cov'[q].matrix = cov[r].matrix
          /\ cov'[q].promised = cov[r].promised /\ cov'[q].epoch = cov[r].epoch
      BY <1>1, <2>2 DEF CovStore, Reader
    <3>2. QED
      BY <1>1, <3>1 DEF CallFresh, Fresh
  <2>3. CASE q # r
    <3>1. cov'[q] = cov[q]
      BY <1>1, <2>3 DEF CovStore
    <3>2. QED
      BY <2>1, <3>1 DEF CovStore, CallFresh, Keyed, Fresh
  <2>4. QED
    BY <2>2, <2>3
<1>6. QED
  BY <1>2, <1>3, <1>4, <1>5 DEF CacheInv, KeysFresh

-----------------------------------------------------------------------------
(* A step of Redis or of a writer leaves the calls as they are; what a call  *)
(* knows stays true if the floors it can refer to do.                        *)
LEMMA CounterStep ==
  ASSUME CacheInv,
         PriceTypeOK', Counted', KeysFresh',
         UNCHANGED cov,
         announced' >= announced,
         \/ epoch' = epoch /\ gen' >= gen
         \/ epoch' > epoch,
         \A e \in Epochs, g \in Versions :
           e < epoch \/ (e = epoch /\ g <= gen) => floor'[e][g] = floor[e][g]
  PROVE  CacheInv'
<1>1. ASSUME NEW q \in Readers PROVE CallFresh(q)'
  <2>1. CallFresh(q) /\ cov'[q] = cov[q] /\ cov[q] \in Reader
    BY DEF CacheInv, PriceTypeOK
  <2>2. announced \in 0..MaxWrites /\ announced' \in 0..MaxWrites
        /\ gen \in 0..MaxWrites /\ gen' \in 0..MaxWrites
        /\ epoch \in 0..MaxRestarts /\ epoch' \in 0..MaxRestarts
    BY DEF CacheInv, PriceTypeOK
  <2>3. Keyed(q) => Keyed(q)'
    BY <2>1, <2>2, PriceAssumption DEF Keyed, Reader
  <2>4. cov[q].promised <= announced => cov'[q].promised <= announced'
    BY <2>1, <2>2, PriceAssumption DEF Reader
  <2>5. QED
    BY <2>1, <2>3, <2>4 DEF CallFresh, Fresh
<1>2. QED
  BY <1>1 DEF CacheInv

LEMMA ExpireFresh ==
  ASSUME CacheInv, NEW k \in Versions, KeyExpires(k)
  PROVE  CacheInv'
<1>1. PriceTypeOK'
  BY DEF KeyExpires, CacheInv, PriceTypeOK
<1>2. Counted'
  BY DEF KeyExpires, CacheInv, Counted
<1>3. ASSUME NEW g \in Versions, keys'[g] # NoEntry PROVE KeyFresh(g)'
  <2>1. keys'[g] = keys[g]
    BY <1>3 DEF KeyExpires, CacheInv, PriceTypeOK
  <2>2. QED
    BY <1>3, <2>1 DEF KeyExpires, CacheInv, KeysFresh, KeyFresh
<1>4. announced \in 0..MaxWrites /\ gen \in 0..MaxWrites
  BY DEF CacheInv, PriceTypeOK
<1>5. QED
  BY <1>1, <1>2, <1>3, <1>4, CounterStep DEF KeyExpires, KeysFresh

(* The new epoch has no key and no call yet.                                 *)
LEMMA RestartFresh ==
  ASSUME CacheInv, RedisRestarts
  PROVE  CacheInv'
<1>1. announced \in 0..MaxWrites /\ version \in 0..MaxWrites
      /\ epoch \in 0..MaxRestarts /\ epoch + 1 \in 0..MaxRestarts
      /\ floor \in [0..MaxRestarts -> [0..MaxWrites -> 0..MaxWrites]]
      /\ 0 \in 0..MaxWrites
  <2>1. announced \in 0..MaxWrites /\ version \in 0..MaxWrites /\ epoch \in 0..MaxRestarts
        /\ floor \in [0..MaxRestarts -> [0..MaxWrites -> 0..MaxWrites]]
    BY DEF CacheInv, PriceTypeOK
  <2>2. 0 \in 0..MaxWrites /\ (epoch < MaxRestarts => epoch + 1 \in 0..MaxRestarts)
    BY <2>1, PriceAssumption
  <2>3. QED
    BY <2>1, <2>2 DEF RedisRestarts
<1>2. /\ floor' \in [0..MaxRestarts -> [0..MaxWrites -> 0..MaxWrites]]
      /\ floor'[epoch + 1][0] = announced
      /\ \A e \in 0..MaxRestarts, g \in 0..MaxWrites :
           e # epoch + 1 => floor'[e][g] = floor[e][g]
  BY <1>1 DEF RedisRestarts
<1>3. PriceTypeOK'
  BY <1>1, <1>2 DEF RedisRestarts, CacheInv, PriceTypeOK
<1>4. Counted'
  BY <1>1, <1>2 DEF RedisRestarts, CacheInv, Counted
<1>5. KeysFresh'
  BY DEF RedisRestarts, KeysFresh
<1>6. QED
  BY <1>1, <1>2, <1>3, <1>4, <1>5, CounterStep DEF RedisRestarts

-----------------------------------------------------------------------------
(* The counter reaches a value no key of this epoch has; what is announced   *)
(* grows, and is committed.                                                  *)
LEMMA CounterIncremented ==
  ASSUME CacheInv, gen < MaxWrites,
         gen' = gen + 1, UNCHANGED <<prices, version, keys, epoch, cov, seed>>,
         unsaid' \subseteq unsaid,
         announced' \in 0..MaxWrites, announced' >= announced, announced' <= version,
         floor' = [floor EXCEPT ![epoch][gen + 1] = announced']
  PROVE  CacheInv'
<1>1. version \in 0..MaxWrites /\ announced \in 0..MaxWrites
      /\ gen \in 0..MaxWrites /\ gen + 1 \in 0..MaxWrites /\ epoch \in 0..MaxRestarts
      /\ floor \in [0..MaxRestarts -> [0..MaxWrites -> 0..MaxWrites]]
  <2>1. version \in 0..MaxWrites /\ announced \in 0..MaxWrites /\ gen \in 0..MaxWrites
        /\ epoch \in 0..MaxRestarts
        /\ floor \in [0..MaxRestarts -> [0..MaxWrites -> 0..MaxWrites]]
    BY DEF CacheInv, PriceTypeOK
  <2>2. gen + 1 \in 0..MaxWrites
    BY <2>1, PriceAssumption
  <2>3. QED
    BY <2>1, <2>2
<1>2. /\ floor' \in [0..MaxRestarts -> [0..MaxWrites -> 0..MaxWrites]]
      /\ floor'[epoch][gen + 1] = announced'
      /\ \A e \in 0..MaxRestarts, g \in 0..MaxWrites :
           e # epoch \/ g # gen + 1 => floor'[e][g] = floor[e][g]
  BY <1>1
<1>3. PriceTypeOK'
  BY <1>1, <1>2 DEF CacheInv, PriceTypeOK
<1>4. Counted'
  BY <1>1, <1>2 DEF CacheInv, Counted
<1>5. ASSUME NEW g \in Versions, keys'[g] # NoEntry PROVE KeyFresh(g)'
  <2>1. KeyFresh(g) /\ keys[g] \in Matrix
    BY <1>5 DEF CacheInv, PriceTypeOK, KeysFresh
  <2>2. keys[g].epoch # epoch \/ g # gen + 1
    BY <1>1, <2>1 DEF KeyFresh
  <2>3. floor'[keys[g].epoch][g] = floor[keys[g].epoch][g]
    BY <1>2, <2>1, <2>2 DEF Matrix
  <2>4. QED
    BY <1>1, <2>1, <2>3 DEF KeyFresh
<1>6. QED
  BY <1>1, <1>2, <1>3, <1>4, <1>5, CounterStep DEF KeysFresh

LEMMA InvalidateFresh ==
  ASSUME CacheInv, NEW v \in Versions, Invalidate(v)
  PROVE  CacheInv'
<1>1. version \in 0..MaxWrites /\ announced \in 0..MaxWrites
      /\ announced <= version /\ v <= version
  BY DEF CacheInv, PriceTypeOK, Counted, Invalidate
<1>2. announced' \in 0..MaxWrites /\ announced' >= announced /\ announced' <= version
  BY <1>1 DEF Invalidate
<1>3. QED
  BY <1>2, CounterIncremented DEF Invalidate

LEMMA InvalidateFailsFresh ==
  ASSUME CacheInv, NEW v \in Versions, InvalidateFails(v)
  PROVE  CacheInv'
<1>1. version \in 0..MaxWrites /\ announced \in 0..MaxWrites /\ announced <= version
      /\ gen \in 0..MaxWrites
  BY DEF CacheInv, PriceTypeOK, Counted
<1>2. CASE UNCHANGED <<gen, floor>>
  <2>1. PriceTypeOK' /\ Counted' /\ KeysFresh'
    BY <1>2 DEF InvalidateFails, CacheInv, PriceTypeOK, Counted, KeysFresh, KeyFresh
  <2>2. QED
    BY <1>1, <1>2, <2>1, CounterStep DEF InvalidateFails
<1>3. CASE gen' = gen + 1 /\ gen < MaxWrites
           /\ floor' = [floor EXCEPT ![epoch][gen + 1] = announced]
  BY <1>1, <1>3, CounterIncremented DEF InvalidateFails
<1>4. QED
  BY <1>2, <1>3 DEF InvalidateFails

(* A commit of prices, by a writer or by the seed script, only makes later   *)
(* matrices newer.                                                           *)
LEMMA PricesCommitted ==
  ASSUME CacheInv,
         prices' \in [Securities -> SUBSET Dates], seed' \in [Loaders -> Loader],
         version' \in 0..MaxWrites, version' >= version,
         unsaid' \subseteq unsaid \cup {version'},
         UNCHANGED <<cacheVars, cov>>
  PROVE  CacheInv'
<1>1. version \in 0..MaxWrites /\ announced \in 0..MaxWrites /\ gen \in 0..MaxWrites
  BY DEF CacheInv, PriceTypeOK
<1>2. PriceTypeOK'
  BY <1>1 DEF CacheInv, PriceTypeOK, cacheVars
<1>3. Counted'
  BY <1>1 DEF CacheInv, Counted, PriceTypeOK, cacheVars
<1>4. KeysFresh'
  BY DEF CacheInv, KeysFresh, KeyFresh, cacheVars
<1>5. QED
  BY <1>1, <1>2, <1>3, <1>4, CounterStep DEF cacheVars

LEMMA SeedFresh ==
  ASSUME CacheInv, NEW l \in Loaders, NEW p,
         \/ SeedBegin(l)
         \/ p \in Points /\ SeedLook(l, p)
         \/ SeedCommit(l)
         \/ SeedLoses(l)
  PROVE  CacheInv'
<1>1. /\ version \in 0..MaxWrites /\ prices \in [Securities -> SUBSET Dates]
      /\ seed \in [Loaders -> Loader]
  BY DEF CacheInv, PriceTypeOK
<1>2. CASE SeedBegin(l)
  <2>1. seed' \in [Loaders -> Loader]
    <3>1. seed[l] \in Loader /\ Seeded \in SUBSET Points
      BY <1>1, PriceAssumption
    <3>2. [seed[l] EXCEPT !.at = "looking", !.todo = Seeded] \in Loader
      BY <3>1 DEF Loader
    <3>3. seed' = [seed EXCEPT ![l] = [seed[l] EXCEPT !.at = "looking", !.todo = Seeded]]
      BY <1>1, <1>2 DEF SeedBegin
    <3>4. QED
      BY <1>1, <3>2, <3>3
  <2>2. QED
    BY <1>1, <1>2, <2>1, PricesCommitted DEF SeedBegin
<1>3. CASE p \in Points /\ SeedLook(l, p)
  <2>1. seed' \in [Loaders -> Loader]
    <3> DEFINE w == [seed[l] EXCEPT
                       !.todo = seed[l].todo \ {p},
                       !.adding = IF Stored(p) THEN seed[l].adding ELSE seed[l].adding \cup {p}]
    <3>1. seed[l] \in Loader
      BY <1>1
    <3>2. w \in Loader
      BY <1>3, <3>1 DEF Loader
    <3>3. seed' = [seed EXCEPT ![l] = w]
      BY <1>1, <1>3 DEF SeedLook
    <3>4. QED
      BY <1>1, <3>2, <3>3
  <2>2. QED
    BY <1>1, <1>3, <2>1, PricesCommitted DEF SeedLook
<1>4. CASE SeedCommit(l)
  <2>1. seed' \in [Loaders -> Loader]
    BY <1>1, <1>4 DEF SeedCommit, Loader
  <2>2. prices' \in [Securities -> SUBSET Dates]
    BY <1>1, <1>4 DEF SeedCommit
  <2>3. QED
    BY <1>1, <1>4, <2>1, <2>2, PriceAssumption, PricesCommitted DEF SeedCommit
<1>5. CASE SeedLoses(l)
  <2>1. seed' \in [Loaders -> Loader]
    BY <1>1, <1>5 DEF SeedLoses, Loader
  <2>2. QED
    BY <1>1, <1>5, <2>1, PricesCommitted DEF SeedLoses
<1>6. QED
  BY <1>2, <1>3, <1>4, <1>5

LEMMA WriteFresh ==
  ASSUME CacheInv, NEW s \in Securities, NEW d \in Dates, WritePrice(s, d)
  PROVE  CacheInv'
<1>1. /\ version \in 0..MaxWrites /\ prices \in [Securities -> SUBSET Dates]
      /\ seed \in [Loaders -> Loader]
  BY DEF CacheInv, PriceTypeOK
<1>2. prices' \in [Securities -> SUBSET Dates]
  BY <1>1 DEF WritePrice
<1>3. QED
  BY <1>1, <1>2, PriceAssumption, PricesCommitted DEF WritePrice

-----------------------------------------------------------------------------
(* The cache begins fresh and every step of it keeps it so.                  *)
LEMMA InitFresh == PriceInit => CacheInv
<1> SUFFICES ASSUME PriceInit PROVE CacheInv
  OBVIOUS
<1>1. PriceTypeOK
  BY PriceAssumption DEF PriceInit, PriceTypeOK, Reader, Loader, Matrix, NoMatrix
<1>2. Counted /\ KeysFresh
  BY PriceAssumption DEF PriceInit, Counted, KeysFresh
<1>3. \A r \in Readers : CallFresh(r)
  BY DEF PriceInit, CallFresh
<1>4. QED
  BY <1>1, <1>2, <1>3 DEF CacheInv

LEMMA NextFresh == CacheInv /\ [PriceNext]_priceVars => CacheInv'
<1> SUFFICES ASSUME CacheInv, [PriceNext]_priceVars PROVE CacheInv'
  OBVIOUS
<1>1. CASE UNCHANGED priceVars
  BY <1>1 DEF priceVars, cacheVars, CacheInv, PriceTypeOK, Counted, KeysFresh, KeyFresh,
              CallFresh, Keyed, Fresh
<1>2. CASE CacheNext
  BY <1>2, BeginFresh, HitFresh, MissFresh, DegradeFresh, ComputeFresh, StoreFresh,
     ExpireFresh, RestartFresh, WriteFresh, InvalidateFresh, InvalidateFailsFresh
     DEF CacheNext
<1>3. CASE SeedNext
  BY <1>3, SeedFresh DEF SeedNext
<1>4. QED
  BY <1>1, <1>2, <1>3 DEF PriceNext

-----------------------------------------------------------------------------
(* The dashboard's figures.  What a SELECT returns is finite, and its amounts *)
(* are natural numbers.                                                      *)
TablesOK == accounts \in [Accounts -> Account \cup {NoAccount}]

LEMMA OpenedAccounts ==
  ASSUME TablesOK
  PROVE  /\ Opened \subseteq Accounts /\ IsFiniteSet(Opened)
         /\ \A a \in Opened : /\ accounts[a] \in Account
                              /\ accounts[a].cash \in Nat /\ accounts[a].held \in Nat
<1>1. Opened \subseteq Accounts
  BY DEF Opened
<1>2. \A a \in Opened : accounts[a] \in Account
  BY DEF Opened, TablesOK
<1>3. IsFiniteSet(Opened)
  BY <1>1, FS_Subset, DashboardAssumption
<1> QED
  BY <1>1, <1>2, <1>3, DashboardAssumption DEF Account

LEMMA TableRows ==
  ASSUME TablesOK, NEW A \in SUBSET Opened
  PROVE  /\ IsFiniteSet(Cash(A)) /\ IsFiniteSet(Held(A))
         /\ \A x \in Cash(A) \cup Held(A) : x.amount \in Nat
<1>1. IsFiniteSet(A)
  BY OpenedAccounts, FS_Subset
<1>2. IsFiniteSet(Cash(A))
  <2> DEFINE f == [a \in A |-> [of |-> a, amount |-> accounts[a].cash,
                                currency |-> accounts[a].currency, on |-> AsOf]]
  <2>1. f \in Surjection(A, Cash(A))
    BY DEF Surjection, Cash
  <2> QED
    BY <1>1, <2>1, FS_Surjection
<1>3. IsFiniteSet(Held(A))
  <2> DEFINE B == {b \in A : accounts[b].held > 0}
             f == [a \in B |-> [of |-> a, amount |-> accounts[a].held,
                                currency |-> ListedIn, on |-> AsOf]]
  <2>1. f \in Surjection(B, Held(A))
    BY DEF Surjection, Held
  <2>2. IsFiniteSet(B)
    BY <1>1, FS_Subset
  <2> QED
    BY <2>1, <2>2, FS_Surjection
<1>4. \A x \in Cash(A) : x.amount \in Nat
  BY OpenedAccounts DEF Cash
<1>5. \A x \in Held(A) : x.amount \in Nat
  BY OpenedAccounts DEF Held
<1> QED
  BY <1>2, <1>3, <1>4, <1>5

LEMMA BalanceRows ==
  ASSUME DashTypeOK, NEW A \in SUBSET Opened
  PROVE  /\ IsFiniteSet(Cash(A)) /\ IsFiniteSet(Held(A))
         /\ \A x \in Cash(A) \cup Held(A) : x.amount \in Nat
<1>1. TablesOK
  BY DEF DashTypeOK, TablesOK
<1> QED
  BY <1>1, TableRows

Statements == {"cash", "held", "income", "expenses", "liquid", "investable cash",
               "investable held"}

LEMMA RowsType ==
  ASSUME DashTypeOK, NEW statement \in Statements, NEW months
  PROVE  /\ IsFiniteSet(Rows(statement, months))
         /\ \A x \in Rows(statement, months) : x.amount \in Nat
<1>1. \A kind : /\ IsFiniteSet(Entered(kind, months))
                /\ \A x \in Entered(kind, months) : x.amount \in Nat
  <2>1. \A kind : Entered(kind, months) \subseteq Flows
    BY DEF Entered, DashTypeOK
  <2> QED
    BY <2>1, FS_Subset, DashboardAssumption
<1>2. CashAccounts \subseteq Opened /\ Unlocked \subseteq Opened
  BY DEF CashAccounts, Unlocked
<1>3. CASE statement \in {"income", "expenses"}
  BY <1>1, <1>3 DEF Rows
<1>4. CASE statement \in {"cash", "held"}
  BY <1>4, BalanceRows DEF Rows
<1>5. CASE statement \in {"liquid", "investable cash", "investable held"}
  BY <1>2, <1>5, BalanceRows DEF Rows
<1> QED
  BY <1>3, <1>4, <1>5 DEF Statements

(* Among finitely many rates one is the latest: dates are totally ordered.   *)
LEMMA Ordered ==
  ASSUME NEW d \in Day, NEW e \in Day, NEW f \in Day
  PROVE  /\ UpTo(d, e) \/ UpTo(e, d)
         /\ UpTo(d, e) /\ UpTo(e, f) => UpTo(d, f)
         /\ UpTo(d, d)
BY DEF UpTo, Day

LEMMA LatestRate ==
  ASSUME NEW S \in SUBSET FxRates, S # {}
  PROVE  Latest(S) \in 1..Unit
<1> DEFINE Has(T) == \E x \in T : \A y \in T : UpTo(y.on, x.on)
           A == {n \in Nat : \A T \in SUBSET S : Cardinality(T) = n + 1 => Has(T)}
<1>0. \A T \in SUBSET S : IsFiniteSet(T) /\ Cardinality(T) \in Nat
                          /\ \A x \in T : x.on \in Day
  BY FS_Subset, FS_CardinalityType, DashboardAssumption
<1>1. 0 \in A
  <2> SUFFICES ASSUME NEW T \in SUBSET S, Cardinality(T) = 1 PROVE Has(T)
    OBVIOUS
  <2>1. PICK x : T = {x}
    BY <1>0, FS_Singleton
  <2> QED
    BY <1>0, <2>1, Ordered
<1>2. ASSUME NEW n \in Nat, n \in A PROVE n + 1 \in A
  <2> SUFFICES ASSUME NEW T \in SUBSET S, Cardinality(T) = n + 1 + 1 PROVE Has(T)
    OBVIOUS
  <2>1. T # {}
    BY FS_EmptySet
  <2>2. PICK x \in T : TRUE
    BY <2>1
  <2>3. PICK U : U = T \ {x}
    OBVIOUS
  <2>4. Cardinality(U) = n + 1
    BY <1>0, <2>2, <2>3, FS_RemoveElement
  <2>5. PICK y \in U : \A z \in U : UpTo(z.on, y.on)
    BY <1>2, <2>3, <2>4
  <2>6. \A z \in T : z \in U \/ z = x
    BY <2>3
  <2>7. y \in T
    BY <2>3
  <2>8. CASE UpTo(x.on, y.on)
    BY <2>5, <2>6, <2>7, <2>8
  <2>9. CASE UpTo(y.on, x.on)
    <3>1. \A z \in U : UpTo(z.on, x.on)
      BY <1>0, <2>2, <2>3, <2>5, <2>7, <2>9, Ordered
    <3>2. UpTo(x.on, x.on)
      BY <1>0, <2>2, Ordered
    <3> QED
      BY <2>2, <2>6, <3>1, <3>2
  <2> QED
    BY <1>0, <2>2, <2>7, <2>8, <2>9, Ordered
<1>3. Nat \subseteq A
  <2> HIDE DEF A
  <2> QED
    BY <1>1, <1>2, Counting
<1>4. Has(S)
  <2>1. Cardinality(S) \in Nat /\ Cardinality(S) # 0
    BY <1>0, FS_EmptySet
  <2>2. Cardinality(S) - 1 \in Nat
    BY <2>1
  <2>3. Cardinality(S) - 1 \in A
    BY <1>3, <2>2
  <2> QED
    BY <2>1, <2>3
<1>5. PICK x \in S : x = CHOOSE z \in S : \A y \in S : UpTo(y.on, z.on)
  BY <1>4
<1> QED
  BY <1>5, DashboardAssumption DEF Latest

(* What can be converted is a natural number of the base currency's units.   *)
LEMMA ConvertType ==
  ASSUME NEW n \in Nat, NEW f, NEW d, Convertible(f, d)
  PROVE  Convert(n, f, d) \in Nat
<1>1. Unit \in Nat /\ n * Unit \in Nat
  BY DashboardAssumption
<1>2. CASE f = Base
  BY <1>1, <1>2 DEF Convert
<1>3. CASE f # Base /\ Rates(f, Base, d) # {}
  <2>1. PICK k \in 1..Unit : k = Latest(Rates(f, Base, d))
    BY <1>3, LatestRate DEF Rates
  <2>2. (n * Unit) * k \in Nat
    BY <1>1, <2>1
  <2> QED
    BY <1>3, <2>1, <2>2 DEF Convert
<1>4. CASE f # Base /\ Rates(f, Base, d) = {}
  <2>1. PICK k \in 1..Unit : k = Latest(Rates(Base, f, d))
    BY <1>4, LatestRate DEF Rates, Convertible
  <2>2. PICK m \in Nat : m = n * Unit
    BY <1>1
  <2>3. m \div k \in Nat
    BY <2>1
  <2> QED
    BY <1>4, <2>1, <2>2, <2>3 DEF Convert
<1> QED
  BY <1>2, <1>3, <1>4

LEMMA TotalType ==
  ASSUME NEW R, IsFiniteSet(R), AllConvertible(R), \A x \in R : x.amount \in Nat
  PROVE  /\ Total(R) \in Nat
         /\ \A x \in R : Converted(R)[x] = Convert(x.amount, x.currency, x.on)
                         /\ Converted(R)[x] \in Nat
<1>1. \A x \in R : Converted(R)[x] = Convert(x.amount, x.currency, x.on)
  BY DEF Converted
<1>2. \A x \in R : Converted(R)[x] \in Nat
  BY <1>1, ConvertType DEF AllConvertible
<1>3. PICK w : w = Converted(R)
  OBVIOUS
<1>4. SumFunctionOnSet(w, R) \in Nat
  BY <1>2, <1>3, SumType
<1> QED
  BY <1>1, <1>2, <1>3, <1>4 DEF Total

LEMMA TotalMonotone ==
  ASSUME NEW R, IsFiniteSet(R), AllConvertible(R), \A x \in R : x.amount \in Nat,
         NEW Q \in SUBSET R
  PROVE  Total(Q) <= Total(R)
<1>1. IsFiniteSet(Q) /\ AllConvertible(Q)
  BY FS_Subset DEF AllConvertible
<1>2. PICK w : w = Converted(R)
  OBVIOUS
<1>3. PICK v : v = Converted(Q)
  OBVIOUS
<1>4. \A x \in R : w[x] = Convert(x.amount, x.currency, x.on) /\ w[x] \in Nat
  BY <1>2, TotalType
<1>5. \A x \in Q : v[x] = w[x]
  BY <1>3, <1>4 DEF Converted
<1>6. SumFunctionOnSet(v, Q) = SumFunctionOnSet(w, Q)
  BY <1>1, <1>5, SumSame
<1>7. SumFunctionOnSet(w, Q) <= SumFunctionOnSet(w, R)
  BY <1>4, SumMonotone
<1> QED
  BY <1>2, <1>3, <1>6, <1>7 DEF Total

(* A concatenation, index by index.                                          *)
LEMMA Joined ==
  ASSUME NEW S, NEW s \in Seq(S), NEW t \in Seq(S)
  PROVE  /\ s \o t \in Seq(S) /\ Len(s \o t) = Len(s) + Len(t)
         /\ \A i \in 1..Len(s) : (s \o t)[i] = s[i]
         /\ \A i \in 1..Len(t) : (s \o t)[Len(s) + i] = t[i]
<1>1. PICK u : u = s \o t
  OBVIOUS
<1>2. u \in Seq(S) /\ Len(u) = Len(s) + Len(t)
  BY <1>1, ConcatProperties
<1>3. \A i \in 1..(Len(s) + Len(t)) : u[i] = IF i <= Len(s) THEN s[i] ELSE t[i - Len(s)]
  BY <1>1, ConcatProperties, Zenon
<1>4. Len(s) \in Nat /\ Len(t) \in Nat
  OBVIOUS
<1>5. ASSUME NEW i \in 1..Len(t) PROVE u[Len(s) + i] = t[i]
  <2>1. Len(s) + i \in 1..(Len(s) + Len(t)) /\ ~(Len(s) + i <= Len(s)) /\ (Len(s) + i) - Len(s) = i
    BY <1>4
  <2> QED
    BY <1>3, <2>1
<1>6. ASSUME NEW i \in 1..Len(s) PROVE u[i] = s[i]
  <2>1. i \in 1..(Len(s) + Len(t)) /\ i <= Len(s)
    BY <1>4
  <2> QED
    BY <1>3, <2>1
<1> QED
  BY <1>1, <1>2, <1>5, <1>6, Zenon

LEMMA CashflowType == Cashflow \in Seq(Statements) /\ Len(Cashflow) = 5
  BY DEF Cashflow, Statements

(* Statement by statement, what the endpoints read.                          *)
LEMMA Plans ==
  ASSUME NEW k \in DOMAIN Plan
  PROVE  /\ Plan[k] \in Seq(Statements) /\ Len(Plan[k]) \in Nat
         /\ \A i \in 1..Len(Plan[k]) : Plan[k][i] \in Statements
         /\ k \in Valued => Len(Plan[k]) >= 2 /\ Plan[k][1] = "cash" /\ Plan[k][2] = "held"
         /\ k \in Projected =>
              \E m \in Nat : /\ Len(Plan[k]) = m + 5
                             /\ \A i \in 1..5 : Plan[k][m + i] = Cashflow[i]
<1>1. /\ Position \in Seq(Statements) /\ Len(Position) = 2
      /\ Position[1] = "cash" /\ Position[2] = "held"
  BY DEF Position, Statements
<1>2. Cashflow \in Seq(Statements) /\ Len(Cashflow) = 5
  BY CashflowType
<1>3. ASSUME NEW s \in Seq(Statements), Len(s) >= 2, s[1] = "cash", s[2] = "held",
             NEW t \in Seq(Statements)
      PROVE  /\ s \o t \in Seq(Statements) /\ Len(s \o t) = Len(s) + Len(t)
             /\ (s \o t)[1] = "cash" /\ (s \o t)[2] = "held"
             /\ \A i \in 1..Len(t) : (s \o t)[Len(s) + i] = t[i]
  <2>1. /\ s \o t \in Seq(Statements) /\ Len(s \o t) = Len(s) + Len(t)
        /\ \A i \in 1..Len(s) : (s \o t)[i] = s[i]
        /\ \A i \in 1..Len(t) : (s \o t)[Len(s) + i] = t[i]
    BY Joined
  <2>2. 1 \in 1..Len(s) /\ 2 \in 1..Len(s)
    BY <1>3
  <2> QED
    BY <1>3, <2>1, <2>2, Zenon
<1>4. 2 >= 2 /\ 4 >= 2 /\ 2 + 2 = 4 /\ 9 >= 2 /\ 7 >= 2 /\ 4 + 5 = 9 /\ 2 + 5 = 7
      /\ 2 \in Nat /\ 4 \in Nat
  OBVIOUS
<1>5. PICK four : four = Position \o Position
  OBVIOUS
<1>6. four \in Seq(Statements) /\ Len(four) = 4 /\ four[1] = "cash" /\ four[2] = "held"
  <2>1. Len(Position) >= 2
    BY <1>1, <1>4, Zenon
  <2>2. /\ four \in Seq(Statements) /\ Len(four) = Len(Position) + Len(Position)
        /\ four[1] = "cash" /\ four[2] = "held"
    BY <1>1, <1>3, <1>5, <2>1, Zenon
  <2> QED
    BY <1>1, <1>4, <2>2, Zenon
<1>7. ASSUME NEW s \in Seq(Statements), Len(s) >= 2, s[1] = "cash", s[2] = "held",
             NEW p, p = s \o Cashflow
      PROVE  /\ p \in Seq(Statements) /\ p[1] = "cash" /\ p[2] = "held"
             /\ Len(p) = Len(s) + 5 /\ \A i \in 1..5 : p[Len(s) + i] = Cashflow[i]
  <2>1. /\ p \in Seq(Statements) /\ Len(p) = Len(s) + Len(Cashflow)
        /\ p[1] = "cash" /\ p[2] = "held"
        /\ \A i \in 1..Len(Cashflow) : p[Len(s) + i] = Cashflow[i]
    BY <1>2, <1>3, <1>7, Zenon
  <2> QED
    BY <1>2, <2>1, Zenon
<1>8. /\ Plan["networth"] = Position /\ Plan["allocation"] = Position
      /\ Plan["expenses"] = <<"expenses">> /\ Plan["cashflow"] = Cashflow
      /\ Plan["chat"] = four \o Cashflow /\ Plan["bot"] = Position \o Cashflow
      /\ DOMAIN Plan = {"networth", "allocation", "expenses", "cashflow", "chat", "bot"}
  BY <1>5 DEF Plan, ChatSummary, BotSummary
<1>9. ASSUME NEW s \in Seq(Statements)
       PROVE  Len(s) \in Nat /\ \A i \in 1..Len(s) : s[i] \in Statements
  OBVIOUS
<1>10. SUFFICES
         /\ Plan[k] \in Seq(Statements)
         /\ k \in Valued => Len(Plan[k]) >= 2 /\ Plan[k][1] = "cash" /\ Plan[k][2] = "held"
         /\ k \in Projected =>
              \E m \in Nat : /\ Len(Plan[k]) = m + 5
                             /\ \A i \in 1..5 : Plan[k][m + i] = Cashflow[i]
  BY <1>9, Zenon
<1>11. CASE k \in {"networth", "allocation"}
  <2>1. Plan[k] = Position /\ k \notin Projected
    BY <1>8, <1>11 DEF Projected
  <2>2. 2 >= 2
    OBVIOUS
  <2> QED
    BY <1>1, <2>1, <2>2, Zenon
<1>12. CASE k = "expenses"
  <2>1. Plan[k] = <<"expenses">> /\ k \notin Valued /\ k \notin Projected
    BY <1>8, <1>12 DEF Valued, Projected
  <2> QED
    BY <2>1 DEF Statements
<1>13. CASE k = "cashflow"
  <2>1. Plan[k] = Cashflow /\ k \notin Valued
    BY <1>8, <1>13 DEF Valued
  <2>2. 0 \in Nat /\ 5 = 0 + 5 /\ \A i \in 1..5 : 0 + i = i
    OBVIOUS
  <2>3. Len(Plan[k]) = 0 + 5 /\ \A i \in 1..5 : Plan[k][0 + i] = Cashflow[i]
    BY <1>2, <2>1, <2>2, Zenon
  <2> QED
    BY <1>2, <2>1, <2>2, <2>3, Zenon
<1>14. CASE k = "chat"
  <2>1. Plan[k] = four \o Cashflow /\ Len(four) >= 2
    BY <1>4, <1>6, <1>8, <1>14
  <2>2. /\ Plan[k] \in Seq(Statements) /\ Plan[k][1] = "cash" /\ Plan[k][2] = "held"
        /\ Len(Plan[k]) = 4 + 5 /\ \A i \in 1..5 : Plan[k][4 + i] = Cashflow[i]
    BY <1>6, <1>7, <2>1, Zenon
  <2> QED
    BY <1>4, <2>2, Zenon
<1>15. CASE k = "bot"
  <2>1. Plan[k] = Position \o Cashflow /\ Len(Position) >= 2
    BY <1>1, <1>4, <1>8, <1>15, Zenon
  <2>2. /\ Plan[k] \in Seq(Statements) /\ Plan[k][1] = "cash" /\ Plan[k][2] = "held"
        /\ Len(Plan[k]) = 2 + 5 /\ \A i \in 1..5 : Plan[k][2 + i] = Cashflow[i]
    BY <1>1, <1>7, <2>1, Zenon
  <2> QED
    BY <1>4, <2>2, Zenon
<1> QED
  BY <1>8, <1>11, <1>12, <1>13, <1>14, <1>15

(* A request that has begun carries a record of its own type.                *)
Asked == [at : {"reading", "answered", "refused", "error"}, kind : DOMAIN Plan,
          asked : Parameters, got : Seq(Nat), years : Years, moments : SUBSET Nat,
          between : 0..MaxCommits, closed : BOOLEAN, quiet : BOOLEAN]

LEMMA AskedType ==
  ASSUME DashTypeOK, NEW q \in Queries
  PROVE  /\ dash[q] \in Query
         /\ dash[q].at # "idle" => dash[q] \in Asked
         /\ \A w \in Asked : w \in Query
BY DEF DashTypeOK, Query, Asked

(* What the properties say of a request depends on nothing else.             *)
LEMMA QueryKept ==
  ASSUME NEW p \in Queries, dash'[p] = dash[p]
  PROVE  /\ FiguresAgree!(p) => FiguresAgree!(p)'
         /\ NetWorthOfAMoment!(p) => NetWorthOfAMoment!(p)'
<1>1. /\ Figure(p, "expenses")' = Figure(p, "expenses")
      /\ Figure(p, "liquid")' = Figure(p, "liquid")
      /\ Figure(p, "investable cash")' = Figure(p, "investable cash")
      /\ Figure(p, "investable held")' = Figure(p, "investable held")
  BY DEF Figure
<1>2. Investable(p)' = Investable(p) /\ FiNumber(p)' = FiNumber(p)
  BY <1>1, Zenon DEF Investable, FiNumber
<1>3. Assets(p)' = Assets(p)
  BY <1>2, Zenon DEF Assets
<1>4. /\ Scaled(p, Assets(p))' = Scaled(p, Assets(p))
      /\ Scaled(p, Figure(p, "liquid"))' = Scaled(p, Figure(p, "liquid"))
  BY <1>1, <1>3, Zenon DEF Scaled
<1>5. /\ Exceeds(FiNumber(p), Scaled(p, Assets(p)))'
           = Exceeds(FiNumber(p), Scaled(p, Assets(p)))
      /\ Exceeds(Scaled(p, Figure(p, "liquid")), FiNumber(p))'
           = Exceeds(Scaled(p, Figure(p, "liquid")), FiNumber(p))
  BY <1>2, <1>4, Zenon DEF Exceeds
<1>6. FiguresAgree!(p) => FiguresAgree!(p)'
  BY <1>1, <1>2, <1>3, <1>5, Zenon
<1> QED
  BY <1>6

(* What SELECTs return depends on the two tables only.                       *)
LEMMA SameRows ==
  ASSUME UNCHANGED <<accounts, flows>>
  PROVE  /\ \A s, m : Rows(s, m)' = Rows(s, m)
         /\ Cash(Opened)' = Cash(Opened) /\ Held(Opened)' = Held(Opened) /\ Worth' = Worth
BY DEF Rows, Cash, Held, Entered, Opened, CashAccounts, Unlocked, Worth

(* A step of one request leaves the others as they are.                      *)
LEMMA QueryStep ==
  ASSUME DashInv, NEW q \in Queries, NEW w \in Query,
         dash' = [dash EXCEPT ![q] = w], UNCHANGED <<accounts, flows, commits>>,
         w.at = "reading" => Progress(q)',
         w.at = "answered" => FiguresAgree!(q)' /\ NetWorthOfAMoment!(q)'
  PROVE  DashInv'
<1>1. DashTypeOK'
  BY DEF DashInv, DashTypeOK
<1>2. dash'[q] = w /\ \A p \in Queries \ {q} : dash'[p] = dash[p]
  BY DEF DashInv, DashTypeOK
<1>3. ASSUME NEW p \in Queries
      PROVE  /\ dash'[p].at = "reading" => Progress(p)'
             /\ FiguresAgree!(p)' /\ NetWorthOfAMoment!(p)'
  <2>1. CASE p = q
    BY <1>2, <2>1
  <2>2. CASE p # q
    <3>1. dash'[p] = dash[p]
      BY <1>2, <2>2
    <3>2. FiguresAgree!(p)' /\ NetWorthOfAMoment!(p)'
      BY <3>1, QueryKept DEF DashInv, FiguresAgree, NetWorthOfAMoment
    <3>3. dash[p].at = "reading" => Progress(p)'
      BY <3>1, SameRows DEF DashInv, Progress, Undisturbed, ReadAt, HalfRead, Torn
    <3> QED
      BY <3>1, <3>2, <3>3
  <2> QED
    BY <2>1, <2>2
<1> QED
  BY <1>1, <1>3 DEF DashInv, FiguresAgree, NetWorthOfAMoment

LEMMA AskKeeps ==
  ASSUME DashInv, NEW q \in Queries, NEW k \in DOMAIN Plan, NEW x \in Parameters, Ask(q, k, x)
  PROVE  DashInv'
<1> DEFINE w == [at |-> IF x.months <= 0 THEN "refused"
                        ELSE IF k = "cashflow" /\ MonthsBack(AsOf, x.months)[1] < 1
                             THEN "error" ELSE "reading",
                 kind |-> k, asked |-> x, got |-> <<>>, years |-> "none",
                 moments |-> {}, between |-> 0, closed |-> FALSE, quiet |-> TRUE]
<1>0. MaxCommits \in Nat /\ x.months \in Int /\ commits \in 0..MaxCommits
  BY DashboardAssumption DEF DashInv, DashTypeOK
<1>1. w \in Asked
  BY <1>0 DEF Asked, Years
<1>2. dash' = [dash EXCEPT ![q] = w] /\ UNCHANGED <<accounts, flows, commits>>
  BY DEF Ask
<1>3. dash'[q] = w
  BY <1>2 DEF DashInv, DashTypeOK
<1>4. Len(Plan[k]) \in Nat
  BY Plans
<1>5. w.at = "reading" => Progress(q)'
  <2>1. /\ w.at = "reading" => x.months > 0
        /\ w.asked = x /\ w.kind = k /\ w.got = <<>> /\ w.between = 0
    BY <1>0
  <2> HIDE DEF w
  <2>2. /\ dash'[q].asked = x /\ dash'[q].kind = k /\ dash'[q].got = <<>>
        /\ dash'[q].between = 0 /\ commits' \in Nat
    BY <1>0, <1>2, <1>3, <2>1
  <2>3. DOMAIN dash'[q].got = {} /\ Len(dash'[q].got) = 0
    BY <2>2
  <2>4. Undisturbed(q)'
    BY <2>3 DEF Undisturbed
  <2> QED
    BY <1>4, <2>1, <2>2, <2>3, <2>4 DEF Progress
<1>6. w \in Query /\ w.at # "answered"
  BY <1>1 DEF Asked, Query
<1> HIDE DEF w
<1> QED
  BY <1>2, <1>5, <1>6, QueryStep

(* A net worth in the making is a moment's when its second half is read.     *)
LEMMA ReadKeeps ==
  ASSUME DashInv, NEW q \in Queries, Read(q)
  PROVE  DashInv'
<1>1. DashTypeOK /\ dash[q].at = "reading" /\ dash[q] \in Asked /\ Progress(q)
  BY AskedType DEF DashInv, Read, Reading
<1>2. PICK n \in Nat : n = Len(dash[q].got) + 1
  BY <1>1 DEF Asked
<1>3. PICK k \in DOMAIN Plan : k = dash[q].kind
  BY <1>1 DEF Asked
<1>4. n \in 1..Len(Plan[k]) /\ Plan[k][n] \in Statements
  BY <1>1, <1>2, <1>3, Plans DEF Read, Reading, Asked
<1>5. PICK R : R = Rows(Plan[k][n], dash[q].asked.months)
  OBVIOUS
<1>6. AllConvertible(R) /\ Total(R) \in Nat
  <2>1. AllConvertible(R)
    BY <1>2, <1>3, <1>5 DEF Read, Result
  <2> QED
    BY <1>1, <1>4, <1>5, <2>1, RowsType, TotalType
<1>7. PICK t \in Nat : t = Total(R)
  BY <1>6
<1>8. Worth \subseteq Nat
  <2>1. AllConvertible(Cash(Opened) \cup Held(Opened)) =>
          AllConvertible(Cash(Opened)) /\ AllConvertible(Held(Opened))
    BY DEF AllConvertible
  <2>2. AllConvertible(Cash(Opened)) => Total(Cash(Opened)) \in Nat
    BY <1>1, BalanceRows, TotalType
  <2>3. AllConvertible(Held(Opened)) => Total(Held(Opened)) \in Nat
    BY <1>1, BalanceRows, TotalType
  <2> QED
    BY <2>1, <2>2, <2>3 DEF Worth
<1>9. PICK m : m = IF n < 3 THEN dash[q].moments \cup Worth ELSE dash[q].moments
  OBVIOUS
<1>10. PICK g : g = Append(dash[q].got, t)
  OBVIOUS
<1>11. /\ g \in Seq(Nat) /\ Len(g) = n /\ g[n] = t
       /\ \A i \in 1..(n - 1) : g[i] = dash[q].got[i]
       /\ DOMAIN g = 1..n /\ DOMAIN dash[q].got = 1..(n - 1)
  BY <1>1, <1>2, <1>10 DEF Asked
<1>20. Len(dash[q].got) = n - 1
  BY <1>1, <1>2 DEF Asked
<1> DEFINE w == [dash[q] EXCEPT !.got = g, !.moments = m]
<1>12. /\ w \in Asked /\ w.at = "reading" /\ w.kind = k /\ w.asked = dash[q].asked
       /\ w.got = g /\ w.moments = m /\ w.between = dash[q].between
       /\ w.closed = dash[q].closed /\ w.quiet = dash[q].quiet
  BY <1>1, <1>3, <1>8, <1>9, <1>11 DEF Asked
<1>13. dash' = [dash EXCEPT ![q] = w] /\ UNCHANGED <<accounts, flows, commits>>
  <2>1. (Len(dash[q].got) < 2) = (n < 3)
    BY <1>1, <1>2 DEF Asked
  <2> QED
    BY <1>2, <1>3, <1>5, <1>7, <1>9, <1>10, <2>1 DEF Read, Result
<1> HIDE DEF w
<1>14. dash'[q] = w
  BY <1>1, <1>13 DEF DashTypeOK
<1>15. w.quiet => Undisturbed(q)'
  <2> SUFFICES ASSUME w.quiet, NEW i \in 1..n
               PROVE  /\ AllConvertible(Rows(Plan[k][i], w.asked.months))
                      /\ g[i] = Total(Rows(Plan[k][i], w.asked.months))
    BY <1>11, <1>12, <1>13, <1>14, SameRows DEF Undisturbed, ReadAt
  <2>1. CASE i = n
    BY <1>5, <1>6, <1>7, <1>11, <1>12, <2>1
  <2>2. CASE i # n
    <3>1. i \in 1..(n - 1)
      BY <2>2
    <3> QED
      BY <1>1, <1>3, <1>11, <1>12, <3>1 DEF Progress, Undisturbed, ReadAt
  <2> QED
    BY <2>1, <2>2
<1>16. ASSUME k \in Valued, ~Torn(q), n = 1
       PROVE  HalfRead(q)'
  <2>1. R = Cash(Opened)
    BY <1>5, <1>16, Plans DEF Rows
  <2> QED
    BY <1>6, <1>7, <1>9, <1>11, <1>12, <1>13, <1>14, <1>16, <2>1, SameRows DEF HalfRead
<1>17. ASSUME k \in Valued, ~Torn(q), n > 1
       PROVE  g[1] + g[2] \in m
  <2>1. CASE n = 2
    <3>1. R = Held(Opened)
      BY <1>5, <2>1, <1>17, Plans DEF Rows
    <3>2. HalfRead(q)
      <4>1. Len(dash[q].got) = 1 /\ dash[q].kind \in Valued
        BY <1>3, <1>17, <1>20, <2>1
      <4> QED
        BY <1>1, <1>17, <4>1 DEF Progress
    <3>5. g[1] = dash[q].got[1] /\ g[2] = t
      BY <1>11, <2>1
    <3>3. CASE AllConvertible(Cash(Opened)) /\ dash[q].got[1] = Total(Cash(Opened))
      <4>1. AllConvertible(Cash(Opened) \cup Held(Opened))
        BY <1>6, <3>1, <3>3 DEF AllConvertible
      <4>2. Worth = {Total(Cash(Opened)) + Total(Held(Opened))}
        BY <4>1 DEF Worth
      <4> QED
        BY <1>7, <1>9, <2>1, <3>1, <3>3, <3>5, <4>2
    <3>4. CASE dash[q].got[1] + Total(Held(Opened)) \in dash[q].moments
      BY <1>7, <1>9, <3>1, <3>4, <3>5
    <3> QED
      BY <1>6, <3>1, <3>2, <3>3, <3>4 DEF HalfRead
  <2>2. CASE n > 2
    <3>1. dash[q].got[1] + dash[q].got[2] \in dash[q].moments
      <4>1. Len(dash[q].got) > 1 /\ dash[q].kind \in Valued
        BY <1>3, <1>17, <1>20, <2>2
      <4> QED
        BY <1>1, <1>17, <4>1 DEF Progress
    <3>2. g[1] = dash[q].got[1] /\ g[2] = dash[q].got[2]
      <4>1. 1 \in 1..(n - 1) /\ 2 \in 1..(n - 1)
        BY <2>2
      <4> QED
        BY <1>11, <4>1
    <3> QED
      BY <1>9, <2>2, <3>1, <3>2
  <2> QED
    BY <1>17, <2>1, <2>2
<1>18. Progress(q)'
  <2>1. Torn(q)' = Torn(q)
    BY <1>12, <1>14 DEF Torn
  <2>2. dash[q].asked.months > 0 /\ dash[q].between <= commits
    BY <1>1 DEF Progress
  <2> QED
    <3>1. /\ dash'[q].asked.months > 0 /\ dash'[q].between <= commits' /\ dash'[q].kind = k
          /\ Len(dash'[q].got) = n /\ n <= Len(Plan[k]) /\ dash'[q].got = g
          /\ dash'[q].moments = m
      BY <1>4, <1>11, <1>12, <1>13, <1>14, <2>2
    <3>2. dash'[q].quiet => Undisturbed(q)'
      BY <1>12, <1>14, <1>15
    <3>3. k \in Valued /\ ~Torn(q)' =>
            (n = 1 => HalfRead(q)') /\ (n > 1 => g[1] + g[2] \in m)
      BY <1>16, <1>17, <2>1
    <3> HIDE DEF Valued
    <3> QED
      BY <3>1, <3>2, <3>3 DEF Progress
<1>19. w \in Query
  BY <1>1, <1>12, AskedType
<1> QED
  BY <1>12, <1>13, <1>18, <1>19, QueryStep

LEMMA NoRateKeeps ==
  ASSUME DashInv, NEW q \in Queries, NoRate(q)
  PROVE  DashInv'
<1>1. DashTypeOK /\ dash[q] \in Asked
  BY AskedType DEF DashInv, NoRate, Reading
<1> DEFINE w == [dash[q] EXCEPT !.at = "refused"]
<1>2. w \in Asked /\ w.at = "refused"
  BY <1>1 DEF Asked
<1>3. w \in Query
  BY <1>1, <1>2, AskedType
<1>4. dash' = [dash EXCEPT ![q] = w] /\ UNCHANGED <<accounts, flows, commits>>
  BY DEF NoRate
<1> HIDE DEF w
<1> QED
  BY <1>2, <1>3, <1>4, QueryStep

-----------------------------------------------------------------------------
(* Of an answer: the figures that the cash-flow engine works on are what its   *)
(* five SELECTs have read.                                                   *)
LEMMA FigureRead ==
  ASSUME DashTypeOK, NEW q \in Queries, dash[q] \in Asked, Progress(q), dash[q].quiet,
         dash[q].kind \in Projected, Len(dash[q].got) = Len(Plan[dash[q].kind]),
         NEW i \in 1..5, NEW R, R = Rows(Cashflow[i], dash[q].asked.months)
  PROVE  AllConvertible(R) /\ Figure(q, Cashflow[i]) = Total(R) /\ Total(R) \in Nat
<1>1. PICK k \in DOMAIN Plan : k = dash[q].kind
  BY DEF Asked
<1>2. PICK m \in Nat : /\ Len(Plan[k]) = m + 5
                       /\ \A j \in 1..5 : Plan[k][m + j] = Cashflow[j]
  BY <1>1, Plans
<1>3. Cashflow[i] \in Statements /\ Len(Cashflow) = 5 /\ DOMAIN Cashflow = 1..5
      /\ \A j \in 1..5 : Cashflow[j] = Cashflow[i] => j = i
  <2>1. /\ Cashflow[1] = "income" /\ Cashflow[2] = "expenses" /\ Cashflow[3] = "liquid"
        /\ Cashflow[4] = "investable cash" /\ Cashflow[5] = "investable held"
    BY DEF Cashflow
  <2>3. Cashflow \in Seq(Statements) /\ Len(Cashflow) = 5
    BY CashflowType
  <2>4. ASSUME NEW s \in Seq(Statements) PROVE DOMAIN s = 1..Len(s)
    OBVIOUS
  <2>5. DOMAIN Cashflow = 1..5
    BY <2>3, <2>4, Zenon
  <2>2. \A j \in 1..5 : j = 1 \/ j = 2 \/ j = 3 \/ j = 4 \/ j = 5
    OBVIOUS
  <2> QED
    BY <2>1, <2>2, <2>3, <2>5 DEF Statements
<1>4. i = CHOOSE n \in DOMAIN Cashflow : Cashflow[n] = Cashflow[i]
  BY <1>3
<1>5. (m + 5) - 5 = m /\ m + i \in 1..(m + 5)
  OBVIOUS
<1>6. Figure(q, Cashflow[i]) = dash[q].got[m + i]
  <2>1. Len(Plan[dash[q].kind]) - Len(Cashflow) = m
    BY <1>1, <1>2, <1>3, <1>5, Zenon
  <2> QED
    BY <1>4, <2>1, Zenon DEF Figure
<1>7. m + i \in DOMAIN dash[q].got
  <2>1. DOMAIN dash[q].got = 1..Len(dash[q].got)
    BY DEF Asked
  <2> QED
    BY <1>1, <1>2, <1>5, <2>1, Zenon
<1>8. R = ReadAt(q, m + i)
  BY <1>1, <1>2, Zenon DEF ReadAt
<1>9. AllConvertible(R) /\ dash[q].got[m + i] = Total(R)
  BY <1>7, <1>8, Zenon DEF Progress, Undisturbed
<1>10. Total(R) \in Nat
  BY <1>3, <1>9, RowsType, TotalType
<1> QED
  BY <1>6, <1>9, <1>10, Zenon

(* What is exceeded beyond the loss of doubles is so by a lesser, and by a    *)
(* greater amount too; and doubles find its sign.                            *)
LEMMA Exceeding ==
  ASSUME NEW a \in Nat, NEW b \in Nat, NEW c \in Nat, Exceeds(a, b)
  PROVE  /\ c <= b => Exceeds(a, c)
         /\ c >= a => Exceeds(c, b)
         /\ Positive(a - b, a + b) = {TRUE}
         /\ Positive(b - a, b + a) = {FALSE}
<1>1. Precision \in Nat /\ Precision > 0
  BY DashboardAssumption
<1>2. a > b /\ Precision * (a - b) >= a + b
  BY DEF Exceeds
<1>3. ASSUME NEW d \in Nat
      PROVE  Precision * d \in Nat /\ Precision * d >= d
  <2>1. PICK n \in Nat : Precision = n + 1
    <3>1. Precision - 1 \in Nat /\ Precision = (Precision - 1) + 1
      BY <1>1
    <3> QED
      BY <3>1
  <2>2. Precision * d = n * d + d /\ n * d \in Nat
    BY <2>1
  <2> QED
    BY <2>2
<1>4. PICK t \in Nat : t = Precision * (a - b)
  <2>1. a - b \in Nat
    BY <1>2
  <2> QED
    BY <1>3, <2>1
<1>5. t >= a + b
  BY <1>2, <1>4
<1>6. ASSUME c <= b
      PROVE  Exceeds(a, c)
  <2>1. PICK d \in Nat : d = b - c
    BY <1>6
  <2>2. Precision * (a - c) = Precision * (a - b) + Precision * d
    BY <1>1, <2>1
  <2>3. PICK u \in Nat : u = Precision * d
    BY <1>3
  <2>4. Precision * (a - c) = t + u
    BY <1>4, <2>2, <2>3
  <2>5. t + u >= a + c /\ a > c
    BY <1>2, <1>5, <1>6
  <2> QED
    BY <2>4, <2>5 DEF Exceeds
<1>7. ASSUME c >= a
      PROVE  Exceeds(c, b)
  <2>1. PICK d \in Nat : d = c - a
    BY <1>7
  <2>2. Precision * (c - b) = Precision * (a - b) + Precision * d
    BY <1>1, <2>1
  <2>3. PICK u \in Nat : u = Precision * d /\ u >= d
    BY <1>3
  <2>4. Precision * (c - b) = t + u
    BY <1>4, <2>2, <2>3
  <2>5. t + u >= c + b /\ c > b
    BY <1>2, <1>5, <1>7, <2>1, <2>3
  <2> QED
    BY <2>4, <2>5 DEF Exceeds
<1>8. Positive(a - b, a + b) = {TRUE}
  <2>1. ~(Precision * (a - b) < a + b) /\ a - b > 0
    BY <1>2, <1>4, <1>5
  <2>2. Positive(a - b, a + b) = {a - b > 0}
    BY <2>1 DEF Positive
  <2> QED
    BY <2>1, <2>2
<1>9. Positive(b - a, b + a) = {FALSE}
  <2>1. Precision * (b - a) = -t
    BY <1>1, <1>4
  <2>2. ~(-(b + a) < Precision * (b - a)) /\ ~(b - a > 0)
    BY <1>2, <1>5, <2>1
  <2>3. Positive(b - a, b + a) = {b - a > 0}
    BY <2>2 DEF Positive
  <2>4. (b - a > 0) = FALSE
    BY <2>2
  <2> QED
    BY <2>3, <2>4, Zenon
<1> QED
  BY <1>6, <1>7, <1>8, <1>9

(* Who is told 0.0 years does not have clearly less than the target, who is   *)
(* told anything else does not have clearly more.                            *)
LEMMA ToldYears ==
  ASSUME NEW pv \in Nat, NEW pmt, NEW r \in Int, NEW target \in Nat,
         NEW y \in YearsFor(pv, pmt, r, target)
  PROVE  /\ y \in Years
         /\ y = "now" => ~Exceeds(target, pv)
         /\ y # "now" => ~Exceeds(pv, target)
<1>1. PICK short : short = Positive(target - pv, target + pv)
  OBVIOUS
<1>2. /\ y \in Years
      /\ y = "now" => FALSE \in short
      /\ y # "now" => TRUE \in short
  BY <1>1, Zenon DEF YearsFor
<1>3. Exceeds(target, pv) => short = {TRUE}
  BY <1>1, Exceeding
<1>4. Exceeds(pv, target) => short = {FALSE}
  BY <1>1, Exceeding
<1> QED
  BY <1>2, <1>3, <1>4, Zenon

(* Scaling keeps the order of amounts.                                       *)
LEMMA ScaledOrder ==
  ASSUME NEW q \in Queries, NEW x \in Parameters, x = dash[q].asked,
         x.months > 0, x.withdrawal > 0, NEW a \in Nat, NEW b \in Nat, a <= b
  PROVE  Scaled(q, a) \in Nat /\ Scaled(q, b) \in Nat /\ Scaled(q, a) <= Scaled(q, b)
<1>1. x.months \in Nat /\ x.withdrawal \in Nat
  BY DashboardAssumption
<1>2. PICK f \in Nat : f = x.months * x.withdrawal
  BY <1>1
<1>3. Scaled(q, a) = a * f /\ Scaled(q, b) = b * f
  BY <1>2 DEF Scaled
<1>4. PICK d \in Nat : b = a + d
  <2>1. b - a \in Nat /\ b = a + (b - a)
    OBVIOUS
  <2> QED
    BY <2>1
<1>5. b * f = a * f + d * f /\ d * f \in Nat /\ a * f \in Nat
  BY <1>4
<1> QED
  BY <1>3, <1>5

LEMMA AnswerAgrees ==
  ASSUME DashTypeOK, NEW q \in Queries, dash[q] \in Asked, Progress(q), dash[q].quiet,
         dash[q].kind \in Projected, Len(dash[q].got) = Len(Plan[dash[q].kind]),
         NEW y \in Outcomes(q), y # "error"
  PROVE  /\ Figure(q, "liquid") <= Investable(q)
         /\ Investable(q) <= Assets(q)
         /\ y = "now" => ~Exceeds(FiNumber(q), Scaled(q, Assets(q)))
         /\ y # "now" => ~Exceeds(Scaled(q, Figure(q, "liquid")), FiNumber(q))
<1> DEFINE months == dash[q].asked.months
<1>1. /\ Cashflow[1] = "income" /\ Cashflow[2] = "expenses" /\ Cashflow[3] = "liquid"
      /\ Cashflow[4] = "investable cash" /\ Cashflow[5] = "investable held"
  BY DEF Cashflow
<1>2. \A i \in 1..5 :
        /\ AllConvertible(Rows(Cashflow[i], months))
        /\ Figure(q, Cashflow[i]) = Total(Rows(Cashflow[i], months))
        /\ Total(Rows(Cashflow[i], months)) \in Nat
  BY FigureRead
<1>3. 1 \in 1..5 /\ 2 \in 1..5 /\ 3 \in 1..5 /\ 4 \in 1..5 /\ 5 \in 1..5
  OBVIOUS
<1>4. /\ Rows("liquid", months) = Cash(CashAccounts)
      /\ Rows("investable cash", months) = Cash(Unlocked)
      /\ Rows("investable held", months) = Held(Unlocked)
      /\ Rows("cash", months) = Cash(Opened) /\ Rows("held", months) = Held(Opened)
  BY DEF Rows
<1>5. PICK liquid \in Nat : liquid = Figure(q, "liquid") /\ liquid = Total(Cash(CashAccounts))
  BY <1>1, <1>2, <1>3, <1>4, Zenon
<1>6. PICK money \in Nat :
        money = Figure(q, "investable cash") /\ money = Total(Cash(Unlocked))
  BY <1>1, <1>2, <1>3, <1>4, Zenon
<1>7. PICK held \in Nat :
        held = Figure(q, "investable held") /\ held = Total(Held(Unlocked))
  BY <1>1, <1>2, <1>3, <1>4, Zenon
<1>8. Investable(q) = money + held
  BY <1>6, <1>7 DEF Investable
<1>9. CashAccounts \subseteq Unlocked /\ Unlocked \subseteq Opened
  BY DEF CashAccounts, Unlocked, Locked
<1>10. /\ Cash(CashAccounts) \subseteq Cash(Unlocked) /\ Cash(Unlocked) \subseteq Cash(Opened)
       /\ Held(Unlocked) \subseteq Held(Opened)
  BY <1>9 DEF Cash, Held
<1>11. liquid <= money
  <2>1. AllConvertible(Cash(Unlocked))
    BY <1>1, <1>2, <1>3, <1>4, Zenon
  <2> QED
    BY <1>5, <1>6, <1>9, <1>10, <2>1, BalanceRows, TotalMonotone
<1>12. ASSUME dash[q].kind # "cashflow"
       PROVE  /\ dash[q].got[1] + dash[q].got[2] \in Nat
              /\ Investable(q) <= dash[q].got[1] + dash[q].got[2]
  <2>1. dash[q].kind \in DOMAIN Plan /\ dash[q].kind \in Valued
    BY <1>12 DEF Asked, Projected, Valued
  <2>2. PICK p : p = Plan[dash[q].kind]
    OBVIOUS
  <2>3. Len(p) \in Nat /\ Len(p) >= 2 /\ p[1] = "cash" /\ p[2] = "held"
    BY <2>1, <2>2, Plans
  <2>4. DOMAIN dash[q].got = 1..Len(p)
    BY <2>2 DEF Asked
  <2>5. 1 \in DOMAIN dash[q].got /\ 2 \in DOMAIN dash[q].got
    BY <2>3, <2>4
  <2>6. ReadAt(q, 1) = Cash(Opened) /\ ReadAt(q, 2) = Held(Opened)
    BY <1>4, <2>2, <2>3, Zenon DEF ReadAt
  <2>7. /\ AllConvertible(Cash(Opened)) /\ dash[q].got[1] = Total(Cash(Opened))
        /\ AllConvertible(Held(Opened)) /\ dash[q].got[2] = Total(Held(Opened))
    BY <2>5, <2>6, Zenon DEF Progress, Undisturbed
  <2>8. PICK a : a = Total(Cash(Opened))
    OBVIOUS
  <2>9. PICK b : b = Total(Held(Opened))
    OBVIOUS
  <2>10. a \in Nat /\ money <= a
    BY <1>6, <1>10, <2>7, <2>8, BalanceRows, TotalType, TotalMonotone
  <2>11. b \in Nat /\ held <= b
    BY <1>7, <1>10, <2>7, <2>9, BalanceRows, TotalType, TotalMonotone
  <2>12. a + b \in Nat /\ money + held <= a + b
    BY <2>10, <2>11
  <2> QED
    BY <1>8, <2>7, <2>8, <2>9, <2>12, Zenon
<1>13. Assets(q) \in Nat /\ Investable(q) <= Assets(q)
  <2>1. Investable(q) \in Nat
    BY <1>8
  <2> QED
    BY <1>12, <2>1 DEF Assets
<1>14. PICK x \in Parameters : x = dash[q].asked
  BY DEF Asked
<1>15. /\ x.months \in Int /\ x.withdrawal \in Int /\ x.real \in Int
       /\ x.months > 0 /\ x.withdrawal > 0
  BY <1>14, DashboardAssumption DEF Progress, Outcomes
<1>16. PICK expenses \in Nat : expenses = Figure(q, "expenses")
  BY <1>1, <1>2, <1>3, Zenon
<1>17. PICK target \in Nat : target = FiNumber(q)
  BY <1>16 DEF FiNumber
<1>18. PICK all \in Nat : all = Assets(q)
  BY <1>13
<1>19. PICK own \in Nat : own = Investable(q)
  BY <1>8
<1>20. liquid <= own /\ own <= all
  BY <1>8, <1>11, <1>13, <1>18, <1>19
<1>21. PICK sl \in Nat, so \in Nat, sa \in Nat :
         /\ sl = Scaled(q, liquid) /\ so = Scaled(q, own) /\ sa = Scaled(q, all)
         /\ sl <= so /\ so <= sa
  <2>1. /\ Scaled(q, liquid) \in Nat /\ Scaled(q, own) \in Nat
        /\ Scaled(q, liquid) <= Scaled(q, own)
    BY <1>14, <1>15, <1>20, ScaledOrder
  <2>2. Scaled(q, all) \in Nat /\ Scaled(q, own) <= Scaled(q, all)
    BY <1>14, <1>15, <1>20, ScaledOrder
  <2> QED
    BY <2>1, <2>2
<1>22. y \in YearsFor(so, Contribution(q), x.real, target)
  <2>1. y \in YearsToFi(q)
    BY <1>14, <1>15 DEF Outcomes
  <2> QED
    BY <1>14, <1>17, <1>19, <1>21, <2>1, Zenon DEF YearsToFi
<1>23. /\ y = "now" => ~Exceeds(target, so)
       /\ y # "now" => ~Exceeds(so, target)
  <2>1. PICK pmt : pmt = Contribution(q)
    OBVIOUS
  <2>2. PICK r \in Int : r = x.real
    BY <1>15
  <2>3. y \in YearsFor(so, pmt, r, target)
    BY <1>22, <2>1, <2>2, Zenon
  <2> QED
    BY <2>3, ToldYears
<1>24. /\ Exceeds(target, sa) => Exceeds(target, so)
       /\ Exceeds(sl, target) => Exceeds(so, target)
  BY <1>21, Exceeding
<1>25. /\ y = "now" => ~Exceeds(target, sa)
       /\ y # "now" => ~Exceeds(sl, target)
  BY <1>23, <1>24, Zenon
<1>26. /\ y = "now" => ~Exceeds(FiNumber(q), Scaled(q, Assets(q)))
       /\ y # "now" => ~Exceeds(Scaled(q, Figure(q, "liquid")), FiNumber(q))
  BY <1>5, <1>17, <1>18, <1>21, <1>25, Zenon
<1>27. Figure(q, "liquid") <= Investable(q)
  BY <1>5, <1>19, <1>20, Zenon
<1> QED
  BY <1>13, <1>26, <1>27

(* An answer whose last SELECT has returned has what the properties promise.  *)
LEMMA AnswerKeeps ==
  ASSUME DashInv, NEW q \in Queries, Answer(q)
  PROVE  DashInv'
<1>1. DashTypeOK /\ dash[q].at = "reading" /\ dash[q] \in Asked /\ Progress(q)
  BY AskedType DEF DashInv, Answer
<1>2. PICK k \in DOMAIN Plan : k = dash[q].kind
  BY <1>1 DEF Asked
<1>3. Len(dash[q].got) = Len(Plan[k])
  <2>1. Len(dash[q].got) \in Nat /\ Len(Plan[k]) \in Nat
    BY <1>1, Plans DEF Asked
  <2>2. ~(Len(dash[q].got) < Len(Plan[k])) /\ Len(dash[q].got) <= Len(Plan[k])
    BY <1>1, <1>2 DEF Answer, Reading, Progress
  <2> QED
    BY <2>1, <2>2
<1>10. PICK y \in Outcomes(q) :
         dash' = [dash EXCEPT ![q].at = IF y = "error" THEN "error" ELSE "answered",
                              ![q].years = y]
  BY DEF Answer
<1>11. y \in Years
  <2>1. ASSUME NEW z \in YearsToFi(q) PROVE z \in Years
    BY <2>1, Zenon DEF YearsToFi, YearsFor
  <2> QED
    BY <1>10, <2>1 DEF Outcomes, Years
<1> DEFINE w == [dash[q] EXCEPT !.at = IF y = "error" THEN "error" ELSE "answered",
                                !.years = y]
<1>4. /\ w \in Asked /\ w.at # "reading"
      /\ w.at = "answered" => y # "error"
      /\ w.kind = k /\ w.asked = dash[q].asked /\ w.got = dash[q].got /\ w.years = y
      /\ w.moments = dash[q].moments /\ w.between = dash[q].between
      /\ w.closed = dash[q].closed /\ w.quiet = dash[q].quiet
  BY <1>1, <1>2, <1>11 DEF Asked
<1>5. dash' = [dash EXCEPT ![q] = w] /\ UNCHANGED <<accounts, flows, commits>>
  BY <1>10 DEF Answer
<1> HIDE DEF w
<1>6. dash'[q] = w
  BY <1>1, <1>5 DEF DashTypeOK
<1>7. NetWorthOfAMoment!(q)'
  <2>1. k \in Valued => Len(dash[q].got) > 1
    <3>1. Len(Plan[k]) \in Nat /\ (k \in Valued => Len(Plan[k]) >= 2)
      BY Plans
    <3> QED
      BY <1>3, <3>1
  <2>2. k \in Valued /\ ~Torn(q) => dash[q].got[1] + dash[q].got[2] \in dash[q].moments
    BY <1>1, <1>2, <2>1 DEF Progress
  <2> QED
    BY <1>4, <1>6, <2>2 DEF Torn
<1>8. ASSUME w.at = "answered"
      PROVE  FiguresAgree!(q)'
  <2>1. /\ dash'[q].kind = dash[q].kind /\ dash'[q].asked = dash[q].asked
        /\ dash'[q].got = dash[q].got /\ dash'[q].quiet = dash[q].quiet
        /\ dash'[q].years = y
    BY <1>2, <1>4, <1>6
  <2>2. /\ Figure(q, "expenses")' = Figure(q, "expenses")
        /\ Figure(q, "liquid")' = Figure(q, "liquid")
        /\ Figure(q, "investable cash")' = Figure(q, "investable cash")
        /\ Figure(q, "investable held")' = Figure(q, "investable held")
    BY <2>1 DEF Figure
  <2>3. Investable(q)' = Investable(q) /\ FiNumber(q)' = FiNumber(q)
    <3>1. Investable(q)' = Investable(q)
      BY <2>2, Zenon DEF Investable
    <3>2. FiNumber(q)' = FiNumber(q)
      BY <2>2 DEF FiNumber
    <3> QED
      BY <3>1, <3>2
  <2>4. Assets(q)' = Assets(q)
    BY <2>1, <2>3, Zenon DEF Assets
  <2>5. /\ Scaled(q, Assets(q))' = Scaled(q, Assets(q))
        /\ Scaled(q, Figure(q, "liquid"))' = Scaled(q, Figure(q, "liquid"))
    BY <2>1, <2>2, <2>4, Zenon DEF Scaled
  <2>6. /\ Exceeds(FiNumber(q), Scaled(q, Assets(q)))'
             = Exceeds(FiNumber(q), Scaled(q, Assets(q)))
        /\ Exceeds(Scaled(q, Figure(q, "liquid")), FiNumber(q))'
             = Exceeds(Scaled(q, Figure(q, "liquid")), FiNumber(q))
    BY <2>3, <2>5, Zenon DEF Exceeds
  <2>7. dash[q].quiet /\ k \in Projected =>
          /\ Figure(q, "liquid") <= Investable(q)
          /\ Investable(q) <= Assets(q)
          /\ y = "now" => ~Exceeds(FiNumber(q), Scaled(q, Assets(q)))
          /\ y # "now" => ~Exceeds(Scaled(q, Figure(q, "liquid")), FiNumber(q))
    BY <1>1, <1>2, <1>3, <1>4, <1>8, AnswerAgrees, Zenon
  <2> QED
    BY <1>2, <2>1, <2>2, <2>3, <2>4, <2>6, <2>7, Zenon
<1>9. w \in Query
  BY <1>1, <1>4, AskedType
<1> QED
  BY <1>4, <1>5, <1>7, <1>8, <1>9, QueryStep

-----------------------------------------------------------------------------
(* Commits to the two tables.                                                *)
LEMMA WorthType == TablesOK => Worth \subseteq Nat
<1> SUFFICES ASSUME TablesOK PROVE Worth \subseteq Nat
  OBVIOUS
<1>1. AllConvertible(Cash(Opened) \cup Held(Opened)) =>
        AllConvertible(Cash(Opened)) /\ AllConvertible(Held(Opened))
  BY DEF AllConvertible
<1>2. AllConvertible(Cash(Opened)) => Total(Cash(Opened)) \in Nat
  BY TableRows, TotalType
<1>3. AllConvertible(Held(Opened)) => Total(Held(Opened)) \in Nat
  BY TableRows, TotalType
<1> QED
  BY <1>1, <1>2, <1>3 DEF Worth

(* A request that a commit overtakes: unless a holding went with its account  *)
(* the commit changes the cash rows or the holdings, not both.               *)
LEMMA Overtaken ==
  ASSUME DashInv, NEW change, change # "flow", NEW q \in Queries,
         dash[q].at = "reading", dash[q] \in Asked, Len(dash[q].got) = 1,
         commits < MaxCommits, commits' = commits + 1, Worth' \subseteq Nat,
         change # "closing" =>
           Cash(Opened)' = Cash(Opened) \/ Held(Opened)' = Held(Opened),
         dash'[q] = [dash[q] EXCEPT !.quiet = FALSE, !.moments = dash[q].moments \cup Worth',
                                    !.between = dash[q].between + 1,
                                    !.closed = dash[q].closed \/ change = "closing"]
  PROVE  dash'[q] \in Asked /\ dash'[q].at = "reading" /\ Progress(q)'
<1>1. Progress(q) /\ commits \in Nat /\ MaxCommits \in Nat
  BY DashboardAssumption DEF DashInv, DashTypeOK
<1>2. dash[q].between \in Nat /\ dash[q].between <= commits
  BY <1>1 DEF Progress, Asked
<1>3. PICK k \in DOMAIN Plan : k = dash[q].kind
  BY DEF Asked
<1>4. /\ dash'[q].at = "reading" /\ dash'[q].kind = k /\ dash'[q].asked = dash[q].asked
      /\ dash'[q].got = dash[q].got /\ dash'[q].moments = dash[q].moments \cup Worth'
      /\ dash'[q].between = dash[q].between + 1
      /\ dash'[q].quiet = FALSE
      /\ dash'[q].closed = (dash[q].closed \/ change = "closing")
  BY <1>3 DEF Asked
<1>5. dash'[q] \in Asked
  <2>1. dash[q].between + 1 \in 0..MaxCommits
    BY <1>1, <1>2
  <2>2. dash[q].moments \cup Worth' \in SUBSET Nat
    BY DEF Asked
  <2> QED
    BY <2>1, <2>2 DEF Asked
<1>6. ASSUME k \in Valued, ~Torn(q)'
      PROVE  HalfRead(q)'
  <2>1. dash[q].between = 0 /\ ~dash[q].closed /\ change # "closing"
    <3>1. ~(dash'[q].between >= 2) /\ ~dash'[q].closed
      BY <1>6, Zenon DEF Torn
    <3>2. dash[q].between = 0
      BY <1>2, <1>4, <3>1
    <3>3. ~dash[q].closed /\ change # "closing"
      BY <1>4, <3>1, Zenon
    <3> QED
      BY <3>2, <3>3
  <2>2. ~Torn(q)
    BY <2>1 DEF Torn
  <2>3. /\ AllConvertible(Cash(Opened)) /\ dash[q].got[1] = Total(Cash(Opened))
        /\ Worth \subseteq dash[q].moments
    BY <1>1, <1>3, <1>6, <2>1, <2>2 DEF Progress, HalfRead
  <2>4. dash'[q].between = 1
    BY <1>4, <2>1
  <2>5. CASE Cash(Opened)' = Cash(Opened)
    <3>1. AllConvertible(Cash(Opened))' /\ dash'[q].got[1] = Total(Cash(Opened))'
      BY <1>4, <2>3, <2>5 DEF AllConvertible, Total, Converted
    <3> QED
      BY <2>4, <3>1 DEF HalfRead
  <2>6. CASE Held(Opened)' = Held(Opened)
    <3>1. ASSUME AllConvertible(Held(Opened))'
          PROVE  (dash[q].got[1] + Total(Held(Opened)) \in dash[q].moments)'
      <4>1. PICK H : H = Held(Opened) /\ H = Held(Opened)'
        BY <2>6
      <4>2. AllConvertible(H) /\ Total(Held(Opened))' = Total(H)
        BY <3>1, <4>1 DEF AllConvertible, Total, Converted
      <4>3. AllConvertible(Cash(Opened) \cup Held(Opened))
        BY <2>3, <4>1, <4>2 DEF AllConvertible
      <4>4. Worth = {Total(Cash(Opened)) + Total(H)}
        BY <4>1, <4>3 DEF Worth
      <4>5. dash[q].got[1] + Total(H) \in dash[q].moments
        BY <2>3, <4>4
      <4> QED
        BY <1>4, <4>2, <4>5
    <3> QED
      BY <2>4, <3>1 DEF HalfRead
  <2> QED
    BY <2>1, <2>5, <2>6
<1>7. Progress(q)'
  <2>1. dash[q].asked.months > 0 /\ Len(dash[q].got) <= Len(Plan[k])
    BY <1>1, <1>3 DEF Progress
  <2>2. dash'[q].between <= commits'
    BY <1>1, <1>2, <1>4
  <2>3. Len(dash'[q].got) = 1 /\ ~(1 > 1)
    BY <1>4
  <2> QED
    BY <1>4, <1>6, <2>1, <2>2, <2>3 DEF Progress
<1> QED
  BY <1>4, <1>5, <1>7

(* A request between other SELECTs only learns that it was disturbed.        *)
LEMMA Noticed ==
  ASSUME DashInv, NEW q \in Queries,
         dash[q].at = "reading", dash[q] \in Asked,
         Len(dash[q].got) # 1 \/ UNCHANGED accounts,
         commits' = commits + 1,
         dash'[q] = [dash[q] EXCEPT !.quiet = FALSE]
  PROVE  dash'[q] \in Asked /\ dash'[q].at = "reading" /\ Progress(q)'
<1>1. Progress(q) /\ commits \in Nat
  BY DashboardAssumption DEF DashInv, DashTypeOK
<1>2. /\ dash'[q].at = "reading" /\ dash'[q].kind = dash[q].kind
      /\ dash'[q].asked = dash[q].asked
      /\ dash'[q].got = dash[q].got /\ dash'[q].moments = dash[q].moments
      /\ dash'[q].between = dash[q].between /\ dash'[q].between \in Nat
      /\ dash'[q].quiet = FALSE /\ dash'[q].closed = dash[q].closed
      /\ dash'[q] \in Asked
  <2> DEFINE w == [dash[q] EXCEPT !.quiet = FALSE]
  <2>1. /\ w \in Asked /\ w.at = "reading" /\ w.kind = dash[q].kind
        /\ w.asked = dash[q].asked /\ w.got = dash[q].got
        /\ w.moments = dash[q].moments /\ w.between = dash[q].between
        /\ w.quiet = FALSE /\ w.closed = dash[q].closed
    BY DEF Asked
  <2>2. dash[q].between \in Nat
    BY DashboardAssumption DEF Asked
  <2> HIDE DEF w
  <2>3. dash'[q] = w
    BY DEF w
  <2> QED
    BY <2>1, <2>2, <2>3, Zenon
<1>3. Torn(q)' = Torn(q)
  BY <1>2 DEF Torn
<1>4. UNCHANGED accounts => HalfRead(q)' = HalfRead(q)
  <2> SUFFICES ASSUME UNCHANGED accounts PROVE HalfRead(q)' = HalfRead(q)
    OBVIOUS
  <2>1. Cash(Opened)' = Cash(Opened) /\ Held(Opened)' = Held(Opened)
    BY DEF Cash, Held, Opened
  <2>2. /\ AllConvertible(Cash(Opened))' = AllConvertible(Cash(Opened))
        /\ AllConvertible(Held(Opened))' = AllConvertible(Held(Opened))
        /\ Total(Cash(Opened))' = Total(Cash(Opened))
        /\ Total(Held(Opened))' = Total(Held(Opened))
    BY <2>1 DEF AllConvertible, Total, Converted
  <2>3. Worth' = Worth
    BY DEF Worth, Cash, Held, Opened
  <2> QED
    BY <1>2, <2>2, <2>3 DEF HalfRead
<1>5. Progress(q)'
  <2>1. dash[q].asked.months > 0 /\ Len(dash[q].got) <= Len(Plan[dash[q].kind])
        /\ dash[q].between <= commits + 1
    BY <1>1, <1>2 DEF Progress
  <2>2. dash[q].kind \in Valued /\ ~Torn(q) /\ Len(dash[q].got) = 1 => HalfRead(q)'
    BY <1>1, <1>4 DEF Progress
  <2>3. dash[q].kind \in Valued /\ ~Torn(q) /\ Len(dash[q].got) > 1 =>
          dash[q].got[1] + dash[q].got[2] \in dash[q].moments
    BY <1>1 DEF Progress
  <2> QED
    BY <1>2, <1>3, <2>1, <2>2, <2>3 DEF Progress
<1> QED
  BY <1>2, <1>5

LEMMA LedgerStep ==
  ASSUME DashInv, NEW change, Commit(change),
         TablesOK', flows' \subseteq Flows,
         change = "flow" => UNCHANGED accounts,
         change \notin {"flow", "closing"} =>
           Cash(Opened)' = Cash(Opened) \/ Held(Opened)' = Held(Opened)
  PROVE  DashInv'
<1>1. Worth' \subseteq Nat
  <2>1. (TablesOK => Worth \subseteq Nat)'
    BY WorthType, PTL
  <2> QED
    BY <2>1
<1>2. DashTypeOK /\ commits < MaxCommits /\ commits' = commits + 1
  BY DEF DashInv, Commit
<1>3. ASSUME NEW q \in Queries
      PROVE  dash'[q] \in Query /\ (dash'[q].at = "reading" => Progress(q)')
             /\ FiguresAgree!(q)' /\ NetWorthOfAMoment!(q)'
  <2>1. dash'[q] = Seen(q, change)
    BY DEF Commit
  <2>2. CASE dash[q].at # "reading"
    <3>1. dash'[q] = dash[q]
      BY <2>1, <2>2 DEF Seen
    <3>2. FiguresAgree!(q)' /\ NetWorthOfAMoment!(q)'
      BY <3>1, QueryKept DEF DashInv, FiguresAgree, NetWorthOfAMoment
    <3> QED
      BY <1>2, <2>2, <3>1, <3>2, AskedType
  <2>3. CASE dash[q].at = "reading"
    <3>1. dash[q] \in Asked
      BY <1>2, <2>3, AskedType
    <3>2. dash'[q] \in Asked /\ dash'[q].at = "reading" /\ Progress(q)'
      <4>1. CASE Len(dash[q].got) # 1 \/ change = "flow"
        <5>1. dash'[q] = [dash[q] EXCEPT !.quiet = FALSE]
          BY <2>1, <2>3, <4>1 DEF Seen
        <5> QED
          BY <1>2, <2>3, <3>1, <4>1, <5>1, Noticed
      <4>2. CASE Len(dash[q].got) = 1 /\ change # "flow"
        <5>1. dash'[q] = [dash[q] EXCEPT !.quiet = FALSE,
                                         !.moments = dash[q].moments \cup Worth',
                                         !.between = dash[q].between + 1,
                                         !.closed = dash[q].closed \/ change = "closing"]
          BY <2>1, <2>3, <3>1, <4>2 DEF Seen, Asked
        <5> QED
          BY <1>1, <1>2, <2>3, <3>1, <4>2, <5>1, Overtaken
      <4> QED
        BY <4>1, <4>2
    <3> QED
      BY <1>2, <3>2, AskedType
  <2> QED
    BY <2>2, <2>3
<1>4. DashTypeOK'
  <2>1. commits' \in 0..MaxCommits
    BY <1>2, DashboardAssumption DEF DashTypeOK
  <2>2. dash' \in [Queries -> Query]
    BY <1>3 DEF Commit
  <2> QED
    BY <2>1, <2>2 DEF DashTypeOK, TablesOK
<1> QED
  BY <1>3, <1>4 DEF DashInv, FiguresAgree, NetWorthOfAMoment

(* One commit changes the cash rows, or the holdings, or neither; both only   *)
(* when an account is closed with what it held.                              *)
LEMMA HeldSame ==
  ASSUME {b \in Opened : accounts[b].held > 0}' = {b \in Opened : accounts[b].held > 0},
         \A b \in Opened : accounts[b].held > 0 => accounts'[b].held = accounts[b].held
  PROVE  Held(Opened)' = Held(Opened)
BY DEF Held

LEMMA LedgerChange ==
  ASSUME DashInv, LedgerChanges
  PROVE  DashInv'
<1>1. /\ TablesOK /\ flows \subseteq Flows
      /\ \A b \in Opened : b \in Accounts /\ accounts[b] \in Account
                           /\ accounts[b].held \in Nat
  <2>1. TablesOK /\ flows \subseteq Flows
    BY DEF DashInv, DashTypeOK, TablesOK
  <2> QED
    BY <2>1, OpenedAccounts
<1>2. ASSUME NEW a \in Accounts, NEW t \in AccountTypes, NEW c \in Currencies,
             NEW n \in Amounts, Open(a, t, c, n)
      PROVE  DashInv'
  <2> DEFINE new == [type |-> t, currency |-> c, cash |-> n, held |-> 0]
  <2>1. new \in Account /\ new.held = 0
    BY DashboardAssumption DEF Account
  <2>2. /\ accounts' = [accounts EXCEPT ![a] = new] /\ a \notin Opened
        /\ Commit("balance") /\ flows' = flows
    BY <1>2 DEF Open
  <2> HIDE DEF new
  <2>3. TablesOK'
    BY <1>1, <2>1, <2>2 DEF TablesOK
  <2>4. Held(Opened)' = Held(Opened)
    <3>1. \A b \in Accounts \ {a} : accounts'[b] = accounts[b]
      BY <1>1, <2>2 DEF TablesOK
    <3>2. accounts'[a].held = 0
      BY <1>1, <2>1, <2>2 DEF TablesOK
    <3>3. \A b \in Opened : b \in Accounts \ {a}
      BY <2>2 DEF Opened
    <3>4. {b \in Opened : accounts[b].held > 0}' = {b \in Opened : accounts[b].held > 0}
      BY <3>1, <3>2, <3>3 DEF Opened
    <3> QED
      BY <3>1, <3>3, <3>4, HeldSame
  <2> QED
    BY <1>1, <2>2, <2>3, <2>4, LedgerStep
<1>3. ASSUME NEW a \in Accounts, NEW c \in Currencies, NEW n \in Amounts, ChangeCash(a, c, n)
      PROVE  DashInv'
  <2> DEFINE new == [accounts[a] EXCEPT !.cash = n, !.currency = c]
  <2>1. a \in Opened /\ accounts[a] \in Account
    BY <1>1, <1>3 DEF ChangeCash
  <2>2. new \in Account /\ new.held = accounts[a].held /\ new # NoAccount
    BY <2>1, DashboardAssumption DEF Account
  <2>3. /\ accounts' = [accounts EXCEPT ![a] = new]
        /\ Commit("balance") /\ flows' = flows
    BY <1>3 DEF ChangeCash
  <2> HIDE DEF new
  <2>4. TablesOK'
    BY <1>1, <2>2, <2>3 DEF TablesOK
  <2>5. Held(Opened)' = Held(Opened)
    <3>1. \A b \in Accounts \ {a} : accounts'[b] = accounts[b]
      BY <1>1, <2>3 DEF TablesOK
    <3>2. accounts'[a] = new
      BY <1>1, <2>3 DEF TablesOK
    <3>3. \A b \in Accounts : /\ b \in Opened' <=> b \in Opened
                              /\ b \in Opened => accounts'[b].held = accounts[b].held
      BY <2>1, <2>2, <3>1, <3>2 DEF Opened
    <3>4. {b \in Opened : accounts[b].held > 0}' = {b \in Opened : accounts[b].held > 0}
      BY <3>3 DEF Opened
    <3> QED
      BY <1>1, <3>3, <3>4, HeldSame
  <2> QED
    BY <1>1, <2>3, <2>4, <2>5, LedgerStep
<1>4. ASSUME NEW a \in Accounts, NEW n \in Amounts, ChangeHeld(a, n)
      PROVE  DashInv'
  <2> DEFINE new == [accounts[a] EXCEPT !.held = n]
  <2>1. a \in Opened /\ accounts[a] \in Account
    BY <1>1, <1>4 DEF ChangeHeld
  <2>2. /\ new \in Account /\ new # NoAccount
        /\ new.cash = accounts[a].cash /\ new.currency = accounts[a].currency
    BY <2>1, DashboardAssumption DEF Account
  <2>3. /\ accounts' = [accounts EXCEPT ![a] = new]
        /\ Commit("balance") /\ flows' = flows
    BY <1>4 DEF ChangeHeld
  <2> HIDE DEF new
  <2>4. TablesOK'
    BY <1>1, <2>2, <2>3 DEF TablesOK
  <2>5. Cash(Opened)' = Cash(Opened)
    <3>1. \A b \in Accounts \ {a} : accounts'[b] = accounts[b]
      BY <1>1, <2>3 DEF TablesOK
    <3>2. accounts'[a] = new
      BY <1>1, <2>3 DEF TablesOK
    <3>3. Opened' = Opened
      BY <2>1, <2>2, <3>1, <3>2 DEF Opened
    <3>4. \A b \in Opened : /\ accounts'[b].cash = accounts[b].cash
                            /\ accounts'[b].currency = accounts[b].currency
      BY <1>1, <2>2, <3>1, <3>2
    <3> QED
      BY <3>3, <3>4 DEF Cash
  <2> QED
    BY <1>1, <2>3, <2>4, <2>5, LedgerStep
<1>5. ASSUME NEW a \in Accounts, Close(a)
      PROVE  DashInv'
  <2>1. /\ accounts' = [accounts EXCEPT ![a] = NoAccount] /\ flows' = flows /\ a \in Opened
        /\ Commit(IF accounts[a].held > 0 THEN "closing" ELSE "balance")
    BY <1>5 DEF Close
  <2>2. TablesOK'
    BY <1>1, <2>1 DEF TablesOK
  <2>3. CASE accounts[a].held > 0
    <3>1. Commit("closing")
      BY <2>1, <2>3
    <3> QED
      BY <1>1, <2>1, <2>2, <3>1, LedgerStep
  <2>4. CASE ~(accounts[a].held > 0)
    <3>1. \A b \in Accounts \ {a} : accounts'[b] = accounts[b]
      BY <1>1, <2>1 DEF TablesOK
    <3>2. Opened' = Opened \ {a}
      BY <1>1, <2>1, <3>1 DEF Opened, TablesOK
    <3>3. {b \in Opened : accounts[b].held > 0}' = {b \in Opened : accounts[b].held > 0}
      BY <1>1, <2>4, <3>1, <3>2
    <3>4. Held(Opened)' = Held(Opened)
      BY <1>1, <2>4, <3>1, <3>3, HeldSame
    <3>5. Commit("balance")
      BY <2>1, <2>4
    <3> QED
      BY <1>1, <2>1, <2>2, <3>4, <3>5, LedgerStep
  <2> QED
    BY <2>3, <2>4
<1>6. ASSUME NEW f \in Flows, Enter(f)
      PROVE  DashInv'
  <2>1. flows' \subseteq Flows /\ UNCHANGED accounts /\ Commit("flow")
    BY <1>1, <1>6 DEF Enter
  <2>2. TablesOK'
    BY <1>1, <2>1 DEF TablesOK
  <2> QED
    BY <2>1, <2>2, LedgerStep
<1> QED
  BY <1>2, <1>3, <1>4, <1>5, <1>6 DEF LedgerChanges

(* The dashboard's invariant begins true and every step keeps it.            *)
LEMMA DashInitInv == DashInit => DashInv
<1> SUFFICES ASSUME DashInit PROVE DashInv
  OBVIOUS
<1>1. \A q \in Queries : dash[q] = [at |-> "idle"] /\ dash[q].at = "idle"
  BY DEF DashInit
<1>2. DashTypeOK
  BY DashboardAssumption DEF DashInit, DashTypeOK, Query
<1> QED
  BY <1>1, <1>2 DEF DashInv, NetWorthOfAMoment, FiguresAgree

LEMMA DashSame == DashInv /\ UNCHANGED dashVars => DashInv'
<1> SUFFICES ASSUME DashInv, UNCHANGED dashVars PROVE DashInv'
  OBVIOUS
<1>1. UNCHANGED <<accounts, flows, commits, dash>>
  BY DEF dashVars
<1>2. DashTypeOK'
  BY <1>1 DEF DashInv, DashTypeOK
<1>3. ASSUME NEW q \in Queries
      PROVE  /\ dash'[q].at = "reading" => Progress(q)'
             /\ FiguresAgree!(q)' /\ NetWorthOfAMoment!(q)'
  <2>1. FiguresAgree!(q)' /\ NetWorthOfAMoment!(q)'
    BY <1>1, QueryKept DEF DashInv, FiguresAgree, NetWorthOfAMoment
  <2>2. dash[q].at = "reading" => Progress(q)'
    BY <1>1, SameRows DEF DashInv, Progress, Undisturbed, ReadAt, HalfRead, Torn
  <2> QED
    BY <1>1, <2>1, <2>2
<1> QED
  BY <1>2, <1>3 DEF DashInv, FiguresAgree, NetWorthOfAMoment

LEMMA DashNextInv == DashInv /\ [DashNext]_dashVars => DashInv'
<1> SUFFICES ASSUME DashInv, [DashNext]_dashVars PROVE DashInv'
  OBVIOUS
<1>1. CASE UNCHANGED dashVars
  BY <1>1, DashSame
<1>2. CASE DashNext
  BY <1>2, AskKeeps, ReadKeeps, NoRateKeeps, AnswerKeeps, LedgerChange DEF DashNext
<1> QED
  BY <1>1, <1>2

-----------------------------------------------------------------------------
(* The risk profile.  The bands of the ladder differ in every column, so a    *)
(* commit that writes one column of another band writes all three.           *)
LEMMA BandRows ==
  /\ Estimate(0) = [low |-> 0, high |-> 500, point |-> 250]
  /\ Estimate(1) = [low |-> 500, high |-> 1000, point |-> 750]
  /\ Estimate(2) = [low |-> 1000, high |-> 2000, point |-> 1500]
  /\ Estimate(3) = [low |-> 2000, high |-> 3500, point |-> 2750]
  /\ Estimate(4) = [low |-> 3500, high |-> 6000, point |-> 4750]
  /\ Estimate(5) = [low |-> 6000, high |-> 10000, point |-> 8000]
BY DEF Estimate, Edges

LEMMA BandsDiffer ==
  ASSUME NEW b \in Bands, NEW c \in Bands
  PROVE  /\ b = [low |-> b.low, high |-> b.high, point |-> b.point]
         /\ b \in [low : Nat, high : Nat, point : Nat] /\ b # NoProfile
         /\ b # c => b.low # c.low /\ b.high # c.high /\ b.point # c.point
<1>1. PICK i \in Sures : b = Estimate(i)
  BY DEF Bands
<1>2. PICK j \in Sures : c = Estimate(j)
  BY DEF Bands
<1>3. \A k \in Sures : k = 0 \/ k = 1 \/ k = 2 \/ k = 3 \/ k = 4 \/ k = 5
  BY DEF Sures
<1>4. b \in [low : Nat, high : Nat, point : Nat]
  BY <1>1, <1>3, BandRows
<1>5. b # NoProfile
  BY <1>4, OwnedAssumption
<1>6. b = [low |-> b.low, high |-> b.high, point |-> b.point]
  BY <1>4
<1>7. b # c => b.low # c.low /\ b.high # c.high /\ b.point # c.point
  BY <1>1, <1>2, <1>3, BandRows
<1> QED
  BY <1>4, <1>5, <1>6, <1>7

(* What a call carries in each of its stages.                                *)
Assessing == [at : {"assessing"}, sures : Sures, loaded : Bands \cup {NoProfile}]
Analysing == [at : {"analysing", "analysed"}, kind : DOMAIN Analysis, done : 0..4,
              gamma : {b.point : b \in Bands} \cup {NoProfile},
              universe : SUBSET Securities, placed : BOOLEAN]

Resting == [at : {"idle", "assessed", "refused", "error"}]

LEMMA AdviceParts ==
  /\ Call = Resting \cup Assessing \cup Analysing
  /\ \A w \in Resting : w.at \notin {"assessing", "analysing", "analysed"}
  /\ \A w \in Assessing : w.at = "assessing"
  /\ \A w \in Analysing : w.at \in {"analysing", "analysed"}
  /\ \A a \in {"idle", "assessed", "refused", "error"} :
       [at |-> a] \in Resting /\ [at |-> a].at = a
<1>1. Call = Resting \cup Assessing \cup Analysing
  BY Zenon DEF Call, Resting, Assessing, Analysing
<1>2. \A w \in Resting : w.at \notin {"assessing", "analysing", "analysed"}
  BY DEF Resting
<1>3. \A w \in Assessing : w.at = "assessing"
  BY DEF Assessing
<1>4. \A w \in Analysing : w.at \in {"analysing", "analysed"}
  BY DEF Analysing
<1>5. \A a \in {"idle", "assessed", "refused", "error"} :
        [at |-> a] \in Resting /\ [at |-> a].at = a
  BY DEF Resting
<1> QED
  BY <1>1, <1>2, <1>3, <1>4, <1>5, Zenon

LEMMA AdviceType ==
  /\ \A w \in Call : w.at = "assessing" => w \in Assessing
  /\ \A w \in Call : w.at \in {"analysing", "analysed"} => w \in Analysing
  /\ Assessing \subseteq Call /\ Analysing \subseteq Call
  /\ \A a \in {"idle", "assessed", "refused", "error"} :
       [at |-> a] \in Call /\ [at |-> a].at = a
<1>1. \A w \in Call : w \in Resting \/ w \in Assessing \/ w \in Analysing
  BY AdviceParts, Zenon
<1>2. \A w \in Call : w.at = "assessing" => w \in Assessing
  <2>1. "assessing" \notin {"analysing", "analysed"}
    OBVIOUS
  <2> QED
    BY <1>1, <2>1, AdviceParts, Zenon
<1>3. \A w \in Call : w.at \in {"analysing", "analysed"} => w \in Analysing
  <2>1. "assessing" \notin {"analysing", "analysed"}
    OBVIOUS
  <2> QED
    BY <1>1, <2>1, AdviceParts, Zenon
<1> QED
  BY <1>2, <1>3, AdviceParts, Zenon

(* A step of one call that leaves the profile as it is.                      *)
LEMMA AnalysisStep ==
  ASSUME InsightInv, NEW r \in Calls, NEW w \in Call, risk' = [risk EXCEPT ![r] = w],
         UNCHANGED <<profile, changes>>,
         w.at = "assessing" /\ w.loaded # NoProfile => profile # NoProfile,
         w.at \in {"analysing", "analysed"} => Recorded(w.gamma)
  PROVE  InsightInv'
<1>1. risk \in [Calls -> Call]
  BY DEF InsightInv, InsightTypeOK
<1>2. risk'[r] = w /\ \A s \in Calls \ {r} : risk'[s] = risk[s]
  BY <1>1
<1>3. InsightTypeOK'
  BY <1>1 DEF InsightInv, InsightTypeOK
<1>4. \A g : Recorded(g)' = Recorded(g)
  BY DEF Recorded
<1>5. ASSUME NEW s \in Calls
      PROVE  /\ risk'[s].at = "assessing" /\ risk'[s].loaded # NoProfile => profile # NoProfile
             /\ risk'[s].at \in {"analysing", "analysed"} => Recorded(risk'[s].gamma)
  BY <1>2 DEF InsightInv, ProfileInv
<1>6. ProfileInv'
  BY <1>5 DEF InsightInv, ProfileInv, Recorded
<1>7. BandIsWhole'
  BY <1>5 DEF InsightInv, BandIsWhole, Recorded
<1> QED
  BY <1>3, <1>6, <1>7 DEF InsightInv

LEMMA AssessReadKeeps ==
  ASSUME InsightInv, NEW r \in Calls, NEW k \in Sures, AssessRead(r, k)
  PROVE  InsightInv'
<1> DEFINE w == [at |-> "assessing", sures |-> k, loaded |-> profile]
<1>1. w \in Call /\ w.at = "assessing" /\ w.loaded = profile
  <2>1. w \in Assessing
    BY DEF InsightInv, ProfileInv, Assessing
  <2> QED
    BY <2>1, AdviceType
<1>2. risk' = [risk EXCEPT ![r] = w] /\ UNCHANGED <<profile, changes>>
  BY DEF AssessRead
<1> HIDE DEF w
<1> QED
  BY <1>1, <1>2, AnalysisStep

(* Who has read a row writes over a row: every column is the new band's, or   *)
(* the new band is the old one and no column changes.                        *)
LEMMA AssessCommitKeeps ==
  ASSUME InsightInv, NEW r \in Calls, AssessCommit(r)
  PROVE  InsightInv'
<1>1. risk \in [Calls -> Call] /\ risk[r] \in Assessing /\ profile \in Bands \cup {NoProfile}
  BY AdviceType DEF InsightInv, InsightTypeOK, ProfileInv, AssessCommit
<1>2. PICK e \in Bands : e = Estimate(risk[r].sures)
  BY <1>1 DEF Assessing, Bands
<1>3. PICK l \in Bands \cup {NoProfile} : l = risk[r].loaded
  BY <1>1 DEF Assessing
<1>4. l = NoProfile <=> profile = NoProfile
  BY <1>1, <1>3 DEF AssessCommit, InsightInv, ProfileInv
<1>5. profile' = [low |-> Column(r, "low"), high |-> Column(r, "high"),
                  point |-> Column(r, "point")]
  BY DEF AssessCommit
<1>6. changes' = changes \cup {[old |-> l, new |-> e]}
  BY <1>2, <1>3 DEF AssessCommit
<1>7. profile' = e \/ (profile # NoProfile /\ profile' = profile)
  <2>1. CASE l = NoProfile \/ l # e
    <3>1. Column(r, "low") = e.low /\ Column(r, "high") = e.high
          /\ Column(r, "point") = e.point
      BY <1>2, <1>3, <2>1, BandsDiffer DEF Column
    <3> QED
      BY <1>5, <3>1, BandsDiffer
  <2>2. CASE l # NoProfile /\ l = e
    <3>1. profile \in Bands
      BY <1>1, <1>4, <2>2
    <3>2. Column(r, "low") = profile.low /\ Column(r, "high") = profile.high
          /\ Column(r, "point") = profile.point
      BY <1>2, <1>3, <2>2 DEF Column
    <3> QED
      BY <1>4, <1>5, <2>2, <3>1, <3>2, BandsDiffer
  <2> QED
    BY <2>1, <2>2
<1>8. profile' \in Bands /\ profile' # NoProfile
  BY <1>1, <1>7, BandsDiffer
<1>9. \E x \in changes' : x.new = profile'
  <2>1. CASE profile' = e
    <3>1. PICK x : x = [old |-> l, new |-> e]
      OBVIOUS
    <3>2. x \in changes' /\ x.new = e
      BY <1>6, <3>1
    <3> QED
      BY <2>1, <3>2
  <2>2. CASE profile # NoProfile /\ profile' = profile
    BY <1>6, <2>2 DEF InsightInv, BandIsWhole
  <2> QED
    BY <1>7, <2>1, <2>2
<1>10. \A g : Recorded(g) => Recorded(g)'
  BY <1>6 DEF Recorded
<1>11. risk'[r] = [at |-> "assessed"] /\ \A s \in Calls \ {r} : risk'[s] = risk[s]
  BY <1>1 DEF AssessCommit
<1>12. InsightTypeOK'
  <2>1. profile' \in [low : Nat, high : Nat, point : Nat]
    BY <1>8, BandsDiffer
  <2>2. risk' \in [Calls -> Call]
    BY <1>1, AdviceType DEF AssessCommit
  <2> QED
    BY <2>1, <2>2 DEF InsightTypeOK
<1>13. ASSUME NEW s \in Calls, risk'[s].at \in {"analysing", "analysed"}
       PROVE  Recorded(risk[s].gamma)'
  <2>1. s # r /\ risk'[s] = risk[s]
    BY <1>11, <1>13
  <2>2. Recorded(risk[s].gamma)
    BY <1>13, <2>1 DEF InsightInv, ProfileInv
  <2> QED
    BY <1>6, <2>1, <2>2 DEF Recorded
<1>14. ProfileInv'
  BY <1>8, <1>13 DEF ProfileInv
<1>15. BandIsWhole'
  BY <1>9, <1>13 DEF BandIsWhole, Recorded
<1> QED
  BY <1>12, <1>14, <1>15 DEF InsightInv

LEMMA AnalyseBeginKeeps ==
  ASSUME InsightInv, NEW r \in Calls, NEW k \in DOMAIN Analysis, NEW d, NEW b,
         AnalyseBegin(r, k, d, b)
  PROVE  InsightInv'
<1> DEFINE begun == [at |-> "analysing", kind |-> k, done |-> 0, gamma |-> NoProfile,
                     universe |-> {}, placed |-> FALSE]
<1>1. begun \in Call /\ begun.at = "analysing" /\ begun.gamma = NoProfile
  <2>1. begun \in Analysing
    BY DEF Analysing
  <2> QED
    BY <2>1, AdviceType
<1> HIDE DEF begun
<1>2. PICK w : w = IF b /\ NoSuchDay(d) THEN [at |-> "error"] ELSE begun
  OBVIOUS
<1>3. risk' = [risk EXCEPT ![r] = w] /\ UNCHANGED <<profile, changes>>
  BY <1>2 DEF AnalyseBegin, begun
<1>4. /\ w \in Call /\ w.at # "assessing"
      /\ w.at \in {"analysing", "analysed"} => Recorded(w.gamma)
  BY <1>1, <1>2, AdviceType DEF Recorded
<1> QED
  BY <1>3, <1>4, AnalysisStep

(* A SELECT of an analysis: a 404 or 422, or one field is set.               *)
LEMMA AnalysisLength ==
  \A k \in DOMAIN Analysis : Len(Analysis[k]) \in 0..4
<1>1. /\ DOMAIN Analysis = {"allocation", "projection", "frontier"}
      /\ Len(Analysis["allocation"]) = 3 /\ Len(Analysis["projection"]) = 3
      /\ Len(Analysis["frontier"]) = 4
  BY DEF Analysis
<1> QED
  BY <1>1

LEMMA SelectKeeps ==
  ASSUME InsightInv, NEW r \in Calls,
         AnalyseProfile(r) \/ AnalyseUniverse(r) \/ AnalysePrices(r) \/ AnalyseHoldings(r)
  PROVE  InsightInv'
<1>1. /\ risk \in [Calls -> Call] /\ risk[r].at = "analysing" /\ risk[r] \in Analysing
      /\ UNCHANGED <<profile, changes>> /\ profile \in Bands \cup {NoProfile}
      /\ Recorded(risk[r].gamma)
  BY AdviceType DEF AnalyseProfile, AnalyseUniverse, AnalysePrices, AnalyseHoldings, NextSelect,
     InsightInv, InsightTypeOK, ProfileInv
<1>2. risk[r].done + 1 \in 0..4
  <2>1. risk[r].done < Len(Analysis[risk[r].kind])
    BY DEF AnalyseProfile, AnalyseUniverse, AnalysePrices, AnalyseHoldings, NextSelect
  <2>2. PICK n \in 0..4 : n = Len(Analysis[risk[r].kind])
    BY <1>1, AnalysisLength DEF Analysing
  <2>3. PICK d \in 0..4 : d = risk[r].done
    BY <1>1 DEF Analysing
  <2>4. d < n
    BY <2>1, <2>2, <2>3, Zenon
  <2>5. d + 1 \in 0..4
    BY <2>4
  <2> QED
    BY <2>3, <2>5, Zenon
<1>3. CASE Refused(r)
  <2> DEFINE w == [at |-> "refused"]
  <2>1. w \in Call /\ w.at = "refused"
    BY AdviceType
  <2>2. risk' = [risk EXCEPT ![r] = w]
    BY <1>3 DEF Refused
  <2> HIDE DEF w
  <2> QED
    BY <1>1, <2>1, <2>2, AnalysisStep
<1>4. ASSUME NEW g \in {b.point : b \in Bands} \cup {NoProfile}, Recorded(g), Take(r, "gamma", g)
      PROVE  InsightInv'
  <2> DEFINE w == [risk[r] EXCEPT !.done = risk[r].done + 1, !.gamma = g]
  <2>1. w \in Analysing /\ w.at = "analysing" /\ w.gamma = g
    BY <1>1, <1>2 DEF Analysing
  <2>2. risk' = [risk EXCEPT ![r] = w]
    BY <1>1, <1>4 DEF Take, Analysing
  <2> HIDE DEF w
  <2> QED
    BY <1>1, <1>4, <2>1, <2>2, AdviceType, AnalysisStep
<1>5. ASSUME NEW u \in SUBSET Securities, Take(r, "universe", u)
      PROVE  InsightInv'
  <2> DEFINE w == [risk[r] EXCEPT !.done = risk[r].done + 1, !.universe = u]
  <2>1. w \in Analysing /\ w.at = "analysing" /\ w.gamma = risk[r].gamma
    BY <1>1, <1>2 DEF Analysing
  <2>2. risk' = [risk EXCEPT ![r] = w]
    BY <1>1, <1>5 DEF Take, Analysing
  <2> HIDE DEF w
  <2> QED
    BY <1>1, <2>1, <2>2, AdviceType, AnalysisStep
<1>6. ASSUME NEW p \in BOOLEAN, Take(r, "placed", p)
      PROVE  InsightInv'
  <2> DEFINE w == [risk[r] EXCEPT !.done = risk[r].done + 1, !.placed = p]
  <2>1. w \in Analysing /\ w.at = "analysing" /\ w.gamma = risk[r].gamma
    BY <1>1, <1>2 DEF Analysing
  <2>2. risk' = [risk EXCEPT ![r] = w]
    BY <1>1, <1>6 DEF Take, Analysing
  <2> HIDE DEF w
  <2> QED
    BY <1>1, <2>1, <2>2, AdviceType, AnalysisStep
<1>7. CASE AnalyseProfile(r)
  <2>1. CASE profile # NoProfile
    <3>1. Take(r, "gamma", profile.point)
      BY <1>7, <2>1 DEF AnalyseProfile
    <3>2. profile.point \in {b.point : b \in Bands} /\ Recorded(profile.point)
      BY <1>1, <2>1 DEF InsightInv, BandIsWhole, Recorded
    <3> QED
      BY <1>4, <3>1, <3>2
  <2>2. CASE profile = NoProfile
    <3>1. Refused(r) \/ Take(r, "gamma", NoProfile)
      BY <1>7, <2>2 DEF AnalyseProfile
    <3> QED
      BY <1>3, <1>4, <3>1 DEF Recorded
  <2> QED
    BY <2>1, <2>2
<1>8. CASE AnalyseUniverse(r)
  BY <1>3, <1>5, <1>8 DEF AnalyseUniverse, Universe
<1>9. CASE AnalysePrices(r)
  BY <1>3, <1>6, <1>9 DEF AnalysePrices
<1>10. CASE AnalyseHoldings(r)
  <2>1. PICK p \in BOOLEAN :
          p = (Owned \in risk[r].universe /\ \E a \in Opened : accounts[a].held > 0)
    OBVIOUS
  <2> QED
    BY <1>6, <1>10, <2>1 DEF AnalyseHoldings
<1> QED
  BY <1>7, <1>8, <1>9, <1>10

LEMMA AnalyseEndKeeps ==
  ASSUME InsightInv, NEW r \in Calls, AnalyseEnd(r)
  PROVE  InsightInv'
<1>1. risk \in [Calls -> Call] /\ risk[r] \in Analysing /\ Recorded(risk[r].gamma)
  BY AdviceType DEF AnalyseEnd, InsightInv, InsightTypeOK, ProfileInv
<1> DEFINE w == [risk[r] EXCEPT !.at = "analysed"]
<1>2. w \in Analysing /\ w.at = "analysed" /\ w.gamma = risk[r].gamma
  BY <1>1 DEF Analysing
<1>3. risk' = [risk EXCEPT ![r] = w] /\ UNCHANGED <<profile, changes>>
  BY DEF AnalyseEnd
<1> HIDE DEF w
<1> QED
  BY <1>1, <1>2, <1>3, AdviceType, AnalysisStep

LEMMA InsightInitInv == InsightInit => InsightInv
<1> SUFFICES ASSUME InsightInit PROVE InsightInv
  OBVIOUS
<1>1. \A r \in Calls : risk[r] = [at |-> "idle"] /\ risk[r].at = "idle"
  BY DEF InsightInit
<1>2. InsightTypeOK
  BY BandsDiffer, AdviceType DEF InsightInit, InsightTypeOK
<1>3. ASSUME profile # NoProfile PROVE \E x \in changes : x.new = profile
  <2>1. PICK x : x = [old |-> NoProfile, new |-> profile]
    OBVIOUS
  <2>2. x \in changes /\ x.new = profile
    BY <1>3, <2>1 DEF InsightInit
  <2> QED
    BY <2>2
<1> QED
  BY <1>1, <1>2, <1>3 DEF InsightInit, InsightInv, ProfileInv, BandIsWhole

LEMMA InsightNextInv == InsightInv /\ [InsightNext]_insightVars => InsightInv'
<1> SUFFICES ASSUME InsightInv, [InsightNext]_insightVars PROVE InsightInv'
  OBVIOUS
<1>1. CASE UNCHANGED insightVars
  BY <1>1 DEF insightVars, InsightInv, InsightTypeOK, ProfileInv, BandIsWhole, Recorded
<1>2. ASSUME NEW r \in Calls, NEW a \in {"refused", "error"},
             risk' = [risk EXCEPT ![r] = [at |-> a]], UNCHANGED <<profile, changes>>
      PROVE  InsightInv'
  <2>1. PICK w : w = [at |-> a]
    OBVIOUS
  <2>2. w \in Call /\ w.at \in {"refused", "error"}
    BY <2>1, AdviceType
  <2> QED
    BY <1>2, <2>1, <2>2, AnalysisStep
<1>3. ASSUME NEW r \in Calls, Refuse(r) \/ AssessLoses(r)
      PROVE  InsightInv'
  BY <1>2, <1>3 DEF Refuse, AssessLoses
<1>4. CASE InsightNext
  BY <1>3, <1>4, AssessReadKeeps, AssessCommitKeeps, AnalyseBeginKeeps, SelectKeeps,
     AnalyseEndKeeps DEF InsightNext
<1> QED
  BY <1>1, <1>4

-----------------------------------------------------------------------------
(* The invariant of the cache holds whatever calls, writers, expiries,       *)
(* failures and restarts interleave, for any number of each.                 *)
THEOREM CacheInvariance == PriceSpec => []CacheInv
<1>1. QED
  BY InitFresh, NextFresh, PTL DEF PriceSpec

(* A cached covariance is never older than the last announced write of       *)
(* prices, but for a matrix that crossed a restart of Redis.                 *)
THEOREM AnnouncedIsServed == PriceSpec => []ServesAnnounced
<1>1. CacheInv => ServesAnnounced
  BY DEF CacheInv, CallFresh, ServesAnnounced
<1>2. QED
  BY <1>1, CacheInvariance, PTL

(* The invariants of the cache, of the dashboard's requests and of the risk   *)
(* profile hold together: each step is one part's, and stutters in the others.*)
THEOREM Invariance == Spec => []IInv
<1>1. Init => IInv
  BY InitFresh, DashInitInv, InsightInitInv DEF Init, IInv
<1>2. IInv /\ [Next]_vars => IInv'
  <2> SUFFICES ASSUME IInv, [Next]_vars PROVE IInv'
    OBVIOUS
  <2>1. [PriceNext]_priceVars /\ [DashNext]_dashVars /\ [InsightNext]_insightVars
    BY DEF Next, vars
  <2> QED
    BY <2>1, NextFresh, DashNextInv, InsightNextInv DEF IInv
<1>3. QED
  BY <1>1, <1>2, PTL DEF Spec

(* The net worth that is answered is the user's at some moment while it was   *)
(* read, unless two commits came between its two SELECTs or one closed an    *)
(* account with what it held: of any accounts, rates and requests.           *)
THEOREM NetWorth == Spec => []NetWorthOfAMoment
<1>1. IInv => NetWorthOfAMoment
  BY DEF IInv, DashInv
<1>2. QED
  BY <1>1, Invariance, PTL

(* The figures of one undisturbed answer agree with each other, for any       *)
(* ledger, rates, months and percentages, and any precision of the doubles   *)
(* that years_to_fi computes with.                                           *)
THEOREM Figures == Spec => []FiguresAgree
<1>1. IInv => FiguresAgree
  BY DEF IInv, DashInv
<1>2. QED
  BY <1>1, Invariance, PTL

(* However many questionnaires race, the row of risk_profile is one whole     *)
(* band, and every analysis was made with the midpoint of an audited band.   *)
THEOREM BandWhole == Spec => []BandIsWhole
<1>1. IInv => BandIsWhole
  BY DEF IInv, InsightInv
<1>2. QED
  BY <1>1, Invariance, PTL

(* The cache keeps its promise while the other parts read its tables.         *)
THEOREM Announced == Spec => []ServesAnnounced
<1>1. IInv => ServesAnnounced
  BY DEF IInv, CacheInv, CallFresh, ServesAnnounced
<1>2. QED
  BY <1>1, Invariance, PTL
=============================================================================
