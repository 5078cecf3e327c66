----------------------------- MODULE PriceCache -----------------------------
(***************************************************************************)
(* Table price_history and the covariance matrices cached in Redis           *)
(* (backend/market/covcache.py, prices.py, seed.py).  A key names the value  *)
(* the generation counter had when the request began; whoever writes prices  *)
(* is to bump the counter after the commit.  One list of securities and one  *)
(* window: other lists have keys of their own.  A matrix is the version of   *)
(* the prices it was computed from.  The rows of securities are taken to be  *)
(* there: the seed's own find-or-create of them (seed.py:49-66), which two   *)
(* first runs race on against the unique (ticker, exchange), is left out.    *)
(***************************************************************************)
EXTENDS Naturals, FiniteSets

CONSTANTS
  Securities, Dates,   \* the securities asked for and the dates of the window
  FirstPrices,         \* the tables price_history a run can begin with
  Seeded,              \* SEED_PRICES: <<security, date>> pairs
  Readers,             \* calls of covariance_cached; each is made once
  Loaders,             \* runs of the seed script
  NoEntry,             \* a key that is not set
  MaxWrites,           \* bound: commits that write prices
  MaxRestarts          \* bound: restarts of Redis

ASSUME PriceAssumption ==
  /\ FirstPrices \subseteq [Securities -> SUBSET Dates]
  /\ Seeded \subseteq Securities \X Dates
  /\ MaxWrites \in Nat /\ MaxRestarts \in Nat

VARIABLES
  prices,    \* price_history: the dates with a close, by security
  version,   \* commits that wrote prices
  unsaid,    \* versions committed by writers that have not bumped the counter yet
  gen,       \* the counter market:prices:gen
  keys,      \* the cached matrix of each generation
  cov,       \* each call of covariance_cached
  seed,      \* each run of the seed script
  (* History, read by the properties only. *)
  announced, \* the newest version whose writer has bumped the counter
  epoch,     \* restarts of Redis
  floor      \* announced when the counter reached a value, by epoch

cacheVars == <<gen, keys, epoch, floor, announced>>
priceVars == <<prices, version, unsaid, cacheVars, cov, seed>>

Versions == 0..MaxWrites
Epochs == 0..MaxRestarts
Points == Securities \X Dates
Matrix == [of : Versions, epoch : Epochs]

Reader == [at : {"idle", "keyed", "missed", "direct", "computed", "served", "refused"},
           gen : Versions, promised : Versions, epoch : Epochs, matrix : Matrix]
Loader == [at : {"idle", "looking", "seeded", "error"},
           todo : SUBSET Points, adding : SUBSET Points]

PriceTypeOK ==
  /\ prices \in [Securities -> SUBSET Dates]
  /\ version \in Versions /\ announced \in Versions
  /\ unsaid \subseteq Versions
  /\ gen \in Versions /\ epoch \in Epochs
  /\ keys \in [Versions -> Matrix \cup {NoEntry}]
  /\ floor \in [Epochs -> [Versions -> Versions]]
  /\ cov \in [Readers -> Reader]
  /\ seed \in [Loaders -> Loader]

NoMatrix == [of |-> 0, epoch |-> 0]

PriceInit ==
  /\ prices \in FirstPrices
  /\ version = 0 /\ announced = 0 /\ unsaid = {}
  /\ gen = 0 /\ epoch = 0
  /\ keys = [g \in Versions |-> NoEntry]
  /\ floor = [e \in Epochs |-> [g \in Versions |-> 0]]
  /\ cov = [r \in Readers |-> [at |-> "idle", gen |-> 0, promised |-> 0, epoch |-> 0,
                               matrix |-> NoMatrix]]
  /\ seed = [l \in Loaders |-> [at |-> "idle", todo |-> {}, adding |-> {}]]

-----------------------------------------------------------------------------
(* align_close_prices: the dates on which every security has a close; the    *)
(* covariance needs two.                                                     *)
Aligned(S) == {d \in Dates : \A s \in S : d \in prices[s]}
Enough(S) == \E d, e \in Aligned(S) : d # e

(* covariance_cached: GET of the counter, then GET of the key.  A RedisError *)
(* at either leads to a computation without the cache.                       *)
CovBegin(r) ==
  /\ cov[r].at = "idle"
  /\ cov' = [cov EXCEPT ![r].at = "keyed", ![r].gen = gen, ![r].epoch = epoch,
                        ![r].promised = announced]
  /\ UNCHANGED <<prices, version, unsaid, cacheVars, seed>>

CovHit(r) ==
  /\ cov[r].at = "keyed"
  /\ keys[cov[r].gen] # NoEntry
  /\ cov' = [cov EXCEPT ![r].at = "served", ![r].matrix = keys[cov[r].gen]]
  /\ UNCHANGED <<prices, version, unsaid, cacheVars, seed>>

CovMiss(r) ==
  /\ cov[r].at = "keyed"
  /\ keys[cov[r].gen] = NoEntry
  /\ cov' = [cov EXCEPT ![r].at = "missed"]
  /\ UNCHANGED <<prices, version, unsaid, cacheVars, seed>>

CovDegrade(r) ==
  /\ cov[r].at \in {"idle", "keyed"}
  /\ cov' = [cov EXCEPT ![r].at = "direct",
                        ![r].epoch = IF cov[r].at = "idle" THEN epoch ELSE @,
                        ![r].promised = IF cov[r].at = "idle" THEN announced ELSE @]
  /\ UNCHANGED <<prices, version, unsaid, cacheVars, seed>>

(* close_prices is one SELECT; 422 when it aligns fewer than two dates.      *)
CovCompute(r) ==
  /\ cov[r].at \in {"missed", "direct"}
  /\ cov' = [cov EXCEPT
       ![r].at = IF ~Enough(Securities) THEN "refused"
                 ELSE IF cov[r].at = "direct" THEN "served" ELSE "computed",
       ![r].matrix = [of |-> version, epoch |-> cov[r].epoch]]
  /\ UNCHANGED <<prices, version, unsaid, cacheVars, seed>>

(* The SET goes to the key made at the beginning; a RedisError is ignored,   *)
(* whether the SET was done or not.                                          *)
KeyOfStore(r) == gen
Key(r) == cov[r].gen

CovStore(r) ==
  /\ cov[r].at = "computed"
  /\ cov' = [cov EXCEPT ![r].at = "served"]
  /\ keys' \in {keys, [keys EXCEPT ![Key(r)] = cov[r].matrix]}
  /\ UNCHANGED <<prices, version, unsaid, gen, epoch, floor, announced, seed>>

(* The time to live of a key is over.                                        *)
KeyExpires(g) ==
  /\ keys[g] # NoEntry
  /\ keys' = [keys EXCEPT ![g] = NoEntry]
  /\ UNCHANGED <<prices, version, unsaid, gen, epoch, floor, announced, cov, seed>>

(* Redis comes back empty, and the counter counts from nothing again.        *)
RedisRestarts ==
  /\ epoch < MaxRestarts
  /\ epoch' = epoch + 1
  /\ gen' = 0
  /\ keys' = [g \in Versions |-> NoEntry]
  /\ floor' = [floor EXCEPT ![epoch + 1][0] = announced]
  /\ UNCHANGED <<prices, version, unsaid, announced, cov, seed>>

-----------------------------------------------------------------------------
(* A writer of prices as the docstring of invalidate_price_cache wants it:   *)
(* the commit, and then the INCR.                                            *)
WritePrice(s, d) ==
  /\ version < MaxWrites
  /\ prices' = [prices EXCEPT ![s] = @ \cup {d}]
  /\ version' = version + 1
  /\ unsaid' = unsaid \cup {version + 1}
  /\ UNCHANGED <<cacheVars, cov, seed>>

Invalidate(v) ==
  /\ v \in unsaid
  /\ gen < MaxWrites
  /\ unsaid' = unsaid \ {v}
  /\ gen' = gen + 1
  /\ announced' = IF v > announced THEN v ELSE announced
  /\ floor' = [floor EXCEPT ![epoch][gen + 1] = announced']
  /\ UNCHANGED <<prices, version, keys, epoch, cov, seed>>

(* The INCR raises, whether it was done or not: nothing is promised.         *)
InvalidateFails(v) ==
  /\ v \in unsaid
  /\ unsaid' = unsaid \ {v}
  /\ \/ UNCHANGED <<gen, floor>>
     \/ /\ gen < MaxWrites
        /\ gen' = gen + 1
        /\ floor' = [floor EXCEPT ![epoch][gen + 1] = announced]
  /\ UNCHANGED <<prices, version, keys, epoch, announced, cov, seed>>

-----------------------------------------------------------------------------
(* seed_market_data, its securities found: each point is looked for, and     *)
(* added if it was not seen; one commit, against the unique (security, date). *)
(* It never bumps the counter.                                               *)
Stored(p) == p[2] \in prices[p[1]]

SeedBegin(l) ==
  /\ seed[l].at = "idle"
  /\ seed' = [seed EXCEPT ![l].at = "looking", ![l].todo = Seeded]
  /\ UNCHANGED <<prices, version, unsaid, cacheVars, cov>>

SeedLook(l, p) ==
  /\ seed[l].at = "looking" /\ p \in seed[l].todo
  /\ seed' = [seed EXCEPT ![l].todo = @ \ {p},
                          ![l].adding = IF Stored(p) THEN @ ELSE @ \cup {p}]
  /\ UNCHANGED <<prices, version, unsaid, cacheVars, cov>>

SeedCommit(l) ==
  /\ seed[l].at = "looking" /\ seed[l].todo = {}
  /\ \A p \in seed[l].adding : ~Stored(p)
  /\ version < MaxWrites
  /\ prices' = [s \in Securities |-> prices[s] \cup {d \in Dates : <<s, d>> \in seed[l].adding}]
  /\ version' = version + 1
  /\ seed' = [seed EXCEPT ![l].at = "seeded"]
  /\ UNCHANGED <<unsaid, cacheVars, cov>>

SeedLoses(l) ==
  /\ seed[l].at = "looking"
  /\ \E p \in seed[l].adding : Stored(p)
  /\ seed' = [seed EXCEPT ![l].at = "error"]
  /\ UNCHANGED <<prices, version, unsaid, cacheVars, cov>>

CacheNext ==
  \/ \E r \in Readers :
       CovBegin(r) \/ CovHit(r) \/ CovMiss(r) \/ CovDegrade(r) \/ CovCompute(r) \/ CovStore(r)
  \/ \E g \in Versions : KeyExpires(g)
  \/ RedisRestarts
  \/ \E s \in Securities, d \in Dates : WritePrice(s, d)
  \/ \E v \in Versions : Invalidate(v) \/ InvalidateFails(v)

SeedNext ==
  \E l \in Loaders :
    SeedBegin(l) \/ (\E p \in Points : SeedLook(l, p)) \/ SeedCommit(l) \/ SeedLoses(l)

PriceNext == CacheNext \/ SeedNext
PriceSpec == PriceInit /\ [][PriceNext]_priceVars

-----------------------------------------------------------------------------
(* A matrix that is served was computed from prices at least as new as the   *)
(* last write that had bumped the counter when the call began, whatever was  *)
(* in flight.  The exception is a matrix stored by a call that had read the  *)
(* counter before Redis lost it, and served to one that read it after.       *)
Fresh(r) == cov[r].matrix.epoch = cov[r].epoch => cov[r].matrix.of >= cov[r].promised

ServesAnnounced == \A r \in Readers : cov[r].at = "served" => Fresh(r)

(* The inductive invariant: no key of a generation is older than what had    *)
(* been announced when the counter reached it, in the epoch it was stored    *)
(* from, and a call knows the generation of what it was promised.            *)
KeyFresh(g) ==
  /\ keys[g].of >= floor[keys[g].epoch][g]
  /\ keys[g].epoch <= epoch
  /\ keys[g].epoch = epoch => g <= gen

Keyed(r) ==
  /\ cov[r].epoch <= epoch
  /\ cov[r].epoch = epoch => cov[r].gen <= gen
  /\ cov[r].promised = floor[cov[r].epoch][cov[r].gen]

KeysFresh == \A g \in Versions : keys[g] # NoEntry => KeyFresh(g)

CallFresh(r) ==
  /\ cov[r].at \in {"keyed", "missed", "direct", "computed"} => cov[r].promised <= announced
  /\ cov[r].at \in {"keyed", "missed", "computed"} => Keyed(r)
  /\ cov[r].at = "computed" =>
       cov[r].matrix.of >= cov[r].promised /\ cov[r].matrix.epoch = cov[r].epoch
  /\ cov[r].at = "served" => Fresh(r)

Counted ==
  /\ announced <= version
  /\ \A v \in unsaid : v <= version
  /\ floor[epoch][gen] = announced

CacheInv ==
  PriceTypeOK /\ Counted /\ KeysFresh /\ \A r \in Readers : CallFresh(r)
=============================================================================
