------------------------------ MODULE Insights ------------------------------
(***************************************************************************)
(* The risk profile and what is computed from it: the recommended            *)
(* allocation, the efficient frontier and the goal projection (backend/crra, *)
(* backend/montecarlo), over the prices of PriceCache and the holdings of    *)
(* Dashboard.  The optimiser and the simulation are not modelled: they are   *)
(* functions of what is read here.                                          *)
(***************************************************************************)
EXTENDS PriceCache, Dashboard

CONSTANTS
  Owned,       \* the security that accounts hold
  NoProfile,   \* a user without a row in risk_profile
  Calls,       \* the requests; each is served once
  Todays       \* what date.today() can be

ASSUME OwnedAssumption ==
  /\ Owned \in Securities
  /\ NoProfile \notin [low : Nat, high : Nat, point : Nat]

VARIABLES
  profile,   \* the user's row of risk_profile: three columns
  changes,   \* its rows of the audit log
  risk       \* each request

insightVars == <<profile, changes, risk>>
vars == <<priceVars, dashVars, insightVars>>

-----------------------------------------------------------------------------
(* estimate_gamma in thousandths: the number of "sure" answers is the band.  *)
Edges == <<0, 500, 1000, 2000, 3500, 6000, 10000>>
Sures == 0..5

OpenEnded(k) ==
  [low |-> Edges[k + 1], high |-> Edges[Min({k + 2, 6})],
   point |-> (Edges[k + 1] + Edges[Min({k + 2, 6})]) \div 2]
Estimate(k) ==
  [low |-> Edges[k + 1], high |-> Edges[k + 2], point |-> (Edges[k + 1] + Edges[k + 2]) \div 2]

Bands == {Estimate(k) : k \in Sures}

(* The SELECTs of each endpoint, in the order of the code; a projection is   *)
(* made of an allocation.                                                    *)
Analysis ==
  [allocation |-> <<"profile", "universe", "prices">>,
   projection |-> <<"profile", "universe", "prices">>,
   frontier   |-> <<"universe", "prices", "holdings", "profile">>]

Call ==
  [at : {"idle", "assessed", "refused", "error"}]
    \cup [at : {"assessing"}, sures : Sures, loaded : Bands \cup {NoProfile}]
    \cup [at : {"analysing", "analysed"}, kind : DOMAIN Analysis, done : 0..4,
          gamma : {b.point : b \in Bands} \cup {NoProfile},
          universe : SUBSET Securities, placed : BOOLEAN]

InsightTypeOK ==
  /\ profile \in [low : Nat, high : Nat, point : Nat] \cup {NoProfile}
  /\ risk \in [Calls -> Call]

InsightInit ==
  /\ profile \in Bands \cup {NoProfile}
  /\ changes = {[old |-> NoProfile, new |-> b] : b \in {profile} \ {NoProfile}}
  /\ risk = [r \in Calls |-> [at |-> "idle"]]

Init == PriceInit /\ DashInit /\ InsightInit

-----------------------------------------------------------------------------
(* submit_questionnaire: the row is read, then inserted, or its columns that *)
(* differ from what was read are updated; user_id is unique.  A number of    *)
(* answers other than five is refused, as are the years, simulations and     *)
(* goal of a projection that are out of range.                               *)
Refuse(r) ==
  /\ risk[r].at = "idle"
  /\ risk' = [risk EXCEPT ![r] = [at |-> "refused"]]
  /\ UNCHANGED <<profile, changes>>

AssessRead(r, k) ==
  /\ risk[r].at = "idle"
  /\ risk' = [risk EXCEPT ![r] = [at |-> "assessing", sures |-> k, loaded |-> profile]]
  /\ UNCHANGED <<profile, changes>>

Column(r, c) ==
  IF risk[r].loaded = NoProfile \/ Estimate(risk[r].sures)[c] # risk[r].loaded[c]
  THEN Estimate(risk[r].sures)[c] ELSE profile[c]

AssessCommit(r) ==
  /\ risk[r].at = "assessing"
  /\ risk[r].loaded = NoProfile => profile = NoProfile
  /\ profile' = [low |-> Column(r, "low"), high |-> Column(r, "high"),
                 point |-> Column(r, "point")]
  /\ changes' = changes \cup {[old |-> risk[r].loaded, new |-> Estimate(risk[r].sures)]}
  /\ risk' = [risk EXCEPT ![r] = [at |-> "assessed"]]

AssessLoses(r) ==
  /\ risk[r].at = "assessing"
  /\ risk[r].loaded = NoProfile /\ profile # NoProfile
  /\ risk' = [risk EXCEPT ![r] = [at |-> "error"]]
  /\ UNCHANGED <<profile, changes>>

-----------------------------------------------------------------------------
(* The default window begins five years before its end, which is today unless *)
(* given: for 29 February there is no such day, and the ValueError is not     *)
(* caught.  A projection always takes the default.                           *)
NoSuchDay(d) == d[3] > DaysIn(d[1] - 5, d[2])

AnalyseBegin(r, kind, today, defaulted) ==
  /\ risk[r].at = "idle"
  /\ kind = "projection" => defaulted
  /\ risk' = [risk EXCEPT ![r] =
       IF defaulted /\ NoSuchDay(today) THEN [at |-> "error"]
       ELSE [at |-> "analysing", kind |-> kind, done |-> 0, gamma |-> NoProfile,
             universe |-> {}, placed |-> FALSE]]
  /\ UNCHANGED <<profile, changes>>

NextSelect(r, select) ==
  /\ risk[r].at = "analysing" /\ risk[r].done < Len(Analysis[risk[r].kind])
  /\ Analysis[risk[r].kind][risk[r].done + 1] = select
  /\ UNCHANGED <<profile, changes>>

Take(r, field, found) ==
  risk' = [risk EXCEPT ![r].done = @ + 1, ![r][field] = found]
Refused(r) == risk' = [risk EXCEPT ![r] = [at |-> "refused"]]

(* Without a profile an allocation is a 404; a frontier has no optimal point.*)
AnalyseProfile(r) ==
  /\ NextSelect(r, "profile")
  /\ IF profile # NoProfile THEN Take(r, "gamma", profile.point)
     ELSE IF risk[r].kind = "frontier" THEN Take(r, "gamma", NoProfile)
     ELSE Refused(r)

Universe == {s \in Securities : Enough({s})}

AnalyseUniverse(r) ==
  /\ NextSelect(r, "universe")
  /\ IF Universe # {} THEN Take(r, "universe", Universe) ELSE Refused(r)

AnalysePrices(r) ==
  /\ NextSelect(r, "prices")
  /\ IF Enough(risk[r].universe) THEN Take(r, "placed", FALSE) ELSE Refused(r)

(* The user's own portfolio, if he holds a security of the universe.         *)
AnalyseHoldings(r) ==
  /\ NextSelect(r, "holdings")
  /\ Take(r, "placed", Owned \in risk[r].universe /\ \E a \in Opened : accounts[a].held > 0)

AnalyseEnd(r) ==
  /\ risk[r].at = "analysing" /\ risk[r].done = Len(Analysis[risk[r].kind])
  /\ risk' = [risk EXCEPT ![r].at = "analysed"]
  /\ UNCHANGED <<profile, changes>>

InsightNext ==
  \E r \in Calls :
    \/ Refuse(r) \/ (\E k \in Sures : AssessRead(r, k))
    \/ AssessCommit(r) \/ AssessLoses(r)
    \/ \E k \in DOMAIN Analysis, d \in Todays, b \in BOOLEAN : AnalyseBegin(r, k, d, b)
    \/ AnalyseProfile(r) \/ AnalyseUniverse(r) \/ AnalysePrices(r) \/ AnalyseHoldings(r)
    \/ AnalyseEnd(r)

Next ==
  \/ PriceNext /\ UNCHANGED <<dashVars, insightVars>>
  \/ DashNext /\ UNCHANGED <<priceVars, insightVars>>
  \/ InsightNext /\ UNCHANGED <<priceVars, dashVars>>

Spec == Init /\ [][Next]_vars

-----------------------------------------------------------------------------
(* Whatever questionnaires raced, the three columns are one band of the      *)
(* ladder, one that an audit row says was stored; and the gamma an analysis   *)
(* was made with is the midpoint of such a band.                             *)
BandIsWhole ==
  /\ profile # NoProfile => \E x \in changes : x.new = profile
  /\ \A r \in Calls : risk[r].at = "analysed" =>
       risk[r].gamma = NoProfile \/ \E x \in changes : x.new.point = risk[r].gamma

-----------------------------------------------------------------------------
(* The inductive invariant: those of the cache and of the dashboard, and that *)
(* a row of risk_profile is never taken away, so that who has read one writes *)
(* over one.                                                                 *)
Recorded(gamma) == gamma = NoProfile \/ \E x \in changes : x.new.point = gamma

ProfileInv ==
  /\ profile \in Bands \cup {NoProfile}
  /\ \A r \in Calls :
       /\ risk[r].at = "assessing" /\ risk[r].loaded # NoProfile => profile # NoProfile
       /\ risk[r].at \in {"analysing", "analysed"} => Recorded(risk[r].gamma)

InsightInv == InsightTypeOK /\ ProfileInv /\ BandIsWhole

IInv == CacheInv /\ DashInv /\ InsightInv
=============================================================================
