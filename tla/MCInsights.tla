----------------------------- MODULE MCInsights -----------------------------
(***************************************************************************)
(* Insights for TLC.  The cache, the dashboard and the analyses are run one  *)
(* at a time, for they share tables and no request: MCNext is Next with the  *)
(* condition under which each of its parts is tried.                         *)
(***************************************************************************)
EXTENDS Insights, TLC

CONSTANTS s1, s2, a1, a2, l1, l2

MCFirstPrices ==
  {s1 :> Dates @@ s2 :> Dates, s1 :> {1, 2} @@ s2 :> {2, 3}, s1 :> {1} @@ s2 :> {}}
MCSeeded == {<<s1, 2>>, <<s2, 2>>}
FullPrices == \A s \in Securities : prices[s] = Dates

Row(type, currency, cash, held) ==
  [type |-> type, currency |-> currency, cash |-> cash, held |-> held]
CashOnly == a1 :> Row("CASH", "SGD", 25, 0) @@ a2 :> NoAccount
MCFirstAccounts ==
  {CashOnly,
   a1 :> Row("CASH", "EUR", 25, 0) @@ a2 :> Row("BROKERAGE", "SGD", 0, 25),
   a1 :> Row("BROKERAGE", "EUR", 25, 25) @@ a2 :> Row("CPF_OA", "SGD", 25, 0)}

MCFxRates ==
  {[base |-> "SGD", quote |-> "USD", on |-> <<2024, 1, 2>>, rate |-> 2],
   [base |-> "EUR", quote |-> "SGD", on |-> <<2023, 1, 2>>, rate |-> 2],
   [base |-> "EUR", quote |-> "SGD", on |-> <<2024, 1, 2>>, rate |-> 1],
   [base |-> "SGD", quote |-> "EUR", on |-> <<2024, 2, 2>>, rate |-> 2]}
MCFlows ==
  {[kind |-> "expense", amount |-> 3, currency |-> "USD", on |-> <<2024, 2, 29>>],
   [kind |-> "income", amount |-> 2, currency |-> "EUR", on |-> <<2024, 3, 31>>]}
MCAsOf == <<2024, 3, 31>>
MCParameters ==
  {Defaults, [Defaults EXCEPT !.months = 0], [Defaults EXCEPT !.months = 1, !.real = 48],
   [Defaults EXCEPT !.months = 12 * 2024], [Defaults EXCEPT !.withdrawal = 0],
   [Defaults EXCEPT !.real = -200], [Defaults EXCEPT !.real = -5],
   [Defaults EXCEPT !.months = 7, !.real = 0]}
MCTodays == {<<2024, 2, 29>>, <<2024, 3, 31>>}

-----------------------------------------------------------------------------
Seeding == \E l \in Loaders : seed[l].at # "idle"
Caching ==
  \/ epoch > 0 \/ unsaid # {} \/ gen > 0 \/ (version > 0 /\ ~Seeding)
  \/ \E r \in Readers : cov[r].at # "idle"
Showing == \E q \in Queries : dash[q].at # "idle"
Advising == \E r \in Calls : risk[r].at # "idle"
Assessing == \E r \in Calls : risk[r].at \in {"assessing", "assessed", "error"}

MCInit ==
  /\ Init
  /\ accounts # CashOnly => FullPrices /\ profile = NoProfile
  /\ flows # {} => FullPrices /\ accounts # CashOnly
  /\ ~FullPrices => profile \in {NoProfile, Estimate(0)}

MCNext ==
  \/ /\ ~Seeding /\ ~Showing /\ ~Advising /\ accounts = CashOnly /\ profile = NoProfile
     /\ CacheNext /\ UNCHANGED <<dashVars, insightVars>>
  \/ /\ ~Caching /\ ~Showing /\ ~Assessing /\ accounts = CashOnly /\ ~FullPrices
     /\ SeedNext /\ UNCHANGED <<dashVars, insightVars>>
  \/ /\ ~Caching /\ ~Seeding /\ ~Advising /\ FullPrices /\ profile = NoProfile
     /\ DashNext /\ UNCHANGED <<priceVars, insightVars>>
  \/ /\ ~Caching /\ ~Showing
     /\ InsightNext /\ UNCHANGED <<priceVars, dashVars>>

MCSpec == MCInit /\ [][MCNext]_vars

OneLoaderWhileAdvising == Seeding /\ Advising => seed[l2].at = "idle" /\ ~Assessing
=============================================================================
