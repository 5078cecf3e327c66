------------------------------ MODULE Dashboard ------------------------------
(***************************************************************************)
(* The figures computed for a user (backend/dashboard, with the cash-flow    *)
(* engine, FX conversion, and the summaries the chatbot and the bot make of  *)
(* them).  A figure is the sum of what several SELECTs return one after the   *)
(* other, each seeing what is committed when it runs, while the user's other *)
(* requests change the ledger.  Amounts are in units of 1/Unit of the base    *)
(* currency, percentages are integers, dates are <<year, month, day>>.  Sums  *)
(* of money are exact, as the code's Decimals are to 28 digits; years_to_fi  *)
(* computes with doubles, whose losses are the constant Precision.           *)
(***************************************************************************)
EXTENDS Integers, Sequences, FiniteSetsExt, Functions

CONSTANTS
  Accounts, AccountTypes, Currencies,
  Base,          \* the base currency asked for
  ListedIn,      \* the currency of the security that accounts hold
  Amounts,       \* cash balances and cost bases; 0 is no holding
  Flows,         \* incomes and expenses that can be entered: records
  FxRates,       \* table fx_rates: [base, quote, on, rate]
  Unit,          \* a multiple of the rates that are used inversely
  AsOf,          \* the date of the figures
  Parameters,    \* of the cash-flow summary: months, and two rates in percent
  Precision,     \* sums of doubles lose at most 1/Precision of their terms: 2^50
  NoAccount,
  FirstAccounts, \* the tables accounts a run can begin with
  Queries,       \* the requests; each is served once
  MaxCommits     \* bound: commits that change the ledger

Account == [type : AccountTypes, currency : Currencies, cash : Amounts, held : Amounts]

Day == Nat \X Nat \X Nat

ASSUME DashboardAssumption ==
  /\ IsFiniteSet(Accounts) /\ IsFiniteSet(Flows) /\ IsFiniteSet(FxRates)
  /\ Amounts \subseteq Nat /\ 0 \in Amounts
  /\ NoAccount \notin Account
  /\ \A f \in Flows : f.amount \in Nat
  /\ Unit \in Nat /\ \A x \in FxRates : x.rate \in 1..Unit /\ x.on \in Day
  /\ Parameters \subseteq [months : Int, withdrawal : Int, real : Int]
  /\ Precision \in Nat \ {0}
  /\ FirstAccounts \subseteq [Accounts -> Account \cup {NoAccount}]
  /\ MaxCommits \in Nat

VARIABLES
  accounts,   \* each account: type, currency, cash, cost basis of its holding
  flows,      \* the incomes and expenses entered
  commits,    \* commits so far, for the bound
  dash        \* each request: what it has read; and history for the properties

dashVars == <<accounts, flows, commits, dash>>

Locked == {"CPF_OA", "CPF_SA", "CPF_MA", "SRS"}
Opened == {a \in Accounts : accounts[a] # NoAccount}

-----------------------------------------------------------------------------
(* Dates compare as Python's do.  _months_back clamps the day.               *)
UpTo(d, e) ==
  \/ d[1] < e[1]
  \/ d[1] = e[1] /\ d[2] < e[2]
  \/ d[1] = e[1] /\ d[2] = e[2] /\ d[3] <= e[3]

Leap(y) == (y % 4 = 0 /\ y % 100 # 0) \/ y % 400 = 0
DaysIn(y, m) ==
  IF m = 2 THEN IF Leap(y) THEN 29 ELSE 28 ELSE IF m \in {4, 6, 9, 11} THEN 30 ELSE 31

MonthsBack(d, months) ==
  LET total == d[1] * 12 + (d[2] - 1) - months
      y == total \div 12
      m == (total % 12) + 1
  IN <<y, m, Min({d[3], DaysIn(y, m)})>>

(* convert_as_of: a direct rate is preferred to an inverse one, even to a    *)
(* more recent inverse one.                                                  *)
Rates(f, t, d) == {x \in FxRates : x.base = f /\ x.quote = t /\ UpTo(x.on, d)}
Latest(S) == (CHOOSE x \in S : \A y \in S : UpTo(y.on, x.on)).rate

Convertible(f, d) == f = Base \/ Rates(f, Base, d) # {} \/ Rates(Base, f, d) # {}

Convert(amount, f, d) ==
  IF f = Base THEN amount * Unit
  ELSE IF Rates(f, Base, d) # {} THEN amount * Unit * Latest(Rates(f, Base, d))
  ELSE (amount * Unit) \div Latest(Rates(Base, f, d))

-----------------------------------------------------------------------------
(* What each SELECT returns: rows with an amount, a currency and a date.     *)
Cash(A) == {[of |-> a, amount |-> accounts[a].cash, currency |-> accounts[a].currency,
             on |-> AsOf] : a \in A}
Held(A) == {[of |-> a, amount |-> accounts[a].held, currency |-> ListedIn,
             on |-> AsOf] : a \in {b \in A : accounts[b].held > 0}}
Entered(kind, months) ==
  {f \in flows : f.kind = kind /\ UpTo(MonthsBack(AsOf, months), f.on) /\ UpTo(f.on, AsOf)}

AllAccounts == Opened
CashAccounts == {a \in Opened : accounts[a].type = "CASH"}
Unlocked == {a \in Opened : accounts[a].type \notin Locked}

Rows(statement, months) ==
  CASE statement = "cash"            -> Cash(Opened)
    [] statement = "held"            -> Held(Opened)
    [] statement = "income"          -> Entered("income", months)
    [] statement = "expenses"        -> Entered("expense", months)
    [] statement = "liquid"          -> Cash(CashAccounts)
    [] statement = "investable cash" -> Cash(Unlocked)
    [] statement = "investable held" -> Held(Unlocked)

Converted(R) == [x \in R |-> Convert(x.amount, x.currency, x.on)]
Total(R) == SumFunctionOnSet(Converted(R), R)
AllConvertible(R) == \A x \in R : Convertible(x.currency, x.on)

(* What the user is worth, if every account and holding can be converted.    *)
Worth ==
  IF AllConvertible(Cash(Opened) \cup Held(Opened))
  THEN {Total(Cash(Opened)) + Total(Held(Opened))} ELSE {}

(* The SELECTs of each endpoint, in the order of the code; chat is           *)
(* build_summary, and bot is the /summary of the Telegram bot.               *)
PositionUnlocked == <<"cash", "investable held">>
Position == <<"cash", "held">>
Cashflow == <<"income", "expenses", "liquid", "investable cash", "investable held">>
ChatSummary == Position \o Position \o Cashflow
BotSummary == Position \o Cashflow

Plan == [networth   |-> Position,
         allocation |-> Position,
         expenses   |-> <<"expenses">>,
         cashflow   |-> Cashflow,
         chat       |-> ChatSummary,
         bot        |-> BotSummary]

Valued == {"networth", "allocation", "chat", "bot"}
Projected == {"cashflow", "chat", "bot"}

(* What years_to_fi can say, and "none" for a request that does not ask it:   *)
(* 0.0, a number of years (which may be 0.0 or -0.0 too), None, a ValueError. *)
Years == {"none", "now", "later", "never", "error"}

Query ==
  [at : {"idle"}]
    \cup [at : {"reading", "answered", "refused", "error"}, kind : DOMAIN Plan, asked : Parameters,
          got : Seq(Nat), years : Years, moments : SUBSET Nat, between : 0..MaxCommits,
          closed : BOOLEAN, quiet : BOOLEAN]

DashTypeOK ==
  /\ accounts \in [Accounts -> Account \cup {NoAccount}]
  /\ flows \subseteq Flows
  /\ commits \in 0..MaxCommits
  /\ dash \in [Queries -> Query]

DashInit ==
  /\ accounts \in FirstAccounts
  /\ flows \in SUBSET Flows
  /\ commits = 0
  /\ dash = [q \in Queries |-> [at |-> "idle"]]

-----------------------------------------------------------------------------
(* The cash-flow engine on what has been read.  Only the cash-flow endpoint  *)
(* takes months and rates from the request; the defaults are 12, 4 and 5.    *)
Figure(q, statement) ==
  LET first == Len(Plan[dash[q].kind]) - Len(Cashflow)
      i == CHOOSE n \in DOMAIN Cashflow : Cashflow[n] = statement
  IN dash[q].got[first + i]

(* The three amounts years_to_fi is called with, each times months and the    *)
(* withdrawal rate, so that nothing is divided: capital (Scaled), annual     *)
(* contribution and FI number.                                               *)
Investable(q) == Figure(q, "investable cash") + Figure(q, "investable held")
Scaled(q, amount) == amount * (dash[q].asked.months * dash[q].asked.withdrawal)
Contribution(q) ==
  ((Figure(q, "income") - Figure(q, "expenses")) * 12) * dash[q].asked.withdrawal
FiNumber(q) == (Figure(q, "expenses") * 12) * 100

(* years_to_fi adds doubles.  What it finds of the sign of a sum is what is   *)
(* so, unless the sum is lost beside its terms, which are `size` together:   *)
(* then it may find either.                                                  *)
Positive(sum, size) ==
  IF -size < Precision * sum /\ Precision * sum < size THEN BOOLEAN ELSE {sum > 0}

(* The two sides of the logarithm are amount + pmt / r, here times |r|.      *)
Magnitude(n) == IF n < 0 THEN -n ELSE n
Terms(amount, pmt, r) == Magnitude(amount * r) + 100 * Magnitude(pmt)
Side(amount, pmt, r) ==
  Positive(IF r > 0 THEN amount * r + 100 * pmt ELSE -(amount * r + 100 * pmt),
           Terms(amount, pmt, r))

(* Short of the target, with r in percent.  log1p(r) raises for a return of   *)
(* -100% or less; with another negative return the number of years is        *)
(* negative, which is None, or -0.0 if the two sides are the same double.    *)
Ahead(pv, pmt, r, target) ==
  LET growing == {n /\ d : n \in Side(target, pmt, r), d \in Side(pv, pmt, r)}
      same == FALSE \in Positive((target - pv) * Magnitude(r), Terms(target, pmt, r))
  IN CASE r = 0     -> {IF pmt > 0 THEN "later" ELSE "never"}
       [] r > 0     -> {IF g THEN "later" ELSE "never" : g \in growing}
       [] r <= -100 -> {IF g THEN "error" ELSE "never" : g \in growing}
       [] OTHER     -> {"never"} \cup {y \in {"later"} : same /\ TRUE \in growing}

(* What years_to_fi can answer.                                              *)
YearsFor(pv, pmt, r, target) ==
  LET short == Positive(target - pv, target + pv)
  IN {y \in Years : \/ y = "now" /\ FALSE \in short
                    \/ y # "now" /\ TRUE \in short /\ y \in Ahead(pv, pmt, r, target)}

YearsToFiOfMonth(q) ==
  YearsFor(Scaled(q, Investable(q)), Contribution(q), dash[q].asked.real,
           Figure(q, "expenses") * 100)
YearsToFi(q) ==
  YearsFor(Scaled(q, Investable(q)), Contribution(q), dash[q].asked.real, FiNumber(q))

-----------------------------------------------------------------------------
(* months <= 0 is refused before anything is read; a window that begins       *)
(* before the calendar does is a ValueError of date().                       *)
Defaults == [months |-> 12, withdrawal |-> 4, real |-> 5]

Ask(q, kind, asked) ==
  /\ dash[q].at = "idle"
  /\ kind = "cashflow" \/ asked = Defaults
  /\ dash' = [dash EXCEPT ![q] =
       [at |-> IF asked.months <= 0 THEN "refused"
               ELSE IF kind = "cashflow" /\ MonthsBack(AsOf, asked.months)[1] < 1 THEN "error"
               ELSE "reading",
        kind |-> kind, asked |-> asked, got |-> <<>>, years |-> "none",
        moments |-> {}, between |-> 0,
        closed |-> FALSE, quiet |-> TRUE]]
  /\ UNCHANGED <<accounts, flows, commits>>

Reading(q) == dash[q].at = "reading" /\ Len(dash[q].got) < Len(Plan[dash[q].kind])
Result(q) == Rows(Plan[dash[q].kind][Len(dash[q].got) + 1], dash[q].asked.months)

(* The next SELECT and the conversion of its rows; a row without a rate is a *)
(* 422.                                                                      *)
Read(q) ==
  /\ Reading(q) /\ AllConvertible(Result(q))
  /\ dash' = [dash EXCEPT ![q].got = Append(@, Total(Result(q))),
                          ![q].moments = IF Len(dash[q].got) < 2 THEN @ \cup Worth ELSE @]
  /\ UNCHANGED <<accounts, flows, commits>>

NoRate(q) ==
  /\ Reading(q) /\ ~AllConvertible(Result(q))
  /\ dash' = [dash EXCEPT ![q].at = "refused"]
  /\ UNCHANGED <<accounts, flows, commits>>

(* fi_number raises on a withdrawal rate that is not positive, years_to_fi   *)
(* may: neither is caught.                                                   *)
Outcomes(q) ==
  IF dash[q].kind \notin Projected THEN {"none"}
  ELSE IF dash[q].asked.withdrawal <= 0 THEN {"error"} ELSE YearsToFi(q)

Answer(q) ==
  /\ dash[q].at = "reading" /\ ~Reading(q)
  /\ \E y \in Outcomes(q) :
       dash' = [dash EXCEPT ![q].at = IF y = "error" THEN "error" ELSE "answered",
                            ![q].years = y]
  /\ UNCHANGED <<accounts, flows, commits>>

-----------------------------------------------------------------------------
(* The commits of the user's other requests (their handlers are Ledger and   *)
(* Holdings).  What a commit means to the requests that are reading:         *)
Seen(q, change) ==
  IF dash[q].at # "reading" THEN dash[q]
  ELSE IF Len(dash[q].got) # 1 \/ change = "flow" THEN [dash[q] EXCEPT !.quiet = FALSE]
  ELSE [dash[q] EXCEPT !.quiet = FALSE, !.moments = @ \cup Worth',
                       !.between = @ + 1, !.closed = @ \/ change = "closing"]

Commit(change) ==
  /\ commits < MaxCommits
  /\ commits' = commits + 1
  /\ dash' = [q \in Queries |-> Seen(q, change)]

Open(a, type, currency, cash) ==
  /\ a \notin Opened
  /\ accounts' = [accounts EXCEPT ![a] = [type |-> type, currency |-> currency,
                                         cash |-> cash, held |-> 0]]
  /\ Commit("balance") /\ UNCHANGED flows

ChangeCash(a, currency, cash) ==
  /\ a \in Opened
  /\ accounts' = [accounts EXCEPT ![a].cash = cash, ![a].currency = currency]
  /\ Commit("balance") /\ UNCHANGED flows

ChangeHeld(a, held) ==
  /\ a \in Opened
  /\ accounts' = [accounts EXCEPT ![a].held = held]
  /\ Commit("balance") /\ UNCHANGED flows

Close(a) ==
  /\ a \in Opened
  /\ accounts' = [accounts EXCEPT ![a] = NoAccount]
  /\ Commit(IF accounts[a].held > 0 THEN "closing" ELSE "balance") /\ UNCHANGED flows

Enter(f) ==
  /\ f \notin flows
  /\ flows' = flows \cup {f}
  /\ Commit("flow") /\ UNCHANGED accounts

LedgerChanges ==
  \/ \E a \in Accounts :
       \/ \E t \in AccountTypes, c \in Currencies, n \in Amounts : Open(a, t, c, n)
       \/ \E c \in Currencies, n \in Amounts : ChangeCash(a, c, n)
       \/ \E n \in Amounts : ChangeHeld(a, n)
       \/ Close(a)
  \/ \E f \in Flows : Enter(f)

(* Bound: the ledger changes while a request reads.  Its earlier changes are *)
(* in FirstAccounts.                                                         *)
DashNext ==
  \/ \E q \in Queries :
       \/ \E k \in DOMAIN Plan, x \in Parameters : Ask(q, k, x)
       \/ Read(q) \/ NoRate(q) \/ Answer(q)
  \/ (\E q \in Queries : dash[q].at = "reading") /\ LedgerChanges

-----------------------------------------------------------------------------
(* The net worth that is answered is what the user was worth at some moment  *)
(* while it was read.  It may be the net worth of no moment when two commits *)
(* came between its SELECTs, or an account was closed with what it held.     *)
NetWorthOfAMoment ==
  \A q \in Queries :
    dash[q].at = "answered" /\ dash[q].kind \in Valued =>
      \/ dash[q].got[1] + dash[q].got[2] \in dash[q].moments
      \/ dash[q].between >= 2 \/ dash[q].closed

(* The figures of one answer agree, unless the ledger changed under it: cash *)
(* at hand is part of what is investable, that is part of the net worth; who *)
(* is told that financial independence is reached has a net worth that the    *)
(* FI number does not exceed, and who is not told so has less cash at hand    *)
(* than the FI number.  Both up to what doubles lose, and the cash-flow        *)
(* endpoint answers no net worth: there it is the investable capital.        *)
Exceeds(a, b) == a > b /\ Precision * (a - b) >= a + b
Assets(q) ==
  IF dash[q].kind = "cashflow" THEN Investable(q) ELSE dash[q].got[1] + dash[q].got[2]

FiguresAgree ==
  \A q \in Queries :
    dash[q].at = "answered" /\ dash[q].kind \in Projected /\ dash[q].quiet =>
      /\ Figure(q, "liquid") <= Investable(q)
      /\ Investable(q) <= Assets(q)
      /\ dash[q].years = "now" => ~Exceeds(FiNumber(q), Scaled(q, Assets(q)))
      /\ dash[q].years # "now" => ~Exceeds(Scaled(q, Figure(q, "liquid")), FiNumber(q))

-----------------------------------------------------------------------------
(* The inductive invariant.  While nothing disturbs a request, what it has    *)
(* read is what the same SELECTs would return now.                           *)
ReadAt(q, i) == Rows(Plan[dash[q].kind][i], dash[q].asked.months)

Undisturbed(q) ==
  \A i \in DOMAIN dash[q].got :
    AllConvertible(ReadAt(q, i)) /\ dash[q].got[i] = Total(ReadAt(q, i))

(* After the first SELECT of a net worth: the cash that was read is the cash   *)
(* there is, or one commit has changed it and the holdings are as they were   *)
(* at a moment that is recorded.                                             *)
HalfRead(q) ==
  \/ /\ AllConvertible(Cash(Opened))
     /\ dash[q].got[1] = Total(Cash(Opened))
     /\ dash[q].between = 0 => Worth \subseteq dash[q].moments
  \/ /\ dash[q].between > 0
     /\ AllConvertible(Held(Opened)) =>
          dash[q].got[1] + Total(Held(Opened)) \in dash[q].moments

Torn(q) == dash[q].between >= 2 \/ dash[q].closed

Progress(q) ==
  /\ dash[q].asked.months > 0
  /\ Len(dash[q].got) <= Len(Plan[dash[q].kind])
  /\ dash[q].between <= commits
  /\ dash[q].quiet => Undisturbed(q)
  /\ dash[q].kind \in Valued /\ ~Torn(q) =>
       /\ Len(dash[q].got) = 1 => HalfRead(q)
       /\ Len(dash[q].got) > 1 => dash[q].got[1] + dash[q].got[2] \in dash[q].moments

DashInv ==
  /\ DashTypeOK
  /\ \A q \in Queries : dash[q].at = "reading" => Progress(q)
  /\ NetWorthOfAMoment /\ FiguresAgree
=============================================================================
