---------------------------- MODULE DealEconomics -----------------------------
(* The money of a deal: what was sold, what it will cost at completion, how   *)
(* far the two drifted, who carries the cost, and the roll-ups of a program   *)
(* and of the portfolio.  Pure functions; ControlTower keeps the rows.        *)
(* Amounts are whole cents, as stored and as the engine rounds them, half up; *)
(* rates have decimals beyond the cent, and the engine's products of hours    *)
(* and rates are exact until it rounds.  Percentages are ratios, and are      *)
(* compared by cross-multiplication.                                          *)
EXTENDS Integers, FiniteSets, Functions

CONSTANTS Roles, None,
          RateScale   \* an hour at rate 1 is worth 1/RateScale of a cent

(* A deal: [mode, model, contingency, hours, revenue, margin, cells]: hours,  *)
(* revenue and margin are the direct intake, cells the effort matrix summed   *)
(* over its phases.  The rate card: role -> [bill, cost, type] or None once   *)
(* the role was deleted.  Actuals: role or "_direct" -> None or               *)
(* [hours, cost, forecast, open], forecast and open None when left empty.     *)

\* Half up, of a / b for b > 0.
RoundDiv(a, b) == (2 * a + b) \div (2 * b)

\* Mutant: an empty field is a zero.
OrZero(x, default) == IF x = None THEN 0 ELSE x

Or(x, default) == IF x = None THEN default ELSE x

OnCard(card) == {r \in Roles : card[r] # None}

\* What the declared margin leaves of the declared revenue.
DirectCost(deal) == RoundDiv(deal.revenue * (100 - deal.margin), 100)

\* What the effort matrix sells, before any rounding; a cell of a role off the
\* card counts for nothing.
Matrix(deal, card) ==
  [hours |-> SumFunction([r \in OnCard(card) |-> deal.cells[r]]),
   revenue |-> SumFunction([r \in OnCard(card) |-> deal.cells[r] * card[r].bill]),
   cost |-> SumFunction([r \in OnCard(card) |-> deal.cells[r] * card[r].cost])]

\* What is sold, in both estimation modes.  Contingency is for fixed fees only.
Totals(deal, card) ==
  LET direct == deal.mode = "direct"
      exact == IF direct THEN deal ELSE Matrix(deal, card)
      scale == IF direct THEN 1 ELSE RateScale
      revenue == RoundDiv(exact.revenue, scale)
      contingency == IF deal.model = "ff"
                     THEN RoundDiv(exact.revenue * deal.contingency, 100 * scale) ELSE 0
  IN [hours |-> exact.hours, revenue |-> revenue, contract |-> revenue + contingency]

(* ------------------------- estimate at completion ------------------------ *)

\* One row per role on the card, or the single blended row of a direct deal,
\* each rounded to a cent.  A row nobody forecast is assumed to land on its
\* sold hours.
EacKeys(deal, card) == IF deal.mode = "direct" THEN {"_direct"} ELSE OnCard(card)

EacRow(key, deal, card, actuals) ==
  LET blank == [hours |-> 0, cost |-> 0, forecast |-> None, open |-> None]
      a == IF actuals[key] = None THEN blank ELSE actuals[key]
      sold == IF key = "_direct" THEN deal.hours ELSE deal.cells[key]
      ahead == Or(a.forecast, sold) + Or(a.open, 0)
      cost == IF key # "_direct" THEN RoundDiv(ahead * card[key].cost, RateScale)
              ELSE IF deal.hours = 0 THEN 0
              ELSE RoundDiv(ahead * DirectCost(deal), deal.hours)
  IN [hours |-> a.hours, forecast |-> Or(a.forecast, sold), open |-> Or(a.open, 0),
      spent |-> a.cost, eac |-> a.cost + cost,
      contractor |-> key # "_direct" /\ card[key].type = "contractor"]

EacSummary(deal, card, actuals) ==
  LET row(k) == EacRow(k, deal, card, actuals)
      all(field) == SumFunction([k \in EacKeys(deal, card) |-> row(k)[field]])
  IN [hours |-> all("hours"), forecast |-> all("forecast"), open |-> all("open"),
      spent |-> all("spent"), eac |-> all("eac")]

\* Margins are shares [of, per], and none without revenue.  The sold one is
\* exact: a direct deal declares it.
SoldMargin(deal, card) ==
  LET exact == Matrix(deal, card)
  IN IF deal.mode = "direct" THEN [of |-> deal.margin, per |-> 100]
     ELSE IF exact.revenue = 0 THEN [of |-> 0, per |-> 1]
     ELSE [of |-> exact.revenue - exact.cost, per |-> exact.revenue]

\* The one at completion is between amounts rounded to cents.
EacMargin(deal, card, actuals) ==
  LET revenue == Totals(deal, card).revenue
  IN IF revenue = 0 THEN [of |-> 0, per |-> 1]
     ELSE [of |-> revenue - EacSummary(deal, card, actuals).eac, per |-> revenue]

\* Within a twentieth of a point of the sold margin it is no drift.  (The
\* difference is whole, so the band may be rounded down.)
DriftStatus(deal, card, actuals) ==
  LET sold == SoldMargin(deal, card)
      final == EacMargin(deal, card, actuals)
      drift == sold.of * final.per - final.of * sold.per
      band == (sold.per * final.per) \div 2000
  IN IF drift > band THEN "erosion" ELSE IF drift < -band THEN "upside" ELSE "on-baseline"

\* What share of the cost at completion sits on contractor roles.
ContractorExposure(deal, card, actuals) ==
  LET keys == {k \in EacKeys(deal, card) : EacRow(k, deal, card, actuals).contractor}
      row(k) == EacRow(k, deal, card, actuals)
  IN [applicable |-> deal.mode # "direct" /\ OnCard(card) # {},
      cost |-> SumFunction([k \in keys |-> row(k).eac]),
      hours |-> SumFunction([k \in keys |-> row(k).hours + row(k).forecast + row(k).open])]

\* Hours nobody is staffed against, as a share of all of them.
OpenDemandBand(eac) ==
  LET all == eac.hours + eac.forecast + eac.open
  IN IF all > 0 /\ 100 * eac.open >= 15 * all THEN "high"
     ELSE IF all > 0 /\ 100 * eac.open >= 5 * all THEN "medium" ELSE "low"

\* How much of the current estimate is spent, in percent, rounded down here.
BurnToDate(eac) == IF eac.eac > 0 THEN (100 * eac.spent) \div eac.eac ELSE 0

(* -------------------------------- roll-ups ------------------------------- *)

\* A program over the waves linked to it, every one of them whatever the
\* viewer's scope.
ProgramRollup(children, deals, card, actuals) ==
  LET eac(p) == EacSummary(deals[p], card, actuals[p])
      totals(p) == Totals(deals[p], card)
  IN [contract |-> SumFunction([p \in children |-> totals(p).contract]),
      revenue |-> SumFunction([p \in children |-> totals(p).revenue]),
      eac |-> SumFunction([p \in children |-> eac(p).eac]),
      open |-> SumFunction([p \in children |-> eac(p).open])]

\* The portfolio's value counts program containers too.
TotalValue(P, deals, card) == SumFunction([p \in P |-> Totals(deals[p], card).contract])
=============================================================================
