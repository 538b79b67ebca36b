----------------------------- MODULE QuotePricing -----------------------------
(***************************************************************************)
(* The quote of a case: work items are accepted with the values of their   *)
(* parameters, a recalculation prices every item by the profile of its     *)
(* work type and stores an economy, a standard and a premium variant, each *)
(* with its lines.  With no item it can price, it falls back to the area   *)
(* and the materials of the analysis.                                      *)
(*                                                                         *)
(* The code computes in binary fractions and rounds every amount to cents, *)
(* half up (a billionth is added first); here amounts are cents and        *)
(* percentages of them are rounded half up, which is the same number.  A   *)
(* line keeps its type and price; names, units and sort order are left     *)
(* out, as are parameters no price reads.                                  *)
(***************************************************************************)
EXTENDS Integers, Sequences, FiniteSets, SequencesExt

CONSTANTS
    Schemas, Profiles,  \* of each work type, the parameters of an item and the formula of its price
    Amounts,            \* the whole numbers tried as a quantity or a count
    Books,              \* the rates of the company's price lists, by their names
    FirstBook,          \* the list it starts with, if it starts with one
    NoBook,
    Analyses,           \* the results an analysis may have
    NoAnalysis,
    MixedTypes,         \* the work types tried together in one case
    MaxCaseItems        \* bound: items of a case

VARIABLES
    books,      \* the price lists of the company
    defaults,   \* those marked as the default
    opening,    \* a new default being created -> the defaults it has unmarked
    analysis,   \* the latest analysis of the case
    items,      \* the accepted work items
    mixing,     \* bound: whether plain items meet everything else
    quote,      \* the stored variants, with the source and the items they price
    outcome     \* how the last recalculation ended

quoteVars == <<books, defaults, opening, analysis, items, mixing, quote, outcome>>

Tiers == <<"economy", "standard", "premium">>
NoQuote == [source |-> "none", priced |-> {}, variants |-> <<>>]

ASSUME QuotePricingConstants ==
    /\ DOMAIN Schemas = DOMAIN Profiles /\ MixedTypes \subseteq DOMAIN Profiles
    /\ Amounts \subseteq Nat /\ MaxCaseItems \in Nat
    /\ FirstBook \in DOMAIN Books /\ NoBook \notin DOMAIN Books /\ NoAnalysis \notin Analyses

-----------------------------------------------------------------------------
(* What an item states.  A parameter without a value is not in the domain. *)

ProfileOf(item) == Profiles[item.type]
KeysOf(inputs) == {inputs[n].key : n \in DOMAIN inputs}
ParametersOf(type) == {param \in Schemas[type] : param.code \in KeysOf(Profiles[type].inputs)}

\* The values acceptance lets through: typed, within bounds, of the listed options.
ValuesOf(param) ==
    IF param.kind = "number" THEN {n \in Amounts : 100 * n \in param.domain} ELSE param.domain

\* The assignments an item may be accepted with: every required parameter has a
\* value, any other one may have one.
WithParameter(param, assignments) ==
    UNION {{(param.code :> v) @@ a : v \in ValuesOf(param)} : a \in assignments}
        \cup IF param.required THEN {} ELSE assignments

Acceptable == [type \in DOMAIN Profiles |-> FoldSet(WithParameter, {<<>>}, ParametersOf(type))]

\* What lines are computed from are numbers: the quantity of a rate is a number
\* wherever an item states it, a charge per job needs none, and neither a price list
\* nor an analysis has negative amounts (the request for a price list does not
\* refuse a negative rate; such a list is left out).
LineTypes == {"labor", "material", "other"}

ASSUME PricesAreNumbers ==
    /\ \A type \in DOMAIN Profiles :
          LET base == Profiles[type].base
              adjustments == Profiles[type].adjustments
          IN  /\ Profiles[type].minimum \in Nat
              /\ Len(base) \in Nat /\ DOMAIN base = 1..Len(base)
              /\ \A i \in DOMAIN base :
                    /\ base[i].line \in LineTypes /\ base[i].per \in Int
                    /\ base[i].line # "other" =>
                          /\ base[i].key # "constant"
                          /\ \A values \in Acceptable[type] :
                                base[i].key \in DOMAIN values => values[base[i].key] \in Int
              /\ Len(adjustments) \in Nat /\ DOMAIN adjustments = 1..Len(adjustments)
              /\ \A i \in DOMAIN adjustments :
                    adjustments[i].line \in LineTypes /\ adjustments[i].by \in Int
    /\ \A b \in DOMAIN Books :
          /\ Books[b].hourly \in Nat /\ Books[b].hours \in Nat /\ Books[b].vat \in Int
          /\ Books[b].margins \in [DOMAIN Tiers -> Nat]
    /\ \A result \in Analyses :
          result.area \in Nat /\ result.materials \in Seq([norm : Nat, price : Nat])

AnyItem ==
    UNION {{[type |-> type, values |-> values, profile |-> "active", book |-> NoBook] :
                values \in Acceptable[type]} : type \in DOMAIN Profiles}

\* One value for each parameter, the optional ones all given or all left out.
Plain(values, params) ==
    /\ \/ \A param \in params : param.code \in DOMAIN values
       \/ \A param \in params : param.code \in DOMAIN values => param.required
    /\ \A param \in params : param.code \in DOMAIN values =>
          values[param.code] = CHOOSE v \in ValuesOf(param) : TRUE

PlainItem == {item \in AnyItem : item.type \in MixedTypes /\ Plain(item.values, ParametersOf(item.type))}

\* Bound: any item is tried alone, and plain items of a few types with everything
\* else, be it another item, an analysis or a second price list.  Two items do not
\* meet the latter.
Alone == mixing /\ Len(items) < MaxCaseItems
Untouched == analysis = NoAnalysis /\ books \subseteq {FirstBook} /\ opening = <<>>

\* The items a setting can lead to: with the profile of the work type or with none,
\* with a price list of the company or the default one.
WithSetting(item, p, b) == [item EXCEPT !.profile = p, !.book = b]
Settled(someBooks) == {WithSetting(item, p, b) : item \in PlainItem, p \in {"active", "none"}, b \in someBooks}
BooksTried == {NoBook} \cup IF items = <<>> THEN books ELSE {}
ItemsTried ==
    IF ~mixing THEN IF items = <<>> THEN AnyItem ELSE {}
    ELSE IF items = <<>> \/ Untouched THEN Settled(BooksTried) ELSE {}

-----------------------------------------------------------------------------
(* Amounts.                                                                *)

Round(n, d) == (n + d \div 2) \div d
Total(amounts) == FoldLeft(LAMBDA sum, amount : sum + amount, 0, amounts)
SumOf(lines) == Total([i \in DOMAIN lines |-> lines[i].price])
TotalOf(lines, type) == Total([i \in DOMAIN lines |-> IF lines[i].type = type THEN lines[i].price ELSE 0])

Lacks(item) == ~ (KeysOf(ProfileOf(item).inputs) \subseteq DOMAIN item.values)

HasSource(rule, item) == rule.key = "constant" \/ rule.key \in DOMAIN item.values

\* Hours are thousandths and rates whole crowns, so their product is tenths of cents.
BasePrice(rule, item, rates) ==
    CASE rule.line = "labor" -> Round(item.values[rule.key] * rule.per * rates.hourly, 10)
      [] rule.line = "material" -> item.values[rule.key] * rule.per * 100
      [] OTHER -> rule.per * 100

BaseLine(rule, item, rates) ==
    [code |-> rule.code, type |-> rule.line, price |-> BasePrice(rule, item, rates)]

\* A rule without its quantity is passed over.
BaseLines(item, rates) ==
    FoldLeft(LAMBDA lines, rule :
                IF HasSource(rule, item) THEN Append(lines, BaseLine(rule, item, rates)) ELSE lines,
             <<>>, ProfileOf(item).base)

ConditionMatches(rule, item) ==
    /\ rule.key \in DOMAIN item.values
    /\ CASE rule.operator = "true" -> item.values[rule.key]
         [] rule.operator = "eq" -> item.values[rule.key] = rule.expected
         [] rule.operator = "gte" -> item.values[rule.key] >= rule.expected
         [] rule.operator = "lte" -> item.values[rule.key] <= rule.expected

\* A percentage is taken of all lines of its type so far, surcharges included.
AdjustmentAmount(rule, total) ==
    CASE rule.operation # "multiply" -> rule.by * 100
      [] total <= 0 -> 0
      [] OTHER -> Round(total * rule.by, 100)

WithLine(lines, code, type, price) ==
    Append(lines, [code |-> code, type |-> type, price |-> price])

Adjusted(lines, rule) ==
    LET amount == AdjustmentAmount(rule, TotalOf(lines, rule.line))
    IN  IF amount = 0 THEN lines ELSE WithLine(lines, rule.code, rule.line, amount)

ItemLines(item, rates) ==
    FoldLeft(LAMBDA lines, rule : IF ConditionMatches(rule, item) THEN Adjusted(lines, rule) ELSE lines,
             BaseLines(item, rates), ProfileOf(item).adjustments)

ToppedUp(lines, minimum) ==
    LET short == minimum - SumOf(lines)
    IN  IF short > 0 THEN WithLine(lines, "minimum-job-charge", "other", short) ELSE lines

\* Slip: the minimum is compared with the price after the margin.
PriceItemWithMargin(item, rates) ==
    ToppedUp(ItemLines(item, rates), Round(10000 * ProfileOf(item).minimum, 100 + rates.margins[1]))

\* The lines of an item, topped up to the minimum price of a job.
PriceItem(item, rates) == ToppedUp(ItemLines(item, rates), 100 * ProfileOf(item).minimum)

\* A variant: costs by type, the margin of its tier, and the tax.
Variant(costs, lines, margin, rates) ==
    LET subtotal == costs.labor + costs.material + costs.other
        exVat == subtotal + Round(subtotal * margin, 100)
        tax == Round(exVat * rates.vat, 100)
    IN  [labor |-> costs.labor, material |-> costs.material, other |-> costs.other,
         exVat |-> exVat, vat |-> tax, incVat |-> exVat + tax, lines |-> lines]

CostsOf(lines) ==
    [labor |-> TotalOf(lines, "labor"), material |-> TotalOf(lines, "material"),
     other |-> TotalOf(lines, "other")]

BuildVariants(lines, rates) ==
    [t \in DOMAIN Tiers |-> Variant(CostsOf(lines), lines, rates.margins[t], rates)]

\* Without items: work and materials by area, each tier by its own factors.
LaborFactor == <<100, 112, 122>>
MaterialFactor == <<100, 128, 160>>
OtherFactor == <<100, 108, 118>>

MaterialTotal(material, area) == Round(area * material.norm * material.price, 10)

FallbackVariant(tier, rates) ==
    LET area == analysis.area
        totals == [i \in DOMAIN analysis.materials |-> MaterialTotal(analysis.materials[i], area)]
        base == Total(totals)
        costs == [labor |-> Round(area * rates.hours * rates.hourly * LaborFactor[tier], 1000),
                  material |-> Round(base * MaterialFactor[tier], 100),
                  other |-> 3500 * OtherFactor[tier]]
        materials == [i \in DOMAIN totals |->
            [code |-> "material", type |-> "material",
             price |-> Round(totals[i] * MaterialFactor[tier], 100)]]
    IN  Variant(costs,
                <<[code |-> "labor", type |-> "labor", price |-> costs.labor]>> \o materials
                    \o <<[code |-> "other", type |-> "other", price |-> costs.other]>>,
                rates.margins[tier], rates)

-----------------------------------------------------------------------------
QuotesInit ==
    /\ mixing \in BOOLEAN
    /\ books \in IF mixing THEN {{}, {FirstBook}} ELSE {{FirstBook}}
    /\ defaults = books /\ opening = <<>> /\ analysis = NoAnalysis /\ items = <<>>
    /\ quote = NoQuote /\ outcome = "none"

\* An item is accepted with its values, the profile that prices its work type
\* unless the company's setting has none, and the price list of that setting, if any.
AcceptItem(item) ==
    /\ Len(items) < MaxCaseItems
    /\ items' = Append(items, item)
    /\ UNCHANGED <<books, defaults, opening, analysis, mixing, quote, outcome>>

\* A profile an item was accepted with is no longer active in the catalogue.
RetireProfile(i) ==
    /\ mixing /\ items[i].profile = "active"
    /\ items' = [items EXCEPT ![i].profile = "retired"]
    /\ UNCHANGED <<books, defaults, opening, analysis, mixing, quote, outcome>>

FinishAnalysis(result) ==
    /\ Alone /\ analysis = NoAnalysis
    /\ analysis' = result
    /\ UNCHANGED <<books, defaults, opening, items, mixing, quote, outcome>>

\* create_pricebook unmarks the default lists it sees and inserts its own; both
\* are committed together.  No constraint says there is one default.
OpenBook(b) ==
    /\ Alone
    /\ b \notin books \cup DOMAIN opening
    /\ opening' = [c \in DOMAIN opening \cup {b} |-> IF c = b THEN defaults ELSE opening[c]]
    /\ UNCHANGED <<books, defaults, analysis, items, mixing, quote, outcome>>

CommitBook(b) ==
    /\ books' = books \cup {b}
    /\ defaults' = (defaults \ opening[b]) \cup {b}
    /\ opening' = [c \in DOMAIN opening \ {b} |-> opening[c]]
    /\ UNCHANGED <<analysis, items, mixing, quote, outcome>>

\* Items without a profile, or with one that no longer resolves, are passed over.
Priceable == {i \in DOMAIN items : items[i].profile = "active"}
Measured == analysis # NoAnalysis /\ analysis.area > 0

\* The hourly rate of an item is its own list's, or the default's; where there are
\* two defaults the lookup raises.  It also raises where the item lacks an input.
Unpriceable(i) ==
    Lacks(items[i]) \/ (items[i].book = NoBook /\ Cardinality(defaults) > 1)

BookOf(i, default) == Books[IF items[i].book = NoBook THEN default ELSE items[i].book]

PricedLines(default) ==
    FoldLeft(LAMBDA lines, i :
                IF i \in Priceable THEN lines \o PriceItem(items[i], BookOf(i, default)) ELSE lines,
             <<>>, [i \in DOMAIN items |-> i])

\* Margins and tax are those of a default list, any if there are two.
QuoteFromItems(default) ==
    /\ Priceable # {} /\ \A i \in Priceable : ~Unpriceable(i)
    /\ quote' = [source |-> "items", priced |-> Priceable,
                 variants |-> BuildVariants(PricedLines(default), Books[default])]
    /\ outcome' = "quoted"
    /\ UNCHANGED <<books, defaults, opening, analysis, items, mixing>>

\* One item that cannot be priced fails the whole recalculation; the variants of
\* the one before stay.
QuoteFails ==
    /\ defaults # {} /\ \E i \in Priceable : Unpriceable(i)
    /\ outcome' = "failed"
    /\ UNCHANGED <<books, defaults, opening, analysis, items, mixing, quote>>

QuoteFromAnalysis(default) ==
    /\ Priceable = {} /\ Measured
    /\ quote' = [source |-> "analysis", priced |-> {},
                 variants |-> [t \in DOMAIN Tiers |-> FallbackVariant(t, Books[default])]]
    /\ outcome' = "quoted"
    /\ UNCHANGED <<books, defaults, opening, analysis, items, mixing>>

QuoteUnavailable ==
    /\ defaults # {} => Priceable = {} /\ ~Measured
    /\ outcome' = "unavailable"
    /\ UNCHANGED <<books, defaults, opening, analysis, items, mixing, quote>>

QuotesNext ==
    \/ \E item \in ItemsTried : AcceptItem(item)
    \/ \E i \in DOMAIN items : RetireProfile(i)
    \/ \E result \in Analyses : FinishAnalysis(result)
    \/ \E b \in DOMAIN Books : OpenBook(b)
    \/ \E b \in DOMAIN opening : CommitBook(b)
    \/ \E default \in defaults : QuoteFromItems(default)
    \/ \E default \in defaults : QuoteFromAnalysis(default)
    \/ QuoteFails \/ QuoteUnavailable

QuotesSpec == QuotesInit /\ [][QuotesNext]_quoteVars

-----------------------------------------------------------------------------
QuotesTypeOK ==
    /\ defaults \subseteq books /\ books \subseteq DOMAIN Books
    /\ \A b \in DOMAIN opening : b \in DOMAIN Books \ books /\ opening[b] \subseteq DOMAIN Books
    /\ analysis \in Analyses \cup {NoAnalysis} /\ mixing \in BOOLEAN
    /\ \A i \in DOMAIN items :
          /\ items[i].type \in DOMAIN Profiles /\ items[i].values \in Acceptable[items[i].type]
          /\ items[i].profile \in {"active", "none", "retired"}
          /\ items[i].book \in books \cup {NoBook}
    /\ quote.source \in {"none", "items", "analysis"}
    /\ outcome \in {"none", "quoted", "failed", "unavailable"}

\* The minimum prices of the items a quote prices.
MinimaOf(priced) ==
    [i \in DOMAIN items |-> IF i \in priced THEN 100 * ProfileOf(items[i]).minimum ELSE 0]

\* What the customer is asked for is what the lines of the quote say: the three
\* costs of every variant are accounted for by its lines (in a quote from an
\* analysis each line is rounded by itself, half a cent off at most), no item is
\* priced below the minimum of its work type, the margin and the tax only add,
\* and the variants differ by their margins alone.  Surcharges, the minimum and
\* the totals are computed apart, in _calculate_line_item, the item and the
\* variants.
QuoteAddsUp ==
    \A t \in DOMAIN quote.variants :
        LET v == quote.variants[t]
            costs == v.labor + v.material + v.other
        IN  /\ v.exVat >= costs /\ v.incVat = v.exVat + v.vat
            /\ quote.source = "items" =>
                  /\ SumOf(v.lines) = costs
                  /\ costs >= Total(MinimaOf(quote.priced))
                  /\ v.lines = quote.variants[1].lines
            /\ quote.source = "analysis" =>
                  2 * (SumOf(v.lines) - costs) \in -Len(v.lines)..Len(v.lines)

\* A value that asks for more work: a larger quantity, a shorter time to respond,
\* something else to be done, a worse damage.
HARDNESS == [minor |-> 1, moderate |-> 2, major |-> 3]

Harder(param, value, than) ==
    CASE param.kind = "boolean" -> value /\ ~than
      [] param.code = "response-time-hours" -> value < than
      [] param.code = "severity-band" -> HARDNESS[value] > HARDNESS[than]
      [] param.kind = "number" /\ param.code # "response-time-hours" -> value > than
      [] OTHER -> FALSE

TotalPrice(item, book) == SumOf(PriceItem(item, Books[book]))

\* More work is never cheaper: whichever work type the catalogue has, an item with
\* a larger quantity, a worse damage, an addition or a shorter time to respond
\* costs at least as much.  The tables, the surcharges that build on each other,
\* the thresholds, the minimum and the rounding decide this together; no guard of
\* the catalogue looks at it.
DearerWhenHarder ==
    \A i \in Priceable, book \in books : ~Lacks(items[i]) =>
        \A param \in ParametersOf(items[i].type) : param.code \in DOMAIN items[i].values =>
            \A value \in ValuesOf(param) :
                Harder(param, value, items[i].values[param.code]) =>
                    TotalPrice([items[i] EXCEPT !.values[param.code] = value], book)
                        >= TotalPrice(items[i], book)
=============================================================================
