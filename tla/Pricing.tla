------------------------------ MODULE Pricing ------------------------------
(***************************************************************************)
(* What a request is estimated at and what it is charged: PricingService   *)
(* (services/metered_billing.py) over the versioned catalogue              *)
(* (services/pricing_catalog.py).                                          *)
(*                                                                         *)
(* Money is counted in quanta of 0.0001, rates in 1/Unit of a quantum and  *)
(* markups in 1/Parts of the cost.  Every meter is rounded up twice.       *)
(***************************************************************************)
EXTENDS Integers, FiniteSets

CONSTANTS
    Catalogue,     \* rules that are seeded
    PricedModels,  \* models a request may be answered by
    NewRates,      \* rates of later versions
    ListPrice,     \* what the model registry lists for a token of each
    Quantities,    \* numbers of tokens
    Unit, Parts,   \* rates per quantum, parts of a markup
    MaxVersion,    \* bound: versions of a rule
    NoQuote        \* no request, no model

Meters == {"input_tokens", "output_tokens", "cached_tokens", "invoke"}
Rules  == [model: PricedModels \cup {NoQuote}, meter: Meters, version: Nat, rate: Nat, markup: Nat]

ASSUME PricingOK ==
    /\ Catalogue \subseteq Rules
    /\ \A rule \in Catalogue : rule.version = 1
    /\ NewRates \subseteq Nat
    /\ ListPrice \in [PricedModels -> Nat]
    /\ Quantities \subseteq Nat
    /\ Unit \in Nat \ {0} /\ Parts \in Nat \ {0}
    /\ MaxVersion \in Nat

VARIABLES
    rules,   \* PricingRule rows that are active
    quote    \* the request that is priced, NoQuote in between

pricingVars == <<rules, quote>>

PricingInit == rules = {} /\ quote = NoQuote

Repriced == IF quote = NoQuote THEN NoQuote ELSE [quote EXCEPT !.repriced = TRUE]

\* seed_pricing_catalog leaves what is there alone.
Seed ==
    /\ rules' = rules \cup
          {c \in Catalogue : \A rule \in rules : rule.version = 1 =>
                                  <<rule.model, rule.meter>> # <<c.model, c.meter>>}
    /\ quote' = Repriced

\* "a new version supersedes them instead"
Supersede(rule, rate) ==
    /\ rule \in rules
    /\ rule.version < MaxVersion
    /\ \A other \in rules :
          <<other.model, other.meter, other.version>> # <<rule.model, rule.meter, rule.version + 1>>
    /\ rules' = rules \cup {[rule EXCEPT !.version = @ + 1, !.rate = rate]}
    /\ quote' = Repriced

-----------------------------------------------------------------------------
\* Mutant: rounded to the nearest quantum.
RoundHalf(n, d) == (2 * n + d) \div (2 * d)

\* money: ROUND_UP
RoundUp(n, d) == (n + d - 1) \div d

\* A rule of the model goes before a general one, a later version before an
\* earlier one.
RulesFor(model, meter) ==
    LET own == {rule \in rules : rule.meter = meter /\ rule.model = model}
    IN  IF own # {} THEN own ELSE {rule \in rules : rule.meter = meter /\ rule.model = NoQuote}

Latest(some) == CHOOSE rule \in some : \A other \in some : other.version <= rule.version

ProviderPart(rule, quantity) == RoundUp(rule.rate * quantity, Unit)
CustomerPart(rule, quantity) == RoundUp(ProviderPart(rule, quantity) * (Parts + rule.markup), Parts)

\* calculate: meters that are not used or have no rule cost nothing.
Metered(model, use) == {m \in Meters : use[m] > 0 /\ RulesFor(model, m) # {}}

RuleOf(model, m) == Latest(RulesFor(model, m))

\* The sum over the meters that are charged.
InTotal(components) ==
    LET c == [m \in Meters |-> IF m \in DOMAIN components THEN components[m] ELSE 0]
    IN  c["input_tokens"] + c["output_tokens"] + c["cached_tokens"] + c["invoke"]

CustomerCost(model, use) ==
    InTotal([m \in Metered(model, use) |-> CustomerPart(RuleOf(model, m), use[m])])

ProviderCost(model, use) ==
    InTotal([m \in Metered(model, use) |-> ProviderPart(RuleOf(model, m), use[m])])

Use(input, output, cached, requests) ==
    [m \in Meters |-> CASE m = "input_tokens"  -> input
                        [] m = "output_tokens" -> output
                        [] m = "cached_tokens" -> cached
                        [] m = "invoke"        -> requests]

\* catalog_token_cost, rounded when it is charged.
Listed(model, use) ==
    RoundUp(ListPrice[model] * (use["input_tokens"] + use["output_tokens"]), Unit)

\* The estimate counts the request itself, the charge does not.
Estimate(model, input, output) ==
    /\ quote = NoQuote
    /\ LET use == Use(input, output, 0, 1)
       IN  quote' = [model |-> model, use |-> use, held |-> CustomerCost(model, use),
                     answered |-> NoQuote, used |-> use, charge |-> 0, cost |-> 0,
                     repriced |-> FALSE]
    /\ UNCHANGED rules

\* The request may have been answered by another model.
Charge(model, input, output, cached) ==
    /\ quote # NoQuote /\ quote.answered = NoQuote
    /\ LET used     == Use(input, output, cached, 0)
           customer == CustomerCost(model, used)
           free     == customer <= 0
       IN  quote' = [quote EXCEPT
                        !.answered = model, !.used = used,
                        !.charge = IF free THEN Listed(model, used) ELSE customer,
                        !.cost = IF free THEN Listed(model, used) ELSE ProviderCost(model, used)]
    /\ UNCHANGED rules

Forget == quote # NoQuote /\ quote' = NoQuote /\ UNCHANGED rules

PricingNext ==
    \/ Seed \/ Forget
    \/ \E rule \in rules, rate \in NewRates : Supersede(rule, rate)
    \/ \E model \in PricedModels, input, output \in Quantities :
          \/ Estimate(model, input, output)
          \/ \E cached \in Quantities : Charge(model, input, output, cached)

-----------------------------------------------------------------------------
(* Properties.                                                             *)

\* Cost of a use without any rounding, in 1/(Unit * Parts) of a quantum.
Exact(model, use) ==
    InTotal([m \in Metered(model, use) |->
                RuleOf(model, m).rate * use[m] * (Parts + RuleOf(model, m).markup)])

\* What a meter is rounded up by, at most.
Slack(model, use) ==
    InTotal([m \in Metered(model, use) |-> Unit * (2 * Parts + RuleOf(model, m).markup)])

\* A charge covers its cost with the markup and exceeds it by the rounding of
\* each meter only; and a request that used no more than was estimated, with
\* nothing cached, the same model and prices, is not charged more than was
\* held: it settles without an overage.
ChargeIsFair ==
    quote # NoQuote /\ quote.answered # NoQuote =>
        LET model == quote.answered  use == quote.used IN
        /\ quote.cost <= quote.charge
        /\ ~ quote.repriced /\ CustomerCost(model, use) > 0 =>
              /\ quote.charge * Unit * Parts >= Exact(model, use)
              /\ quote.charge * Unit * Parts < Exact(model, use) + Slack(model, use)
        /\ /\ ~ quote.repriced /\ model = quote.model
           /\ CustomerCost(model, use) > 0
           /\ use["cached_tokens"] = 0
           /\ use["input_tokens"] <= quote.use["input_tokens"]
           /\ use["output_tokens"] <= quote.use["output_tokens"]
           => quote.charge <= quote.held
=============================================================================
