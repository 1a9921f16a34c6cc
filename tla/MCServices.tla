---------------------------- MODULE MCServices ----------------------------
(* Instances of KnowledgeSync, OAuthTokens, ModelRouter, ProviderFunding,  *)
(* Pricing and RequestLimits for TLC.  They share no state; a behaviour is *)
(* one of one of them.                                                     *)
EXTENDS KnowledgeSync, OAuthTokens, ModelRouter, ProviderFunding, Pricing, RequestLimits, TLC

CONSTANTS t1, t2, s1, s2, c1, c2, c3, w1, w2, r1, r2, p1, p2, m1, m2, b1, b2, u1, u2,
          v1, v2

VARIABLE part

vars == <<part, syncVars, tokenVars, routerVars, fundingVars, pricingVars, limitVars>>

Init ==
    /\ SyncInit /\ TokensInit /\ RouterInit /\ FundingInit /\ PricingInit
    /\ LimitsInit
    /\ part \in {"sync", "tokens", "router", "funding", "pricing", "limits"}
    /\ part # "sync"    => exposed = {}
    /\ part # "tokens"  => threats = {} /\ ~ provider.rotates
    /\ part # "router"  => risks = {}
    /\ part # "funding" => perils = {}
    /\ part # "limits"  => straits = {}

Next ==
    /\ UNCHANGED part
    /\ \/ part = "sync"    /\ SyncNext
          /\ UNCHANGED <<tokenVars, routerVars, fundingVars, pricingVars, limitVars>>
       \/ part = "tokens"  /\ TokensNext
          /\ UNCHANGED <<syncVars, routerVars, fundingVars, pricingVars, limitVars>>
       \/ part = "router"  /\ RouterNext
          /\ UNCHANGED <<syncVars, tokenVars, fundingVars, pricingVars, limitVars>>
       \/ part = "funding" /\ FundingNext
          /\ UNCHANGED <<syncVars, tokenVars, routerVars, pricingVars, limitVars>>
       \/ part = "pricing" /\ PricingNext
          /\ UNCHANGED <<syncVars, tokenVars, routerVars, fundingVars, limitVars>>
       \/ part = "limits"  /\ LimitsNext
          /\ UNCHANGED <<syncVars, tokenVars, routerVars, fundingVars, pricingVars>>

Spec == Init /\ [][Next]_vars /\ SyncFairness

\* Every hazard on its own, and none.
EachOf(hazards) == {{}} \cup {{h} : h \in hazards}
EachSync   == EachOf(SyncHazards)
EachToken  == EachOf(TokenHazards)
EachRouter == EachOf(RouterHazards)
EachPeril  == EachOf(FundingHazards)
EachStrait == EachOf(LimitHazards)

\* Two providers with a model each.
SomeModels == p1 :> {m1} @@ p2 :> {m2}

Costs == u1 :> 1 @@ u2 :> 2

\* One model has rules of its own, the other a list price only.
Rule(model, meter, rate, markup) ==
    [model |-> model, meter |-> meter, version |-> 1, rate |-> rate, markup |-> markup]
SomeRules ==
    {Rule(m1, "input_tokens", 3, 1), Rule(m1, "output_tokens", 14, 1),
     Rule(m1, "cached_tokens", 1, 1), Rule(NoQuote, "invoke", 4, 2)}
SomePrices == m1 :> 0 @@ m2 :> 3
=============================================================================
