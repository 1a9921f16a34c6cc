---------------------------- MODULE ModelRouter ----------------------------
(***************************************************************************)
(* Choosing the model that answers a request, falling back to others, and  *)
(* keeping away from providers that fail (services/model_router.py and     *)
(* services/provider_health.py).                                           *)
(*                                                                         *)
(* Every server counts the consecutive failures of a provider by itself    *)
(* and stays away from it for a while after too many; a key in Redis makes *)
(* the others stay away too.                                               *)
(***************************************************************************)
EXTENDS Naturals, FiniteSets

CONSTANTS
    Requests,       \* requests that may be under way
    Servers,        \* server processes, each with its own health state
    Providers,      \* connected providers
    ModelsOf,       \* the models of each provider that fit the request
    Threshold,      \* consecutive failures that start a cooldown
    RouterScenarios,\* the sets of hazards a behaviour may be exposed to
    NoRequest       \* no request, no model

(***************************************************************************)
(*  "race"   requests run at the same time, on one server                  *)
(*  "redis"  Redis does not answer in time                                 *)
(***************************************************************************)
RouterHazards == {"race", "redis"}

ASSUME ModelRouterOK ==
    /\ RouterScenarios \subseteq SUBSET RouterHazards
    /\ Threshold \in Nat \ {0}
    /\ \A p, q \in Providers : p # q => ModelsOf[p] \cap ModelsOf[q] = {}

\* The server on which requests race, if they do.
Busy          == CHOOSE w \in Servers : TRUE
Models        == UNION {ModelsOf[p] : p \in Providers}
ProviderOf(m) == CHOOSE p \in Providers : m \in ModelsOf[p]

\* A request under way: its candidates, those it tried, the one it called last
\* and those whose output its client has seen.
RequestRecords ==
    [at: {"check", "next", "called", "clear", "block"}, server: Servers,
     eligible: SUBSET Models, tried: SUBSET Models, model: Models \cup {NoRequest},
     spoke: SUBSET Models]

ASSUME NoRequestOK == NoRequest \notin RequestRecords

VARIABLES
    risks,      \* what this behaviour is exposed to; never changes
    failures,   \* consecutive failures of a provider, as each server counts
    cooling,    \* whether a server stays away from a provider
    blocked,    \* whether the provider has its key in Redis
    requests    \* what each request is doing

routerVars == <<risks, failures, cooling, blocked, requests>>

RouterInit ==
    /\ risks \in RouterScenarios
    /\ failures = [w \in Servers |-> [p \in Providers |-> 0]]
    /\ cooling = [w \in Servers |-> [p \in Providers |-> FALSE]]
    /\ blocked = [p \in Providers |-> FALSE]
    /\ requests = [r \in Requests |-> NoRequest]

InState(r, a) == requests[r] # NoRequest /\ requests[r].at = a

MayArrive(r, w) ==
    /\ requests[r] = NoRequest
    /\ \/ "race" \in risks /\ w = Busy
       \/ "race" \notin risks /\ \A q \in Requests : requests[q] = NoRequest

-----------------------------------------------------------------------------
(* The health of the providers.                                            *)

\* record_failure: the count never stops at the threshold, but no more of it
\* is ever looked at.
Counted(w, ps) ==
    [failures EXCEPT ![w] =
        [p \in Providers |-> IF p \in ps /\ @[p] < Threshold THEN @[p] + 1 ELSE @[p]]]

Cooled(w, ps) ==
    [cooling EXCEPT ![w] =
        [p \in Providers |-> @[p] \/ (p \in ps /\ failures'[w][p] >= Threshold)]]

\* The key counts for nothing while Redis does not answer.
Available(w, p) == ~ cooling[w][p] /\ (~ blocked[p] \/ "redis" \in risks)

CooldownEnds(w, p) ==
    /\ cooling[w][p]
    /\ cooling' = [cooling EXCEPT ![w][p] = FALSE]
    /\ UNCHANGED <<risks, failures, blocked, requests>>

KeyExpires(p) ==
    /\ blocked[p]
    /\ blocked' = [blocked EXCEPT ![p] = FALSE]
    /\ UNCHANGED <<risks, failures, cooling, requests>>

-----------------------------------------------------------------------------
(* Candidates.                                                             *)

\* invoke_fixed tries the models of one provider, whatever its health.
ReceiveFixed(r, w, p) ==
    /\ MayArrive(r, w)
    /\ requests' = [requests EXCEPT ![r] =
                       [at |-> "next", server |-> w, eligible |-> ModelsOf[p], tried |-> {},
                        model |-> NoRequest, spoke |-> {}]]
    /\ UNCHANGED <<risks, failures, cooling, blocked>>

\* route_with_fallback asks every provider for its models; one that cannot
\* tell has failed and is no candidate.
Receive(r, w, silent) ==
    /\ MayArrive(r, w)
    /\ failures' = Counted(w, silent)
    /\ cooling' = Cooled(w, silent)
    /\ blocked' = [p \in Providers |->
                      \/ blocked[p]
                      \/ (p \in silent /\ cooling'[w][p] /\ "redis" \notin risks)]
    /\ requests' = [requests EXCEPT ![r] =
                       [at |-> "check", server |-> w, tried |-> {}, model |-> NoRequest,
                        eligible |-> UNION {ModelsOf[p] : p \in Providers \ silent},
                        spoke |-> {}]]
    /\ UNCHANGED risks

\* eligible_async, once for every request.
Check(r) ==
    /\ InState(r, "check")
    /\ requests' = [requests EXCEPT ![r] =
                       [@ EXCEPT !.at = "next",
                                 !.eligible = {m \in requests[r].eligible :
                                                  Available(requests[r].server, ProviderOf(m))}]]
    /\ UNCHANGED <<risks, failures, cooling, blocked>>

-----------------------------------------------------------------------------
(* Attempts, in an order that the scores decide.                           *)

Try(r, m) ==
    /\ InState(r, "next")
    /\ m \in requests[r].eligible \ requests[r].tried
    /\ requests' = [requests EXCEPT ![r] =
                       [@ EXCEPT !.at = "called", !.model = m,
                                 !.tried = requests[r].tried \cup {m}]]
    /\ UNCHANGED <<risks, failures, cooling, blocked>>

\* Some output reaches the client.
Speak(r) ==
    /\ InState(r, "called")
    /\ requests[r].model \notin requests[r].spoke
    /\ requests' = [requests EXCEPT ![r].spoke = @ \cup {requests[r].model}]
    /\ UNCHANGED <<risks, failures, cooling, blocked>>

Succeed(r) ==
    /\ InState(r, "called")
    /\ LET w == requests[r].server
           p == ProviderOf(requests[r].model)
       IN
       /\ failures' = [failures EXCEPT ![w][p] = 0]
       /\ cooling' = [cooling EXCEPT ![w][p] = FALSE]
    /\ requests' = [requests EXCEPT ![r].at = "clear"]
    /\ UNCHANGED <<risks, blocked>>

\* Mutant: the key is left to expire.
UnblockedNot(p) == blocked

Unblocked(p) == IF "redis" \in risks THEN blocked ELSE [blocked EXCEPT ![p] = FALSE]

Answer(r) ==
    /\ InState(r, "clear")
    /\ blocked' = Unblocked(ProviderOf(requests[r].model))
    /\ requests' = [requests EXCEPT ![r] = NoRequest]
    /\ UNCHANGED <<risks, failures, cooling>>

\* Mutant: the next model is tried although the client has seen output.
GoesOnAlways(r) == TRUE

\* After visible output another model would interleave two answers.
GoesOn(r) == requests[r].spoke = {}

OnwardFrom(r) ==
    IF GoesOn(r) THEN [requests[r] EXCEPT !.at = "next", !.model = NoRequest] ELSE NoRequest

\* The failure is counted and, with too many of them, the key is to be set.
Fail(r) ==
    /\ InState(r, "called")
    /\ LET w == requests[r].server
           p == ProviderOf(requests[r].model)
       IN
       /\ failures' = Counted(w, {p})
       /\ cooling' = Cooled(w, {p})
       /\ requests' = [requests EXCEPT ![r] =
                          IF failures'[w][p] >= Threshold THEN [@ EXCEPT !.at = "block"]
                          ELSE OnwardFrom(r)]
    /\ UNCHANGED <<risks, blocked>>

Block(r) ==
    /\ InState(r, "block")
    /\ blocked' = [blocked EXCEPT ![ProviderOf(requests[r].model)] = @ \/ "redis" \notin risks]
    /\ requests' = [requests EXCEPT ![r] = OnwardFrom(r)]
    /\ UNCHANGED <<risks, failures, cooling>>

GiveUp(r) ==
    /\ InState(r, "next")
    /\ requests[r].eligible = requests[r].tried
    /\ requests' = [requests EXCEPT ![r] = NoRequest]
    /\ UNCHANGED <<risks, failures, cooling, blocked>>

RouterNext ==
    \/ \E r \in Requests :
        \/ \E w \in Servers :
            \/ \E p \in Providers : ReceiveFixed(r, w, p)
            \/ \E silent \in SUBSET Providers : Receive(r, w, silent)
        \/ \E m \in Models : Try(r, m)
        \/ Check(r) \/ Speak(r) \/ Succeed(r) \/ Answer(r) \/ Fail(r) \/ Block(r) \/ GiveUp(r)
    \/ \E p \in Providers :
        \/ KeyExpires(p)
        \/ \E w \in Servers : CooldownEnds(w, p)

-----------------------------------------------------------------------------
(* Properties.                                                             *)

\* A client sees the output of one model only, and all of it if the request
\* is answered; a request that ends without any has tried every candidate
\* that was available.
AnswersAreWhole ==
    [][\A r \in Requests :
        LET q == requests[r] IN
        q # NoRequest /\ requests'[r] # q =>
            /\ Cardinality(q.spoke) <= 1
            /\ q.at = "clear" => q.spoke \subseteq {q.model}
            /\ requests'[r] = NoRequest /\ q.at # "clear" /\ q.spoke = {} =>
                q.tried = q.eligible]_routerVars

\* Between requests, the key of a provider means that some server has counted
\* too many failures and no success since; only requests that race and a
\* Redis that does not answer end that.
KeyMeansFailures ==
    risks = {} /\ (\A r \in Requests : requests[r] = NoRequest) =>
        \A p \in Providers : blocked[p] => \E w \in Servers : failures[w][p] >= Threshold
=============================================================================
