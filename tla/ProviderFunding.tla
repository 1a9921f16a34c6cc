-------------------------- MODULE ProviderFunding --------------------------
(***************************************************************************)
(* The balance kept at one upstream provider                               *)
(* (services/provider_funding.py): costs of requests are taken off it,     *)
(* administrators configure and reconcile it, a task checks it.            *)
(*                                                                         *)
(* A cost is booked under a row lock, after the usage row was committed.   *)
(* Everything else loads the account and writes, later, the columns that   *)
(* differ from what it loaded.                                             *)
(***************************************************************************)
EXTENDS Integers, FiniteSets, Totals

CONSTANTS
    Bookers,         \* requests and tasks that may be under way
    Usages,          \* ids of requests that cost something
    CostOf,          \* what each of them costs
    Balances,        \* balances administrators enter
    Minima,          \* minimum balances administrators enter
    Tops,            \* whether and how the account is to be topped up
    FundingScenarios,\* the sets of hazards a behaviour may be exposed to
    NoAccount        \* no account, no balance, nothing under way

(***************************************************************************)
(*  "abort"  a process dies or the database fails                          *)
(*  "race"   costs are booked while the account is loaded to be written    *)
(***************************************************************************)
FundingHazards == {"abort", "race"}

ASSUME ProviderFundingOK ==
    /\ FundingScenarios \subseteq SUBSET FundingHazards
    /\ IsFiniteSet(Usages)
    /\ CostOf \in [Usages -> Nat \ {0}]
    /\ Balances \subseteq Nat /\ Minima \subseteq Nat
    /\ Tops \subseteq {"off", "recharge", "managed"}
    /\ NoAccount \notin Nat

VARIABLES
    perils,     \* what this behaviour is exposed to; never changes
    account,    \* the ProviderFundingAccount row
    logged,     \* requests with a UsageLog row
    booked,     \* how often the cost of each request was booked
    under,      \* what each booker is doing, NoAccount in between
    told,       \* auxiliary: the balance an administrator told last
    since,      \* auxiliary: requests booked since then
    judged      \* auxiliary: the status was set after the last configuration

fundingVars == <<perils, account, logged, booked, under, told, since, judged>>

Accounts == [current: Nat \cup {NoAccount}, estimated: Nat, minimum: Nat, top: Tops,
             monitored: BOOLEAN,
             status: {"unknown", "healthy", "low", "awaiting", "unsupported", "disabled"}]

FundingInit ==
    /\ perils \in FundingScenarios
    /\ account = NoAccount
    /\ logged = {}
    /\ booked = [u \in Usages |-> 0]
    /\ under = [b \in Bookers |-> NoAccount]
    /\ told = 0 /\ since = {} /\ judged = FALSE

Under(b, a)  == under[b] # NoAccount /\ under[b].at = a
Opened       == account # NoAccount
Loads(b)     == under[b] # NoAccount /\ under[b].at \in {"check", "reconcile", "configure"}
Undisturbed  == \A b \in Bookers : under[b] # NoAccount => "race" \in perils
Idle(b)      == under' = [under EXCEPT ![b] = NoAccount]

Less(balance, cost) == IF balance > cost THEN balance - cost ELSE 0

\* _effective_balance
Effective(a) == IF a.current # NoAccount THEN a.current ELSE a.estimated

-----------------------------------------------------------------------------
(* The cost of a request (BillingService.record_usage).                    *)

\* A request whose usage was logged before is left alone.
StartUsage(b, u) ==
    /\ under[b] = NoAccount
    /\ Undisturbed
    /\ u \notin logged
    /\ under' = [under EXCEPT ![b] = [at |-> "log", usage |-> u]]
    /\ UNCHANGED <<perils, account, logged, booked, told, since, judged>>

LogUsage(b) ==
    /\ Under(b, "log")
    /\ logged' = logged \cup {under[b].usage}
    /\ under' = [under EXCEPT ![b].at = "book"]
    /\ UNCHANGED <<perils, account, booked, told, since, judged>>

\* Mutant: the key of the event is not looked up.
KnownNever(u) == FALSE

\* An event with the key of the request.
Known(u) == booked[u] > 0

\* _balance_status
Standing(a) == IF Effective(a) <= a.minimum THEN "low" ELSE "healthy"

\* The account after a cost, looked up and written under its lock.
Charged(u) ==
    LET lower == [account EXCEPT !.estimated = Less(@, CostOf[u])]
        less  == [lower EXCEPT !.current = IF @ = NoAccount THEN NoAccount
                                           ELSE Less(@, CostOf[u])]
    IN  [less EXCEPT !.status = Standing(less)]

\* record_provider_cost
Book(b) ==
    /\ Under(b, "book")
    /\ LET u == under[b].usage IN
        IF ~ Opened \/ Known(u)
        THEN UNCHANGED <<account, booked, since, judged>>
        ELSE /\ account' = Charged(u)
             /\ booked' = [booked EXCEPT ![u] = @ + 1]
             /\ since' = since \cup {u}
             /\ judged' = TRUE
    /\ Idle(b)
    /\ UNCHANGED <<perils, logged, told>>

-----------------------------------------------------------------------------
(* Checks and administrators.                                              *)

\* monitor_provider_funding and the routes of administrators load the row.
Load(b, op) ==
    /\ under[b] = NoAccount
    /\ Undisturbed
    /\ \A c \in Bookers : ~ Loads(c)
    /\ op # "configure" => Opened
    /\ under' = [under EXCEPT ![b] = [at |-> op, copy |-> account]]
    /\ UNCHANGED <<perils, account, logged, booked, told, since, judged>>

\* A flush writes the columns that differ from the loaded object.
Flushed(copy, new) ==
    [c \in DOMAIN account |-> IF new[c] = copy[c] THEN account[c] ELSE new[c]]

\* check_account
Verdict(a) ==
    IF ~ a.monitored THEN "disabled"
    ELSE IF Effective(a) > a.minimum THEN "healthy"
    ELSE CASE a.top = "recharge" -> "awaiting"
           [] a.top = "managed"  -> "unsupported"
           [] a.top = "off"      -> "low"

CheckAccount(b) ==
    /\ Under(b, "check")
    /\ account' = Flushed(under[b].copy,
                          [under[b].copy EXCEPT !.status = Verdict(under[b].copy)])
    /\ judged' = TRUE
    /\ Idle(b)
    /\ UNCHANGED <<perils, logged, booked, told, since>>

Corrected(a, balance) == [[a EXCEPT !.current = balance] EXCEPT !.estimated = balance]

Reconcile(b, balance) ==
    /\ Under(b, "reconcile")
    /\ LET new == Corrected(under[b].copy, balance)
       IN  account' = Flushed(under[b].copy, [new EXCEPT !.status = Standing(new)])
    /\ told' = balance /\ since' = {} /\ judged' = TRUE
    /\ Idle(b)
    /\ UNCHANGED <<perils, logged, booked>>

\* Of an account that exists, the balances change only if a current one is
\* given or none is known.
Settings(a, current, estimated, minimum, top, monitored) ==
    LET balances ==
          IF current # NoAccount THEN [current |-> current, estimated |-> current]
          ELSE IF a = NoAccount \/ a.current = NoAccount
          THEN [current |-> NoAccount, estimated |-> estimated]
          ELSE [current |-> a.current, estimated |-> a.estimated]
    IN  [current |-> balances.current, estimated |-> balances.estimated,
         minimum |-> minimum, top |-> top, monitored |-> monitored,
         status |-> IF a = NoAccount THEN "unknown" ELSE a.status]

\* An estimate only matters if no current balance is given.
Guesses(current) == IF current = NoAccount THEN Balances ELSE {0}

\* configure: the unique provider refuses a second account.
Configure(b, current, estimated, minimum, top, monitored) ==
    /\ Under(b, "configure")
    /\ LET copy == under[b].copy
           new  == Settings(copy, current, estimated, minimum, top, monitored)
       IN  IF copy = NoAccount /\ Opened
           THEN UNCHANGED <<account, told, since, judged>>
           ELSE /\ account' = IF copy = NoAccount THEN new ELSE Flushed(copy, new)
                /\ IF copy = NoAccount \/ current # NoAccount \/ copy.current = NoAccount
                   THEN told' = new.estimated /\ since' = {}
                   ELSE UNCHANGED <<told, since>>
                /\ judged' = FALSE
    /\ Idle(b)
    /\ UNCHANGED <<perils, logged, booked>>

\* The process dies, or the monitor is unavailable: the cost is not booked.
Drop(b) ==
    /\ "abort" \in perils
    /\ under[b] # NoAccount
    /\ Idle(b)
    /\ UNCHANGED <<perils, account, logged, booked, told, since, judged>>

FundingNext ==
    \E b \in Bookers :
        \/ \E u \in Usages : StartUsage(b, u)
        \/ LogUsage(b) \/ Book(b) \/ CheckAccount(b) \/ Drop(b)
        \/ \E op \in {"check", "reconcile", "configure"} : Load(b, op)
        \/ \E balance \in Balances : Reconcile(b, balance)
        \/ \E current \in Balances \cup {NoAccount}, minimum \in Minima,
              top \in Tops, monitored \in BOOLEAN :
              \E estimated \in Guesses(current) :
                  Configure(b, current, estimated, minimum, top, monitored)

-----------------------------------------------------------------------------
(* Properties.                                                             *)

\* The cost of a request that is logged is taken off once, however often it
\* is recorded and whatever races.  As long as nothing changes between being
\* loaded and written, the balance is what was told last less what was booked
\* since, both balances agree, and the status that was set says whether it is
\* enough.
BalanceIsTold ==
    /\ \A u \in Usages : booked[u] <= 1 /\ (booked[u] = 1 => u \in logged)
    /\ Opened /\ "race" \notin perils =>
        /\ account.estimated = Less(told, Total(CostOf, since))
        /\ account.current \in {NoAccount, account.estimated}
        /\ judged /\ account.status # "disabled" =>
            (account.status = "healthy" <=> Effective(account) > account.minimum)
=============================================================================
