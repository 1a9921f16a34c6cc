--------------------------- MODULE WalletCredits ---------------------------
(***************************************************************************)
(* Money booked on a wallet outside metered requests by BillingService     *)
(* (app/services/billing.py): payments confirmed by a webhook, credits and *)
(* debits made by an administrator, refunds of debits, and the budget row  *)
(* they touch.                                                             *)
(*                                                                         *)
(* Every operation loads the wallet without a lock, checks whether it was  *)
(* done before, then locks the row.  The locking SELECT returns the object *)
(* loaded first (expire_on_commit=False, no populate_existing), so what is *)
(* written is computed from seen[h].  The unique idempotency key of the    *)
(* ledger is what stops a second booking.                                  *)
(***************************************************************************)
EXTENDS Integers, FiniteSets

CONSTANTS
    Handlers,     \* handlers that may run at once, each one job after the other
    Payments,     \* ids of payment events the provider delivers
    Grants,       \* references of administrator credits
    Debits,       \* references of administrator debits
    AmountOf,     \* amount of each reference
    Opening,      \* balance at the start
    BudgetLimit,  \* Budget.monthly_limit
    Overlap,      \* whether operations on the wallet overlap
    None          \* no lock owner, nothing loaded

Credits == Payments \cup Grants
Refs    == Credits \cup Debits

Entries == [kind: {"credit"}, ref: Credits]
              \cup [kind: {"debit", "refund"}, ref: Debits]

ASSUME ConstantsOK ==
    /\ IsFiniteSet(Refs)
    /\ Payments \cap Grants = {} /\ Credits \cap Debits = {}
    /\ AmountOf \in [Refs -> Nat \ {0}]
    /\ Opening \in Nat
    /\ BudgetLimit \in Nat
    /\ Overlap \in BOOLEAN
    /\ None \notin Handlers \cup Entries

VARIABLES
    wallet,      \* committed Wallet row
    posted,      \* number of WalletTransaction rows of each entry
    ledger,      \* entries with a BillingLedger row (unique idempotency key)
    processed,   \* payments with a ProcessedWebhookEvent row (unique event id)
    budget,      \* committed Budget row
    since,       \* auxiliary: amount debited since the last monthly reset
    walletLock,  \* owner of the FOR UPDATE lock
    job,         \* the entry each handler is to make, or made last
    pc, seen, seenBudget

tables   == <<wallet, posted, ledger, processed, budget, since>>
handlers == <<pc, seen, seenBudget>>
vars     == <<tables, walletLock, job, handlers>>

Wallets == [balance: Int, topups: Nat, spent: Nat]
Budgets == [spend: Nat, reached: BOOLEAN, warned90: BOOLEAN, warned80: BOOLEAN]

PCs == {"idle", "load", "lookup", "lock", "commit", "ledger", "record", "failed"}

Live(h)    == pc[h] \notin {"idle", "failed"}
Webhook(h) == job[h].ref \in Payments
Amount(h)  == AmountOf[job[h].ref]

\* A flush writes the columns that differ from the loaded object.
Dirty(current, loaded, new) == IF new = loaded THEN current ELSE new

FlushWallet(loaded, new) ==
    [balance |-> Dirty(wallet.balance, loaded.balance, new.balance),
     topups  |-> Dirty(wallet.topups, loaded.topups, new.topups),
     spent   |-> Dirty(wallet.spent, loaded.spent, new.spent)]

FlushBudget(loaded, new) ==
    [spend    |-> Dirty(budget.spend, loaded.spend, new.spend),
     reached  |-> Dirty(budget.reached, loaded.reached, new.reached),
     warned90 |-> Dirty(budget.warned90, loaded.warned90, new.warned90),
     warned80 |-> Dirty(budget.warned80, loaded.warned80, new.warned80)]

Unlock(h) == walletLock' = IF walletLock = h THEN None ELSE walletLock
Goto(h, label) == pc' = [pc EXCEPT ![h] = label]

Minus(a, b) == IF a > b THEN a - b ELSE 0

Init ==
    /\ wallet = [balance |-> Opening, topups |-> 0, spent |-> 0]
    /\ posted = [e \in Entries |-> 0]
    /\ ledger = {} /\ processed = {}
    /\ budget = [spend |-> 0, reached |-> FALSE, warned90 |-> FALSE, warned80 |-> FALSE]
    /\ since = 0
    /\ walletLock = None
    /\ job = [h \in Handlers |-> None]
    /\ pc = [h \in Handlers |-> "idle"]
    /\ seen = [h \in Handlers |-> None]
    /\ seenBudget = [h \in Handlers |-> None]

-----------------------------------------------------------------------------
\* Mutant: the event is marked as processed before the wallet is credited.
MarkOnReceipt(e) == processed \cup ({e.ref} \cap Payments)

\* What receiving a request writes to the processed events.
Receipt(e) == processed

\* References of administrator operations carry a timestamp: no two requests
\* have the same one.  Payments are delivered, refunds asked for, again.
Requestable(e) ==
    \/ e.ref \in Payments \/ e.kind = "refund"
    \/ posted[e] = 0 /\ \A h \in Handlers : job[h] # e

\* A handler that is free takes a request; a processed event is answered.
Receive(h, e) ==
    /\ ~ Live(h)
    /\ Requestable(e)
    /\ Overlap \/ \A g \in Handlers : ~ Live(g)
    /\ job' = [job EXCEPT ![h] = e]
    /\ IF e.ref \in processed
       THEN Goto(h, "idle") /\ UNCHANGED processed
       ELSE Goto(h, "load") /\ processed' = Receipt(e)
    /\ UNCHANGED <<wallet, posted, ledger, budget, since, walletLock, seen, seenBudget>>

\* A request that is not the payment provider's next attempt.
Request(h, e) ==
    /\ pc[h] = "failed" => ~ Webhook(h)
    /\ Receive(h, e)

\* The payment provider delivers again what was not acknowledged.
Redeliver(h) ==
    /\ pc[h] = "failed" /\ Webhook(h)
    /\ Receive(h, job[h])

\* What an unlocked SELECT in a new session returns.
Loaded(h) == wallet

\* get_wallet: an unlocked read that stays in the session.
Load(h) ==
    /\ pc[h] = "load"
    /\ seen' = [seen EXCEPT ![h] = Loaded(h)]
    /\ Goto(h, "lookup")
    /\ UNCHANGED <<tables, walletLock, job, seenBudget>>

\* The entry was made before: a credit or debit returns the transaction
\* with its reference (the webhook goes on to record the event), a refund
\* is an error.
LookupFound(h) ==
    /\ pc[h] = "lookup"
    /\ IF job[h].kind = "refund" THEN job[h] \in ledger ELSE posted[job[h]] > 0
    /\ Goto(h, IF Webhook(h) THEN "record" ELSE "idle")
    /\ UNCHANGED <<tables, walletLock, job, seen, seenBudget>>

\* Only an existing debit can be refunded.
LookupNoDebit(h) ==
    /\ pc[h] = "lookup"
    /\ job[h].kind = "refund"
    /\ posted[[kind |-> "debit", ref |-> job[h].ref]] = 0
    /\ Goto(h, "idle")
    /\ UNCHANGED <<tables, walletLock, job, seen, seenBudget>>

LookupNew(h) ==
    /\ pc[h] = "lookup"
    /\ IF job[h].kind = "refund"
       THEN /\ job[h] \notin ledger
            /\ posted[[kind |-> "debit", ref |-> job[h].ref]] > 0
       ELSE posted[job[h]] = 0
    /\ Goto(h, "lock")
    /\ UNCHANGED <<tables, walletLock, job, seen, seenBudget>>

\* Mutant: the balance is not compared with the debit.
CoveredAlways(h) == TRUE

Covered(h) == job[h].kind = "debit" => seen[h].balance >= Amount(h)

\* get_for_update, then the unlocked read of the budget.
Lock(h) ==
    /\ pc[h] = "lock"
    /\ walletLock = None
    /\ Covered(h)
    /\ walletLock' = h
    /\ seenBudget' = [seenBudget EXCEPT ![h] = budget]
    /\ Goto(h, "commit")
    /\ UNCHANGED <<tables, job, seen>>

\* InsufficientCredits.
DebitRefused(h) ==
    /\ pc[h] = "lock"
    /\ walletLock = None
    /\ ~ Covered(h)
    /\ Goto(h, "idle")
    /\ UNCHANGED <<tables, walletLock, job, seen, seenBudget>>

-----------------------------------------------------------------------------
(* The commit of each operation.                                           *)

\* Mutant: no unique key on the ledger.
KeyNeverTaken(h) == FALSE

KeyTaken(h) == job[h] \in ledger

\* IntegrityError at the commit: everything is rolled back.
Conflict(h) ==
    /\ pc[h] = "commit"
    /\ KeyTaken(h)
    /\ Unlock(h)
    /\ Goto(h, "failed")
    /\ UNCHANGED <<tables, job, seen, seenBudget>>

Booked(h) == ledger \cup {job[h]}

\* A budget that was used up opens again once there is money.
Reopened(h, balance, spend) ==
    IF seenBudget[h].reached /\ balance > 0
    THEN [seenBudget[h] EXCEPT !.reached = FALSE, !.spend = spend]
    ELSE seenBudget[h]

CreditCommit(h) ==
    LET after == seen[h].balance + Amount(h) IN
    /\ pc[h] = "commit" /\ job[h].kind = "credit" /\ ~ KeyTaken(h)
    /\ wallet' = FlushWallet(seen[h], [balance |-> after,
                                       topups |-> seen[h].topups + Amount(h),
                                       spent |-> seen[h].spent])
    /\ posted' = [posted EXCEPT ![job[h]] = @ + 1]
    /\ budget' = FlushBudget(seenBudget[h], Reopened(h, after, 0))
    /\ ledger' = Booked(h)
    /\ Unlock(h)
    /\ Goto(h, IF Webhook(h) THEN "record" ELSE "idle")
    /\ UNCHANGED <<processed, since, job, seen, seenBudget>>

RefundCommit(h) ==
    LET after == seen[h].balance + Amount(h) IN
    /\ pc[h] = "commit" /\ job[h].kind = "refund" /\ ~ KeyTaken(h)
    /\ wallet' = FlushWallet(seen[h], [balance |-> after,
                                       topups |-> seen[h].topups,
                                       spent |-> Minus(seen[h].spent, Amount(h))])
    /\ posted' = [posted EXCEPT ![job[h]] = @ + 1]
    /\ budget' = FlushBudget(seenBudget[h],
                     Reopened(h, after, Minus(seenBudget[h].spend, Amount(h))))
    /\ ledger' = Booked(h)
    /\ Unlock(h)
    /\ Goto(h, "idle")
    /\ UNCHANGED <<processed, since, job, seen, seenBudget>>

\* The notification a debit calls for, given the flags and the new spend.
Notice(b, spend) ==
    IF spend >= BudgetLimit /\ ~ b.reached THEN "limit_reached"
    ELSE IF 10 * spend >= 9 * BudgetLimit /\ ~ b.warned90 THEN "warning_90"
    ELSE IF 10 * spend >= 8 * BudgetLimit /\ ~ b.warned80 THEN "warning_80"
    ELSE "none"

Debited(b, spend) ==
    [spend    |-> spend,
     reached  |-> b.reached \/ Notice(b, spend) = "limit_reached",
     warned90 |-> b.warned90 \/ Notice(b, spend) = "warning_90",
     warned80 |-> b.warned80 \/ Notice(b, spend) = "warning_80"]

\* Creating a notification commits the session: with a notice the wallet is
\* debited, and unlocked, before the ledger row is written.
DebitCommit(h) ==
    LET spend == seenBudget[h].spend + Amount(h)
        whole == Notice(seenBudget[h], spend) = "none"
    IN
    /\ pc[h] = "commit" /\ job[h].kind = "debit" /\ ~ KeyTaken(h)
    /\ wallet' = FlushWallet(seen[h], [balance |-> seen[h].balance - Amount(h),
                                       topups |-> seen[h].topups,
                                       spent |-> seen[h].spent + Amount(h)])
    /\ posted' = [posted EXCEPT ![job[h]] = @ + 1]
    /\ budget' = FlushBudget(seenBudget[h], Debited(seenBudget[h], spend))
    /\ since' = since + Amount(h)
    /\ ledger' = IF whole THEN Booked(h) ELSE ledger
    /\ Unlock(h)
    /\ Goto(h, IF whole THEN "idle" ELSE "ledger")
    /\ UNCHANGED <<processed, job, seen, seenBudget>>

DebitLedger(h) ==
    /\ pc[h] = "ledger"
    /\ ledger' = Booked(h)
    /\ Goto(h, "idle")
    /\ UNCHANGED <<wallet, posted, processed, budget, since, walletLock, job, seen, seenBudget>>

\* The webhook records the event; losing the race for its unique id fails.
RecordEvent(h) ==
    /\ pc[h] = "record"
    /\ processed' = processed \cup {job[h].ref}
    /\ Goto(h, IF job[h].ref \in processed THEN "failed" ELSE "idle")
    /\ UNCHANGED <<wallet, posted, ledger, budget, since, walletLock, job, seen, seenBudget>>

\* The process dies, the database or the broker is unreachable.
Crash(h) ==
    /\ Live(h)
    /\ Unlock(h)
    /\ Goto(h, "failed")
    /\ UNCHANGED <<tables, job, seen, seenBudget>>

\* Mutant: the reset forgets the spend.
ResetFlags == [spend |-> budget.spend, reached |-> FALSE, warned90 |-> FALSE, warned80 |-> FALSE]

ResetRow == [spend |-> 0, reached |-> FALSE, warned90 |-> FALSE, warned80 |-> FALSE]

\* reset_monthly_budgets, one UPDATE that takes no wallet lock.
ResetBudgets ==
    /\ Overlap \/ \A h \in Handlers : ~ Live(h)
    /\ budget' = ResetRow
    /\ since' = 0
    /\ UNCHANGED <<wallet, posted, ledger, processed, walletLock, job, handlers>>

-----------------------------------------------------------------------------
Handle(h) ==
    \/ Load(h) \/ LookupFound(h) \/ LookupNoDebit(h) \/ LookupNew(h)
    \/ Lock(h) \/ DebitRefused(h) \/ Conflict(h)
    \/ CreditCommit(h) \/ RefundCommit(h) \/ DebitCommit(h) \/ DebitLedger(h)
    \/ RecordEvent(h)

Next ==
    \/ \E h \in Handlers :
          \/ \E e \in Entries : Request(h, e)
          \/ Handle(h) \/ Crash(h) \/ Redeliver(h)
    \/ ResetBudgets

Spec == Init /\ [][Next]_vars

(***************************************************************************)
(* Handlers run on, a lock that is freed again and again is granted, the   *)
(* provider retries an event until it is acknowledged, and outages end     *)
(* before the provider gives up.                                           *)
(***************************************************************************)
Fairness ==
    /\ \A h \in Handlers :
          WF_vars(Handle(h)) /\ WF_vars(Redeliver(h)) /\ SF_vars(Lock(h))
    /\ <>[][\A h \in Handlers : ~ Crash(h)]_vars

FairSpec == Spec /\ Fairness

-----------------------------------------------------------------------------
(* Properties.                                                             *)

\* A payment delivered twice, a retried debit and two refunds of one debit
\* change the wallet once, and every change has its accounting event in the
\* ledger, except while the debit that made it is still about to write it.
BookedOnce ==
    \A e \in Entries :
        /\ posted[e] <= 1
        /\ \/ posted[e] > 0 <=> e \in ledger
           \/ \E h \in Handlers : job[h] = e /\ pc[h] = "ledger"

\* After a monthly reset the budget counts only what was debited since.
BudgetIsCurrent == budget.spend <= since

\* A payment whose event is delivered is credited in the end, although any
\* attempt may die before or after the wallet was written.
EventuallyCredited ==
    \A p \in Payments : LET e == [kind |-> "credit", ref |-> p] IN
        (\E h \in Handlers : Live(h) /\ job[h] = e) ~> (posted[e] > 0 /\ p \in processed)

Book == INSTANCE AccountBook WITH
    balance <- wallet.balance,
    booked  <- {e \in Entries : posted[e] > 0}

\* Operations that do not overlap implement the book of atomic entries.
ImplementsBook == Book!Spec
=============================================================================
