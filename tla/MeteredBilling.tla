--------------------------- MODULE MeteredBilling ---------------------------
(***************************************************************************)
(* Reserve / settle / release on one prepaid wallet, as done by            *)
(* app/services/metered_billing.py on behalf of the request handlers       *)
(* (invoke, chat, embeddings) and of the beat task that expires            *)
(* reservations.                                                           *)
(*                                                                         *)
(* A request handler s \in Sessions runs on its own AsyncSession.  A       *)
(* session is created with expire_on_commit=False and autoflush=False, so  *)
(* a row it has loaded and still references is NOT read again: a later     *)
(* SELECT ... FOR UPDATE takes the row lock and hands back the loaded      *)
(* object.  seenWallet[s] and seenRow[s] are those loaded objects.  A      *)
(* flush updates only the columns whose value the session changed          *)
(* (operator Dirty).                                                       *)
(*                                                                         *)
(* Postgres runs at READ COMMITTED: every statement reads the last         *)
(* committed rows, row locks are kept until commit, rollback or            *)
(* disconnect, and a cycle of waiters is broken by aborting one of them.   *)
(***************************************************************************)
EXTENDS Integers, FiniteSets, Totals

CONSTANTS
    Sessions,    \* request handlers; each serves one request
    Keys,        \* idempotency keys clients send (or generated request ids)
    Estimates,   \* amounts a handler may reserve
    Actuals,     \* costs the provider call may turn out to have
    Credit,      \* wallet.balance before the first request
    Limit,       \* SpendingLimit.amount of the wallet's user
    Hazards,     \* what the environment of the service may do, see below
    None         \* no lock owner, no loaded row

(***************************************************************************)
(*  "held_wallet"   the handler loaded the wallet before it reserves and   *)
(*                  keeps the object (get_wallet in the three routers)     *)
(*  "shared_key"    two requests in flight carry the same idempotency key  *)
(*  "late_request"  a request is in flight on a reservation whose TTL is   *)
(*                  over                                                   *)
(***************************************************************************)
HazardKinds == {"held_wallet", "shared_key", "late_request"}

ASSUME ConstantsOK ==
    /\ IsFiniteSet(Keys)
    /\ Estimates \subseteq Nat \ {0}
    /\ Actuals \subseteq Nat
    /\ Credit \in Nat
    /\ Limit \in Nat
    /\ Hazards \subseteq HazardKinds
    /\ None \notin Sessions

VARIABLES
    wallet,       \* committed Wallet row
    reservation,  \* committed BillingReservation rows, by idempotency key
    ledger,       \* kinds of BillingLedger rows committed for each key
    aged,         \* keys whose reservation has expires_at <= now
    due,          \* ids the running expiry task selected and has not handled
    walletLock, limitLock, rowLock,   \* owners of the FOR UPDATE row locks
    pc,           \* where each handler stands
    key, amount,  \* its idempotency key; its estimate, later its actual cost
    tally,        \* settled spend it summed for the limit check
    seenWallet, seenRow   \* rows in the identity map of its session

tables   == <<wallet, reservation, ledger>>
locks    == <<walletLock, limitLock, rowLock>>
sweeper  == <<aged, due>>
handlers == <<pc, key, amount, tally, seenWallet, seenRow>>
vars     == <<tables, sweeper, locks, handlers>>

-----------------------------------------------------------------------------
(* Rows.                                                                   *)

Statuses == {"none", "reserved", "settled", "released"}
Kinds    == {"reservation", "settled", "release"}
Wallets  == [balance: Int, reserved: Int, spent: Int]
Rows     == [status: Statuses, estimated: Nat, settled: Nat, released: Nat]
NoRow    == [status |-> "none", estimated |-> 0, settled |-> 0, released |-> 0]

PCs == {"idle", "lookup", "limits", "sum", "wallet", "provider", "settle",
        "settle_wallet", "over_limits", "over_sum", "release", "done"}

Live(s) == pc[s] \notin {"idle", "done"}

\* Mutant: the status check of settle and release is forgotten.
IsOpenAlways(row) == TRUE

IsOpen(row) == row.status = "reserved"

Estimated == [k \in Keys |-> reservation[k].estimated]
Settled   == [k \in Keys |-> reservation[k].settled]
WithStatus(st) == {k \in Keys : reservation[k].status = st}
Charged == {k \in Keys : "settled" \in ledger[k]}

\* What a column holds after a flush by a session that loaded `seen` and
\* now has `new`: an unchanged attribute is not part of the UPDATE.
Dirty(current, seen, new) == IF new = seen THEN current ELSE new

FlushWallet(seen, new) ==
    [balance  |-> Dirty(wallet.balance, seen.balance, new.balance),
     reserved |-> Dirty(wallet.reserved, seen.reserved, new.reserved),
     spent    |-> Dirty(wallet.spent, seen.spent, new.spent)]

FlushRow(row, seen, new) ==
    [status    |-> Dirty(row.status, seen.status, new.status),
     estimated |-> Dirty(row.estimated, seen.estimated, new.estimated),
     settled   |-> Dirty(row.settled, seen.settled, new.settled),
     released  |-> Dirty(row.released, seen.released, new.released)]

\* The wallet a locking SELECT hands to session s.
WalletOf(s) == IF seenWallet[s] = None THEN wallet ELSE seenWallet[s]

(* Locks.                                                                  *)

\* Mutant: rows are selected without FOR UPDATE.
FreeAlways(lock, s) == TRUE

Free(lock, s) == lock \in {None, s}

Unlocked(lock, s) == IF lock = s THEN None ELSE lock

\* Mutant: a failing request keeps the lock of the limit row.
DropLocksButLimit(s) ==
    /\ walletLock' = Unlocked(walletLock, s)
    /\ rowLock' = [k \in Keys |-> Unlocked(rowLock[k], s)]
    /\ UNCHANGED limitLock

DropLocks(s) ==
    /\ walletLock' = Unlocked(walletLock, s)
    /\ limitLock' = Unlocked(limitLock, s)
    /\ rowLock' = [k \in Keys |-> Unlocked(rowLock[k], s)]

\* The request is over: its session closes and rolls back what is open.
Finish(s) ==
    /\ pc' = [pc EXCEPT ![s] = "done"]
    /\ DropLocks(s)
    /\ UNCHANGED <<tables, sweeper, key, amount, tally, seenWallet, seenRow>>

Goto(s, label) == pc' = [pc EXCEPT ![s] = label]

-----------------------------------------------------------------------------
Init ==
    /\ wallet = [balance |-> Credit, reserved |-> 0, spent |-> 0]
    /\ reservation = [k \in Keys |-> NoRow]
    /\ ledger = [k \in Keys |-> {}]
    /\ aged = {} /\ due = {}
    /\ walletLock = None /\ limitLock = None
    /\ rowLock = [k \in Keys |-> None]
    /\ pc = [s \in Sessions |-> "idle"]
    /\ key \in [Sessions -> Keys]
    /\ amount = [s \in Sessions |-> 0]
    /\ tally = [s \in Sessions |-> 0]
    /\ seenWallet = [s \in Sessions |-> None]
    /\ seenRow = [s \in Sessions |-> None]

(***************************************************************************)
(* A request arrives: the router loads the wallet and estimates the cost.  *)
(***************************************************************************)
Arrive(s, e) ==
    /\ pc[s] = "idle"
    /\ \/ "shared_key" \in Hazards
       \/ \A t \in Sessions : Live(t) => key[t] # key[s]
    /\ \/ "late_request" \in Hazards
       \/ key[s] \notin aged
       \/ ~ IsOpen(reservation[key[s]])
    /\ amount' = [amount EXCEPT ![s] = e]
    /\ seenWallet' = [seenWallet EXCEPT
           ![s] = IF "held_wallet" \in Hazards THEN wallet ELSE None]
    /\ Goto(s, "lookup")
    /\ UNCHANGED <<tables, sweeper, locks, key, tally, seenRow>>

(***************************************************************************)
(* reserve.                                                                *)
(***************************************************************************)

\* The key is already used: the row is locked and returned, whatever its
\* status, and the request goes on with it.
ReserveExisting(s) ==
    /\ pc[s] = "lookup"
    /\ reservation[key[s]].status # "none"
    /\ Free(rowLock[key[s]], s)
    /\ rowLock' = [rowLock EXCEPT ![key[s]] = s]
    /\ seenRow' = [seenRow EXCEPT ![s] = reservation[key[s]]]
    /\ Goto(s, "provider")
    /\ UNCHANGED <<tables, sweeper, walletLock, limitLock, key, amount, tally,
                   seenWallet>>

ReserveNew(s) ==
    /\ pc[s] = "lookup"
    /\ reservation[key[s]].status = "none"
    /\ Goto(s, "limits")
    /\ UNCHANGED <<tables, sweeper, locks, key, amount, tally, seenWallet, seenRow>>

\* SpendingLimitService.check: lock the limit rows, then sum the settled
\* ledger rows, then (LimitPassed, LimitRefused, Over*) in a second
\* statement the open reservations.
LockLimit(s) ==
    /\ pc[s] \in {"limits", "over_limits"}
    /\ Free(limitLock, s)
    /\ limitLock' = s
    /\ tally' = [tally EXCEPT ![s] = Total(Settled, Charged)]
    /\ Goto(s, IF pc[s] = "limits" THEN "sum" ELSE "over_sum")
    /\ UNCHANGED <<tables, sweeper, walletLock, rowLock, key, amount, seenWallet,
                   seenRow>>

Projected(s, open, more) == tally[s] + Total(Estimated, open) + more

LimitPassed(s) ==
    /\ pc[s] = "sum"
    /\ Projected(s, WithStatus("reserved"), amount[s]) <= Limit
    /\ Goto(s, "wallet")
    /\ UNCHANGED <<tables, sweeper, locks, key, amount, tally, seenWallet, seenRow>>

\* SpendingLimitError leaves the handler.
LimitRefused(s) ==
    /\ pc[s] = "sum"
    /\ Projected(s, WithStatus("reserved"), amount[s]) > Limit
    /\ Finish(s)

\* InsufficientBalanceError, answered with 402.
ReserveRefused(s) ==
    /\ pc[s] = "wallet"
    /\ Free(walletLock, s)
    /\ WalletOf(s).balance < amount[s]
    /\ Finish(s)

\* The unique idempotency key is taken since the lookup: rollback, which
\* expires every loaded row, and the existing row is returned unlocked.
ReserveDuplicate(s) ==
    /\ pc[s] = "wallet"
    /\ Free(walletLock, s)
    /\ WalletOf(s).balance >= amount[s]
    /\ reservation[key[s]].status # "none"
    /\ DropLocks(s)
    /\ seenWallet' = [seenWallet EXCEPT ![s] = None]
    /\ seenRow' = [seenRow EXCEPT ![s] = reservation[key[s]]]
    /\ Goto(s, "provider")
    /\ UNCHANGED <<tables, sweeper, key, amount, tally>>

\* Lock the wallet, move the amount, insert the reservation and its ledger
\* row, commit.
ReserveCommit(s) ==
    LET k   == key[s]
        old == WalletOf(s)
        new == [balance  |-> old.balance - amount[s],
                reserved |-> old.reserved + amount[s],
                spent    |-> old.spent]
        row == [status |-> "reserved", estimated |-> amount[s],
                settled |-> 0, released |-> 0]
    IN
    /\ pc[s] = "wallet"
    /\ Free(walletLock, s)
    /\ old.balance >= amount[s]
    /\ reservation[k].status = "none"
    /\ wallet' = FlushWallet(old, new)
    /\ reservation' = [reservation EXCEPT ![k] = row]
    /\ ledger' = [ledger EXCEPT ![k] = @ \cup {"reservation"}]
    /\ seenWallet' = [seenWallet EXCEPT ![s] = IF @ = None THEN None ELSE new]
    /\ seenRow' = [seenRow EXCEPT ![s] = row]
    /\ Goto(s, "provider")
    /\ DropLocks(s)
    /\ UNCHANGED <<sweeper, key, amount, tally>>

(***************************************************************************)
(* Between reserve and settle the handler runs tools and the provider.     *)
(***************************************************************************)
ProviderAnswers(s, a) ==
    /\ pc[s] = "provider"
    /\ amount' = [amount EXCEPT ![s] = a]
    /\ Goto(s, "settle")
    /\ UNCHANGED <<tables, sweeper, locks, key, tally, seenWallet, seenRow>>

ProviderFails(s) ==
    /\ pc[s] = "provider"
    /\ Goto(s, "release")
    /\ UNCHANGED <<tables, sweeper, locks, key, amount, tally, seenWallet, seenRow>>

\* A commit made by another service on the same session (confirmation
\* requests, security events, token refresh) frees the row of a retry.
InterimCommit(s) ==
    /\ pc[s] = "provider"
    /\ rowLock[key[s]] = s
    /\ DropLocks(s)
    /\ UNCHANGED <<tables, sweeper, handlers>>

\* The handler ends without settling or releasing: the worker dies, the
\* stream is cancelled, or an exception leaves an unguarded part of it.
Abandon(s) ==
    /\ Live(s)
    /\ Finish(s)

(***************************************************************************)
(* settle.                                                                 *)
(***************************************************************************)

\* Lock the reservation.  A closed one is returned as it is.
SettleClosed(s) ==
    /\ pc[s] = "settle"
    /\ Free(rowLock[key[s]], s)
    /\ ~ IsOpen(seenRow[s])
    /\ Finish(s)

SettleLock(s) ==
    /\ pc[s] = "settle"
    /\ Free(rowLock[key[s]], s)
    /\ IsOpen(seenRow[s])
    /\ rowLock' = [rowLock EXCEPT ![key[s]] = s]
    /\ Goto(s, "settle_wallet")
    /\ UNCHANGED <<tables, sweeper, walletLock, limitLock, key, amount, tally,
                   seenWallet, seenRow>>

Overage(s) == amount[s] - seenRow[s].estimated

\* What the estimate leaves over once an overage has been added to it.
Leftover(s) == IF Overage(s) > 0 THEN 0 ELSE 0 - Overage(s)

\* Mutant: no row at all when nothing is left over.
RowsWithLeftover(s) == IF Leftover(s) > 0 THEN {"settled", "release"} ELSE {}

\* The rows settle inserts, each with a unique idempotency key.
SettlementRows(s) == {"settled"} \cup (IF Leftover(s) > 0 THEN {"release"} ELSE {})

Charge(s, old) ==
    LET k   == key[s]
        new == [balance  |-> old.balance - Overage(s),
                reserved |-> old.reserved - seenRow[s].estimated,
                spent    |-> old.spent + amount[s]]
        row == [status    |-> "settled",
                estimated |-> seenRow[s].estimated + (IF Overage(s) > 0 THEN Overage(s) ELSE 0),
                settled   |-> amount[s],
                released  |-> Leftover(s)]
    IN
    /\ SettlementRows(s) \cap ledger[k] = {}
    /\ wallet' = FlushWallet(old, new)
    /\ reservation' = [reservation EXCEPT ![k] = FlushRow(@, seenRow[s], row)]
    /\ ledger' = [ledger EXCEPT ![k] = @ \cup SettlementRows(s)]
    /\ Goto(s, "done")
    /\ DropLocks(s)
    /\ UNCHANGED <<sweeper, key, amount, tally, seenWallet, seenRow>>

\* Lock the wallet; an actual cost within the estimate is charged at once.
SettleWithin(s) ==
    /\ pc[s] = "settle_wallet"
    /\ Free(walletLock, s)
    /\ Overage(s) <= 0
    /\ Charge(s, WalletOf(s))

\* Lock the wallet and, holding it, go for the limit rows.
SettleOver(s) ==
    /\ pc[s] = "settle_wallet"
    /\ Free(walletLock, s)
    /\ Overage(s) > 0
    /\ walletLock' = s
    /\ seenWallet' = [seenWallet EXCEPT ![s] = WalletOf(s)]
    /\ Goto(s, "over_limits")
    /\ UNCHANGED <<tables, sweeper, limitLock, rowLock, key, amount, tally, seenRow>>

\* Mutant: the balance is not compared with the overage.
OverageWithinLimit(s) ==
    Projected(s, WithStatus("reserved") \ {key[s]}, Overage(s)) <= Limit

OverageAllowed(s) ==
    /\ Projected(s, WithStatus("reserved") \ {key[s]}, Overage(s)) <= Limit
    /\ seenWallet[s].balance >= Overage(s)

OverCharge(s) ==
    /\ pc[s] = "over_sum"
    /\ OverageAllowed(s)
    /\ Charge(s, seenWallet[s])

\* SpendingLimitError or InsufficientBalanceError: the router releases.
OverRefused(s) ==
    /\ pc[s] = "over_sum"
    /\ ~ OverageAllowed(s)
    /\ Goto(s, "release")
    /\ UNCHANGED <<tables, sweeper, locks, key, amount, tally, seenWallet, seenRow>>

\* A ledger row with that idempotency key exists: the flush fails, the
\* transaction is rolled back, and the router's release fails on the
\* session that was not rolled back explicitly.
SettleConflict(s) ==
    /\ \/ /\ pc[s] = "settle_wallet"
          /\ Free(walletLock, s)
          /\ Overage(s) <= 0
       \/ /\ pc[s] = "over_sum"
          /\ OverageAllowed(s)
    /\ SettlementRows(s) \cap ledger[key[s]] # {}
    /\ Finish(s)

(***************************************************************************)
(* release, on behalf of a handler whose provider call or settle failed.   *)
(***************************************************************************)
ReleaseClosed(s) ==
    /\ pc[s] = "release"
    /\ Free(rowLock[key[s]], s)
    /\ ~ IsOpen(seenRow[s])
    /\ Finish(s)

ReleaseConflict(s) ==
    /\ pc[s] = "release"
    /\ Free(rowLock[key[s]], s) /\ Free(walletLock, s)
    /\ IsOpen(seenRow[s])
    /\ "release" \in ledger[key[s]]
    /\ Finish(s)

\* Mutant: the estimate returns to the balance and stays reserved.
RefundedTwice(w, row) == [w EXCEPT !.balance = @ + row.estimated]

\* The wallet and the row after giving back the whole estimate.
Refunded(w, row) == [balance  |-> w.balance + row.estimated,
                     reserved |-> w.reserved - row.estimated,
                     spent    |-> w.spent]
ReleasedRow(row) == [row EXCEPT !.status = "released", !.released = row.estimated]

ReleaseCommit(s) ==
    LET k == key[s] IN
    /\ pc[s] = "release"
    /\ Free(rowLock[k], s) /\ Free(walletLock, s)
    /\ IsOpen(seenRow[s])
    /\ "release" \notin ledger[k]
    /\ wallet' = FlushWallet(WalletOf(s), Refunded(WalletOf(s), seenRow[s]))
    /\ reservation' = [reservation EXCEPT
           ![k] = FlushRow(@, seenRow[s], ReleasedRow(seenRow[s]))]
    /\ ledger' = [ledger EXCEPT ![k] = @ \cup {"release"}]
    /\ Goto(s, "done")
    /\ DropLocks(s)
    /\ UNCHANGED <<sweeper, key, amount, tally, seenWallet, seenRow>>

(***************************************************************************)
(* expire_reservations, run by beat every minute in a session of its own   *)
(* that keeps no row from one release to the next.                         *)
(***************************************************************************)
Age(k) ==
    /\ IsOpen(reservation[k])
    /\ k \notin aged
    /\ "late_request" \in Hazards \/ \A s \in Sessions : Live(s) => key[s] # k
    /\ aged' = aged \cup {k}
    /\ UNCHANGED <<tables, due, locks, handlers>>

\* Mutant: expires_at is compared the wrong way round.
SelectedUnexpired == WithStatus("reserved") \ aged

Selected == aged \cap WithStatus("reserved")

Sweep ==
    /\ due = {}
    /\ due' = Selected
    /\ due' # {}
    /\ UNCHANGED <<tables, aged, locks, handlers>>

\* release of one selected id; the row lock is waited for, then re-read.
Expire(k) ==
    /\ k \in due
    /\ rowLock[k] = None
    /\ due' = due \ {k}
    /\ \/ /\ ~ IsOpen(reservation[k])
          /\ UNCHANGED tables
       \/ /\ IsOpen(reservation[k])
          /\ walletLock = None
          /\ wallet' = Refunded(wallet, reservation[k])
          /\ reservation' = [reservation EXCEPT ![k] = ReleasedRow(@)]
          /\ ledger' = [ledger EXCEPT ![k] = @ \cup {"release"}]
    /\ UNCHANGED <<aged, locks, handlers>>

\* The Celery worker dies between two releases.
SweepCrash ==
    /\ due # {}
    /\ due' = {}
    /\ UNCHANGED <<tables, aged, locks, handlers>>

(***************************************************************************)
(* Postgres aborts one of two transactions that wait for each other; the   *)
(* handler fails, and so does a release on the aborted transaction.        *)
(***************************************************************************)
WaitsFor(s, t) ==
    /\ s # t
    /\ \/ pc[s] \in {"limits", "over_limits"} /\ limitLock = t
       \/ pc[s] \in {"wallet", "settle_wallet", "release"} /\ walletLock = t
       \/ pc[s] \in {"lookup", "settle", "release"} /\ rowLock[key[s]] = t

DeadlockVictim(s) ==
    /\ \E t \in Sessions : WaitsFor(s, t) /\ WaitsFor(t, s)
    /\ Finish(s)

-----------------------------------------------------------------------------
\* The steps a handler takes on its own once the request has arrived.
Handle(s) ==
    \/ ReserveExisting(s) \/ ReserveNew(s) \/ LockLimit(s)
    \/ LimitPassed(s) \/ LimitRefused(s)
    \/ ReserveRefused(s) \/ ReserveDuplicate(s) \/ ReserveCommit(s)
    \/ \E a \in Actuals : ProviderAnswers(s, a)
    \/ ProviderFails(s)
    \/ SettleClosed(s) \/ SettleLock(s) \/ SettleWithin(s) \/ SettleOver(s)
    \/ OverCharge(s) \/ OverRefused(s) \/ SettleConflict(s)
    \/ ReleaseClosed(s) \/ ReleaseConflict(s) \/ ReleaseCommit(s)
    \/ DeadlockVictim(s)

Next ==
    \/ \E s \in Sessions :
          \/ \E e \in Estimates : Arrive(s, e)
          \/ Handle(s) \/ InterimCommit(s) \/ Abandon(s)
    \/ \E k \in Keys : Age(k) \/ Expire(k)
    \/ Sweep \/ SweepCrash

Spec == Init /\ [][Next]_vars

(***************************************************************************)
(* A handler that can go on does (Postgres grants a lock that stays free,  *)
(* provider calls time out).  Time passes, and beat starts the expiry task *)
(* every minute.  A worker may die during the task, only not every time,   *)
(* hence strong fairness of Expire.                                        *)
(***************************************************************************)
Fairness ==
    /\ \A s \in Sessions : WF_vars(Handle(s))
    /\ \A k \in Keys : WF_vars(Age(k)) /\ SF_vars(Expire(k))
    /\ WF_vars(Sweep)

FairSpec == Spec /\ Fairness

-----------------------------------------------------------------------------
(***************************************************************************)
(* Properties.                                                             *)
(***************************************************************************)

\* Rows, locks and handler states keep their types; the wallet columns are
\* plain integers because the table has no CHECK constraint.
TypeOK ==
    /\ wallet \in Wallets
    /\ reservation \in [Keys -> Rows]
    /\ ledger \in [Keys -> SUBSET Kinds]
    /\ aged \subseteq Keys /\ due \subseteq Keys
    /\ walletLock \in Sessions \cup {None}
    /\ limitLock \in Sessions \cup {None}
    /\ rowLock \in [Keys -> Sessions \cup {None}]
    /\ pc \in [Sessions -> PCs]
    /\ key \in [Sessions -> Keys]
    /\ amount \in [Sessions -> Nat]
    /\ tally \in [Sessions -> Nat]
    /\ seenWallet \in [Sessions -> Wallets \cup {None}]
    /\ seenRow \in [Sessions -> Rows \cup {None}]

\* Reserving, settling, releasing and expiring move money between the three
\* columns of the wallet and never create or destroy any, whatever the
\* handlers, the expiry task and crashes do in between.
MoneyConserved == wallet.balance + wallet.reserved + wallet.spent = Credit

\* total_spent is the sum of the settled ledger rows, so that the wallet and
\* the spending limits (which read the ledger) agree on what was spent.
SpentMatches == wallet.spent = Total(Settled, Charged)

\* No interleaving of reservations, overages and refunds overdraws the
\* wallet, although the columns are updated without a CHECK constraint.
NoOverdraft == wallet.balance >= 0

\* The wallet and the immutable ledger tell the same story as the rows:
\* reserved_balance is the sum of the open reservations (the check that
\* reconcile_wallet makes), one settlement row exactly for the settled ones,
\* one release row exactly for those that gave something back, and the parts
\* add up to the estimate.
LedgerAgrees ==
    /\ wallet.reserved = Total(Estimated, WithStatus("reserved"))
    /\ \A k \in Keys :
        LET row == reservation[k] IN
        /\ "reservation" \in ledger[k] <=> row.status # "none"
        /\ "settled" \in ledger[k] <=> row.status = "settled"
        /\ "release" \in ledger[k] <=> row.released > 0
        /\ row.status \in {"settled", "released"}
               => row.settled + row.released = row.estimated

\* A settled or released reservation is never changed again: no second
\* settlement, no release of a settled one, no charge on a released one.
Finality ==
    [][\A k \in Keys : reservation[k].status \in {"settled", "released"}
                           => reservation'[k] = reservation[k]]_vars

\* Reserved money is never stranded: every reservation is settled or
\* released in the end, although handlers crash without doing either.
EventuallyClosed ==
    \A k \in Keys : IsOpen(reservation[k]) ~> ~ IsOpen(reservation[k])

\* No handler waits for a lock forever: every request in flight ends.
RequestsEnd == \A s \in Sessions : Live(s) ~> ~ Live(s)

\* The wallet with its locks implements an account on which holding,
\* charging and cancelling are single atomic steps.
Account == INSTANCE PrepaidAccount WITH
    Holds   <- Keys,
    balance <- wallet.balance,
    state   <- [k \in Keys |-> reservation[k].status],
    held    <- [k \in Keys |-> IF IsOpen(reservation[k])
                                THEN reservation[k].estimated
                                ELSE reservation[k].settled]

ImplementsAccount == Account!Spec
=============================================================================
