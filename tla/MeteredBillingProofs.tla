------------------------ MODULE MeteredBillingProofs ------------------------
(* Proofs about MeteredBilling for every set of requests, keys and amounts. *)
EXTENDS MeteredBilling, TotalsProofs

-----------------------------------------------------------------------------
(* Types.                                                                  *)

\* A handler past reserve has the reservation row in its identity map, and
\* one that checks an overage has the wallet there too.
Loaded ==
    \A s \in Sessions :
        /\ pc[s] \in {"provider", "settle", "settle_wallet", "over_limits",
                      "over_sum", "release"} => seenRow[s] \in Rows
        /\ pc[s] \in {"over_limits", "over_sum"} => seenWallet[s] \in Wallets

TypeInv == TypeOK /\ Loaded

LEMMA WalletOfType ==
    ASSUME TypeOK, NEW s \in Sessions
    PROVE  WalletOf(s) \in Wallets
BY DEF TypeOK, WalletOf

LEMMA FlushWalletType ==
    ASSUME TypeOK, NEW seen \in Wallets, NEW new \in Wallets
    PROVE  FlushWallet(seen, new) \in Wallets
BY DEF TypeOK, FlushWallet, Dirty, Wallets

\* A released row is a row.
LEMMA ReleasedIsRow == ASSUME NEW row \in Rows PROVE ReleasedRow(row) \in Rows
BY DEF ReleasedRow, Rows, Statuses

LEMMA FlushRowType ==
    ASSUME NEW row \in Rows, NEW seen \in Rows, NEW new \in Rows
    PROVE  FlushRow(row, seen, new) \in Rows
BY DEF FlushRow, Dirty, Rows

\* Ending a request touches only its own handler and locks.
LEMMA FinishType ==
    ASSUME TypeInv, NEW s \in Sessions, Finish(s)
    PROVE  TypeInv'
BY DEF TypeInv, TypeOK, Loaded, Finish, DropLocks, Unlocked, tables, sweeper, PCs,
       Wallets, Rows, Kinds

LEMMA DropLocksType ==
    ASSUME TypeOK, NEW s \in Sessions, DropLocks(s)
    PROVE  /\ walletLock' \in Sessions \cup {None}
           /\ limitLock' \in Sessions \cup {None}
           /\ rowLock' \in [Keys -> Sessions \cup {None}]
BY DEF TypeOK, DropLocks, Unlocked

LEMMA TotalsType ==
    ASSUME TypeOK, NEW S \in SUBSET Keys
    PROVE  Total(Settled, S) \in Nat /\ Total(Estimated, S) \in Nat
<1>1. IsFiniteSet(S)
  BY ConstantsOK, FS_Subset
<1>2. \A k \in S : Settled[k] \in Nat /\ Estimated[k] \in Nat
  BY DEF TypeOK, Settled, Estimated, Rows
<1> QED
  BY <1>1, <1>2, TotalType

\* The charge of settle keeps every row well typed.
LEMMA ChargeType ==
    ASSUME TypeInv, NEW s \in Sessions, NEW old \in Wallets,
           seenRow[s] \in Rows, Charge(s, old)
    PROVE  TypeInv'
<1> DEFINE new == [balance  |-> old.balance - Overage(s),
                   reserved |-> old.reserved - seenRow[s].estimated,
                   spent    |-> old.spent + amount[s]]
           row == [status    |-> "settled",
                   estimated |-> seenRow[s].estimated + (IF Overage(s) > 0 THEN Overage(s) ELSE 0),
                   settled   |-> amount[s],
                   released  |-> Leftover(s)]
<1>1. amount[s] \in Nat /\ seenRow[s].estimated \in Nat /\ Overage(s) \in Int
  BY DEF TypeInv, TypeOK, Rows, Overage
<1>2. new \in Wallets
  BY <1>1 DEF Wallets
<1>3. row \in Rows
  BY <1>1 DEF Rows, Statuses, Leftover
<1>4. wallet' \in Wallets
  <2>1. wallet' = FlushWallet(old, new)
    BY DEF Charge
  <2> QED
    BY <1>2, <2>1, FlushWalletType DEF TypeInv
<1>5. reservation' \in [Keys -> Rows]
  <2>1. reservation' = [reservation EXCEPT ![key[s]] = FlushRow(reservation[key[s]], seenRow[s], row)]
    BY DEF Charge
  <2>2. key[s] \in Keys /\ reservation \in [Keys -> Rows]
    BY DEF TypeInv, TypeOK
  <2>3. FlushRow(reservation[key[s]], seenRow[s], row) \in Rows
    BY <1>3, <2>2, FlushRowType
  <2> HIDE DEF row
  <2> QED
    BY <2>1, <2>2, <2>3
<1>6. ledger' \in [Keys -> SUBSET Kinds]
  BY DEF Charge, TypeInv, TypeOK, SettlementRows, Kinds
<1>7. /\ walletLock' \in Sessions \cup {None}
      /\ limitLock' \in Sessions \cup {None}
      /\ rowLock' \in [Keys -> Sessions \cup {None}]
  BY DropLocksType DEF TypeInv, Charge
<1>8. pc' = [pc EXCEPT ![s] = "done"] /\ UNCHANGED <<sweeper, key, amount, tally, seenWallet, seenRow>>
  BY DEF Charge, Goto
<1>9. Loaded'
  BY <1>8 DEF TypeInv, TypeOK, Loaded
<1> QED
  BY <1>4, <1>5, <1>6, <1>7, <1>8, <1>9 DEF TypeInv, TypeOK, PCs, sweeper

LEMMA TypeInit == Init => TypeInv
BY ConstantsOK DEF Init, TypeInv, TypeOK, Loaded, Wallets, Rows, NoRow, Statuses, PCs, Kinds

\* No step of a handler leaves the types.
LEMMA HandlerTypes ==
    ASSUME TypeInv, NEW s \in Sessions,
           \/ \E e \in Estimates : Arrive(s, e)
           \/ Handle(s) \/ InterimCommit(s) \/ Abandon(s)
    PROVE  TypeInv'
<1> USE DEF TypeInv, TypeOK, Loaded, PCs
<1> DEFINE k == key[s]
<1>0. k \in Keys /\ WalletOf(s) \in Wallets
  BY WalletOfType
<1>1. ASSUME NEW e \in Estimates, Arrive(s, e) PROVE TypeInv'
  BY <1>1, ConstantsOK DEF Arrive, Goto, tables, sweeper, locks
<1>2. CASE ReserveExisting(s)
  BY <1>2 DEF ReserveExisting, Goto, tables, sweeper
<1>3. CASE ReserveNew(s)
  BY <1>3 DEF ReserveNew, Goto, tables, sweeper, locks
<1>4. CASE LockLimit(s)
  <2>1. Total(Settled, Charged) \in Nat
    BY TotalsType DEF Charged
  <2> QED
    BY <1>4, <2>1 DEF LockLimit, Goto, tables, sweeper
<1>5. CASE LimitPassed(s)
  BY <1>5 DEF LimitPassed, Goto, tables, sweeper, locks
<1>6. CASE ReserveDuplicate(s)
  <2>1. /\ walletLock' \in Sessions \cup {None}
        /\ limitLock' \in Sessions \cup {None}
        /\ rowLock' \in [Keys -> Sessions \cup {None}]
    BY <1>6, DropLocksType DEF ReserveDuplicate
  <2> QED
    BY <1>6, <2>1 DEF ReserveDuplicate, Goto, tables, sweeper
<1>7. CASE ReserveCommit(s)
  <2> DEFINE new == [balance  |-> WalletOf(s).balance - amount[s],
                     reserved |-> WalletOf(s).reserved + amount[s],
                     spent    |-> WalletOf(s).spent]
             row == [status |-> "reserved", estimated |-> amount[s],
                     settled |-> 0, released |-> 0]
  <2>1. /\ walletLock' \in Sessions \cup {None}
        /\ limitLock' \in Sessions \cup {None}
        /\ rowLock' \in [Keys -> Sessions \cup {None}]
    BY <1>7, DropLocksType DEF ReserveCommit
  <2>2. new \in Wallets
    BY <1>0 DEF Wallets
  <2>3. row \in Rows
    BY DEF Rows, Statuses
  <2>4. /\ wallet' = FlushWallet(WalletOf(s), new)
        /\ reservation' = [reservation EXCEPT ![key[s]] = row]
        /\ ledger' = [ledger EXCEPT ![key[s]] = @ \cup {"reservation"}]
        /\ seenWallet' = [seenWallet EXCEPT ![s] = IF @ = None THEN None ELSE new]
        /\ seenRow' = [seenRow EXCEPT ![s] = row]
        /\ pc' = [pc EXCEPT ![s] = "provider"]
        /\ UNCHANGED <<sweeper, key, amount, tally>>
    BY <1>7 DEF ReserveCommit, Goto
  <2>5. wallet' \in Wallets
    BY <1>0, <2>2, <2>4, FlushWalletType
  <2> HIDE DEF new, row
  <2>6. reservation' \in [Keys -> Rows] /\ seenRow' \in [Sessions -> Rows \cup {None}]
    BY <2>3, <2>4
  <2>7. seenWallet' \in [Sessions -> Wallets \cup {None}]
    BY <2>2, <2>4
  <2>8. ledger' \in [Keys -> SUBSET Kinds]
    BY <2>4 DEF Kinds
  <2>9. Loaded'
    BY <2>3, <2>4, <2>6
  <2> QED
    BY <2>1, <2>4, <2>5, <2>6, <2>7, <2>8, <2>9 DEF sweeper
<1>8. ASSUME NEW a \in Actuals, ProviderAnswers(s, a) PROVE TypeInv'
  BY <1>8, ConstantsOK DEF ProviderAnswers, Goto, tables, sweeper, locks
<1>9. CASE ProviderFails(s)
  BY <1>9 DEF ProviderFails, Goto, tables, sweeper, locks
<1>10. CASE SettleLock(s)
  BY <1>10 DEF SettleLock, Goto, tables, sweeper
<1>11. CASE SettleWithin(s)
  BY <1>0, <1>11, ChargeType DEF SettleWithin
<1>12. CASE SettleOver(s)
  BY <1>0, <1>12 DEF SettleOver, Goto, tables, sweeper
<1>13. CASE OverCharge(s)
  BY <1>13, ChargeType DEF OverCharge
<1>14. CASE OverRefused(s)
  BY <1>14 DEF OverRefused, Goto, tables, sweeper, locks
<1>15. CASE ReleaseCommit(s)
  <2>1. /\ walletLock' \in Sessions \cup {None}
        /\ limitLock' \in Sessions \cup {None}
        /\ rowLock' \in [Keys -> Sessions \cup {None}]
    BY <1>15, DropLocksType DEF ReleaseCommit
  <2>2. /\ wallet' = FlushWallet(WalletOf(s), Refunded(WalletOf(s), seenRow[s]))
        /\ reservation' = [reservation EXCEPT
              ![key[s]] = FlushRow(reservation[key[s]], seenRow[s], ReleasedRow(seenRow[s]))]
        /\ ledger' = [ledger EXCEPT ![key[s]] = @ \cup {"release"}]
        /\ pc' = [pc EXCEPT ![s] = "done"]
        /\ UNCHANGED <<sweeper, key, amount, tally, seenWallet, seenRow>>
    BY <1>15 DEF ReleaseCommit, Goto
  <2>3. seenRow[s] \in Rows
    BY <1>15 DEF ReleaseCommit
  <2>4. ReleasedRow(seenRow[s]) \in Rows
    BY <2>3, ReleasedIsRow
  <2>5. Refunded(WalletOf(s), seenRow[s]) \in Wallets
    BY <1>0, <2>3 DEF Refunded, Wallets, Rows
  <2>6. wallet' \in Wallets
    BY <1>0, <2>2, <2>5, FlushWalletType
  <2>7. FlushRow(reservation[key[s]], seenRow[s], ReleasedRow(seenRow[s])) \in Rows
    BY <1>0, <2>3, <2>4, FlushRowType
  <2>8. reservation' \in [Keys -> Rows] /\ ledger' \in [Keys -> SUBSET Kinds]
    BY <2>2, <2>7 DEF Kinds
  <2> QED
    BY <2>1, <2>2, <2>6, <2>8 DEF sweeper
<1>16. CASE InterimCommit(s)
  BY <1>16, DropLocksType DEF InterimCommit, tables, sweeper, handlers
<1>17. ASSUME Finish(s) PROVE TypeInv'
  BY <1>17, FinishType
<1> QED
  BY <1>1, <1>2, <1>3, <1>4, <1>5, <1>6, <1>7, <1>8, <1>9, <1>10, <1>11, <1>12,
     <1>13, <1>14, <1>15, <1>16, <1>17
     DEF Handle, Abandon, LimitRefused, ReserveRefused, SettleClosed, SettleConflict,
         ReleaseClosed, ReleaseConflict, DeadlockVictim

\* Nor does a step of the clock or of the expiry task.
LEMMA SweeperTypes ==
    ASSUME TypeInv,
           (\E k \in Keys : Age(k) \/ Expire(k)) \/ Sweep \/ SweepCrash
    PROVE  TypeInv'
<1> USE DEF TypeInv, TypeOK, Loaded
<1>1. ASSUME NEW k \in Keys, Age(k) PROVE TypeInv'
  BY <1>1 DEF Age, tables, locks, handlers
<1>2. ASSUME NEW k \in Keys, Expire(k) PROVE TypeInv'
  <2>1. CASE UNCHANGED tables
    BY <1>2, <2>1 DEF Expire, tables, locks, handlers
  <2>2. CASE /\ wallet' = Refunded(wallet, reservation[k])
             /\ reservation' = [reservation EXCEPT ![k] = ReleasedRow(@)]
             /\ ledger' = [ledger EXCEPT ![k] = @ \cup {"release"}]
    <3>1. ReleasedRow(reservation[k]) \in Rows
      BY ReleasedIsRow
    <3>2. Refunded(wallet, reservation[k]) \in Wallets
      BY DEF Refunded, Wallets, Rows
    <3>3. wallet' \in Wallets /\ reservation' \in [Keys -> Rows] /\ ledger' \in [Keys -> SUBSET Kinds]
      BY <2>2, <3>1, <3>2 DEF Kinds
    <3> QED
      BY <1>2, <3>3 DEF Expire, locks, handlers
  <2> QED
    BY <1>2, <2>1, <2>2 DEF Expire
<1>3. CASE Sweep
  BY <1>3 DEF Sweep, Selected, tables, locks, handlers
<1>4. CASE SweepCrash
  BY <1>4 DEF SweepCrash, tables, locks, handlers
<1> QED
  BY <1>1, <1>2, <1>3, <1>4

LEMMA TypeStep == TypeInv /\ [Next]_vars => TypeInv'
<1> SUFFICES ASSUME TypeInv, [Next]_vars PROVE TypeInv'
  OBVIOUS
<1>1. CASE UNCHANGED vars
  BY <1>1 DEF TypeInv, TypeOK, Loaded, vars, tables, sweeper, locks, handlers
<1>2. CASE Next
  BY <1>2, HandlerTypes, SweeperTypes DEF Next
<1> QED
  BY <1>1, <1>2

\* The rows, locks and handler states of the billing service keep their
\* types: no settlement, refund or expiry writes a malformed row, whatever
\* the handlers do to each other.
THEOREM TypeCorrect == Spec => []TypeOK
<1>1. TypeInv => TypeOK
  BY DEF TypeInv
<1> QED
  BY TypeInit, TypeStep, <1>1, PTL DEF Spec

-----------------------------------------------------------------------------
(* The wallet, when no handler keeps a wallet it loaded before it locks.   *)

FreshWallet == "held_wallet" \notin Hazards

\* A handler owns the wallet lock only while it checks an overage or gives
\* it up, and whatever copy of the wallet it has is the committed row.
WalletLocking ==
    \A s \in Sessions :
        /\ walletLock = s => pc[s] \in {"over_limits", "over_sum", "release"}
        /\ pc[s] \in {"over_limits", "over_sum"} => walletLock = s /\ seenWallet[s] = wallet
        /\ \/ pc[s] = "done"
           \/ seenWallet[s] = None
           \/ walletLock = s /\ seenWallet[s] = wallet

WalletInv == WalletLocking /\ MoneyConserved /\ NoOverdraft

LEMMA WalletInit == Init => WalletInv
BY ConstantsOK DEF Init, WalletInv, WalletLocking, MoneyConserved, NoOverdraft

\* A locking read sees the committed wallet.
LEMMA WalletOfIsWallet ==
    ASSUME WalletInv, NEW s \in Sessions, pc[s] # "done"
    PROVE  WalletOf(s) = wallet
BY DEF WalletInv, WalletLocking, WalletOf

\* A request that ends, with or without a commit under the wallet lock,
\* leaves the copies of the others right: they hold no copy, or the lock.
LEMMA EndKeepsLocking ==
    ASSUME TypeInv, WalletInv, NEW s \in Sessions,
           wallet' = wallet \/ Free(walletLock, s),
           pc' = [pc EXCEPT ![s] = "done"],
           walletLock' = Unlocked(walletLock, s),
           seenWallet' = seenWallet
    PROVE  WalletLocking'
<1>1. /\ pc \in [Sessions -> PCs] /\ seenWallet \in [Sessions -> Wallets \cup {None}]
      /\ walletLock \in Sessions \cup {None} /\ None \notin Sessions
  BY ConstantsOK DEF TypeInv, TypeOK
<1> SUFFICES ASSUME NEW t \in Sessions
             PROVE  /\ walletLock' = t => pc'[t] \in {"over_limits", "over_sum", "release"}
                    /\ pc'[t] \in {"over_limits", "over_sum"}
                          => walletLock' = t /\ seenWallet'[t] = wallet'
                    /\ \/ pc'[t] = "done"
                       \/ seenWallet'[t] = None
                       \/ walletLock' = t /\ seenWallet'[t] = wallet'
  BY DEF WalletLocking
<1>2. CASE t = s
  BY <1>1, <1>2 DEF Unlocked
<1>3. CASE t # s
  <2>1. pc'[t] = pc[t] /\ (walletLock' = t <=> walletLock = t)
    BY <1>1, <1>3 DEF Unlocked
  <2>2. walletLock = t => wallet' = wallet
    BY <1>1, <1>3 DEF Free
  <2> QED
    BY <2>1, <2>2 DEF WalletInv, WalletLocking
<1> QED
  BY <1>2, <1>3

LEMMA FinishKeepsWallet ==
    ASSUME TypeInv, WalletInv, NEW s \in Sessions, Finish(s)
    PROVE  WalletInv'
<1>1. /\ wallet' = wallet /\ pc' = [pc EXCEPT ![s] = "done"]
      /\ walletLock' = Unlocked(walletLock, s) /\ seenWallet' = seenWallet
  BY DEF Finish, DropLocks, tables
<1> QED
  BY <1>1, EndKeepsLocking DEF WalletInv, MoneyConserved, NoOverdraft

\* A settlement moves the estimate out of the reserve, the actual cost into
\* the spending and the difference to or from the balance.
LEMMA ChargeKeepsWallet ==
    ASSUME TypeInv, WalletInv, NEW s \in Sessions, Charge(s, wallet),
           seenRow[s] \in Rows, Free(walletLock, s),
           wallet.balance >= Overage(s)
    PROVE  WalletInv'
<1>1. /\ pc' = [pc EXCEPT ![s] = "done"]
      /\ walletLock' = Unlocked(walletLock, s) /\ seenWallet' = seenWallet
  BY DEF Charge, Goto, DropLocks
<1>2. /\ wallet.balance \in Int /\ wallet.reserved \in Int /\ wallet.spent \in Int
      /\ amount[s] \in Nat /\ seenRow[s].estimated \in Nat
  BY DEF TypeInv, TypeOK, Wallets, Rows
<1>3. /\ wallet'.balance = wallet.balance - Overage(s)
      /\ wallet'.reserved = wallet.reserved - seenRow[s].estimated
      /\ wallet'.spent = wallet.spent + amount[s]
  BY <1>2 DEF Charge, FlushWallet, Dirty
<1>4. MoneyConserved' /\ NoOverdraft'
  BY <1>2, <1>3 DEF WalletInv, MoneyConserved, NoOverdraft, Overage
<1> QED
  BY <1>1, <1>4, EndKeepsLocking DEF WalletInv

LEMMA HandlerKeepsWallet ==
    ASSUME FreshWallet, TypeInv, WalletInv, NEW s \in Sessions,
           \/ \E e \in Estimates : Arrive(s, e)
           \/ Handle(s) \/ InterimCommit(s) \/ Abandon(s)
    PROVE  WalletInv'
<1> USE DEF WalletInv, MoneyConserved, NoOverdraft
<1>0. /\ pc \in [Sessions -> PCs] /\ seenWallet \in [Sessions -> Wallets \cup {None}]
      /\ walletLock \in Sessions \cup {None} /\ None \notin Sessions
      /\ wallet.balance \in Int /\ wallet.reserved \in Int /\ wallet.spent \in Int
      /\ amount[s] \in Nat
  BY ConstantsOK DEF TypeInv, TypeOK, Wallets
\* Steps that only move the handler along, away from the wallet.
<1>1. ASSUME NEW e \in Estimates, Arrive(s, e) PROVE WalletInv'
  BY <1>0, <1>1 DEF Arrive, Goto, tables, locks, WalletLocking, FreshWallet
<1>2. CASE ReserveExisting(s)
  BY <1>0, <1>2 DEF ReserveExisting, Goto, tables, WalletLocking
<1>3. CASE ReserveNew(s)
  BY <1>0, <1>3 DEF ReserveNew, Goto, tables, locks, WalletLocking
<1>4. CASE LockLimit(s)
  BY <1>0, <1>4 DEF LockLimit, Goto, tables, WalletLocking
<1>5. CASE LimitPassed(s)
  BY <1>0, <1>5 DEF LimitPassed, Goto, tables, locks, WalletLocking
<1>6. CASE ReserveDuplicate(s)
  <2>1. walletLock # s
    BY <1>6 DEF ReserveDuplicate, WalletLocking
  <2> QED
    BY <1>0, <1>6, <2>1 DEF ReserveDuplicate, DropLocks, Unlocked, Goto, tables, WalletLocking
<1>7. CASE ReserveCommit(s)
  <2>1. walletLock = None /\ seenWallet[s] = None /\ WalletOf(s) = wallet
    BY <1>0, <1>7 DEF ReserveCommit, WalletLocking, Free, WalletOf
  <2>2. /\ wallet'.balance = wallet.balance - amount[s]
        /\ wallet'.reserved = wallet.reserved + amount[s]
        /\ wallet'.spent = wallet.spent
        /\ wallet.balance >= amount[s]
    BY <1>0, <1>7, <2>1 DEF ReserveCommit, FlushWallet, Dirty
  <2>3. seenWallet' = seenWallet /\ walletLock' = None /\ pc' = [pc EXCEPT ![s] = "provider"]
    BY <1>0, <1>7, <2>1 DEF ReserveCommit, DropLocks, Unlocked, Goto
  <2> QED
    BY <1>0, <1>7, <2>1, <2>2, <2>3 DEF WalletLocking, ReserveCommit
<1>8. ASSUME NEW a \in Actuals, ProviderAnswers(s, a) PROVE WalletInv'
  BY <1>0, <1>8 DEF ProviderAnswers, Goto, tables, locks, WalletLocking
<1>9. CASE ProviderFails(s)
  BY <1>0, <1>9 DEF ProviderFails, Goto, tables, locks, WalletLocking
<1>10. CASE SettleLock(s)
  BY <1>0, <1>10 DEF SettleLock, Goto, tables, WalletLocking
\* Steps that write the wallet, or take or give up its lock.
<1>11. CASE SettleWithin(s)
  <2>1. seenRow[s] \in Rows /\ WalletOf(s) = wallet /\ Free(walletLock, s) /\ Overage(s) <= 0
    BY <1>11, WalletOfIsWallet DEF SettleWithin, TypeInv, Loaded
  <2>2. Overage(s) \in Int
    BY <1>0, <2>1 DEF Overage, Rows
  <2>3. wallet.balance >= Overage(s)
    BY <1>0, <2>1, <2>2
  <2> QED
    BY <1>11, <2>1, <2>3, ChargeKeepsWallet DEF SettleWithin
<1>12. CASE SettleOver(s)
  <2>1. WalletOf(s) = wallet /\ walletLock \in {None, s}
    BY <1>12, WalletOfIsWallet DEF SettleOver, Free
  <2> QED
    BY <1>0, <1>12, <2>1 DEF SettleOver, Goto, tables, WalletLocking
<1>13. CASE OverCharge(s)
  <2>1. seenRow[s] \in Rows /\ seenWallet[s] = wallet /\ Free(walletLock, s)
    BY <1>13 DEF OverCharge, TypeInv, Loaded, WalletLocking, Free
  <2> QED
    BY <1>13, <2>1, ChargeKeepsWallet DEF OverCharge, OverageAllowed
<1>14. CASE OverRefused(s)
  BY <1>0, <1>14 DEF OverRefused, Goto, tables, locks, WalletLocking
<1>15. CASE ReleaseCommit(s)
  <2>1. WalletOf(s) = wallet /\ seenRow[s] \in Rows /\ Free(walletLock, s)
    BY <1>15, WalletOfIsWallet DEF ReleaseCommit, TypeInv, Loaded
  <2>2. /\ wallet'.balance = wallet.balance + seenRow[s].estimated
        /\ wallet'.reserved = wallet.reserved - seenRow[s].estimated
        /\ wallet'.spent = wallet.spent
    BY <1>0, <1>15, <2>1 DEF ReleaseCommit, FlushWallet, Dirty, Refunded, Rows
  <2>3. MoneyConserved' /\ NoOverdraft'
    BY <1>0, <2>1, <2>2 DEF Rows
  <2>4. WalletLocking'
    BY <1>15, <2>1, EndKeepsLocking DEF ReleaseCommit, Goto, DropLocks
  <2> QED
    BY <2>3, <2>4
<1>16. CASE InterimCommit(s)
  <2>1. walletLock # s
    BY <1>16 DEF InterimCommit, WalletLocking
  <2> QED
    BY <1>0, <1>16, <2>1 DEF InterimCommit, DropLocks, Unlocked, tables, handlers, WalletLocking
<1>17. ASSUME Finish(s) PROVE WalletInv'
  BY <1>17, FinishKeepsWallet
<1> QED
  BY <1>1, <1>2, <1>3, <1>4, <1>5, <1>6, <1>7, <1>8, <1>9, <1>10, <1>11, <1>12,
     <1>13, <1>14, <1>15, <1>16, <1>17
     DEF Handle, Abandon, LimitRefused, ReserveRefused, SettleClosed, SettleConflict,
         ReleaseClosed, ReleaseConflict, DeadlockVictim

LEMMA SweeperKeepsWallet ==
    ASSUME TypeInv, WalletInv,
           (\E k \in Keys : Age(k) \/ Expire(k)) \/ Sweep \/ SweepCrash
    PROVE  WalletInv'
<1> USE DEF WalletInv, MoneyConserved, NoOverdraft
<1>1. ASSUME wallet' = wallet, UNCHANGED <<locks, handlers>> PROVE WalletInv'
  BY <1>1 DEF WalletLocking, locks, handlers
<1>2. ASSUME NEW k \in Keys, Expire(k), ~ UNCHANGED tables PROVE WalletInv'
  <2>1. /\ walletLock = None /\ wallet' = Refunded(wallet, reservation[k])
        /\ UNCHANGED <<locks, handlers>>
    BY <1>2 DEF Expire
  <2>2. /\ wallet.balance \in Int /\ wallet.reserved \in Int /\ wallet.spent \in Int
        /\ reservation[k].estimated \in Nat
    BY DEF TypeInv, TypeOK, Wallets, Rows
  <2>3. MoneyConserved' /\ NoOverdraft'
    BY <2>1, <2>2 DEF Refunded
  <2>4. WalletLocking'
    BY <2>1, ConstantsOK DEF WalletLocking, locks, handlers
  <2> QED
    BY <2>3, <2>4
<1> QED
  BY <1>1, <1>2 DEF Age, Expire, Sweep, SweepCrash, tables

LEMMA WalletStep ==
    ASSUME FreshWallet
    PROVE  TypeInv /\ WalletInv /\ [Next]_vars => WalletInv'
<1> SUFFICES ASSUME TypeInv, WalletInv, [Next]_vars PROVE WalletInv'
  OBVIOUS
<1>1. CASE UNCHANGED vars
  BY <1>1 DEF WalletInv, WalletLocking, MoneyConserved, NoOverdraft, vars, tables, locks, handlers
<1>2. CASE Next
  BY <1>2, HandlerKeepsWallet, SweeperKeepsWallet DEF Next
<1> QED
  BY <1>1, <1>2

\* If the wallet is only read under its lock, then reserving, settling,
\* releasing and expiring conserve the customer's money, for any number of
\* concurrent requests, overlapping retries, requests that outlive their
\* reservation, crashes and deadlock aborts.
THEOREM MoneyIsConserved ==
    ASSUME FreshWallet
    PROVE  Spec => []MoneyConserved
<1>1. WalletInv => MoneyConserved
  BY DEF WalletInv
<1> QED
  BY TypeInit, TypeStep, WalletInit, WalletStep, <1>1, PTL DEF Spec

\* Under the same condition no interleaving overdraws the wallet: every
\* comparison with the balance is made on the row it is then taken from.
THEOREM NeverOverdrawn ==
    ASSUME FreshWallet
    PROVE  Spec => []NoOverdraft
<1>1. WalletInv => NoOverdraft
  BY DEF WalletInv
<1> QED
  BY TypeInit, TypeStep, WalletInit, WalletStep, <1>1, PTL DEF Spec

-----------------------------------------------------------------------------
(* The rows, when a reservation has one request at a time and no request   *)
(* outlives its reservation.  The wallet may be a stale copy here.         *)

OneOwner == "shared_key" \notin Hazards /\ "late_request" \notin Hazards

\* What is left to do to a reservation once it exists, and the part of it
\* in which the row was found open under its lock.
Holding  == {"provider", "settle", "settle_wallet", "over_limits", "over_sum", "release"}
Settling == {"settle_wallet", "over_limits", "over_sum"}

\* A live request is the only one on its key, the expiry task has not
\* selected the row, and the copy of the row it has is the committed one.
OwnerInv ==
    /\ \A s, t \in Sessions : Live(s) /\ Live(t) /\ key[s] = key[t] => s = t
    /\ \A s \in Sessions : Live(s) => key[s] \notin aged \/ ~ IsOpen(reservation[key[s]])
    /\ due \subseteq aged
    /\ \A k \in aged : reservation[k].status # "none"
    /\ \A s \in Sessions : pc[s] \in Holding =>
          seenRow[s] = reservation[key[s]] /\ seenRow[s].status # "none"
    /\ \A s \in Sessions : pc[s] \in Settling => IsOpen(seenRow[s])

LEMMA OwnerInit == Init => OwnerInv
BY DEF Init, OwnerInv, Live, Holding, Settling

\* A step that leaves rows and copies alone keeps the ownership.
LEMMA OwnerMoves ==
    ASSUME TypeInv, OwnerInv, NEW s \in Sessions, Live(s), NEW label \in PCs,
           UNCHANGED <<reservation, aged, due, key, seenRow>>,
           pc' = [pc EXCEPT ![s] = label],
           label \in Holding => pc[s] \in Holding,
           label \in Settling => IsOpen(seenRow[s])
    PROVE  OwnerInv'
<1>1. \A t \in Sessions : pc'[t] = IF t = s THEN label ELSE pc[t]
  BY DEF TypeInv, TypeOK
<1>2. \A t \in Sessions : Live(t)' => Live(t)
  BY <1>1 DEF Live
<1>3. \A t \in Sessions : pc'[t] \in Holding => pc[t] \in Holding
  BY <1>1
<1>4. \A t \in Sessions : pc'[t] \in Settling => IsOpen(seenRow[t])
  BY <1>1 DEF OwnerInv
<1> QED
  BY <1>2, <1>3, <1>4 DEF OwnerInv, IsOpen

\* A request that writes its row and ends disturbs nobody: no other live
\* request has the key.
LEMMA OwnerEnds ==
    ASSUME TypeInv, OwnerInv, NEW s \in Sessions, Live(s),
           UNCHANGED <<aged, due, key, seenRow>>,
           \A k \in Keys : k # key[s] => reservation'[k] = reservation[k],
           reservation'[key[s]].status # "none",
           pc' = [pc EXCEPT ![s] = "done"]
    PROVE  OwnerInv'
<1>1. \A t \in Sessions : pc'[t] = IF t = s THEN "done" ELSE pc[t]
  BY DEF TypeInv, TypeOK
<1>2. \A t \in Sessions : Live(t)' => Live(t) /\ t # s
  BY <1>1 DEF Live
<1>3. \A t \in Sessions : Live(t)' => key[t] # key[s] /\ reservation'[key[t]] = reservation[key[t]]
  BY <1>2 DEF OwnerInv, TypeInv, TypeOK
<1>4. \A t \in Sessions : pc'[t] \in Holding => Live(t)' /\ pc[t] \in Holding
  BY <1>1 DEF Live, Holding
<1>5. \A t \in Sessions : pc'[t] \in Settling => pc[t] \in Settling
  BY <1>1 DEF Settling
<1>6. \A k \in aged : reservation'[k].status # "none"
  BY DEF OwnerInv, TypeInv, TypeOK
<1> QED
  BY <1>2, <1>3, <1>4, <1>5, <1>6 DEF OwnerInv, IsOpen

LEMMA FinishKeepsOwner ==
    ASSUME TypeInv, OwnerInv, NEW s \in Sessions, Live(s), Finish(s)
    PROVE  OwnerInv'
<1>1. /\ UNCHANGED <<reservation, aged, due, key, seenRow>>
      /\ pc' = [pc EXCEPT ![s] = "done"]
  BY DEF Finish, tables, sweeper
<1> QED
  BY <1>1, OwnerMoves DEF PCs, Holding, Settling

\* The settlement of an owned row writes every column that settle computes.
LEMMA SettleEffect ==
    ASSUME TypeInv, OwnerInv, NEW s \in Sessions,
           SettleWithin(s) \/ OverCharge(s)
    PROVE  /\ key[s] \in Keys /\ amount[s] \in Nat
           /\ IsOpen(reservation[key[s]]) /\ seenRow[s] = reservation[key[s]]
           /\ reservation' = [reservation EXCEPT ![key[s]] =
                 [status    |-> "settled",
                  estimated |-> reservation[key[s]].estimated
                                  + (IF Overage(s) > 0 THEN Overage(s) ELSE 0),
                  settled   |-> amount[s],
                  released  |-> Leftover(s)]]
           /\ ledger' = [ledger EXCEPT ![key[s]] = @ \cup SettlementRows(s)]
<1> DEFINE row == [status    |-> "settled",
                   estimated |-> seenRow[s].estimated + (IF Overage(s) > 0 THEN Overage(s) ELSE 0),
                   settled   |-> amount[s],
                   released  |-> Leftover(s)]
<1>1. PICK old : Charge(s, old)
  BY DEF SettleWithin, OverCharge
<1>2. IsOpen(seenRow[s]) /\ seenRow[s] = reservation[key[s]]
  BY DEF SettleWithin, OverCharge, OwnerInv, Holding, Settling
<1>3. reservation' = [reservation EXCEPT ![key[s]] = FlushRow(reservation[key[s]], seenRow[s], row)]
  BY <1>1 DEF Charge
<1>4. FlushRow(reservation[key[s]], seenRow[s], row) = row
  BY <1>2 DEF FlushRow, Dirty
<1>5. ledger' = [ledger EXCEPT ![key[s]] = @ \cup SettlementRows(s)]
  BY <1>1 DEF Charge
<1>6. key[s] \in Keys /\ amount[s] \in Nat
  BY DEF TypeInv, TypeOK
<1> QED
  BY <1>2, <1>3, <1>4, <1>5, <1>6

\* So does the release.
LEMMA ReleaseEffect ==
    ASSUME TypeInv, OwnerInv, NEW s \in Sessions, ReleaseCommit(s)
    PROVE  /\ key[s] \in Keys
           /\ IsOpen(reservation[key[s]]) /\ seenRow[s] = reservation[key[s]]
           /\ reservation' = [reservation EXCEPT ![key[s]] = ReleasedRow(reservation[key[s]])]
           /\ ledger' = [ledger EXCEPT ![key[s]] = @ \cup {"release"}]
<1> DEFINE new == ReleasedRow(seenRow[s])
<1>1. IsOpen(seenRow[s]) /\ seenRow[s] = reservation[key[s]]
  BY DEF ReleaseCommit, OwnerInv, Holding
<1>2. key[s] \in Keys /\ seenRow[s] \in Rows /\ new \in Rows
  <2>1. key[s] \in Keys /\ seenRow[s] \in Rows
    BY <1>1 DEF TypeInv, TypeOK
  <2>2. new \in Rows
    BY <2>1 DEF ReleasedRow, Rows, Statuses
  <2> QED
    BY <2>1, <2>2
<1>3. reservation' = [reservation EXCEPT ![key[s]] = FlushRow(reservation[key[s]], seenRow[s], new)]
  BY DEF ReleaseCommit
<1> HIDE DEF new
<1>4. FlushRow(reservation[key[s]], seenRow[s], new) = new
  <2>1. FlushRow(reservation[key[s]], seenRow[s], new)
          = [status |-> new.status, estimated |-> new.estimated,
             settled |-> new.settled, released |-> new.released]
    BY <1>1 DEF FlushRow, Dirty
  <2> QED
    BY <1>2, <2>1 DEF Rows
<1>5. ledger' = [ledger EXCEPT ![key[s]] = @ \cup {"release"}]
  BY DEF ReleaseCommit
<1> QED
  BY <1>1, <1>2, <1>3, <1>4, <1>5 DEF new

\* A step of the request on its own key.
LEMMA HandlerKeepsOwner ==
    ASSUME OneOwner, TypeInv, OwnerInv, NEW s \in Sessions,
           \/ \E e \in Estimates : Arrive(s, e)
           \/ Handle(s) \/ InterimCommit(s) \/ Abandon(s)
    PROVE  OwnerInv'
<1> USE DEF PCs, Holding, Settling
<1>0. /\ pc \in [Sessions -> PCs] /\ key \in [Sessions -> Keys]
      /\ seenRow \in [Sessions -> Rows \cup {None}] /\ reservation \in [Keys -> Rows]
  BY DEF TypeInv, TypeOK
\* The router lets in only a request whose key is free and not expired.
<1>1. ASSUME NEW e \in Estimates, Arrive(s, e) PROVE OwnerInv'
  <2>1. /\ pc' = [pc EXCEPT ![s] = "lookup"]
        /\ UNCHANGED <<reservation, aged, due, key, seenRow>>
        /\ \A t \in Sessions : Live(t) => key[t] # key[s]
        /\ key[s] \notin aged \/ ~ IsOpen(reservation[key[s]])
    BY <1>1 DEF Arrive, Goto, OneOwner, tables, sweeper
  <2>2. \A t \in Sessions : Live(t)' => t = s \/ Live(t)
    BY <1>0, <2>1 DEF Live
  <2>3. \A t \in Sessions : pc'[t] \in Holding => t # s /\ pc'[t] = pc[t]
    BY <1>0, <2>1
  <2> QED
    BY <2>1, <2>2, <2>3 DEF OwnerInv, IsOpen
\* Steps that only move the request along.
<1>2. ASSUME NEW label \in PCs, UNCHANGED <<reservation, aged, due, key, seenRow>>,
             Live(s), pc' = [pc EXCEPT ![s] = label],
             label \in Holding => pc[s] \in Holding,
             label \in Settling => IsOpen(seenRow[s])
      PROVE  OwnerInv'
  BY <1>2, OwnerMoves
<1>3. CASE ReserveNew(s)
  BY <1>2, <1>3 DEF ReserveNew, Goto, Live, tables, sweeper
<1>4. CASE LockLimit(s)
  <2>1. pc[s] = "limits" \/ IsOpen(seenRow[s])
    BY <1>4 DEF LockLimit, OwnerInv
  <2> QED
    BY <1>2, <1>4, <2>1 DEF LockLimit, Goto, Live, tables, sweeper
<1>5. CASE LimitPassed(s)
  BY <1>2, <1>5 DEF LimitPassed, Goto, Live, tables, sweeper
<1>6. ASSUME NEW a \in Actuals, ProviderAnswers(s, a) PROVE OwnerInv'
  BY <1>2, <1>6 DEF ProviderAnswers, Goto, Live, tables, sweeper
<1>7. CASE ProviderFails(s)
  BY <1>2, <1>7 DEF ProviderFails, Goto, Live, tables, sweeper
<1>8. CASE SettleLock(s)
  BY <1>2, <1>8 DEF SettleLock, Goto, Live, tables, sweeper
<1>9. CASE SettleOver(s)
  <2>1. IsOpen(seenRow[s])
    BY <1>9 DEF SettleOver, OwnerInv
  <2> QED
    BY <1>2, <1>9, <2>1 DEF SettleOver, Goto, Live, tables, sweeper
<1>10. CASE OverRefused(s)
  BY <1>2, <1>10 DEF OverRefused, Goto, Live, tables, sweeper
<1>11. CASE InterimCommit(s)
  BY <1>11 DEF InterimCommit, OwnerInv, Live, IsOpen, tables, sweeper, handlers
\* Steps that load the row.
<1>12. CASE ReserveExisting(s) \/ ReserveDuplicate(s)
  <2>1. /\ UNCHANGED <<reservation, aged, due, key>>
        /\ pc' = [pc EXCEPT ![s] = "provider"]
        /\ seenRow' = [seenRow EXCEPT ![s] = reservation[key[s]]]
        /\ reservation[key[s]].status # "none" /\ Live(s)
    BY <1>12 DEF ReserveExisting, ReserveDuplicate, Goto, Live, tables, sweeper
  <2>2. \A t \in Sessions : Live(t)' => Live(t)
    BY <1>0, <2>1 DEF Live
  <2>3. \A t \in Sessions : t # s => pc'[t] = pc[t] /\ seenRow'[t] = seenRow[t]
    BY <1>0, <2>1
  <2>4. pc'[s] = "provider" /\ seenRow'[s] = reservation[key[s]]
    BY <1>0, <2>1
  <2> QED
    BY <2>1, <2>2, <2>3, <2>4 DEF OwnerInv, IsOpen
\* Steps that write the row.
<1>13. CASE ReserveCommit(s)
  <2> DEFINE row == [status |-> "reserved", estimated |-> amount[s],
                     settled |-> 0, released |-> 0]
  <2>1. /\ UNCHANGED <<aged, due, key>>
        /\ pc' = [pc EXCEPT ![s] = "provider"]
        /\ seenRow' = [seenRow EXCEPT ![s] = row]
        /\ reservation' = [reservation EXCEPT ![key[s]] = row]
        /\ reservation[key[s]].status = "none" /\ Live(s)
    BY <1>13 DEF ReserveCommit, Goto, Live, sweeper
  <2>2. row.status = "reserved"
    OBVIOUS
  <2> HIDE DEF row
  <2>3. \A t \in Sessions : Live(t)' => Live(t)
    BY <1>0, <2>1 DEF Live
  <2>4. \A t \in Sessions : t # s => pc'[t] = pc[t] /\ seenRow'[t] = seenRow[t]
    BY <1>0, <2>1
  <2>5. /\ pc'[s] = "provider" /\ seenRow'[s] = row /\ reservation'[key[s]] = row
        /\ key[s] \notin aged
    BY <1>0, <2>1 DEF OwnerInv
  <2>6. \A t \in Sessions : t # s /\ Live(t) => reservation'[key[t]] = reservation[key[t]]
    BY <1>0, <2>1 DEF OwnerInv
  <2>7. \A t \in Sessions : pc[t] \in Holding => Live(t)
    BY DEF Live
  <2>8. \A k \in aged : reservation'[k] = reservation[k]
    BY <1>0, <2>1, <2>5 DEF TypeInv, TypeOK
  <2> QED
    BY <2>1, <2>2, <2>3, <2>4, <2>5, <2>6, <2>7, <2>8 DEF OwnerInv, IsOpen
<1>14. CASE SettleWithin(s) \/ OverCharge(s)
  <2>1. /\ UNCHANGED <<aged, due, key, seenRow>>
        /\ pc' = [pc EXCEPT ![s] = "done"] /\ Live(s)
    BY <1>14 DEF SettleWithin, OverCharge, Charge, Goto, Live, sweeper
  <2>2. /\ \A k \in Keys : k # key[s] => reservation'[k] = reservation[k]
        /\ reservation'[key[s]].status = "settled"
    BY <1>0, <1>14, SettleEffect
  <2> QED
    BY <2>1, <2>2, OwnerEnds
<1>15. CASE ReleaseCommit(s)
  <2>1. /\ UNCHANGED <<aged, due, key, seenRow>>
        /\ pc' = [pc EXCEPT ![s] = "done"] /\ Live(s)
    BY <1>15 DEF ReleaseCommit, Goto, Live, sweeper
  <2>2. /\ \A k \in Keys : k # key[s] => reservation'[k] = reservation[k]
        /\ reservation'[key[s]] = ReleasedRow(reservation[key[s]])
    BY <1>0, <1>15, ReleaseEffect
  <2>3. ReleasedRow(reservation[key[s]]).status = "released"
    BY <1>0 DEF ReleasedRow, Rows
  <2> QED
    BY <2>1, <2>2, <2>3, OwnerEnds
<1>16. ASSUME Finish(s), Live(s) PROVE OwnerInv'
  BY <1>16, FinishKeepsOwner
<1> QED
  BY <1>1, <1>3, <1>4, <1>5, <1>6, <1>7, <1>8, <1>9, <1>10, <1>11, <1>12, <1>13,
     <1>14, <1>15, <1>16
     DEF Handle, Abandon, Live, LimitRefused, ReserveRefused, SettleClosed, SettleConflict,
         ReleaseClosed, ReleaseConflict, DeadlockVictim, WaitsFor

\* The clock does not expire the reservation of a live request, and the
\* expiry task writes only expired rows.
LEMMA SweeperKeepsOwner ==
    ASSUME OneOwner, TypeInv, OwnerInv,
           (\E k \in Keys : Age(k) \/ Expire(k)) \/ Sweep \/ SweepCrash
    PROVE  OwnerInv'
<1>0. key \in [Sessions -> Keys] /\ reservation \in [Keys -> Rows] /\ aged \subseteq Keys
  BY DEF TypeInv, TypeOK
<1>1. ASSUME NEW k \in Keys, Age(k) PROVE OwnerInv'
  <2>1. /\ UNCHANGED <<reservation, due, handlers>> /\ aged' = aged \cup {k}
        /\ IsOpen(reservation[k])
        /\ \A s \in Sessions : Live(s) => key[s] # k
    BY <1>1 DEF Age, OneOwner, tables
  <2> QED
    BY <2>1 DEF OwnerInv, Live, IsOpen, handlers
<1>2. ASSUME NEW k \in Keys, Expire(k) PROVE OwnerInv'
  <2>1. UNCHANGED <<aged, handlers>> /\ due' = due \ {k} /\ k \in due
    BY <1>2 DEF Expire
  <2>2. CASE UNCHANGED tables
    BY <2>1, <2>2 DEF OwnerInv, Live, IsOpen, handlers, tables
  <2>3. CASE ~ UNCHANGED tables
    <3>1. /\ IsOpen(reservation[k])
          /\ reservation' = [reservation EXCEPT ![k] = ReleasedRow(reservation[k])]
      BY <1>2, <2>3 DEF Expire
    <3>2. \A s \in Sessions : Live(s) => key[s] # k
      BY <2>1, <3>1 DEF OwnerInv
    <3>3. /\ reservation'[k].status = "released"
          /\ \A i \in Keys : i # k => reservation'[i] = reservation[i]
      BY <1>0, <3>1 DEF ReleasedRow, Rows
    <3>4. \A s \in Sessions : Live(s) => reservation'[key[s]] = reservation[key[s]]
      BY <1>0, <3>2, <3>3
    <3>5. \A i \in aged : reservation'[i].status # "none"
      BY <1>0, <3>3 DEF OwnerInv
    <3>6. \A s \in Sessions : pc[s] \in Holding => Live(s)
      BY DEF Live, Holding
    <3> QED
      BY <2>1, <3>4, <3>5, <3>6 DEF OwnerInv, Live, IsOpen, handlers
  <2> QED
    BY <2>2, <2>3
<1>3. CASE Sweep
  BY <1>3 DEF Sweep, Selected, OwnerInv, Live, IsOpen, tables, handlers
<1>4. CASE SweepCrash
  BY <1>4 DEF SweepCrash, OwnerInv, Live, IsOpen, tables, handlers
<1> QED
  BY <1>1, <1>2, <1>3, <1>4

LEMMA OwnerStep ==
    ASSUME OneOwner
    PROVE  TypeInv /\ OwnerInv /\ [Next]_vars => OwnerInv'
<1> SUFFICES ASSUME TypeInv, OwnerInv, [Next]_vars PROVE OwnerInv'
  OBVIOUS
<1>1. CASE UNCHANGED vars
  BY <1>1 DEF OwnerInv, Live, IsOpen, vars, tables, sweeper, handlers
<1>2. CASE Next
  BY <1>2, HandlerKeepsOwner, SweeperKeepsOwner DEF Next
<1> QED
  BY <1>1, <1>2

-----------------------------------------------------------------------------
(* Reservations and their ledger rows.                                     *)

\* Few steps write the tables: the commits of reserve, settle and release,
\* and one release of the expiry task.
LEMMA TableSteps ==
    ASSUME [Next]_vars
    PROVE  \/ UNCHANGED tables
           \/ \E s \in Sessions : \/ ReserveCommit(s)
                                  \/ SettleWithin(s) \/ OverCharge(s)
                                  \/ ReleaseCommit(s)
           \/ \E k \in Keys : Expire(k) /\ ~ UNCHANGED tables
<1>1. ASSUME NEW s \in Sessions, Finish(s) PROVE UNCHANGED tables
  BY <1>1 DEF Finish
<1>2. ASSUME NEW s \in Sessions, NEW e \in Estimates, Arrive(s, e) PROVE UNCHANGED tables
  BY <1>2 DEF Arrive
<1>3. ASSUME NEW s \in Sessions, NEW a \in Actuals, ProviderAnswers(s, a) PROVE UNCHANGED tables
  BY <1>3 DEF ProviderAnswers
<1>4. ASSUME NEW s \in Sessions, Handle(s)
      PROVE  \/ UNCHANGED tables
             \/ ReserveCommit(s) \/ SettleWithin(s) \/ OverCharge(s) \/ ReleaseCommit(s)
  BY <1>1, <1>3, <1>4
     DEF Handle, LimitRefused, ReserveRefused, SettleClosed, SettleConflict,
         ReleaseClosed, ReleaseConflict, DeadlockVictim, ReserveExisting, ReserveNew,
         LockLimit, LimitPassed, ReserveDuplicate, ProviderFails, SettleLock,
         SettleOver, OverRefused
<1>5. CASE UNCHANGED vars
  BY <1>5 DEF vars
<1> QED
  BY <1>1, <1>2, <1>4, <1>5
     DEF Next, InterimCommit, Abandon, Age, Sweep, SweepCrash

\* The amount a request reserves, and later the cost it charges.
AmountInv ==
    \A s \in Sessions :
        /\ pc[s] \in {"lookup", "limits", "sum", "wallet"} => amount[s] \in Estimates
        /\ pc[s] \in {"settle", "settle_wallet", "over_limits", "over_sum"}
              => amount[s] \in Actuals

LEMMA AmountInit == Init => AmountInv
BY DEF Init, AmountInv

LEMMA AmountStep == TypeInv /\ AmountInv /\ [Next]_vars => AmountInv'
<1> SUFFICES ASSUME TypeInv, AmountInv, [Next]_vars PROVE AmountInv'
  OBVIOUS
<1>0. pc \in [Sessions -> PCs] /\ amount \in [Sessions -> Nat]
  BY DEF TypeInv, TypeOK
<1>1. ASSUME UNCHANGED <<pc, amount>> PROVE AmountInv'
  BY <1>1 DEF AmountInv
<1>2. ASSUME NEW s \in Sessions, UNCHANGED amount, NEW label,
             pc' = [pc EXCEPT ![s] = label],
             \/ label \in {"done", "provider", "release"}
             \/ pc[s] \in {"lookup", "limits", "sum"} /\ label \in {"limits", "sum", "wallet"}
             \/ /\ pc[s] \in {"settle", "settle_wallet", "over_limits"}
                /\ label \in {"settle_wallet", "over_limits", "over_sum"}
      PROVE  AmountInv'
  BY <1>0, <1>2 DEF AmountInv
<1>3. ASSUME NEW s \in Sessions, Handle(s) \/ InterimCommit(s) \/ Abandon(s) PROVE AmountInv'
  <2>1. ASSUME Finish(s) PROVE AmountInv'
    BY <1>2, <2>1 DEF Finish
  <2>2. ASSUME NEW a \in Actuals, ProviderAnswers(s, a) PROVE AmountInv'
    BY <1>0, <2>2, ConstantsOK DEF ProviderAnswers, Goto, AmountInv
  <2>3. CASE ReserveExisting(s) \/ ReserveNew(s) \/ LockLimit(s) \/ LimitPassed(s)
    BY <1>2, <2>3 DEF ReserveExisting, ReserveNew, LockLimit, LimitPassed, Goto
  <2>4. CASE ReserveDuplicate(s) \/ ReserveCommit(s) \/ ProviderFails(s)
    BY <1>2, <2>4 DEF ReserveDuplicate, ReserveCommit, ProviderFails, Goto
  <2>5. CASE SettleLock(s) \/ SettleOver(s) \/ OverRefused(s) \/ ReleaseCommit(s)
    BY <1>2, <2>5 DEF SettleLock, SettleOver, OverRefused, ReleaseCommit, Goto
  <2>6. CASE SettleWithin(s) \/ OverCharge(s)
    BY <1>2, <2>6 DEF SettleWithin, OverCharge, Charge, Goto
  <2>7. CASE InterimCommit(s)
    BY <1>1, <2>7 DEF InterimCommit, handlers
  <2> QED
    BY <1>3, <2>1, <2>2, <2>3, <2>4, <2>5, <2>6, <2>7
       DEF Handle, Abandon, LimitRefused, ReserveRefused, SettleClosed, SettleConflict,
           ReleaseClosed, ReleaseConflict, DeadlockVictim
<1>4. ASSUME NEW s \in Sessions, NEW e \in Estimates, Arrive(s, e) PROVE AmountInv'
  BY <1>0, <1>4, ConstantsOK DEF Arrive, Goto, AmountInv
<1>5. ASSUME UNCHANGED handlers PROVE AmountInv'
  BY <1>1, <1>5 DEF handlers
<1> QED
  BY <1>3, <1>4, <1>5 DEF Next, Age, Expire, Sweep, SweepCrash, vars

\* One reservation and its rows of the ledger.
RowAgrees(row, rows) ==
    /\ "reservation" \in rows <=> row.status # "none"
    /\ "settled" \in rows <=> row.status = "settled"
    /\ "release" \in rows <=> row.released > 0
    /\ row.status \in {"settled", "released"} => row.settled + row.released = row.estimated
    /\ row.status \in {"none", "reserved"} => row.settled = 0 /\ row.released = 0
    /\ row.status = "reserved" => row.estimated > 0
    /\ row.status = "released" => row.settled = 0

RowsInv == \A k \in Keys : RowAgrees(reservation[k], ledger[k])

LEMMA RowsInit == Init => RowsInv
BY DEF Init, RowsInv, RowAgrees, NoRow

\* A commit of reserve, settle or release rewrites one reservation together
\* with its ledger rows, so that the two keep agreeing.
LEMMA RowsStep ==
    ASSUME TypeInv, OwnerInv, AmountInv, RowsInv, [Next]_vars
    PROVE  RowsInv'
<1>0. /\ reservation \in [Keys -> Rows] /\ ledger \in [Keys -> SUBSET Kinds]
      /\ key \in [Sessions -> Keys] /\ amount \in [Sessions -> Nat]
  BY DEF TypeInv, TypeOK
<1>1. CASE UNCHANGED tables
  BY <1>1 DEF tables, RowsInv
<1>2. ASSUME NEW k \in Keys, NEW row, NEW rows,
             reservation' = [reservation EXCEPT ![k] = row],
             ledger' = [ledger EXCEPT ![k] = rows],
             RowAgrees(row, rows)
      PROVE  RowsInv'
  BY <1>0, <1>2 DEF RowsInv
<1>3. ASSUME NEW s \in Sessions, ReserveCommit(s) PROVE RowsInv'
  <2> DEFINE row == [status |-> "reserved", estimated |-> amount[s],
                     settled |-> 0, released |-> 0]
  <2>1. /\ reservation' = [reservation EXCEPT ![key[s]] = row]
        /\ ledger' = [ledger EXCEPT ![key[s]] = ledger[key[s]] \cup {"reservation"}]
        /\ reservation[key[s]].status = "none" /\ amount[s] \in Estimates
    BY <1>3 DEF ReserveCommit, AmountInv
  <2>2. amount[s] > 0
    <3>1. amount[s] \in Nat \ {0}
      BY <2>1, ConstantsOK
    <3> QED
      BY <3>1
  <2>3. RowAgrees(reservation[key[s]], ledger[key[s]])
    BY <1>0 DEF RowsInv
  <2>4. RowAgrees(row, ledger[key[s]] \cup {"reservation"})
    BY <2>1, <2>2, <2>3 DEF RowAgrees
  <2> HIDE DEF row
  <2> QED
    BY <1>0, <1>2, <2>1, <2>4
<1>4. ASSUME NEW s \in Sessions, SettleWithin(s) \/ OverCharge(s) PROVE RowsInv'
  <2> DEFINE row == [status    |-> "settled",
                     estimated |-> reservation[key[s]].estimated
                                     + (IF Overage(s) > 0 THEN Overage(s) ELSE 0),
                     settled   |-> amount[s],
                     released  |-> Leftover(s)]
  <2>1. /\ IsOpen(reservation[key[s]]) /\ seenRow[s] = reservation[key[s]]
        /\ reservation' = [reservation EXCEPT ![key[s]] = row]
        /\ ledger' = [ledger EXCEPT ![key[s]] = ledger[key[s]] \cup SettlementRows(s)]
    BY <1>4, SettleEffect
  <2>2. RowAgrees(reservation[key[s]], ledger[key[s]]) /\ reservation[key[s]].estimated \in Nat
    BY <1>0 DEF RowsInv, Rows
  <2>3. Overage(s) = amount[s] - reservation[key[s]].estimated
    BY <2>1 DEF Overage
  <2>4. RowAgrees(row, ledger[key[s]] \cup SettlementRows(s))
    BY <1>0, <2>1, <2>2, <2>3 DEF RowAgrees, IsOpen, SettlementRows, Leftover
  <2> HIDE DEF row
  <2> QED
    BY <1>0, <1>2, <2>1, <2>4
<1>5. ASSUME NEW k \in Keys, IsOpen(reservation[k]),
             reservation' = [reservation EXCEPT ![k] = ReleasedRow(reservation[k])],
             ledger' = [ledger EXCEPT ![k] = ledger[k] \cup {"release"}]
      PROVE  RowsInv'
  <2>1. RowAgrees(reservation[k], ledger[k]) /\ reservation[k].estimated \in Nat
    BY <1>0 DEF RowsInv, Rows
  <2>2. PICK row \in Rows : row = reservation[k]
    BY <1>0, <1>5
  <2>3. /\ ReleasedRow(row).status = "released" /\ ReleasedRow(row).released = row.estimated
        /\ ReleasedRow(row).settled = row.settled /\ ReleasedRow(row).estimated = row.estimated
    BY DEF ReleasedRow, Rows
  <2>4. RowAgrees(ReleasedRow(row), ledger[k] \cup {"release"})
    BY <1>5, <2>1, <2>2, <2>3 DEF RowAgrees, IsOpen
  <2> QED
    BY <1>2, <1>5, <2>2, <2>4
<1>6. ASSUME NEW s \in Sessions, ReleaseCommit(s) PROVE RowsInv'
  BY <1>5, <1>6, ReleaseEffect
<1>7. ASSUME NEW k \in Keys, Expire(k), ~ UNCHANGED tables PROVE RowsInv'
  BY <1>5, <1>7 DEF Expire
<1> QED
  BY <1>1, <1>3, <1>4, <1>6, <1>7, TableSteps

\* A settled or released reservation is never written again, whatever the
\* interleaving, as long as its key serves one request at a time and the
\* request does not outlive it: every later commit finds the row closed.
THEOREM ClosedIsFinal ==
    ASSUME OneOwner
    PROVE  Spec => Finality
<1>1. ASSUME TypeInv, OwnerInv, [Next]_vars
      PROVE  [\A k \in Keys : reservation[k].status \in {"settled", "released"}
                                => reservation'[k] = reservation[k]]_vars
  <2>0. reservation \in [Keys -> Rows] /\ key \in [Sessions -> Keys]
    BY <1>1 DEF TypeInv, TypeOK
  <2>1. ASSUME NEW i \in Keys, NEW row, reservation' = [reservation EXCEPT ![i] = row],
               reservation[i].status \in {"none", "reserved"}
        PROVE  \A k \in Keys : reservation[k].status \in {"settled", "released"}
                                 => reservation'[k] = reservation[k]
    BY <2>0, <2>1
  <2>2. CASE UNCHANGED tables
    BY <2>2 DEF tables
  <2>3. ASSUME NEW s \in Sessions, ReserveCommit(s)
        PROVE  \A k \in Keys : reservation[k].status \in {"settled", "released"}
                                 => reservation'[k] = reservation[k]
    BY <2>0, <2>1, <2>3 DEF ReserveCommit
  <2>4. ASSUME NEW s \in Sessions, SettleWithin(s) \/ OverCharge(s) \/ ReleaseCommit(s)
        PROVE  \A k \in Keys : reservation[k].status \in {"settled", "released"}
                                 => reservation'[k] = reservation[k]
    BY <1>1, <2>0, <2>1, <2>4, SettleEffect, ReleaseEffect DEF IsOpen
  <2>5. ASSUME NEW k \in Keys, Expire(k), ~ UNCHANGED tables
        PROVE  \A i \in Keys : reservation[i].status \in {"settled", "released"}
                                 => reservation'[i] = reservation[i]
    BY <2>0, <2>1, <2>5 DEF Expire, IsOpen
  <2> QED
    BY <1>1, <2>2, <2>3, <2>4, <2>5, TableSteps
<1> QED
  BY TypeInit, TypeStep, OwnerInit, OwnerStep, <1>1, PTL DEF Spec, Finality

-----------------------------------------------------------------------------
(* The wallet and the rows tell the same story.                            *)

\* What a commit does to a wallet that was read under its lock.
LEMMA ReserveMoney ==
    ASSUME TypeInv, WalletInv, NEW s \in Sessions, ReserveCommit(s)
    PROVE  /\ wallet.balance >= amount[s]
           /\ wallet'.balance = wallet.balance - amount[s]
           /\ wallet'.reserved = wallet.reserved + amount[s]
           /\ wallet'.spent = wallet.spent
<1>1. WalletOf(s) = wallet
  BY WalletOfIsWallet DEF ReserveCommit
<1>2. /\ wallet.balance \in Int /\ wallet.reserved \in Int /\ wallet.spent \in Int
      /\ amount[s] \in Nat
  BY DEF TypeInv, TypeOK, Wallets
<1> QED
  BY <1>1, <1>2 DEF ReserveCommit, FlushWallet, Dirty

LEMMA SettleMoney ==
    ASSUME TypeInv, WalletInv, NEW s \in Sessions, SettleWithin(s) \/ OverCharge(s)
    PROVE  /\ wallet.balance >= Overage(s)
           /\ wallet'.balance = wallet.balance - Overage(s)
           /\ wallet'.reserved = wallet.reserved - seenRow[s].estimated
           /\ wallet'.spent = wallet.spent + amount[s]
<1>1. /\ wallet.balance \in Int /\ wallet.reserved \in Int /\ wallet.spent \in Int
      /\ amount[s] \in Nat /\ seenRow[s].estimated \in Nat
  BY DEF TypeInv, TypeOK, Loaded, Wallets, Rows, SettleWithin, OverCharge
<1>2. Charge(s, wallet)
  BY WalletOfIsWallet DEF SettleWithin, OverCharge, WalletInv, WalletLocking
<1>3. wallet.balance >= Overage(s)
  <2>1. CASE SettleWithin(s)
    BY <1>1, <2>1 DEF SettleWithin, Overage, WalletInv, NoOverdraft
  <2>2. CASE OverCharge(s)
    BY <2>2 DEF OverCharge, OverageAllowed, WalletInv, WalletLocking
  <2> QED
    BY <2>1, <2>2
<1> QED
  BY <1>1, <1>2, <1>3 DEF Charge, FlushWallet, Dirty

LEMMA ReleaseMoney ==
    ASSUME TypeInv, WalletInv, NEW s \in Sessions, ReleaseCommit(s)
    PROVE  /\ wallet'.balance = wallet.balance + seenRow[s].estimated
           /\ wallet'.reserved = wallet.reserved - seenRow[s].estimated
           /\ wallet'.spent = wallet.spent
<1>1. WalletOf(s) = wallet
  BY WalletOfIsWallet DEF ReleaseCommit
<1>2. /\ wallet.balance \in Int /\ wallet.reserved \in Int /\ wallet.spent \in Int
      /\ seenRow[s].estimated \in Nat
  BY DEF TypeInv, TypeOK, Loaded, Wallets, Rows, ReleaseCommit
<1> QED
  BY <1>1, <1>2 DEF ReleaseCommit, FlushWallet, Dirty, Refunded

LEMMA ExpireMoney ==
    ASSUME TypeInv, NEW k \in Keys, Expire(k), ~ UNCHANGED tables
    PROVE  /\ IsOpen(reservation[k])
           /\ wallet'.balance = wallet.balance + reservation[k].estimated
           /\ wallet'.reserved = wallet.reserved - reservation[k].estimated
           /\ wallet'.spent = wallet.spent
           /\ reservation' = [reservation EXCEPT ![k] = ReleasedRow(reservation[k])]
           /\ ledger' = [ledger EXCEPT ![k] = @ \cup {"release"}]
BY DEF Expire, Refunded

\* No settlement row, nothing settled; and a copy of an open row says that
\* nothing is settled, however stale the copy is.
SettledRows ==
    /\ \A k \in Keys :
          /\ "settled" \in ledger[k] => reservation[k].status \in {"settled", "released"}
          /\ "settled" \notin ledger[k] => reservation[k].settled = 0
    /\ \A s \in Sessions :
          /\ pc[s] \in Holding /\ IsOpen(seenRow[s]) => seenRow[s].settled = 0
          /\ pc[s] \in Settling => IsOpen(seenRow[s])

SpentInv == SettledRows /\ SpentMatches

LEMMA SpentInit == Init => SpentInv
<1> SUFFICES ASSUME Init PROVE SpentInv
  OBVIOUS
<1>1. Charged = {}
  BY DEF Init, Charged
<1>2. Total(Settled, Charged) = 0
  BY <1>1, TotalEmpty
<1> QED
  BY <1>2 DEF Init, SpentInv, SettledRows, SpentMatches, NoRow, Holding, Settling, IsOpen

\* The settled amounts of the charged keys, when one key is charged.
LEMMA OneMoreCharged ==
    ASSUME TypeOK, TypeOK', NEW k \in Keys, k \notin Charged,
           Charged' = Charged \cup {k},
           \A i \in Charged : reservation'[i].settled = reservation[i].settled
    PROVE  Total(Settled, Charged)' = Total(Settled, Charged) + reservation'[k].settled
<1> DEFINE f == Settled
           g == Settled'
           S == Charged
<1>1. IsFiniteSet(S) /\ S \subseteq Keys
  BY ConstantsOK, FS_Subset DEF Charged
<1>2. \A i \in S \cup {k} : g[i] \in Nat
  BY <1>1 DEF TypeOK, Settled, Rows
<1>3. \A i \in S : f[i] = g[i]
  BY <1>1 DEF Settled
<1> HIDE DEF f, g, S
<1>4. Total(f, S) = Total(g, S)
  BY <1>3, TotalSame
<1>5. Total(g, S \cup {k}) = Total(g, S) + g[k]
  BY <1>1, <1>2, TotalAdd DEF S
<1>6. g[k] = reservation'[k].settled
  BY DEF g, Settled
<1>7. Total(g, S \cup {k}) = Total(Settled, Charged)'
  BY DEF g, S
<1> QED
  BY <1>4, <1>5, <1>6, <1>7 DEF f, S

\* Nothing is charged: the sum stays.
LEMMA SameCharged ==
    ASSUME Charged' = Charged, \A i \in Charged : reservation'[i].settled = reservation[i].settled
    PROVE  Total(Settled, Charged)' = Total(Settled, Charged)
<1> DEFINE f == Settled
           g == Settled'
           S == Charged
<1>1. \A i \in S : f[i] = g[i]
  BY DEF Settled, Charged
<1>2. Total(g, S) = Total(Settled, Charged)'
  OBVIOUS
<1> HIDE DEF f, g, S
<1>3. Total(f, S) = Total(g, S)
  BY <1>1, TotalSame
<1> QED
  BY <1>2, <1>3 DEF f, S

\* A handler's copy of the row is the one it had, or one just read; and only
\* the copy of an open row is settled.
LEMMA CopiesAreRead ==
    ASSUME TypeInv, [Next]_vars, NEW t \in Sessions
    PROVE  /\ pc'[t] \in Holding =>
                 \/ pc[t] \in Holding /\ seenRow'[t] = seenRow[t]
                 \/ seenRow'[t] = reservation[key[t]]
                 \/ seenRow'[t].settled = 0
           /\ pc'[t] \in Settling =>
                 /\ seenRow'[t] = seenRow[t]
                 /\ pc[t] \in Settling \/ IsOpen(seenRow[t])
<1> DEFINE Goal == /\ pc'[t] \in Holding =>
                         \/ pc[t] \in Holding /\ seenRow'[t] = seenRow[t]
                         \/ seenRow'[t] = reservation[key[t]]
                         \/ seenRow'[t].settled = 0
                   /\ pc'[t] \in Settling =>
                         /\ seenRow'[t] = seenRow[t]
                         /\ pc[t] \in Settling \/ IsOpen(seenRow[t])
<1>0. pc \in [Sessions -> PCs] /\ seenRow \in [Sessions -> Rows \cup {None}]
  BY DEF TypeInv, TypeOK
<1>1. ASSUME UNCHANGED <<pc, seenRow>> PROVE Goal
  BY <1>1
<1>2. ASSUME NEW s \in Sessions, UNCHANGED seenRow, NEW label,
             pc' = [pc EXCEPT ![s] = label],
             label \in Holding => pc[s] \in Holding,
             label \in Settling => pc[s] \in Settling \/ IsOpen(seenRow[s])
      PROVE  Goal
  BY <1>0, <1>2
<1>3. ASSUME NEW s \in Sessions, pc' = [pc EXCEPT ![s] = "provider"],
             \/ seenRow' = [seenRow EXCEPT ![s] = reservation[key[s]]]
             \/ seenRow' = [seenRow EXCEPT ![s] =
                    [status |-> "reserved", estimated |-> amount[s],
                     settled |-> 0, released |-> 0]]
      PROVE  Goal
  <2>1. CASE s = t
    BY <1>0, <1>3, <2>1 DEF Settling
  <2>2. CASE s # t
    BY <1>0, <1>3, <2>2 DEF Settling
  <2> QED
    BY <2>1, <2>2
<1> HIDE DEF Goal
<1>4. ASSUME NEW s \in Sessions, Handle(s) \/ InterimCommit(s) \/ Abandon(s) PROVE Goal
  <2> USE DEF Holding, Settling, Goto
  <2>1. ASSUME Finish(s) PROVE Goal
    BY <1>2, <2>1 DEF Finish
  <2>2. ASSUME NEW a \in Actuals, ProviderAnswers(s, a) PROVE Goal
    BY <1>2, <2>2 DEF ProviderAnswers
  <2>3. CASE ReserveNew(s) \/ LockLimit(s) \/ LimitPassed(s) \/ ProviderFails(s)
    BY <1>2, <2>3 DEF ReserveNew, LockLimit, LimitPassed, ProviderFails
  <2>4. CASE SettleLock(s) \/ SettleOver(s) \/ OverRefused(s) \/ ReleaseCommit(s)
    BY <1>2, <2>4 DEF SettleLock, SettleOver, OverRefused, ReleaseCommit
  <2>5. CASE SettleWithin(s) \/ OverCharge(s)
    BY <1>2, <2>5 DEF SettleWithin, OverCharge, Charge
  <2>6. CASE ReserveExisting(s) \/ ReserveDuplicate(s) \/ ReserveCommit(s)
    BY <1>3, <2>6 DEF ReserveExisting, ReserveDuplicate, ReserveCommit
  <2>7. CASE InterimCommit(s)
    BY <1>1, <2>7 DEF InterimCommit, handlers
  <2> QED
    BY <1>4, <2>1, <2>2, <2>3, <2>4, <2>5, <2>6, <2>7
       DEF Handle, Abandon, LimitRefused, ReserveRefused, SettleClosed, SettleConflict,
           ReleaseClosed, ReleaseConflict, DeadlockVictim
<1>5. ASSUME NEW s \in Sessions, NEW e \in Estimates, Arrive(s, e) PROVE Goal
  BY <1>2, <1>5 DEF Arrive, Goto, Holding, Settling
<1>6. ASSUME UNCHANGED handlers PROVE Goal
  BY <1>1, <1>6 DEF handlers
<1> QED
  BY <1>4, <1>5, <1>6 DEF Next, Age, Expire, Sweep, SweepCrash, vars, Goal

\* Three ways a row is written, and what each means for the settled sums.
LEMMA SpentStep ==
    ASSUME FreshWallet
    PROVE  TypeInv /\ WalletInv /\ SpentInv /\ [Next]_vars => SpentInv'
<1> SUFFICES ASSUME TypeInv, WalletInv, SpentInv, [Next]_vars PROVE SpentInv'
  OBVIOUS
<1>0. /\ reservation \in [Keys -> Rows] /\ ledger \in [Keys -> SUBSET Kinds]
      /\ key \in [Sessions -> Keys] /\ amount \in [Sessions -> Nat]
  BY DEF TypeInv, TypeOK
<1>t. TypeOK /\ TypeOK'
  BY TypeStep DEF TypeInv
\* Copies of rows that are open have settled nothing, also new ones.
<1>c. \A t \in Sessions :
         /\ pc'[t] \in Holding /\ IsOpen(seenRow'[t]) => seenRow'[t].settled = 0
         /\ pc'[t] \in Settling => IsOpen(seenRow'[t])
  <2> TAKE t \in Sessions
  <2>1. ASSUME seenRow'[t] = reservation[key[t]], IsOpen(seenRow'[t])
        PROVE  seenRow'[t].settled = 0
    BY <1>0, <2>1 DEF SpentInv, SettledRows, IsOpen
  <2> QED
    BY <2>1, CopiesAreRead DEF SpentInv, SettledRows
\* Nothing is settled: status and ledger may still move.
<1>1. ASSUME wallet'.spent = wallet.spent,
             \A k \in Keys :
                /\ reservation'[k].settled = reservation[k].settled
                /\ "settled" \in ledger'[k] <=> "settled" \in ledger[k]
                /\ \/ reservation'[k].status = reservation[k].status
                   \/ reservation'[k].status \in {"settled", "released"}
                   \/ reservation[k].status = "none"
      PROVE  SpentInv'
  <2>1. Charged' = Charged
    BY <1>1 DEF Charged
  <2>2. Total(Settled, Charged)' = Total(Settled, Charged)
    BY <1>1, <2>1, SameCharged DEF Charged
  <2> QED
    BY <1>1, <1>c, <2>2 DEF SpentInv, SettledRows, SpentMatches
<1>2. CASE UNCHANGED tables
  BY <1>1, <1>2 DEF tables
<1>3. ASSUME NEW s \in Sessions, ReserveCommit(s) PROVE SpentInv'
  <2> DEFINE row == [status |-> "reserved", estimated |-> amount[s],
                     settled |-> 0, released |-> 0]
  <2>1. /\ reservation' = [reservation EXCEPT ![key[s]] = row]
        /\ ledger' = [ledger EXCEPT ![key[s]] = ledger[key[s]] \cup {"reservation"}]
        /\ reservation[key[s]].status = "none"
    BY <1>3 DEF ReserveCommit
  <2>2. reservation[key[s]].settled = 0
    BY <1>0, <2>1 DEF SpentInv, SettledRows
  <2>3. row.settled = 0
    OBVIOUS
  <2> HIDE DEF row
  <2>4. \A k \in Keys : /\ reservation'[k].settled = reservation[k].settled
                        /\ "settled" \in ledger'[k] <=> "settled" \in ledger[k]
                        /\ \/ reservation'[k].status = reservation[k].status
                           \/ reservation[k].status = "none"
    BY <1>0, <2>1, <2>2, <2>3
  <2> QED
    BY <1>1, <1>3, <2>4, ReserveMoney
<1>4. ASSUME NEW s \in Sessions, ReleaseCommit(s) PROVE SpentInv'
  <2> DEFINE seen == seenRow[s]
             new  == ReleasedRow(seen)
             row  == FlushRow(reservation[key[s]], seen, new)
  <2>1. /\ reservation' = [reservation EXCEPT ![key[s]] = row]
        /\ ledger' = [ledger EXCEPT ![key[s]] = ledger[key[s]] \cup {"release"}]
        /\ IsOpen(seen) /\ seen \in Rows
    BY <1>4 DEF ReleaseCommit, TypeInv, Loaded
  <2>2. new.status = "released" /\ new.settled = seen.settled
    BY <2>1 DEF ReleasedRow, Rows
  <2> HIDE DEF new
  <2>3. row.status = "released" /\ row.settled = reservation[key[s]].settled
    BY <2>1, <2>2 DEF FlushRow, Dirty, IsOpen
  <2> HIDE DEF row, seen
  <2>4. \A k \in Keys : /\ reservation'[k].settled = reservation[k].settled
                        /\ "settled" \in ledger'[k] <=> "settled" \in ledger[k]
                        /\ \/ reservation'[k].status = reservation[k].status
                           \/ reservation'[k].status = "released"
    BY <1>0, <2>1, <2>3
  <2> QED
    BY <1>1, <1>4, <2>4, ReleaseMoney
<1>5. ASSUME NEW k \in Keys, Expire(k), ~ UNCHANGED tables PROVE SpentInv'
  <2> DEFINE row == ReleasedRow(reservation[k])
  <2>1. /\ wallet'.spent = wallet.spent
        /\ reservation' = [reservation EXCEPT ![k] = row]
        /\ ledger' = [ledger EXCEPT ![k] = ledger[k] \cup {"release"}]
    BY <1>5, <1>t, ExpireMoney DEF TypeInv
  <2>2. row.status = "released" /\ row.settled = reservation[k].settled
    BY <1>0 DEF ReleasedRow, Rows
  <2> HIDE DEF row
  <2>3. \A i \in Keys : /\ reservation'[i].settled = reservation[i].settled
                        /\ "settled" \in ledger'[i] <=> "settled" \in ledger[i]
                        /\ \/ reservation'[i].status = reservation[i].status
                           \/ reservation'[i].status = "released"
    BY <1>0, <2>1, <2>2
  <2> QED
    BY <1>1, <2>1, <2>3
\* The cost is settled on a key that has no settlement row yet.
<1>6. ASSUME NEW s \in Sessions, SettleWithin(s) \/ OverCharge(s) PROVE SpentInv'
  <2> DEFINE k   == key[s]
             new == [status    |-> "settled",
                     estimated |-> seenRow[s].estimated + (IF Overage(s) > 0 THEN Overage(s) ELSE 0),
                     settled   |-> amount[s],
                     released  |-> Leftover(s)]
             row == FlushRow(reservation[k], seenRow[s], new)
  <2>1. PICK old : Charge(s, old)
    BY <1>6 DEF SettleWithin, OverCharge
  <2>2. /\ reservation' = [reservation EXCEPT ![k] = row]
        /\ ledger' = [ledger EXCEPT ![k] = ledger[k] \cup SettlementRows(s)]
        /\ SettlementRows(s) \cap ledger[k] = {}
    BY <2>1 DEF Charge
  <2>3. pc[s] \in {"settle_wallet", "over_sum"} /\ k \in Keys
    BY <1>0, <1>6 DEF SettleWithin, OverCharge
  <2>4. "settled" \in SettlementRows(s) /\ "settled" \notin ledger[k]
    BY <2>2 DEF SettlementRows
  <2>5. reservation[k].settled = 0
    BY <2>3, <2>4 DEF SpentInv, SettledRows
  <2>6. row.settled = amount[s] /\ row.status \in {"settled", "released"}
    <3>1. IsOpen(seenRow[s])
      BY <2>3 DEF SpentInv, SettledRows, Settling
    <3>2. seenRow[s].settled = 0
      BY <2>3, <3>1 DEF SpentInv, SettledRows, Holding
    <3> QED
      BY <2>5, <3>1, <3>2 DEF FlushRow, Dirty, IsOpen
  <2> HIDE DEF row
  <2>7. /\ reservation'[k] = row /\ "settled" \in ledger'[k]
        /\ \A i \in Keys : i # k => reservation'[i] = reservation[i] /\ ledger'[i] = ledger[i]
    BY <1>0, <2>2, <2>3, <2>4
  <2>8. k \notin Charged /\ Charged' = Charged \cup {k}
    BY <2>3, <2>4, <2>7 DEF Charged
  <2>9. \A i \in Charged : reservation'[i].settled = reservation[i].settled
    BY <2>7, <2>8 DEF Charged
  <2>10. Total(Settled, Charged)' = Total(Settled, Charged) + amount[s]
    BY <1>t, <2>3, <2>6, <2>7, <2>8, <2>9, OneMoreCharged
  <2>11. wallet'.spent = wallet.spent + amount[s]
    BY <1>6, SettleMoney
  <2>12. SettledRows'
    BY <1>c, <2>6, <2>7 DEF SpentInv, SettledRows
  <2> QED
    BY <2>10, <2>11, <2>12 DEF SpentInv, SpentMatches
<1> QED
  BY <1>2, <1>3, <1>4, <1>5, <1>6, TableSteps

\* The spending of the wallet is the sum of the settlement rows of the
\* ledger, which the spending limits add up, even when retries share a key
\* and requests outlive their reservation: a settlement is refused by the
\* unique ledger key and never lost, as long as the wallet is read locked.
THEOREM SpendingIsLedgered ==
    ASSUME FreshWallet
    PROVE  Spec => []SpentMatches
<1>1. SpentInv => SpentMatches
  BY DEF SpentInv
<1> QED
  BY TypeInit, TypeStep, WalletInit, WalletStep, SpentInit, SpentStep, <1>1, PTL DEF Spec

\* The reserve of the wallet is the sum of the open estimates.
Open         == WithStatus("reserved")
ReservedSums == wallet.reserved = Total(Estimated, Open)

LEMMA ReservedInit == Init => ReservedSums
<1> SUFFICES ASSUME Init PROVE ReservedSums
  OBVIOUS
<1>1. Open = {}
  BY DEF Init, Open, WithStatus, NoRow
<1> QED
  BY <1>1, TotalEmpty DEF Init, ReservedSums

\* A reservation that opens adds its estimate to the sum.
LEMMA OneMoreOpen ==
    ASSUME TypeOK, TypeOK', NEW k \in Keys,
           ~ IsOpen(reservation[k]), IsOpen(reservation'[k]),
           \A i \in Keys : i # k => reservation'[i] = reservation[i]
    PROVE  Total(Estimated, Open)' = Total(Estimated, Open) + reservation'[k].estimated
<1> DEFINE f == Estimated
           g == Estimated'
           S == Open
<1>1. IsFiniteSet(S) /\ k \notin S /\ S \subseteq Keys /\ Open' = S \cup {k}
  BY ConstantsOK, FS_Subset DEF Open, WithStatus, IsOpen
<1>2. \A i \in S \cup {k} : g[i] \in Nat
  BY <1>1 DEF TypeOK, Estimated, Rows
<1>3. (\A i \in S : f[i] = g[i]) /\ g[k] = reservation'[k].estimated
  BY <1>1 DEF Estimated
<1>4. Total(Estimated, Open)' = Total(g, S \cup {k})
  BY <1>1
<1> HIDE DEF f, g, S
<1>5. Total(f, S) = Total(g, S)
  BY <1>3, TotalSame
<1>6. Total(g, S \cup {k}) = Total(g, S) + g[k]
  BY <1>1, <1>2, TotalAdd
<1> QED
  BY <1>3, <1>4, <1>5, <1>6 DEF f, S

\* One that closes takes its estimate out of the sum.
LEMMA OneLessOpen ==
    ASSUME TypeOK, NEW k \in Keys,
           IsOpen(reservation[k]), ~ IsOpen(reservation'[k]),
           \A i \in Keys : i # k => reservation'[i] = reservation[i]
    PROVE  /\ Total(Estimated, Open) = Total(Estimated, Open)' + reservation[k].estimated
           /\ Total(Estimated, Open)' \in Nat
<1> DEFINE f == Estimated
           g == Estimated'
           S == Open
<1>1. /\ IsFiniteSet(S) /\ k \in S /\ S \subseteq Keys /\ Open' = S \ {k}
      /\ IsFiniteSet(S \ {k})
  BY ConstantsOK, FS_Subset DEF Open, WithStatus, IsOpen
<1>2. \A i \in S : f[i] \in Nat
  BY <1>1 DEF TypeOK, Estimated, Rows
<1>3. (\A i \in S \ {k} : f[i] = g[i]) /\ f[k] = reservation[k].estimated
  BY <1>1 DEF Estimated
<1>4. Total(Estimated, Open)' = Total(g, S \ {k})
  BY <1>1
<1> HIDE DEF f, g, S
<1>5. Total(f, S \ {k}) = Total(g, S \ {k})
  BY <1>3, TotalSame
<1>6. Total(f, S) = Total(f, S \ {k}) + f[k]
  BY <1>1, <1>2, TotalRemove
<1>7. Total(f, S \ {k}) \in Nat
  BY <1>1, <1>2, TotalType
<1> QED
  BY <1>3, <1>4, <1>5, <1>6, <1>7 DEF f, S

LEMMA ReservedStep ==
    ASSUME TypeInv, WalletInv, OwnerInv, ReservedSums, [Next]_vars
    PROVE  ReservedSums'
<1>0. /\ reservation \in [Keys -> Rows] /\ key \in [Sessions -> Keys]
      /\ amount \in [Sessions -> Nat] /\ wallet.reserved \in Int
      /\ TypeOK /\ TypeOK'
  BY TypeStep DEF TypeInv, TypeOK, Wallets
<1>1. CASE UNCHANGED tables
  BY <1>1 DEF tables, ReservedSums, Open, WithStatus, Estimated
<1>2. ASSUME NEW k \in Keys, IsOpen(reservation[k]), ~ IsOpen(reservation'[k]),
             \A i \in Keys : i # k => reservation'[i] = reservation[i],
             wallet'.reserved = wallet.reserved - reservation[k].estimated
      PROVE  ReservedSums'
  <2>1. /\ Total(Estimated, Open) = Total(Estimated, Open)' + reservation[k].estimated
        /\ Total(Estimated, Open)' \in Nat
    BY <1>0, <1>2, OneLessOpen
  <2>2. reservation[k].estimated \in Nat
    BY <1>0 DEF Rows
  <2> QED
    BY <1>0, <1>2, <2>1, <2>2 DEF ReservedSums
<1>3. ASSUME NEW s \in Sessions, ReserveCommit(s) PROVE ReservedSums'
  <2> DEFINE row == [status |-> "reserved", estimated |-> amount[s],
                     settled |-> 0, released |-> 0]
  <2>1. reservation' = [reservation EXCEPT ![key[s]] = row] /\ ~ IsOpen(reservation[key[s]])
    BY <1>3 DEF ReserveCommit, IsOpen
  <2>2. IsOpen(row) /\ row.estimated = amount[s]
    BY DEF IsOpen
  <2> HIDE DEF row
  <2>3. /\ reservation'[key[s]] = row
        /\ \A i \in Keys : i # key[s] => reservation'[i] = reservation[i]
    BY <1>0, <2>1
  <2>4. Total(Estimated, Open)' = Total(Estimated, Open) + amount[s]
    BY <1>0, <2>1, <2>2, <2>3, OneMoreOpen
  <2>5. wallet'.reserved = wallet.reserved + amount[s]
    BY <1>3, ReserveMoney
  <2> QED
    BY <2>4, <2>5 DEF ReservedSums
<1>4. ASSUME NEW s \in Sessions, SettleWithin(s) \/ OverCharge(s) PROVE ReservedSums'
  <2>1. wallet'.reserved = wallet.reserved - seenRow[s].estimated
    BY <1>4, SettleMoney
  <2>2. /\ ~ IsOpen(reservation'[key[s]])
        /\ \A i \in Keys : i # key[s] => reservation'[i] = reservation[i]
    BY <1>0, <1>4, SettleEffect DEF IsOpen
  <2> QED
    BY <1>2, <1>4, <2>1, <2>2, SettleEffect
<1>5. ASSUME NEW k \in Keys, reservation' = [reservation EXCEPT ![k] = ReleasedRow(reservation[k])]
      PROVE  /\ ~ IsOpen(reservation'[k])
             /\ \A i \in Keys : i # k => reservation'[i] = reservation[i]
  BY <1>0, <1>5 DEF IsOpen, ReleasedRow, Rows
<1>6. ASSUME NEW s \in Sessions, ReleaseCommit(s) PROVE ReservedSums'
  BY <1>2, <1>5, <1>6, ReleaseMoney, ReleaseEffect
<1>7. ASSUME NEW k \in Keys, Expire(k), ~ UNCHANGED tables PROVE ReservedSums'
  BY <1>2, <1>5, <1>7, ExpireMoney
<1> QED
  BY <1>1, <1>3, <1>4, <1>6, <1>7, TableSteps

\* The check reconcile_wallet makes never finds a difference: the reserve is
\* the sum of the open estimates, every reservation has exactly the ledger
\* rows its status calls for, and the parts of a closed one add up.  It needs
\* every environment condition: a wallet read under its lock, and one request
\* at a time on a reservation that does not outlive it.
THEOREM LedgerIsTrue ==
    ASSUME FreshWallet, OneOwner
    PROVE  Spec => []LedgerAgrees
<1>1. ReservedSums /\ RowsInv => LedgerAgrees
  BY DEF ReservedSums, Open, RowsInv, RowAgrees, LedgerAgrees
<1>2. /\ Init => ReservedSums /\ RowsInv
      /\ TypeInv /\ WalletInv /\ OwnerInv /\ AmountInv /\ ReservedSums /\ RowsInv /\ [Next]_vars
            => (ReservedSums /\ RowsInv)'
  BY ReservedInit, ReservedStep, RowsInit, RowsStep
<1> QED
  BY TypeInit, TypeStep, WalletInit, WalletStep, OwnerInit, OwnerStep, AmountInit, AmountStep,
     <1>1, <1>2, PTL DEF Spec

-----------------------------------------------------------------------------
(* The service implements the prepaid account.                             *)

\* What the account sees of a reservation.
State == [k \in Keys |-> reservation[k].status]
Held  == [k \in Keys |-> IF IsOpen(reservation[k]) THEN reservation[k].estimated
                                                   ELSE reservation[k].settled]

LEMMA AccountInit == Init => Account!Init
BY DEF Init, Account!Init, NoRow, IsOpen

\* One row is written: what the account sees of it.
LEMMA AccountRow ==
    ASSUME NEW k \in Keys, \A i \in Keys : i # k => reservation'[i] = reservation[i]
    PROVE  /\ State' = [State EXCEPT ![k] = State'[k]]
           /\ Held' = [Held EXCEPT ![k] = Held'[k]]
BY DEF State, Held, IsOpen

\* The three kinds of commit are the three operations of the account.
LEMMA HoldStep ==
    ASSUME TypeInv, NEW k \in Keys, NEW e \in Estimates,
           reservation' = [reservation EXCEPT ![k] =
               [status |-> "reserved", estimated |-> e, settled |-> 0, released |-> 0]],
           reservation[k].status = "none",
           wallet.balance >= e, wallet'.balance = wallet.balance - e
    PROVE  Account!Next
<1>1. reservation \in [Keys -> Rows]
  BY DEF TypeInv, TypeOK
<1>2. /\ reservation'[k].status = "reserved" /\ reservation'[k].estimated = e
      /\ \A i \in Keys : i # k => reservation'[i] = reservation[i]
  BY <1>1
<1>3. State' = [State EXCEPT ![k] = "reserved"] /\ Held' = [Held EXCEPT ![k] = e]
  <2>1. State'[k] = "reserved" /\ Held'[k] = e
    BY <1>2 DEF State, Held, IsOpen
  <2> QED
    BY <1>2, <2>1, AccountRow
<1>4. Account!Hold(k, e)
  BY <1>3 DEF Account!Hold, State, Held
<1> QED
  BY <1>4 DEF Account!Next

LEMMA ChargeStep ==
    ASSUME TypeInv, NEW k \in Keys, NEW a \in Actuals, NEW row, row.status = "settled", row.settled = a,
           reservation' = [reservation EXCEPT ![k] = row],
           IsOpen(reservation[k]),
           wallet.balance + reservation[k].estimated >= a,
           wallet'.balance = wallet.balance + reservation[k].estimated - a
    PROVE  Account!Next
<1>1. /\ reservation'[k] = row
      /\ \A i \in Keys : i # k => reservation'[i] = reservation[i]
  BY DEF TypeInv, TypeOK
<1>2. State' = [State EXCEPT ![k] = "settled"] /\ Held' = [Held EXCEPT ![k] = a]
  <2>1. State'[k] = "settled" /\ Held'[k] = a
    BY <1>1 DEF State, Held, IsOpen
  <2> QED
    BY <1>1, <2>1, AccountRow
<1>3. State[k] = "reserved" /\ Held[k] = reservation[k].estimated
  BY DEF State, Held, IsOpen
<1>4. Account!Charge(k, a)
  BY <1>2, <1>3 DEF Account!Charge, State, Held
<1> QED
  BY <1>4 DEF Account!Next

LEMMA CancelStep ==
    ASSUME TypeInv, NEW k \in Keys, IsOpen(reservation[k]), reservation[k].settled = 0,
           reservation' = [reservation EXCEPT ![k] = ReleasedRow(reservation[k])],
           wallet'.balance = wallet.balance + reservation[k].estimated
    PROVE  Account!Next
<1>1. reservation \in [Keys -> Rows]
  BY DEF TypeInv, TypeOK
<1>2. /\ reservation'[k].status = "released" /\ reservation'[k].settled = 0
      /\ \A i \in Keys : i # k => reservation'[i] = reservation[i]
  BY <1>1 DEF ReleasedRow, Rows
<1>3. State' = [State EXCEPT ![k] = "released"] /\ Held' = [Held EXCEPT ![k] = 0]
  <2>1. State'[k] = "released" /\ Held'[k] = 0
    BY <1>2 DEF State, Held, IsOpen
  <2> QED
    BY <1>2, <2>1, AccountRow
<1>4. State[k] = "reserved" /\ Held[k] = reservation[k].estimated
  BY DEF State, Held, IsOpen
<1>5. Account!Cancel(k)
  BY <1>3, <1>4 DEF Account!Cancel, State, Held
<1> QED
  BY <1>5 DEF Account!Next

\* Every commit of the service is one step of the account: reserve holds,
\* settle charges what the handler ran up (with the overage the balance was
\* compared with), release and the expiry task cancel.  Nothing else shows.
LEMMA AccountStep ==
    ASSUME TypeInv, WalletInv, OwnerInv, AmountInv, RowsInv, [Next]_vars
    PROVE  [Account!Next]_(Account!vars)
<1>0. /\ reservation \in [Keys -> Rows] /\ key \in [Sessions -> Keys]
      /\ amount \in [Sessions -> Nat] /\ wallet.balance \in Int
  BY DEF TypeInv, TypeOK, Wallets
<1>1. CASE UNCHANGED tables
  BY <1>1 DEF tables, Account!vars, IsOpen
<1>2. ASSUME NEW s \in Sessions, ReserveCommit(s) PROVE Account!Next
  <2>1. PICK k \in Keys : k = key[s]
    BY <1>0
  <2>2. PICK e \in Estimates : e = amount[s]
    BY <1>2 DEF ReserveCommit, AmountInv
  <2>3. /\ reservation' = [reservation EXCEPT ![k] =
               [status |-> "reserved", estimated |-> e, settled |-> 0, released |-> 0]]
        /\ reservation[k].status = "none"
    BY <1>2, <2>1, <2>2 DEF ReserveCommit
  <2>4. wallet.balance >= e /\ wallet'.balance = wallet.balance - e
    BY <1>2, <2>2, ReserveMoney
  <2> QED
    BY <2>3, <2>4, HoldStep
<1>3. ASSUME NEW s \in Sessions, SettleWithin(s) \/ OverCharge(s) PROVE Account!Next
  <2>1. PICK k \in Keys : k = key[s]
    BY <1>0
  <2>2. PICK a \in Actuals : a = amount[s]
    BY <1>3 DEF SettleWithin, OverCharge, AmountInv
  <2> DEFINE row == [status    |-> "settled",
                     estimated |-> reservation[k].estimated
                                     + (IF Overage(s) > 0 THEN Overage(s) ELSE 0),
                     settled   |-> a,
                     released  |-> Leftover(s)]
             held == reservation[k].estimated
  <2>3. /\ IsOpen(reservation[k]) /\ seenRow[s] = reservation[k]
        /\ reservation' = [reservation EXCEPT ![k] = row]
    BY <1>3, <2>1, <2>2, SettleEffect
  <2>4. row.status = "settled" /\ row.settled = a
    OBVIOUS
  <2> HIDE DEF row
  <2>5. /\ Overage(s) = a - held /\ held \in Nat /\ a \in Nat
        /\ wallet.balance >= Overage(s) /\ wallet'.balance = wallet.balance - Overage(s)
    BY <1>0, <1>3, <2>2, <2>3, SettleMoney DEF Overage, Rows
  <2>6. wallet.balance + held >= a /\ wallet'.balance = wallet.balance + held - a
    BY <1>0, <2>5
  <2> QED
    BY <2>3, <2>4, <2>6, ChargeStep
<1>4. ASSUME NEW k \in Keys, IsOpen(reservation[k]) PROVE reservation[k].settled = 0
  BY <1>4 DEF RowsInv, RowAgrees, IsOpen
<1>5. ASSUME NEW s \in Sessions, ReleaseCommit(s) PROVE Account!Next
  <2>1. PICK k \in Keys : k = key[s]
    BY <1>0
  <2>2. /\ IsOpen(reservation[k]) /\ seenRow[s] = reservation[k]
        /\ reservation' = [reservation EXCEPT ![k] = ReleasedRow(reservation[k])]
    BY <1>5, <2>1, ReleaseEffect
  <2> QED
    BY <1>4, <1>5, <2>2, ReleaseMoney, CancelStep
<1>6. ASSUME NEW k \in Keys, Expire(k), ~ UNCHANGED tables PROVE Account!Next
  BY <1>4, <1>6, ExpireMoney, CancelStep
<1> QED
  BY <1>1, <1>2, <1>3, <1>5, <1>6, TableSteps

\* The reserve / settle / release protocol, with its row locks, its stale
\* identity maps, its crashes, its deadlock aborts and its expiry task, is a
\* prepaid account whose operations are atomic, for any number of requests.
THEOREM AccountIsImplemented ==
    ASSUME FreshWallet, OneOwner
    PROVE  Spec => ImplementsAccount
<1>1. TypeInv /\ WalletInv /\ OwnerInv /\ AmountInv /\ RowsInv /\ [Next]_vars
        => RowsInv' /\ [Account!Next]_(Account!vars)
  BY RowsStep, AccountStep
<1> QED
  BY TypeInit, TypeStep, WalletInit, WalletStep, OwnerInit, OwnerStep, AmountInit, AmountStep,
     RowsInit, AccountInit, <1>1, PTL DEF Spec, ImplementsAccount, Account!Spec
=============================================================================
