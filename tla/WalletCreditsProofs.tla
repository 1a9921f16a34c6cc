----------------------- MODULE WalletCreditsProofs -----------------------
(***************************************************************************)
(* Bookings are made once, whether or not handlers overlap, and the budget *)
(* is current if they do not, for any number of handlers and references.   *)
(*                                                                         *)
(* The key of the ledger is unique, but a debit that notifies its user     *)
(* commits the wallet before its ledger row: in between nothing stops the  *)
(* same debit except that no other handler has it, and its row is lost if  *)
(* the process dies.  The first theorem excludes that death, and its       *)
(* invariant says who is between the two commits.                          *)
(***************************************************************************)
EXTENDS WalletCredits, TLAPS

\* No process dies between the two commits of a debit.
DebitsEnd == [][\A h \in Handlers : Crash(h) => pc[h] # "ledger"]_vars

BookTypeOK ==
    /\ posted \in [Entries -> Nat]
    /\ ledger \subseteq Entries
    /\ pc \in [Handlers -> PCs]
    /\ job \in [Handlers -> Entries \cup {None}]
    /\ \A h \in Handlers : pc[h] # "idle" => job[h] \in Entries

\* Handler h has debited the wallet and is about to write the ledger.
HalfWay(h) == pc[h] = "ledger"

BookInv ==
    /\ BookTypeOK
    /\ \A e \in Entries :
        /\ posted[e] <= 1
        /\ e \in ledger => posted[e] = 1
        /\ posted[e] = 1 /\ e \notin ledger => \E h \in Handlers : HalfWay(h) /\ job[h] = e
    /\ \A h \in Handlers : HalfWay(h) =>
        job[h].kind = "debit" /\ job[h] \notin ledger /\ posted[job[h]] = 1
    /\ \A g, h \in Handlers :
        job[g] = job[h] /\ job[g] \in Entries /\ job[g].kind = "debit" => g = h

LEMMA BookInit == Init => BookInv
<1> SUFFICES ASSUME Init PROVE BookInv
  OBVIOUS
<1>1. None \notin Entries
  BY ConstantsOK
<1>2. BookTypeOK
  BY DEF Init, BookTypeOK, PCs, Live
<1> QED
  BY <1>1, <1>2 DEF Init, BookInv, HalfWay

\* A handler that moves on before or after its booking disturbs nothing.
LEMMA HandlerMoves ==
    ASSUME BookInv, NEW h \in Handlers, NEW label \in PCs,
           label # "ledger", pc[h] # "ledger",
           Live(h) \/ label = "idle",
           pc' = [pc EXCEPT ![h] = label],
           UNCHANGED <<posted, ledger, job>>
    PROVE  BookInv'
<1>1. BookTypeOK'
  BY DEF BookInv, BookTypeOK, Live, PCs
<1>2. \A g \in Handlers : HalfWay(g)' <=> HalfWay(g)
  BY DEF BookInv, BookTypeOK, HalfWay
<1> QED
  BY <1>1, <1>2 DEF BookInv

\* What a commit may book was not booked before.
LEMMA CommitsNew ==
    ASSUME BookInv, NEW h \in Handlers, pc[h] = "commit", ~ KeyTaken(h)
    PROVE  job[h] \in Entries /\ posted[job[h]] = 0
<1>1. job[h] \in Entries
  BY DEF BookInv, BookTypeOK, Live
<1>2. posted[job[h]] \in Nat /\ posted[job[h]] <= 1
  BY <1>1 DEF BookInv, BookTypeOK
<1>3. posted[job[h]] # 1
  BY <1>1 DEF BookInv, KeyTaken, HalfWay
<1> QED
  BY <1>1, <1>2, <1>3

\* A booking that is committed with its row of the ledger.
LEMMA BooksWhole ==
    ASSUME BookInv, NEW h \in Handlers, NEW label \in PCs, label # "ledger",
           pc[h] = "commit", ~ KeyTaken(h),
           posted' = [posted EXCEPT ![job[h]] = @ + 1],
           ledger' = ledger \cup {job[h]},
           pc' = [pc EXCEPT ![h] = label], job' = job
    PROVE  BookInv'
<1>1. job[h] \in Entries /\ posted[job[h]] = 0
  BY CommitsNew
<1>2. posted \in [Entries -> Nat]
  BY DEF BookInv, BookTypeOK
<1>3. /\ posted' \in [Entries -> Nat] /\ posted'[job[h]] = 1
      /\ \A e \in Entries : e # job[h] => posted'[e] = posted[e]
  BY <1>1, <1>2
<1>4. BookTypeOK'
  BY <1>1, <1>3 DEF BookInv, BookTypeOK, Live
<1>5. \A g \in Handlers : (HalfWay(g)' <=> HalfWay(g)) /\ (HalfWay(g) => job[g] # job[h])
  BY <1>1 DEF BookInv, BookTypeOK, HalfWay
<1> QED
  BY <1>1, <1>3, <1>4, <1>5 DEF BookInv

\* A debit that notifies commits the wallet first.
LEMMA BooksHalf ==
    ASSUME BookInv, NEW h \in Handlers,
           pc[h] = "commit", ~ KeyTaken(h), job[h].kind = "debit",
           posted' = [posted EXCEPT ![job[h]] = @ + 1], ledger' = ledger,
           pc' = [pc EXCEPT ![h] = "ledger"], job' = job
    PROVE  BookInv'
<1>1. job[h] \in Entries /\ posted[job[h]] = 0
  BY CommitsNew
<1>2. posted \in [Entries -> Nat]
  BY DEF BookInv, BookTypeOK
<1>3. /\ posted' \in [Entries -> Nat] /\ posted'[job[h]] = 1
      /\ \A e \in Entries : e # job[h] => posted'[e] = posted[e]
  BY <1>1, <1>2
<1>4. BookTypeOK'
  BY <1>1, <1>3 DEF BookInv, BookTypeOK, Live, PCs
<1>5. \A g \in Handlers : HalfWay(g)' <=> HalfWay(g) \/ g = h
  BY DEF BookInv, BookTypeOK, HalfWay
<1>6. job[h] \notin ledger
  BY DEF KeyTaken
<1>7. \A e \in Entries : posted'[e] <= 1 /\ (e \in ledger' => posted'[e] = 1)
  BY <1>1, <1>3, <1>6 DEF BookInv
<1>8. \A e \in Entries : posted'[e] = 1 /\ e \notin ledger' =>
          \E g \in Handlers : HalfWay(g)' /\ job'[g] = e
  BY <1>1, <1>3, <1>5 DEF BookInv
<1>9. \A g \in Handlers : HalfWay(g)' =>
          job'[g].kind = "debit" /\ job'[g] \notin ledger' /\ posted'[job'[g]] = 1
  BY <1>1, <1>3, <1>5, <1>6 DEF BookInv, BookTypeOK
<1> QED
  BY <1>4, <1>7, <1>8, <1>9 DEF BookInv

\* The second commit of a debit that notified.
LEMMA DebitLedgerKeeps == ASSUME BookInv, NEW h \in Handlers, DebitLedger(h) PROVE BookInv'
<1>1. job[h] \in Entries /\ pc[h] = "ledger" /\ ledger' = ledger \cup {job[h]}
  BY DEF DebitLedger, Booked, BookInv, BookTypeOK
<1>2. posted[job[h]] = 1 /\ job[h].kind = "debit"
  BY <1>1 DEF BookInv, HalfWay
<1>3. posted' = posted /\ job' = job /\ pc' = [pc EXCEPT ![h] = "idle"]
  BY DEF DebitLedger, Goto
<1>4. BookTypeOK'
  BY <1>1, <1>3 DEF BookInv, BookTypeOK, PCs
<1>5. \A g \in Handlers : HalfWay(g)' <=> HalfWay(g) /\ g # h
  BY <1>1, <1>3 DEF BookInv, BookTypeOK, HalfWay
<1>6. \A g \in Handlers : HalfWay(g)' => job[g] # job[h]
  BY <1>1, <1>2, <1>5 DEF BookInv
<1>7. \A e \in Entries : posted'[e] = 1 /\ e \notin ledger' =>
          \E g \in Handlers : HalfWay(g)' /\ job'[g] = e
  BY <1>1, <1>3, <1>5 DEF BookInv
<1> QED
  BY <1>1, <1>2, <1>3, <1>4, <1>5, <1>6, <1>7 DEF BookInv

\* A debit is asked for once: no other handler has it.
LEMMA ReceiveKeeps ==
    ASSUME BookInv, NEW h \in Handlers, NEW e \in Entries, Receive(h, e) PROVE BookInv'
<1>1. /\ ~ Live(h) /\ Requestable(e) /\ job' = [job EXCEPT ![h] = e]
      /\ posted' = posted /\ ledger' = ledger
  BY DEF Receive
<1>2. PICK label \in {"idle", "load"} : pc' = [pc EXCEPT ![h] = label]
  BY DEF Receive, Goto
<1>3. BookTypeOK'
  BY <1>1, <1>2 DEF BookInv, BookTypeOK, PCs
<1>4. \A g \in Handlers : HalfWay(g)' <=> HalfWay(g)
  BY <1>1, <1>2 DEF BookInv, BookTypeOK, HalfWay, Live
<1>5. ~ HalfWay(h)
  BY <1>1 DEF HalfWay, Live
<1>6. \A g \in Handlers : HalfWay(g) => job'[g] = job[g]
  BY <1>1, <1>5 DEF BookInv, BookTypeOK
<1>7. e.kind = "debit" => \A g \in Handlers : job[g] # e
  BY <1>1, ConstantsOK DEF Requestable, Entries, Credits, Refs
<1>8. \A g, k \in Handlers :
          job'[g] = job'[k] /\ job'[g] \in Entries /\ job'[g].kind = "debit" => g = k
  BY <1>1, <1>7 DEF BookInv, BookTypeOK
<1> QED
  BY <1>1, <1>3, <1>4, <1>6, <1>8 DEF BookInv

LEMMA HandleKeeps == ASSUME BookInv, NEW h \in Handlers, Handle(h) PROVE BookInv'
<1>1. CASE Load(h)
  BY <1>1, HandlerMoves DEF Load, tables, Goto, Live, PCs
<1>2. CASE LookupFound(h)
  BY <1>2, HandlerMoves DEF LookupFound, tables, Goto, Live, PCs
<1>3. CASE LookupNoDebit(h)
  BY <1>3, HandlerMoves DEF LookupNoDebit, tables, Goto, Live, PCs
<1>4. CASE LookupNew(h)
  BY <1>4, HandlerMoves DEF LookupNew, tables, Goto, Live, PCs
<1>5. CASE Lock(h)
  BY <1>5, HandlerMoves DEF Lock, tables, Goto, Live, PCs
<1>6. CASE DebitRefused(h)
  BY <1>6, HandlerMoves DEF DebitRefused, tables, Goto, Live, PCs
<1>7. CASE Conflict(h)
  BY <1>7, HandlerMoves DEF Conflict, tables, Goto, Live, PCs
<1>8. CASE CreditCommit(h)
  BY <1>8, BooksWhole DEF CreditCommit, Booked, Goto, PCs
<1>9. CASE RefundCommit(h)
  BY <1>9, BooksWhole DEF RefundCommit, Booked, Goto, PCs
<1>10. CASE DebitCommit(h)
  <2>1. PICK whole \in BOOLEAN :
            /\ ledger' = IF whole THEN Booked(h) ELSE ledger
            /\ pc' = [pc EXCEPT ![h] = IF whole THEN "idle" ELSE "ledger"]
    BY <1>10 DEF DebitCommit, Goto
  <2>2. /\ pc[h] = "commit" /\ job[h].kind = "debit" /\ ~ KeyTaken(h) /\ job' = job
        /\ posted' = [posted EXCEPT ![job[h]] = @ + 1]
    BY <1>10 DEF DebitCommit
  <2>3. CASE whole
    BY <2>1, <2>2, <2>3, BooksWhole DEF Booked, PCs
  <2>4. CASE ~ whole
    BY <2>1, <2>2, <2>4, BooksHalf
  <2> QED
    BY <2>3, <2>4
<1>11. CASE DebitLedger(h)
  BY <1>11, DebitLedgerKeeps
<1>12. CASE RecordEvent(h)
  BY <1>12, HandlerMoves DEF RecordEvent, Goto, Live, PCs
<1> QED
  BY <1>1, <1>2, <1>3, <1>4, <1>5, <1>6, <1>7, <1>8, <1>9, <1>10, <1>11, <1>12 DEF Handle

LEMMA NextKeepsBooks ==
    BookInv /\ [Next]_vars /\ [\A h \in Handlers : Crash(h) => pc[h] # "ledger"]_vars => BookInv'
<1> SUFFICES ASSUME BookInv, [Next]_vars,
                    [\A h \in Handlers : Crash(h) => pc[h] # "ledger"]_vars
             PROVE  BookInv'
  OBVIOUS
<1>1. ASSUME NEW h \in Handlers, NEW e \in Entries, Request(h, e) PROVE BookInv'
  BY <1>1, ReceiveKeeps DEF Request
<1>2. ASSUME NEW h \in Handlers, Redeliver(h) PROVE BookInv'
  <2>1. job[h] \in Entries
    BY <1>2 DEF Redeliver, BookInv, BookTypeOK
  <2> QED
    BY <1>2, <2>1, ReceiveKeeps DEF Redeliver
<1>3. ASSUME NEW h \in Handlers, Crash(h) PROVE BookInv'
  <2>1. vars' # vars
    BY <1>3 DEF Crash, Goto, Live, vars, handlers, BookInv, BookTypeOK
  <2>2. pc[h] # "ledger"
    BY <1>3, <2>1
  <2> QED
    BY <1>3, <2>2, HandlerMoves DEF Crash, Goto, tables, PCs
<1>4. CASE ResetBudgets
  BY <1>4 DEF ResetBudgets, handlers, BookInv, BookTypeOK, HalfWay
<1>5. CASE UNCHANGED vars
  BY <1>5 DEF vars, tables, handlers, BookInv, BookTypeOK, HalfWay
<1> QED
  BY <1>1, <1>2, <1>3, <1>4, <1>5, HandleKeeps DEF Next

-----------------------------------------------------------------------------
\* Payments delivered again, retried debits and refunds that race are booked
\* once, on the wallet and in the ledger, as long as no process dies between
\* the two commits of a debit that notifies its user.
THEOREM BookingsAreOnce == Spec /\ DebitsEnd => []BookedOnce
<1>1. BookInv => BookedOnce
  <2> SUFFICES ASSUME BookInv, NEW e \in Entries
               PROVE  /\ posted[e] <= 1
                      /\ \/ posted[e] > 0 <=> e \in ledger
                         \/ \E h \in Handlers : job[h] = e /\ pc[h] = "ledger"
    BY DEF BookedOnce
  <2>1. posted[e] \in Nat
    BY DEF BookInv, BookTypeOK
  <2> QED
    BY <2>1 DEF BookInv, HalfWay
<1> QED
  BY <1>1, BookInit, NextKeepsBooks, PTL DEF Spec, DebitsEnd

-----------------------------------------------------------------------------
(* The budget.                                                             *)

\* Without overlap one handler works at a time, and a commit writes over the
\* budget it has read.
BudgetInv ==
    /\ budget \in Budgets /\ since \in Nat
    /\ seenBudget \in [Handlers -> Budgets \cup {None}]
    /\ pc \in [Handlers -> PCs]
    /\ job \in [Handlers -> Entries \cup {None}]
    /\ \A h \in Handlers : pc[h] # "idle" => job[h] \in Entries
    /\ \A g, h \in Handlers : Live(g) /\ Live(h) => g = h
    /\ \A h \in Handlers : pc[h] = "commit" => seenBudget[h] = budget
    /\ budget.spend <= since

LEMMA BudgetInit == Init => BudgetInv
BY DEF Init, BudgetInv, Budgets, PCs, Live

\* A handler that goes on without a commit.
LEMMA BudgetMoves ==
    ASSUME BudgetInv, NEW h \in Handlers, Live(h), NEW label \in PCs, label # "commit",
           pc' = [pc EXCEPT ![h] = label], UNCHANGED <<budget, since, seenBudget, job>>
    PROVE  BudgetInv'
BY DEF BudgetInv, Live

\* A commit that leaves no more spent than was debited since the reset.
LEMMA BudgetCommits ==
    ASSUME BudgetInv, NEW h \in Handlers, pc[h] = "commit", NEW label \in PCs, label # "commit",
           pc' = [pc EXCEPT ![h] = label], UNCHANGED <<seenBudget, job>>,
           budget' \in Budgets, since' \in Nat, budget'.spend <= since'
    PROVE  BudgetInv'
<1>1. \A g \in Handlers : pc'[g] # "commit"
  BY DEF BudgetInv, Live
<1> QED
  BY <1>1 DEF BudgetInv, Live

\* Writing the columns that differ writes the whole budget if nobody else did.
LEMMA BudgetWhole ==
    ASSUME budget \in Budgets, NEW n \in Budgets
    PROVE  FlushBudget(budget, n) = n
BY DEF FlushBudget, Dirty, Budgets

LEMMA BudgetRead ==
    ASSUME BudgetInv, NEW h \in Handlers, pc[h] = "commit"
    PROVE  /\ seenBudget[h] = budget /\ budget \in Budgets
           /\ budget.spend \in Nat /\ since \in Nat /\ budget.spend <= since
           /\ job[h] \in Entries /\ Amount(h) \in Nat
<1>1. job[h] \in Entries
  BY DEF BudgetInv
<1>2. job[h].ref \in Refs
  BY <1>1 DEF Entries, Refs
<1> QED
  BY <1>1, <1>2, ConstantsOK DEF BudgetInv, Budgets, Amount

\* A budget that opens again has a smaller spend.
LEMMA ReopenedBudget ==
    ASSUME BudgetInv, NEW h \in Handlers, pc[h] = "commit",
           NEW balance, NEW spend \in Nat, spend <= budget.spend
    PROVE  /\ FlushBudget(seenBudget[h], Reopened(h, balance, spend)) \in Budgets
           /\ FlushBudget(seenBudget[h], Reopened(h, balance, spend)).spend <= since
<1>1. PICK b \in Budgets : b = budget
  BY BudgetRead
<1> DEFINE n == IF b.reached /\ balance > 0 THEN [b EXCEPT !.reached = FALSE, !.spend = spend] ELSE b
<1>2. n \in Budgets /\ n.spend \in {spend, b.spend}
  BY DEF Budgets
<1>3. Reopened(h, balance, spend) = n
  BY <1>1, BudgetRead, Zenon DEF Reopened
<1> HIDE DEF n
<1>4. FlushBudget(seenBudget[h], Reopened(h, balance, spend)) = n
  <2>1. FlushBudget(budget, n) = n
    BY <1>1, <1>2, BudgetWhole
  <2> QED
    BY <1>3, <2>1, BudgetRead
<1> QED
  BY <1>1, <1>2, <1>4, BudgetRead

\* Subtracting stops at zero.
LEMMA MinusSmaller ==
    ASSUME NEW a \in Nat, NEW b \in Nat
    PROVE  Minus(a, b) \in Nat /\ Minus(a, b) <= a
BY DEF Minus

LEMMA CreditKeepsBudget ==
    ASSUME BudgetInv, NEW h \in Handlers, CreditCommit(h) \/ RefundCommit(h)
    PROVE  BudgetInv'
<1>1. pc[h] = "commit" /\ UNCHANGED <<since, seenBudget, job>>
  BY DEF CreditCommit, RefundCommit
<1>2. PICK label \in {"idle", "record"} : pc' = [pc EXCEPT ![h] = label]
  BY DEF CreditCommit, RefundCommit, Goto
<1>3. budget' \in Budgets /\ budget'.spend <= since
  <2>1. CASE CreditCommit(h)
    BY <1>1, <2>1, BudgetRead, ReopenedBudget DEF CreditCommit
  <2>2. CASE RefundCommit(h)
    <3>1. Minus(seenBudget[h].spend, Amount(h)) \in Nat
          /\ Minus(seenBudget[h].spend, Amount(h)) <= budget.spend
      BY <1>1, BudgetRead, MinusSmaller
    <3> QED
      BY <1>1, <2>2, <3>1, ReopenedBudget DEF RefundCommit
  <2> QED
    BY <2>1, <2>2
<1> QED
  BY <1>1, <1>2, <1>3, BudgetRead, BudgetCommits DEF PCs

\* A debit is added to both.
LEMMA DebitKeepsBudget == ASSUME BudgetInv, NEW h \in Handlers, DebitCommit(h) PROVE BudgetInv'
<1>1. pc[h] = "commit" /\ UNCHANGED <<seenBudget, job>> /\ since' = since + Amount(h)
  BY DEF DebitCommit
<1>2. PICK label \in {"idle", "ledger"} : pc' = [pc EXCEPT ![h] = label]
  BY DEF DebitCommit, Goto
<1>3. PICK b \in Budgets, a \in Nat : b = budget /\ a = Amount(h)
  BY <1>1, BudgetRead
<1>4. Debited(b, b.spend + a) \in Budgets /\ Debited(b, b.spend + a).spend = b.spend + a
  BY DEF Debited, Budgets
<1>5. budget' = Debited(b, b.spend + a)
  <2>1. budget' = FlushBudget(budget, Debited(b, b.spend + a))
    BY <1>1, <1>3, BudgetRead DEF DebitCommit
  <2> QED
    BY <1>3, <1>4, <2>1, BudgetWhole
<1>6. budget' \in Budgets /\ since' \in Nat /\ budget'.spend <= since'
  BY <1>1, <1>3, <1>4, <1>5, BudgetRead
<1> QED
  BY <1>1, <1>2, <1>6, BudgetCommits DEF PCs

LEMMA HandleKeepsBudget == ASSUME BudgetInv, NEW h \in Handlers, Handle(h) PROVE BudgetInv'
<1>1. CASE Load(h) \/ LookupFound(h) \/ LookupNoDebit(h) \/ LookupNew(h) \/ DebitRefused(h)
  <2>1. PICK label \in PCs \ {"commit"} : pc' = [pc EXCEPT ![h] = label]
    BY <1>1 DEF Load, LookupFound, LookupNoDebit, LookupNew, DebitRefused, Goto, PCs
  <2>2. Live(h) /\ UNCHANGED <<budget, since, seenBudget, job>>
    BY <1>1 DEF Load, LookupFound, LookupNoDebit, LookupNew, DebitRefused, Live, tables
  <2> QED
    BY <2>1, <2>2, BudgetMoves
<1>2. CASE Conflict(h) \/ DebitLedger(h) \/ RecordEvent(h)
  <2>1. PICK label \in PCs \ {"commit"} : pc' = [pc EXCEPT ![h] = label]
    BY <1>2 DEF Conflict, DebitLedger, RecordEvent, Goto, PCs
  <2>2. Live(h) /\ UNCHANGED <<budget, since, seenBudget, job>>
    BY <1>2 DEF Conflict, DebitLedger, RecordEvent, Live, tables
  <2> QED
    BY <2>1, <2>2, BudgetMoves
<1>3. CASE Lock(h)
  BY <1>3 DEF Lock, Goto, tables, BudgetInv, Live, PCs
<1> QED
  BY <1>1, <1>2, <1>3, CreditKeepsBudget, DebitKeepsBudget DEF Handle

LEMMA NextKeepsBudget == BudgetInv /\ ~ Overlap /\ [Next]_vars => BudgetInv'
<1> SUFFICES ASSUME BudgetInv, ~ Overlap, [Next]_vars PROVE BudgetInv'
  OBVIOUS
<1>1. ASSUME NEW h \in Handlers, NEW e \in Entries, Receive(h, e) PROVE BudgetInv'
  <2>1. PICK label \in {"idle", "load"} : pc' = [pc EXCEPT ![h] = label]
    BY <1>1 DEF Receive, Goto
  <2>2. /\ job' = [job EXCEPT ![h] = e] /\ UNCHANGED <<budget, since, seenBudget>>
        /\ \A g \in Handlers : ~ Live(g)
    BY <1>1 DEF Receive
  <2> QED
    BY <2>1, <2>2 DEF BudgetInv, Live, PCs
<1>2. ASSUME NEW h \in Handlers, Redeliver(h) PROVE BudgetInv'
  <2>1. job[h] \in Entries
    BY <1>2 DEF Redeliver, BudgetInv
  <2> QED
    BY <1>1, <1>2, <2>1 DEF Redeliver
<1>3. ASSUME NEW h \in Handlers, Crash(h) PROVE BudgetInv'
  BY <1>3, BudgetMoves DEF Crash, Goto, tables, PCs
<1>4. CASE ResetBudgets
  <2>1. \A h \in Handlers : ~ Live(h)
    BY <1>4 DEF ResetBudgets
  <2>2. \A h \in Handlers : pc[h] # "commit"
    BY <2>1 DEF Live
  <2>3. budget' \in Budgets /\ budget'.spend = 0 /\ since' = 0
    BY <1>4 DEF ResetBudgets, ResetRow, Budgets
  <2> QED
    BY <1>4, <2>2, <2>3 DEF ResetBudgets, handlers, BudgetInv, Live
<1>5. CASE UNCHANGED vars
  BY <1>5 DEF vars, tables, handlers, BudgetInv, Live
<1> QED
  BY <1>1, <1>2, <1>3, <1>4, <1>5, HandleKeepsBudget DEF Next, Request

\* As long as operations on the wallet do not overlap, a budget counts no
\* more than what was debited since it was last reset, whatever is refunded,
\* credited, notified or cut off in between.
THEOREM BudgetsAreCurrent == ~ Overlap => (Spec => []BudgetIsCurrent)
<1>1. BudgetInv => BudgetIsCurrent
  BY DEF BudgetInv, BudgetIsCurrent
<1> SUFFICES ASSUME ~ Overlap PROVE Spec => []BudgetIsCurrent
  OBVIOUS
<1>2. BudgetInv /\ [Next]_vars => BudgetInv'
  BY NextKeepsBudget
<1> QED
  BY <1>1, <1>2, BudgetInit, PTL DEF Spec

-----------------------------------------------------------------------------
(* The book of entries.                                                    *)

\* Without overlap a handler holds the committed wallet from its load to its
\* commit, and what it found out before the lock is still true: the entry is
\* new, a refunded debit was made, a debit is covered.  Only a debit can be
\* on the wallet without its row of the ledger, when a process died between
\* the two commits.
Ready(h) ==
    /\ pc[h] \in {"lookup", "lock", "commit"} => seen[h] = wallet
    /\ pc[h] \in {"lock", "commit"} =>
          /\ posted[job[h]] = 0
          /\ job[h].kind = "refund" => posted[[kind |-> "debit", ref |-> job[h].ref]] > 0
    /\ pc[h] = "commit" => Covered(h)
    /\ pc[h] = "ledger" => posted[job[h]] > 0

Recorded ==
    \A e \in Entries : /\ posted[e] = 0 => e \notin ledger
                       /\ e.kind # "debit" /\ posted[e] > 0 => e \in ledger

SerialInv ==
    /\ BookTypeOK
    /\ wallet.balance \in Int
    /\ DOMAIN seen = Handlers
    /\ \A g, h \in Handlers : Live(g) /\ Live(h) => g = h
    /\ Recorded
    /\ \A h \in Handlers : Ready(h)

LEMMA EntryIsRecord ==
    /\ \A c \in Credits : [kind |-> "credit", ref |-> c] \in Entries
    /\ \A d \in Debits : /\ [kind |-> "debit", ref |-> d] \in Entries
                         /\ [kind |-> "refund", ref |-> d] \in Entries
    /\ \A e \in Entries :
          /\ e = [kind |-> e.kind, ref |-> e.ref]
          /\ \/ e.kind = "credit" /\ e.ref \in Credits
             \/ e.kind \in {"debit", "refund"} /\ e.ref \in Debits
          /\ AmountOf[e.ref] \in Nat \ {0}
<1>1. \A e \in Entries : e.ref \in Refs
  BY DEF Entries, Refs
<1> QED
  BY <1>1, ConstantsOK DEF Entries

LEMMA SerialInit == Init => SerialInv
BY ConstantsOK DEF Init, SerialInv, BookTypeOK, Ready, Recorded, PCs, Live

\* While one handler works, all others rest, and stay ready for nothing.
LEMMA OneWorks ==
    ASSUME SerialInv, NEW h \in Handlers, Live(h) \/ \A g \in Handlers : ~ Live(g),
           NEW label \in PCs, pc' = [pc EXCEPT ![h] = label]
    PROVE  /\ pc'[h] = label /\ pc' \in [Handlers -> PCs]
           /\ \A g \in Handlers : g # h => pc'[g] = pc[g] /\ ~ Live(g)' /\ Ready(g)'
<1>1. pc \in [Handlers -> PCs]
  BY DEF SerialInv, BookTypeOK
<1>2. \A g \in Handlers : g # h => pc'[g] \in {"idle", "failed"} /\ pc'[g] = pc[g]
  BY <1>1 DEF SerialInv, Live
<1> QED
  BY <1>1, <1>2 DEF Ready, Live

\* A handler that goes on without a commit, and what it must have found.
LEMMA SerialMoves ==
    ASSUME SerialInv, NEW h \in Handlers, Live(h), NEW label \in PCs,
           pc' = [pc EXCEPT ![h] = label],
           UNCHANGED <<wallet, posted, ledger, job, seen>>,
           Ready(h)'
    PROVE  SerialInv'
<1>1. BookTypeOK'
  BY OneWorks DEF SerialInv, BookTypeOK, Live
<1>2. \A g \in Handlers : Ready(g)'
  BY OneWorks
<1>3. \A g, k \in Handlers : Live(g)' /\ Live(k)' => g = k
  BY OneWorks
<1> QED
  BY <1>1, <1>2, <1>3 DEF SerialInv, Recorded

\* A commit books an entry that is new, on the wallet as it is.
LEMMA SerialBooks ==
    ASSUME SerialInv, NEW h \in Handlers, pc[h] = "commit", ~ KeyTaken(h),
           NEW label \in {"idle", "record", "ledger"}, pc' = [pc EXCEPT ![h] = label],
           label = "ledger" => job[h].kind = "debit",
           posted' = [posted EXCEPT ![job[h]] = @ + 1],
           ledger' = IF label = "ledger" THEN ledger ELSE Booked(h),
           wallet'.balance \in Int, UNCHANGED <<job, seen>>
    PROVE  SerialInv'
<1>1. job[h] \in Entries /\ posted \in [Entries -> Nat] /\ ledger \subseteq Entries
  BY DEF SerialInv, BookTypeOK
<1>2. posted[job[h]] = 0
  BY DEF SerialInv, Ready
<1>3. /\ posted' \in [Entries -> Nat] /\ posted'[job[h]] = 1
      /\ \A e \in Entries : e # job[h] => posted'[e] = posted[e]
  BY <1>1, <1>2
<1>4. label \in PCs /\ Live(h)
  BY DEF PCs, Live
<1>5. BookTypeOK'
  BY <1>1, <1>3, <1>4, OneWorks DEF SerialInv, BookTypeOK, Booked
<1>6. Ready(h)'
  <2>1. pc'[h] \in {"idle", "record", "ledger"}
    BY <1>4, OneWorks
  <2>2. posted'[job'[h]] > 0
    BY <1>3
  <2> QED
    BY <2>1, <2>2 DEF Ready
<1>7. Recorded'
  BY <1>1, <1>3 DEF SerialInv, Recorded, Booked
<1>8. /\ \A g \in Handlers : Ready(g)'
      /\ \A g, k \in Handlers : Live(g)' /\ Live(k)' => g = k
  BY <1>4, <1>6, OneWorks
<1> QED
  BY <1>5, <1>7, <1>8 DEF SerialInv

\* What a commit does to the balance.
LEMMA CommitMoney ==
    ASSUME SerialInv, NEW h \in Handlers
    PROVE  /\ CreditCommit(h) \/ RefundCommit(h) => wallet'.balance = wallet.balance + Amount(h)
           /\ DebitCommit(h) => /\ wallet.balance >= Amount(h)
                                /\ wallet'.balance = wallet.balance - Amount(h)
           /\ pc[h] = "commit" => Amount(h) \in Nat /\ wallet.balance \in Int
<1> SUFFICES ASSUME pc[h] = "commit"
             PROVE  /\ CreditCommit(h) \/ RefundCommit(h) => wallet'.balance = wallet.balance + Amount(h)
                    /\ DebitCommit(h) => /\ wallet.balance >= Amount(h)
                                         /\ wallet'.balance = wallet.balance - Amount(h)
                    /\ Amount(h) \in Nat /\ wallet.balance \in Int
  BY DEF CreditCommit, RefundCommit, DebitCommit
<1>1. Amount(h) \in Nat /\ wallet.balance \in Int
  BY EntryIsRecord DEF SerialInv, BookTypeOK, Amount
<1>2. seen[h] = wallet /\ (job[h].kind = "debit" => wallet.balance >= Amount(h))
  BY DEF SerialInv, Ready, Covered
<1>3. ASSUME CreditCommit(h) PROVE wallet'.balance = wallet.balance + Amount(h)
  BY <1>1, <1>2, <1>3 DEF CreditCommit, FlushWallet, Dirty
<1>4. ASSUME RefundCommit(h) PROVE wallet'.balance = wallet.balance + Amount(h)
  BY <1>1, <1>2, <1>4 DEF RefundCommit, FlushWallet, Dirty
<1>5. ASSUME DebitCommit(h) PROVE wallet'.balance = wallet.balance - Amount(h)
  BY <1>1, <1>2, <1>5 DEF DebitCommit, FlushWallet, Dirty
<1> QED
  BY <1>1, <1>2, <1>3, <1>4, <1>5 DEF DebitCommit

LEMMA SerialHandles == ASSUME SerialInv, NEW h \in Handlers, Handle(h) PROVE SerialInv'
<1> USE DEF Goto, PCs
<1>0. /\ job[h] \in Entries /\ Live(h) /\ pc \in [Handlers -> PCs] /\ DOMAIN seen = Handlers
      /\ posted \in [Entries -> Nat]
  BY DEF SerialInv, BookTypeOK, Live, Handle, Load, LookupFound, LookupNoDebit, LookupNew, Lock,
         DebitRefused, Conflict, CreditCommit, RefundCommit, DebitCommit, DebitLedger, RecordEvent
<1>1. ASSUME NEW label \in {"idle", "failed", "record"}, pc' = [pc EXCEPT ![h] = label],
             UNCHANGED <<wallet, posted, ledger, job, seen>>
      PROVE  SerialInv'
  <2>1. Ready(h)'
    BY <1>0, <1>1 DEF Ready
  <2> QED
    BY <1>0, <1>1, <2>1, SerialMoves
<1>2. CASE Load(h)
  <2>1. /\ pc' = [pc EXCEPT ![h] = "lookup"] /\ seen' = [seen EXCEPT ![h] = wallet]
        /\ UNCHANGED <<wallet, posted, ledger, job>>
    BY <1>2 DEF Load, Loaded, tables
  <2>2. /\ BookTypeOK' /\ Recorded' /\ DOMAIN seen' = Handlers
    BY <1>0, <2>1 DEF SerialInv, BookTypeOK, Recorded
  <2>3. \A g \in Handlers : Ready(g)'
    <3>1. ASSUME NEW g \in Handlers, g # h PROVE Ready(g)'
      BY <1>0, <2>1, <3>1, OneWorks
    <3>2. Ready(h)'
      BY <1>0, <2>1 DEF Ready
    <3> QED
      BY <3>1, <3>2
  <2>4. \A g, k \in Handlers : Live(g)' /\ Live(k)' => g = k
    BY <1>0, <2>1, OneWorks
  <2> QED
    BY <2>1, <2>2, <2>3, <2>4 DEF SerialInv
<1>3. CASE LookupFound(h) \/ LookupNoDebit(h) \/ DebitRefused(h)
  BY <1>1, <1>3 DEF LookupFound, LookupNoDebit, DebitRefused, tables
<1>4. CASE LookupNew(h)
  <2>1. /\ pc' = [pc EXCEPT ![h] = "lock"] /\ pc[h] = "lookup"
        /\ UNCHANGED <<wallet, posted, ledger, job, seen>>
    BY <1>4 DEF LookupNew, tables
  <2>2. posted[job[h]] = 0
    <3>1. CASE job[h].kind = "refund"
      <4>1. job[h] \notin ledger
        BY <1>4, <3>1 DEF LookupNew
      <4> QED
        BY <1>0, <3>1, <4>1 DEF SerialInv, Recorded
    <3>2. CASE job[h].kind # "refund"
      BY <1>4, <3>2 DEF LookupNew
    <3> QED
      BY <3>1, <3>2
  <2>3. job[h].kind = "refund" => posted[[kind |-> "debit", ref |-> job[h].ref]] > 0
    BY <1>4 DEF LookupNew
  <2>4. Ready(h)'
    BY <1>0, <2>1, <2>2, <2>3 DEF Ready, SerialInv
  <2> QED
    BY <1>0, <2>1, <2>4, SerialMoves
<1>5. CASE Lock(h)
  <2>1. /\ pc' = [pc EXCEPT ![h] = "commit"] /\ pc[h] = "lock" /\ Covered(h)
        /\ UNCHANGED <<wallet, posted, ledger, job, seen>>
    BY <1>5 DEF Lock, tables
  <2>2. Ready(h)'
    BY <1>0, <2>1 DEF Ready, SerialInv, Covered, Amount
  <2> QED
    BY <1>0, <2>1, <2>2, SerialMoves
<1>6. CASE Conflict(h)
  BY <1>1, <1>6 DEF Conflict, tables
<1>7. CASE CreditCommit(h) \/ RefundCommit(h)
  <2>1. wallet'.balance \in Int
    <3>0. pc[h] = "commit"
      BY <1>7 DEF CreditCommit, RefundCommit
    <3>1. Amount(h) \in Nat /\ wallet.balance \in Int
      BY <3>0, CommitMoney
    <3>2. wallet'.balance = wallet.balance + Amount(h)
      BY <1>7, CommitMoney
    <3> QED
      BY <3>1, <3>2
  <2> QED
    BY <1>7, <2>1, SerialBooks DEF CreditCommit, RefundCommit
<1>8. CASE DebitCommit(h)
  <2>1. wallet'.balance \in Int
    <3>0. pc[h] = "commit"
      BY <1>8 DEF DebitCommit
    <3>1. Amount(h) \in Nat /\ wallet.balance \in Int
      BY <3>0, CommitMoney
    <3>2. wallet'.balance = wallet.balance - Amount(h)
      BY <1>8, CommitMoney
    <3> QED
      BY <3>1, <3>2
  <2>2. PICK label \in {"idle", "ledger"} :
            /\ pc' = [pc EXCEPT ![h] = label]
            /\ ledger' = IF label = "ledger" THEN ledger ELSE Booked(h)
    BY <1>8 DEF DebitCommit
  <2> QED
    BY <1>8, <2>1, <2>2, SerialBooks DEF DebitCommit
<1>9. CASE DebitLedger(h)
  <2>1. /\ pc[h] = "ledger" /\ pc' = [pc EXCEPT ![h] = "idle"]
        /\ ledger' = ledger \cup {job[h]}
        /\ UNCHANGED <<wallet, posted, job, seen>>
    BY <1>9 DEF DebitLedger, Booked
  <2>2. posted[job[h]] > 0
    BY <2>1 DEF SerialInv, Ready
  <2>3. BookTypeOK' /\ Recorded'
    BY <1>0, <2>1, <2>2 DEF SerialInv, BookTypeOK, Recorded
  <2>4. /\ \A g \in Handlers : Ready(g)'
        /\ \A g, k \in Handlers : Live(g)' /\ Live(k)' => g = k
    BY <1>0, <2>1, OneWorks DEF Ready
  <2> QED
    BY <2>1, <2>3, <2>4 DEF SerialInv
<1>10. CASE RecordEvent(h)
  BY <1>1, <1>10 DEF RecordEvent
<1> QED
  BY <1>2, <1>3, <1>4, <1>5, <1>6, <1>7, <1>8, <1>9, <1>10 DEF Handle

LEMMA SerialStep == SerialInv /\ ~ Overlap /\ [Next]_vars => SerialInv'
<1> SUFFICES ASSUME SerialInv, ~ Overlap, [Next]_vars PROVE SerialInv'
  OBVIOUS
<1>1. ASSUME NEW h \in Handlers, NEW e \in Entries, Receive(h, e) PROVE SerialInv'
  <2>1. PICK label \in {"idle", "load"} : pc' = [pc EXCEPT ![h] = label]
    BY <1>1 DEF Receive, Goto
  <2>2. /\ job' = [job EXCEPT ![h] = e] /\ UNCHANGED <<wallet, posted, ledger, seen>>
        /\ \A g \in Handlers : ~ Live(g)
    BY <1>1 DEF Receive
  <2>3. label \in PCs
    BY DEF PCs
  <2>4. BookTypeOK' /\ Recorded'
    BY <2>1, <2>2, <2>3, OneWorks DEF SerialInv, BookTypeOK, Recorded
  <2>5. \A g \in Handlers : pc'[g] \notin {"lookup", "lock", "commit", "ledger"}
    BY <2>1, <2>2, <2>3, OneWorks DEF Live
  <2>6. \A g \in Handlers : Ready(g)'
    BY <2>5 DEF Ready
  <2>7. \A g, k \in Handlers : Live(g)' /\ Live(k)' => g = k
    BY <2>1, <2>2, <2>3, OneWorks
  <2> QED
    BY <2>2, <2>4, <2>6, <2>7 DEF SerialInv
<1>2. ASSUME NEW h \in Handlers, Redeliver(h) PROVE SerialInv'
  <2>1. job[h] \in Entries
    BY <1>2 DEF Redeliver, SerialInv, BookTypeOK
  <2> QED
    BY <1>1, <1>2, <2>1 DEF Redeliver
<1>3. ASSUME NEW h \in Handlers, Crash(h) PROVE SerialInv'
  <2>1. /\ Live(h) /\ pc' = [pc EXCEPT ![h] = "failed"] /\ "failed" \in PCs
        /\ UNCHANGED <<wallet, posted, ledger, job, seen>>
    BY <1>3 DEF Crash, Goto, tables, PCs
  <2>2. Ready(h)'
    BY <2>1, OneWorks DEF Ready
  <2> QED
    BY <2>1, <2>2, SerialMoves
<1>4. ASSUME UNCHANGED <<wallet, posted, ledger, job, handlers>> PROVE SerialInv'
  BY <1>4 DEF handlers, SerialInv, BookTypeOK, Recorded, Ready, Covered, Amount, Live
<1> QED
  BY <1>1, <1>2, <1>3, <1>4, SerialHandles DEF Next, Request, ResetBudgets, vars, tables

\* What the book sees: the entries with a transaction.
Entered == {e \in Entries : posted[e] > 0}

\* The commit of a credit, a refund or a debit is one step of the book; the
\* rest of the work does not show.
LEMMA BookStep ==
    ASSUME SerialInv, [Next]_vars
    PROVE  [Book!Next]_(Book!vars)
<1>0. posted \in [Entries -> Nat] /\ job \in [Handlers -> Entries \cup {None}]
  BY DEF SerialInv, BookTypeOK
<1>1. ASSUME UNCHANGED <<wallet, posted>> PROVE UNCHANGED Book!vars
  BY <1>1 DEF Book!vars
<1>2. ASSUME NEW h \in Handlers, NEW e \in Entries, pc[h] = "commit", job[h] = e,
             posted' = [posted EXCEPT ![e] = @ + 1]
      PROVE  Entered' = Entered \cup {e} /\ e \notin Entered
  <2>1. posted[e] = 0
    BY <1>2 DEF SerialInv, Ready
  <2> QED
    BY <1>0, <1>2, <2>1 DEF Entered
<1>3. ASSUME NEW h \in Handlers, CreditCommit(h) PROVE Book!Next
  <2>1. job[h] \in Entries /\ job[h].kind = "credit" /\ job[h].ref \in Credits
    BY <1>3, EntryIsRecord DEF CreditCommit, SerialInv, BookTypeOK
  <2>2. PICK c \in Credits : c = job[h].ref
    BY <2>1
  <2>3. Book!Entry("credit", c) = job[h]
    BY <2>1, <2>2, EntryIsRecord DEF Book!Entry
  <2>4. Entered' = Entered \cup {job[h]} /\ job[h] \notin Entered
    BY <1>2, <1>3, <2>1 DEF CreditCommit
  <2>5. wallet'.balance = wallet.balance + AmountOf[c]
    BY <1>3, <2>2, CommitMoney DEF Amount
  <2>6. Book!Book(Book!Entry("credit", c), AmountOf[c])
    BY <2>3, <2>4, <2>5 DEF Book!Book, Entered
  <2> QED
    BY <2>6 DEF Book!Next
<1>4. ASSUME NEW h \in Handlers, RefundCommit(h) PROVE Book!Next
  <2>1. job[h] \in Entries /\ job[h].kind = "refund" /\ job[h].ref \in Debits
    BY <1>4, EntryIsRecord DEF RefundCommit, SerialInv, BookTypeOK
  <2>2. PICK d \in Debits : d = job[h].ref
    BY <2>1
  <2>3. Book!Entry("refund", d) = job[h]
    BY <2>1, <2>2, EntryIsRecord DEF Book!Entry
  <2>4. Entered' = Entered \cup {job[h]} /\ job[h] \notin Entered
    BY <1>2, <1>4, <2>1 DEF RefundCommit
  <2>5. wallet'.balance = wallet.balance + AmountOf[d]
    BY <1>4, <2>2, CommitMoney DEF Amount
  <2>6. Book!Entry("debit", d) \in Entered
    BY <1>4, <2>1, <2>2, EntryIsRecord DEF RefundCommit, SerialInv, Ready, Book!Entry, Entered
  <2>7. Book!Book(Book!Entry("refund", d), AmountOf[d])
    BY <2>3, <2>4, <2>5 DEF Book!Book, Entered
  <2> QED
    BY <2>6, <2>7 DEF Book!Next, Entered
<1>5. ASSUME NEW h \in Handlers, DebitCommit(h) PROVE Book!Next
  <2>1. job[h] \in Entries /\ job[h].kind = "debit" /\ job[h].ref \in Debits
    BY <1>5, EntryIsRecord DEF DebitCommit, SerialInv, BookTypeOK
  <2>2. PICK d \in Debits : d = job[h].ref
    BY <2>1
  <2>3. Book!Entry("debit", d) = job[h]
    BY <2>1, <2>2, EntryIsRecord DEF Book!Entry
  <2>4. Entered' = Entered \cup {job[h]} /\ job[h] \notin Entered
    BY <1>2, <1>5, <2>1 DEF DebitCommit
  <2>5. wallet.balance >= AmountOf[d] /\ wallet'.balance = wallet.balance + (0 - AmountOf[d])
    <3>1. /\ wallet.balance >= Amount(h) /\ wallet'.balance = wallet.balance - Amount(h)
          /\ Amount(h) \in Nat /\ wallet.balance \in Int
      BY <1>5, CommitMoney DEF DebitCommit
    <3> QED
      BY <2>2, <3>1 DEF Amount
  <2>6. Book!Book(Book!Entry("debit", d), 0 - AmountOf[d])
    BY <2>3, <2>4, <2>5 DEF Book!Book, Entered
  <2> QED
    BY <2>5, <2>6 DEF Book!Next
<1>6. ASSUME NEW h \in Handlers, Handle(h),
             ~ CreditCommit(h), ~ RefundCommit(h), ~ DebitCommit(h)
      PROVE  UNCHANGED <<wallet, posted>>
  BY <1>6 DEF Handle, Load, LookupFound, LookupNoDebit, LookupNew, Lock, DebitRefused,
              Conflict, DebitLedger, RecordEvent, tables
<1>7. ASSUME NEW h \in Handlers, NEW e, Receive(h, e) PROVE UNCHANGED <<wallet, posted>>
  BY <1>7 DEF Receive
<1> QED
  BY <1>1, <1>3, <1>4, <1>5, <1>6, <1>7
     DEF Next, Request, Redeliver, Crash, ResetBudgets, vars, tables

\* Operations on a wallet that do not overlap are atomic entries in a book:
\* each payment is credited, each debit charged and each refund paid at most
\* once, no debit overdraws the balance and only a charged debit is refunded,
\* wherever processes die and however often requests are made again.
THEOREM BookIsImplemented == ~ Overlap => (Spec => ImplementsBook)
<1> SUFFICES ASSUME ~ Overlap PROVE Spec => ImplementsBook
  OBVIOUS
<1>1. Init => Book!Init
  BY DEF Init, Book!Init
<1>2. SerialInv /\ [Next]_vars => SerialInv' /\ [Book!Next]_(Book!vars)
  BY SerialStep, BookStep
<1> QED
  BY <1>1, <1>2, SerialInit, PTL DEF Spec, ImplementsBook, Book!Spec
=============================================================================
