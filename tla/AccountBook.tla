---------------------------- MODULE AccountBook ----------------------------
(***************************************************************************)
(* What BillingService promises about money booked outside a request:      *)
(* every payment is credited, every debit charged and every refund paid at *)
(* most once, atomically; a debit never overdraws the balance and only a   *)
(* charged debit is refunded.                                              *)
(***************************************************************************)
EXTENDS Integers

CONSTANTS
    Credits,     \* references of payments and grants
    Debits,      \* references of debits
    AmountOf,    \* the amount of each reference
    Opening      \* the opening balance

VARIABLES
    balance,
    booked       \* entries [kind, ref] made so far

vars == <<balance, booked>>

Entry(kind, ref) == [kind |-> kind, ref |-> ref]

Init == balance = Opening /\ booked = {}

Book(entry, delta) ==
    /\ entry \notin booked
    /\ balance' = balance + delta
    /\ booked' = booked \cup {entry}

Next ==
    \/ \E c \in Credits : Book(Entry("credit", c), AmountOf[c])
    \/ \E d \in Debits :
          /\ balance >= AmountOf[d]
          /\ Book(Entry("debit", d), 0 - AmountOf[d])
    \/ \E d \in Debits :
          /\ Entry("debit", d) \in booked
          /\ Book(Entry("refund", d), AmountOf[d])

Spec == Init /\ [][Next]_vars
=============================================================================
