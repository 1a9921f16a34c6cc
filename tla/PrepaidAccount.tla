--------------------------- MODULE PrepaidAccount ---------------------------
(***************************************************************************)
(* What reserve, settle and release promise to a customer: holding money   *)
(* on a prepaid account, charging a hold (for less or for more than was    *)
(* held, if the balance covers it) and cancelling it are atomic, each hold *)
(* is charged or cancelled at most once, and the balance is never          *)
(* overdrawn.                                                              *)
(***************************************************************************)
EXTENDS Integers

CONSTANTS
    Holds,       \* identities of holds
    Estimates,   \* amounts that may be held
    Actuals,     \* amounts that may be charged
    Credit       \* the opening balance

VARIABLES
    balance,     \* what can still be held or spent
    state,       \* of each hold
    held         \* what each hold keeps, or was charged

vars == <<balance, state, held>>

Init ==
    /\ balance = Credit
    /\ state = [k \in Holds |-> "none"]
    /\ held = [k \in Holds |-> 0]

Hold(k, e) ==
    /\ state[k] = "none"
    /\ balance >= e
    /\ balance' = balance - e
    /\ state' = [state EXCEPT ![k] = "reserved"]
    /\ held' = [held EXCEPT ![k] = e]

Charge(k, a) ==
    /\ state[k] = "reserved"
    /\ balance + held[k] >= a
    /\ balance' = balance + held[k] - a
    /\ state' = [state EXCEPT ![k] = "settled"]
    /\ held' = [held EXCEPT ![k] = a]

Cancel(k) ==
    /\ state[k] = "reserved"
    /\ balance' = balance + held[k]
    /\ state' = [state EXCEPT ![k] = "released"]
    /\ held' = [held EXCEPT ![k] = 0]

Next ==
    \E k \in Holds :
        \/ \E e \in Estimates : Hold(k, e)
        \/ \E a \in Actuals : Charge(k, a)
        \/ Cancel(k)

Spec == Init /\ [][Next]_vars
=============================================================================
