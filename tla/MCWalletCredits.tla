-------------------------- MODULE MCWalletCredits --------------------------
(* Instances of WalletCredits for TLC.                                     *)
EXTENDS WalletCredits, TLC

CONSTANTS h1, h2, h3, p1, p2, g1, d1, d2

\* Small amounts; the second debit is larger than the opening balance.
Amounts == [r \in Refs |-> IF r \in {d1, p1} THEN 2 ELSE 3]

\* Handlers differ only in the job they draw.
HandlerSymmetry == Permutations(Handlers)
=============================================================================
