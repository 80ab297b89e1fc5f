------------------------------- MODULE PaperBook -------------------------------
(***************************************************************************)
(* What a paper account promises whoever reads it: every change of it is   *)
(* one whole trade.  Cash moves by what the trade is worth, the shares of  *)
(* one symbol move by its size, neither ever goes below zero, and nothing  *)
(* is sold that is not held.                                               *)
(***************************************************************************)
EXTENDS Naturals

CONSTANTS Symbols, Prices, Sizes, Fee, InitialCash

VARIABLES cash, shares

Init == cash = InitialCash /\ shares = [s \in Symbols |-> 0]

Buy(s, n, p) ==
    /\ n * p + Fee <= cash
    /\ cash' = cash - (n * p + Fee)
    /\ shares' = [shares EXCEPT ![s] = @ + n]

Sell(s, n, p) ==
    /\ n <= shares[s]
    /\ cash' = cash + n * p - Fee
    /\ shares' = [shares EXCEPT ![s] = @ - n]

Next == \E s \in Symbols, n \in Sizes, p \in Prices : Buy(s, n, p) \/ Sell(s, n, p)

Spec == Init /\ [][Next]_<<cash, shares>>
=============================================================================
