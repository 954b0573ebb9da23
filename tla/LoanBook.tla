------------------------------ MODULE LoanBook ------------------------------
(***************************************************************************)
(* What the lending pool promises its lenders: a user borrows at most once, *)
(* never more than is there, and a loan is settled at most once and whole,  *)
(* by at least what was borrowed; nobody else takes anything.  Prices,      *)
(* collateral, swaps and the program's counters are no part of the promise. *)
(* LendingPool implements it.                                               *)
(***************************************************************************)
EXTENDS Naturals

CONSTANT User

VARIABLES
    cash,       \* token A ready to be lent
    borrowed,   \* what each user has borrowed
    standing    \* where each user's only loan stands: none, owed or settled

loanVars == <<cash, borrowed, standing>>

LoanInit ==
    /\ cash = 0
    /\ borrowed = [u \in User |-> 0]
    /\ standing = [u \in User |-> "none"]

Supply ==
    /\ cash' \in Nat /\ cash' >= cash
    /\ UNCHANGED <<borrowed, standing>>

Lend(u) ==
    /\ standing[u] = "none"
    /\ cash' \in 0 .. cash
    /\ borrowed' = [borrowed EXCEPT ![u] = cash - cash']
    /\ standing' = [standing EXCEPT ![u] = "owed"]

Settle(u) ==
    /\ standing[u] = "owed"
    /\ cash' \in Nat /\ cash' >= cash + borrowed[u]
    /\ standing' = [standing EXCEPT ![u] = "settled"]
    /\ UNCHANGED borrowed

LoanNext == Supply \/ \E u \in User : Lend(u) \/ Settle(u)

LoanSpec == LoanInit /\ [][LoanNext]_loanVars
=============================================================================
