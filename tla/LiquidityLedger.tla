-------------------------- MODULE LiquidityLedger --------------------------
(***************************************************************************)
(* What cp-amm promises about liquidity.  It enters and leaves the pool     *)
(* only as a position's free liquidity.  Vested liquidity becomes free      *)
(* again; permanent liquidity never does, it can only be moved to another   *)
(* position, and a position that has vested liquidity gives nothing away.   *)
(* The pool's totals follow every step.  CpAmm implements it.               *)
(***************************************************************************)
EXTENDS Naturals

CONSTANT PositionId

VARIABLES
    open,                       \* the positions that exist
    free, vested, permanent,    \* the liquidity of each position
    total, locked               \* the pool's: all of it, and the permanent part

ledgerVars == <<open, free, vested, permanent, total, locked>>

NoLiquidity(liquidity) == \A p \in PositionId : liquidity[p] = 0

LedgerInit ==
    \E p \in PositionId :
        /\ open = {p}
        /\ free = [q \in PositionId |-> IF q = p THEN total ELSE 0]
        /\ NoLiquidity(vested) /\ NoLiquidity(permanent)
        /\ locked = 0

Open(p) ==
    /\ p \notin open
    /\ open' = open \cup {p}
    /\ UNCHANGED <<free, vested, permanent, total, locked>>

Close(p) ==
    /\ p \in open
    /\ free[p] = 0 /\ vested[p] = 0 /\ permanent[p] = 0
    /\ open' = open \ {p}
    /\ UNCHANGED <<free, vested, permanent, total, locked>>

Add(p) ==
    /\ p \in open
    /\ free'[p] \in Nat /\ free'[p] > free[p]
    /\ free' = [free EXCEPT ![p] = free'[p]]
    /\ total' = total + (free'[p] - free[p])
    /\ UNCHANGED <<open, vested, permanent, locked>>

Remove(p) ==
    /\ p \in open
    /\ free'[p] \in Nat /\ free'[p] < free[p]
    /\ free' = [free EXCEPT ![p] = free'[p]]
    /\ total' = total - (free[p] - free'[p])
    /\ UNCHANGED <<open, vested, permanent, locked>>

(* Between the free and the vested liquidity of a position, either way.      *)
LockOrRelease(p) ==
    /\ p \in open
    /\ free'[p] \in Nat /\ vested'[p] \in Nat
    /\ free'[p] + vested'[p] = free[p] + vested[p]
    /\ free' = [free EXCEPT ![p] = free'[p]]
    /\ vested' = [vested EXCEPT ![p] = vested'[p]]
    /\ UNCHANGED <<open, permanent, total, locked>>

LockForever(p) ==
    /\ p \in open
    /\ free'[p] \in Nat /\ permanent'[p] >= permanent[p]
    /\ free'[p] + permanent'[p] = free[p] + permanent[p]
    /\ free' = [free EXCEPT ![p] = free'[p]]
    /\ permanent' = [permanent EXCEPT ![p] = permanent'[p]]
    /\ locked' = locked + (permanent'[p] - permanent[p])
    /\ UNCHANGED <<open, vested, total>>

(* From p to q, each kind as it is.                                          *)
Move(p, q) ==
    /\ p # q /\ {p, q} \subseteq open
    /\ vested[p] = 0
    /\ free'[p] \in 0 .. free[p] /\ permanent'[p] \in 0 .. permanent[p]
    /\ free' = [free EXCEPT ![p] = free'[p], ![q] = @ + (free[p] - free'[p])]
    /\ permanent' = [permanent EXCEPT ![p] = permanent'[p],
                                      ![q] = @ + (permanent[p] - permanent'[p])]
    /\ UNCHANGED <<open, vested, total, locked>>

LedgerNext ==
    \/ \E p \in PositionId :
          Open(p) \/ Close(p) \/ Add(p) \/ Remove(p) \/ LockOrRelease(p) \/ LockForever(p)
    \/ \E p, q \in PositionId : Move(p, q)

LedgerSpec == LedgerInit /\ [][LedgerNext]_ledgerVars
=============================================================================
