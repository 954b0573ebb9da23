------------------------- MODULE CpAmmVaults_proofs -------------------------
(***************************************************************************)
(* What the positions of a cp-amm pool hold together, for every value of    *)
(* its parameters: the pool's liquidity and permanent lock are the sums over *)
(* the open positions, vested liquidity is what the live locks still hold,   *)
(* the vaults cover everything that could be claimed from them, and no step  *)
(* takes a fee or a reward that a position has earned.                       *)
(***************************************************************************)
EXTENDS CpAmm_proofs

-----------------------------------------------------------------------------
(* LiquidityIsOwned and PermanentLockIsOwned, from the steps of the ledger   *)
(* that CpAmm implements.                                                    *)

Held == [p \in DOMAIN positions |-> GetTotalLiquidity(positions[p])]

HeldForever == [p \in DOMAIN positions |-> positions[p].permanent_locked_liquidity]

LEMMA HeldType ==
    ASSUME TypeOK
    PROVE  /\ Held \in [DOMAIN positions -> Int] /\ HeldForever \in [DOMAIN positions -> Int]
           /\ \A p \in DOMAIN positions :
                 /\ Held[p] = Free[p] + Vested[p] + Permanent[p]
                 /\ HeldForever[p] = Permanent[p]
                 /\ p \in PositionId /\ Free[p] \in Nat /\ Vested[p] \in Nat /\ Permanent[p] \in Nat
           /\ DOMAIN Free = PositionId /\ DOMAIN Vested = PositionId /\ DOMAIN Permanent = PositionId
<1>1. \A p \in DOMAIN positions :
        /\ p \in PositionId
        /\ Free[p] = positions[p].unlocked_liquidity /\ Free[p] \in Nat
        /\ Vested[p] = positions[p].vested_liquidity /\ Vested[p] \in Nat
        /\ Permanent[p] = positions[p].permanent_locked_liquidity /\ Permanent[p] \in Nat
    BY LedgerTypes
<1>2. DOMAIN Free = PositionId /\ DOMAIN Vested = PositionId /\ DOMAIN Permanent = PositionId
    BY DEF Free, Vested, Permanent
<1> QED
    BY <1>1, <1>2 DEF Held, HeldForever, GetTotalLiquidity

LEMMA HeldTypeNext ==
    ASSUME TypeOK'
    PROVE  /\ Held' \in [DOMAIN positions' -> Int] /\ HeldForever' \in [DOMAIN positions' -> Int]
           /\ \A p \in DOMAIN positions' :
                 /\ Held'[p] = Free'[p] + Vested'[p] + Permanent'[p]
                 /\ HeldForever'[p] = Permanent'[p]
                 /\ p \in PositionId /\ Free'[p] \in Nat /\ Vested'[p] \in Nat
                 /\ Permanent'[p] \in Nat
<1>1. \A p \in DOMAIN positions' :
        /\ p \in PositionId
        /\ Free'[p] = positions'[p].unlocked_liquidity /\ Free'[p] \in Nat
        /\ Vested'[p] = positions'[p].vested_liquidity /\ Vested'[p] \in Nat
        /\ Permanent'[p] = positions'[p].permanent_locked_liquidity /\ Permanent'[p] \in Nat
    BY DEF TypeOK, PositionState, Free, Vested, Permanent, LiquidityOf
<1> QED
    BY <1>1 DEF Held, HeldForever, GetTotalLiquidity

OwnedInv == LiquidityIsOwned /\ PermanentLockIsOwned

(* A ledger step on one open position.                                       *)
LEMMA OneChangeOwned ==
    ASSUME TypeOK, TypeOK', IsFiniteSet(DOMAIN positions), OwnedInv,
           NEW p \in DOMAIN positions, DOMAIN positions' = DOMAIN positions,
           \A q \in DOMAIN positions \ {p} :
              Free'[q] = Free[q] /\ Vested'[q] = Vested[q] /\ Permanent'[q] = Permanent[q],
           pool'.liquidity = pool.liquidity + (Free'[p] - Free[p]) + (Vested'[p] - Vested[p])
                                            + (Permanent'[p] - Permanent[p]),
           pool'.permanent_lock_liquidity
              = pool.permanent_lock_liquidity + (Permanent'[p] - Permanent[p])
    PROVE  OwnedInv'
<1>1. /\ Held \in [DOMAIN positions -> Int] /\ HeldForever \in [DOMAIN positions -> Int]
      /\ \A q \in DOMAIN positions :
            Held[q] = Free[q] + Vested[q] + Permanent[q] /\ HeldForever[q] = Permanent[q]
      /\ Free[p] \in Nat /\ Vested[p] \in Nat /\ Permanent[p] \in Nat
    BY HeldType
<1>2. /\ Held' \in [DOMAIN positions -> Int] /\ HeldForever' \in [DOMAIN positions -> Int]
      /\ \A q \in DOMAIN positions :
            Held'[q] = Free'[q] + Vested'[q] + Permanent'[q] /\ HeldForever'[q] = Permanent'[q]
      /\ Free'[p] \in Nat /\ Vested'[p] \in Nat /\ Permanent'[p] \in Nat
    BY HeldTypeNext
<1>3. \A q \in DOMAIN positions \ {p} : Held'[q] = Held[q] /\ HeldForever'[q] = HeldForever[q]
    BY <1>1, <1>2
<1>4. SumFunction(Held') = SumFunction(Held) + Held'[p] - Held[p]
    BY <1>1, <1>2, <1>3, SumChangeOne
<1>5. SumFunction(HeldForever') = SumFunction(HeldForever) + HeldForever'[p] - HeldForever[p]
    <2>1. HeldForever \in [DOMAIN positions -> Int] /\ HeldForever' \in [DOMAIN positions -> Int]
        BY <1>1, <1>2
    <2>2. \A q \in DOMAIN positions \ {p} : HeldForever'[q] = HeldForever[q]
        BY <1>3
    <2> QED
        BY <2>1, <2>2, SumChangeOne
<1>6. pool.liquidity = SumFunction(Held) /\ pool.permanent_lock_liquidity = SumFunction(HeldForever)
    BY DEF OwnedInv, LiquidityIsOwned, PermanentLockIsOwned, Held, HeldForever
<1>7. SumFunction(Held) \in Int /\ SumFunction(HeldForever) \in Int
    BY <1>1, SumFunctionType
<1>8. pool'.liquidity = SumFunction(Held')
    BY <1>1, <1>2, <1>4, <1>6, <1>7
<1>9. pool'.permanent_lock_liquidity = SumFunction(HeldForever')
    BY <1>1, <1>2, <1>5, <1>6, <1>7
<1> QED
    BY <1>8, <1>9 DEF OwnedInv, LiquidityIsOwned, PermanentLockIsOwned, Held, HeldForever

LEMMA OpenOwned ==
    ASSUME TypeOK, TypeOK', IsFiniteSet(DOMAIN positions), OwnedInv,
           NEW p \in PositionId, Ledger!Open(p)
    PROVE  OwnedInv'
<1>1. /\ DOMAIN positions' = DOMAIN positions \cup {p} /\ p \notin DOMAIN positions
      /\ Free' = Free /\ Vested' = Vested /\ Permanent' = Permanent
      /\ pool'.liquidity = pool.liquidity
      /\ pool'.permanent_lock_liquidity = pool.permanent_lock_liquidity
    BY DEF Ledger!Open
<1>a. DOMAIN positions' = DOMAIN positions \cup {p} /\ p \notin DOMAIN positions
    BY <1>1
<1>2. \A q \in DOMAIN positions : Held'[q] = Held[q] /\ HeldForever'[q] = HeldForever[q]
    BY <1>1, HeldType, HeldTypeNext
<1>3. Held'[p] = 0 /\ HeldForever'[p] = 0
    <2>1. Free[p] = 0 /\ Vested[p] = 0 /\ Permanent[p] = 0
        BY <1>1 DEF Free, Vested, Permanent, LiquidityOf, NewPosition
    <2> QED
        BY <1>1, <2>1, HeldTypeNext
<1>4. SumFunction(Held') = SumFunction(Held) + Held'[p]
    <2>1. Held \in [DOMAIN positions -> Int] /\ Held' \in [DOMAIN positions' -> Int]
        BY <1>1, HeldType, HeldTypeNext
    <2>2. \A q \in DOMAIN positions : Held'[q] = Held[q]
        BY <1>2
    <2> QED
        BY <1>a, <2>1, <2>2, SumGrow
<1>5. SumFunction(HeldForever') = SumFunction(HeldForever) + HeldForever'[p]
    <2>1. /\ HeldForever \in [DOMAIN positions -> Int]
          /\ HeldForever' \in [DOMAIN positions' -> Int]
        BY <1>1, HeldType, HeldTypeNext
    <2>2. \A q \in DOMAIN positions : HeldForever'[q] = HeldForever[q]
        BY <1>2
    <2> QED
        BY <1>a, <2>1, <2>2, SumGrow, Z3
<1>6. SumFunction(Held) \in Int /\ SumFunction(HeldForever) \in Int
    BY HeldType, SumFunctionType
<1>7. SumFunction(Held') = SumFunction(Held) /\ SumFunction(HeldForever') = SumFunction(HeldForever)
    BY <1>3, <1>4, <1>5, <1>6
<1> QED
    BY <1>1, <1>7 DEF OwnedInv, LiquidityIsOwned, PermanentLockIsOwned, Held, HeldForever

LEMMA CloseOwned ==
    ASSUME TypeOK, TypeOK', IsFiniteSet(DOMAIN positions), OwnedInv,
           NEW p \in PositionId, Ledger!Close(p)
    PROVE  OwnedInv'
<1>1. /\ DOMAIN positions' = DOMAIN positions \ {p} /\ p \in DOMAIN positions
      /\ Free[p] = 0 /\ Vested[p] = 0 /\ Permanent[p] = 0
      /\ Free' = Free /\ Vested' = Vested /\ Permanent' = Permanent
      /\ pool'.liquidity = pool.liquidity
      /\ pool'.permanent_lock_liquidity = pool.permanent_lock_liquidity
    BY DEF Ledger!Close
<1>a. DOMAIN positions' = DOMAIN positions \ {p} /\ p \in DOMAIN positions
    BY <1>1
<1>2. \A q \in DOMAIN positions \ {p} : Held'[q] = Held[q] /\ HeldForever'[q] = HeldForever[q]
    BY <1>1, HeldType, HeldTypeNext
<1>3. Held[p] = 0 /\ HeldForever[p] = 0
    BY <1>1, HeldType
<1>4. SumFunction(Held') = SumFunction(Held) - Held[p]
    <2>1. Held \in [DOMAIN positions -> Int] /\ Held' \in [DOMAIN positions' -> Int]
        BY <1>1, HeldType, HeldTypeNext
    <2>2. \A q \in DOMAIN positions' : Held'[q] = Held[q]
        BY <1>1, <1>2
    <2> QED
        BY <1>a, <2>1, <2>2, SumShrink
<1>5. SumFunction(HeldForever') = SumFunction(HeldForever) - HeldForever[p]
    <2>1. /\ HeldForever \in [DOMAIN positions -> Int]
          /\ HeldForever' \in [DOMAIN positions' -> Int]
        BY <1>1, HeldType, HeldTypeNext
    <2>2. \A q \in DOMAIN positions' : HeldForever'[q] = HeldForever[q]
        BY <1>1, <1>2
    <2> QED
        BY <1>a, <2>1, <2>2, SumShrink, Z3
<1>6. SumFunction(Held) \in Int /\ SumFunction(HeldForever) \in Int
    BY HeldType, SumFunctionType
<1>7. SumFunction(Held') = SumFunction(Held) /\ SumFunction(HeldForever') = SumFunction(HeldForever)
    BY <1>3, <1>4, <1>5, <1>6
<1> QED
    BY <1>1, <1>7 DEF OwnedInv, LiquidityIsOwned, PermanentLockIsOwned, Held, HeldForever

LEMMA MoveOwned ==
    ASSUME TypeOK, TypeOK', IsFiniteSet(DOMAIN positions), OwnedInv,
           NEW p \in PositionId, NEW q \in PositionId, Ledger!Move(p, q)
    PROVE  OwnedInv'
<1>1. /\ p \in DOMAIN positions /\ q \in DOMAIN positions /\ p # q
      /\ DOMAIN positions' = DOMAIN positions
      /\ Free' = [Free EXCEPT ![p] = Free'[p], ![q] = @ + (Free[p] - Free'[p])]
      /\ Permanent' = [Permanent EXCEPT ![p] = Permanent'[p],
                                        ![q] = @ + (Permanent[p] - Permanent'[p])]
      /\ Vested' = Vested
      /\ pool'.liquidity = pool.liquidity
      /\ pool'.permanent_lock_liquidity = pool.permanent_lock_liquidity
    BY DEF Ledger!Move
<1>2. /\ \A r \in DOMAIN positions \ {p, q} : Free'[r] = Free[r] /\ Permanent'[r] = Permanent[r]
      /\ Free'[q] = Free[q] + (Free[p] - Free'[p])
      /\ Permanent'[q] = Permanent[q] + (Permanent[p] - Permanent'[p])
    BY <1>1, HeldType
<1>3. \A r \in DOMAIN positions \ {p, q} : Held'[r] = Held[r] /\ HeldForever'[r] = HeldForever[r]
    BY <1>1, <1>2, HeldType, HeldTypeNext
<1>4. /\ \A r \in {p, q} : /\ Held[r] = Free[r] + Vested[r] + Permanent[r]
                            /\ Free[r] \in Nat /\ Vested[r] \in Nat /\ Permanent[r] \in Nat
                            /\ HeldForever[r] = Permanent[r]
      /\ \A r \in {p, q} : /\ Held'[r] = Free'[r] + Vested[r] + Permanent'[r]
                            /\ Free'[r] \in Nat /\ Permanent'[r] \in Nat
                            /\ HeldForever'[r] = Permanent'[r]
    BY <1>1, HeldType, HeldTypeNext
<1>5. /\ (Held'[p] - Held[p]) + (Held'[q] - Held[q]) = 0
      /\ (HeldForever'[p] - HeldForever[p]) + (HeldForever'[q] - HeldForever[q]) = 0
    BY <1>2, <1>4
<1>6. SumFunction(Held') = SumFunction(Held) + (Held'[p] - Held[p]) + (Held'[q] - Held[q])
    <2>1. Held \in [DOMAIN positions -> Int] /\ Held' \in [DOMAIN positions -> Int]
        BY <1>1, HeldType, HeldTypeNext
    <2>2. \A r \in DOMAIN positions \ {p, q} : Held'[r] = Held[r]
        BY <1>3
    <2> QED
        BY <1>1, <2>1, <2>2, SumChangeTwo
<1>7. SumFunction(HeldForever') = SumFunction(HeldForever)
            + (HeldForever'[p] - HeldForever[p]) + (HeldForever'[q] - HeldForever[q])
    <2>1. HeldForever \in [DOMAIN positions -> Int] /\ HeldForever' \in [DOMAIN positions -> Int]
        BY <1>1, HeldType, HeldTypeNext
    <2>2. \A r \in DOMAIN positions \ {p, q} : HeldForever'[r] = HeldForever[r]
        BY <1>3
    <2> QED
        BY <1>1, <2>1, <2>2, SumChangeTwo
<1>8. SumFunction(Held) \in Int /\ SumFunction(HeldForever) \in Int
    BY HeldType, SumFunctionType
<1>9. SumFunction(Held') = SumFunction(Held) /\ SumFunction(HeldForever') = SumFunction(HeldForever)
    BY <1>4, <1>5, <1>6, <1>7, <1>8
<1> QED
    BY <1>1, <1>9 DEF OwnedInv, LiquidityIsOwned, PermanentLockIsOwned, Held, HeldForever

LEMMA LedgerStepOwned ==
    ASSUME TypeOK, TypeOK', IsFiniteSet(DOMAIN positions), OwnedInv, Ledger!LedgerNext
    PROVE  OwnedInv'
<1>1. ASSUME NEW p \in PositionId,
             Ledger!Add(p) \/ Ledger!Remove(p) \/ Ledger!LockOrRelease(p) \/ Ledger!LockForever(p)
      PROVE  OwnedInv'
    <2>1. p \in DOMAIN positions /\ DOMAIN positions' = DOMAIN positions
        BY <1>1 DEF Ledger!Add, Ledger!Remove, Ledger!LockOrRelease, Ledger!LockForever
    <2>2. /\ Free[p] \in Nat /\ Vested[p] \in Nat /\ Permanent[p] \in Nat
          /\ Free'[p] \in Nat /\ Vested'[p] \in Nat /\ Permanent'[p] \in Nat
          /\ pool.liquidity \in Int /\ pool.permanent_lock_liquidity \in Int
        BY <2>1, HeldType, HeldTypeNext DEF TypeOK, PoolState
    <2>3. /\ Free' = [Free EXCEPT ![p] = Free'[p]]
          /\ Vested' = [Vested EXCEPT ![p] = Vested'[p]] \/ Vested' = Vested
          /\ Permanent' = [Permanent EXCEPT ![p] = Permanent'[p]] \/ Permanent' = Permanent
        BY <1>1 DEF Ledger!Add, Ledger!Remove, Ledger!LockOrRelease, Ledger!LockForever
    <2>4. \A q \in DOMAIN positions \ {p} :
            Free'[q] = Free[q] /\ Vested'[q] = Vested[q] /\ Permanent'[q] = Permanent[q]
        BY <2>3, HeldType
    <2>5. /\ pool'.liquidity = pool.liquidity + (Free'[p] - Free[p]) + (Vested'[p] - Vested[p])
                                              + (Permanent'[p] - Permanent[p])
          /\ pool'.permanent_lock_liquidity
                = pool.permanent_lock_liquidity + (Permanent'[p] - Permanent[p])
        <3>1. CASE Ledger!Add(p)
            BY <2>2, <3>1 DEF Ledger!Add
        <3>2. CASE Ledger!Remove(p)
            BY <2>2, <3>2 DEF Ledger!Remove
        <3>3. CASE Ledger!LockOrRelease(p)
            BY <2>2, <3>3 DEF Ledger!LockOrRelease
        <3>4. CASE Ledger!LockForever(p)
            BY <2>2, <3>4 DEF Ledger!LockForever
        <3> QED
            BY <1>1, <3>1, <3>2, <3>3, <3>4
    <2> QED
        BY <2>1, <2>4, <2>5, OneChangeOwned
<1> QED
    BY <1>1, OpenOwned, CloseOwned, MoveOwned DEF Ledger!LedgerNext

LEMMA OwnedStep ==
    ASSUME TypeInv, TypeInv', CountInv, OwnedInv, [Next]_vars
    PROVE  OwnedInv'
<1>1. TypeOK /\ TypeOK' /\ IsFiniteSet(DOMAIN positions)
    BY DEF TypeInv, CountInv
<1>2. CASE Ledger!LedgerNext
    BY <1>1, <1>2, LedgerStepOwned
<1>3. CASE UNCHANGED Ledger!ledgerVars
    <2>1. /\ DOMAIN positions' = DOMAIN positions
          /\ Free' = Free /\ Vested' = Vested /\ Permanent' = Permanent
          /\ pool'.liquidity = pool.liquidity
          /\ pool'.permanent_lock_liquidity = pool.permanent_lock_liquidity
        BY <1>3 DEF Ledger!ledgerVars
    <2>2. Held' = Held /\ HeldForever' = HeldForever
        BY <1>1, <2>1, HeldType, HeldTypeNext
    <2> QED
        BY <2>1, <2>2 DEF OwnedInv, LiquidityIsOwned, PermanentLockIsOwned, Held, HeldForever
<1> QED
    BY <1>2, <1>3, LedgerStep

LEMMA InitOwned == Init => OwnedInv
<1> SUFFICES ASSUME NEW p \in PositionId, NEW sqrt_price \in InitialSqrtPrices,
                    NEW liquidity \in LiquidityDeltas, InitializePool(p, sqrt_price, liquidity)
             PROVE  OwnedInv
    BY DEF Init
<1>1. /\ DOMAIN positions = {p} /\ positions[p] = NewPosition(liquidity)
      /\ pool.liquidity = liquidity /\ pool.permanent_lock_liquidity = 0
    BY DEF InitializePool
<1>2. liquidity \in Nat
    BY InputTypes
<1>3. DOMAIN Held = {p} /\ Held[p] = liquidity /\ DOMAIN HeldForever = {p} /\ HeldForever[p] = 0
    BY <1>1, <1>2 DEF Held, HeldForever, NewPosition, GetTotalLiquidity
<1>4. SumFunction(Held) = liquidity /\ SumFunction(HeldForever) = 0
    BY <1>2, <1>3, SumOfOne DEF SumFunction
<1> QED
    BY <1>1, <1>4 DEF OwnedInv, LiquidityIsOwned, PermanentLockIsOwned, Held, HeldForever

LEMMA OwnedInvariance == Spec => []OwnedInv
<1>1. Init => OwnedInv
    BY InitOwned
<1>2. TypeInv /\ TypeInv' /\ CountInv /\ OwnedInv /\ [Next]_vars => OwnedInv'
    BY OwnedStep
<1> QED
    BY <1>1, <1>2, TypeInvariance, CountInvariance, PTL DEF Spec

(* For every set of positions and locks and every amount, the liquidity the  *)
(* pool trades with is the sum of what its open positions hold: no add,      *)
(* remove, lock, release, split or close creates or strands liquidity.       *)
THEOREM LiquiditySafety == Spec => []LiquidityIsOwned
<1>1. OwnedInv => LiquidityIsOwned
    BY DEF OwnedInv
<1> QED
    BY <1>1, OwnedInvariance, PTL

(* Likewise the pool's permanent lock is what positions hold permanently     *)
(* locked, wherever splits moved it.                                         *)
THEOREM PermanentLockSafety == Spec => []PermanentLockIsOwned
<1>1. OwnedInv => PermanentLockIsOwned
    BY DEF OwnedInv
<1> QED
    BY <1>1, OwnedInvariance, PTL
-----------------------------------------------------------------------------
(* LocksBackVestedLiquidity.  A position may be closed only without          *)
(* liquidity; that it leaves no lock behind needs that every live lock still *)
(* holds something.                                                          *)

Locks(p) == {w \in DOMAIN vestings : vestings[w].position = p}

Remaining(vesting) == GetTotalLockAmount(vesting) - vesting.total_released_liquidity

StillLocked(p) == [v \in Locks(p) |-> Remaining(vestings[v])]

LocksAreLive == \A v \in DOMAIN vestings : Remaining(vestings[v]) > 0

LockInv == LocksBackVestedLiquidity /\ IsFiniteSet(DOMAIN vestings) /\ LocksAreLive

LEMMA RemainingType ==
    ASSUME NEW vesting \in VestingState
    PROVE  /\ Remaining(vesting) \in Int /\ GetTotalLockAmount(vesting) \in Nat
           /\ vesting.total_released_liquidity \in Nat
<1>1. GetTotalLockAmount(vesting) \in Nat
    BY TotalLockType DEF VestingState
<1> QED
    BY <1>1 DEF VestingState, Remaining

LEMMA StillLockedType ==
    ASSUME TypeOK, IsFiniteSet(DOMAIN vestings), NEW p
    PROVE  /\ IsFiniteSet(Locks(p)) /\ StillLocked(p) \in [Locks(p) -> Int]
           /\ \A v \in Locks(p) : v \in DOMAIN vestings /\ StillLocked(p)[v] = Remaining(vestings[v])
<1>1. Locks(p) \subseteq DOMAIN vestings
    BY DEF Locks
<1>2. \A v \in Locks(p) : vestings[v] \in VestingState
    BY <1>1 DEF TypeOK
<1> QED
    BY <1>1, <1>2, RemainingType, FS_Subset DEF StillLocked

LEMMA LocksBack ==
    LocksBackVestedLiquidity <=>
        /\ \A v \in DOMAIN vestings : vestings[v].position \in DOMAIN positions
        /\ \A p \in DOMAIN positions : positions[p].vested_liquidity = SumFunction(StillLocked(p))
BY DEF LocksBackVestedLiquidity, StillLocked, Locks, Remaining

LEMMA LocksBackNext ==
    LocksBackVestedLiquidity' <=>
        /\ \A v \in DOMAIN vestings' : vestings'[v].position \in DOMAIN positions'
        /\ \A p \in DOMAIN positions' :
              positions'[p].vested_liquidity = SumFunction(StillLocked(p)')
BY DEF LocksBackVestedLiquidity, StillLocked, Locks, Remaining

(* Steps that leave the locks and the vested liquidity alone.                *)
LEMMA LockFrame ==
    ASSUME TypeOK, TypeOK', LockInv, vestings' = vestings,
           DOMAIN positions' = DOMAIN positions, Vested' = Vested
    PROVE  LockInv'
<1>1. \A p \in DOMAIN positions : positions'[p].vested_liquidity = positions[p].vested_liquidity
    <2>1. \A p \in DOMAIN positions : Vested[p] = positions[p].vested_liquidity
        BY LedgerTypes
    <2>2. \A p \in DOMAIN positions' : Vested'[p] = positions'[p].vested_liquidity
        BY DEF Vested, LiquidityOf, TypeOK
    <2> QED
        BY <2>1, <2>2
<1>2. \A p : StillLocked(p)' = StillLocked(p)
    BY DEF StillLocked, Locks
<1>3. LocksBackVestedLiquidity'
    BY <1>1, <1>2, LocksBack, LocksBackNext DEF LockInv
<1> QED
    BY <1>3 DEF LockInv, LocksAreLive

LEMMA CreatePositionLocks ==
    ASSUME TypeInv, TypeInv', LockInv, NEW p \in PositionId, CreatePosition(p)
    PROVE  LockInv'
<1>1. /\ vestings' = vestings /\ p \notin DOMAIN positions
      /\ DOMAIN positions' = DOMAIN positions \cup {p}
      /\ positions'[p] = NewPosition(0)
      /\ \A q \in DOMAIN positions : positions'[q] = positions[q]
    BY DEF CreatePosition, Put
<1>2. \A q : StillLocked(q)' = StillLocked(q)
    BY <1>1 DEF StillLocked, Locks
<1>3. positions'[p].vested_liquidity = SumFunction(StillLocked(p)')
    <2>1. Locks(p) = {}
        BY <1>1, LocksBack DEF LockInv, Locks
    <2>2. SumFunction(StillLocked(p)) = 0
        BY <2>1, SumEmpty DEF StillLocked, SumFunction
    <2> QED
        BY <1>1, <1>2, <2>2 DEF NewPosition
<1>4. \A q \in DOMAIN positions : positions'[q].vested_liquidity = SumFunction(StillLocked(q)')
    BY <1>1, <1>2, LocksBack DEF LockInv
<1>5. \A v \in DOMAIN vestings' : vestings'[v].position \in DOMAIN positions'
    BY <1>1, LocksBack DEF LockInv
<1>6. LocksBackVestedLiquidity'
    BY <1>1, <1>3, <1>4, <1>5, LocksBackNext
<1> QED
    BY <1>1, <1>6 DEF LockInv, LocksAreLive

LEMMA ClosePositionLocks ==
    ASSUME TypeInv, TypeInv', LockInv, NEW p \in PositionId, ClosePosition(p)
    PROVE  LockInv'
<1>1. /\ vestings' = vestings /\ p \in DOMAIN positions
      /\ DOMAIN positions' = DOMAIN positions \ {p}
      /\ \A q \in DOMAIN positions' : positions'[q] = positions[q]
      /\ GetTotalLiquidity(positions[p]) = 0
    BY DEF ClosePosition, Drop, IsEmpty
<1>2. \A q : StillLocked(q)' = StillLocked(q)
    BY <1>1 DEF StillLocked, Locks
<1>3. SumFunction(StillLocked(p)) = 0
    <2>1. positions[p].vested_liquidity = 0
        <3>1. positions[p] \in PositionState
            BY <1>1 DEF TypeInv, TypeOK
        <3> QED
            BY <1>1, <3>1 DEF GetTotalLiquidity, PositionState
    <2> QED
        BY <1>1, <2>1, LocksBack DEF LockInv
<1>4. ASSUME NEW v \in Locks(p)
      PROVE  FALSE
    <2>1. /\ IsFiniteSet(Locks(p)) /\ DOMAIN StillLocked(p) = Locks(p)
          /\ \A w \in Locks(p) : StillLocked(p)[w] \in Nat /\ StillLocked(p)[w] > 0
        BY StillLockedType DEF LockInv, LocksAreLive, TypeInv
    <2>2. StillLocked(p)[v] <= SumFunctionOnSet(StillLocked(p), Locks(p))
        BY <2>1, SumMember
    <2>3. SumFunctionOnSet(StillLocked(p), Locks(p)) = 0
        BY <1>3, <2>1 DEF SumFunction
    <2>4. StillLocked(p)[v] \in Nat /\ StillLocked(p)[v] > 0
        BY <2>1
    <2> QED
        BY <2>2, <2>3, <2>4
<1>5. \A v \in DOMAIN vestings' : vestings'[v].position \in DOMAIN positions'
    <2>1. \A v \in DOMAIN vestings : vestings[v].position \in DOMAIN positions
        BY LocksBack DEF LockInv
    <2> QED
        BY <1>1, <1>4, <2>1 DEF Locks
<1>6. \A q \in DOMAIN positions' : positions'[q].vested_liquidity = SumFunction(StillLocked(q)')
    BY <1>1, <1>2, LocksBack DEF LockInv
<1>7. LocksBackVestedLiquidity'
    BY <1>5, <1>6, LocksBackNext
<1> QED
    BY <1>1, <1>7 DEF LockInv, LocksAreLive

(* The locks of other positions are not touched by a step on one lock.       *)
LEMMA OtherLocks ==
    ASSUME TypeOK, TypeOK', LockInv, NEW p \in DOMAIN positions, NEW v,
           DOMAIN positions' = DOMAIN positions,
           \A q \in DOMAIN positions \ {p} : positions'[q] = positions[q],
           \A w \in DOMAIN vestings : w # v => w \in DOMAIN vestings' /\ vestings'[w] = vestings[w],
           \A w \in DOMAIN vestings' : w = v \/ w \in DOMAIN vestings,
           v \in DOMAIN vestings => vestings[v].position = p,
           v \in DOMAIN vestings' => vestings'[v].position = p /\ Remaining(vestings'[v]) > 0,
           IsFiniteSet(DOMAIN vestings'),
           positions'[p].vested_liquidity = SumFunction(StillLocked(p)')
    PROVE  LockInv'
<1>1. ASSUME NEW q \in DOMAIN positions, q # p
      PROVE  StillLocked(q)' = StillLocked(q)
    <2>1. Locks(q)' = Locks(q)
        BY <1>1 DEF Locks
    <2>2. \A w \in Locks(q) : vestings'[w] = vestings[w]
        BY <1>1 DEF Locks
    <2> QED
        BY <2>1, <2>2 DEF StillLocked
<1>2. \A q \in DOMAIN positions' : positions'[q].vested_liquidity = SumFunction(StillLocked(q)')
    BY <1>1, LocksBack DEF LockInv
<1>3. \A w \in DOMAIN vestings' : vestings'[w].position \in DOMAIN positions'
    BY LocksBack DEF LockInv
<1>4. LocksBackVestedLiquidity'
    BY <1>2, <1>3, LocksBackNext
<1>5. LocksAreLive'
    BY DEF LockInv, LocksAreLive
<1> QED
    BY <1>4, <1>5 DEF LockInv

LEMMA LockPositionLocks ==
    ASSUME TypeInv, TypeInv', LockInv, NEW p \in PositionId, NEW v \in VestingId,
           NEW params \in VestingParameters, NEW cliff_point \in Nat,
           LockPosition(p, v, params, cliff_point)
    PROVE  LockInv'
<1> DEFINE amount == GetTotalLockAmount(params)
           new    == NewVesting(p, cliff_point, params)
<1>0. TypeOK /\ TypeOK' /\ IsFiniteSet(DOMAIN vestings)
    BY DEF TypeInv, LockInv
<1>1. /\ p \in DOMAIN positions /\ v \notin DOMAIN vestings /\ amount > 0
      /\ vestings' = Put(vestings, v, new)
      /\ positions' = [positions EXCEPT ![p] = Lock(positions[p], amount)]
    BY DEF LockPosition, ValidVesting
<1>2. amount \in Nat
    BY TotalLockType DEF VestingParameters
<1>3. new.position = p /\ Remaining(new) = amount
    BY <1>2 DEF NewVesting, Remaining, GetTotalLockAmount
<1> HIDE DEF amount, new
<1>4. /\ DOMAIN vestings' = DOMAIN vestings \cup {v} /\ vestings'[v] = new
      /\ \A w \in DOMAIN vestings : vestings'[w] = vestings[w]
    BY <1>1 DEF Put
<1>5. /\ DOMAIN positions' = DOMAIN positions
      /\ \A q \in DOMAIN positions \ {p} : positions'[q] = positions[q]
      /\ positions'[p].vested_liquidity = positions[p].vested_liquidity + amount
    BY <1>0, <1>1 DEF Lock, TypeOK, PositionState
<1>6. Locks(p)' = Locks(p) \cup {v} /\ v \notin Locks(p)
    BY <1>1, <1>3, <1>4 DEF Locks
<1>7. IsFiniteSet(DOMAIN vestings')
    BY <1>0, <1>4, FS_AddElement
<1>8. /\ IsFiniteSet(Locks(p)) /\ StillLocked(p) \in [Locks(p) -> Int]
      /\ \A w \in Locks(p) : w \in DOMAIN vestings /\ StillLocked(p)[w] = Remaining(vestings[w])
    BY <1>0, StillLockedType
<1>9. /\ \A w \in Locks(p) : StillLocked(p)'[w] = StillLocked(p)[w]
      /\ StillLocked(p)'[v] = amount
    BY <1>3, <1>4, <1>6, <1>8 DEF StillLocked
<1>10. StillLocked(p)' \in [Locks(p)' -> Int]
    BY <1>2, <1>6, <1>8, <1>9 DEF StillLocked
<1>11. SumFunction(StillLocked(p)') = SumFunction(StillLocked(p)) + StillLocked(p)'[v]
    <2>1. \A w \in Locks(p) : StillLocked(p)'[w] = StillLocked(p)[w]
        BY <1>9
    <2>2. StillLocked(p) \in [Locks(p) -> Int] /\ IsFiniteSet(Locks(p))
        BY <1>8
    <2> QED
        BY <1>6, <1>10, <2>1, <2>2, SumGrow, Z3
<1>12. positions'[p].vested_liquidity = SumFunction(StillLocked(p)')
    <2>1. positions[p].vested_liquidity = SumFunction(StillLocked(p))
        BY <1>1, LocksBack DEF LockInv
    <2> QED
        BY <1>5, <1>9, <1>11, <2>1
<1> QED
    BY <1>0, <1>1, <1>2, <1>3, <1>4, <1>5, <1>7, <1>12, OtherLocks

LEMMA RefreshVestingLocks ==
    ASSUME TypeInv, TypeInv', LockInv, NEW v \in VestingId, RefreshVesting(v)
    PROVE  LockInv'
<1> DEFINE old      == vestings[v]
           released == GetNewReleaseLiquidity(old, clock)
           updated  == AccumulateReleasedLiquidity(old, released)
<1>0. TypeOK /\ TypeOK' /\ IsFiniteSet(DOMAIN vestings) /\ clock \in Nat
    BY DEF TypeInv, LockInv, TypeOK
<1>c. PICK p : p = old.position
    OBVIOUS
<1>1. /\ v \in DOMAIN vestings /\ p \in DOMAIN positions /\ released >= 0
      /\ vestings' = IF Done(updated) THEN Drop(vestings, v) ELSE [vestings EXCEPT ![v] = updated]
      /\ positions' = [positions EXCEPT ![p] = ReleaseVestedLiquidity(positions[p], released)]
    BY <1>c DEF RefreshVesting
<1>2. old \in VestingState /\ positions[p] \in PositionState
    BY <1>0, <1>1 DEF TypeOK
<1>3. released \in Nat /\ GetMaxUnlockedLiquidity(old, clock) <= GetTotalLockAmount(old)
    BY <1>0, <1>1, <1>2, MaxUnlockedType DEF GetNewReleaseLiquidity, VestingState
<1>4. /\ Remaining(old) \in Int /\ GetTotalLockAmount(old) \in Nat
      /\ old.total_released_liquidity \in Nat
    BY <1>2, RemainingType
<1>5. /\ GetMaxUnlockedLiquidity(old, clock) \in Nat
      /\ released = GetMaxUnlockedLiquidity(old, clock) - old.total_released_liquidity
    BY <1>0, <1>2, MaxUnlockedType DEF GetNewReleaseLiquidity
<1> HIDE DEF released
<1>6. /\ updated.position = p
      /\ updated.total_released_liquidity = old.total_released_liquidity + released
      /\ GetTotalLockAmount(updated) = GetTotalLockAmount(old)
    BY <1>2, <1>c DEF AccumulateReleasedLiquidity, VestingState, GetTotalLockAmount
<1>7. /\ Remaining(updated) = Remaining(old) - released /\ Remaining(updated) >= 0
      /\ Remaining(updated) \in Int
      /\ Done(updated) <=> Remaining(updated) = 0
    BY <1>3, <1>4, <1>5, <1>6 DEF Remaining, Done
<1> HIDE DEF updated
<1>8. /\ DOMAIN positions' = DOMAIN positions
      /\ \A q \in DOMAIN positions \ {p} : positions'[q] = positions[q]
      /\ positions'[p].vested_liquidity = positions[p].vested_liquidity - released
    BY <1>0, <1>1, <1>2 DEF ReleaseVestedLiquidity, TypeOK, PositionState
<1>9. /\ IsFiniteSet(Locks(p)) /\ StillLocked(p) \in [Locks(p) -> Int] /\ v \in Locks(p)
      /\ \A w \in Locks(p) : w \in DOMAIN vestings /\ StillLocked(p)[w] = Remaining(vestings[w])
    BY <1>0, <1>1, <1>c, StillLockedType DEF Locks
<1>10. positions[p].vested_liquidity = SumFunction(StillLocked(p)) /\ StillLocked(p)[v] = Remaining(old)
    BY <1>1, <1>9, LocksBack DEF LockInv
<1> DEFINE still == StillLocked(p)
           next  == StillLocked(p)'
           locks == Locks(p)
           locksNext == Locks(p)'
<1>a. /\ \A w \in DOMAIN vestings : w # v => w \in DOMAIN vestings' /\ vestings'[w] = vestings[w]
      /\ \A w \in DOMAIN vestings' : w = v \/ w \in DOMAIN vestings
      /\ DOMAIN vestings' \subseteq DOMAIN vestings
    BY <1>1 DEF Drop
<1>b. IsFiniteSet(DOMAIN vestings')
    BY <1>0, <1>a, FS_Subset
<1>11. CASE Done(updated)
    <2>1. DOMAIN vestings' = DOMAIN vestings \ {v}
        BY <1>1, <1>11 DEF Drop
    <2>2. locksNext = locks \ {v} /\ v \in locks
        BY <1>9, <1>a, <2>1 DEF Locks
    <2>3. DOMAIN next = locksNext /\ \A w \in locksNext : next[w] = still[w]
        BY <1>9, <1>a, <2>1, <2>2 DEF StillLocked
    <2>4. still \in [locks -> Int] /\ IsFiniteSet(locks)
        BY <1>9
    <2>5. next \in [locksNext -> Int]
        BY <2>2, <2>3, <2>4 DEF StillLocked
    <2>6. next \in [locksNext -> Int] /\ \A w \in locksNext : next[w] = still[w]
        BY <2>3, <2>5
    <2> HIDE DEF still, next, locks, locksNext
    <2>7. SumFunction(next) = SumFunction(still) - still[v]
        BY <2>2, <2>4, <2>6, SumShrink
    <2>8. SumFunction(next) = positions'[p].vested_liquidity
        BY <1>7, <1>8, <1>10, <1>11, <1>4, <1>3, <2>7 DEF still
    <2>9. v \notin DOMAIN vestings'
        BY <2>1
    <2> QED
        BY <1>0, <1>1, <1>8, <1>a, <1>b, <1>c, <2>8, <2>9, OtherLocks DEF next
<1>12. CASE ~Done(updated)
    <2>1. DOMAIN vestings' = DOMAIN vestings /\ vestings'[v] = updated
        BY <1>0, <1>1, <1>12 DEF TypeOK
    <2>2. locksNext = locks
        <3>1. \A w \in DOMAIN vestings : vestings'[w].position = vestings[w].position
            BY <1>6, <1>a, <1>c, <2>1
        <3> QED
            BY <2>1, <3>1 DEF Locks
    <2>3. /\ DOMAIN next = locks /\ next[v] = Remaining(updated)
          /\ \A w \in locks \ {v} : next[w] = still[w]
        BY <1>9, <1>a, <2>1, <2>2 DEF StillLocked
    <2>4. still \in [locks -> Int] /\ IsFiniteSet(locks) /\ v \in locks
        BY <1>9
    <2>5. next \in [locks -> Int]
        BY <1>7, <2>2, <2>3, <2>4 DEF StillLocked
    <2> HIDE DEF still, next, locks, locksNext
    <2>6. SumFunction(next) = SumFunction(still) + next[v] - still[v]
        <3>1. \A w \in locks \ {v} : next[w] = still[w]
            BY <2>3
        <3> QED
            BY <2>4, <2>5, <3>1, SumChangeOne
    <2>7. SumFunction(next) = positions'[p].vested_liquidity
        <3>1. SumFunction(still) \in Int
            BY <2>4, SumFunctionType
        <3> QED
            BY <1>7, <1>8, <1>10, <1>4, <1>3, <2>3, <2>6, <3>1 DEF still
    <2>8. vestings'[v].position = p /\ Remaining(vestings'[v]) > 0
        BY <1>6, <1>7, <1>12, <2>1
    <2> QED
        BY <1>0, <1>1, <1>8, <1>a, <1>b, <1>c, <2>7, <2>8, OtherLocks DEF next
<1> QED
    BY <1>11, <1>12

LEMMA LocksStep ==
    ASSUME TypeInv, TypeInv', LockInv, [Next]_vars
    PROVE  LockInv'
<1>0. TypeOK /\ TypeOK'
    BY DEF TypeInv
<1>1. ASSUME vestings' = vestings, UNCHANGED Ledger!ledgerVars
      PROVE  LockInv'
    BY <1>0, <1>1, LockFrame DEF Ledger!ledgerVars
<1>2. CASE \/ UNCHANGED vars \/ Tick \/ SetPoolStatus
    <2>1. /\ vestings' = vestings /\ positions' = positions
          /\ pool'.liquidity = pool.liquidity
          /\ pool'.permanent_lock_liquidity = pool.permanent_lock_liquidity
        BY <1>0, <1>2 DEF vars, Tick, SetPoolStatus, TypeOK, PoolState
    <2> QED
        BY <1>1, <2>1, PositionsFrame
<1>3. CASE TradeInstruction
    <2>1. vestings' = vestings
        BY <1>3 DEF TradeInstruction, Swap, ClaimProtocolFee, ClaimPartnerFee
    <2> QED
        BY <1>1, <1>3, <2>1, TradeLedger
<1>4. CASE RewardInstruction
    <2>1. vestings' = vestings
        BY <1>4 DEF RewardInstruction, InitializeReward, FundReward, ClaimReward,
                    WithdrawIneligibleReward, UpdateRewardDuration, UpdateRewardFunder,
                    FreezeRewardVault
    <2> QED
        BY <1>1, <1>4, <2>1, RewardLedger
<1>5. CASE PositionInstruction
    <2>1. PICK p \in PositionId :
            \/ CreatePosition(p)
            \/ ClosePosition(p)
            \/ ClaimPositionFee(p)
            \/ \E delta \in Nat : \E threshold : AddLiquidity(p, delta, threshold)
            \/ \E delta \in Nat : \E threshold : RemoveLiquidity(p, delta, threshold)
        BY <1>5, PositionInstructionCases
    <2>2. CASE CreatePosition(p)
        BY <2>2, CreatePositionLocks
    <2>3. CASE ClosePosition(p)
        BY <2>3, ClosePositionLocks
    <2>4. CASE ClaimPositionFee(p)
        <3>1. vestings' = vestings
            BY <2>4 DEF ClaimPositionFee
        <3> QED
            BY <1>1, <2>4, <3>1, ClaimPositionFeeLedger
    <2>5. ASSUME NEW delta \in Nat, NEW threshold, AddLiquidity(p, delta, threshold)
          PROVE  LockInv'
        <3>1. vestings' = vestings
            BY <2>5 DEF AddLiquidity
        <3>2. Ledger!Add(p)
            BY <2>5, AddLiquidityLedger
        <3> QED
            BY <1>0, <3>1, <3>2, LockFrame DEF Ledger!Add
    <2>6. ASSUME NEW delta \in Nat, NEW threshold, RemoveLiquidity(p, delta, threshold)
          PROVE  LockInv'
        <3>1. vestings' = vestings
            BY <2>6 DEF RemoveLiquidity
        <3>2. Ledger!Remove(p)
            BY <2>6, RemoveLiquidityLedger
        <3> QED
            BY <1>0, <3>1, <3>2, LockFrame DEF Ledger!Remove
    <2> QED
        BY <2>1, <2>2, <2>3, <2>4, <2>5, <2>6
<1>6. ASSUME NEW p \in PositionId, NEW v \in VestingId, NEW params \in VestingParameterInputs,
             NEW cliff_point \in CliffPoints \cup {clock}, LockPosition(p, v, params, cliff_point)
      PROVE  LockInv'
    <2>1. params \in VestingParameters /\ cliff_point \in Nat
        BY <1>0, InputTypes DEF TypeOK
    <2> QED
        BY <1>6, <2>1, LockPositionLocks
<1>7. ASSUME NEW v \in VestingId, RefreshVesting(v)
      PROVE  LockInv'
    BY <1>7, RefreshVestingLocks
<1>8. ASSUME NEW p \in PositionId, NEW amount \in PermanentLockAmounts,
             PermanentLockPosition(p, amount)
      PROVE  LockInv'
    <2>1. vestings' = vestings
        BY <1>8 DEF PermanentLockPosition
    <2>2. Ledger!LockForever(p)
        BY <1>8, InputTypes, PermanentLockLedger
    <2> QED
        BY <1>0, <2>1, <2>2, LockFrame DEF Ledger!LockForever
<1>9. ASSUME NEW first \in PositionId, NEW second \in PositionId,
             NEW numerators \in SplitNumerators, SplitPosition(first, second, numerators)
      PROVE  LockInv'
    <2>1. vestings' = vestings
        BY <1>9 DEF SplitPosition
    <2>2. Ledger!Move(first, second)
        BY <1>9, InputTypes, SplitPositionLedger
    <2> QED
        BY <1>0, <2>1, <2>2, LockFrame DEF Ledger!Move
<1>10. CASE LockInstruction
    BY <1>6, <1>7, <1>8, <1>9, <1>10 DEF LockInstruction
<1> QED
    BY <1>2, <1>3, <1>4, <1>5, <1>10 DEF Next, Instruction

LEMMA InitLocks == Init => LockInv
<1> SUFFICES ASSUME NEW p \in PositionId, NEW sqrt_price \in InitialSqrtPrices,
                    NEW liquidity \in LiquidityDeltas, InitializePool(p, sqrt_price, liquidity)
             PROVE  LockInv
    BY DEF Init
<1>1. DOMAIN vestings = {} /\ DOMAIN positions = {p} /\ positions[p] = NewPosition(liquidity)
    BY DEF InitializePool
<1>2. SumFunction(StillLocked(p)) = 0
    <2>1. Locks(p) = {}
        BY <1>1 DEF Locks
    <2> QED
        BY <2>1, SumEmpty DEF StillLocked, SumFunction
<1>3. LocksBackVestedLiquidity
    BY <1>1, <1>2, LocksBack DEF NewPosition
<1> QED
    BY <1>1, <1>3, FS_EmptySet DEF LockInv, LocksAreLive

LEMMA LockInvariance == Spec => []LockInv
<1>1. TypeInv /\ TypeInv' /\ LockInv /\ [Next]_vars => LockInv'
    BY LocksStep
<1> QED
    BY <1>1, InitLocks, TypeInvariance, PTL DEF Spec

(* For every set of locks and positions and every schedule, the vested       *)
(* liquidity of a position is what its live locks have not released, and no  *)
(* lock outlives its position: however refreshes, locks, splits and closes   *)
(* interleave, all vested liquidity comes out and never more.                *)
THEOREM VestedLiquiditySafety == Spec => []LocksBackVestedLiquidity
<1>1. LockInv => LocksBackVestedLiquidity
    BY DEF LockInv
<1> QED
    BY <1>1, LockInvariance, PTL
-----------------------------------------------------------------------------
(* VaultsCoverClaims.  A vault holds a reserve that covers all liquidity at  *)
(* the current price, before any rounding, the fees of LPs to the last       *)
(* fraction of a token, and the fees of the protocol and the partner.        *)

(* What one unit of liquidity is worth in token t is Width / Unit.           *)
Unit(t, sqrt_price) == IF t = "a" THEN sqrt_price * SqrtMaxPrice ELSE LIQUIDITY_SCALE

Width(t, sqrt_price) == IF t = "a" THEN SqrtMaxPrice - sqrt_price ELSE sqrt_price - SqrtMinPrice

ReserveCovers(t, reserve, liquidity, sqrt_price) ==
    reserve * Unit(t, sqrt_price) >= liquidity * Width(t, sqrt_price)

FeeClaim(position, fee_per_liquidity, t) ==
    position.fee_pending[t] * LIQUIDITY_SCALE
    + GetTotalLiquidity(position) * (fee_per_liquidity[t] - position.fee_checkpoint[t])

FeeClaims(t) == [p \in DOMAIN positions |-> FeeClaim(positions[p], pool.fee_per_liquidity, t)]

Solvent(t) ==
    \E reserve, fees \in Nat :
        /\ vault[t] = reserve + fees + pool.protocol_fee[t] + pool.partner_fee[t]
        /\ ReserveCovers(t, reserve, pool.liquidity, pool.sqrt_price)
        /\ SumFunction(FeeClaims(t)) <= fees * LIQUIDITY_SCALE

SolvencyInv == \A t \in Token : Solvent(t)

LEMMA UnitType ==
    ASSUME NEW t \in Token, NEW sqrt_price \in SqrtMinPrice .. SqrtMaxPrice
    PROVE  /\ Unit(t, sqrt_price) \in Nat \ {0} /\ Width(t, sqrt_price) \in Nat
           /\ \A delta : GetAmountsUp(sqrt_price, delta)[t]
                            = MulDivUp(delta, Width(t, sqrt_price), Unit(t, sqrt_price))
           /\ pool.sqrt_price = sqrt_price =>
                 \A delta : GetAmountsDown(delta)[t]
                            = MulDivDown(delta, Width(t, sqrt_price), Unit(t, sqrt_price))
<1>1. /\ SqrtMaxPrice - sqrt_price \in Nat /\ sqrt_price - SqrtMinPrice \in Nat
      /\ sqrt_price * SqrtMaxPrice \in Nat \ {0} /\ LIQUIDITY_SCALE \in Nat \ {0}
    BY PriceTypes, LiquidityScaleType
<1>2. Unit(t, sqrt_price) \in Nat \ {0} /\ Width(t, sqrt_price) \in Nat
    BY <1>1 DEF Unit, Width
<1>3. \A delta : GetAmountsUp(sqrt_price, delta)[t]
                    = MulDivUp(delta, Width(t, sqrt_price), Unit(t, sqrt_price))
    BY DEF Unit, Width, GetAmountsUp, GetDeltaAmountAUp, GetDeltaAmountBUp
<1>4. pool.sqrt_price = sqrt_price =>
        \A delta : GetAmountsDown(delta)[t]
                   = MulDivDown(delta, Width(t, sqrt_price), Unit(t, sqrt_price))
    BY DEF Unit, Width, GetAmountsDown, GetDeltaAmountADown, GetDeltaAmountBDown
<1> QED
    BY <1>2, <1>3, <1>4

(* Added liquidity is paid for with its worth rounded up, removed liquidity  *)
(* pays out its worth rounded down.                                          *)
LEMMA ReserveGrows ==
    ASSUME NEW t \in Token, NEW sqrt_price \in SqrtMinPrice .. SqrtMaxPrice,
           NEW reserve \in Nat, NEW liquidity \in Nat, NEW delta \in Nat,
           ReserveCovers(t, reserve, liquidity, sqrt_price)
    PROVE  LET amount == GetAmountsUp(sqrt_price, delta)[t]
           IN  amount \in Nat /\ ReserveCovers(t, reserve + amount, liquidity + delta, sqrt_price)
<1> DEFINE u == Unit(t, sqrt_price)
           w == Width(t, sqrt_price)
           amount == GetAmountsUp(sqrt_price, delta)[t]
<1>1. u \in Nat \ {0} /\ w \in Nat /\ amount = MulDivUp(delta, w, u)
    BY UnitType
<1>2. reserve * u >= liquidity * w
    BY DEF ReserveCovers
<1>g. SUFFICES amount \in Nat /\ (reserve + amount) * u >= (liquidity + delta) * w
    BY DEF ReserveCovers
<1> HIDE DEF u, w, amount
<1>3. amount \in Nat /\ amount * u >= delta * w
    BY <1>1, MulDivUpType, MulDivUpCovers
<1>4. /\ (reserve + amount) * u = reserve * u + amount * u
      /\ (liquidity + delta) * w = liquidity * w + delta * w
    BY <1>1, <1>3
<1>5. reserve * u \in Int /\ amount * u \in Int /\ liquidity * w \in Int /\ delta * w \in Int
    BY <1>1, <1>3
<1> QED
    BY <1>2, <1>3, <1>4, <1>5

LEMMA ReserveShrinks ==
    ASSUME NEW t \in Token, pool.sqrt_price \in SqrtMinPrice .. SqrtMaxPrice,
           NEW reserve \in Nat, NEW liquidity \in Nat, NEW delta \in Nat, delta <= liquidity,
           ReserveCovers(t, reserve, liquidity, pool.sqrt_price)
    PROVE  LET amount == GetAmountsDown(delta)[t]
           IN  /\ amount \in Nat /\ reserve - amount \in Nat
               /\ ReserveCovers(t, reserve - amount, liquidity - delta, pool.sqrt_price)
<1> DEFINE u == Unit(t, pool.sqrt_price)
           w == Width(t, pool.sqrt_price)
           amount == GetAmountsDown(delta)[t]
<1>1. u \in Nat \ {0} /\ w \in Nat /\ amount = MulDivDown(delta, w, u)
    BY UnitType
<1>2. reserve * u >= liquidity * w
    BY DEF ReserveCovers
<1>g. SUFFICES /\ amount \in Nat /\ reserve - amount \in Nat
               /\ (reserve - amount) * u >= (liquidity - delta) * w
    BY DEF ReserveCovers
<1> HIDE DEF u, w, amount
<1>3. amount \in Nat /\ amount * u <= delta * w
    BY <1>1, MulDivDownType, MulDivDownCovered
<1>4. /\ (reserve - amount) * u = reserve * u - amount * u
      /\ (liquidity - delta) * w = liquidity * w - delta * w
    BY <1>1, <1>3
<1>5. reserve * u \in Int /\ amount * u \in Int /\ liquidity * w \in Int /\ delta * w \in Int
    BY <1>1, <1>3
<1>6. (reserve - amount) * u >= (liquidity - delta) * w
    BY <1>2, <1>3, <1>4, <1>5
<1>7. delta * w <= liquidity * w
    BY <1>1, ProductsOrdered
<1>8. amount <= reserve
    <2>1. u * amount <= u * reserve
        <3>1. u * amount = amount * u /\ u * reserve = reserve * u
            BY <1>1, <1>3
        <3> QED BY <1>2, <1>3, <1>5, <1>7, <3>1
    <2> QED BY <1>1, <1>3, <2>1, FactorDrops
<1> QED
    BY <1>3, <1>6, <1>8

(* A swap moves the price; what flows covers what the liquidity is worth at  *)
(* the new price.                                                            *)
LEMMA ReserveAMoves ==
    ASSUME NEW P \in SqrtMinPrice .. SqrtMaxPrice, NEW N \in SqrtMinPrice .. SqrtMaxPrice,
           NEW reserve \in Nat, NEW L \in Nat, NEW flow \in Int,
           ReserveCovers("a", reserve, L, P), flow * (P * N) >= L * (P - N)
    PROVE  reserve + flow \in Nat /\ ReserveCovers("a", reserve + flow, L, N)
<1> DEFINE M == SqrtMaxPrice
<1>1. /\ P \in Nat \ {0} /\ N \in Nat \ {0} /\ M \in Nat \ {0} /\ M - N \in Nat
      /\ N * M \in Nat \ {0}
    BY PriceTypes
<1>2. reserve * (P * M) >= L * (M - P)
    BY DEF ReserveCovers, Unit, Width
<1> SUFFICES reserve + flow \in Nat /\ (reserve + flow) * (N * M) >= L * (M - N)
    BY DEF ReserveCovers, Unit, Width
<1> HIDE DEF M
<1>3. N * (reserve * (P * M)) >= N * (L * (M - P))
    <2>1. reserve * (P * M) \in Int /\ L * (M - P) \in Int
        BY <1>1
    <2> QED BY <1>1, <1>2, <2>1, ProductsOrdered
<1>4. M * (flow * (P * N)) >= M * (L * (P - N))
    <2>1. flow * (P * N) \in Int /\ L * (P - N) \in Int
        BY <1>1
    <2> QED BY <1>1, <2>1, ProductsOrdered
<1>5. N * (reserve * (P * M)) + M * (flow * (P * N)) = P * ((reserve + flow) * (N * M))
    BY <1>1
<1>6. N * (L * (M - P)) + M * (L * (P - N)) = P * (L * (M - N))
    BY <1>1
<1>7. /\ N * (reserve * (P * M)) \in Int /\ M * (flow * (P * N)) \in Int
      /\ N * (L * (M - P)) \in Int /\ M * (L * (P - N)) \in Int
      /\ (reserve + flow) * (N * M) \in Int /\ L * (M - N) \in Nat
    BY <1>1
<1>8. P * (L * (M - N)) <= P * ((reserve + flow) * (N * M))
    BY <1>3, <1>4, <1>5, <1>6, <1>7
<1>9. L * (M - N) <= (reserve + flow) * (N * M)
    BY <1>1, <1>7, <1>8, FactorDrops
<1>10. 0 <= reserve + flow
    <2> DEFINE k == N * M
               r == reserve + flow
    <2>1. k \in Nat \ {0} /\ r \in Int /\ r * k >= 0
        BY <1>1, <1>7, <1>9
    <2> HIDE DEF k, r
    <2>2. k * 0 <= k * r
        <3>1. k * 0 = 0 /\ k * r = r * k
            BY <2>1
        <3> QED BY <2>1, <3>1
    <2>3. 0 <= r
        BY <2>1, <2>2, FactorDrops
    <2> QED BY <2>3 DEF r
<1> QED
    BY <1>9, <1>10

LEMMA ReserveBMoves ==
    ASSUME NEW P \in SqrtMinPrice .. SqrtMaxPrice, NEW N \in SqrtMinPrice .. SqrtMaxPrice,
           NEW reserve \in Nat, NEW L \in Nat, NEW flow \in Int,
           ReserveCovers("b", reserve, L, P), flow * LIQUIDITY_SCALE >= L * (N - P)
    PROVE  reserve + flow \in Nat /\ ReserveCovers("b", reserve + flow, L, N)
<1> DEFINE m == SqrtMinPrice
           S == LIQUIDITY_SCALE
<1>1. /\ P \in Nat \ {0} /\ N \in Nat \ {0} /\ m \in Nat \ {0} /\ N - m \in Nat
      /\ S \in Nat \ {0}
    BY PriceTypes, LiquidityScaleType
<1>2. reserve * S >= L * (P - m)
    BY DEF ReserveCovers, Unit, Width
<1>f. flow * S >= L * (N - P)
    OBVIOUS
<1> SUFFICES reserve + flow \in Nat /\ (reserve + flow) * S >= L * (N - m)
    BY DEF ReserveCovers, Unit, Width
<1> HIDE DEF m, S
<1>3. /\ (reserve + flow) * S = reserve * S + flow * S
      /\ L * (N - m) = L * (P - m) + L * (N - P)
    BY <1>1
<1>4. /\ reserve * S \in Int /\ flow * S \in Int /\ L * (P - m) \in Int /\ L * (N - P) \in Int
      /\ L * (N - m) \in Nat
    BY <1>1
<1>5. (reserve + flow) * S >= L * (N - m)
    BY <1>2, <1>f, <1>3, <1>4
<1>6. 0 <= reserve + flow
    <2> DEFINE r == reserve + flow
    <2>1. r \in Int /\ r * S >= 0
        BY <1>1, <1>3, <1>4, <1>5
    <2> HIDE DEF r
    <2>2. S * 0 <= S * r
        <3>1. S * 0 = 0 /\ S * r = r * S
            BY <1>1, <2>1
        <3> QED BY <2>1, <3>1
    <2>3. 0 <= r
        BY <1>1, <2>1, <2>2, FactorDrops
    <2> QED BY <2>3 DEF r
<1> QED
    BY <1>5, <1>6

(* What update_fee makes of a position's claim: whole tokens, rounded down.  *)
LEMMA UpdatedFees ==
    ASSUME NEW position \in PositionState, NEW fee_per_liquidity \in [Token -> Nat],
           \A t \in Token : position.fee_checkpoint[t] <= fee_per_liquidity[t], NEW t \in Token
    PROVE  LET updated == UpdateFee(position, fee_per_liquidity)
           IN  /\ updated.fee_pending[t] \in Nat
               /\ FeeClaim(position, fee_per_liquidity, t) \in Nat
               /\ updated.fee_pending[t] * LIQUIDITY_SCALE
                     <= FeeClaim(position, fee_per_liquidity, t)
<1> DEFINE S == LIQUIDITY_SCALE
           liquidity == GetTotalLiquidity(position)
           growth == fee_per_liquidity[t] - position.fee_checkpoint[t]
           pending == position.fee_pending[t]
           fee == MulDivDown(liquidity, growth, S)
           updated == UpdateFee(position, fee_per_liquidity)
<1>1. /\ S \in Nat \ {0} /\ liquidity \in Nat /\ pending \in Nat
      /\ fee_per_liquidity[t] \in Nat /\ position.fee_checkpoint[t] \in Nat
    BY LiquidityScaleType, TotalLiquidityType DEF PositionState
<1>2. growth \in Nat
    BY <1>1
<1>3. updated.fee_pending[t] = IF liquidity > 0 THEN pending + fee ELSE pending
    BY DEF UpdateFee, PositionState
<1>4. FeeClaim(position, fee_per_liquidity, t) = pending * S + liquidity * growth
    BY DEF FeeClaim
<1> HIDE DEF S, liquidity, growth, pending, updated
<1>5. fee \in Nat /\ fee * S <= liquidity * growth
    BY <1>1, <1>2, MulDivDownType, MulDivDownCovered
<1> HIDE DEF fee
<1>6. /\ pending * S \in Nat /\ liquidity * growth \in Nat /\ fee * S \in Nat
      /\ (pending + fee) * S = pending * S + fee * S
    BY <1>1, <1>2, <1>5
<1>7. updated.fee_pending[t] \in Nat
    BY <1>1, <1>3, <1>5
<1>8. updated.fee_pending[t] * S <= pending * S + liquidity * growth
    <2>1. CASE liquidity > 0
        BY <1>3, <1>5, <1>6, <2>1
    <2>2. CASE ~(liquidity > 0)
        BY <1>3, <1>6, <2>2
    <2> QED BY <2>1, <2>2
<1>9. pending * S + liquidity * growth \in Nat
    BY <1>6
<1> QED
    BY <1>4, <1>7, <1>8, <1>9 DEF S, updated

(* After an update the claim is the pending fee, whatever the liquidity.     *)
LEMMA ClaimOfSettled ==
    ASSUME NEW position \in PositionState, NEW fee_per_liquidity \in [Token -> Nat],
           position.fee_checkpoint = fee_per_liquidity, NEW t \in Token
    PROVE  FeeClaim(position, fee_per_liquidity, t) = position.fee_pending[t] * LIQUIDITY_SCALE
<1>1. /\ GetTotalLiquidity(position) \in Nat /\ position.fee_pending[t] \in Nat
      /\ fee_per_liquidity[t] \in Nat /\ LIQUIDITY_SCALE \in Nat
    BY TotalLiquidityType, LiquidityScaleType DEF PositionState
<1>2. fee_per_liquidity[t] - position.fee_checkpoint[t] = 0
    BY <1>1
<1>3. GetTotalLiquidity(position) * 0 = 0 /\ position.fee_pending[t] * LIQUIDITY_SCALE \in Int
    BY <1>1
<1> QED
    BY <1>2, <1>3 DEF FeeClaim

(* Settling a position for its rewards leaves its fees alone.                *)
LEMMA SettledFees ==
    ASSUME TypeOK, CanUpdateRewards, rewards' = UpdatedRewards,
           NEW p \in DOMAIN positions, CanSettle(p)
    PROVE  Settled(p).fee_pending = UpdateFee(positions[p], pool.fee_per_liquidity).fee_pending
<1> DEFINE rewarded == UpdatePositionReward(positions[p], rewards')
<1>1. positions[p] \in PositionState
    BY DEF TypeOK
<1>2. /\ rewarded.fee_pending = positions[p].fee_pending
      /\ rewarded.fee_checkpoint = positions[p].fee_checkpoint
      /\ GetTotalLiquidity(rewarded) = GetTotalLiquidity(positions[p])
    BY <1>1 DEF UpdatePositionReward, PositionState, GetTotalLiquidity
<1>3. rewarded \in PositionState
    <2>1. rewards' \in [RewardIndex -> RewardInfo]
        BY UpdatedRewardsType
    <2> QED
        BY <1>1, <2>1, UpdatePositionRewardType DEF CanSettle
<1> HIDE DEF rewarded
<1>4. UpdateFee(rewarded, pool.fee_per_liquidity).fee_pending
        = UpdateFee(positions[p], pool.fee_per_liquidity).fee_pending
    BY <1>1, <1>2, <1>3 DEF UpdateFee, PositionState
<1> QED
    BY <1>4 DEF Settled, rewarded

LEMMA FeeClaimsType ==
    ASSUME TypeOK, CheckpointsBehind, NEW t \in Token
    PROVE  /\ FeeClaims(t) \in [DOMAIN positions -> Int]
           /\ \A p \in DOMAIN positions :
                 /\ FeeClaims(t)[p] = FeeClaim(positions[p], pool.fee_per_liquidity, t)
                 /\ FeeClaims(t)[p] \in Nat
<1>1. pool.fee_per_liquidity \in [Token -> Nat]
    BY DEF TypeOK, PoolState
<1>2. \A p \in DOMAIN positions :
        /\ positions[p] \in PositionState
        /\ \A u \in Token : positions[p].fee_checkpoint[u] <= pool.fee_per_liquidity[u]
    BY DEF TypeOK, CheckpointsBehind
<1>3. \A p \in DOMAIN positions : FeeClaim(positions[p], pool.fee_per_liquidity, t) \in Nat
    BY <1>1, <1>2, UpdatedFees
<1> QED
    BY <1>3 DEF FeeClaims

LEMMA FeeClaimsTypeNext ==
    ASSUME TypeOK', CheckpointsBehind', NEW t \in Token
    PROVE  /\ FeeClaims(t)' \in [DOMAIN positions' -> Int]
           /\ \A p \in DOMAIN positions' :
                 /\ FeeClaims(t)'[p] = FeeClaim(positions'[p], pool'.fee_per_liquidity, t)
                 /\ FeeClaims(t)'[p] \in Nat
<1>1. pool'.fee_per_liquidity \in [Token -> Nat]
    BY DEF TypeOK, PoolState
<1>2. \A p \in DOMAIN positions' :
        /\ positions'[p] \in PositionState
        /\ \A u \in Token : positions'[p].fee_checkpoint[u] <= pool'.fee_per_liquidity[u]
    BY DEF TypeOK, CheckpointsBehind
<1>3. \A p \in DOMAIN positions' : FeeClaim(positions'[p], pool'.fee_per_liquidity, t) \in Nat
    BY <1>1, <1>2, UpdatedFees
<1> QED
    BY <1>3 DEF FeeClaims

(* What a step may do to the fees of an open position without changing what  *)
(* its owner may claim: nothing, or settle them.                             *)
FeesIntact(q) ==
    \/ /\ positions'[q].fee_pending = positions[q].fee_pending
       /\ positions'[q].fee_checkpoint = positions[q].fee_checkpoint
       /\ GetTotalLiquidity(positions'[q]) = GetTotalLiquidity(positions[q])
    \/ /\ positions'[q].fee_pending
            = UpdateFee(positions[q], pool.fee_per_liquidity).fee_pending
       /\ positions'[q].fee_checkpoint = pool.fee_per_liquidity

AllFeesIntact ==
    /\ DOMAIN positions' = DOMAIN positions
    /\ pool'.fee_per_liquidity = pool.fee_per_liquidity
    /\ \A q \in DOMAIN positions : FeesIntact(q)

LEMMA OneFeesIntact ==
    ASSUME TypeOK, NEW p \in DOMAIN positions, NEW position,
           positions' = [positions EXCEPT ![p] = position],
           pool'.fee_per_liquidity = pool.fee_per_liquidity, FeesIntact(p)
    PROVE  AllFeesIntact
<1>1. \A q \in DOMAIN positions \ {p} : positions'[q] = positions[q]
    OBVIOUS
<1>2. \A q \in DOMAIN positions \ {p} : FeesIntact(q)
    BY <1>1 DEF FeesIntact
<1> QED
    BY <1>2 DEF AllFeesIntact

LEMMA SettledFeesIntact ==
    ASSUME TypeOK, CanUpdateRewards, rewards' = UpdatedRewards, NEW p \in DOMAIN positions,
           CanSettle(p), NEW position, positions' = [positions EXCEPT ![p] = position],
           position.fee_pending = Settled(p).fee_pending,
           position.fee_checkpoint = Settled(p).fee_checkpoint,
           pool'.fee_per_liquidity = pool.fee_per_liquidity
    PROVE  AllFeesIntact
<1>1. positions'[p] = position
    OBVIOUS
<1>2. FeesIntact(p)
    BY <1>1, SettledFees, SettledType DEF FeesIntact
<1> QED
    BY <1>2, OneFeesIntact

LEMMA AddLiquidityFees ==
    ASSUME TypeInv, NEW p \in PositionId, NEW delta \in Nat, NEW threshold,
           AddLiquidity(p, delta, threshold)
    PROVE  AllFeesIntact
<1>1. /\ TypeOK /\ CanUpdateRewards /\ rewards' = UpdatedRewards /\ p \in DOMAIN positions
      /\ CanSettle(p)
      /\ positions' = [positions EXCEPT ![p] = AddLiquidityTo(Settled(p), delta)]
    BY DEF TypeInv, AddLiquidity
<1>2. pool'.fee_per_liquidity = pool.fee_per_liquidity
    BY DEF TypeInv, TypeOK, PoolState, AddLiquidity
<1>3. Settled(p) \in PositionState
    BY <1>1, SettledType
<1>4. /\ AddLiquidityTo(Settled(p), delta).fee_pending = Settled(p).fee_pending
      /\ AddLiquidityTo(Settled(p), delta).fee_checkpoint = Settled(p).fee_checkpoint
    BY <1>3 DEF AddLiquidityTo, PositionState
<1> QED
    BY <1>1, <1>2, <1>4, SettledFeesIntact

LEMMA RemoveLiquidityFees ==
    ASSUME TypeInv, NEW p \in PositionId, NEW delta \in Nat, NEW threshold,
           RemoveLiquidity(p, delta, threshold)
    PROVE  AllFeesIntact
<1>1. /\ TypeOK /\ CanUpdateRewards /\ rewards' = UpdatedRewards /\ p \in DOMAIN positions
      /\ CanSettle(p)
      /\ positions' = [positions EXCEPT ![p] = RemoveUnlockedLiquidity(Settled(p), delta)]
    BY DEF TypeInv, RemoveLiquidity
<1>2. pool'.fee_per_liquidity = pool.fee_per_liquidity
    BY DEF TypeInv, TypeOK, PoolState, RemoveLiquidity
<1>3. Settled(p) \in PositionState
    BY <1>1, SettledType
<1>4. /\ RemoveUnlockedLiquidity(Settled(p), delta).fee_pending = Settled(p).fee_pending
      /\ RemoveUnlockedLiquidity(Settled(p), delta).fee_checkpoint = Settled(p).fee_checkpoint
    BY <1>3 DEF RemoveUnlockedLiquidity, PositionState
<1> QED
    BY <1>1, <1>2, <1>4, SettledFeesIntact

LEMMA LockPositionFees ==
    ASSUME TypeInv, NEW p \in PositionId, NEW v, NEW params \in VestingParameters,
           NEW cliff_point, LockPosition(p, v, params, cliff_point)
    PROVE  AllFeesIntact
<1> DEFINE amount == GetTotalLockAmount(params)
<1>1. /\ p \in DOMAIN positions /\ positions[p] \in PositionState
      /\ positions' = [positions EXCEPT ![p] = Lock(positions[p], amount)]
      /\ pool'.fee_per_liquidity = pool.fee_per_liquidity
    BY DEF TypeInv, TypeOK, LockPosition
<1>2. amount \in Nat
    BY TotalLockType DEF VestingParameters
<1> HIDE DEF amount
<1>3. positions'[p] = Lock(positions[p], amount)
    BY <1>1
<1>f. /\ positions'[p].fee_pending = positions[p].fee_pending
      /\ positions'[p].fee_checkpoint = positions[p].fee_checkpoint
    BY <1>1, <1>3 DEF Lock, PositionState
<1>l. GetTotalLiquidity(positions'[p]) = GetTotalLiquidity(positions[p])
    <2>1. /\ positions[p].unlocked_liquidity \in Int /\ positions[p].vested_liquidity \in Int
          /\ positions[p].permanent_locked_liquidity \in Int
        BY <1>1 DEF PositionState
    <2>2. /\ positions'[p].unlocked_liquidity = positions[p].unlocked_liquidity - amount
          /\ positions'[p].vested_liquidity = positions[p].vested_liquidity + amount
          /\ positions'[p].permanent_locked_liquidity
                = positions[p].permanent_locked_liquidity
        BY <1>1, <1>3 DEF Lock, PositionState
    <2> QED
        BY <1>2, <2>1, <2>2 DEF GetTotalLiquidity
<1>4. FeesIntact(p)
    BY <1>f, <1>l DEF FeesIntact
<1> QED
    BY <1>1, <1>4, OneFeesIntact DEF TypeInv

LEMMA RefreshVestingFees ==
    ASSUME TypeInv, NEW v \in VestingId, RefreshVesting(v)
    PROVE  AllFeesIntact
<1> DEFINE p == vestings[v].position
           amount == GetNewReleaseLiquidity(vestings[v], clock)
<1>1. /\ p \in DOMAIN positions /\ positions[p] \in PositionState
      /\ positions' = [positions EXCEPT ![p] = ReleaseVestedLiquidity(positions[p], amount)]
      /\ pool'.fee_per_liquidity = pool.fee_per_liquidity
    BY DEF TypeInv, TypeOK, RefreshVesting
<1>2. amount \in Int
    <2>1. vestings[v] \in VestingState
        BY DEF TypeInv, TypeOK, RefreshVesting
    <2>2. /\ GetMaxUnlockedLiquidity(vestings[v], clock) \in Nat
          /\ vestings[v].total_released_liquidity \in Nat
        BY <2>1, MaxUnlockedType DEF VestingState, TypeInv, TypeOK
    <2> QED
        BY <2>2 DEF GetNewReleaseLiquidity
<1> HIDE DEF amount, p
<1>3. positions'[p] = ReleaseVestedLiquidity(positions[p], amount)
    BY <1>1
<1>f. /\ positions'[p].fee_pending = positions[p].fee_pending
      /\ positions'[p].fee_checkpoint = positions[p].fee_checkpoint
    BY <1>1, <1>3 DEF ReleaseVestedLiquidity, PositionState
<1>l. GetTotalLiquidity(positions'[p]) = GetTotalLiquidity(positions[p])
    <2>1. /\ positions[p].unlocked_liquidity \in Int /\ positions[p].vested_liquidity \in Int
          /\ positions[p].permanent_locked_liquidity \in Int
        BY <1>1 DEF PositionState
    <2>2. /\ positions'[p].unlocked_liquidity = positions[p].unlocked_liquidity + amount
          /\ positions'[p].vested_liquidity = positions[p].vested_liquidity - amount
          /\ positions'[p].permanent_locked_liquidity
                = positions[p].permanent_locked_liquidity
        BY <1>1, <1>3 DEF ReleaseVestedLiquidity, PositionState
    <2> QED
        BY <1>2, <2>1, <2>2 DEF GetTotalLiquidity
<1>4. FeesIntact(p)
    BY <1>f, <1>l DEF FeesIntact
<1> QED
    BY <1>1, <1>4, OneFeesIntact DEF TypeInv

LEMMA PermanentLockFees ==
    ASSUME TypeInv, NEW p \in PositionId, NEW amount \in Nat, PermanentLockPosition(p, amount)
    PROVE  AllFeesIntact
<1>1. /\ p \in DOMAIN positions /\ positions[p] \in PositionState
      /\ positions' = [positions EXCEPT ![p] = PermanentLockLiquidity(positions[p], amount)]
      /\ pool'.fee_per_liquidity = pool.fee_per_liquidity
    BY DEF TypeInv, TypeOK, PoolState, PermanentLockPosition
<1>3. positions'[p] = PermanentLockLiquidity(positions[p], amount)
    BY <1>1
<1>f. /\ positions'[p].fee_pending = positions[p].fee_pending
      /\ positions'[p].fee_checkpoint = positions[p].fee_checkpoint
    BY <1>1, <1>3 DEF PermanentLockLiquidity, PositionState
<1>l. GetTotalLiquidity(positions'[p]) = GetTotalLiquidity(positions[p])
    <2>1. /\ positions[p].unlocked_liquidity \in Int /\ positions[p].vested_liquidity \in Int
          /\ positions[p].permanent_locked_liquidity \in Int
        BY <1>1 DEF PositionState
    <2>2. /\ positions'[p].unlocked_liquidity = positions[p].unlocked_liquidity - amount
          /\ positions'[p].vested_liquidity = positions[p].vested_liquidity
          /\ positions'[p].permanent_locked_liquidity
                = positions[p].permanent_locked_liquidity + amount
        BY <1>1, <1>3 DEF PermanentLockLiquidity, PositionState
    <2> QED
        BY <2>1, <2>2 DEF GetTotalLiquidity
<1>4. FeesIntact(p)
    BY <1>f, <1>l DEF FeesIntact
<1> QED
    BY <1>1, <1>4, OneFeesIntact DEF TypeInv

LEMMA ClaimRewardFees ==
    ASSUME TypeInv, NEW p \in PositionId, NEW i \in RewardIndex, NEW skip_reward,
           ClaimReward(p, i, skip_reward)
    PROVE  AllFeesIntact
<1> DEFINE updated == UpdatePositionReward(positions[p], rewards')
<1>1. /\ p \in DOMAIN positions /\ positions[p] \in PositionState
      /\ positions' = [positions EXCEPT ![p] = [updated EXCEPT !.reward_pending[i] = 0]]
      /\ pool'.fee_per_liquidity = pool.fee_per_liquidity
    BY DEF TypeInv, TypeOK, ClaimReward
<1>2. positions'[p] = [updated EXCEPT !.reward_pending[i] = 0]
    BY <1>1
<1>3. /\ positions'[p].fee_pending = positions[p].fee_pending
      /\ positions'[p].fee_checkpoint = positions[p].fee_checkpoint
      /\ GetTotalLiquidity(positions'[p]) = GetTotalLiquidity(positions[p])
    BY <1>1, <1>2 DEF UpdatePositionReward, PositionState, GetTotalLiquidity
<1>4. FeesIntact(p)
    BY <1>3 DEF FeesIntact
<1> QED
    BY <1>1, <1>4, OneFeesIntact DEF TypeInv

LEMMA ClaimFalls ==
    ASSUME TypeOK, TypeOK', CheckpointsBehind, NEW t \in Token, NEW q \in DOMAIN positions,
           q \in DOMAIN positions', pool'.fee_per_liquidity = pool.fee_per_liquidity, FeesIntact(q)
    PROVE  FeeClaim(positions'[q], pool'.fee_per_liquidity, t)
             <= FeeClaim(positions[q], pool.fee_per_liquidity, t)
<1> DEFINE fpl == pool.fee_per_liquidity
<1>1. /\ positions[q] \in PositionState /\ positions'[q] \in PositionState
      /\ fpl \in [Token -> Nat]
      /\ \A u \in Token : positions[q].fee_checkpoint[u] <= fpl[u]
    BY DEF TypeOK, PoolState, CheckpointsBehind
<1>2. /\ UpdateFee(positions[q], fpl).fee_pending[t] \in Nat
      /\ FeeClaim(positions[q], fpl, t) \in Nat
      /\ UpdateFee(positions[q], fpl).fee_pending[t] * LIQUIDITY_SCALE
            <= FeeClaim(positions[q], fpl, t)
    BY <1>1, UpdatedFees
<1>3. CASE /\ positions'[q].fee_pending = positions[q].fee_pending
           /\ positions'[q].fee_checkpoint = positions[q].fee_checkpoint
           /\ GetTotalLiquidity(positions'[q]) = GetTotalLiquidity(positions[q])
    <2>1. FeeClaim(positions'[q], fpl, t) = FeeClaim(positions[q], fpl, t)
        BY <1>3 DEF FeeClaim
    <2> QED
        BY <1>2, <2>1
<1>4. CASE /\ positions'[q].fee_pending = UpdateFee(positions[q], fpl).fee_pending
           /\ positions'[q].fee_checkpoint = fpl
    <2>1. FeeClaim(positions'[q], fpl, t) = positions'[q].fee_pending[t] * LIQUIDITY_SCALE
        BY <1>1, <1>4, ClaimOfSettled
    <2> QED
        BY <1>2, <1>4, <2>1
<1> QED
    BY <1>3, <1>4 DEF FeesIntact

ClaimsFall(t) ==
    /\ SumFunction(FeeClaims(t)) \in Int /\ SumFunction(FeeClaims(t)') \in Int
    /\ SumFunction(FeeClaims(t)') <= SumFunction(FeeClaims(t))

LEMMA ClaimsFallTogether ==
    ASSUME TypeOK, TypeOK', CheckpointsBehind, CheckpointsBehind',
           IsFiniteSet(DOMAIN positions), AllFeesIntact, NEW t \in Token
    PROVE  ClaimsFall(t)
<1>1. FeeClaims(t) \in [DOMAIN positions -> Int] /\ FeeClaims(t)' \in [DOMAIN positions -> Int]
    BY FeeClaimsType, FeeClaimsTypeNext DEF AllFeesIntact
<1>2. \A q \in DOMAIN positions : FeeClaims(t)'[q] <= FeeClaims(t)[q]
    BY ClaimFalls, FeeClaimsType, FeeClaimsTypeNext DEF AllFeesIntact
<1>3. \A w, v \in [DOMAIN positions -> Int] :
        (\A q \in DOMAIN positions : v[q] <= w[q]) =>
            /\ SumFunction(w) \in Int /\ SumFunction(v) \in Int
            /\ SumFunction(v) <= SumFunction(w)
    BY SumFunctionType, SumMonotone DEF SumFunction
<1> QED
    BY <1>1, <1>2, <1>3 DEF ClaimsFall

(* Steps that leave the reserve alone and no LP with more.                   *)
LEMMA SolventFrame ==
    ASSUME TypeInv, TypeInv', NEW t \in Token, Solvent(t), ClaimsFall(t),
           vault'[t] - pool'.protocol_fee[t] - pool'.partner_fee[t]
              = vault[t] - pool.protocol_fee[t] - pool.partner_fee[t],
           pool'.liquidity = pool.liquidity, pool'.sqrt_price = pool.sqrt_price
    PROVE  Solvent(t)'
<1>1. /\ vault[t] \in Int /\ vault'[t] \in Int
      /\ pool.protocol_fee[t] \in Int /\ pool'.protocol_fee[t] \in Int
      /\ pool.partner_fee[t] \in Int /\ pool'.partner_fee[t] \in Int
      /\ LIQUIDITY_SCALE \in Nat
    BY LiquidityScaleType DEF TypeInv, TypeOK, PoolState
<1>2. PICK reserve, fees \in Nat :
        /\ vault[t] = reserve + fees + pool.protocol_fee[t] + pool.partner_fee[t]
        /\ ReserveCovers(t, reserve, pool.liquidity, pool.sqrt_price)
        /\ SumFunction(FeeClaims(t)) <= fees * LIQUIDITY_SCALE
    BY DEF Solvent
<1>3. vault'[t] = reserve + fees + pool'.protocol_fee[t] + pool'.partner_fee[t]
    BY <1>1, <1>2
<1>4. fees * LIQUIDITY_SCALE \in Int
    BY <1>1
<1>5. SumFunction(FeeClaims(t)') <= fees * LIQUIDITY_SCALE
    BY <1>2, <1>4 DEF ClaimsFall
<1>6. ReserveCovers(t, reserve, pool'.liquidity, pool'.sqrt_price)
    BY <1>2
<1> QED
    BY <1>3, <1>5, <1>6 DEF Solvent

(* The pool and its vaults are as they were, but for the positions' fees.    *)
LEMMA SolventIntact ==
    ASSUME TypeInv, TypeInv', CheckpointsBehind, CheckpointsBehind', CountInv, SolvencyInv,
           AllFeesIntact, vault' = vault, pool'.protocol_fee = pool.protocol_fee,
           pool'.partner_fee = pool.partner_fee, pool'.liquidity = pool.liquidity,
           pool'.sqrt_price = pool.sqrt_price
    PROVE  SolvencyInv'
<1>1. \A t \in Token : ClaimsFall(t)
    BY ClaimsFallTogether DEF TypeInv, CountInv
<1> QED
    BY <1>1, SolventFrame DEF SolvencyInv

LEMMA ClaimOwnerFeesSolvent ==
    ASSUME TypeInv, TypeInv', CheckpointsBehind, CheckpointsBehind', CountInv, SolvencyInv,
           NEW max_amount \in [Token -> Nat],
           ClaimProtocolFee(max_amount) \/ ClaimPartnerFee(max_amount)
    PROVE  SolvencyInv'
<1>1. /\ positions' = positions /\ pool'.fee_per_liquidity = pool.fee_per_liquidity
      /\ pool'.liquidity = pool.liquidity /\ pool'.sqrt_price = pool.sqrt_price
    BY DEF TypeInv, TypeOK, PoolState, ClaimProtocolFee, ClaimPartnerFee
<1>2. AllFeesIntact
    BY <1>1 DEF AllFeesIntact, FeesIntact
<1>3. \A t \in Token : ClaimsFall(t)
    BY <1>2, ClaimsFallTogether DEF TypeInv, CountInv
<1>4. \A t \in Token :
        /\ vault[t] \in Int /\ vault'[t] \in Int
        /\ pool.protocol_fee[t] \in Int /\ pool'.protocol_fee[t] \in Int
        /\ pool.partner_fee[t] \in Int /\ pool'.partner_fee[t] \in Int
    BY DEF TypeInv, TypeOK, PoolState
<1>5. ASSUME NEW t \in Token
      PROVE  vault'[t] - pool'.protocol_fee[t] - pool'.partner_fee[t]
              = vault[t] - pool.protocol_fee[t] - pool.partner_fee[t]
    <2>1. CASE ClaimProtocolFee(max_amount)
        <3> DEFINE claimed == CapAt(pool.protocol_fee[t], max_amount[t])
        <3>1. /\ pool'.protocol_fee[t] = pool.protocol_fee[t] - claimed
              /\ vault'[t] = vault[t] - claimed /\ pool'.partner_fee[t] = pool.partner_fee[t]
            BY <2>1 DEF ClaimProtocolFee, Paid, TypeInv, TypeOK, PoolState
        <3> HIDE DEF claimed
        <3>2. claimed \in Int
            BY <1>4 DEF claimed, CapAt
        <3> QED
            BY <1>4, <3>1, <3>2
    <2>2. CASE ClaimPartnerFee(max_amount)
        <3> DEFINE claimed == CapAt(pool.partner_fee[t], max_amount[t])
        <3>1. /\ pool'.partner_fee[t] = pool.partner_fee[t] - claimed
              /\ vault'[t] = vault[t] - claimed /\ pool'.protocol_fee[t] = pool.protocol_fee[t]
            BY <2>2 DEF ClaimPartnerFee, Paid, TypeInv, TypeOK, PoolState
        <3> HIDE DEF claimed
        <3>2. claimed \in Int
            BY <1>4 DEF claimed, CapAt
        <3> QED
            BY <1>4, <3>1, <3>2
    <2> QED
        BY <2>1, <2>2
<1> QED
    BY <1>1, <1>3, <1>5, SolventFrame DEF SolvencyInv

LEMMA CreatePositionSolvent ==
    ASSUME TypeInv, TypeInv', CheckpointsBehind, CheckpointsBehind', CountInv, SolvencyInv,
           NEW p \in PositionId, CreatePosition(p)
    PROVE  SolvencyInv'
<1>1. /\ p \notin DOMAIN positions /\ DOMAIN positions' = DOMAIN positions \cup {p}
      /\ positions'[p] = NewPosition(0) /\ vault' = vault
      /\ \A q \in DOMAIN positions : positions'[q] = positions[q]
    BY DEF CreatePosition, Put
<1>2. /\ pool'.fee_per_liquidity = pool.fee_per_liquidity
      /\ pool'.protocol_fee = pool.protocol_fee /\ pool'.partner_fee = pool.partner_fee
      /\ pool'.liquidity = pool.liquidity /\ pool'.sqrt_price = pool.sqrt_price
    BY DEF CreatePosition, TypeInv, TypeOK, PoolState
<1>3. IsFiniteSet(DOMAIN positions) /\ TypeOK /\ TypeOK'
    BY DEF CountInv, TypeInv
<1>4. ASSUME NEW t \in Token PROVE ClaimsFall(t)
    <2>1. FeeClaims(t) \in [DOMAIN positions -> Int] /\ FeeClaims(t)' \in [DOMAIN positions' -> Int]
        BY <1>3, FeeClaimsType, FeeClaimsTypeNext
    <2>2. \A q \in DOMAIN positions : FeeClaims(t)'[q] = FeeClaims(t)[q]
        BY <1>1, <1>2, <1>3, FeeClaimsType, FeeClaimsTypeNext
    <2>3. FeeClaims(t)'[p] = 0
        <3>1. FeeClaims(t)'[p] = FeeClaim(NewPosition(0), pool'.fee_per_liquidity, t)
            BY <1>1, <1>3, FeeClaimsTypeNext
        <3>2. NewPosition(0).fee_pending[t] = 0 /\ GetTotalLiquidity(NewPosition(0)) = 0
            BY DEF NewPosition, GetTotalLiquidity
        <3>3. NewPosition(0).fee_checkpoint[t] = 0 /\ pool'.fee_per_liquidity[t] \in Nat
              /\ LIQUIDITY_SCALE \in Nat
            BY LiquidityScaleType DEF NewPosition, TypeInv, TypeOK, PoolState
        <3> QED
            BY <3>1, <3>2, <3>3 DEF FeeClaim
    <2>4. SumFunction(FeeClaims(t)') = SumFunction(FeeClaims(t)) + FeeClaims(t)'[p]
        <3>1. p \notin DOMAIN positions /\ DOMAIN positions' = DOMAIN positions \cup {p}
            BY <1>1
        <3> QED
            BY <1>3, <2>1, <2>2, <3>1, SumGrow
    <2>5. SumFunction(FeeClaims(t)) \in Int
        BY <1>3, <2>1, SumFunctionType
    <2> QED
        BY <2>3, <2>4, <2>5 DEF ClaimsFall
<1> QED
    BY <1>1, <1>2, <1>4, SolventFrame DEF SolvencyInv

LEMMA ClosePositionSolvent ==
    ASSUME TypeInv, TypeInv', CheckpointsBehind, CheckpointsBehind', CountInv, SolvencyInv,
           NEW p \in PositionId, ClosePosition(p)
    PROVE  SolvencyInv'
<1>1. /\ p \in DOMAIN positions /\ DOMAIN positions' = DOMAIN positions \ {p}
      /\ vault' = vault /\ \A q \in DOMAIN positions' : positions'[q] = positions[q]
    BY DEF ClosePosition, Drop
<1>2. /\ pool'.fee_per_liquidity = pool.fee_per_liquidity
      /\ pool'.protocol_fee = pool.protocol_fee /\ pool'.partner_fee = pool.partner_fee
      /\ pool'.liquidity = pool.liquidity /\ pool'.sqrt_price = pool.sqrt_price
    BY DEF ClosePosition, TypeInv, TypeOK, PoolState
<1>3. IsFiniteSet(DOMAIN positions) /\ TypeOK /\ TypeOK'
    BY DEF CountInv, TypeInv
<1>4. ASSUME NEW t \in Token PROVE ClaimsFall(t)
    <2>1. FeeClaims(t) \in [DOMAIN positions -> Int] /\ FeeClaims(t)' \in [DOMAIN positions' -> Int]
        BY <1>3, FeeClaimsType, FeeClaimsTypeNext
    <2>2. \A q \in DOMAIN positions' : FeeClaims(t)'[q] = FeeClaims(t)[q]
        BY <1>1, <1>2, <1>3, FeeClaimsType, FeeClaimsTypeNext
    <2>3. FeeClaims(t)[p] \in Nat
        BY <1>1, <1>3, FeeClaimsType
    <2>4. SumFunction(FeeClaims(t)') = SumFunction(FeeClaims(t)) - FeeClaims(t)[p]
        <3>1. p \in DOMAIN positions /\ DOMAIN positions' = DOMAIN positions \ {p}
            BY <1>1
        <3> QED
            BY <1>3, <2>1, <2>2, <3>1, SumShrink, Z3
    <2>5. SumFunction(FeeClaims(t)) \in Int
        BY <1>3, <2>1, SumFunctionType
    <2> QED
        BY <2>3, <2>4, <2>5 DEF ClaimsFall
<1> QED
    BY <1>1, <1>2, <1>4, SolventFrame DEF SolvencyInv

(* split_position: what the giver loses the receiver gets, and both were     *)
(* settled before.                                                           *)
LEMMA SplitFees ==
    ASSUME TypeInv, TypeInv', NEW p \in PositionId, NEW r \in PositionId,
           NEW numerators \in SplitParameters, SplitPosition(p, r, numerators)
    PROVE  /\ p \in DOMAIN positions /\ r \in DOMAIN positions /\ p # r
           /\ DOMAIN positions' = DOMAIN positions /\ vault' = vault /\ pool' = pool
           /\ \A q \in DOMAIN positions \ {p, r} : positions'[q] = positions[q]
           /\ positions'[p].fee_checkpoint = pool.fee_per_liquidity
           /\ positions'[r].fee_checkpoint = pool.fee_per_liquidity
           /\ \A t \in Token :
                 positions'[p].fee_pending[t] + positions'[r].fee_pending[t]
                    = UpdateFee(positions[p], pool.fee_per_liquidity).fee_pending[t]
                      + UpdateFee(positions[r], pool.fee_per_liquidity).fee_pending[t]
<1>1. /\ TypeOK /\ CanUpdateRewards /\ rewards' = UpdatedRewards /\ p # r
      /\ p \in DOMAIN positions /\ r \in DOMAIN positions /\ CanSettle(p) /\ CanSettle(r)
      /\ vault' = vault /\ pool' = pool
    BY DEF TypeInv, SplitPosition
<1>2. PICK share \in Shares :
        positions' = [positions EXCEPT ![p] = TakeShare(Settled(p), share),
                                       ![r] = GiveShare(Settled(r), share)]
    BY SplitComputes
<1>3. /\ DOMAIN positions' = DOMAIN positions
      /\ positions'[p] = TakeShare(Settled(p), share)
      /\ positions'[r] = GiveShare(Settled(r), share)
      /\ \A q \in DOMAIN positions \ {p, r} : positions'[q] = positions[q]
    BY <1>1, <1>2
<1>4. /\ Settled(p) \in PositionState /\ Settled(p).fee_checkpoint = pool.fee_per_liquidity
      /\ Settled(r) \in PositionState /\ Settled(r).fee_checkpoint = pool.fee_per_liquidity
      /\ Settled(p).fee_pending = UpdateFee(positions[p], pool.fee_per_liquidity).fee_pending
      /\ Settled(r).fee_pending = UpdateFee(positions[r], pool.fee_per_liquidity).fee_pending
    BY <1>1, SettledType, SettledFees
<1>5. /\ positions'[p].fee_checkpoint = pool.fee_per_liquidity
      /\ positions'[r].fee_checkpoint = pool.fee_per_liquidity
    BY <1>3, <1>4 DEF TakeShare, GiveShare, PositionState
<1>6. ASSUME NEW t \in Token
      PROVE  positions'[p].fee_pending[t] + positions'[r].fee_pending[t]
                = Settled(p).fee_pending[t] + Settled(r).fee_pending[t]
    <2>1. /\ Settled(p).fee_pending[t] \in Nat /\ Settled(r).fee_pending[t] \in Nat
          /\ share.fee[t] \in Nat
        BY <1>4 DEF PositionState, Shares
    <2>2. /\ positions'[p].fee_pending[t] = Settled(p).fee_pending[t] - share.fee[t]
          /\ positions'[r].fee_pending[t] = Settled(r).fee_pending[t] + share.fee[t]
        BY <1>3, <1>4 DEF TakeShare, GiveShare, PositionState
    <2> QED
        BY <2>1, <2>2
<1> QED
    BY <1>1, <1>3, <1>4, <1>5, <1>6

LEMMA SplitPositionSolvent ==
    ASSUME TypeInv, TypeInv', CheckpointsBehind, CheckpointsBehind', CountInv, SolvencyInv,
           NEW p \in PositionId, NEW r \in PositionId, NEW numerators \in SplitParameters,
           SplitPosition(p, r, numerators)
    PROVE  SolvencyInv'
<1> DEFINE fpl == pool.fee_per_liquidity
           S == LIQUIDITY_SCALE
           X(t) == UpdateFee(positions[p], fpl).fee_pending[t]
           Y(t) == UpdateFee(positions[r], fpl).fee_pending[t]
<1>1. /\ p \in DOMAIN positions /\ r \in DOMAIN positions /\ p # r
      /\ DOMAIN positions' = DOMAIN positions /\ vault' = vault /\ pool' = pool
      /\ \A q \in DOMAIN positions \ {p, r} : positions'[q] = positions[q]
      /\ positions'[p].fee_checkpoint = fpl /\ positions'[r].fee_checkpoint = fpl
      /\ \A t \in Token :
            positions'[p].fee_pending[t] + positions'[r].fee_pending[t] = X(t) + Y(t)
    BY SplitFees
<1>2. IsFiniteSet(DOMAIN positions) /\ TypeOK /\ TypeOK'
    BY DEF CountInv, TypeInv
<1>3. ASSUME NEW t \in Token PROVE ClaimsFall(t)
    <2>1. FeeClaims(t) \in [DOMAIN positions -> Int] /\ FeeClaims(t)' \in [DOMAIN positions -> Int]
        BY <1>1, <1>2, FeeClaimsType, FeeClaimsTypeNext
    <2>2. \A q \in DOMAIN positions \ {p, r} : FeeClaims(t)'[q] = FeeClaims(t)[q]
        BY <1>1, <1>2, FeeClaimsType, FeeClaimsTypeNext
    <2>3. /\ fpl \in [Token -> Nat] /\ S \in Nat
          /\ \A q \in {p, r} : /\ positions[q] \in PositionState /\ positions'[q] \in PositionState
                               /\ \A u \in Token : positions[q].fee_checkpoint[u] <= fpl[u]
        BY <1>1, <1>2, LiquidityScaleType DEF TypeOK, PoolState, CheckpointsBehind
    <2>4. /\ X(t) \in Nat /\ X(t) * S <= FeeClaims(t)[p]
          /\ Y(t) \in Nat /\ Y(t) * S <= FeeClaims(t)[r]
        BY <1>1, <1>2, <2>3, UpdatedFees, FeeClaimsType
    <2>5. /\ FeeClaims(t)'[p] = positions'[p].fee_pending[t] * S
          /\ FeeClaims(t)'[r] = positions'[r].fee_pending[t] * S
        BY <1>1, <1>2, <2>3, ClaimOfSettled, FeeClaimsTypeNext
    <2> HIDE DEF X, Y
    <2>6. positions'[p].fee_pending[t] \in Nat /\ positions'[r].fee_pending[t] \in Nat
        BY <2>3 DEF PositionState
    <2>7. FeeClaims(t)'[p] + FeeClaims(t)'[r] <= FeeClaims(t)[p] + FeeClaims(t)[r]
        <3> DEFINE x == positions'[p].fee_pending[t]
                   y == positions'[r].fee_pending[t]
        <3>1. x + y = X(t) + Y(t) /\ x \in Nat /\ y \in Nat
            BY <1>1, <2>6
        <3> HIDE DEF x, y, S
        <3>2. x * S + y * S = X(t) * S + Y(t) * S
            <4>1. x * S + y * S = (x + y) * S
                BY <2>3, <3>1
            <4>2. X(t) * S + Y(t) * S = (X(t) + Y(t)) * S
                BY <2>3, <2>4
            <4> QED BY <3>1, <4>1, <4>2
        <3>3. X(t) * S \in Int /\ Y(t) * S \in Int /\ FeeClaims(t)[p] \in Int
              /\ FeeClaims(t)[r] \in Int
            BY <1>1, <2>1, <2>3, <2>4
        <3> QED
            BY <2>4, <2>5, <3>2, <3>3 DEF x, y
    <2>8. SumFunction(FeeClaims(t)') = SumFunction(FeeClaims(t))
              + (FeeClaims(t)'[p] - FeeClaims(t)[p]) + (FeeClaims(t)'[r] - FeeClaims(t)[r])
        BY <1>1, <1>2, <2>1, <2>2, SumChangeTwo
    <2>9. SumFunction(FeeClaims(t)) \in Int
        BY <1>2, <2>1, SumFunctionType
    <2>10. /\ FeeClaims(t)[p] \in Int /\ FeeClaims(t)[r] \in Int
           /\ FeeClaims(t)'[p] \in Int /\ FeeClaims(t)'[r] \in Int
        BY <1>1, <2>1
    <2> QED
        BY <2>7, <2>8, <2>9, <2>10 DEF ClaimsFall
<1> QED
    BY <1>1, <1>3, SolventFrame DEF SolvencyInv

LEMMA ClaimPositionFeeSolvent ==
    ASSUME TypeInv, TypeInv', CheckpointsBehind, CheckpointsBehind', CountInv, SolvencyInv,
           NEW p \in PositionId, ClaimPositionFee(p)
    PROVE  SolvencyInv'
<1> DEFINE fpl == pool.fee_per_liquidity
           S == LIQUIDITY_SCALE
           updated == UpdateFee(positions[p], fpl)
<1>1. /\ p \in DOMAIN positions /\ pool' = pool /\ vault' = Paid(updated.fee_pending)
      /\ positions' = [positions EXCEPT ![p] = [updated EXCEPT !.fee_pending = NoTokens]]
    BY DEF ClaimPositionFee
<1>2. IsFiniteSet(DOMAIN positions) /\ TypeOK /\ TypeOK'
    BY DEF CountInv, TypeInv
<1>3. /\ positions[p] \in PositionState /\ fpl \in [Token -> Nat] /\ S \in Nat \ {0}
      /\ \A u \in Token : positions[p].fee_checkpoint[u] <= fpl[u]
      /\ positions'[p] \in PositionState
    BY <1>1, <1>2, LiquidityScaleType DEF TypeOK, PoolState, CheckpointsBehind
<1>4. /\ DOMAIN positions' = DOMAIN positions
      /\ \A q \in DOMAIN positions \ {p} : positions'[q] = positions[q]
      /\ positions'[p] = [updated EXCEPT !.fee_pending = NoTokens]
    BY <1>1
<1>5. positions'[p].fee_checkpoint = fpl /\ positions'[p].fee_pending = NoTokens
    BY <1>3, <1>4 DEF UpdateFee, PositionState
<1>6. ASSUME NEW t \in Token PROVE Solvent(t)'
    <2> DEFINE paid == updated.fee_pending[t]
    <2>1. paid \in Nat /\ paid * S <= FeeClaims(t)[p]
        BY <1>1, <1>2, <1>3, UpdatedFees, FeeClaimsType
    <2>2. vault'[t] = vault[t] - paid
        BY <1>1 DEF Paid
    <2> HIDE DEF updated
    <2>3. FeeClaims(t) \in [DOMAIN positions -> Int] /\ FeeClaims(t)' \in [DOMAIN positions -> Int]
        BY <1>2, <1>4, FeeClaimsType, FeeClaimsTypeNext
    <2>4. \A q \in DOMAIN positions \ {p} : FeeClaims(t)'[q] = FeeClaims(t)[q]
        BY <1>1, <1>2, <1>4, FeeClaimsType, FeeClaimsTypeNext
    <2>5. FeeClaims(t)'[p] = 0
        <3>1. FeeClaims(t)'[p] = positions'[p].fee_pending[t] * S
            BY <1>1, <1>2, <1>3, <1>4, <1>5, ClaimOfSettled, FeeClaimsTypeNext
        <3>2. positions'[p].fee_pending[t] = 0
            BY <1>5 DEF NoTokens
        <3> QED
            BY <1>3, <3>1, <3>2
    <2>6. SumFunction(FeeClaims(t)') = SumFunction(FeeClaims(t)) + FeeClaims(t)'[p] - FeeClaims(t)[p]
        BY <1>1, <1>2, <2>3, <2>4, SumChangeOne
    <2>7. SumFunction(FeeClaims(t)) \in Int /\ FeeClaims(t)[p] \in Nat
        BY <1>1, <1>2, <2>3, FeeClaimsType, SumFunctionType
    <2>8. FeeClaims(t)[p] <= SumFunction(FeeClaims(t))
        <3>1. \A q \in DOMAIN positions : FeeClaims(t)[q] \in Nat
            BY <1>2, FeeClaimsType
        <3> QED
            BY <1>1, <1>2, <2>3, <3>1, SumMember DEF SumFunction
    <2>9. PICK reserve, fees \in Nat :
            /\ vault[t] = reserve + fees + pool.protocol_fee[t] + pool.partner_fee[t]
            /\ ReserveCovers(t, reserve, pool.liquidity, pool.sqrt_price)
            /\ SumFunction(FeeClaims(t)) <= fees * S
        BY DEF SolvencyInv, Solvent
    <2>10. /\ pool.protocol_fee[t] \in Nat /\ pool.partner_fee[t] \in Nat
           /\ fees * S \in Int /\ paid * S \in Int /\ (fees - paid) * S = fees * S - paid * S
        BY <1>2, <1>3, <2>1 DEF TypeOK, PoolState
    <2>11. paid <= fees
        <3>1. S * paid <= S * fees
            <4>1. S * paid = paid * S /\ S * fees = fees * S
                BY <1>3, <2>1
            <4> QED BY <2>1, <2>7, <2>8, <2>9, <2>10, <4>1
        <3> QED BY <1>3, <2>1, <3>1, FactorDrops
    <2>12. /\ fees - paid \in Nat
           /\ vault'[t] = reserve + (fees - paid) + pool'.protocol_fee[t] + pool'.partner_fee[t]
        BY <1>1, <2>1, <2>2, <2>9, <2>10, <2>11
    <2>13. SumFunction(FeeClaims(t)') <= (fees - paid) * S
        BY <2>1, <2>5, <2>6, <2>7, <2>9, <2>10
    <2>14. ReserveCovers(t, reserve, pool'.liquidity, pool'.sqrt_price)
        BY <1>1, <2>9
    <2> QED
        BY <2>12, <2>13, <2>14 DEF Solvent
<1> QED
    BY <1>6 DEF SolvencyInv

LEMMA AddLiquiditySolvent ==
    ASSUME TypeInv, TypeInv', CheckpointsBehind, CheckpointsBehind', CountInv, SolvencyInv,
           NEW p \in PositionId, NEW delta \in Nat, NEW threshold,
           AddLiquidity(p, delta, threshold)
    PROVE  SolvencyInv'
<1> DEFINE S == LIQUIDITY_SCALE
<1>1. vault' = Received(GetAmountsUp(pool.sqrt_price, delta))
    BY DEF AddLiquidity
<1>2. /\ pool'.liquidity = pool.liquidity + delta /\ pool'.sqrt_price = pool.sqrt_price
      /\ pool'.protocol_fee = pool.protocol_fee /\ pool'.partner_fee = pool.partner_fee
    BY DEF AddLiquidity, TypeInv, TypeOK, PoolState
<1>3. IsFiniteSet(DOMAIN positions) /\ TypeOK /\ TypeOK'
    BY DEF CountInv, TypeInv
<1>4. AllFeesIntact
    BY AddLiquidityFees
<1>5. ASSUME NEW t \in Token PROVE Solvent(t)'
    <2>1. ClaimsFall(t)
        BY <1>3, <1>4, ClaimsFallTogether
    <2>2. PICK reserve, fees \in Nat :
            /\ vault[t] = reserve + fees + pool.protocol_fee[t] + pool.partner_fee[t]
            /\ ReserveCovers(t, reserve, pool.liquidity, pool.sqrt_price)
            /\ SumFunction(FeeClaims(t)) <= fees * S
        BY DEF SolvencyInv, Solvent
    <2> DEFINE amount == GetAmountsUp(pool.sqrt_price, delta)[t]
    <2>3. /\ pool.sqrt_price \in SqrtMinPrice .. SqrtMaxPrice /\ pool.liquidity \in Nat
          /\ pool.protocol_fee[t] \in Nat /\ pool.partner_fee[t] \in Nat /\ S \in Nat
        BY LiquidityScaleType DEF TypeInv, TypeOK, PoolState, PriceInRange
    <2>4. amount \in Nat /\ ReserveCovers(t, reserve + amount, pool.liquidity + delta, pool.sqrt_price)
        BY <2>2, <2>3, ReserveGrows
    <2>5. vault'[t] = vault[t] + amount
        BY <1>1 DEF Received
    <2> HIDE DEF amount
    <2>6. /\ reserve + amount \in Nat
          /\ vault'[t] = (reserve + amount) + fees + pool'.protocol_fee[t] + pool'.partner_fee[t]
        BY <1>2, <2>2, <2>3, <2>4, <2>5
    <2>7. SumFunction(FeeClaims(t)') <= fees * S
        <3>1. fees * S \in Int
            BY <2>3
        <3> QED BY <2>1, <2>2, <3>1 DEF ClaimsFall
    <2>8. ReserveCovers(t, reserve + amount, pool'.liquidity, pool'.sqrt_price)
        BY <1>2, <2>4
    <2> QED
        BY <2>6, <2>7, <2>8 DEF Solvent
<1> QED
    BY <1>5 DEF SolvencyInv

LEMMA RemoveLiquiditySolvent ==
    ASSUME TypeInv, TypeInv', CheckpointsBehind, CheckpointsBehind', CountInv, SolvencyInv,
           NEW p \in PositionId, NEW delta \in Nat, NEW threshold,
           RemoveLiquidity(p, delta, threshold)
    PROVE  SolvencyInv'
<1> DEFINE S == LIQUIDITY_SCALE
<1>1. vault' = Paid(GetAmountsDown(delta)) /\ delta <= pool.liquidity
    BY DEF RemoveLiquidity, TypeInv, TypeOK, PoolState
<1>2. /\ pool'.liquidity = pool.liquidity - delta /\ pool'.sqrt_price = pool.sqrt_price
      /\ pool'.protocol_fee = pool.protocol_fee /\ pool'.partner_fee = pool.partner_fee
    BY DEF RemoveLiquidity, TypeInv, TypeOK, PoolState
<1>3. IsFiniteSet(DOMAIN positions) /\ TypeOK /\ TypeOK'
    BY DEF CountInv, TypeInv
<1>4. AllFeesIntact
    BY RemoveLiquidityFees
<1>5. ASSUME NEW t \in Token PROVE Solvent(t)'
    <2>1. ClaimsFall(t)
        BY <1>3, <1>4, ClaimsFallTogether
    <2>2. PICK reserve, fees \in Nat :
            /\ vault[t] = reserve + fees + pool.protocol_fee[t] + pool.partner_fee[t]
            /\ ReserveCovers(t, reserve, pool.liquidity, pool.sqrt_price)
            /\ SumFunction(FeeClaims(t)) <= fees * S
        BY DEF SolvencyInv, Solvent
    <2> DEFINE amount == GetAmountsDown(delta)[t]
    <2>3. /\ pool.sqrt_price \in SqrtMinPrice .. SqrtMaxPrice /\ pool.liquidity \in Nat
          /\ pool.protocol_fee[t] \in Nat /\ pool.partner_fee[t] \in Nat /\ S \in Nat
        BY LiquidityScaleType DEF TypeInv, TypeOK, PoolState, PriceInRange
    <2>4. /\ amount \in Nat /\ reserve - amount \in Nat
          /\ ReserveCovers(t, reserve - amount, pool.liquidity - delta, pool.sqrt_price)
        BY <1>1, <2>2, <2>3, ReserveShrinks
    <2>5. vault'[t] = vault[t] - amount
        BY <1>1 DEF Paid
    <2> HIDE DEF amount
    <2>6. vault'[t] = (reserve - amount) + fees + pool'.protocol_fee[t] + pool'.partner_fee[t]
        BY <1>2, <2>2, <2>3, <2>4, <2>5
    <2>7. SumFunction(FeeClaims(t)') <= fees * S
        <3>1. fees * S \in Int
            BY <2>3
        <3> QED BY <2>1, <2>2, <3>1 DEF ClaimsFall
    <2>8. ReserveCovers(t, reserve - amount, pool'.liquidity, pool'.sqrt_price)
        BY <1>2, <2>4
    <2> QED
        BY <2>4, <2>6, <2>7, <2>8 DEF Solvent
<1> QED
    BY <1>5 DEF SolvencyInv

(* What one swap does to the pool and its vaults.                            *)
HasSwapped(a_for_b, result, flow_a, flow_b) ==
    LET N == result.next_sqrt_price
        fee(t, amount) == IF t = FeeToken(a_for_b) THEN amount ELSE 0
    IN  /\ N \in SqrtMinPrice .. SqrtMaxPrice
        /\ FlowsCover(pool.liquidity, pool.sqrt_price, N, flow_a, flow_b)
        /\ pool.liquidity > 0 /\ positions' = positions
        /\ pool'.liquidity = pool.liquidity /\ pool'.sqrt_price = N
        /\ \A t \in Token :
              /\ vault'[t] = vault[t] + (IF t = "a" THEN flow_a ELSE flow_b)
                                      + fee(t, KeptFees(result))
              /\ pool'.protocol_fee[t] = pool.protocol_fee[t] + fee(t, result.protocol_fee)
              /\ pool'.partner_fee[t] = pool.partner_fee[t] + fee(t, result.partner_fee)
              /\ pool'.fee_per_liquidity[t]
                    = pool.fee_per_liquidity[t]
                      + fee(t, MulDivDown(result.lp_fee, LIQUIDITY_SCALE, pool.liquidity))

LEMMA SwapEffect ==
    ASSUME TypeInv, NEW amount_in \in Nat, NEW a_for_b \in BOOLEAN, NEW has_referral \in BOOLEAN,
           NEW is_whitelisted_vault, NEW minimum_amount_out,
           Swap(amount_in, a_for_b, has_referral, is_whitelisted_vault, minimum_amount_out)
    PROVE  \E result \in SwapResults, flow_a, flow_b \in Int :
              HasSwapped(a_for_b, result, flow_a, flow_b)
<1> DEFINE dyn    == UpdatePreSwap(pool.dynamic, pool.sqrt_price, clock)
           result == GetSwapResult(pool.sqrt_price, pool.liquidity, dyn, amount_in, a_for_b,
                                   has_referral, clock)
           F == FeeToken(a_for_b)
           growth == MulDivDown(result.lp_fee, LIQUIDITY_SCALE, pool.liquidity)
<1>1. /\ pool.dynamic \in DynamicFeeState /\ clock \in Nat
      /\ pool.sqrt_price \in Nat \ {0} /\ pool.liquidity \in Nat \ {0}
      /\ pool \in PoolState /\ vault \in [Token -> Nat]
      /\ pool.sqrt_price \in SqrtMinPrice .. SqrtMaxPrice
    <2>1. pool.liquidity > 0
        BY DEF Swap
    <2> QED
        BY <2>1, SwapInputTypes DEF TypeInv, TypeOK, PriceInRange
<1>2. dyn \in DynamicFeeState
    BY <1>1, PreSwapType
<1>3. /\ PriceAfterIsValid(result.next_sqrt_price, a_for_b)
      /\ pool' = ApplySwapResult(dyn, result, a_for_b)
      /\ vault' = SwapTransfers(amount_in, result, a_for_b)
      /\ positions' = positions
    BY DEF Swap
<1> HIDE DEF dyn
<1>4. /\ result \in SwapResults
      /\ IF a_for_b THEN result.next_sqrt_price <= pool.sqrt_price
                    ELSE result.next_sqrt_price >= pool.sqrt_price
    BY <1>1, <1>2, SwapResultType
<1>5. PICK flow_a, flow_b \in Int :
        /\ FlowsCover(pool.liquidity, pool.sqrt_price, result.next_sqrt_price, flow_a, flow_b)
        /\ GainA(amount_in, result, a_for_b)
              = flow_a + (IF FeeToken(a_for_b) = "a" THEN KeptFees(result) ELSE 0)
        /\ GainB(amount_in, result, a_for_b)
              = flow_b + (IF FeeToken(a_for_b) = "b" THEN KeptFees(result) ELSE 0)
    <2>1. GainsCover(pool.liquidity, pool.sqrt_price, amount_in, result, a_for_b)
        BY <1>1, <1>2, SwapCoversCurve
    <2> HIDE DEF result
    <2> QED
        BY <2>1 DEF GainsCover
<1> HIDE DEF result
<1>6. result.next_sqrt_price \in SqrtMinPrice .. SqrtMaxPrice
    <2>1. result.next_sqrt_price \in Nat
        BY <1>4 DEF SwapResults
    <2> QED
        BY <1>1, <1>3, <1>4, <2>1, PriceStaysInRange
<1>7. F \in Token /\ Token = {"a", "b"} /\ "a" # "b"
    BY DEF F, FeeToken, Token
<1>8. /\ pool'.liquidity = pool.liquidity /\ pool'.sqrt_price = result.next_sqrt_price
      /\ \A t \in Token :
            /\ pool'.protocol_fee[t] = pool.protocol_fee[t]
                                       + (IF t = F THEN result.protocol_fee ELSE 0)
            /\ pool'.partner_fee[t] = pool.partner_fee[t]
                                      + (IF t = F THEN result.partner_fee ELSE 0)
            /\ pool'.fee_per_liquidity[t] = pool.fee_per_liquidity[t]
                                            + (IF t = F THEN growth ELSE 0)
    <2>1. /\ pool'.liquidity = pool.liquidity /\ pool'.sqrt_price = result.next_sqrt_price
          /\ pool'.protocol_fee = [pool.protocol_fee EXCEPT ![F] = @ + result.protocol_fee]
          /\ pool'.partner_fee = [pool.partner_fee EXCEPT ![F] = @ + result.partner_fee]
          /\ pool'.fee_per_liquidity = [pool.fee_per_liquidity EXCEPT ![F] = @ + growth]
        BY <1>1, <1>3 DEF ApplySwapResult, PoolState
    <2>2. \A t \in Token : pool.protocol_fee[t] \in Int /\ pool.partner_fee[t] \in Int
                           /\ pool.fee_per_liquidity[t] \in Int
        BY <1>1 DEF PoolState
    <2>3. /\ DOMAIN pool.protocol_fee = Token /\ DOMAIN pool.partner_fee = Token
          /\ DOMAIN pool.fee_per_liquidity = Token
        BY <1>1 DEF PoolState
    <2> HIDE DEF F, growth
    <2> QED
        BY <1>7, <2>1, <2>2, <2>3
<1>9. /\ vault'["a"] = vault["a"] + GainA(amount_in, result, a_for_b)
      /\ vault'["b"] = vault["b"] + GainB(amount_in, result, a_for_b)
    <2>1. /\ result.output_amount \in Int /\ result.referral_fee \in Int
          /\ vault["a"] \in Int /\ vault["b"] \in Int
        BY <1>1, <1>4, <1>7 DEF SwapResults
    <2>2. CASE a_for_b
        <3>1. a_for_b = TRUE
            BY <2>2
        <3>2. /\ vault'["a"] = vault["a"] + amount_in
                    - (0 + (IF "a" = FeeToken(a_for_b) THEN result.referral_fee ELSE 0))
              /\ vault'["b"] = vault["b"] + 0
                    - (result.output_amount
                       + (IF "b" = FeeToken(a_for_b) THEN result.referral_fee ELSE 0))
            BY <1>3, <1>7, <3>1 DEF SwapTransfers
        <3>3. GainA(amount_in, result, a_for_b)
                = amount_in - (IF FeeToken(a_for_b) = "a" THEN result.referral_fee ELSE 0)
            BY <3>1 DEF GainA
        <3>4. GainB(amount_in, result, a_for_b)
                = - result.output_amount
                  - (IF FeeToken(a_for_b) = "b" THEN result.referral_fee ELSE 0)
            BY <3>1 DEF GainB
        <3> QED
            BY <2>1, <3>2, <3>3, <3>4
    <2>3. CASE ~a_for_b
        <3>2. /\ vault'["a"] = vault["a"] + 0
                    - (result.output_amount
                       + (IF "a" = FeeToken(a_for_b) THEN result.referral_fee ELSE 0))
              /\ vault'["b"] = vault["b"] + amount_in
                    - (0 + (IF "b" = FeeToken(a_for_b) THEN result.referral_fee ELSE 0))
            BY <1>3, <1>7, <2>3 DEF SwapTransfers
        <3> QED
            BY <2>1, <2>3, <3>2 DEF GainA, GainB
    <2> QED
        BY <2>2, <2>3
<1>10. \A t \in Token :
        vault'[t] = vault[t] + (IF t = "a" THEN flow_a ELSE flow_b)
                             + (IF t = F THEN KeptFees(result) ELSE 0)
    <2>1. KeptFees(result) \in Int /\ vault["a"] \in Int /\ vault["b"] \in Int
        BY <1>1, <1>4, <1>7 DEF SwapResults, KeptFees
    <2>2. F \in {"a", "b"}
        BY <1>7
    <2>3. /\ GainA(amount_in, result, a_for_b) = flow_a + (IF F = "a" THEN KeptFees(result) ELSE 0)
          /\ GainB(amount_in, result, a_for_b) = flow_b + (IF F = "b" THEN KeptFees(result) ELSE 0)
        BY <1>5
    <2> HIDE DEF F
    <2>4. /\ vault'["a"] = vault["a"] + flow_a + (IF "a" = F THEN KeptFees(result) ELSE 0)
          /\ vault'["b"] = vault["b"] + flow_b + (IF "b" = F THEN KeptFees(result) ELSE 0)
        BY <1>5, <1>9, <2>1, <2>2, <2>3
    <2> QED
        BY <1>7, <2>4
<1>11. HasSwapped(a_for_b, result, flow_a, flow_b)
    BY <1>1, <1>3, <1>4, <1>5, <1>6, <1>8, <1>10 DEF HasSwapped
<1> QED
    BY <1>4, <1>5, <1>11

(* A swap's LP fee, spread over all liquidity and rounded down, adds at most *)
(* the fee to what LPs may claim together.                                   *)
LEMMA ClaimsGrowByFee ==
    ASSUME TypeInv, TypeInv', CheckpointsBehind, CheckpointsBehind', CountInv, OwnedInv,
           positions' = positions, NEW t \in Token, NEW growth \in Nat,
           pool'.fee_per_liquidity[t] = pool.fee_per_liquidity[t] + growth
    PROVE  /\ SumFunction(FeeClaims(t)) \in Int
           /\ SumFunction(FeeClaims(t)') = growth * pool.liquidity + SumFunction(FeeClaims(t))
<1>1. IsFiniteSet(DOMAIN positions) /\ TypeOK /\ TypeOK'
    BY DEF CountInv, TypeInv
<1>2. FeeClaims(t) \in [DOMAIN positions -> Int] /\ FeeClaims(t)' \in [DOMAIN positions -> Int]
    BY <1>1, FeeClaimsType, FeeClaimsTypeNext
<1>3. Held \in [DOMAIN positions -> Int]
    BY <1>1, HeldType
<1>4. \A p \in DOMAIN positions : FeeClaims(t)'[p] = growth * Held[p] + FeeClaims(t)[p]
    <2> TAKE p \in DOMAIN positions
    <2> DEFINE liquidity == GetTotalLiquidity(positions[p])
               pending == positions[p].fee_pending[t]
               checkpoint == positions[p].fee_checkpoint[t]
               fpl == pool.fee_per_liquidity[t]
    <2>1. /\ liquidity \in Nat /\ pending \in Nat /\ checkpoint \in Nat /\ fpl \in Nat
          /\ LIQUIDITY_SCALE \in Nat
        BY <1>1, TotalLiquidityType, LiquidityScaleType DEF TypeOK, PoolState, PositionState
    <2>2. FeeClaims(t)[p] = pending * LIQUIDITY_SCALE + liquidity * (fpl - checkpoint)
        BY <1>1, FeeClaimsType DEF FeeClaim
    <2>3. FeeClaims(t)'[p] = pending * LIQUIDITY_SCALE + liquidity * ((fpl + growth) - checkpoint)
        BY <1>1, FeeClaimsTypeNext DEF FeeClaim
    <2>4. Held[p] = liquidity
        BY DEF Held
    <2> HIDE DEF liquidity, pending, checkpoint, fpl
    <2>5. liquidity * ((fpl + growth) - checkpoint)
            = liquidity * (fpl - checkpoint) + growth * liquidity
        BY <2>1
    <2>6. /\ pending * LIQUIDITY_SCALE \in Int /\ liquidity * (fpl - checkpoint) \in Int
          /\ growth * liquidity \in Int
        BY <2>1
    <2> QED
        BY <2>2, <2>3, <2>4, <2>5, <2>6
<1>5. pool.liquidity = SumFunction(Held)
    BY DEF OwnedInv, LiquidityIsOwned, Held
<1>6. \A f, g, h \in [DOMAIN positions -> Int] :
        (\A p \in DOMAIN positions : h[p] = growth * f[p] + g[p]) =>
            SumFunction(h) = growth * SumFunction(f) + SumFunction(g)
    <2> TAKE f, g, h \in [DOMAIN positions -> Int]
    <2> HAVE \A p \in DOMAIN positions : h[p] = growth * f[p] + g[p]
    <2>1. \A p \in DOMAIN positions :
            f[p] \in Int /\ g[p] \in Int /\ h[p] = growth * f[p] + g[p]
        OBVIOUS
    <2>2. SumFunctionOnSet(h, DOMAIN positions)
            = growth * SumFunctionOnSet(f, DOMAIN positions)
              + SumFunctionOnSet(g, DOMAIN positions)
        BY <1>1, <2>1, SumLinear
    <2> QED
        BY <2>2 DEF SumFunction
<1>7. SumFunction(FeeClaims(t)') = growth * SumFunction(Held) + SumFunction(FeeClaims(t))
    BY <1>2, <1>3, <1>4, <1>6
<1> QED
    BY <1>1, <1>2, <1>5, <1>7, SumFunctionType

LEMMA SwapSolvent ==
    ASSUME TypeInv, TypeInv', CheckpointsBehind, CheckpointsBehind', CountInv, OwnedInv,
           SolvencyInv,
           NEW amount_in \in Nat, NEW a_for_b \in BOOLEAN, NEW has_referral \in BOOLEAN,
           NEW is_whitelisted_vault, NEW minimum_amount_out,
           Swap(amount_in, a_for_b, has_referral, is_whitelisted_vault, minimum_amount_out)
    PROVE  SolvencyInv'
<1> DEFINE S == LIQUIDITY_SCALE
           L == pool.liquidity
           P == pool.sqrt_price
           fee(t, amount) == IF t = FeeToken(a_for_b) THEN amount ELSE 0
<1>1. PICK result \in SwapResults, flow_a \in Int, flow_b \in Int :
        HasSwapped(a_for_b, result, flow_a, flow_b)
    BY SwapEffect
<1> DEFINE N == result.next_sqrt_price
           growth == MulDivDown(result.lp_fee, S, L)
<1>2. /\ N \in SqrtMinPrice .. SqrtMaxPrice
      /\ FlowsCover(L, P, N, flow_a, flow_b)
      /\ L > 0 /\ positions' = positions
      /\ pool'.liquidity = L /\ pool'.sqrt_price = N
      /\ \A t \in Token :
            /\ vault'[t] = vault[t] + (IF t = "a" THEN flow_a ELSE flow_b)
                                    + fee(t, KeptFees(result))
            /\ pool'.protocol_fee[t] = pool.protocol_fee[t] + fee(t, result.protocol_fee)
            /\ pool'.partner_fee[t] = pool.partner_fee[t] + fee(t, result.partner_fee)
            /\ pool'.fee_per_liquidity[t] = pool.fee_per_liquidity[t] + fee(t, growth)
    BY <1>1 DEF HasSwapped
<1>3. /\ S \in Nat \ {0} /\ L \in Nat \ {0} /\ P \in SqrtMinPrice .. SqrtMaxPrice
      /\ result.lp_fee \in Nat /\ result.protocol_fee \in Nat /\ result.partner_fee \in Nat
    BY <1>2, LiquidityScaleType DEF TypeInv, TypeOK, PoolState, PriceInRange, SwapResults
<1>4. growth \in Nat /\ growth * L <= result.lp_fee * S
    BY <1>3, MulDivDownType, MulDivDownCovered
<1> HIDE DEF N, growth, S
<1>5. ASSUME NEW t \in Token PROVE Solvent(t)'
    <2> DEFINE flow == IF t = "a" THEN flow_a ELSE flow_b
               lp == fee(t, result.lp_fee)
               grown == fee(t, growth)
    <2>1. PICK reserve, fees \in Nat :
            /\ vault[t] = reserve + fees + pool.protocol_fee[t] + pool.partner_fee[t]
            /\ ReserveCovers(t, reserve, L, P)
            /\ SumFunction(FeeClaims(t)) <= fees * S
        BY DEF SolvencyInv, Solvent, S
    <2>2. reserve + flow \in Nat /\ ReserveCovers(t, reserve + flow, L, N)
        <3>1. CASE t = "a"
            BY <1>2, <1>3, <2>1, <3>1, ReserveAMoves DEF FlowsCover
        <3>2. CASE t = "b"
            BY <1>2, <1>3, <2>1, <3>2, ReserveBMoves DEF FlowsCover
        <3> QED
            BY <3>1, <3>2 DEF Token
    <2>3. /\ lp \in Nat /\ grown \in Nat /\ grown * L <= lp * S
        <3>1. 0 * L = 0 /\ 0 * S = 0
            BY <1>3
        <3>2. CASE t = FeeToken(a_for_b)
            BY <1>3, <1>4, <3>2
        <3>3. CASE t # FeeToken(a_for_b)
            BY <3>1, <3>3
        <3> QED
            BY <3>2, <3>3
    <2>4. vault'[t] = (reserve + flow) + (fees + lp) + pool'.protocol_fee[t] + pool'.partner_fee[t]
        <3>1. /\ vault'[t] = vault[t] + flow + fee(t, KeptFees(result))
              /\ pool'.protocol_fee[t] = pool.protocol_fee[t] + fee(t, result.protocol_fee)
              /\ pool'.partner_fee[t] = pool.partner_fee[t] + fee(t, result.partner_fee)
            BY <1>2
        <3>2. fee(t, KeptFees(result)) = lp + fee(t, result.protocol_fee) + fee(t, result.partner_fee)
            BY <1>3 DEF KeptFees
        <3>3. /\ fee(t, result.protocol_fee) \in Int /\ fee(t, result.partner_fee) \in Int
              /\ flow \in Int /\ lp \in Int
              /\ pool.protocol_fee[t] \in Int /\ pool.partner_fee[t] \in Int
            BY <1>2, <1>3 DEF TypeInv, TypeOK, PoolState
        <3> HIDE DEF fee, flow, lp
        <3> QED
            BY <2>1, <3>1, <3>2, <3>3
    <2>5. pool'.fee_per_liquidity[t] = pool.fee_per_liquidity[t] + grown
        BY <1>2
    <2> HIDE DEF flow, lp, grown, fee
    <2>6. /\ SumFunction(FeeClaims(t)) \in Int
          /\ SumFunction(FeeClaims(t)') = grown * L + SumFunction(FeeClaims(t))
        BY <1>2, <2>3, <2>5, ClaimsGrowByFee
    <2>7. SumFunction(FeeClaims(t)') <= (fees + lp) * S
        <3>1. (fees + lp) * S = fees * S + lp * S /\ fees * S \in Int /\ lp * S \in Int
              /\ grown * L \in Int
            BY <1>3, <2>3
        <3> QED
            BY <2>1, <2>3, <2>6, <3>1
    <2>8. fees + lp \in Nat
        BY <2>3
    <2>9. ReserveCovers(t, reserve + flow, pool'.liquidity, pool'.sqrt_price)
        BY <1>2, <2>2
    <2> QED
        BY <2>2, <2>4, <2>7, <2>8, <2>9 DEF Solvent, S
<1> QED
    BY <1>5 DEF SolvencyInv

LEMMA InitSolvent == Init => SolvencyInv
<1> SUFFICES ASSUME NEW p \in PositionId, NEW sqrt_price \in InitialSqrtPrices,
                    NEW liquidity \in LiquidityDeltas, InitializePool(p, sqrt_price, liquidity)
             PROVE  SolvencyInv
    BY DEF Init
<1>1. liquidity \in Nat /\ sqrt_price \in SqrtMinPrice .. SqrtMaxPrice
    BY InputTypes, CpAmmAssumption
<1>2. /\ DOMAIN positions = {p} /\ positions[p] = NewPosition(liquidity)
      /\ pool.liquidity = liquidity /\ pool.sqrt_price = sqrt_price
      /\ pool.fee_per_liquidity = NoTokens
      /\ pool.protocol_fee = NoTokens /\ pool.partner_fee = NoTokens
      /\ vault \in InitialVaults(GetAmountsUp(sqrt_price, liquidity))
    BY DEF InitializePool
<1>3. ASSUME NEW t \in Token PROVE Solvent(t)
    <2>1. /\ NewPosition(liquidity).fee_pending[t] = 0
          /\ NewPosition(liquidity).fee_checkpoint[t] = 0 /\ NoTokens[t] = 0
          /\ GetTotalLiquidity(NewPosition(liquidity)) = liquidity
        BY <1>1 DEF NewPosition, GetTotalLiquidity, NoTokens
    <2>2. LIQUIDITY_SCALE \in Nat
        BY LiquidityScaleType
    <2>3. FeeClaim(NewPosition(liquidity), NoTokens, t) = 0
        BY <1>1, <2>1, <2>2 DEF FeeClaim
    <2>4. DOMAIN FeeClaims(t) = {p} /\ FeeClaims(t)[p] = 0
        BY <1>2, <2>3 DEF FeeClaims
    <2>5. SumFunction(FeeClaims(t)) = 0
        <3>1. FeeClaims(t)[p] \in Int
            BY <2>4
        <3> QED
            BY <2>4, <3>1, SumOfOne DEF SumFunction
    <2> DEFINE amount == GetAmountsUp(sqrt_price, liquidity)[t]
    <2>6. amount \in Nat /\ ReserveCovers(t, 0 + amount, 0 + liquidity, sqrt_price)
        <3>1. ReserveCovers(t, 0, 0, sqrt_price)
            BY <1>1, UnitType DEF ReserveCovers
        <3> QED
            BY <1>1, <3>1, ReserveGrows
    <2> DEFINE extra == vault[t] - amount
    <2>7. vault[t] \in Nat /\ extra \in Nat
        <3>1. vault[t] = amount \/ (amount = 0 /\ vault[t] = 1)
            BY <1>2 DEF InitialVaults
        <3> QED
            BY <2>6, <3>1
    <2> HIDE DEF amount
    <2>8. vault[t] = amount + extra
        BY <2>6, <2>7
    <2> HIDE DEF extra
    <2>9. /\ vault[t] = amount + extra + pool.protocol_fee[t] + pool.partner_fee[t]
          /\ ReserveCovers(t, amount, pool.liquidity, pool.sqrt_price)
        BY <1>1, <1>2, <2>1, <2>6, <2>7, <2>8
    <2>10. SumFunction(FeeClaims(t)) <= extra * LIQUIDITY_SCALE
        BY <2>2, <2>5, <2>7
    <2> QED
        BY <2>6, <2>7, <2>9, <2>10 DEF Solvent
<1> QED
    BY <1>3 DEF SolvencyInv

LEMMA SolvencyStep ==
    ASSUME TypeInv, TypeInv', CheckpointsBehind, CheckpointsBehind', CountInv, OwnedInv,
           SolvencyInv, [Next]_vars
    PROVE  SolvencyInv'
<1>1. ASSUME AllFeesIntact, vault' = vault, pool'.protocol_fee = pool.protocol_fee,
             pool'.partner_fee = pool.partner_fee, pool'.liquidity = pool.liquidity,
             pool'.sqrt_price = pool.sqrt_price
      PROVE  SolvencyInv'
    BY <1>1, SolventIntact
<1>2. ASSUME positions' = positions, vault' = vault,
             pool' = pool \/ pool' = [pool EXCEPT !.enabled = ~@]
      PROVE  SolvencyInv'
    <2>1. /\ pool'.fee_per_liquidity = pool.fee_per_liquidity
          /\ pool'.protocol_fee = pool.protocol_fee /\ pool'.partner_fee = pool.partner_fee
          /\ pool'.liquidity = pool.liquidity /\ pool'.sqrt_price = pool.sqrt_price
        BY <1>2 DEF TypeInv, TypeOK, PoolState
    <2>2. AllFeesIntact
        BY <1>2, <2>1 DEF AllFeesIntact, FeesIntact
    <2> QED
        BY <1>1, <1>2, <2>1, <2>2
<1>3. CASE UNCHANGED vars \/ Tick \/ SetPoolStatus
    BY <1>2, <1>3 DEF vars, Tick, SetPoolStatus
<1>4. CASE RewardInstruction
    <2>1. ASSUME NEW i \in RewardIndex, NEW p \in PositionId, NEW skip_reward,
                 ClaimReward(p, i, skip_reward)
          PROVE  SolvencyInv'
        <3>1. AllFeesIntact
            BY <2>1, ClaimRewardFees
        <3>2. pool' = pool /\ vault' = vault
            BY <2>1 DEF ClaimReward
        <3> QED
            BY <1>1, <3>1, <3>2
    <2>2. \/ positions' = positions /\ vault' = vault /\ pool' = pool
          \/ \E i \in RewardIndex, p \in PositionId : \E skip_reward : ClaimReward(p, i, skip_reward)
        BY <1>4 DEF RewardInstruction, InitializeReward, FundReward, WithdrawIneligibleReward,
                    UpdateRewardDuration, UpdateRewardFunder, FreezeRewardVault
    <2> QED
        BY <1>2, <2>1, <2>2
<1>5. CASE PositionInstruction
    <2>1. PICK p \in PositionId :
            \/ CreatePosition(p)
            \/ ClosePosition(p)
            \/ ClaimPositionFee(p)
            \/ \E delta \in Nat : \E threshold : AddLiquidity(p, delta, threshold)
            \/ \E delta \in Nat : \E threshold : RemoveLiquidity(p, delta, threshold)
        BY <1>5, PositionInstructionCases
    <2>2. CASE CreatePosition(p)
        BY <2>2, CreatePositionSolvent
    <2>3. CASE ClosePosition(p)
        BY <2>3, ClosePositionSolvent
    <2>4. CASE ClaimPositionFee(p)
        BY <2>4, ClaimPositionFeeSolvent
    <2>5. CASE \E delta \in Nat : \E threshold : AddLiquidity(p, delta, threshold)
        BY <2>5, AddLiquiditySolvent
    <2>6. CASE \E delta \in Nat : \E threshold : RemoveLiquidity(p, delta, threshold)
        BY <2>6, RemoveLiquiditySolvent
    <2> QED
        BY <2>1, <2>2, <2>3, <2>4, <2>5, <2>6
<1>6. ASSUME NEW p \in PositionId, NEW v \in VestingId, NEW params \in VestingParameterInputs,
             NEW cliff_point, LockPosition(p, v, params, cliff_point)
      PROVE  SolvencyInv'
    <2>1. AllFeesIntact
        BY <1>6, InputTypes, LockPositionFees
    <2>2. pool' = pool /\ vault' = vault
        BY <1>6 DEF LockPosition
    <2> QED
        BY <1>1, <2>1, <2>2
<1>7. ASSUME NEW v \in VestingId, RefreshVesting(v)
      PROVE  SolvencyInv'
    <2>1. AllFeesIntact
        BY <1>7, RefreshVestingFees
    <2>2. pool' = pool /\ vault' = vault
        BY <1>7 DEF RefreshVesting
    <2> QED
        BY <1>1, <2>1, <2>2
<1>8. ASSUME NEW p \in PositionId, NEW amount \in PermanentLockAmounts,
             PermanentLockPosition(p, amount)
      PROVE  SolvencyInv'
    <2>1. AllFeesIntact
        BY <1>8, InputTypes, PermanentLockFees
    <2>2. /\ pool'.protocol_fee = pool.protocol_fee /\ pool'.partner_fee = pool.partner_fee
          /\ pool'.liquidity = pool.liquidity /\ pool'.sqrt_price = pool.sqrt_price
          /\ vault' = vault
        BY <1>8 DEF PermanentLockPosition, TypeInv, TypeOK, PoolState
    <2> QED
        BY <1>1, <2>1, <2>2
<1>9. ASSUME NEW first \in PositionId, NEW second \in PositionId,
             NEW numerators \in SplitNumerators, SplitPosition(first, second, numerators)
      PROVE  SolvencyInv'
    BY <1>9, InputTypes, SplitPositionSolvent
<1>10. CASE LockInstruction
    BY <1>6, <1>7, <1>8, <1>9, <1>10 DEF LockInstruction
<1>11. CASE TradeInstruction
    <2>1. ASSUME NEW amount_in \in SwapAmounts, NEW a_for_b \in BOOLEAN,
                 NEW has_referral \in BOOLEAN, NEW is_whitelisted_vault, NEW minimum_amount_out,
                 Swap(amount_in, a_for_b, has_referral, is_whitelisted_vault, minimum_amount_out)
          PROVE  SolvencyInv'
        <3>1. amount_in \in Nat
            BY InputTypes
        <3> QED
            BY <2>1, <3>1, SwapSolvent
    <2>2. ASSUME NEW max_amount \in [Token -> MaxFeeClaims],
                 ClaimProtocolFee(max_amount) \/ ClaimPartnerFee(max_amount)
          PROVE  SolvencyInv'
        <3>1. max_amount \in [Token -> Nat]
            BY CpAmmAssumption
        <3> QED
            BY <2>2, <3>1, ClaimOwnerFeesSolvent
    <2> QED
        BY <1>11, <2>1, <2>2 DEF TradeInstruction
<1> QED
    BY <1>3, <1>4, <1>5, <1>10, <1>11 DEF Next, Instruction

LEMMA SolvencyInvariance == Spec => []SolvencyInv
<1>1. /\ TypeInv /\ TypeInv' /\ CheckpointsBehind /\ CheckpointsBehind' /\ CountInv
      /\ OwnedInv /\ SolvencyInv /\ [Next]_vars
      => SolvencyInv'
    BY SolvencyStep
<1> QED
    BY <1>1, InitSolvent, TypeInvariance, CheckpointSafety, CountInvariance, OwnedInvariance, PTL
    DEF Spec

(* What every owner could withdraw at once, rounded down one by one, is      *)
(* within what the whole liquidity is worth; likewise for the fees.          *)
LEMMA WithdrawalsCovered ==
    ASSUME TypeInv, CountInv, OwnedInv, NEW t \in Token, NEW reserve \in Nat,
           ReserveCovers(t, reserve, pool.liquidity, pool.sqrt_price), NEW worth,
           worth = [p \in DOMAIN positions |-> GetAmountsDown(GetTotalLiquidity(positions[p]))[t]]
    PROVE  /\ \A p \in DOMAIN positions : worth[p] \in Nat
           /\ SumFunction(worth) <= reserve
<1> DEFINE u == Unit(t, pool.sqrt_price)
           w == Width(t, pool.sqrt_price)
           D == DOMAIN positions
           scaled == [p \in D |-> u * worth[p]]
           total == [p \in D |-> w * Held[p]]
           sum == SumFunctionOnSet(worth, D)
<1>1. /\ u \in Nat \ {0} /\ w \in Nat
      /\ \A delta : GetAmountsDown(delta)[t] = MulDivDown(delta, w, u)
    BY UnitType DEF TypeInv, PriceInRange
<1>2. IsFiniteSet(D) /\ Held \in [D -> Int] /\ \A p \in D : Held[p] \in Nat
    <2>1. \A p \in D : positions[p] \in PositionState
        BY DEF TypeInv, TypeOK
    <2>2. \A p \in D : GetTotalLiquidity(positions[p]) \in Nat
        BY <2>1, TotalLiquidityType
    <2> QED
        BY <2>2, HeldType DEF CountInv, TypeInv, Held
<1>3. DOMAIN worth = D /\ \A p \in D : worth[p] = MulDivDown(Held[p], w, u)
    BY <1>1 DEF Held
<1>4. pool.liquidity = SumFunctionOnSet(Held, D) /\ pool.liquidity \in Nat
    BY <1>2 DEF OwnedInv, LiquidityIsOwned, SumFunction, Held, TypeInv, TypeOK, PoolState
<1>5. reserve * u >= pool.liquidity * w
    BY DEF ReserveCovers
<1> HIDE DEF u, w, D
<1>6. \A p \in D : worth[p] \in Nat /\ worth[p] * u <= Held[p] * w
    BY <1>1, <1>2, <1>3, MulDivDownType, MulDivDownCovered
<1>7. \A p \in D : /\ scaled[p] = u * worth[p] /\ total[p] = w * Held[p]
                   /\ scaled[p] \in Int /\ total[p] \in Int /\ scaled[p] <= total[p]
    <2> TAKE p \in D
    <2>1. scaled[p] = u * worth[p] /\ total[p] = w * Held[p]
        OBVIOUS
    <2>2. Held[p] \in Nat /\ worth[p] \in Nat /\ worth[p] * u <= Held[p] * w
        BY <1>2, <1>6
    <2>3. /\ u * worth[p] = worth[p] * u /\ w * Held[p] = Held[p] * w
          /\ u * worth[p] \in Int /\ w * Held[p] \in Int
        BY <1>1, <2>2
    <2> QED
        BY <2>1, <2>2, <2>3
<1> HIDE DEF scaled, total
<1>8. SumFunctionOnSet(scaled, D) <= SumFunctionOnSet(total, D)
    BY <1>2, <1>7, SumMonotone
<1>9. SumFunctionOnSet(scaled, D) = u * sum
    <2>1. \A p \in D : worth[p] \in Int /\ scaled[p] = u * worth[p]
        BY <1>6, <1>7
    <2>2. u \in Int /\ IsFiniteSet(D)
        BY <1>1, <1>2
    <2> QED
        BY <2>1, <2>2, SumScale
<1>10. SumFunctionOnSet(total, D) = w * pool.liquidity
    <2>1. \A p \in D : Held[p] \in Int /\ total[p] = w * Held[p]
        BY <1>2, <1>7
    <2> QED
        BY <1>1, <1>2, <1>4, <2>1, SumScale
<1>11. sum \in Int
    BY <1>2, <1>6, SumType
<1> HIDE DEF sum
<1>12. u * sum <= u * reserve
    <2>1. w * pool.liquidity = pool.liquidity * w /\ u * reserve = reserve * u
        BY <1>1, <1>4
    <2>2. w * pool.liquidity \in Int /\ u * reserve \in Int /\ u * sum \in Int
        BY <1>1, <1>4, <1>11
    <2> QED
        BY <1>5, <1>8, <1>9, <1>10, <2>1, <2>2
<1>13. sum <= reserve
    BY <1>1, <1>11, <1>12, FactorDrops
<1> QED
    BY <1>3, <1>6, <1>13 DEF D, sum, SumFunction

Earned(position, fee_per_liquidity, t) == UpdateFee(position, fee_per_liquidity).fee_pending[t]

LEMMA FeesCovered ==
    ASSUME TypeInv, CheckpointsBehind, CountInv, NEW t \in Token, NEW fees \in Nat,
           SumFunction(FeeClaims(t)) <= fees * LIQUIDITY_SCALE, NEW earned,
           earned = [p \in DOMAIN positions |-> Earned(positions[p], pool.fee_per_liquidity, t)]
    PROVE  /\ \A p \in DOMAIN positions : earned[p] \in Nat
           /\ SumFunction(earned) <= fees
<1> DEFINE S == LIQUIDITY_SCALE
           D == DOMAIN positions
           claims == FeeClaims(t)
           scaled == [p \in D |-> S * earned[p]]
           sum == SumFunctionOnSet(earned, D)
<1>1. S \in Nat \ {0} /\ IsFiniteSet(D) /\ DOMAIN earned = D
    BY LiquidityScaleType DEF CountInv
<1>2. \A p \in D : /\ earned[p] \in Nat
                   /\ earned[p] * S <= FeeClaim(positions[p], pool.fee_per_liquidity, t)
    <2>1. pool.fee_per_liquidity \in [Token -> Nat]
        BY DEF TypeInv, TypeOK, PoolState
    <2>2. \A p \in D :
            /\ positions[p] \in PositionState
            /\ \A v \in Token : positions[p].fee_checkpoint[v] <= pool.fee_per_liquidity[v]
        BY DEF TypeInv, TypeOK, CheckpointsBehind
    <2> QED
        BY <2>1, <2>2, UpdatedFees DEF Earned
<1>3. /\ claims \in [D -> Int]
      /\ \A p \in D : claims[p] = FeeClaim(positions[p], pool.fee_per_liquidity, t)
    BY FeeClaimsType DEF TypeInv
<1>4. SumFunctionOnSet(claims, D) <= fees * S
    BY <1>3 DEF SumFunction
<1> HIDE DEF D, S, claims
<1>5. \A p \in D : /\ scaled[p] = S * earned[p] /\ scaled[p] \in Int /\ claims[p] \in Int
                   /\ scaled[p] <= claims[p] /\ earned[p] \in Int
    BY <1>1, <1>2, <1>3
<1> HIDE DEF scaled
<1>6. SumFunctionOnSet(scaled, D) <= SumFunctionOnSet(claims, D)
    BY <1>1, <1>5, SumMonotone
<1>7. SumFunctionOnSet(scaled, D) = S * sum
    BY <1>1, <1>5, SumScale
<1>8. sum \in Int /\ SumFunctionOnSet(claims, D) \in Int
    BY <1>1, <1>5, SumType
<1> HIDE DEF sum
<1>9. S * sum <= S * fees
    <2>1. S * fees = fees * S /\ S * sum \in Int /\ fees * S \in Int
        BY <1>1, <1>8
    <2> QED
        BY <1>4, <1>6, <1>7, <1>8, <2>1
<1>10. sum <= fees
    BY <1>1, <1>8, <1>9, FactorDrops
<1> QED
    BY <1>1, <1>2, <1>10 DEF D, sum, SumFunction

LEMMA SolvencyCovers ==
    ASSUME TypeInv, CheckpointsBehind, CountInv, OwnedInv, SolvencyInv
    PROVE  VaultsCoverClaims
<1> SUFFICES ASSUME NEW t \in Token
             PROVE  vault[t] >=
                      SumFunction([p \in DOMAIN positions |->
                          GetAmountsDown(GetTotalLiquidity(positions[p]))[t]
                          + UpdateFee(positions[p], pool.fee_per_liquidity).fee_pending[t]])
                      + pool.protocol_fee[t] + pool.partner_fee[t]
    BY DEF VaultsCoverClaims
<1> DEFINE D == DOMAIN positions
           worth == [p \in D |-> GetAmountsDown(GetTotalLiquidity(positions[p]))[t]]
           earned == [p \in D |-> Earned(positions[p], pool.fee_per_liquidity, t)]
           both == [p \in D |->
                        GetAmountsDown(GetTotalLiquidity(positions[p]))[t]
                        + UpdateFee(positions[p], pool.fee_per_liquidity).fee_pending[t]]
<1>1. PICK reserve, fees \in Nat :
        /\ vault[t] = reserve + fees + pool.protocol_fee[t] + pool.partner_fee[t]
        /\ ReserveCovers(t, reserve, pool.liquidity, pool.sqrt_price)
        /\ SumFunction(FeeClaims(t)) <= fees * LIQUIDITY_SCALE
    BY DEF SolvencyInv, Solvent
<1>2. (\A p \in D : worth[p] \in Nat) /\ SumFunction(worth) <= reserve
    BY <1>1, WithdrawalsCovered
<1>3. (\A p \in D : earned[p] \in Nat) /\ SumFunction(earned) <= fees
    BY <1>1, FeesCovered
<1>4. IsFiniteSet(D) /\ DOMAIN worth = D /\ DOMAIN earned = D /\ DOMAIN both = D
    BY DEF CountInv
<1>5. \A p \in D : both[p] = worth[p] + earned[p]
    BY DEF Earned
<1>6. pool.protocol_fee[t] \in Nat /\ pool.partner_fee[t] \in Nat
    BY DEF TypeInv, TypeOK, PoolState
<1>g. SUFFICES vault[t] >= SumFunction(both) + pool.protocol_fee[t] + pool.partner_fee[t]
    OBVIOUS
<1> HIDE DEF D, worth, earned, both
<1>7. \A p \in D : worth[p] \in Int /\ earned[p] \in Int /\ both[p] = worth[p] + earned[p]
    BY <1>2, <1>3, <1>5
<1>8. SumFunctionOnSet(both, D) = SumFunctionOnSet(worth, D) + SumFunctionOnSet(earned, D)
    BY <1>4, <1>7, SumAdd
<1>9. SumFunctionOnSet(worth, D) \in Int /\ SumFunctionOnSet(earned, D) \in Int
    BY <1>4, <1>7, SumType
<1>10. SumFunctionOnSet(worth, D) <= reserve /\ SumFunctionOnSet(earned, D) <= fees
    BY <1>2, <1>3, <1>4 DEF SumFunction
<1>11. SumFunction(both) = SumFunctionOnSet(worth, D) + SumFunctionOnSet(earned, D)
    BY <1>4, <1>8 DEF SumFunction
<1> QED
    BY <1>1, <1>6, <1>9, <1>10, <1>11

(* The pool is solvent for every curve, fee schedule and set of positions:   *)
(* at all times both vaults hold what all owners of liquidity and fees, the  *)
(* protocol and the partner could take out at once, after any swaps, adds,   *)
(* removals, splits and claims in any order.                                 *)
THEOREM VaultSafety == Spec => []VaultsCoverClaims
<1>1. TypeInv /\ CheckpointsBehind /\ CountInv /\ OwnedInv /\ SolvencyInv => VaultsCoverClaims
    BY SolvencyCovers
<1> QED
    BY <1>1, TypeInvariance, CheckpointSafety, CountInvariance, OwnedInvariance,
       SolvencyInvariance, PTL
-----------------------------------------------------------------------------
(* EarnedFeesAreKept: what happens in a step to the fees LPs may claim.      *)

EarnedFees(t) == [p \in DOMAIN positions |-> Earned(positions[p], pool.fee_per_liquidity, t)]

LEMMA EarnedFeesType ==
    ASSUME TypeOK, CheckpointsBehind, NEW t \in Token
    PROVE  /\ EarnedFees(t) \in [DOMAIN positions -> Int]
           /\ \A p \in DOMAIN positions :
                 /\ EarnedFees(t)[p] = Earned(positions[p], pool.fee_per_liquidity, t)
                 /\ EarnedFees(t)[p] \in Nat
<1>1. pool.fee_per_liquidity \in [Token -> Nat]
    BY DEF TypeOK, PoolState
<1>2. \A p \in DOMAIN positions :
        /\ positions[p] \in PositionState
        /\ \A u \in Token : positions[p].fee_checkpoint[u] <= pool.fee_per_liquidity[u]
    BY DEF TypeOK, CheckpointsBehind
<1>3. \A p \in DOMAIN positions : Earned(positions[p], pool.fee_per_liquidity, t) \in Nat
    BY <1>1, <1>2, UpdatedFees DEF Earned
<1> QED
    BY <1>3 DEF EarnedFees

LEMMA EarnedFeesTypeNext ==
    ASSUME TypeOK', CheckpointsBehind', NEW t \in Token
    PROVE  /\ EarnedFees(t)' \in [DOMAIN positions' -> Int]
           /\ \A p \in DOMAIN positions' :
                 /\ EarnedFees(t)'[p] = Earned(positions'[p], pool'.fee_per_liquidity, t)
                 /\ EarnedFees(t)'[p] \in Nat
<1>1. pool'.fee_per_liquidity \in [Token -> Nat]
    BY DEF TypeOK, PoolState
<1>2. \A p \in DOMAIN positions' :
        /\ positions'[p] \in PositionState
        /\ \A u \in Token : positions'[p].fee_checkpoint[u] <= pool'.fee_per_liquidity[u]
    BY DEF TypeOK, CheckpointsBehind
<1>3. \A p \in DOMAIN positions' : Earned(positions'[p], pool'.fee_per_liquidity, t) \in Nat
    BY <1>1, <1>2, UpdatedFees DEF Earned
<1> QED
    BY <1>3 DEF EarnedFees

(* Updating the fees of an updated position adds nothing.                    *)
LEMMA EarnedOfSettled ==
    ASSUME NEW position \in PositionState, NEW fee_per_liquidity \in [Token -> Nat],
           position.fee_checkpoint = fee_per_liquidity, NEW t \in Token
    PROVE  Earned(position, fee_per_liquidity, t) = position.fee_pending[t]
<1> DEFINE liquidity == GetTotalLiquidity(position)
           S == LIQUIDITY_SCALE
<1>1. /\ liquidity \in Nat /\ position.fee_pending[t] \in Nat /\ fee_per_liquidity[t] \in Nat
      /\ S \in Nat \ {0}
    BY TotalLiquidityType, LiquidityScaleType DEF PositionState
<1>2. fee_per_liquidity[t] - position.fee_checkpoint[t] = 0
    BY <1>1
<1>3. Earned(position, fee_per_liquidity, t)
        = IF liquidity > 0
          THEN position.fee_pending[t]
               + MulDivDown(liquidity, fee_per_liquidity[t] - position.fee_checkpoint[t], S)
          ELSE position.fee_pending[t]
    BY DEF Earned, UpdateFee, PositionState
<1> HIDE DEF liquidity, S
<1>4. MulDivDown(liquidity, 0, S) = 0
    <2>1. liquidity * 0 = 0 /\ 0 \div S = 0
        BY <1>1
    <2> QED BY <2>1 DEF MulDivDown
<1> QED
    BY <1>1, <1>2, <1>3, <1>4

LEMMA EarnedIntact ==
    ASSUME TypeOK, TypeOK', NEW t \in Token, NEW q \in DOMAIN positions,
           q \in DOMAIN positions', pool'.fee_per_liquidity = pool.fee_per_liquidity, FeesIntact(q)
    PROVE  Earned(positions'[q], pool'.fee_per_liquidity, t)
             = Earned(positions[q], pool.fee_per_liquidity, t)
<1> DEFINE fpl == pool.fee_per_liquidity
<1>1. /\ positions[q] \in PositionState /\ positions'[q] \in PositionState
      /\ fpl \in [Token -> Nat]
    BY DEF TypeOK, PoolState
<1>2. CASE /\ positions'[q].fee_pending = positions[q].fee_pending
           /\ positions'[q].fee_checkpoint = positions[q].fee_checkpoint
           /\ GetTotalLiquidity(positions'[q]) = GetTotalLiquidity(positions[q])
    BY <1>1, <1>2 DEF Earned, UpdateFee, PositionState
<1>3. CASE /\ positions'[q].fee_pending = UpdateFee(positions[q], fpl).fee_pending
           /\ positions'[q].fee_checkpoint = fpl
    <2>1. Earned(positions'[q], fpl, t) = positions'[q].fee_pending[t]
        BY <1>1, <1>3, EarnedOfSettled
    <2> QED
        BY <1>3, <2>1 DEF Earned
<1> QED
    BY <1>2, <1>3 DEF FeesIntact

LEMMA ClaimableIntact ==
    ASSUME TypeOK, TypeOK', CheckpointsBehind, CheckpointsBehind',
           IsFiniteSet(DOMAIN positions), AllFeesIntact, NEW t \in Token
    PROVE  ClaimableFees(t) \in Int /\ ClaimableFees(t)' = ClaimableFees(t)
<1>1. /\ EarnedFees(t) \in [DOMAIN positions -> Int]
      /\ EarnedFees(t)' \in [DOMAIN positions -> Int]
    BY EarnedFeesType, EarnedFeesTypeNext DEF AllFeesIntact
<1>2. \A q \in DOMAIN positions : EarnedFees(t)'[q] = EarnedFees(t)[q]
    BY EarnedIntact, EarnedFeesType, EarnedFeesTypeNext DEF AllFeesIntact
<1>3. EarnedFees(t)' = EarnedFees(t)
    BY <1>1, <1>2
<1>4. SumFunction(EarnedFees(t)) \in Int
    BY <1>1, SumFunctionType
<1> QED
    BY <1>3, <1>4 DEF ClaimableFees, EarnedFees, Earned

(* What EarnedFeesAreKept says of one step.                                  *)
FeesKept(t) ==
    IF positions' # positions /\ pool' = pool
    THEN ClaimableFees(t)' - ClaimableFees(t) = vault'[t] - vault[t]
    ELSE ClaimableFees(t)' >= ClaimableFees(t)

LEMMA IntactKeepsFees ==
    ASSUME TypeInv, TypeInv', CheckpointsBehind, CheckpointsBehind', CountInv, AllFeesIntact,
           vault' = vault \/ pool' # pool, NEW t \in Token
    PROVE  FeesKept(t)
<1>1. ClaimableFees(t) \in Int /\ ClaimableFees(t)' = ClaimableFees(t)
    BY ClaimableIntact DEF TypeInv, CountInv
<1>2. vault[t] \in Int
    BY DEF TypeInv, TypeOK
<1> QED
    BY <1>1, <1>2 DEF FeesKept

LEMMA CreatePositionKeepsFees ==
    ASSUME TypeInv, TypeInv', CheckpointsBehind, CheckpointsBehind', CountInv,
           NEW p \in PositionId, CreatePosition(p), NEW t \in Token
    PROVE  FeesKept(t)
<1>1. /\ p \notin DOMAIN positions /\ DOMAIN positions' = DOMAIN positions \cup {p}
      /\ positions'[p] = NewPosition(0) /\ vault' = vault
      /\ \A q \in DOMAIN positions : positions'[q] = positions[q]
    BY DEF CreatePosition, Put
<1>2. pool'.fee_per_liquidity = pool.fee_per_liquidity
    BY DEF CreatePosition, TypeInv, TypeOK, PoolState
<1>3. IsFiniteSet(DOMAIN positions) /\ TypeOK /\ TypeOK' /\ vault[t] \in Int
    BY DEF CountInv, TypeInv, TypeOK
<1>4. /\ EarnedFees(t) \in [DOMAIN positions -> Int]
      /\ EarnedFees(t)' \in [DOMAIN positions' -> Int]
    BY <1>3, EarnedFeesType, EarnedFeesTypeNext
<1>5. \A q \in DOMAIN positions : EarnedFees(t)'[q] = EarnedFees(t)[q]
    BY <1>1, <1>2, <1>3, EarnedFeesType, EarnedFeesTypeNext
<1>6. EarnedFees(t)'[p] = 0
    <2>1. EarnedFees(t)'[p] = Earned(NewPosition(0), pool'.fee_per_liquidity, t)
        BY <1>1, <1>3, EarnedFeesTypeNext
    <2>2. GetTotalLiquidity(NewPosition(0)) = 0
        BY DEF NewPosition, GetTotalLiquidity
    <2> QED
        BY <2>1, <2>2 DEF Earned, UpdateFee, NewPosition
<1>7. SumFunction(EarnedFees(t)') = SumFunction(EarnedFees(t)) + EarnedFees(t)'[p]
    <2>1. p \notin DOMAIN positions /\ DOMAIN positions' = DOMAIN positions \cup {p}
        BY <1>1
    <2> QED
        BY <1>3, <1>4, <1>5, <2>1, SumGrow
<1>8. SumFunction(EarnedFees(t)) \in Int
    BY <1>3, <1>4, SumFunctionType
<1>9. ClaimableFees(t)' = ClaimableFees(t) /\ ClaimableFees(t) \in Int
    BY <1>6, <1>7, <1>8 DEF ClaimableFees, EarnedFees, Earned
<1> QED
    BY <1>1, <1>3, <1>9 DEF FeesKept

LEMMA ClosePositionKeepsFees ==
    ASSUME TypeInv, TypeInv', CheckpointsBehind, CheckpointsBehind', CountInv,
           NEW p \in PositionId, ClosePosition(p), NEW t \in Token
    PROVE  FeesKept(t)
<1>1. /\ p \in DOMAIN positions /\ DOMAIN positions' = DOMAIN positions \ {p}
      /\ vault' = vault /\ \A q \in DOMAIN positions' : positions'[q] = positions[q]
      /\ IsEmpty(positions[p])
    BY DEF ClosePosition, Drop
<1>2. pool'.fee_per_liquidity = pool.fee_per_liquidity
    BY DEF ClosePosition, TypeInv, TypeOK, PoolState
<1>3. IsFiniteSet(DOMAIN positions) /\ TypeOK /\ TypeOK' /\ vault[t] \in Int
    BY DEF CountInv, TypeInv, TypeOK
<1>4. /\ EarnedFees(t) \in [DOMAIN positions -> Int]
      /\ EarnedFees(t)' \in [DOMAIN positions' -> Int]
    BY <1>3, EarnedFeesType, EarnedFeesTypeNext
<1>5. \A q \in DOMAIN positions' : EarnedFees(t)'[q] = EarnedFees(t)[q]
    BY <1>1, <1>2, <1>3, EarnedFeesType, EarnedFeesTypeNext
<1>6. EarnedFees(t)[p] = 0
    <2>1. EarnedFees(t)[p] = Earned(positions[p], pool.fee_per_liquidity, t)
        BY <1>1, <1>3, EarnedFeesType
    <2>2. /\ GetTotalLiquidity(positions[p]) = 0 /\ positions[p].fee_pending[t] = 0
          /\ positions[p] \in PositionState
        BY <1>1, <1>3 DEF IsEmpty, TypeOK
    <2> QED
        BY <2>1, <2>2 DEF Earned, UpdateFee, PositionState
<1>7. SumFunction(EarnedFees(t)') = SumFunction(EarnedFees(t)) - EarnedFees(t)[p]
    <2>1. p \in DOMAIN positions /\ DOMAIN positions' = DOMAIN positions \ {p}
        BY <1>1
    <2> QED
        BY <1>3, <1>4, <1>5, <2>1, SumShrink, Z3
<1>8. SumFunction(EarnedFees(t)) \in Int
    BY <1>3, <1>4, SumFunctionType
<1>9. ClaimableFees(t)' = ClaimableFees(t) /\ ClaimableFees(t) \in Int
    BY <1>6, <1>7, <1>8 DEF ClaimableFees, EarnedFees, Earned
<1> QED
    BY <1>1, <1>3, <1>9 DEF FeesKept

LEMMA SplitPositionKeepsFees ==
    ASSUME TypeInv, TypeInv', CheckpointsBehind, CheckpointsBehind', CountInv,
           NEW p \in PositionId, NEW r \in PositionId, NEW numerators \in SplitParameters,
           SplitPosition(p, r, numerators), NEW t \in Token
    PROVE  FeesKept(t)
<1> DEFINE fpl == pool.fee_per_liquidity
<1>1. /\ p \in DOMAIN positions /\ r \in DOMAIN positions /\ p # r
      /\ DOMAIN positions' = DOMAIN positions /\ vault' = vault /\ pool' = pool
      /\ \A q \in DOMAIN positions \ {p, r} : positions'[q] = positions[q]
      /\ positions'[p].fee_checkpoint = fpl /\ positions'[r].fee_checkpoint = fpl
      /\ positions'[p].fee_pending[t] + positions'[r].fee_pending[t]
            = Earned(positions[p], fpl, t) + Earned(positions[r], fpl, t)
    BY SplitFees DEF Earned
<1>2. IsFiniteSet(DOMAIN positions) /\ TypeOK /\ TypeOK' /\ vault[t] \in Int
    BY DEF CountInv, TypeInv, TypeOK
<1>3. /\ EarnedFees(t) \in [DOMAIN positions -> Int]
      /\ EarnedFees(t)' \in [DOMAIN positions -> Int]
    BY <1>1, <1>2, EarnedFeesType, EarnedFeesTypeNext
<1>4. \A q \in DOMAIN positions \ {p, r} : EarnedFees(t)'[q] = EarnedFees(t)[q]
    BY <1>1, <1>2, EarnedFeesType, EarnedFeesTypeNext
<1>5. /\ fpl \in [Token -> Nat]
      /\ positions'[p] \in PositionState /\ positions'[r] \in PositionState
    BY <1>1, <1>2 DEF TypeOK, PoolState
<1>6. /\ EarnedFees(t)'[p] = positions'[p].fee_pending[t]
      /\ EarnedFees(t)'[r] = positions'[r].fee_pending[t]
    BY <1>1, <1>2, <1>5, EarnedOfSettled, EarnedFeesTypeNext
<1>7. EarnedFees(t)'[p] + EarnedFees(t)'[r] = EarnedFees(t)[p] + EarnedFees(t)[r]
    BY <1>1, <1>2, <1>6, EarnedFeesType
<1>8. SumFunction(EarnedFees(t)') = SumFunction(EarnedFees(t))
          + (EarnedFees(t)'[p] - EarnedFees(t)[p]) + (EarnedFees(t)'[r] - EarnedFees(t)[r])
    BY <1>1, <1>2, <1>3, <1>4, SumChangeTwo
<1>9. /\ SumFunction(EarnedFees(t)) \in Int
      /\ EarnedFees(t)[p] \in Int /\ EarnedFees(t)[r] \in Int
      /\ EarnedFees(t)'[p] \in Int /\ EarnedFees(t)'[r] \in Int
    BY <1>1, <1>2, <1>3, SumFunctionType
<1>10. SumFunction(EarnedFees(t)') = SumFunction(EarnedFees(t))
    BY <1>7, <1>8, <1>9
<1>11. ClaimableFees(t)' = ClaimableFees(t) /\ ClaimableFees(t) \in Int
    BY <1>9, <1>10 DEF ClaimableFees, EarnedFees, Earned
<1> QED
    BY <1>1, <1>2, <1>11 DEF FeesKept

LEMMA ClaimPositionFeeKeepsFees ==
    ASSUME TypeInv, TypeInv', CheckpointsBehind, CheckpointsBehind', CountInv,
           NEW p \in PositionId, ClaimPositionFee(p), NEW t \in Token
    PROVE  FeesKept(t)
<1> DEFINE fpl == pool.fee_per_liquidity
           updated == UpdateFee(positions[p], fpl)
<1>1. /\ p \in DOMAIN positions /\ pool' = pool /\ vault' = Paid(updated.fee_pending)
      /\ positions' = [positions EXCEPT ![p] = [updated EXCEPT !.fee_pending = NoTokens]]
    BY DEF ClaimPositionFee
<1>2. IsFiniteSet(DOMAIN positions) /\ TypeOK /\ TypeOK' /\ vault[t] \in Int
    BY DEF CountInv, TypeInv, TypeOK
<1>3. positions[p] \in PositionState /\ fpl \in [Token -> Nat] /\ positions'[p] \in PositionState
    BY <1>1, <1>2 DEF TypeOK, PoolState
<1>4. /\ DOMAIN positions' = DOMAIN positions
      /\ \A q \in DOMAIN positions \ {p} : positions'[q] = positions[q]
      /\ positions'[p] = [updated EXCEPT !.fee_pending = NoTokens]
    BY <1>1
<1>5. positions'[p].fee_checkpoint = fpl /\ positions'[p].fee_pending = NoTokens
    BY <1>3, <1>4 DEF UpdateFee, PositionState
<1>6. vault'[t] = vault[t] - Earned(positions[p], fpl, t)
    BY <1>1 DEF Paid, Earned
<1> HIDE DEF updated
<1>7. /\ EarnedFees(t) \in [DOMAIN positions -> Int]
      /\ EarnedFees(t)' \in [DOMAIN positions -> Int]
    BY <1>2, <1>4, EarnedFeesType, EarnedFeesTypeNext
<1>8. \A q \in DOMAIN positions \ {p} : EarnedFees(t)'[q] = EarnedFees(t)[q]
    BY <1>1, <1>2, <1>4, EarnedFeesType, EarnedFeesTypeNext
<1>9. EarnedFees(t)[p] = Earned(positions[p], fpl, t)
    BY <1>1, <1>2, EarnedFeesType
<1>10. EarnedFees(t)'[p] = 0
    <2>1. EarnedFees(t)'[p] = positions'[p].fee_pending[t]
        BY <1>1, <1>2, <1>3, <1>4, <1>5, EarnedOfSettled, EarnedFeesTypeNext
    <2> QED
        BY <1>5, <2>1 DEF NoTokens
<1>11. SumFunction(EarnedFees(t)') = SumFunction(EarnedFees(t)) + EarnedFees(t)'[p] - EarnedFees(t)[p]
    BY <1>1, <1>2, <1>7, <1>8, SumChangeOne
<1>12. SumFunction(EarnedFees(t)) \in Int /\ EarnedFees(t)[p] \in Int
    BY <1>1, <1>2, <1>7, SumFunctionType
<1>13. SumFunction(EarnedFees(t)') = SumFunction(EarnedFees(t)) - EarnedFees(t)[p]
    BY <1>10, <1>11, <1>12
<1>14. ClaimableFees(t) = SumFunction(EarnedFees(t)) /\ ClaimableFees(t)' = SumFunction(EarnedFees(t)')
    BY DEF ClaimableFees, EarnedFees, Earned
<1>15. ClaimableFees(t)' - ClaimableFees(t) = vault'[t] - vault[t]
    BY <1>2, <1>6, <1>9, <1>12, <1>13, <1>14
<1>16. positions' = positions => ClaimableFees(t)' = ClaimableFees(t)
    BY <1>1 DEF ClaimableFees
<1>17. ClaimableFees(t) \in Int
    BY <1>12, <1>14
<1> QED
    BY <1>1, <1>15, <1>16, <1>17 DEF FeesKept

(* A larger fee per liquidity never earns a position less.                   *)
LEMMA EarnedGrows ==
    ASSUME NEW position \in PositionState, NEW f \in [Token -> Nat], NEW g \in [Token -> Nat],
           \A u \in Token : position.fee_checkpoint[u] <= f[u], NEW t \in Token, f[t] <= g[t]
    PROVE  Earned(position, f, t) <= Earned(position, g, t)
<1> DEFINE liquidity == GetTotalLiquidity(position)
           S == LIQUIDITY_SCALE
           x == f[t] - position.fee_checkpoint[t]
           y == g[t] - position.fee_checkpoint[t]
           pending == position.fee_pending[t]
           m == MulDivDown(liquidity, x, S)
           n == MulDivDown(liquidity, y, S)
<1>1. /\ liquidity \in Nat /\ pending \in Nat /\ S \in Nat \ {0} /\ x \in Nat /\ y \in Nat
      /\ x <= y
    BY TotalLiquidityType, LiquidityScaleType DEF PositionState
<1>2. /\ Earned(position, f, t) = IF liquidity > 0 THEN pending + m ELSE pending
      /\ Earned(position, g, t) = IF liquidity > 0 THEN pending + n ELSE pending
    BY DEF Earned, UpdateFee, PositionState
<1> HIDE DEF liquidity, S, x, y, pending
<1>3. m \in Nat /\ n \in Nat /\ m * S <= liquidity * x
    BY <1>1, MulDivDownType, MulDivDownCovered
<1>4. liquidity * x <= liquidity * y /\ liquidity * x \in Nat /\ liquidity * y \in Nat
    BY <1>1, ProductsOrdered
<1>5. m <= n
    <2>1. n = (liquidity * y) \div S
        BY DEF MulDivDown
    <2> HIDE DEF m, n
    <2>2. m * S \in Int
        BY <1>1, <1>3
    <2>3. liquidity * y >= m * S
        BY <1>3, <1>4, <2>2
    <2>4. (liquidity * y) \div S >= m
        BY <1>1, <1>3, <1>4, <2>3, DivLowerBound
    <2> QED BY <1>3, <2>1, <2>4
<1> HIDE DEF m, n
<1> QED
    BY <1>1, <1>2, <1>3, <1>5

LEMMA GrowthKeepsFees ==
    ASSUME TypeInv, TypeInv', CheckpointsBehind, CheckpointsBehind', CountInv,
           positions' = positions, NEW t \in Token,
           pool.fee_per_liquidity[t] <= pool'.fee_per_liquidity[t]
    PROVE  FeesKept(t)
<1>1. IsFiniteSet(DOMAIN positions) /\ TypeOK /\ TypeOK'
    BY DEF CountInv, TypeInv
<1>2. /\ EarnedFees(t) \in [DOMAIN positions -> Int]
      /\ EarnedFees(t)' \in [DOMAIN positions -> Int]
    BY <1>1, EarnedFeesType, EarnedFeesTypeNext
<1>3. /\ pool.fee_per_liquidity \in [Token -> Nat] /\ pool'.fee_per_liquidity \in [Token -> Nat]
      /\ \A q \in DOMAIN positions :
            /\ positions[q] \in PositionState
            /\ \A u \in Token : positions[q].fee_checkpoint[u] <= pool.fee_per_liquidity[u]
    BY <1>1 DEF TypeOK, PoolState, CheckpointsBehind
<1>4. \A q \in DOMAIN positions : EarnedFees(t)[q] <= EarnedFees(t)'[q]
    BY <1>1, <1>3, EarnedGrows, EarnedFeesType, EarnedFeesTypeNext
<1>5. SumFunction(EarnedFees(t)) <= SumFunction(EarnedFees(t)')
    <2>1. \A w, v \in [DOMAIN positions -> Int] :
            (\A q \in DOMAIN positions : v[q] <= w[q]) => SumFunction(v) <= SumFunction(w)
        BY <1>1, SumMonotone DEF SumFunction
    <2> QED
        BY <1>2, <1>4, <2>1
<1>6. SumFunction(EarnedFees(t)) \in Int /\ SumFunction(EarnedFees(t)') \in Int
    BY <1>1, <1>2, SumFunctionType
<1> QED
    BY <1>5, <1>6 DEF FeesKept, ClaimableFees, EarnedFees, Earned

LEMMA SwapRaisesFees ==
    ASSUME TypeInv, TypeInv', NEW amount_in \in Nat, NEW a_for_b \in BOOLEAN,
           NEW has_referral \in BOOLEAN, NEW is_whitelisted_vault, NEW minimum_amount_out,
           Swap(amount_in, a_for_b, has_referral, is_whitelisted_vault, minimum_amount_out)
    PROVE  /\ positions' = positions
           /\ \A t \in Token : pool.fee_per_liquidity[t] <= pool'.fee_per_liquidity[t]
<1>1. PICK dyn \in DynamicFeeState, result \in SwapResults :
              /\ DynamicFee.enabled => dyn.sqrt_price_reference > 0
              /\ result.next_sqrt_price \in SqrtMinPrice .. SqrtMaxPrice
              /\ pool' = ApplySwapResult(dyn, result, a_for_b)
    BY SwapComputes
<1>2. pool.liquidity > 0 /\ positions' = positions
    BY DEF Swap
<1>3. \A t \in Token : pool'.fee_per_liquidity[t] >= pool.fee_per_liquidity[t]
    BY <1>1, <1>2, ApplySwapResultType
<1>4. \A t \in Token : pool.fee_per_liquidity[t] \in Nat /\ pool'.fee_per_liquidity[t] \in Nat
    BY DEF TypeInv, TypeOK, PoolState
<1> QED
    BY <1>2, <1>3, <1>4

LEMMA KeptFeesStep ==
    ASSUME TypeInv, TypeInv', CheckpointsBehind, CheckpointsBehind', CountInv, [Next]_vars,
           NEW t \in Token
    PROVE  FeesKept(t)
<1>1. ASSUME AllFeesIntact, vault' = vault \/ pool' # pool
      PROVE  FeesKept(t)
    BY <1>1, IntactKeepsFees
<1>2. ASSUME positions' = positions, pool'.fee_per_liquidity = pool.fee_per_liquidity
      PROVE  FeesKept(t)
    <2>1. pool.fee_per_liquidity[t] \in Nat
        BY DEF TypeInv, TypeOK, PoolState
    <2> QED
        BY <1>2, <2>1, GrowthKeepsFees
<1>3. CASE UNCHANGED vars \/ Tick \/ SetPoolStatus
    <2>1. positions' = positions /\ pool'.fee_per_liquidity = pool.fee_per_liquidity
        BY <1>3 DEF vars, Tick, SetPoolStatus, TypeInv, TypeOK, PoolState
    <2> QED
        BY <1>2, <2>1
<1>4. CASE RewardInstruction
    <2>1. ASSUME NEW i \in RewardIndex, NEW p \in PositionId, NEW skip_reward,
                 ClaimReward(p, i, skip_reward)
          PROVE  FeesKept(t)
        <3>1. AllFeesIntact
            BY <2>1, ClaimRewardFees
        <3>2. vault' = vault
            BY <2>1 DEF ClaimReward
        <3> QED
            BY <1>1, <3>1, <3>2
    <2>2. \/ positions' = positions /\ pool' = pool
          \/ \E i \in RewardIndex, p \in PositionId : \E skip_reward : ClaimReward(p, i, skip_reward)
        BY <1>4 DEF RewardInstruction, InitializeReward, FundReward, WithdrawIneligibleReward,
                    UpdateRewardDuration, UpdateRewardFunder, FreezeRewardVault
    <2> QED
        BY <1>2, <2>1, <2>2
<1>5. CASE PositionInstruction
    <2>1. PICK p \in PositionId :
            \/ CreatePosition(p)
            \/ ClosePosition(p)
            \/ ClaimPositionFee(p)
            \/ \E delta \in Nat : \E threshold : AddLiquidity(p, delta, threshold)
            \/ \E delta \in Nat : \E threshold : RemoveLiquidity(p, delta, threshold)
        BY <1>5, PositionInstructionCases
    <2>2. CASE CreatePosition(p)
        BY <2>2, CreatePositionKeepsFees
    <2>3. CASE ClosePosition(p)
        BY <2>3, ClosePositionKeepsFees
    <2>4. CASE ClaimPositionFee(p)
        BY <2>4, ClaimPositionFeeKeepsFees
    <2>5. ASSUME NEW delta \in Nat, NEW threshold, AddLiquidity(p, delta, threshold)
          PROVE  FeesKept(t)
        <3>1. AllFeesIntact
            BY <2>5, AddLiquidityFees
        <3>2. pool'.liquidity = pool.liquidity + delta /\ delta > 0 /\ pool.liquidity \in Nat
            BY <2>5 DEF AddLiquidity, TypeInv, TypeOK, PoolState
        <3> QED
            BY <1>1, <3>1, <3>2
    <2>6. ASSUME NEW delta \in Nat, NEW threshold, RemoveLiquidity(p, delta, threshold)
          PROVE  FeesKept(t)
        <3>1. AllFeesIntact
            BY <2>6, RemoveLiquidityFees
        <3>2. pool'.liquidity = pool.liquidity - delta /\ delta > 0 /\ pool.liquidity \in Nat
            BY <2>6 DEF RemoveLiquidity, TypeInv, TypeOK, PoolState
        <3> QED
            BY <1>1, <3>1, <3>2
    <2> QED
        BY <2>1, <2>2, <2>3, <2>4, <2>5, <2>6
<1>6. ASSUME NEW p \in PositionId, NEW v \in VestingId, NEW params \in VestingParameterInputs,
             NEW cliff_point, LockPosition(p, v, params, cliff_point)
      PROVE  FeesKept(t)
    <2>1. AllFeesIntact
        BY <1>6, InputTypes, LockPositionFees
    <2>2. vault' = vault
        BY <1>6 DEF LockPosition
    <2> QED
        BY <1>1, <2>1, <2>2
<1>7. ASSUME NEW v \in VestingId, RefreshVesting(v)
      PROVE  FeesKept(t)
    <2>1. AllFeesIntact
        BY <1>7, RefreshVestingFees
    <2>2. vault' = vault
        BY <1>7 DEF RefreshVesting
    <2> QED
        BY <1>1, <2>1, <2>2
<1>8. ASSUME NEW p \in PositionId, NEW amount \in PermanentLockAmounts,
             PermanentLockPosition(p, amount)
      PROVE  FeesKept(t)
    <2>1. AllFeesIntact
        BY <1>8, InputTypes, PermanentLockFees
    <2>2. vault' = vault
        BY <1>8 DEF PermanentLockPosition
    <2> QED
        BY <1>1, <2>1, <2>2
<1>9. ASSUME NEW first \in PositionId, NEW second \in PositionId,
             NEW numerators \in SplitNumerators, SplitPosition(first, second, numerators)
      PROVE  FeesKept(t)
    BY <1>9, InputTypes, SplitPositionKeepsFees
<1>10. CASE LockInstruction
    BY <1>6, <1>7, <1>8, <1>9, <1>10 DEF LockInstruction
<1>11. CASE TradeInstruction
    <2>1. ASSUME NEW amount_in \in SwapAmounts, NEW a_for_b \in BOOLEAN,
                 NEW has_referral \in BOOLEAN, NEW is_whitelisted_vault, NEW minimum_amount_out,
                 Swap(amount_in, a_for_b, has_referral, is_whitelisted_vault, minimum_amount_out)
          PROVE  FeesKept(t)
        <3>1. amount_in \in Nat
            BY InputTypes
        <3>2. positions' = positions /\ pool.fee_per_liquidity[t] <= pool'.fee_per_liquidity[t]
            BY <2>1, <3>1, SwapRaisesFees
        <3> QED
            BY <3>2, GrowthKeepsFees
    <2>2. ASSUME NEW max_amount, ClaimProtocolFee(max_amount) \/ ClaimPartnerFee(max_amount)
          PROVE  FeesKept(t)
        <3>1. positions' = positions /\ pool'.fee_per_liquidity = pool.fee_per_liquidity
            BY <2>2 DEF ClaimProtocolFee, ClaimPartnerFee, TypeInv, TypeOK, PoolState
        <3> QED
            BY <1>2, <3>1
    <2> QED
        BY <1>11, <2>1, <2>2 DEF TradeInstruction
<1> QED
    BY <1>3, <1>4, <1>5, <1>10, <1>11 DEF Next, Instruction

(* Whatever the pool, its positions and the users' inputs, no step takes     *)
(* earned fees away from the liquidity providers, but for what               *)
(* claim_position_fee pays to an owner; locks and splits move not a token of *)
(* them.                                                                     *)
THEOREM EarnedFeesSafety == Spec => EarnedFeesAreKept
<1>1. /\ TypeInv /\ TypeInv' /\ CheckpointsBehind /\ CheckpointsBehind' /\ CountInv
      /\ [Next]_vars
      => [\A t \in Token :
             IF positions' # positions /\ pool' = pool
             THEN ClaimableFees(t)' - ClaimableFees(t) = vault'[t] - vault[t]
             ELSE ClaimableFees(t)' >= ClaimableFees(t)]_vars
    BY KeptFeesStep DEF FeesKept
<1> QED
    BY <1>1, TypeInvariance, CheckpointSafety, CountInvariance, PTL DEF Spec, EarnedFeesAreKept
-----------------------------------------------------------------------------
(* RewardVaultsCoverClaims.  A reward vault backs the claims of positions to *)
(* the last fraction of a token, and what the campaign has not distributed:  *)
(* the seconds without liquidity and the seconds to its end, at its rate.    *)

RewardClaim(position, reward, i) ==
    position.reward_pending[i] * TOTAL_REWARD_SCALE
    + GetTotalLiquidity(position)
        * (reward.reward_per_token_stored - position.reward_checkpoint[i])

RewardClaims(open, reward, i) == [p \in DOMAIN open |-> RewardClaim(open[p], reward, i)]

Undistributed(reward) ==
    (reward.cumulative_seconds_with_empty_liquidity_reward * reward.reward_rate
       + reward.reward_rate * (reward.reward_duration_end - reward.last_update_time))
    * LIQUIDITY_SCALE

Backed(open, reward, i, balance) ==
    SumFunction(RewardClaims(open, reward, i)) + Undistributed(reward)
        <= balance * TOTAL_REWARD_SCALE

RewardInv ==
    \A i \in RewardIndex :
        /\ Backed(positions, rewards[i], i, rewardVault[i])
        /\ ~rewards[i].initialized => rewards[i].reward_per_token_stored = 0

(* Positions that have not run ahead of a reward.                            *)
Level(open, reward, i) ==
    /\ IsFiniteSet(DOMAIN open)
    /\ open \in [DOMAIN open -> PositionState]
    /\ \A p \in DOMAIN open : open[p].reward_checkpoint[i] <= reward.reward_per_token_stored

LEMMA RewardClaimType ==
    ASSUME NEW position \in PositionState, NEW reward \in RewardInfo, NEW i \in RewardIndex,
           position.reward_checkpoint[i] <= reward.reward_per_token_stored
    PROVE  RewardClaim(position, reward, i) \in Nat
<1> DEFINE T == TOTAL_REWARD_SCALE
           liquidity == GetTotalLiquidity(position)
           growth == reward.reward_per_token_stored - position.reward_checkpoint[i]
           pending == position.reward_pending[i]
<1>1. /\ T \in Nat /\ liquidity \in Nat /\ pending \in Nat
      /\ reward.reward_per_token_stored \in Nat /\ position.reward_checkpoint[i] \in Nat
    BY ScaleTypes, TotalLiquidityType DEF PositionState, RewardInfo
<1>2. growth \in Nat
    BY <1>1
<1>g. SUFFICES pending * T + liquidity * growth \in Nat
    BY DEF RewardClaim
<1> HIDE DEF T, liquidity, growth, pending
<1> QED
    BY <1>1, <1>2

LEMMA RewardClaimsType ==
    ASSUME NEW open, NEW reward \in RewardInfo, NEW i \in RewardIndex, Level(open, reward, i)
    PROVE  /\ RewardClaims(open, reward, i) \in [DOMAIN open -> Int]
           /\ \A p \in DOMAIN open :
                 /\ RewardClaims(open, reward, i)[p] = RewardClaim(open[p], reward, i)
                 /\ RewardClaims(open, reward, i)[p] \in Nat
           /\ SumFunction(RewardClaims(open, reward, i)) \in Nat
<1>1. \A p \in DOMAIN open : RewardClaim(open[p], reward, i) \in Nat
    BY RewardClaimType DEF Level
<1>2. RewardClaims(open, reward, i) \in [DOMAIN open -> Nat]
    BY <1>1 DEF RewardClaims
<1>3. SumFunction(RewardClaims(open, reward, i)) \in Nat
    BY <1>2, SumFunctionType DEF Level
<1> QED
    BY <1>1, <1>2, <1>3 DEF RewardClaims

LEMMA UndistributedType ==
    ASSUME NEW reward \in RewardInfo, reward.last_update_time <= reward.reward_duration_end
    PROVE  Undistributed(reward) \in Nat
<1> DEFINE S == LIQUIDITY_SCALE
           rate == reward.reward_rate
           empty == reward.cumulative_seconds_with_empty_liquidity_reward
           left == reward.reward_duration_end - reward.last_update_time
<1>1. S \in Nat /\ rate \in Nat /\ empty \in Nat /\ left \in Nat
    BY ScaleTypes DEF RewardInfo
<1>g. SUFFICES (empty * rate + rate * left) * S \in Nat
    BY DEF Undistributed
<1> HIDE DEF S, rate, empty, left
<1>2. empty * rate + rate * left \in Nat
    BY <1>1
<1> DEFINE x == empty * rate + rate * left
<1> HIDE DEF x
<1>3. x \in Nat
    BY <1>2 DEF x
<1>4. x * S \in Nat
    BY <1>1, <1>3
<1> QED
    BY <1>4 DEF x

(* Positions that claim less are backed as well.                             *)
LEMMA FewerClaims ==
    ASSUME NEW open, NEW next, NEW reward \in RewardInfo, NEW i \in RewardIndex,
           NEW balance \in Nat, Level(open, reward, i), Level(next, reward, i),
           reward.last_update_time <= reward.reward_duration_end,
           DOMAIN next = DOMAIN open, Backed(open, reward, i, balance),
           \A p \in DOMAIN open : RewardClaim(next[p], reward, i) <= RewardClaim(open[p], reward, i)
    PROVE  Backed(next, reward, i, balance)
<1> DEFINE before == RewardClaims(open, reward, i)
           after == RewardClaims(next, reward, i)
<1>1. /\ before \in [DOMAIN open -> Int] /\ after \in [DOMAIN open -> Int]
      /\ SumFunction(before) \in Nat /\ SumFunction(after) \in Nat
      /\ \A p \in DOMAIN open : after[p] <= before[p]
    BY RewardClaimsType
<1>2. \A w, v \in [DOMAIN open -> Int] :
        (\A q \in DOMAIN open : v[q] <= w[q]) => SumFunction(v) <= SumFunction(w)
    BY SumMonotone DEF SumFunction, Level
<1>3. Undistributed(reward) \in Nat /\ balance * TOTAL_REWARD_SCALE \in Nat
    BY UndistributedType, ScaleTypes
<1> HIDE DEF before, after
<1>4. SumFunction(after) <= SumFunction(before)
    BY <1>1, <1>2
<1>5. SumFunction(before) + Undistributed(reward) <= balance * TOTAL_REWARD_SCALE
    BY DEF Backed, before
<1>6. SumFunction(after) + Undistributed(reward) <= balance * TOTAL_REWARD_SCALE
    BY <1>1, <1>3, <1>4, <1>5
<1> QED
    BY <1>6 DEF Backed, after

(* What an update adds to the accumulator, for all liquidity together, it    *)
(* takes from what is not distributed, or less.                              *)
LEMMA UpdateDistributes ==
    ASSUME NEW reward \in RewardInfo, NEW liquidity \in Nat, NEW now \in Nat,
           reward.last_update_time <= reward.reward_duration_end, reward.last_update_time <= now
    PROVE  LET updated == UpdateReward(reward, liquidity, now)
           IN  \E growth \in Nat :
                  /\ updated.reward_per_token_stored = reward.reward_per_token_stored + growth
                  /\ growth * liquidity + Undistributed(updated) <= Undistributed(reward)
<1> DEFINE updated == UpdateReward(reward, liquidity, now)
           S == LIQUIDITY_SCALE
           rate == reward.reward_rate
           empty == reward.cumulative_seconds_with_empty_liquidity_reward
           last == LastTimeRewardApplicable(reward, now)
           left == reward.reward_duration_end - last
           elapsed == last - reward.last_update_time
<1>1. /\ S \in Nat /\ rate \in Nat /\ empty \in Nat /\ reward.reward_per_token_stored \in Nat
      /\ reward.reward_duration_end \in Nat /\ reward.last_update_time \in Nat
    BY ScaleTypes DEF RewardInfo
<1>2. last \in Nat /\ left \in Nat /\ elapsed \in Nat
    BY <1>1 DEF LastTimeRewardApplicable
<1>3. Undistributed(reward) = (empty * rate + rate * (elapsed + left)) * S
    <2>1. reward.reward_duration_end - reward.last_update_time = elapsed + left
        BY <1>1, <1>2
    <2> QED
        BY <2>1 DEF Undistributed
<1>4. CASE ~reward.initialized
    <2>1. updated = reward
        BY <1>4 DEF UpdateReward
    <2>2. Undistributed(reward) \in Nat
        BY UndistributedType
    <2>3. /\ reward.reward_per_token_stored = reward.reward_per_token_stored + 0
          /\ 0 * liquidity + Undistributed(reward) <= Undistributed(reward)
        BY <1>1, <2>2
    <2> QED
        BY <2>1, <2>3
<1>5. CASE reward.initialized /\ liquidity > 0
    <2> DEFINE growth == MulDivDown(elapsed * rate, S, liquidity)
    <2>1. updated = [reward EXCEPT !.reward_per_token_stored = @ + growth,
                                   !.last_update_time = last]
        BY <1>5 DEF UpdateReward, AccumulateRewardPerTokenStored, UpdateLastUpdateTime,
                    GetSecondsElapsedSinceLastUpdate, RewardInfo
    <2> HIDE DEF growth
    <2>2. /\ updated.reward_per_token_stored = reward.reward_per_token_stored + growth
          /\ updated.last_update_time = last /\ updated.reward_rate = rate
          /\ updated.reward_duration_end = reward.reward_duration_end
          /\ updated.cumulative_seconds_with_empty_liquidity_reward = empty
        BY <2>1 DEF RewardInfo
    <2>3. Undistributed(updated) = (empty * rate + rate * left) * S
        BY <2>2 DEF Undistributed
    <2> HIDE DEF S, rate, empty, left, elapsed, updated
    <2>4. growth \in Nat /\ growth * liquidity <= (elapsed * rate) * S
        <3>1. elapsed * rate \in Nat /\ liquidity \in Nat \ {0}
            BY <1>1, <1>2, <1>5
        <3> QED
            BY <1>1, <3>1, MulDivDownType, MulDivDownCovered DEF growth
    <2>5. (empty * rate + rate * (elapsed + left)) * S
            = (elapsed * rate) * S + (empty * rate + rate * left) * S
        BY <1>1, <1>2
    <2>6. /\ growth * liquidity \in Int /\ (elapsed * rate) * S \in Int
          /\ (empty * rate + rate * left) * S \in Int
        BY <1>1, <1>2, <2>4
    <2>7. growth * liquidity + Undistributed(updated) <= Undistributed(reward)
        BY <1>3, <2>3, <2>4, <2>5, <2>6
    <2> QED
        BY <2>2, <2>4, <2>7 DEF updated
<1>6. CASE reward.initialized /\ ~(liquidity > 0)
    <2>1. updated = [reward EXCEPT !.cumulative_seconds_with_empty_liquidity_reward = @ + elapsed,
                                   !.last_update_time = last]
        BY <1>6 DEF UpdateReward, AccumulateEmptySeconds, UpdateLastUpdateTime,
                    GetSecondsElapsedSinceLastUpdate, RewardInfo
    <2>2. /\ updated.reward_per_token_stored = reward.reward_per_token_stored
          /\ updated.last_update_time = last /\ updated.reward_rate = rate
          /\ updated.reward_duration_end = reward.reward_duration_end
          /\ updated.cumulative_seconds_with_empty_liquidity_reward = empty + elapsed
        BY <2>1 DEF RewardInfo
    <2>3. Undistributed(updated) = ((empty + elapsed) * rate + rate * left) * S
        BY <2>2 DEF Undistributed
    <2> HIDE DEF S, rate, empty, left, elapsed, updated
    <2>4. (empty + elapsed) * rate + rate * left = empty * rate + rate * (elapsed + left)
        BY <1>1, <1>2
    <2>5. Undistributed(reward) \in Nat
        BY UndistributedType
    <2>6. /\ updated.reward_per_token_stored = reward.reward_per_token_stored + 0
          /\ 0 * liquidity + Undistributed(updated) <= Undistributed(reward)
        BY <1>1, <1>3, <2>2, <2>3, <2>4, <2>5
    <2> QED
        BY <2>6 DEF updated
<1> QED
    BY <1>4, <1>5, <1>6

(* The checked subtractions of update_rewards succeed for everybody.         *)
LEMMA RewardsCanUpdate ==
    ASSUME TypeOK, CheckpointsBehind
    PROVE  CanUpdateRewards
<1> SUFFICES ASSUME NEW i \in RewardIndex
             PROVE  GetSecondsElapsedSinceLastUpdate(rewards[i], clock) >= 0
    BY DEF CanUpdateRewards, CanUpdateReward
<1>1. /\ clock \in Nat /\ rewards[i].reward_duration_end \in Nat
      /\ rewards[i].last_update_time \in Nat
      /\ rewards[i].last_update_time <= rewards[i].reward_duration_end
      /\ rewards[i].last_update_time <= clock
    BY DEF TypeOK, RewardInfo, CheckpointsBehind
<1> QED
    BY <1>1 DEF GetSecondsElapsedSinceLastUpdate, LastTimeRewardApplicable

(* Rewards as an instruction leaves them, or updated to the current time.    *)
Current(infos) == infos = rewards \/ infos = UpdatedRewards

LEMMA CurrentRewards ==
    ASSUME TypeInv, CheckpointsBehind, CountInv, NEW infos, Current(infos)
    PROVE  /\ infos \in [RewardIndex -> RewardInfo]
           /\ \A i \in RewardIndex :
                 /\ Level(positions, infos[i], i) /\ Level(positions, rewards[i], i)
                 /\ infos[i].last_update_time <= infos[i].reward_duration_end
                 /\ infos[i].initialized = rewards[i].initialized
           /\ \A p \in DOMAIN positions : CanUpdatePositionReward(positions[p], infos)
<1>1. TypeOK /\ CanUpdateRewards
    BY RewardsCanUpdate DEF TypeInv
<1>2. infos \in [RewardIndex -> RewardInfo]
    BY <1>1, UpdatedRewardsType DEF Current, TypeOK
<1>3. ASSUME NEW i \in RewardIndex
      PROVE  /\ infos[i].initialized = rewards[i].initialized
             /\ infos[i].reward_per_token_stored \in Nat
             /\ rewards[i].reward_per_token_stored \in Nat
             /\ rewards[i].reward_per_token_stored <= infos[i].reward_per_token_stored
             /\ infos[i].last_update_time <= infos[i].reward_duration_end
    <2>1. /\ infos[i].reward_per_token_stored \in Nat
          /\ rewards[i].reward_per_token_stored \in Nat
        BY <1>1, <1>2 DEF TypeOK, RewardInfo
    <2>2. CASE infos = rewards
        BY <2>1, <2>2 DEF CheckpointsBehind
    <2>3. CASE infos = UpdatedRewards
        BY <1>1, <2>1, <2>3, UpdatedRewardsType, UpdatedRewardsBehind
    <2> QED
        BY <2>2, <2>3 DEF Current
<1>4. /\ IsFiniteSet(DOMAIN positions) /\ positions \in [DOMAIN positions -> PositionState]
      /\ \A p \in DOMAIN positions, i \in RewardIndex :
            /\ positions[p].reward_checkpoint[i] \in Nat
            /\ positions[p].reward_checkpoint[i] <= rewards[i].reward_per_token_stored
    BY <1>1 DEF CountInv, TypeOK, PositionState, CheckpointsBehind
<1>5. \A p \in DOMAIN positions, i \in RewardIndex :
        positions[p].reward_checkpoint[i] <= infos[i].reward_per_token_stored
    BY <1>3, <1>4
<1> QED
    BY <1>2, <1>3, <1>4, <1>5 DEF Level, CanUpdatePositionReward

LEMMA CurrentBacked ==
    ASSUME TypeInv, CheckpointsBehind, CountInv, OwnedInv, RewardInv, NEW infos, Current(infos),
           NEW i \in RewardIndex
    PROVE  /\ Backed(positions, infos[i], i, rewardVault[i])
           /\ ~infos[i].initialized => infos[i].reward_per_token_stored = 0
<1>1. CASE infos = rewards
    BY <1>1 DEF RewardInv
<1>2. CASE infos = UpdatedRewards
    <2> DEFINE D == DOMAIN positions
               reward == rewards[i]
               updated == infos[i]
               before == RewardClaims(positions, reward, i)
               after == RewardClaims(positions, updated, i)
    <2>1. /\ reward \in RewardInfo /\ updated \in RewardInfo
          /\ Level(positions, updated, i) /\ Level(positions, reward, i)
          /\ updated.last_update_time <= updated.reward_duration_end
        BY CurrentRewards DEF TypeInv, TypeOK
    <2>2. /\ updated = UpdateReward(reward, pool.liquidity, clock)
          /\ pool.liquidity \in Nat /\ clock \in Nat
          /\ reward.last_update_time <= reward.reward_duration_end
          /\ reward.last_update_time <= clock
        BY <1>2 DEF UpdatedRewards, TypeInv, TypeOK, PoolState, CheckpointsBehind
    <2> HIDE DEF reward, updated
    <2>3. PICK growth \in Nat :
            /\ updated.reward_per_token_stored = reward.reward_per_token_stored + growth
            /\ growth * pool.liquidity + Undistributed(updated) <= Undistributed(reward)
        BY <2>1, <2>2, UpdateDistributes
    <2>4. /\ before \in [D -> Int] /\ after \in [D -> Int]
          /\ SumFunction(before) \in Nat /\ SumFunction(after) \in Nat
          /\ \A p \in D : /\ before[p] = RewardClaim(positions[p], reward, i)
                          /\ after[p] = RewardClaim(positions[p], updated, i)
        BY <2>1, RewardClaimsType
    <2> HIDE DEF before, after
    <2>5. IsFiniteSet(D) /\ Held \in [D -> Int]
        BY HeldType DEF CountInv, TypeInv
    <2>6. \A p \in D : after[p] = growth * Held[p] + before[p]
        <3> TAKE p \in D
        <3> DEFINE liquidity == GetTotalLiquidity(positions[p])
                   T == TOTAL_REWARD_SCALE
                   pending == positions[p].reward_pending[i]
                   mark == positions[p].reward_checkpoint[i]
                   stored == reward.reward_per_token_stored
        <3>1. positions[p] \in PositionState
            BY DEF TypeInv, TypeOK
        <3>2. /\ liquidity \in Nat /\ T \in Nat /\ pending \in Nat /\ mark \in Nat
              /\ stored \in Nat /\ Held[p] = liquidity
            BY <2>1, <3>1, ScaleTypes, TotalLiquidityType DEF PositionState, RewardInfo, Held
        <3> DEFINE later == updated.reward_per_token_stored
        <3>3. /\ before[p] = pending * T + liquidity * (stored - mark)
              /\ after[p] = pending * T + liquidity * (later - mark)
            BY <2>4 DEF RewardClaim
        <3>4. later = stored + growth
            BY <2>3
        <3> HIDE DEF liquidity, T, pending, mark, stored, later
        <3>5. /\ liquidity * (later - mark) = liquidity * (stored - mark) + growth * liquidity
              /\ liquidity * (stored - mark) \in Int /\ growth * liquidity \in Int
              /\ pending * T \in Int
            BY <3>2, <3>4
        <3> QED
            BY <3>2, <3>3, <3>5
    <2>7. SumFunction(after) = growth * pool.liquidity + SumFunction(before)
        <3>1. pool.liquidity = SumFunctionOnSet(Held, D)
            BY <2>5 DEF OwnedInv, LiquidityIsOwned, SumFunction, Held
        <3>2. /\ growth \in Int /\ IsFiniteSet(D)
              /\ \A p \in D : /\ Held[p] \in Int /\ before[p] \in Int
                              /\ after[p] = growth * Held[p] + before[p]
            BY <2>4, <2>5, <2>6
        <3>3. SumFunctionOnSet(after, D)
                = growth * SumFunctionOnSet(Held, D) + SumFunctionOnSet(before, D)
            BY <3>2, SumLinear
        <3>4. DOMAIN after = D /\ DOMAIN before = D
            BY <2>4
        <3> QED
            BY <3>1, <3>3, <3>4 DEF SumFunction
    <2>8. /\ Undistributed(updated) \in Nat /\ Undistributed(reward) \in Nat
          /\ growth * pool.liquidity \in Nat /\ rewardVault[i] * TOTAL_REWARD_SCALE \in Nat
        BY <2>1, <2>2, UndistributedType, ScaleTypes DEF TypeInv, TypeOK
    <2>9. SumFunction(before) + Undistributed(reward) <= rewardVault[i] * TOTAL_REWARD_SCALE
        BY DEF RewardInv, Backed, before, reward
    <2>10. SumFunction(after) + Undistributed(updated) <= rewardVault[i] * TOTAL_REWARD_SCALE
        BY <2>3, <2>4, <2>7, <2>8, <2>9
    <2>11. ~updated.initialized => updated.reward_per_token_stored = 0
        <3>1. ~reward.initialized => updated = reward
            BY <2>2 DEF UpdateReward
        <3>2. updated.initialized = reward.initialized
            BY CurrentRewards DEF updated, reward
        <3> QED
            BY <3>1, <3>2 DEF RewardInv, reward
    <2> QED
        BY <2>10, <2>11 DEF Backed, after, updated
<1> QED
    BY <1>1, <1>2 DEF Current

(* Whole tokens, rounded down, of what a position may claim.                 *)
LEMMA UpdatedRewardPending ==
    ASSUME NEW position \in PositionState, NEW infos \in [RewardIndex -> RewardInfo],
           CanUpdatePositionReward(position, infos), NEW i \in RewardIndex,
           position.reward_checkpoint[i] <= infos[i].reward_per_token_stored
    PROVE  LET updated == UpdatePositionReward(position, infos)
           IN  /\ updated.reward_pending[i] \in Nat
               /\ updated.reward_pending[i] * TOTAL_REWARD_SCALE
                     <= RewardClaim(position, infos[i], i)
<1> DEFINE T == TOTAL_REWARD_SCALE
           liquidity == GetTotalLiquidity(position)
           growth == infos[i].reward_per_token_stored - position.reward_checkpoint[i]
           pending == position.reward_pending[i]
           new == MulDivDown(liquidity, growth, T)
           updated == UpdatePositionReward(position, infos)
<1>1. /\ T \in Nat \ {0} /\ liquidity \in Nat /\ pending \in Nat
      /\ infos[i].reward_per_token_stored \in Nat /\ position.reward_checkpoint[i] \in Nat
    BY ScaleTypes, TotalLiquidityType DEF PositionState, RewardInfo
<1>2. growth \in Nat
    BY <1>1
<1>3. updated.reward_pending[i] = IF infos[i].initialized THEN pending + new ELSE pending
    BY DEF UpdatePositionReward, PositionState
<1>4. RewardClaim(position, infos[i], i) = pending * T + liquidity * growth
    BY DEF RewardClaim
<1> HIDE DEF T, liquidity, growth, pending, updated
<1>5. new \in Nat /\ new * T <= liquidity * growth
    BY <1>1, <1>2, MulDivDownType, MulDivDownCovered
<1> HIDE DEF new
<1>6. /\ pending * T \in Nat /\ liquidity * growth \in Nat /\ new * T \in Nat
      /\ (pending + new) * T = pending * T + new * T
    BY <1>1, <1>2, <1>5
<1>7. updated.reward_pending[i] \in Nat
    BY <1>1, <1>3, <1>5
<1>8. updated.reward_pending[i] * T <= pending * T + liquidity * growth
    <2>1. CASE infos[i].initialized
        BY <1>3, <1>5, <1>6, <2>1
    <2>2. CASE ~infos[i].initialized
        BY <1>3, <1>6, <2>2
    <2> QED BY <2>1, <2>2
<1> QED
    BY <1>4, <1>7, <1>8 DEF T, updated

(* A position level with a reward claims what is pending, whatever its       *)
(* liquidity becomes.                                                        *)
LEMMA RewardClaimOfSettled ==
    ASSUME NEW position \in PositionState, NEW reward \in RewardInfo, NEW i \in RewardIndex,
           position.reward_checkpoint[i] = reward.reward_per_token_stored
    PROVE  RewardClaim(position, reward, i) = position.reward_pending[i] * TOTAL_REWARD_SCALE
<1>1. /\ GetTotalLiquidity(position) \in Nat /\ position.reward_pending[i] \in Nat
      /\ reward.reward_per_token_stored \in Nat /\ TOTAL_REWARD_SCALE \in Nat
    BY TotalLiquidityType, ScaleTypes DEF PositionState, RewardInfo
<1>2. reward.reward_per_token_stored - position.reward_checkpoint[i] = 0
    BY <1>1
<1>3. /\ GetTotalLiquidity(position) * 0 = 0
      /\ position.reward_pending[i] * TOTAL_REWARD_SCALE \in Int
    BY <1>1
<1> QED
    BY <1>2, <1>3 DEF RewardClaim

(* What a step may do to the rewards of an open position without giving it   *)
(* more: nothing, or settle them.                                            *)
RewardIntact(q) ==
    \/ /\ positions'[q].reward_pending = positions[q].reward_pending
       /\ positions'[q].reward_checkpoint = positions[q].reward_checkpoint
       /\ GetTotalLiquidity(positions'[q]) = GetTotalLiquidity(positions[q])
    \/ /\ positions'[q].reward_pending = UpdatePositionReward(positions[q], rewards').reward_pending
       /\ positions'[q].reward_checkpoint
            = UpdatePositionReward(positions[q], rewards').reward_checkpoint

(* After an update, a checkpoint is level with every reward: one that was    *)
(* never initialized has accumulated nothing.                                *)
LEMMA UpdateLevels ==
    ASSUME TypeInv, CheckpointsBehind, CountInv, OwnedInv, RewardInv, NEW infos, Current(infos),
           NEW p \in DOMAIN positions, NEW i \in RewardIndex
    PROVE  UpdatePositionReward(positions[p], infos).reward_checkpoint[i]
             = infos[i].reward_per_token_stored
<1>1. /\ infos \in [RewardIndex -> RewardInfo] /\ Level(positions, infos[i], i)
      /\ CanUpdatePositionReward(positions[p], infos) /\ positions[p] \in PositionState
    BY CurrentRewards DEF TypeInv, TypeOK
<1>2. UpdatePositionReward(positions[p], infos).reward_checkpoint[i]
        = IF infos[i].initialized THEN infos[i].reward_per_token_stored
                                  ELSE positions[p].reward_checkpoint[i]
    BY <1>1, UpdatePositionRewardType
<1>3. ~infos[i].initialized => infos[i].reward_per_token_stored = 0
    BY CurrentBacked
<1>4. /\ positions[p].reward_checkpoint[i] <= infos[i].reward_per_token_stored
      /\ positions[p].reward_checkpoint[i] \in Nat
    BY <1>1 DEF Level, PositionState
<1> QED
    BY <1>2, <1>3, <1>4

LEMMA RewardClaimFalls ==
    ASSUME TypeInv, TypeInv', CheckpointsBehind, CountInv, OwnedInv, RewardInv, Current(rewards'),
           NEW q \in DOMAIN positions, q \in DOMAIN positions', RewardIntact(q),
           NEW i \in RewardIndex
    PROVE  RewardClaim(positions'[q], rewards'[i], i) <= RewardClaim(positions[q], rewards'[i], i)
<1>1. /\ rewards' \in [RewardIndex -> RewardInfo] /\ Level(positions, rewards'[i], i)
      /\ CanUpdatePositionReward(positions[q], rewards')
      /\ positions[q] \in PositionState /\ positions'[q] \in PositionState
    BY CurrentRewards DEF TypeInv, TypeOK
<1>2. positions[q].reward_checkpoint[i] <= rewards'[i].reward_per_token_stored
    BY <1>1 DEF Level
<1>3. CASE /\ positions'[q].reward_pending = positions[q].reward_pending
           /\ positions'[q].reward_checkpoint = positions[q].reward_checkpoint
           /\ GetTotalLiquidity(positions'[q]) = GetTotalLiquidity(positions[q])
    <2>1. RewardClaim(positions'[q], rewards'[i], i) = RewardClaim(positions[q], rewards'[i], i)
        BY <1>3 DEF RewardClaim
    <2>2. RewardClaim(positions[q], rewards'[i], i) \in Nat
        BY <1>1, <1>2, RewardClaimType
    <2> QED
        BY <2>1, <2>2
<1>4. CASE /\ positions'[q].reward_pending
                = UpdatePositionReward(positions[q], rewards').reward_pending
           /\ positions'[q].reward_checkpoint
                = UpdatePositionReward(positions[q], rewards').reward_checkpoint
    <2>1. positions'[q].reward_checkpoint[i] = rewards'[i].reward_per_token_stored
        BY <1>4, UpdateLevels
    <2>2. RewardClaim(positions'[q], rewards'[i], i)
            = positions'[q].reward_pending[i] * TOTAL_REWARD_SCALE
        BY <1>1, <2>1, RewardClaimOfSettled
    <2>3. positions'[q].reward_pending[i] * TOTAL_REWARD_SCALE
            <= RewardClaim(positions[q], rewards'[i], i)
        BY <1>1, <1>2, <1>4, UpdatedRewardPending
    <2> QED
        BY <2>2, <2>3
<1> QED
    BY <1>3, <1>4 DEF RewardIntact

LEMMA LevelNext ==
    ASSUME TypeInv', CheckpointsBehind', CountInv', NEW i \in RewardIndex
    PROVE  /\ rewards'[i] \in RewardInfo /\ Level(positions', rewards'[i], i)
           /\ rewards'[i].last_update_time <= rewards'[i].reward_duration_end
           /\ rewardVault'[i] \in Nat
BY DEF TypeInv, TypeOK, CheckpointsBehind, CountInv, Level

LEMMA IntactBacked ==
    ASSUME TypeInv, TypeInv', CheckpointsBehind, CheckpointsBehind', CountInv, CountInv',
           OwnedInv, RewardInv, Current(rewards'), DOMAIN positions' = DOMAIN positions,
           \A q \in DOMAIN positions : RewardIntact(q), NEW i \in RewardIndex,
           rewardVault'[i] = rewardVault[i]
    PROVE  Backed(positions', rewards'[i], i, rewardVault'[i])
<1>1. /\ rewards'[i] \in RewardInfo /\ Level(positions', rewards'[i], i)
      /\ rewards'[i].last_update_time <= rewards'[i].reward_duration_end
      /\ rewardVault'[i] \in Nat
    BY LevelNext
<1>2. Level(positions, rewards'[i], i)
    BY CurrentRewards
<1>3. Backed(positions, rewards'[i], i, rewardVault'[i])
    BY CurrentBacked
<1>4. \A q \in DOMAIN positions :
        RewardClaim(positions'[q], rewards'[i], i) <= RewardClaim(positions[q], rewards'[i], i)
    BY RewardClaimFalls
<1> QED
    BY <1>1, <1>2, <1>3, <1>4, FewerClaims

LEMMA IntactRewards ==
    ASSUME TypeInv, TypeInv', CheckpointsBehind, CheckpointsBehind', CountInv, CountInv',
           OwnedInv, RewardInv, Current(rewards'), DOMAIN positions' = DOMAIN positions,
           \A q \in DOMAIN positions : RewardIntact(q), rewardVault' = rewardVault
    PROVE  RewardInv'
<1>1. \A i \in RewardIndex : Backed(positions', rewards'[i], i, rewardVault'[i])
    BY IntactBacked
<1>2. \A i \in RewardIndex :
        ~rewards'[i].initialized => rewards'[i].reward_per_token_stored = 0
    BY CurrentBacked
<1> QED
    BY <1>1, <1>2 DEF RewardInv

LEMMA OneRewardIntact ==
    ASSUME NEW p \in DOMAIN positions, NEW position,
           positions' = [positions EXCEPT ![p] = position], RewardIntact(p)
    PROVE  DOMAIN positions' = DOMAIN positions /\ \A q \in DOMAIN positions : RewardIntact(q)
<1>1. \A q \in DOMAIN positions \ {p} : positions'[q] = positions[q]
    OBVIOUS
<1>2. \A q \in DOMAIN positions \ {p} : RewardIntact(q)
    BY <1>1 DEF RewardIntact
<1> QED
    BY <1>2

(* Settling the fees leaves the rewards alone.                               *)
LEMMA SettledRewards ==
    ASSUME TypeOK, CanUpdateRewards, rewards' = UpdatedRewards,
           NEW p \in DOMAIN positions, CanSettle(p)
    PROVE  /\ Settled(p).reward_pending = UpdatePositionReward(positions[p], rewards').reward_pending
           /\ Settled(p).reward_checkpoint
                = UpdatePositionReward(positions[p], rewards').reward_checkpoint
<1> DEFINE rewarded == UpdatePositionReward(positions[p], rewards')
<1>1. rewarded \in PositionState
    <2>1. rewards' \in [RewardIndex -> RewardInfo] /\ positions[p] \in PositionState
        BY UpdatedRewardsType DEF TypeOK
    <2> QED
        BY <2>1, UpdatePositionRewardType DEF CanSettle
<1>2. Settled(p) = UpdateFee(rewarded, pool.fee_per_liquidity)
    BY DEF Settled
<1> HIDE DEF rewarded
<1>3. /\ Settled(p).reward_pending = rewarded.reward_pending
      /\ Settled(p).reward_checkpoint = rewarded.reward_checkpoint
    BY <1>1, <1>2 DEF UpdateFee, PositionState
<1> QED
    BY <1>3 DEF rewarded

(* Locks and releases move liquidity within a position.                      *)
LEMMA MovedWithin ==
    ASSUME NEW position \in PositionState, NEW amount \in Int, NEW moved,
           moved \in {Lock(position, amount), PermanentLockLiquidity(position, amount),
                      ReleaseVestedLiquidity(position, amount)}
    PROVE  /\ moved.reward_pending = position.reward_pending
           /\ moved.reward_checkpoint = position.reward_checkpoint
           /\ GetTotalLiquidity(moved) = GetTotalLiquidity(position)
<1> DEFINE u == position.unlocked_liquidity
           v == position.vested_liquidity
           w == position.permanent_locked_liquidity
<1>1. u \in Int /\ v \in Int /\ w \in Int
    BY DEF PositionState
<1>2. /\ moved.reward_pending = position.reward_pending
      /\ moved.reward_checkpoint = position.reward_checkpoint
    BY DEF Lock, PermanentLockLiquidity, ReleaseVestedLiquidity, PositionState
<1>3. \/ /\ moved.unlocked_liquidity = u - amount /\ moved.vested_liquidity = v + amount
         /\ moved.permanent_locked_liquidity = w
      \/ /\ moved.unlocked_liquidity = u - amount /\ moved.vested_liquidity = v
         /\ moved.permanent_locked_liquidity = w + amount
      \/ /\ moved.unlocked_liquidity = u + amount /\ moved.vested_liquidity = v - amount
         /\ moved.permanent_locked_liquidity = w
    BY DEF Lock, PermanentLockLiquidity, ReleaseVestedLiquidity, PositionState
<1>4. GetTotalLiquidity(moved) = u + v + w
    BY <1>1, <1>3 DEF GetTotalLiquidity
<1> QED
    BY <1>2, <1>4 DEF GetTotalLiquidity
-----------------------------------------------------------------------------
(* The invariants proved above that every step may rely on.                  *)
SafeInv == TypeInv /\ CheckpointsBehind /\ CountInv /\ OwnedInv

LEMMA UntouchedRewards ==
    ASSUME SafeInv, SafeInv', RewardInv, positions' = positions, rewards' = rewards,
           rewardVault' = rewardVault
    PROVE  RewardInv'
BY DEF RewardInv

LEMMA LiquiditySettles ==
    ASSUME SafeInv, NEW p \in PositionId, NEW delta \in Nat, NEW threshold,
           AddLiquidity(p, delta, threshold) \/ RemoveLiquidity(p, delta, threshold)
    PROVE  /\ rewards' = UpdatedRewards /\ rewardVault' = rewardVault
           /\ DOMAIN positions' = DOMAIN positions /\ \A q \in DOMAIN positions : RewardIntact(q)
<1>1. /\ TypeOK /\ CanUpdateRewards /\ rewards' = UpdatedRewards /\ p \in DOMAIN positions
      /\ CanSettle(p) /\ rewardVault' = rewardVault
    BY DEF SafeInv, TypeInv, AddLiquidity, RemoveLiquidity
<1>2. PICK position :
        /\ positions' = [positions EXCEPT ![p] = position]
        /\ position \in {AddLiquidityTo(Settled(p), delta), RemoveUnlockedLiquidity(Settled(p), delta)}
    BY DEF AddLiquidity, RemoveLiquidity
<1>3. Settled(p) \in PositionState
    BY <1>1, SettledType
<1>4. /\ positions'[p].reward_pending = Settled(p).reward_pending
      /\ positions'[p].reward_checkpoint = Settled(p).reward_checkpoint
    BY <1>1, <1>2, <1>3 DEF AddLiquidityTo, RemoveUnlockedLiquidity, PositionState
<1>5. RewardIntact(p)
    BY <1>1, <1>4, SettledRewards DEF RewardIntact
<1>6. DOMAIN positions' = DOMAIN positions /\ \A q \in DOMAIN positions : RewardIntact(q)
    BY <1>1, <1>2, <1>5, OneRewardIntact
<1> QED
    BY <1>1, <1>6

LEMMA LiquidityRewards ==
    ASSUME SafeInv, SafeInv', RewardInv, NEW p \in PositionId, NEW delta \in Nat, NEW threshold,
           AddLiquidity(p, delta, threshold) \/ RemoveLiquidity(p, delta, threshold)
    PROVE  RewardInv'
BY LiquiditySettles, IntactRewards DEF SafeInv, Current

(* Locks, releases and claimed fees leave rewards and liquidity alone.       *)
RewardFieldsKept ==
    /\ rewards' = rewards /\ rewardVault' = rewardVault
    /\ DOMAIN positions' = DOMAIN positions
    /\ \A q \in DOMAIN positions :
          /\ positions'[q].reward_pending = positions[q].reward_pending
          /\ positions'[q].reward_checkpoint = positions[q].reward_checkpoint
          /\ GetTotalLiquidity(positions'[q]) = GetTotalLiquidity(positions[q])

LEMMA SameFields ==
    ASSUME NEW p \in DOMAIN positions, NEW position,
           positions' = [positions EXCEPT ![p] = position],
           position.reward_pending = positions[p].reward_pending,
           position.reward_checkpoint = positions[p].reward_checkpoint,
           GetTotalLiquidity(position) = GetTotalLiquidity(positions[p]),
           rewards' = rewards, rewardVault' = rewardVault
    PROVE  RewardFieldsKept
<1>1. /\ positions'[p] = position /\ DOMAIN positions' = DOMAIN positions
      /\ \A q \in DOMAIN positions \ {p} : positions'[q] = positions[q]
    OBVIOUS
<1> QED
    BY <1>1 DEF RewardFieldsKept

LEMMA SameRewards ==
    ASSUME SafeInv, SafeInv', RewardInv, RewardFieldsKept
    PROVE  RewardInv'
<1>1. \A q \in DOMAIN positions : RewardIntact(q)
    BY DEF RewardFieldsKept, RewardIntact
<1> QED
    BY <1>1, IntactRewards DEF RewardFieldsKept, SafeInv, Current

LEMMA ClaimPositionFeeFields ==
    ASSUME SafeInv, NEW p \in PositionId, ClaimPositionFee(p)
    PROVE  RewardFieldsKept
<1> DEFINE updated == UpdateFee(positions[p], pool.fee_per_liquidity)
           position == [updated EXCEPT !.fee_pending = NoTokens]
<1>1. /\ p \in DOMAIN positions /\ positions' = [positions EXCEPT ![p] = position]
      /\ rewards' = rewards /\ rewardVault' = rewardVault
    BY DEF ClaimPositionFee
<1>2. positions[p] \in PositionState
    BY <1>1 DEF SafeInv, TypeInv, TypeOK
<1>3. /\ position.reward_pending = positions[p].reward_pending
      /\ position.reward_checkpoint = positions[p].reward_checkpoint
      /\ GetTotalLiquidity(position) = GetTotalLiquidity(positions[p])
    BY <1>2 DEF UpdateFee, PositionState, GetTotalLiquidity
<1> HIDE DEF position
<1> QED
    BY <1>1, <1>3, SameFields

LEMMA LockPositionFields ==
    ASSUME SafeInv, NEW p \in PositionId, NEW v,
           NEW params \in VestingParameters, NEW cliff_point, LockPosition(p, v, params, cliff_point)
    PROVE  RewardFieldsKept
<1> DEFINE amount == GetTotalLockAmount(params)
           position == Lock(positions[p], amount)
<1>1. /\ p \in DOMAIN positions /\ positions' = [positions EXCEPT ![p] = position]
      /\ rewards' = rewards /\ rewardVault' = rewardVault
    BY DEF LockPosition
<1>2. positions[p] \in PositionState /\ amount \in Int
    BY <1>1, TotalLockType DEF SafeInv, TypeInv, TypeOK, VestingParameters
<1> HIDE DEF amount
<1>3. /\ position.reward_pending = positions[p].reward_pending
      /\ position.reward_checkpoint = positions[p].reward_checkpoint
      /\ GetTotalLiquidity(position) = GetTotalLiquidity(positions[p])
    BY <1>2, MovedWithin
<1> HIDE DEF position
<1> QED
    BY <1>1, <1>3, SameFields

LEMMA RefreshVestingFields ==
    ASSUME SafeInv, NEW v \in VestingId, RefreshVesting(v)
    PROVE  RewardFieldsKept
<1> DEFINE p == vestings[v].position
           amount == GetNewReleaseLiquidity(vestings[v], clock)
           position == ReleaseVestedLiquidity(positions[p], amount)
<1>1. /\ p \in DOMAIN positions /\ positions' = [positions EXCEPT ![p] = position]
      /\ rewards' = rewards /\ rewardVault' = rewardVault
    BY DEF RefreshVesting
<1>2. positions[p] \in PositionState
    BY <1>1 DEF SafeInv, TypeInv, TypeOK
<1>3. amount \in Int
    <2>1. vestings[v] \in VestingState
        BY DEF SafeInv, TypeInv, TypeOK, RefreshVesting
    <2>2. /\ GetMaxUnlockedLiquidity(vestings[v], clock) \in Nat
          /\ vestings[v].total_released_liquidity \in Nat
        BY <2>1, MaxUnlockedType DEF VestingState, SafeInv, TypeInv, TypeOK
    <2> QED
        BY <2>2 DEF GetNewReleaseLiquidity
<1> HIDE DEF amount, p
<1>4. /\ position.reward_pending = positions[p].reward_pending
      /\ position.reward_checkpoint = positions[p].reward_checkpoint
      /\ GetTotalLiquidity(position) = GetTotalLiquidity(positions[p])
    BY <1>2, <1>3, MovedWithin
<1> HIDE DEF position
<1> QED
    BY <1>1, <1>4, SameFields

LEMMA PermanentLockFields ==
    ASSUME SafeInv, NEW p \in PositionId, NEW amount \in Nat,
           PermanentLockPosition(p, amount)
    PROVE  RewardFieldsKept
<1> DEFINE position == PermanentLockLiquidity(positions[p], amount)
<1>1. /\ p \in DOMAIN positions /\ positions' = [positions EXCEPT ![p] = position]
      /\ rewards' = rewards /\ rewardVault' = rewardVault
    BY DEF PermanentLockPosition
<1>2. positions[p] \in PositionState
    BY <1>1 DEF SafeInv, TypeInv, TypeOK
<1>3. /\ position.reward_pending = positions[p].reward_pending
      /\ position.reward_checkpoint = positions[p].reward_checkpoint
      /\ GetTotalLiquidity(position) = GetTotalLiquidity(positions[p])
    BY <1>2, MovedWithin
<1> HIDE DEF position
<1> QED
    BY <1>1, <1>3, SameFields

LEMMA CreatePositionRewards ==
    ASSUME SafeInv, SafeInv', RewardInv, NEW p \in PositionId, CreatePosition(p)
    PROVE  RewardInv'
<1>1. /\ p \notin DOMAIN positions /\ DOMAIN positions' = DOMAIN positions \cup {p}
      /\ positions'[p] = NewPosition(0) /\ rewards' = rewards /\ rewardVault' = rewardVault
      /\ \A q \in DOMAIN positions : positions'[q] = positions[q]
    BY DEF CreatePosition, Put
<1>2. IsFiniteSet(DOMAIN positions)
    BY DEF SafeInv, CountInv
<1>3. ASSUME NEW i \in RewardIndex
      PROVE  Backed(positions', rewards'[i], i, rewardVault'[i])
    <2> DEFINE reward == rewards[i]
               before == RewardClaims(positions, reward, i)
               after == RewardClaims(positions', reward, i)
    <2>1. /\ reward \in RewardInfo /\ Level(positions, reward, i) /\ Level(positions', reward, i)
        BY <1>1, CurrentRewards, LevelNext DEF SafeInv, Current
    <2>2. /\ before \in [DOMAIN positions -> Int] /\ after \in [DOMAIN positions' -> Int]
          /\ SumFunction(before) \in Nat
          /\ after[p] = RewardClaim(NewPosition(0), reward, i)
          /\ \A q \in DOMAIN positions : after[q] = before[q]
        BY <1>1, <2>1, RewardClaimsType
    <2>3. after[p] = 0
        <3>1. /\ NewPosition(0).reward_pending[i] = 0 /\ GetTotalLiquidity(NewPosition(0)) = 0
              /\ NewPosition(0).reward_checkpoint[i] = 0
            BY DEF NewPosition, GetTotalLiquidity
        <3>2. reward.reward_per_token_stored \in Nat /\ TOTAL_REWARD_SCALE \in Nat
            BY <2>1, ScaleTypes DEF RewardInfo
        <3> QED
            BY <2>2, <3>1, <3>2 DEF RewardClaim
    <2> HIDE DEF before, after
    <2>4. SumFunction(after) = SumFunction(before) + after[p]
        <3>1. p \notin DOMAIN positions /\ DOMAIN positions' = DOMAIN positions \cup {p}
            BY <1>1
        <3> QED
            BY <1>2, <2>2, <3>1, SumGrow, Z3
    <2>5. SumFunction(after) = SumFunction(before)
        BY <2>2, <2>3, <2>4
    <2>6. Backed(positions, reward, i, rewardVault[i])
        BY DEF RewardInv
    <2> QED
        BY <1>1, <2>5, <2>6 DEF Backed, before, after
<1> QED
    BY <1>1, <1>3 DEF RewardInv

LEMMA ClosePositionRewards ==
    ASSUME SafeInv, SafeInv', RewardInv, NEW p \in PositionId, ClosePosition(p)
    PROVE  RewardInv'
<1>1. /\ p \in DOMAIN positions /\ DOMAIN positions' = DOMAIN positions \ {p}
      /\ rewards' = rewards /\ rewardVault' = rewardVault
      /\ \A q \in DOMAIN positions' : positions'[q] = positions[q]
    BY DEF ClosePosition, Drop
<1>2. IsFiniteSet(DOMAIN positions)
    BY DEF SafeInv, CountInv
<1>3. ASSUME NEW i \in RewardIndex
      PROVE  Backed(positions', rewards'[i], i, rewardVault'[i])
    <2> DEFINE reward == rewards[i]
               before == RewardClaims(positions, reward, i)
               after == RewardClaims(positions', reward, i)
    <2>1. /\ reward \in RewardInfo /\ Level(positions, reward, i) /\ Level(positions', reward, i)
          /\ reward.last_update_time <= reward.reward_duration_end /\ rewardVault[i] \in Nat
        BY <1>1, CurrentRewards, LevelNext DEF SafeInv, Current
    <2>2. /\ before \in [DOMAIN positions -> Int] /\ after \in [DOMAIN positions' -> Int]
          /\ SumFunction(before) \in Nat /\ before[p] \in Nat
          /\ \A q \in DOMAIN positions' : after[q] = before[q]
        BY <1>1, <2>1, RewardClaimsType
    <2> HIDE DEF before, after
    <2>3. SumFunction(after) = SumFunction(before) - before[p]
        <3>1. p \in DOMAIN positions /\ DOMAIN positions' = DOMAIN positions \ {p}
            BY <1>1
        <3> QED
            BY <1>2, <2>2, <3>1, SumShrink, Z3
    <2>4. SumFunction(before) + Undistributed(reward) <= rewardVault[i] * TOTAL_REWARD_SCALE
        BY DEF RewardInv, Backed, before
    <2>5. Undistributed(reward) \in Nat /\ rewardVault[i] * TOTAL_REWARD_SCALE \in Nat
        BY <2>1, UndistributedType, ScaleTypes
    <2>6. SumFunction(after) + Undistributed(reward) <= rewardVault[i] * TOTAL_REWARD_SCALE
        BY <2>2, <2>3, <2>4, <2>5
    <2> QED
        BY <1>1, <2>6 DEF Backed, after
<1> QED
    BY <1>1, <1>3 DEF RewardInv

(* split_position moves pending rewards of settled positions.                *)
LEMMA SplitPositionRewards ==
    ASSUME SafeInv, SafeInv', RewardInv, NEW p \in PositionId, NEW r \in PositionId,
           NEW numerators \in SplitParameters, SplitPosition(p, r, numerators)
    PROVE  RewardInv'
<1>1. /\ TypeInv /\ TypeOK /\ CanUpdateRewards /\ rewards' = UpdatedRewards /\ p # r
      /\ p \in DOMAIN positions /\ r \in DOMAIN positions /\ CanSettle(p) /\ CanSettle(r)
      /\ rewardVault' = rewardVault /\ Current(rewards') /\ IsFiniteSet(DOMAIN positions)
    BY DEF SafeInv, TypeInv, SplitPosition, Current, CountInv
<1>2. PICK share \in Shares :
        positions' = [positions EXCEPT ![p] = TakeShare(Settled(p), share),
                                       ![r] = GiveShare(Settled(r), share)]
    BY <1>1, SplitComputes
<1>3. /\ DOMAIN positions' = DOMAIN positions
      /\ positions'[p] = TakeShare(Settled(p), share)
      /\ positions'[r] = GiveShare(Settled(r), share)
      /\ \A q \in DOMAIN positions \ {p, r} : positions'[q] = positions[q]
    BY <1>1, <1>2
<1>4. Settled(p) \in PositionState /\ Settled(r) \in PositionState
    BY <1>1, SettledType
<1>5. ASSUME NEW i \in RewardIndex
      PROVE  Backed(positions', rewards'[i], i, rewardVault'[i])
    <2> DEFINE reward == rewards'[i]
               before == RewardClaims(positions, reward, i)
               after == RewardClaims(positions', reward, i)
               T == TOTAL_REWARD_SCALE
               x == Settled(p).reward_pending[i]
               y == Settled(r).reward_pending[i]
               s == share.reward[i]
    <2>1. /\ reward \in RewardInfo /\ Level(positions, reward, i) /\ Level(positions', reward, i)
          /\ reward.last_update_time <= reward.reward_duration_end /\ rewardVault[i] \in Nat
          /\ rewards' \in [RewardIndex -> RewardInfo]
          /\ CanUpdatePositionReward(positions[p], rewards')
          /\ CanUpdatePositionReward(positions[r], rewards')
        BY <1>1, CurrentRewards, LevelNext DEF SafeInv
    <2>2. /\ before \in [DOMAIN positions -> Int] /\ after \in [DOMAIN positions -> Int]
          /\ SumFunction(before) \in Nat
          /\ before[p] = RewardClaim(positions[p], reward, i)
          /\ before[r] = RewardClaim(positions[r], reward, i)
          /\ after[p] = RewardClaim(positions'[p], reward, i)
          /\ after[r] = RewardClaim(positions'[r], reward, i)
          /\ \A q \in DOMAIN positions \ {p, r} : after[q] = before[q]
        BY <1>1, <1>3, <2>1, RewardClaimsType
    <2>3. /\ positions[p] \in PositionState /\ positions[r] \in PositionState
          /\ positions'[p] \in PositionState /\ positions'[r] \in PositionState
          /\ positions[p].reward_checkpoint[i] <= reward.reward_per_token_stored
          /\ positions[r].reward_checkpoint[i] <= reward.reward_per_token_stored
        BY <1>1, <1>3, <2>1 DEF Level
    <2>4. /\ x \in Nat /\ x * T <= before[p]
          /\ y \in Nat /\ y * T <= before[r]
        BY <1>1, <2>1, <2>2, <2>3, SettledRewards, UpdatedRewardPending
    <2>5. /\ positions'[p].reward_checkpoint[i] = reward.reward_per_token_stored
          /\ positions'[r].reward_checkpoint[i] = reward.reward_per_token_stored
        <3>1. /\ positions'[p].reward_checkpoint = Settled(p).reward_checkpoint
              /\ positions'[r].reward_checkpoint = Settled(r).reward_checkpoint
            BY <1>3, <1>4 DEF TakeShare, GiveShare, PositionState
        <3>2. /\ Settled(p).reward_checkpoint[i] = reward.reward_per_token_stored
              /\ Settled(r).reward_checkpoint[i] = reward.reward_per_token_stored
            BY <1>1, SettledRewards, UpdateLevels DEF SafeInv
        <3> QED
            BY <3>1, <3>2
    <2>6. positions'[p].reward_pending[i] = x - s /\ positions'[r].reward_pending[i] = y + s
        BY <1>3, <1>4 DEF TakeShare, GiveShare, PositionState
    <2>7. after[p] = (x - s) * T /\ after[r] = (y + s) * T
        BY <2>1, <2>2, <2>3, <2>5, <2>6, RewardClaimOfSettled
    <2>8. s \in Nat /\ T \in Nat
        BY ScaleTypes DEF Shares
    <2> HIDE DEF reward, before, after, T, x, y, s
    <2>9. after[p] + after[r] <= before[p] + before[r]
        <3>1. (x - s) * T + (y + s) * T = x * T + y * T /\ x * T \in Int /\ y * T \in Int
            BY <2>4, <2>8
        <3>2. before[p] \in Int /\ before[r] \in Int
            BY <1>1, <2>2
        <3> QED
            BY <2>4, <2>7, <3>1, <3>2
    <2>10. SumFunction(after) = SumFunction(before) + (after[p] - before[p]) + (after[r] - before[r])
        BY <1>1, <2>2, SumChangeTwo
    <2>11. /\ before[p] \in Int /\ before[r] \in Int /\ after[p] \in Int /\ after[r] \in Int
        BY <1>1, <2>2
    <2>12. SumFunction(after) <= SumFunction(before) /\ SumFunction(after) \in Int
        BY <2>2, <2>9, <2>10, <2>11
    <2>13. SumFunction(before) + Undistributed(reward) <= rewardVault[i] * T
        BY <1>1, CurrentBacked DEF SafeInv, Backed, before, reward, T
    <2>14. Undistributed(reward) \in Nat /\ rewardVault[i] * T \in Nat
        BY <2>1, <2>8, UndistributedType
    <2>15. SumFunction(after) + Undistributed(reward) <= rewardVault[i] * T
        BY <2>2, <2>12, <2>13, <2>14
    <2> QED
        BY <1>1, <2>15 DEF Backed, after, reward, T
<1>6. \A i \in RewardIndex :
        ~rewards'[i].initialized => rewards'[i].reward_per_token_stored = 0
    BY <1>1, CurrentBacked DEF SafeInv
<1> QED
    BY <1>5, <1>6 DEF RewardInv

LEMMA ClaimRewardRewards ==
    ASSUME SafeInv, SafeInv', RewardInv, NEW p \in PositionId, NEW i \in RewardIndex,
           NEW skip_reward, ClaimReward(p, i, skip_reward)
    PROVE  RewardInv'
<1> DEFINE updated == UpdatePositionReward(positions[p], rewards')
           payout == IF rewardVaultFrozen[i] THEN 0 ELSE updated.reward_pending[i]
           position == [updated EXCEPT !.reward_pending[i] = 0]
<1>1. /\ p \in DOMAIN positions /\ rewards' = UpdatedRewards /\ Current(rewards')
      /\ positions' = [positions EXCEPT ![p] = position] /\ payout <= rewardVault[i]
      /\ rewardVault' = [rewardVault EXCEPT ![i] = rewardVault[i] - payout]
    BY DEF ClaimReward, Current
<1>2. /\ rewards' \in [RewardIndex -> RewardInfo] /\ positions[p] \in PositionState
      /\ CanUpdatePositionReward(positions[p], rewards') /\ IsFiniteSet(DOMAIN positions)
      /\ rewardVault \in [RewardIndex -> Nat]
    BY <1>1, CurrentRewards DEF SafeInv, TypeInv, TypeOK, CountInv
<1>3. updated \in PositionState
    BY <1>2, UpdatePositionRewardType
<1>4. /\ DOMAIN positions' = DOMAIN positions /\ positions'[p] = position
      /\ \A q \in DOMAIN positions \ {p} : positions'[q] = positions[q]
      /\ rewardVault'[i] = rewardVault[i] - payout
      /\ \A j \in RewardIndex \ {i} : rewardVault'[j] = rewardVault[j]
    BY <1>1, <1>2
<1> HIDE DEF updated, payout
<1>5. /\ position.reward_checkpoint = updated.reward_checkpoint
      /\ position.reward_pending[i] = 0
      /\ \A j \in RewardIndex \ {i} : position.reward_pending[j] = updated.reward_pending[j]
      /\ GetTotalLiquidity(position) = GetTotalLiquidity(updated)
    BY <1>3 DEF PositionState, GetTotalLiquidity
<1> HIDE DEF position
<1>6. ASSUME NEW j \in RewardIndex
      PROVE  Backed(positions', rewards'[j], j, rewardVault'[j])
    <2> DEFINE reward == rewards'[j]
               before == RewardClaims(positions, reward, j)
               after == RewardClaims(positions', reward, j)
               T == TOTAL_REWARD_SCALE
               paid == rewardVault[j] - rewardVault'[j]
    <2>1. /\ reward \in RewardInfo /\ Level(positions, reward, j) /\ Level(positions', reward, j)
          /\ reward.last_update_time <= reward.reward_duration_end
          /\ rewardVault[j] \in Nat /\ rewardVault'[j] \in Nat
        BY <1>1, <1>2, CurrentRewards, LevelNext DEF SafeInv
    <2>2. /\ before \in [DOMAIN positions -> Int] /\ after \in [DOMAIN positions -> Int]
          /\ SumFunction(before) \in Nat
          /\ before[p] = RewardClaim(positions[p], reward, j)
          /\ after[p] = RewardClaim(position, reward, j)
          /\ \A q \in DOMAIN positions \ {p} : after[q] = before[q]
        <3>1. /\ before \in [DOMAIN positions -> Int] /\ SumFunction(before) \in Nat
              /\ \A q \in DOMAIN positions : before[q] = RewardClaim(positions[q], reward, j)
            BY <2>1, RewardClaimsType
        <3>2. /\ after \in [DOMAIN positions' -> Int]
              /\ \A q \in DOMAIN positions' : after[q] = RewardClaim(positions'[q], reward, j)
            BY <2>1, RewardClaimsType
        <3> HIDE DEF before, after, reward
        <3> QED
            BY <1>1, <1>4, <3>1, <3>2
    <2>3. /\ updated.reward_pending[j] \in Nat
          /\ updated.reward_pending[j] * T <= before[p]
        <3>1. positions[p].reward_checkpoint[j] <= reward.reward_per_token_stored
            BY <1>1, <2>1 DEF Level
        <3> QED
            BY <1>2, <2>2, <3>1, UpdatedRewardPending DEF updated
    <2>4. after[p] = position.reward_pending[j] * T
        <3>1. position.reward_checkpoint[j] = reward.reward_per_token_stored
            BY <1>1, <1>5, UpdateLevels DEF SafeInv, updated
        <3>2. position \in PositionState
            BY <1>1, <1>4, <2>1 DEF Level
        <3> QED
            BY <2>1, <2>2, <3>1, <3>2, RewardClaimOfSettled
    <2>5. /\ position.reward_pending[j] \in Nat /\ paid \in Nat
          /\ position.reward_pending[j] + paid <= updated.reward_pending[j]
        <3>1. CASE j = i
            <4>1. payout = 0 \/ payout = updated.reward_pending[i]
                BY DEF payout
            <4>2. /\ updated.reward_pending[i] \in Nat /\ position.reward_pending[j] = 0
                  /\ rewardVault[j] \in Nat /\ rewardVault'[j] = rewardVault[j] - payout
                BY <1>4, <1>5, <2>1, <2>3, <3>1
            <4>3. paid = payout
                BY <4>1, <4>2
            <4> HIDE DEF paid
            <4> QED
                BY <3>1, <4>1, <4>2, <4>3
        <3>2. CASE j # i
            BY <1>4, <1>5, <2>1, <2>3, <3>2
        <3> QED
            BY <3>1, <3>2
    <2>6. T \in Nat
        BY ScaleTypes
    <2>p. rewardVault'[j] = rewardVault[j] - paid
        BY <2>1
    <2> HIDE DEF reward, before, after, T, paid
    <2>7. after[p] + paid * T <= before[p]
        <3> DEFINE z == position.reward_pending[j]
                   u == updated.reward_pending[j]
        <3>1. z \in Nat /\ u \in Nat /\ z + paid <= u /\ u * T <= before[p] /\ after[p] = z * T
            BY <2>3, <2>4, <2>5
        <3> HIDE DEF z, u
        <3>2. T * (z + paid) <= T * u
            BY <2>5, <2>6, <3>1, ProductsOrdered
        <3>3. T * (z + paid) = z * T + paid * T /\ T * u = u * T
            BY <2>5, <2>6, <3>1
        <3>4. z * T \in Int /\ paid * T \in Int /\ u * T \in Int /\ before[p] \in Int
            BY <1>1, <2>2, <2>5, <2>6, <3>1
        <3> QED
            BY <3>1, <3>2, <3>3, <3>4
    <2>8. SumFunction(after) = SumFunction(before) + after[p] - before[p]
        BY <1>1, <1>2, <2>2, SumChangeOne
    <2>9. SumFunction(before) + Undistributed(reward) <= rewardVault[j] * T
        BY <1>1, CurrentBacked DEF SafeInv, Backed, before, reward, T
    <2>10. /\ Undistributed(reward) \in Nat /\ rewardVault[j] * T \in Int /\ paid * T \in Int
           /\ (rewardVault[j] - paid) * T = rewardVault[j] * T - paid * T
           /\ before[p] \in Int /\ after[p] \in Int
        BY <1>1, <2>1, <2>2, <2>5, <2>6, UndistributedType
    <2>11. SumFunction(after) + Undistributed(reward) <= rewardVault'[j] * T
        BY <2>2, <2>7, <2>8, <2>9, <2>10, <2>p
    <2> QED
        BY <2>11 DEF Backed, after, reward, T
<1>7. \A j \in RewardIndex :
        ~rewards'[j].initialized => rewards'[j].reward_per_token_stored = 0
    BY <1>1, CurrentBacked DEF SafeInv
<1> QED
    BY <1>6, <1>7 DEF RewardInv

(* Forgetting the seconds without liquidity releases what they were worth.   *)
LEMMA ResetReleases ==
    ASSUME NEW reward \in RewardInfo, reward.last_update_time <= reward.reward_duration_end
    PROVE  IneligibleReward(reward) * TOTAL_REWARD_SCALE + Undistributed(ResetEmptySeconds(reward))
              <= Undistributed(reward)
<1> DEFINE S == LIQUIDITY_SCALE
           R == REWARD_RATE_SCALE
           rate == reward.reward_rate
           empty == reward.cumulative_seconds_with_empty_liquidity_reward
           left == reward.reward_duration_end - reward.last_update_time
           worth == IneligibleReward(reward)
<1>1. S \in Nat /\ R \in Nat \ {0} /\ rate \in Nat /\ empty \in Nat /\ left \in Nat
    BY ScaleTypes DEF RewardInfo
<1>2. /\ Undistributed(reward) = (empty * rate + rate * left) * S
      /\ Undistributed(ResetEmptySeconds(reward)) = (0 * rate + rate * left) * S
    BY DEF Undistributed, ResetEmptySeconds, RewardInfo
<1>3. worth \in Nat /\ worth * R <= empty * rate
    BY <1>1, MulDivDownType, MulDivDownCovered DEF IneligibleReward
<1>g. SUFFICES worth * (S * R) + (0 * rate + rate * left) * S <= (empty * rate + rate * left) * S
    BY <1>2, ScaleTypes DEF TOTAL_REWARD_SCALE
<1> HIDE DEF S, R, rate, empty, left, worth
<1>4. /\ worth * R \in Nat /\ empty * rate \in Nat /\ rate * left \in Nat
      /\ worth * (S * R) = S * (worth * R)
    BY <1>1, <1>3
<1> DEFINE x == worth * R
           y == empty * rate
           z == rate * left
<1>5. x \in Nat /\ y \in Nat /\ z \in Nat /\ x <= y /\ 0 * rate = 0
    BY <1>1, <1>3, <1>4
<1> HIDE DEF x, y, z
<1>6. S * x <= S * y
    BY <1>1, <1>5, ProductsOrdered
<1>7. (y + z) * S = S * y + z * S /\ (0 + z) * S = z * S /\ S * x \in Int /\ S * y \in Int /\ z * S \in Int
    BY <1>1, <1>5
<1>8. S * x + (0 + z) * S <= (y + z) * S
    BY <1>6, <1>7
<1> QED
    BY <1>4, <1>5, <1>8 DEF x, y, z

(* A campaign funded at the time of its last update promises the funding and *)
(* what was left of the running campaign, or less.                           *)
LEMMA FundingPromises ==
    ASSUME NEW reward \in RewardInfo, NEW now \in Nat, NEW amount \in Nat,
           reward.reward_duration > 0, reward.last_update_time <= reward.reward_duration_end,
           reward.cumulative_seconds_with_empty_liquidity_reward = 0,
           now < reward.reward_duration_end => reward.last_update_time = now
    PROVE  Undistributed(UpdateRateAfterFunding(reward, now, amount))
              <= amount * TOTAL_REWARD_SCALE + Undistributed(reward)
<1> DEFINE S == LIQUIDITY_SCALE
           R == REWARD_RATE_SCALE
           old == reward.reward_rate
           duration == reward.reward_duration
           left == reward.reward_duration_end - reward.last_update_time
           leftover == IF now >= reward.reward_duration_end THEN 0
                       ELSE MulDivDown(old, reward.reward_duration_end - now, R)
           rate == MulDivDown(amount + leftover, R, duration)
           funded == UpdateRateAfterFunding(reward, now, amount)
<1>1. /\ S \in Nat /\ R \in Nat \ {0} /\ old \in Nat /\ left \in Nat /\ duration \in Nat \ {0}
      /\ reward.reward_duration_end \in Nat /\ reward.last_update_time \in Nat
    BY ScaleTypes DEF RewardInfo
<1>2. leftover \in Nat /\ leftover * R <= old * left
    <2>1. CASE now >= reward.reward_duration_end
        <3>1. leftover = 0 /\ old * left \in Nat /\ 0 * R = 0
            BY <1>1, <2>1
        <3> QED BY <3>1
    <2>2. CASE now < reward.reward_duration_end
        <3>1. leftover = MulDivDown(old, left, R)
            BY <1>1, <2>2
        <3> HIDE DEF leftover, left
        <3> QED
            BY <1>1, <3>1, MulDivDownType, MulDivDownCovered
    <2> QED BY <1>1, <2>1, <2>2
<1>3. /\ funded.reward_rate = rate /\ funded.last_update_time = now
      /\ funded.reward_duration_end = now + duration
      /\ funded.cumulative_seconds_with_empty_liquidity_reward = 0
    BY DEF UpdateRateAfterFunding, RewardInfo
<1> HIDE DEF leftover
<1>4. rate \in Nat /\ rate * duration <= (amount + leftover) * R
    <2>1. amount + leftover \in Nat
        BY <1>2
    <2> QED
        BY <1>1, <2>1, MulDivDownType, MulDivDownCovered
<1> HIDE DEF rate
<1>5. Undistributed(funded) = (rate * duration) * S
    <2>1. Undistributed(funded) = (0 * rate + rate * ((now + duration) - now)) * S
        BY <1>3 DEF Undistributed
    <2>2. 0 * rate = 0 /\ (now + duration) - now = duration /\ 0 + rate * duration = rate * duration
        BY <1>1, <1>4
    <2> QED
        BY <2>1, <2>2
<1>6. Undistributed(reward) = (old * left) * S
    <2>1. Undistributed(reward) = (0 * old + old * left) * S
        BY DEF Undistributed
    <2>2. 0 * old = 0 /\ 0 + old * left = old * left
        BY <1>1
    <2> QED
        BY <2>1, <2>2
<1>g. SUFFICES (rate * duration) * S <= amount * (S * R) + (old * left) * S
    BY <1>5, <1>6 DEF TOTAL_REWARD_SCALE
<1> HIDE DEF S, R, old, left, duration
<1> DEFINE x == rate * duration
           y == leftover * R
           z == old * left
           a == amount * R
<1>7. /\ x \in Nat /\ y \in Nat /\ z \in Nat /\ a \in Nat /\ y <= z
      /\ (amount + leftover) * R = a + y /\ amount * (S * R) = S * a
    BY <1>1, <1>2, <1>4
<1>8. x <= a + y
    BY <1>4, <1>7
<1> HIDE DEF x, y, z, a
<1>9. S * x <= S * (a + z)
    <2>1. x <= a + z /\ a + z \in Nat
        BY <1>7, <1>8
    <2> QED
        BY <1>1, <1>7, <2>1, ProductsOrdered
<1>10. S * x = x * S /\ S * (a + z) = S * a + z * S
    BY <1>1, <1>7
<1> QED
    BY <1>7, <1>9, <1>10 DEF x, z

(* One reward may change as long as it does not promise more than its vault  *)
(* receives.                                                                 *)
LEMMA OneRewardChanges ==
    ASSUME SafeInv, SafeInv', RewardInv, NEW infos, Current(infos), NEW i \in RewardIndex,
           NEW reward \in RewardInfo, NEW balance \in Nat,
           positions' = positions, rewards' = [infos EXCEPT ![i] = reward],
           rewardVault' = [rewardVault EXCEPT ![i] = balance],
           reward.initialized, reward.last_update_time <= reward.reward_duration_end,
           reward.reward_per_token_stored = infos[i].reward_per_token_stored,
           Undistributed(reward) + rewardVault[i] * TOTAL_REWARD_SCALE
              <= Undistributed(infos[i]) + balance * TOTAL_REWARD_SCALE
    PROVE  RewardInv'
<1>1. /\ infos \in [RewardIndex -> RewardInfo] /\ rewardVault \in [RewardIndex -> Nat]
      /\ infos[i].last_update_time <= infos[i].reward_duration_end
      /\ Level(positions, infos[i], i)
    BY CurrentRewards DEF SafeInv, TypeInv, TypeOK
<1>2. /\ rewards'[i] = reward /\ rewardVault'[i] = balance
      /\ \A j \in RewardIndex \ {i} : rewards'[j] = infos[j] /\ rewardVault'[j] = rewardVault[j]
    BY <1>1
<1>3. \A j \in RewardIndex :
         /\ Backed(positions, infos[j], j, rewardVault[j])
         /\ ~infos[j].initialized => infos[j].reward_per_token_stored = 0
    BY CurrentBacked DEF SafeInv
<1>4. Backed(positions, reward, i, balance)
    <2> DEFINE claims == SumFunction(RewardClaims(positions, infos[i], i))
               T == TOTAL_REWARD_SCALE
    <2>1. RewardClaims(positions, reward, i) = RewardClaims(positions, infos[i], i)
        BY DEF RewardClaims, RewardClaim
    <2>2. claims \in Nat
        BY <1>1, RewardClaimsType
    <2>3. claims + Undistributed(infos[i]) <= rewardVault[i] * T
        BY <1>3 DEF Backed
    <2>4. Undistributed(infos[i]) \in Nat /\ Undistributed(reward) \in Nat
        BY <1>1, UndistributedType
    <2>5. rewardVault[i] * T \in Nat /\ balance * T \in Nat
        BY <1>1, ScaleTypes
    <2> HIDE DEF claims
    <2>6. claims + Undistributed(reward) <= balance * T
        BY <2>2, <2>3, <2>4, <2>5
    <2> QED
        BY <2>1, <2>6 DEF Backed, claims
<1> QED
    BY <1>2, <1>3, <1>4 DEF RewardInv

LEMMA FundRewardRewards ==
    ASSUME SafeInv, SafeInv', RewardInv, NEW i \in RewardIndex, NEW signer, NEW amount \in Nat,
           NEW carry_forward \in BOOLEAN, FundReward(i, signer, amount, carry_forward)
    PROVE  RewardInv'
<1> DEFINE T == TOTAL_REWARD_SCALE
           updated == UpdatedRewards[i]
           reset == ResetEmptySeconds(updated)
           worth == IneligibleReward(updated)
           funded == IF carry_forward THEN UpdateRateAfterFunding(reset, clock, amount + worth)
                                      ELSE UpdateRateAfterFunding(updated, clock, amount)
           balance == rewardVault[i] + amount
<1>1. /\ TypeOK /\ CanUpdateRewards /\ rewards[i].initialized /\ Current(UpdatedRewards)
      /\ clock \in Nat /\ rewardVault[i] \in Nat /\ positions' = positions
      /\ carry_forward \/ updated.cumulative_seconds_with_empty_liquidity_reward = 0
      /\ rewards' = [UpdatedRewards EXCEPT ![i] = funded]
      /\ rewardVault' = [rewardVault EXCEPT ![i] = balance]
    BY DEF FundReward, SafeInv, TypeInv, TypeOK, Current
<1>2. /\ updated \in RewardInfo /\ updated.initialized
      /\ updated.reward_duration > 0
      /\ updated.last_update_time <= updated.reward_duration_end
    <2>1. /\ updated \in RewardInfo /\ updated.initialized = rewards[i].initialized
          /\ updated.reward_duration = rewards[i].reward_duration
          /\ updated.last_update_time <= updated.reward_duration_end
        BY <1>1, UpdatedRewardsType, UpdatedRewardsBehind DEF SafeInv
    <2> QED
        BY <1>1, <2>1 DEF SafeInv, TypeInv, RewardsHaveDuration
<1>3. clock < updated.reward_duration_end => updated.last_update_time = clock
    <2>1. updated = UpdateReward(rewards[i], pool.liquidity, clock)
        BY DEF UpdatedRewards
    <2>2. rewards[i] \in RewardInfo
        BY <1>1 DEF TypeOK
    <2>3. /\ updated.last_update_time = LastTimeRewardApplicable(rewards[i], clock)
          /\ updated.reward_duration_end = rewards[i].reward_duration_end
        BY <1>1, <2>1, <2>2 DEF UpdateReward, AccumulateRewardPerTokenStored,
            AccumulateEmptySeconds, UpdateLastUpdateTime, RewardInfo
    <2> QED
        BY <2>3 DEF LastTimeRewardApplicable
<1> HIDE DEF updated
<1>4. /\ reset \in RewardInfo /\ reset.initialized /\ reset.reward_duration > 0
      /\ reset.reward_per_token_stored = updated.reward_per_token_stored
      /\ reset.last_update_time = updated.last_update_time
      /\ reset.reward_duration_end = updated.reward_duration_end
      /\ reset.cumulative_seconds_with_empty_liquidity_reward = 0
    BY <1>2, ResetEmptySecondsType DEF ResetEmptySeconds, RewardInfo
<1>5. /\ worth \in Nat /\ amount + worth \in Nat /\ T \in Nat
      /\ worth * T + Undistributed(reset) <= Undistributed(updated)
      /\ Undistributed(reset) \in Nat /\ Undistributed(updated) \in Nat
    BY <1>2, <1>4, IneligibleRewardType, ResetReleases, UndistributedType, ScaleTypes
<1> HIDE DEF reset, worth
<1>6. /\ funded \in RewardInfo /\ funded.initialized
      /\ funded.reward_per_token_stored = updated.reward_per_token_stored
      /\ funded.last_update_time <= funded.reward_duration_end
    <2>1. CASE carry_forward
        BY <1>1, <1>4, <1>5, <2>1, UpdateRateAfterFundingType
    <2>2. CASE ~carry_forward
        BY <1>1, <1>2, <2>2, UpdateRateAfterFundingType
    <2> QED
        BY <2>1, <2>2
<1>7. Undistributed(funded) <= amount * T + Undistributed(updated)
    <2> DEFINE funding == amount + worth
    <2>1. CASE carry_forward
        <3>1. Undistributed(UpdateRateAfterFunding(reset, clock, funding))
                <= funding * T + Undistributed(reset)
            <4>1. funding \in Nat
                BY <1>5
            <4> HIDE DEF funding
            <4> QED
                BY <1>1, <1>2, <1>3, <1>4, <4>1, FundingPromises
        <3>2. funding * T = amount * T + worth * T /\ amount * T \in Int /\ worth * T \in Int
            BY <1>5
        <3>3. funded = UpdateRateAfterFunding(reset, clock, funding)
            BY <2>1
        <3>4. Undistributed(funded) \in Nat
            BY <1>6, UndistributedType
        <3> HIDE DEF funded, T, funding
        <3> QED
            BY <1>5, <3>1, <3>2, <3>3, <3>4
    <2>2. CASE ~carry_forward
        BY <1>1, <1>2, <1>3, <2>2, FundingPromises
    <2> QED
        BY <2>1, <2>2
<1>8. /\ balance \in Nat /\ balance * T = rewardVault[i] * T + amount * T
      /\ rewardVault[i] * T \in Int /\ amount * T \in Int /\ Undistributed(funded) \in Nat
    BY <1>1, <1>5, <1>6, UndistributedType
<1> HIDE DEF funded, balance, T
<1>9. Undistributed(funded) + rewardVault[i] * T <= Undistributed(updated) + balance * T
    BY <1>5, <1>7, <1>8
<1> QED
    BY <1>1, <1>6, <1>8, <1>9, OneRewardChanges DEF updated, T

LEMMA WithdrawIneligibleRewards ==
    ASSUME SafeInv, SafeInv', RewardInv, NEW i \in RewardIndex, NEW signer,
           WithdrawIneligibleReward(i, signer)
    PROVE  RewardInv'
<1> DEFINE T == TOTAL_REWARD_SCALE
           updated == UpdatedRewards[i]
           reset == ResetEmptySeconds(updated)
           worth == IneligibleReward(updated)
           balance == rewardVault[i] - worth
<1>1. /\ TypeOK /\ CanUpdateRewards /\ rewards[i].initialized /\ Current(UpdatedRewards)
      /\ rewardVault[i] \in Nat /\ positions' = positions
      /\ worth > 0 => worth <= rewardVault[i]
      /\ rewards' = [UpdatedRewards EXCEPT ![i] = reset]
      /\ rewardVault' = [rewardVault EXCEPT ![i] = balance]
    BY DEF WithdrawIneligibleReward, SafeInv, TypeInv, TypeOK, Current
<1>2. /\ updated \in RewardInfo /\ updated.initialized
      /\ updated.last_update_time <= updated.reward_duration_end
    BY <1>1, UpdatedRewardsType, UpdatedRewardsBehind DEF SafeInv
<1> HIDE DEF updated
<1>3. /\ reset \in RewardInfo /\ reset.initialized
      /\ reset.reward_per_token_stored = updated.reward_per_token_stored
      /\ reset.last_update_time <= reset.reward_duration_end
    BY <1>2, ResetEmptySecondsType
<1>4. /\ worth \in Nat /\ T \in Nat
      /\ worth * T + Undistributed(reset) <= Undistributed(updated)
      /\ Undistributed(reset) \in Nat /\ Undistributed(updated) \in Nat
    BY <1>2, <1>3, IneligibleRewardType, ResetReleases, UndistributedType, ScaleTypes
<1> HIDE DEF reset, worth, T
<1>5. /\ balance \in Nat /\ balance * T = rewardVault[i] * T - worth * T
      /\ rewardVault[i] * T \in Int /\ worth * T \in Int
    BY <1>1, <1>4
<1> HIDE DEF balance
<1>6. Undistributed(reset) + rewardVault[i] * T <= Undistributed(updated) + balance * T
    BY <1>4, <1>5
<1> QED
    BY <1>1, <1>3, <1>5, <1>6, OneRewardChanges DEF updated, T

(* What the operator edits is not what accumulates.                          *)
LEMMA EditFields ==
    ASSUME SafeInv, SafeInv', NEW i \in RewardIndex, NEW signer,
           \/ \E funder \in Key, duration \in RewardDurations :
                 InitializeReward(i, signer, funder, duration)
           \/ \E duration \in RewardDurations : UpdateRewardDuration(i, signer, duration)
           \/ \E funder \in Key : UpdateRewardFunder(i, signer, funder)
    PROVE  /\ positions' = positions /\ rewardVault' = rewardVault
           /\ \A j \in RewardIndex \ {i} : rewards'[j] = rewards[j]
           /\ rewards'[i].initialized
           /\ rewards'[i].reward_per_token_stored = rewards[i].reward_per_token_stored
           /\ rewards'[i].reward_rate = rewards[i].reward_rate
           /\ rewards'[i].last_update_time = rewards[i].last_update_time
           /\ rewards'[i].reward_duration_end = rewards[i].reward_duration_end
           /\ rewards'[i].cumulative_seconds_with_empty_liquidity_reward
                = rewards[i].cumulative_seconds_with_empty_liquidity_reward
<1>0. /\ rewards \in [RewardIndex -> RewardInfo] /\ rewards' \in [RewardIndex -> RewardInfo]
    BY DEF SafeInv, TypeInv, TypeOK
<1>1. CASE \E funder \in Key, duration \in RewardDurations :
             InitializeReward(i, signer, funder, duration)
    <2>1. PICK funder \in Key, duration \in RewardDurations :
            InitializeReward(i, signer, funder, duration)
        BY <1>1
    <2>2. /\ positions' = positions /\ rewardVault' = rewardVault
          /\ \A j \in RewardIndex \ {i} : rewards'[j] = rewards[j]
          /\ rewards'[i] = InitReward(rewards[i], funder, duration)
        BY <1>0, <2>1 DEF InitializeReward
    <2>3. rewards[i] \in RewardInfo
        BY <1>0
    <2> QED
        BY <2>2, <2>3 DEF InitReward, RewardInfo
<1>2. CASE \E duration \in RewardDurations : UpdateRewardDuration(i, signer, duration)
    BY <1>0, <1>2 DEF UpdateRewardDuration, RewardInfo
<1>3. CASE \E funder \in Key : UpdateRewardFunder(i, signer, funder)
    BY <1>0, <1>3 DEF UpdateRewardFunder, RewardInfo
<1> QED
    BY <1>1, <1>2, <1>3

(* What the operator edits promises nobody anything.                         *)
LEMMA EditRewards ==
    ASSUME SafeInv, SafeInv', RewardInv, NEW i \in RewardIndex, NEW signer,
           \/ \E funder \in Key, duration \in RewardDurations :
                 InitializeReward(i, signer, funder, duration)
           \/ \E duration \in RewardDurations : UpdateRewardDuration(i, signer, duration)
           \/ \E funder \in Key : UpdateRewardFunder(i, signer, funder)
    PROVE  RewardInv'
<1> DEFINE reward == rewards'[i]
           T == TOTAL_REWARD_SCALE
<1>1. /\ rewards \in [RewardIndex -> RewardInfo] /\ rewards' \in [RewardIndex -> RewardInfo]
      /\ rewardVault \in [RewardIndex -> Nat] /\ Current(rewards)
      /\ rewards[i].last_update_time <= rewards[i].reward_duration_end
    BY DEF SafeInv, TypeInv, TypeOK, Current, CheckpointsBehind
<1>2. /\ positions' = positions /\ rewardVault' = rewardVault
      /\ \A j \in RewardIndex \ {i} : rewards'[j] = rewards[j]
      /\ reward.initialized
      /\ reward.reward_per_token_stored = rewards[i].reward_per_token_stored
      /\ reward.reward_rate = rewards[i].reward_rate
      /\ reward.last_update_time = rewards[i].last_update_time
      /\ reward.reward_duration_end = rewards[i].reward_duration_end
      /\ reward.cumulative_seconds_with_empty_liquidity_reward
            = rewards[i].cumulative_seconds_with_empty_liquidity_reward
    BY EditFields
<1>3. /\ rewards' = [rewards EXCEPT ![i] = reward]
      /\ rewardVault' = [rewardVault EXCEPT ![i] = rewardVault[i]]
    BY <1>1, <1>2
<1>4. Undistributed(reward) = Undistributed(rewards[i])
    BY <1>2 DEF Undistributed
<1>5. Undistributed(rewards[i]) \in Nat /\ rewardVault[i] * T \in Nat
    BY <1>1, UndistributedType, ScaleTypes
<1>6. Undistributed(reward) + rewardVault[i] * T <= Undistributed(rewards[i]) + rewardVault[i] * T
    BY <1>4, <1>5
<1>7. reward \in RewardInfo /\ reward.last_update_time <= reward.reward_duration_end
    BY <1>1, <1>2
<1>8. /\ Current(rewards) /\ rewardVault[i] \in Nat /\ positions' = positions
      /\ reward.initialized
      /\ reward.reward_per_token_stored = rewards[i].reward_per_token_stored
    BY <1>1, <1>2
<1>9. Undistributed(reward) + rewardVault[i] * TOTAL_REWARD_SCALE
        <= Undistributed(rewards[i]) + rewardVault[i] * TOTAL_REWARD_SCALE
    BY <1>6
<1> HIDE DEF reward, T
<1> QED
    BY <1>3, <1>7, <1>8, <1>9, OneRewardChanges

LEMMA RewardStep ==
    ASSUME SafeInv, SafeInv', RewardInv, [Next]_vars
    PROVE  RewardInv'
<1>1. CASE positions' = positions /\ rewards' = rewards /\ rewardVault' = rewardVault
    BY <1>1, UntouchedRewards
<1>2. CASE UNCHANGED vars \/ Tick \/ SetPoolStatus \/ TradeInstruction
    BY <1>1, <1>2 DEF vars, Tick, SetPoolStatus, TradeInstruction, Swap, ClaimProtocolFee,
                      ClaimPartnerFee
<1>3. CASE PositionInstruction
    <2>1. PICK p \in PositionId :
            \/ CreatePosition(p)
            \/ ClosePosition(p)
            \/ ClaimPositionFee(p)
            \/ \E delta \in Nat : \E threshold : AddLiquidity(p, delta, threshold)
            \/ \E delta \in Nat : \E threshold : RemoveLiquidity(p, delta, threshold)
        BY <1>3, PositionInstructionCases DEF SafeInv
    <2> QED
        BY <2>1, CreatePositionRewards, ClosePositionRewards, ClaimPositionFeeFields, SameRewards,
           LiquidityRewards
<1>4. CASE LockInstruction
    BY <1>4, InputTypes, LockPositionFields, RefreshVestingFields, PermanentLockFields,
       SameRewards, SplitPositionRewards DEF LockInstruction
<1>5. CASE RewardInstruction
    <2>1. PICK i \in RewardIndex :
            \/ \E signer, funder \in Key, duration \in RewardDurations :
                  InitializeReward(i, signer, funder, duration)
            \/ \E signer \in Key, amount \in FundingAmounts, carry_forward \in BOOLEAN :
                  FundReward(i, signer, amount, carry_forward)
            \/ \E p \in PositionId, skip_reward \in BOOLEAN : ClaimReward(p, i, skip_reward)
            \/ \E signer \in Key : WithdrawIneligibleReward(i, signer)
            \/ \E signer \in Key, duration \in RewardDurations :
                  UpdateRewardDuration(i, signer, duration)
            \/ \E signer, funder \in Key : UpdateRewardFunder(i, signer, funder)
            \/ FreezeRewardVault(i)
        BY <1>5 DEF RewardInstruction
    <2>2. CASE FreezeRewardVault(i)
        BY <1>1, <2>2 DEF FreezeRewardVault
    <2>3. CASE \E signer \in Key, amount \in FundingAmounts, carry_forward \in BOOLEAN :
                  FundReward(i, signer, amount, carry_forward)
        BY <2>3, InputTypes, FundRewardRewards
    <2>4. CASE \E p \in PositionId, skip_reward \in BOOLEAN : ClaimReward(p, i, skip_reward)
        BY <2>4, ClaimRewardRewards
    <2>5. CASE \E signer \in Key : WithdrawIneligibleReward(i, signer)
        BY <2>5, WithdrawIneligibleRewards
    <2> QED
        BY <2>1, <2>2, <2>3, <2>4, <2>5, EditRewards
<1> QED
    BY <1>2, <1>3, <1>4, <1>5 DEF Next, Instruction

LEMMA InitRewards == Init => RewardInv
<1> SUFFICES ASSUME NEW p \in PositionId, NEW sqrt_price \in InitialSqrtPrices,
                    NEW liquidity \in LiquidityDeltas, InitializePool(p, sqrt_price, liquidity),
                    NEW i \in RewardIndex
             PROVE  /\ Backed(positions, rewards[i], i, rewardVault[i])
                    /\ rewards[i].reward_per_token_stored = 0
    BY DEF Init, RewardInv
<1>1. /\ DOMAIN positions = {p} /\ positions[p] = NewPosition(liquidity)
      /\ rewards[i] = NoReward /\ rewardVault[i] = 0
    BY DEF InitializePool
<1>2. liquidity \in Nat /\ LIQUIDITY_SCALE \in Nat /\ TOTAL_REWARD_SCALE \in Nat
    BY InputTypes, ScaleTypes
<1>3. NewPosition(liquidity) \in PositionState
    BY <1>2, NewPositionType
<1>4. RewardClaim(NewPosition(liquidity), NoReward, i) = 0
    <2>1. GetTotalLiquidity(NewPosition(liquidity)) \in Nat
        BY <1>3, TotalLiquidityType
    <2>2. /\ NewPosition(liquidity).reward_pending[i] = 0
          /\ NewPosition(liquidity).reward_checkpoint[i] = 0
          /\ NoReward.reward_per_token_stored = 0
        BY DEF NewPosition, NoReward
    <2> QED
        BY <1>2, <2>1, <2>2 DEF RewardClaim
<1> DEFINE claims == RewardClaims(positions, NoReward, i)
<1>5. DOMAIN claims = {p} /\ claims[p] = 0
    BY <1>1, <1>4 DEF RewardClaims
<1> HIDE DEF claims
<1>6. SumFunction(claims) = 0
    BY <1>5, SumOfOne DEF SumFunction
<1>7. Undistributed(NoReward) = 0
    BY <1>2 DEF Undistributed, NoReward
<1>8. NoReward.reward_per_token_stored = 0
    BY DEF NoReward
<1> QED
    BY <1>1, <1>2, <1>6, <1>7, <1>8 DEF Backed, claims

LEMMA RewardInvariance == Spec => []RewardInv
<1>1. Init => RewardInv
    BY InitRewards
<1>2. SafeInv /\ SafeInv' /\ RewardInv /\ [Next]_vars => RewardInv'
    BY RewardStep
<1>3. TypeInv /\ CheckpointsBehind /\ CountInv /\ OwnedInv => SafeInv
    BY DEF SafeInv
<1> QED
    BY <1>1, <1>2, <1>3, TypeInvariance, CheckpointSafety, CountInvariance, OwnedInvariance, PTL
       DEF Spec

(* What the positions may claim in whole tokens, against what they claim.    *)
LEMMA PendingCovered ==
    ASSUME SafeInv, NEW i \in RewardIndex, NEW pending,
           pending = [p \in DOMAIN positions |->
                         UpdatePositionReward(positions[p], UpdatedRewards).reward_pending[i]]
    PROVE  /\ SumFunction(pending) \in Nat
           /\ SumFunction(pending) * TOTAL_REWARD_SCALE
                 <= SumFunction(RewardClaims(positions, UpdatedRewards[i], i))
           /\ SumFunction(RewardClaims(positions, UpdatedRewards[i], i)) \in Nat
<1> DEFINE T == TOTAL_REWARD_SCALE
           D == DOMAIN positions
           claims == RewardClaims(positions, UpdatedRewards[i], i)
           scaled == [p \in D |-> T * pending[p]]
           sum == SumFunctionOnSet(pending, D)
<1>1. T \in Nat \ {0} /\ IsFiniteSet(D) /\ DOMAIN pending = D
    BY ScaleTypes DEF SafeInv, CountInv
<1>2. /\ UpdatedRewards \in [RewardIndex -> RewardInfo]
      /\ Level(positions, UpdatedRewards[i], i)
      /\ \A p \in D : CanUpdatePositionReward(positions[p], UpdatedRewards)
    BY CurrentRewards DEF SafeInv, Current
<1>3. \A p \in D : /\ pending[p] \in Nat
                   /\ pending[p] * T <= RewardClaim(positions[p], UpdatedRewards[i], i)
    BY <1>2, UpdatedRewardPending DEF Level
<1>4. /\ claims \in [D -> Int] /\ SumFunction(claims) \in Nat
      /\ \A p \in D : claims[p] = RewardClaim(positions[p], UpdatedRewards[i], i)
    BY <1>2, RewardClaimsType
<1>5. SumFunction(claims) = SumFunctionOnSet(claims, D)
    BY <1>4 DEF SumFunction
<1>6. pending \in [D -> Nat]
    BY <1>3
<1>7. SumFunction(pending) \in Nat /\ SumFunction(pending) = sum
    BY <1>1, <1>6, SumFunctionType DEF SumFunction
<1> HIDE DEF D, T, claims
<1>8. \A p \in D : /\ scaled[p] = T * pending[p] /\ scaled[p] \in Int /\ claims[p] \in Int
                   /\ scaled[p] <= claims[p] /\ pending[p] \in Int
    BY <1>1, <1>3, <1>4
<1> HIDE DEF scaled
<1>9. SumFunctionOnSet(scaled, D) <= SumFunctionOnSet(claims, D)
    BY <1>1, <1>8, SumMonotone
<1>10. SumFunctionOnSet(scaled, D) = T * sum
    BY <1>1, <1>8, SumScale
<1>11. sum * T <= SumFunction(claims)
    BY <1>1, <1>5, <1>7, <1>9, <1>10
<1> QED
    BY <1>4, <1>7, <1>11 DEF T, claims

LEMMA RewardCovers ==
    ASSUME SafeInv, RewardInv
    PROVE  RewardVaultsCoverClaims
<1> SUFFICES ASSUME NEW i \in RewardIndex
             PROVE  rewardVault[i] >=
                      SumFunction([p \in DOMAIN positions |->
                          UpdatePositionReward(positions[p], UpdatedRewards).reward_pending[i]])
                      + IneligibleReward(UpdatedRewards[i])
                      + MulDivDown(rewards[i].reward_rate,
                                   rewards[i].reward_duration_end
                                      - LastTimeRewardApplicable(rewards[i], clock),
                                   REWARD_RATE_SCALE)
    BY DEF RewardVaultsCoverClaims
<1> DEFINE T == TOTAL_REWARD_SCALE
           S == LIQUIDITY_SCALE
           R == REWARD_RATE_SCALE
           pending == [p \in DOMAIN positions |->
                          UpdatePositionReward(positions[p], UpdatedRewards).reward_pending[i]]
           updated == UpdatedRewards[i]
           rate == rewards[i].reward_rate
           last == LastTimeRewardApplicable(rewards[i], clock)
           left == rewards[i].reward_duration_end - last
           running == MulDivDown(rate, left, R)
           worth == IneligibleReward(updated)
           claims == SumFunction(RewardClaims(positions, updated, i))
           reset == ResetEmptySeconds(updated)
<1>1. /\ T \in Nat \ {0} /\ S \in Nat /\ R \in Nat \ {0} /\ T = S * R
      /\ clock \in Nat /\ rewards[i] \in RewardInfo /\ rewardVault[i] \in Nat
      /\ TypeOK /\ CanUpdateRewards
    BY ScaleTypes, RewardsCanUpdate DEF TOTAL_REWARD_SCALE, SafeInv, TypeInv, TypeOK
<1>2. /\ updated \in RewardInfo /\ updated.last_update_time <= updated.reward_duration_end
    BY <1>1, UpdatedRewardsType, UpdatedRewardsBehind DEF SafeInv
<1>3. rate \in Nat /\ last \in Nat /\ left \in Nat
    BY <1>1 DEF RewardInfo, LastTimeRewardApplicable
<1>4. /\ updated.reward_rate = rate
      /\ updated.reward_duration_end = rewards[i].reward_duration_end
      /\ updated.last_update_time \in Nat /\ updated.last_update_time <= last
    <2>1. updated = UpdateReward(rewards[i], pool.liquidity, clock)
        BY DEF UpdatedRewards
    <2>2. /\ updated.reward_rate = rate
          /\ updated.reward_duration_end = rewards[i].reward_duration_end
        BY <1>1, <2>1 DEF UpdateReward, AccumulateRewardPerTokenStored,
            AccumulateEmptySeconds, UpdateLastUpdateTime, RewardInfo
    <2>3. /\ rewards[i].last_update_time \in Nat /\ rewards[i].reward_duration_end \in Nat
          /\ rewards[i].last_update_time <= rewards[i].reward_duration_end
          /\ rewards[i].last_update_time <= clock
        BY <1>1 DEF RewardInfo, SafeInv, CheckpointsBehind
    <2>4. rewards[i].last_update_time <= last
        BY <1>1, <2>3 DEF LastTimeRewardApplicable
    <2>5. updated.last_update_time \in {rewards[i].last_update_time, last}
        BY <1>1, UpdatedRewardsType
    <2> QED
        BY <1>3, <2>2, <2>3, <2>4, <2>5
<1>5. running \in Nat /\ running * R <= rate * left
    BY <1>1, <1>3, MulDivDownType, MulDivDownCovered
<1>6. Undistributed(reset) = (rate * (updated.reward_duration_end - updated.last_update_time)) * S
    <2> DEFINE rest == updated.reward_duration_end - updated.last_update_time
    <2>1. Undistributed(reset) = (0 * rate + rate * rest) * S
        BY <1>2, <1>4 DEF Undistributed, ResetEmptySeconds, RewardInfo
    <2>2. rest \in Nat
        BY <1>2 DEF RewardInfo
    <2> HIDE DEF rest, rate
    <2>3. 0 * rate + rate * rest = rate * rest
        BY <1>3, <2>2
    <2> QED
        BY <2>1, <2>3 DEF rest
<1>7. running * T <= Undistributed(reset)
    <2> DEFINE rest == updated.reward_duration_end - updated.last_update_time
    <2>1. rest \in Nat /\ left <= rest
        BY <1>1, <1>2, <1>3, <1>4 DEF RewardInfo
    <2> HIDE DEF rest, rate, left, running, T, S, R
    <2>2. rate * left <= rate * rest
        BY <1>3, <2>1, ProductsOrdered
    <2> DEFINE x == running * R
               y == rate * rest
    <2>3. x \in Nat /\ y \in Nat /\ rate * left \in Nat /\ running * (S * R) = S * x
        BY <1>1, <1>3, <1>5, <2>1
    <2>4. x <= y
        BY <1>5, <2>2, <2>3
    <2> HIDE DEF x, y
    <2>5. S * x <= S * y /\ S * y = y * S
        BY <1>1, <2>3, <2>4, ProductsOrdered
    <2>6. running * T <= y * S
        BY <1>1, <2>3, <2>5
    <2> QED
        BY <1>6, <2>6 DEF y, rest
<1>8. worth \in Nat /\ worth * T + Undistributed(reset) <= Undistributed(updated)
    BY <1>2, IneligibleRewardType, ResetReleases
<1>9. claims + Undistributed(updated) <= rewardVault[i] * T
    BY CurrentBacked DEF SafeInv, Current, Backed
<1>10. /\ SumFunction(pending) \in Nat /\ SumFunction(pending) * T <= claims /\ claims \in Nat
    BY PendingCovered
<1>11. Undistributed(updated) \in Nat /\ Undistributed(reset) \in Nat
    <2>1. reset \in RewardInfo /\ reset.last_update_time <= reset.reward_duration_end
        BY <1>2, ResetEmptySecondsType
    <2> QED
        BY <1>2, <2>1, UndistributedType
<1> DEFINE paid == SumFunction(pending)
<1>12. paid \in Nat /\ paid * T <= claims
    BY <1>10
<1> HIDE DEF paid, pending, running, worth, claims, T, reset, updated
<1>13. /\ paid * T \in Int /\ worth * T \in Int /\ running * T \in Int /\ rewardVault[i] * T \in Int
       /\ T * (paid + worth + running) = paid * T + worth * T + running * T
       /\ T * rewardVault[i] = rewardVault[i] * T
    BY <1>1, <1>5, <1>8, <1>12
<1>14. T * (paid + worth + running) <= T * rewardVault[i]
    BY <1>7, <1>8, <1>9, <1>10, <1>11, <1>12, <1>13
<1>15. paid + worth + running \in Int /\ rewardVault[i] \in Int
    BY <1>1, <1>5, <1>8, <1>12
<1>16. paid + worth + running <= rewardVault[i]
    BY <1>1, <1>14, <1>15, FactorDrops
<1> QED
    BY <1>15, <1>16 DEF paid, pending, worth, running, updated

(* Whatever the campaigns, their fundings and the positions, a reward vault  *)
(* holds what every position may claim, what accrued while there was no      *)
(* liquidity, and what the running campaign is still to distribute: neither  *)
(* claim_reward nor withdraw_ineligible_reward finds it short, in any order. *)
THEOREM RewardVaultSafety == Spec => []RewardVaultsCoverClaims
<1>1. SafeInv /\ RewardInv => RewardVaultsCoverClaims
    BY RewardCovers
<1>2. TypeInv /\ CheckpointsBehind /\ CountInv /\ OwnedInv => SafeInv
    BY DEF SafeInv
<1> QED
    BY <1>1, <1>2, RewardInvariance, TypeInvariance, CheckpointSafety, CountInvariance,
       OwnedInvariance, PTL
-----------------------------------------------------------------------------
(* The checks between an owner and the money: the checked subtractions of    *)
(* update_rewards, update_fee and update_position_reward, the pool's         *)
(* liquidity, and the balance of the vault each transfer takes from.         *)

PayoutsSucceed ==
    /\ CanUpdateRewards
    /\ \A p \in DOMAIN positions :
          /\ CanUpdatePositionReward(positions[p], UpdatedRewards)
          /\ CanUpdateFee(positions[p], pool.fee_per_liquidity)
          /\ positions[p].unlocked_liquidity <= pool.liquidity
          /\ \A delta \in 0 .. positions[p].unlocked_liquidity : CanPay(GetAmountsDown(delta))
          /\ CanPay(UpdateFee(positions[p], pool.fee_per_liquidity).fee_pending)
          /\ \A i \in RewardIndex :
                UpdatePositionReward(positions[p], UpdatedRewards).reward_pending[i]
                    <= rewardVault[i]
    /\ \A i \in RewardIndex : IneligibleReward(UpdatedRewards[i]) <= rewardVault[i]
    /\ CanPay(pool.protocol_fee) /\ CanPay(pool.partner_fee)

(* One owner's payouts in pool tokens.                                       *)
LEMMA VaultPays ==
    ASSUME SafeInv, SolvencyInv, NEW t \in Token
    PROVE  /\ \A p \in DOMAIN positions :
                 /\ positions[p].unlocked_liquidity <= pool.liquidity
                 /\ \A delta \in 0 .. positions[p].unlocked_liquidity :
                       vault[t] >= GetAmountsDown(delta)[t]
                 /\ vault[t] >= UpdateFee(positions[p], pool.fee_per_liquidity).fee_pending[t]
           /\ vault[t] >= pool.protocol_fee[t] /\ vault[t] >= pool.partner_fee[t]
<1>1. PICK reserve, fees \in Nat :
        /\ vault[t] = reserve + fees + pool.protocol_fee[t] + pool.partner_fee[t]
        /\ ReserveCovers(t, reserve, pool.liquidity, pool.sqrt_price)
        /\ SumFunction(FeeClaims(t)) <= fees * LIQUIDITY_SCALE
    BY DEF SolvencyInv, Solvent
<1>2. /\ pool.protocol_fee[t] \in Nat /\ pool.partner_fee[t] \in Nat /\ pool.liquidity \in Nat
      /\ pool.sqrt_price \in SqrtMinPrice .. SqrtMaxPrice
    BY DEF SafeInv, TypeInv, TypeOK, PoolState, PriceInRange
<1> DEFINE D == DOMAIN positions
           earned == [p \in D |-> Earned(positions[p], pool.fee_per_liquidity, t)]
<1>3. IsFiniteSet(D) /\ DOMAIN earned = D
    BY DEF SafeInv, CountInv
<1>4. (\A p \in D : earned[p] \in Nat) /\ SumFunctionOnSet(earned, D) <= fees
    <2>1. (\A p \in D : earned[p] \in Nat) /\ SumFunction(earned) <= fees
        BY <1>1, FeesCovered DEF SafeInv
    <2> QED
        BY <1>3, <2>1 DEF SumFunction
<1>5. \A p \in D : earned[p] = UpdateFee(positions[p], pool.fee_per_liquidity).fee_pending[t]
    BY DEF Earned
<1> HIDE DEF earned
<1>6. ASSUME NEW p \in D
      PROVE  /\ positions[p].unlocked_liquidity <= pool.liquidity
             /\ positions[p].unlocked_liquidity \in Nat
    <2>1. /\ \A q \in D : Held[q] \in Nat
          /\ pool.liquidity = SumFunctionOnSet(Held, D)
        <3>1. /\ Held \in [D -> Int]
              /\ \A q \in D : /\ Held[q] = Free[q] + Vested[q] + Permanent[q]
                              /\ Free[q] \in Nat /\ Vested[q] \in Nat /\ Permanent[q] \in Nat
            BY HeldType DEF SafeInv, TypeInv
        <3>2. pool.liquidity = SumFunction(Held)
            BY DEF SafeInv, OwnedInv, LiquidityIsOwned, Held
        <3> QED
            BY <3>1, <3>2 DEF SumFunction
    <2>2. Held[p] <= pool.liquidity
        BY <1>3, <2>1, SumMember
    <2>3. /\ Held[p] = GetTotalLiquidity(positions[p])
          /\ positions[p] \in PositionState
        BY DEF Held, SafeInv, TypeInv, TypeOK
    <2> QED
        BY <1>2, <2>2, <2>3 DEF GetTotalLiquidity, PositionState
<1>7. ASSUME NEW p \in D, NEW delta \in 0 .. positions[p].unlocked_liquidity
      PROVE  vault[t] >= GetAmountsDown(delta)[t]
    <2>1. delta \in Nat /\ delta <= pool.liquidity
        BY <1>2, <1>6
    <2>2. GetAmountsDown(delta)[t] \in Nat /\ reserve - GetAmountsDown(delta)[t] \in Nat
        BY <1>1, <1>2, <2>1, ReserveShrinks
    <2> QED
        BY <1>1, <1>2, <2>2
<1>8. ASSUME NEW p \in D
      PROVE  vault[t] >= earned[p]
    <2>1. earned[p] <= SumFunctionOnSet(earned, D)
        BY <1>3, <1>4, SumMember
    <2>2. earned[p] \in Int /\ SumFunctionOnSet(earned, D) \in Int
        BY <1>3, <1>4, SumType
    <2> QED
        BY <1>1, <1>2, <1>4, <2>1, <2>2
<1>9. vault[t] >= pool.protocol_fee[t] /\ vault[t] >= pool.partner_fee[t]
    BY <1>1, <1>2
<1> QED
    BY <1>5, <1>6, <1>7, <1>8, <1>9

(* One owner's or funder's payouts in reward tokens.                         *)
LEMMA RewardVaultPays ==
    ASSUME SafeInv, RewardInv, NEW i \in RewardIndex
    PROVE  /\ \A p \in DOMAIN positions :
                 UpdatePositionReward(positions[p], UpdatedRewards).reward_pending[i]
                    <= rewardVault[i]
           /\ IneligibleReward(UpdatedRewards[i]) <= rewardVault[i]
<1> DEFINE D == DOMAIN positions
           pending == [p \in D |->
                          UpdatePositionReward(positions[p], UpdatedRewards).reward_pending[i]]
           left == rewards[i].reward_duration_end - LastTimeRewardApplicable(rewards[i], clock)
           running == MulDivDown(rewards[i].reward_rate, left, REWARD_RATE_SCALE)
           worth == IneligibleReward(UpdatedRewards[i])
<1>1. rewardVault[i] >= SumFunction(pending) + worth + running
    BY RewardCovers DEF RewardVaultsCoverClaims
<1>2. /\ UpdatedRewards \in [RewardIndex -> RewardInfo] /\ IsFiniteSet(D)
      /\ Level(positions, UpdatedRewards[i], i) /\ rewards[i] \in RewardInfo /\ clock \in Nat
      /\ \A p \in D : CanUpdatePositionReward(positions[p], UpdatedRewards)
    BY CurrentRewards DEF SafeInv, Current, CountInv, TypeInv, TypeOK
<1>3. running \in Nat
    <2>1. rewards[i].reward_rate \in Nat /\ left \in Nat
        BY <1>2 DEF RewardInfo, LastTimeRewardApplicable
    <2> HIDE DEF left
    <2> QED
        BY <2>1, ScaleTypes, MulDivDownType
<1>4. worth \in Nat
    BY <1>2, IneligibleRewardType
<1>5. \A p \in D : pending[p] \in Nat
    BY <1>2, UpdatedRewardPending DEF Level
<1>6. rewardVault[i] \in Nat
    BY DEF SafeInv, TypeInv, TypeOK
<1>7. SumFunction(pending) = SumFunctionOnSet(pending, D) /\ SumFunction(pending) \in Nat
    BY <1>2, PendingCovered DEF SumFunction
<1> HIDE DEF pending, running, worth
<1>8. \A p \in D : pending[p] <= SumFunction(pending)
    BY <1>2, <1>5, <1>7, SumMember
<1>9. \A p \in D : pending[p] <= rewardVault[i]
    BY <1>1, <1>3, <1>4, <1>5, <1>6, <1>7, <1>8
<1>10. worth <= rewardVault[i]
    BY <1>1, <1>3, <1>4, <1>6, <1>7
<1> QED
    BY <1>9, <1>10 DEF pending, worth

LEMMA SolventPays ==
    ASSUME SafeInv, SolvencyInv, RewardInv
    PROVE  PayoutsSucceed
<1>1. CanUpdateRewards
    BY RewardsCanUpdate DEF SafeInv, TypeInv
<1>2. \A p \in DOMAIN positions :
        /\ CanUpdatePositionReward(positions[p], UpdatedRewards)
        /\ CanUpdateFee(positions[p], pool.fee_per_liquidity)
    <2>1. \A p \in DOMAIN positions : CanUpdatePositionReward(positions[p], UpdatedRewards)
        BY CurrentRewards DEF SafeInv, Current
    <2>2. ASSUME NEW p \in DOMAIN positions
          PROVE  CanUpdateFee(positions[p], pool.fee_per_liquidity)
        <3>1. /\ \A t \in Token : positions[p].fee_checkpoint[t] <= pool.fee_per_liquidity[t]
              /\ positions[p].fee_checkpoint \in [Token -> Nat]
              /\ pool.fee_per_liquidity \in [Token -> Nat]
            BY DEF SafeInv, TypeInv, TypeOK, PoolState, PositionState, CheckpointsBehind
        <3> QED
            BY <3>1 DEF CanUpdateFee
    <2> QED
        BY <2>1, <2>2
<1>3. ASSUME NEW p \in DOMAIN positions
      PROVE  /\ positions[p].unlocked_liquidity <= pool.liquidity
             /\ \A delta \in 0 .. positions[p].unlocked_liquidity : CanPay(GetAmountsDown(delta))
             /\ CanPay(UpdateFee(positions[p], pool.fee_per_liquidity).fee_pending)
    <2>1. Token # {}
        BY DEF Token
    <2> QED
        BY <2>1, VaultPays DEF CanPay
<1>4. CanPay(pool.protocol_fee) /\ CanPay(pool.partner_fee)
    BY VaultPays DEF CanPay
<1> QED
    BY <1>1, <1>2, <1>3, <1>4, RewardVaultPays DEF PayoutsSucceed

(* No state of the pool stands between an owner and the money, whatever      *)
(* others did: in every reachable state the checked subtractions of          *)
(* remove_liquidity, claim_position_fee, claim_reward and                    *)
(* withdraw_ineligible_reward succeed, and the vault has the balance for     *)
(* each of their transfers and for those of the protocol's and the partner's *)
(* fees.  A frozen reward vault is another matter: claim_reward skips it.    *)
THEOREM PayoutSafety == Spec => []PayoutsSucceed
<1>1. TypeInv /\ CheckpointsBehind /\ CountInv /\ OwnedInv /\ SolvencyInv /\ RewardInv
      => PayoutsSucceed
    BY SolventPays DEF SafeInv
<1> QED
    BY <1>1, TypeInvariance, CheckpointSafety, CountInvariance, OwnedInvariance,
       SolvencyInvariance, RewardInvariance, PTL

-----------------------------------------------------------------------------
(* EarnedRewardsAreKept.  What a position has earned of a reward is what it  *)
(* would hold if both were updated now.                                      *)
RewardEarned(position, infos, i) == UpdatePositionReward(position, infos).reward_pending[i]

Refreshed(infos, liquidity, now) ==
    [i \in RewardIndex |-> UpdateReward(infos[i], liquidity, now)]

LEMMA EarnedValue ==
    ASSUME NEW position \in PositionState, NEW infos \in [RewardIndex -> RewardInfo],
           NEW i \in RewardIndex,
           position.reward_checkpoint[i] <= infos[i].reward_per_token_stored
    PROVE  LET new == MulDivDown(GetTotalLiquidity(position),
                                 infos[i].reward_per_token_stored - position.reward_checkpoint[i],
                                 TOTAL_REWARD_SCALE)
           IN  /\ RewardEarned(position, infos, i)
                    = IF infos[i].initialized THEN position.reward_pending[i] + new
                                              ELSE position.reward_pending[i]
               /\ new \in Nat /\ RewardEarned(position, infos, i) \in Nat
               /\ position.reward_pending[i] \in Nat
               /\ position.reward_pending[i] <= RewardEarned(position, infos, i)
<1> DEFINE T == TOTAL_REWARD_SCALE
           liquidity == GetTotalLiquidity(position)
           growth == infos[i].reward_per_token_stored - position.reward_checkpoint[i]
           pending == position.reward_pending[i]
           new == MulDivDown(liquidity, growth, T)
<1>1. /\ T \in Nat \ {0} /\ liquidity \in Nat /\ pending \in Nat
      /\ infos[i].reward_per_token_stored \in Nat /\ position.reward_checkpoint[i] \in Nat
    BY ScaleTypes, TotalLiquidityType DEF PositionState, RewardInfo
<1>2. RewardEarned(position, infos, i) = IF infos[i].initialized THEN pending + new ELSE pending
    BY DEF RewardEarned, UpdatePositionReward, PositionState
<1>3. growth \in Nat
    BY <1>1
<1> HIDE DEF T, liquidity, growth
<1>4. new \in Nat
    BY <1>1, <1>3, MulDivDownType
<1> HIDE DEF new, pending
<1>5. RewardEarned(position, infos, i) \in Nat /\ pending <= RewardEarned(position, infos, i)
    BY <1>1, <1>2, <1>4
<1> QED
    BY <1>1, <1>2, <1>4, <1>5 DEF new, pending, liquidity, growth, T

(* A position with the same pending reward, checkpoint and liquidity has     *)
(* earned no less when the reward has accumulated no less.                   *)
LEMMA EarnedGrowsWithLevel ==
    ASSUME NEW position \in PositionState, NEW next \in PositionState,
           NEW infos \in [RewardIndex -> RewardInfo], NEW later \in [RewardIndex -> RewardInfo],
           NEW i \in RewardIndex,
           next.reward_pending[i] = position.reward_pending[i],
           next.reward_checkpoint[i] = position.reward_checkpoint[i],
           GetTotalLiquidity(next) = GetTotalLiquidity(position),
           position.reward_checkpoint[i] <= infos[i].reward_per_token_stored,
           infos[i].reward_per_token_stored <= later[i].reward_per_token_stored,
           infos[i].initialized => later[i].initialized
    PROVE  RewardEarned(position, infos, i) <= RewardEarned(next, later, i)
<1> DEFINE T == TOTAL_REWARD_SCALE
           liquidity == GetTotalLiquidity(position)
           growth == infos[i].reward_per_token_stored - position.reward_checkpoint[i]
           more == later[i].reward_per_token_stored - position.reward_checkpoint[i]
           pending == position.reward_pending[i]
           new == MulDivDown(liquidity, growth, T)
           newer == MulDivDown(liquidity, more, T)
<1>1. /\ T \in Nat \ {0} /\ liquidity \in Nat
      /\ infos[i].reward_per_token_stored \in Nat /\ later[i].reward_per_token_stored \in Nat
      /\ position.reward_checkpoint[i] \in Nat
    BY ScaleTypes, TotalLiquidityType DEF PositionState, RewardInfo
<1>2. position.reward_checkpoint[i] <= later[i].reward_per_token_stored
    BY <1>1
<1>3. /\ RewardEarned(position, infos, i) = IF infos[i].initialized THEN pending + new ELSE pending
      /\ new \in Nat /\ pending \in Nat
    BY EarnedValue
<1>4. /\ RewardEarned(next, later, i) = IF later[i].initialized THEN pending + newer ELSE pending
      /\ newer \in Nat
    BY <1>2, EarnedValue
<1>5. growth \in Nat /\ more \in Nat /\ growth <= more
    BY <1>1, <1>2
<1> HIDE DEF T, liquidity, growth, more
<1>6. new <= newer
    BY <1>1, <1>5, MulDivDownMonotone
<1> HIDE DEF new, newer, pending
<1> QED
    BY <1>3, <1>4, <1>6

(* A campaign that has run longer has accumulated no less.                   *)
LEMMA RewardGrowsWithTime ==
    ASSUME NEW reward \in RewardInfo, NEW liquidity \in Nat, NEW now \in Nat, NEW later \in Nat,
           now <= later, reward.last_update_time <= reward.reward_duration_end,
           reward.last_update_time <= now
    PROVE  UpdateReward(reward, liquidity, now).reward_per_token_stored
              <= UpdateReward(reward, liquidity, later).reward_per_token_stored
<1> DEFINE S == LIQUIDITY_SCALE
           rate == reward.reward_rate
           stored == reward.reward_per_token_stored
           x == LastTimeRewardApplicable(reward, now) - reward.last_update_time
           y == LastTimeRewardApplicable(reward, later) - reward.last_update_time
<1>1. /\ S \in Nat /\ rate \in Nat /\ stored \in Nat
      /\ reward.reward_duration_end \in Nat /\ reward.last_update_time \in Nat
    BY ScaleTypes DEF RewardInfo
<1>2. x \in Nat /\ y \in Nat /\ x <= y
    BY <1>1 DEF LastTimeRewardApplicable
<1>3. CASE reward.initialized /\ liquidity > 0
    <2> DEFINE u == x * rate
               v == y * rate
               a == MulDivDown(u, S, liquidity)
               b == MulDivDown(v, S, liquidity)
    <2>1. /\ UpdateReward(reward, liquidity, now).reward_per_token_stored = stored + a
          /\ UpdateReward(reward, liquidity, later).reward_per_token_stored = stored + b
        BY <1>3 DEF UpdateReward, AccumulateRewardPerTokenStored,
                    GetSecondsElapsedSinceLastUpdate, RewardInfo
    <2> HIDE DEF x, y, S, rate, stored
    <2>2. u \in Nat /\ v \in Nat /\ u <= v
        BY <1>1, <1>2, ProductsOrdered
    <2>3. a \in Nat /\ b \in Nat /\ a <= b
        <3>1. liquidity \in Nat \ {0} /\ S <= S
            BY <1>1, <1>3
        <3> HIDE DEF u, v
        <3> QED
            BY <1>1, <2>2, <3>1, MulDivDownType, MulDivDownMonotone
    <2> HIDE DEF a, b
    <2> QED
        BY <1>1, <2>1, <2>3
<1>4. CASE ~(reward.initialized /\ liquidity > 0)
    <2>1. /\ UpdateReward(reward, liquidity, now).reward_per_token_stored = stored
          /\ UpdateReward(reward, liquidity, later).reward_per_token_stored = stored
        BY <1>4 DEF UpdateReward, AccumulateEmptySeconds, RewardInfo
    <2> QED
        BY <1>1, <2>1
<1> QED
    BY <1>3, <1>4

(* Updated twice at the same time, a reward accumulates once, even if the    *)
(* liquidity has changed in between.                                         *)
LEMMA UpdatedTwice ==
    ASSUME NEW reward \in RewardInfo, NEW liquidity \in Nat, NEW next \in Nat, NEW now \in Nat,
           reward.last_update_time <= reward.reward_duration_end, reward.last_update_time <= now
    PROVE  LET updated == UpdateReward(reward, liquidity, now)
           IN  UpdateReward(updated, next, now).reward_per_token_stored
                 = updated.reward_per_token_stored
<1> DEFINE updated == UpdateReward(reward, liquidity, now)
           last == LastTimeRewardApplicable(reward, now)
<1>1. CanUpdateReward(reward, now)
    BY DEF CanUpdateReward, GetSecondsElapsedSinceLastUpdate, LastTimeRewardApplicable, RewardInfo
<1>2. /\ updated \in RewardInfo /\ updated.initialized = reward.initialized
      /\ updated.reward_duration_end = reward.reward_duration_end
    BY <1>1, UpdateRewardType
<1>3. reward.initialized => updated.last_update_time = last
    BY DEF UpdateReward, AccumulateRewardPerTokenStored, AccumulateEmptySeconds,
           UpdateLastUpdateTime, RewardInfo
<1>4. last \in Nat
    BY DEF LastTimeRewardApplicable, RewardInfo
<1>5. LastTimeRewardApplicable(updated, now) = last
    BY <1>2 DEF LastTimeRewardApplicable
<1> HIDE DEF updated, last
<1>6. CASE reward.initialized /\ next > 0
    <2>1. GetSecondsElapsedSinceLastUpdate(updated, now) = 0
        BY <1>3, <1>4, <1>5, <1>6 DEF GetSecondsElapsedSinceLastUpdate
    <2>2. updated.reward_rate \in Nat /\ updated.reward_per_token_stored \in Nat
        BY <1>2 DEF RewardInfo
    <2>3. UpdateReward(updated, next, now).reward_per_token_stored
            = updated.reward_per_token_stored
              + MulDivDown(0 * updated.reward_rate, LIQUIDITY_SCALE, next)
        BY <1>2, <1>6, <2>1 DEF UpdateReward, AccumulateRewardPerTokenStored, RewardInfo
    <2>4. MulDivDown(0 * updated.reward_rate, LIQUIDITY_SCALE, next) = 0
        <3>1. 0 * updated.reward_rate = 0
            BY <2>2
        <3>2. LIQUIDITY_SCALE \in Nat /\ next \in Nat \ {0}
            BY <1>6, ScaleTypes
        <3>3. MulDivDown(0, LIQUIDITY_SCALE, next) <= 0 /\ MulDivDown(0, LIQUIDITY_SCALE, next) \in Nat
            <4>1. MulDivDown(0, LIQUIDITY_SCALE, next) * next <= 0 * LIQUIDITY_SCALE
                BY <3>2, MulDivDownCovered
            <4>2. MulDivDown(0, LIQUIDITY_SCALE, next) \in Nat
                BY <3>2, MulDivDownType
            <4> QED
                BY <3>2, <4>1, <4>2
        <3> QED
            BY <3>1, <3>3
    <2> QED
        BY <2>2, <2>3, <2>4 DEF updated
<1>7. CASE ~(reward.initialized /\ next > 0)
    <2>1. UpdateReward(updated, next, now).reward_per_token_stored = updated.reward_per_token_stored
        BY <1>2, <1>7 DEF UpdateReward, AccumulateEmptySeconds, RewardInfo
    <2> QED
        BY <2>1 DEF updated
<1> QED
    BY <1>6, <1>7

(* Positions, rewards, liquidity and time as SafeInv leaves them.            *)
Accounted(open, infos, liquidity, now) ==
    /\ open \in [DOMAIN open -> PositionState]
    /\ infos \in [RewardIndex -> RewardInfo] /\ liquidity \in Nat /\ now \in Nat
    /\ \A i \in RewardIndex :
          /\ infos[i].last_update_time <= infos[i].reward_duration_end
          /\ infos[i].last_update_time <= now
    /\ \A q \in DOMAIN open, i \in RewardIndex :
          open[q].reward_checkpoint[i] <= infos[i].reward_per_token_stored

LEMMA SafeIsAccounted ==
    ASSUME SafeInv
    PROVE  /\ Accounted(positions, rewards, pool.liquidity, clock)
           /\ UpdatedRewards = Refreshed(rewards, pool.liquidity, clock)
BY DEF SafeInv, TypeInv, TypeOK, PoolState, CheckpointsBehind, Accounted, UpdatedRewards, Refreshed

LEMMA SafeIsAccountedNext ==
    ASSUME SafeInv'
    PROVE  /\ Accounted(positions', rewards', pool'.liquidity, clock')
           /\ UpdatedRewards' = Refreshed(rewards', pool'.liquidity, clock')
BY DEF SafeInv, TypeInv, TypeOK, PoolState, CheckpointsBehind, Accounted, UpdatedRewards, Refreshed

LEMMA RefreshedFacts ==
    ASSUME NEW open, NEW infos, NEW liquidity, NEW now, Accounted(open, infos, liquidity, now)
    PROVE  LET fresh == Refreshed(infos, liquidity, now)
           IN  /\ fresh \in [RewardIndex -> RewardInfo]
               /\ \A i \in RewardIndex :
                     /\ fresh[i] = UpdateReward(infos[i], liquidity, now)
                     /\ fresh[i].initialized = infos[i].initialized
                     /\ infos[i].reward_per_token_stored <= fresh[i].reward_per_token_stored
               /\ \A q \in DOMAIN open, i \in RewardIndex :
                     open[q].reward_checkpoint[i] <= fresh[i].reward_per_token_stored
<1> DEFINE fresh == Refreshed(infos, liquidity, now)
<1>1. ASSUME NEW i \in RewardIndex
      PROVE  /\ fresh[i] = UpdateReward(infos[i], liquidity, now)
             /\ fresh[i] \in RewardInfo
             /\ fresh[i].initialized = infos[i].initialized
             /\ infos[i].reward_per_token_stored \in Nat
             /\ fresh[i].reward_per_token_stored \in Nat
             /\ infos[i].reward_per_token_stored <= fresh[i].reward_per_token_stored
    <2>1. fresh[i] = UpdateReward(infos[i], liquidity, now)
        BY DEF Refreshed
    <2>2. infos[i] \in RewardInfo /\ liquidity \in Nat /\ now \in Nat
        BY DEF Accounted
    <2>3. CanUpdateReward(infos[i], now)
        BY <2>2 DEF Accounted, CanUpdateReward, GetSecondsElapsedSinceLastUpdate,
                    LastTimeRewardApplicable, RewardInfo
    <2> HIDE DEF fresh
    <2>4. /\ fresh[i] \in RewardInfo /\ fresh[i].initialized = infos[i].initialized
          /\ fresh[i].reward_per_token_stored >= infos[i].reward_per_token_stored
        BY <2>1, <2>2, <2>3, UpdateRewardType
    <2>5. infos[i].reward_per_token_stored \in Nat /\ fresh[i].reward_per_token_stored \in Nat
        BY <2>2, <2>4 DEF RewardInfo
    <2> QED
        BY <2>1, <2>4, <2>5
<1>2. fresh \in [RewardIndex -> RewardInfo]
    BY <1>1 DEF Refreshed
<1>3. ASSUME NEW q \in DOMAIN open, NEW i \in RewardIndex
      PROVE  open[q].reward_checkpoint[i] <= fresh[i].reward_per_token_stored
    <2>1. /\ open[q].reward_checkpoint[i] \in Nat
          /\ open[q].reward_checkpoint[i] <= infos[i].reward_per_token_stored
        BY DEF Accounted, PositionState
    <2> HIDE DEF fresh
    <2> QED
        BY <1>1, <2>1
<1> QED
    BY <1>1, <1>2, <1>3

(* What SafeInv says of the rewards as they would be if updated now.         *)
LEMMA UpdatedNow ==
    ASSUME SafeInv
    PROVE  /\ UpdatedRewards \in [RewardIndex -> RewardInfo]
           /\ \A p \in DOMAIN positions : positions[p] \in PositionState
           /\ \A i \in RewardIndex :
                 /\ UpdatedRewards[i].initialized = rewards[i].initialized
                 /\ UpdatedRewards[i].reward_per_token_stored \in Nat
           /\ \A p \in DOMAIN positions, i \in RewardIndex :
                 /\ positions[p].reward_checkpoint[i] <= UpdatedRewards[i].reward_per_token_stored
                 /\ EarnedReward(p, i) = RewardEarned(positions[p], UpdatedRewards, i)
                 /\ EarnedReward(p, i) \in Nat
           /\ \A p, i : p \notin DOMAIN positions => EarnedReward(p, i) = 0
<1>1. /\ UpdatedRewards \in [RewardIndex -> RewardInfo]
      /\ \A i \in RewardIndex : UpdatedRewards[i].initialized = rewards[i].initialized
      /\ \A p \in DOMAIN positions, i \in RewardIndex :
            positions[p].reward_checkpoint[i] <= UpdatedRewards[i].reward_per_token_stored
      /\ \A p \in DOMAIN positions : positions[p] \in PositionState
    BY SafeIsAccounted, RefreshedFacts DEF Accounted
<1>2. \A i \in RewardIndex : UpdatedRewards[i].reward_per_token_stored \in Nat
    BY <1>1 DEF RewardInfo
<1>3. \A p \in DOMAIN positions, i \in RewardIndex :
        /\ EarnedReward(p, i) = RewardEarned(positions[p], UpdatedRewards, i)
        /\ RewardEarned(positions[p], UpdatedRewards, i) \in Nat
    BY <1>1, EarnedValue DEF EarnedReward, RewardEarned
<1>4. \A p, i : p \notin DOMAIN positions => EarnedReward(p, i) = 0
    BY DEF EarnedReward
<1> QED
    BY <1>1, <1>2, <1>3, <1>4

LEMMA UpdatedNowNext ==
    ASSUME SafeInv'
    PROVE  /\ UpdatedRewards' \in [RewardIndex -> RewardInfo]
           /\ \A p \in DOMAIN positions' : positions'[p] \in PositionState
           /\ \A i \in RewardIndex :
                 /\ UpdatedRewards'[i].initialized = rewards'[i].initialized
                 /\ UpdatedRewards'[i].reward_per_token_stored \in Nat
                 /\ rewards'[i].reward_per_token_stored
                        <= UpdatedRewards'[i].reward_per_token_stored
           /\ \A p \in DOMAIN positions', i \in RewardIndex :
                 /\ positions'[p].reward_checkpoint[i] <= UpdatedRewards'[i].reward_per_token_stored
                 /\ EarnedReward(p, i)' = RewardEarned(positions'[p], UpdatedRewards', i)
                 /\ EarnedReward(p, i)' \in Nat
                 /\ positions'[p].reward_pending[i] <= EarnedReward(p, i)'
           /\ \A p, i : p \notin DOMAIN positions' => EarnedReward(p, i)' = 0
<1>1. /\ UpdatedRewards' \in [RewardIndex -> RewardInfo]
      /\ \A i \in RewardIndex :
            /\ UpdatedRewards'[i].initialized = rewards'[i].initialized
            /\ rewards'[i].reward_per_token_stored <= UpdatedRewards'[i].reward_per_token_stored
      /\ \A p \in DOMAIN positions', i \in RewardIndex :
            positions'[p].reward_checkpoint[i] <= UpdatedRewards'[i].reward_per_token_stored
      /\ \A p \in DOMAIN positions' : positions'[p] \in PositionState
    BY SafeIsAccountedNext, RefreshedFacts DEF Accounted
<1>2. \A i \in RewardIndex : UpdatedRewards'[i].reward_per_token_stored \in Nat
    BY <1>1 DEF RewardInfo
<1>3. \A p \in DOMAIN positions', i \in RewardIndex :
        /\ EarnedReward(p, i)' = RewardEarned(positions'[p], UpdatedRewards', i)
        /\ RewardEarned(positions'[p], UpdatedRewards', i) \in Nat
        /\ positions'[p].reward_pending[i] <= RewardEarned(positions'[p], UpdatedRewards', i)
    BY <1>1, EarnedValue DEF EarnedReward, RewardEarned
<1>4. \A p, i : p \notin DOMAIN positions' => EarnedReward(p, i)' = 0
    BY DEF EarnedReward
<1> QED
    BY <1>1, <1>2, <1>3, <1>4

(* No step makes a reward fall back: whatever becomes of its accumulator, an *)
(* update after the step reaches at least what one before it would have.     *)
LevelGrows(i) ==
    /\ UpdatedRewards[i].reward_per_token_stored <= UpdatedRewards'[i].reward_per_token_stored
    /\ UpdatedRewards[i].initialized => UpdatedRewards'[i].initialized

(* What a step may do to the reward of an open position without taking any.  *)
StillEarned(q, i) ==
    \/ /\ positions'[q].reward_pending[i] = positions[q].reward_pending[i]
       /\ positions'[q].reward_checkpoint[i] = positions[q].reward_checkpoint[i]
       /\ GetTotalLiquidity(positions'[q]) = GetTotalLiquidity(positions[q])
    \/ positions'[q].reward_pending[i] = RewardEarned(positions[q], UpdatedRewards, i)

RewardKept(p, i) ==
    LET loss == EarnedReward(p, i) - EarnedReward(p, i)'
    IN  \/ loss <= 0
        \/ loss = rewardVault[i] - rewardVault'[i]
        \/ loss = EarnedReward(p, i) /\ rewardVaultFrozen[i]
        \/ \E q \in PositionId \ {p} : loss = EarnedReward(q, i)' - EarnedReward(q, i)

LEMMA StillEarnedKeeps ==
    ASSUME SafeInv, SafeInv', NEW i \in RewardIndex, LevelGrows(i),
           NEW q \in DOMAIN positions, q \in DOMAIN positions', StillEarned(q, i)
    PROVE  RewardKept(q, i)
<1>1. /\ EarnedReward(q, i) = RewardEarned(positions[q], UpdatedRewards, i)
      /\ EarnedReward(q, i) \in Nat /\ positions[q] \in PositionState
      /\ UpdatedRewards \in [RewardIndex -> RewardInfo]
      /\ positions[q].reward_checkpoint[i] <= UpdatedRewards[i].reward_per_token_stored
    BY UpdatedNow
<1>2. /\ EarnedReward(q, i)' = RewardEarned(positions'[q], UpdatedRewards', i)
      /\ EarnedReward(q, i)' \in Nat /\ positions'[q] \in PositionState
      /\ UpdatedRewards' \in [RewardIndex -> RewardInfo]
      /\ positions'[q].reward_pending[i] <= EarnedReward(q, i)'
    BY UpdatedNowNext
<1>3. EarnedReward(q, i) <= EarnedReward(q, i)'
    <2>1. CASE positions'[q].reward_pending[i] = RewardEarned(positions[q], UpdatedRewards, i)
        BY <1>1, <1>2, <2>1
    <2>2. CASE /\ positions'[q].reward_pending[i] = positions[q].reward_pending[i]
               /\ positions'[q].reward_checkpoint[i] = positions[q].reward_checkpoint[i]
               /\ GetTotalLiquidity(positions'[q]) = GetTotalLiquidity(positions[q])
        <3>1. RewardEarned(positions[q], UpdatedRewards, i)
                 <= RewardEarned(positions'[q], UpdatedRewards', i)
            BY <1>1, <1>2, <2>2, EarnedGrowsWithLevel DEF LevelGrows
        <3> QED
            BY <1>1, <1>2, <3>1
    <2> QED
        BY <2>1, <2>2 DEF StillEarned
<1> QED
    BY <1>1, <1>2, <1>3 DEF RewardKept

(* A position that is not open has earned nothing.                           *)
LEMMA NothingToKeep ==
    ASSUME SafeInv, SafeInv', NEW i \in RewardIndex, NEW p, EarnedReward(p, i) = 0
    PROVE  RewardKept(p, i)
<1>1. EarnedReward(p, i)' \in Nat
    BY UpdatedNowNext
<1> QED
    BY <1>1 DEF RewardKept

LEMMA AllKept ==
    ASSUME SafeInv, SafeInv', NEW i \in RewardIndex, LevelGrows(i),
           \A q \in DOMAIN positions : q \in DOMAIN positions' /\ StillEarned(q, i)
    PROVE  \A p : RewardKept(p, i)
<1> SUFFICES ASSUME NEW p PROVE RewardKept(p, i)
    OBVIOUS
<1>1. CASE p \in DOMAIN positions
    BY <1>1, StillEarnedKeeps
<1>2. CASE p \notin DOMAIN positions
    BY <1>2, UpdatedNow, NothingToKeep
<1> QED
    BY <1>1, <1>2

-----------------------------------------------------------------------------
(* The three ways in which a step treats the accumulators: it leaves them    *)
(* alone, it updates them, or it edits what is not accumulated.              *)
LEMMA TimeGrows ==
    ASSUME SafeInv, SafeInv', NEW i \in RewardIndex, rewards' = rewards,
           pool'.liquidity = pool.liquidity, clock <= clock'
    PROVE  LevelGrows(i)
<1>1. /\ Accounted(positions, rewards, pool.liquidity, clock)
      /\ UpdatedRewards = Refreshed(rewards, pool.liquidity, clock)
      /\ UpdatedRewards' = Refreshed(rewards, pool.liquidity, clock')
      /\ clock' \in Nat
    BY SafeIsAccounted, SafeIsAccountedNext DEF Accounted
<1>2. /\ UpdatedRewards[i] = UpdateReward(rewards[i], pool.liquidity, clock)
      /\ UpdatedRewards'[i] = UpdateReward(rewards[i], pool.liquidity, clock')
    BY <1>1 DEF Refreshed
<1>3. UpdatedRewards[i].reward_per_token_stored <= UpdatedRewards'[i].reward_per_token_stored
    BY <1>1, <1>2, RewardGrowsWithTime DEF Accounted
<1>4. UpdatedRewards[i].initialized = UpdatedRewards'[i].initialized
    BY UpdatedNow, UpdatedNowNext
<1> QED
    BY <1>3, <1>4 DEF LevelGrows

LEMMA UpdateKeepsLevel ==
    ASSUME SafeInv, SafeInv', NEW i \in RewardIndex,
           rewards'[i].reward_per_token_stored = UpdatedRewards[i].reward_per_token_stored,
           rewards'[i].initialized = UpdatedRewards[i].initialized
    PROVE  LevelGrows(i)
BY UpdatedNow, UpdatedNowNext DEF LevelGrows

LEMMA EditKeepsLevel ==
    ASSUME SafeInv, SafeInv', NEW i \in RewardIndex,
           pool'.liquidity = pool.liquidity, clock' = clock,
           rewards'[i].initialized,
           rewards'[i].reward_per_token_stored = rewards[i].reward_per_token_stored,
           rewards'[i].reward_rate = rewards[i].reward_rate,
           rewards'[i].last_update_time = rewards[i].last_update_time,
           rewards'[i].reward_duration_end = rewards[i].reward_duration_end
    PROVE  LevelGrows(i)
<1> DEFINE reward == rewards[i]
           next == rewards'[i]
<1>1. /\ UpdatedRewards[i] = UpdateReward(reward, pool.liquidity, clock)
      /\ UpdatedRewards'[i] = UpdateReward(next, pool.liquidity, clock)
      /\ reward \in RewardInfo /\ next \in RewardInfo
    BY SafeIsAccounted, SafeIsAccountedNext DEF Accounted, Refreshed
<1>2. CASE ~reward.initialized
    <2>1. UpdatedRewards[i] = reward
        BY <1>1, <1>2 DEF UpdateReward
    <2>2. next.reward_per_token_stored <= UpdatedRewards'[i].reward_per_token_stored
        BY UpdatedNowNext
    <2>3. UpdatedRewards'[i].initialized
        BY UpdatedNowNext
    <2> QED
        BY <2>1, <2>2, <2>3 DEF LevelGrows
<1>3. CASE reward.initialized
    <2> HIDE DEF reward, next
    <2>1. /\ next.initialized
          /\ next.reward_per_token_stored = reward.reward_per_token_stored
          /\ next.reward_rate = reward.reward_rate
          /\ next.last_update_time = reward.last_update_time
          /\ next.reward_duration_end = reward.reward_duration_end
        BY DEF reward, next
    <2>2. UpdatedRewards[i].reward_per_token_stored = UpdatedRewards'[i].reward_per_token_stored
        BY <1>1, <1>3, <2>1 DEF UpdateReward, AccumulateRewardPerTokenStored,
            AccumulateEmptySeconds, GetSecondsElapsedSinceLastUpdate, LastTimeRewardApplicable,
            RewardInfo
    <2>3. UpdatedRewards'[i].initialized
        BY UpdatedNowNext
    <2>4. UpdatedRewards'[i].reward_per_token_stored \in Nat
        BY UpdatedNowNext
    <2> QED
        BY <2>2, <2>3, <2>4 DEF LevelGrows
<1> QED
    BY <1>2, <1>3

(* Steps that do not touch rewards, nor what positions hold of them.         *)
LEMMA IdleKeepsRewards ==
    ASSUME SafeInv, SafeInv', RewardFieldsKept, pool'.liquidity = pool.liquidity, clock <= clock',
           NEW i \in RewardIndex
    PROVE  \A p : RewardKept(p, i)
<1>1. \A q \in DOMAIN positions : q \in DOMAIN positions' /\ StillEarned(q, i)
    BY DEF RewardFieldsKept, StillEarned
<1>2. LevelGrows(i)
    BY TimeGrows DEF RewardFieldsKept
<1> QED
    BY <1>1, <1>2, AllKept

LEMMA CreatePositionKeepsRewards ==
    ASSUME SafeInv, SafeInv', NEW p \in PositionId, CreatePosition(p), NEW i \in RewardIndex
    PROVE  \A q : RewardKept(q, i)
<1>1. /\ DOMAIN positions' = DOMAIN positions \cup {p}
      /\ rewards' = rewards /\ clock' = clock
      /\ \A q \in DOMAIN positions : positions'[q] = positions[q]
    BY DEF CreatePosition, Put
<1>2. pool'.liquidity = pool.liquidity /\ clock <= clock'
    BY <1>1 DEF CreatePosition, SafeInv, TypeInv, TypeOK, PoolState
<1>3. \A q \in DOMAIN positions : q \in DOMAIN positions' /\ StillEarned(q, i)
    BY <1>1 DEF StillEarned
<1>4. LevelGrows(i)
    BY <1>1, <1>2, TimeGrows
<1> QED
    BY <1>3, <1>4, AllKept

(* A position is closed when it is empty: it has nothing to lose.            *)
LEMMA ClosePositionKeepsRewards ==
    ASSUME SafeInv, SafeInv', NEW p \in PositionId, ClosePosition(p), NEW i \in RewardIndex
    PROVE  \A q : RewardKept(q, i)
<1>1. /\ p \in DOMAIN positions /\ IsEmpty(positions[p])
      /\ DOMAIN positions' = DOMAIN positions \ {p}
      /\ rewards' = rewards /\ clock' = clock
      /\ \A q \in DOMAIN positions' : positions'[q] = positions[q]
    BY DEF ClosePosition, Drop
<1>2. pool'.liquidity = pool.liquidity /\ clock <= clock'
    BY <1>1 DEF ClosePosition, SafeInv, TypeInv, TypeOK, PoolState
<1>3. LevelGrows(i)
    BY <1>1, <1>2, TimeGrows
<1>4. \A q \in DOMAIN positions \ {p} : RewardKept(q, i)
    <2>1. \A q \in DOMAIN positions \ {p} : q \in DOMAIN positions' /\ StillEarned(q, i)
        BY <1>1 DEF StillEarned
    <2> QED
        BY <1>3, <2>1, StillEarnedKeeps
<1>5. EarnedReward(p, i) = 0
    <2> DEFINE growth == UpdatedRewards[i].reward_per_token_stored - positions[p].reward_checkpoint[i]
               new == MulDivDown(0, growth, TOTAL_REWARD_SCALE)
    <2>1. positions[p].reward_pending[i] = 0 /\ GetTotalLiquidity(positions[p]) = 0
        BY <1>1 DEF IsEmpty
    <2>2. /\ EarnedReward(p, i) = RewardEarned(positions[p], UpdatedRewards, i)
          /\ positions[p] \in PositionState /\ UpdatedRewards \in [RewardIndex -> RewardInfo]
          /\ positions[p].reward_checkpoint[i] <= UpdatedRewards[i].reward_per_token_stored
          /\ UpdatedRewards[i].reward_per_token_stored \in Nat
        BY <1>1, UpdatedNow
    <2>3. EarnedReward(p, i) = IF UpdatedRewards[i].initialized THEN 0 + new ELSE 0
        BY <2>1, <2>2, EarnedValue
    <2>4. growth \in Nat /\ TOTAL_REWARD_SCALE \in Nat \ {0}
        BY <2>2, ScaleTypes DEF PositionState
    <2> HIDE DEF growth
    <2>5. new = 0
        <3>1. new \in Nat /\ new * TOTAL_REWARD_SCALE <= 0 * growth
            BY <2>4, MulDivDownType, MulDivDownCovered
        <3> HIDE DEF new
        <3> QED
            BY <2>4, <3>1
    <2> QED
        BY <2>3, <2>5
<1>6. \A q : q = p \/ q \notin DOMAIN positions => RewardKept(q, i)
    BY <1>5, UpdatedNow, NothingToKeep
<1> QED
    BY <1>4, <1>6

LEMMA LiquidityKeepsRewards ==
    ASSUME SafeInv, SafeInv', NEW p \in PositionId, NEW delta \in Nat, NEW threshold,
           AddLiquidity(p, delta, threshold) \/ RemoveLiquidity(p, delta, threshold),
           NEW i \in RewardIndex
    PROVE  \A q : RewardKept(q, i)
<1>1. /\ rewards' = UpdatedRewards /\ DOMAIN positions' = DOMAIN positions
      /\ \A q \in DOMAIN positions : RewardIntact(q)
    BY LiquiditySettles
<1>2. LevelGrows(i)
    BY <1>1, UpdateKeepsLevel
<1>3. \A q \in DOMAIN positions : StillEarned(q, i)
    BY <1>1 DEF RewardIntact, StillEarned, RewardEarned
<1> QED
    BY <1>1, <1>2, <1>3, AllKept

(* A settled position has earned what it has pending.                        *)
LEMMA SettledEarns ==
    ASSUME NEW position \in PositionState, NEW infos \in [RewardIndex -> RewardInfo],
           NEW i \in RewardIndex,
           position.reward_checkpoint[i] = infos[i].reward_per_token_stored
    PROVE  RewardEarned(position, infos, i) = position.reward_pending[i]
<1> DEFINE T == TOTAL_REWARD_SCALE
           liquidity == GetTotalLiquidity(position)
           growth == infos[i].reward_per_token_stored - position.reward_checkpoint[i]
           new == MulDivDown(liquidity, growth, T)
           pending == position.reward_pending[i]
<1>1. /\ T \in Nat \ {0} /\ liquidity \in Nat
      /\ infos[i].reward_per_token_stored \in Nat
    BY ScaleTypes, TotalLiquidityType DEF RewardInfo
<1>2. position.reward_checkpoint[i] <= infos[i].reward_per_token_stored
    BY <1>1
<1>3. /\ RewardEarned(position, infos, i) = IF infos[i].initialized THEN pending + new ELSE pending
      /\ pending \in Nat
    BY <1>2, EarnedValue
<1>4. growth = 0
    BY <1>1
<1> HIDE DEF T, liquidity, growth
<1>5. new = 0
    <2>1. new \in Nat /\ new * T <= liquidity * 0
        BY <1>1, <1>4, MulDivDownType, MulDivDownCovered
    <2> HIDE DEF new
    <2> QED
        BY <1>1, <2>1
<1> HIDE DEF new, pending
<1> QED
    BY <1>3, <1>5 DEF pending

(* An update leaves nothing more to accumulate at the time it was made.      *)
LEMMA UpdateIsComplete ==
    ASSUME SafeInv, SafeInv', rewards' = UpdatedRewards, clock' = clock, NEW i \in RewardIndex
    PROVE  UpdatedRewards'[i].reward_per_token_stored = rewards'[i].reward_per_token_stored
<1>1. /\ rewards'[i] = UpdateReward(rewards[i], pool.liquidity, clock)
      /\ UpdatedRewards'[i] = UpdateReward(rewards'[i], pool'.liquidity, clock)
    BY SafeIsAccounted, SafeIsAccountedNext DEF Refreshed
<1>2. /\ rewards[i] \in RewardInfo /\ pool.liquidity \in Nat /\ pool'.liquidity \in Nat
      /\ clock \in Nat /\ rewards[i].last_update_time <= rewards[i].reward_duration_end
      /\ rewards[i].last_update_time <= clock
    BY SafeIsAccounted, SafeIsAccountedNext DEF Accounted
<1> QED
    BY <1>1, <1>2, UpdatedTwice

(* A split gives the second position what it takes from the first.           *)
LEMMA SplitKeepsRewards ==
    ASSUME SafeInv, SafeInv', RewardInv, NEW p \in PositionId, NEW r \in PositionId,
           NEW numerators \in SplitParameters, SplitPosition(p, r, numerators),
           NEW i \in RewardIndex
    PROVE  \A q : RewardKept(q, i)
<1> DEFINE x == Settled(p).reward_pending[i]
           y == Settled(r).reward_pending[i]
<1>1. /\ TypeInv /\ TypeOK /\ CanUpdateRewards /\ rewards' = UpdatedRewards /\ p # r
      /\ p \in DOMAIN positions /\ r \in DOMAIN positions /\ CanSettle(p) /\ CanSettle(r)
      /\ Current(rewards') /\ clock' = clock
    BY DEF SafeInv, TypeInv, SplitPosition, Current
<1>2. PICK share \in Shares :
        positions' = [positions EXCEPT ![p] = TakeShare(Settled(p), share),
                                       ![r] = GiveShare(Settled(r), share)]
    BY <1>1, SplitComputes
<1>3. /\ DOMAIN positions' = DOMAIN positions
      /\ positions'[p] = TakeShare(Settled(p), share)
      /\ positions'[r] = GiveShare(Settled(r), share)
      /\ \A q \in DOMAIN positions \ {p, r} : positions'[q] = positions[q]
    BY <1>1, <1>2
<1>4. Settled(p) \in PositionState /\ Settled(r) \in PositionState
    BY <1>1, SettledType
<1>5. LevelGrows(i)
    BY <1>1, UpdateKeepsLevel
<1>6. EarnedReward(p, i) = x /\ EarnedReward(r, i) = y
    <2>1. /\ Settled(p).reward_pending = UpdatePositionReward(positions[p], rewards').reward_pending
          /\ Settled(r).reward_pending = UpdatePositionReward(positions[r], rewards').reward_pending
        BY <1>1, SettledRewards
    <2> QED
        BY <1>1, <2>1, UpdatedNow DEF RewardEarned
<1>7. /\ positions'[p].reward_checkpoint[i] = UpdatedRewards'[i].reward_per_token_stored
      /\ positions'[r].reward_checkpoint[i] = UpdatedRewards'[i].reward_per_token_stored
    <2>1. /\ positions'[p].reward_checkpoint = Settled(p).reward_checkpoint
          /\ positions'[r].reward_checkpoint = Settled(r).reward_checkpoint
        BY <1>3, <1>4 DEF TakeShare, GiveShare, PositionState
    <2>2. /\ Settled(p).reward_checkpoint[i] = rewards'[i].reward_per_token_stored
          /\ Settled(r).reward_checkpoint[i] = rewards'[i].reward_per_token_stored
        BY <1>1, SettledRewards, UpdateLevels DEF SafeInv
    <2> QED
        BY <1>1, <2>1, <2>2, UpdateIsComplete
<1>8. /\ EarnedReward(p, i)' = positions'[p].reward_pending[i]
      /\ EarnedReward(r, i)' = positions'[r].reward_pending[i]
    BY <1>1, <1>3, <1>7, UpdatedNowNext, SettledEarns
<1>9. /\ positions'[p].reward_pending[i] = x - share.reward[i]
      /\ positions'[r].reward_pending[i] = y + share.reward[i]
    BY <1>3, <1>4 DEF TakeShare, GiveShare, PositionState
<1>10. x \in Nat /\ y \in Nat /\ share.reward[i] \in Nat
    BY <1>4 DEF PositionState, Shares
<1> HIDE DEF x, y
<1>11. RewardKept(r, i)
    BY <1>6, <1>8, <1>9, <1>10 DEF RewardKept
<1>12. RewardKept(p, i)
    <2>1. EarnedReward(p, i) - EarnedReward(p, i)' = EarnedReward(r, i)' - EarnedReward(r, i)
        BY <1>6, <1>8, <1>9, <1>10
    <2> QED
        BY <1>1, <2>1 DEF RewardKept
<1>13. \A q \in DOMAIN positions \ {p, r} : RewardKept(q, i)
    <2>1. \A q \in DOMAIN positions \ {p, r} : q \in DOMAIN positions' /\ StillEarned(q, i)
        BY <1>3 DEF StillEarned
    <2> QED
        BY <1>5, <2>1, StillEarnedKeeps
<1>14. \A q : q \notin DOMAIN positions => RewardKept(q, i)
    BY UpdatedNow, NothingToKeep
<1> QED
    BY <1>11, <1>12, <1>13, <1>14

(* A claim pays what it takes, unless the owner gives it up.                 *)
LEMMA ClaimRewardKeepsRewards ==
    ASSUME SafeInv, SafeInv', RewardInv, NEW p \in PositionId, NEW k \in RewardIndex,
           NEW skip_reward, ClaimReward(p, k, skip_reward), NEW i \in RewardIndex
    PROVE  \A q : RewardKept(q, i)
<1> DEFINE updated == UpdatePositionReward(positions[p], rewards')
           payout == IF rewardVaultFrozen[k] THEN 0 ELSE updated.reward_pending[k]
           position == [updated EXCEPT !.reward_pending[k] = 0]
<1>1. /\ p \in DOMAIN positions /\ rewards' = UpdatedRewards /\ Current(rewards')
      /\ positions' = [positions EXCEPT ![p] = position] /\ clock' = clock
      /\ rewardVault' = [rewardVault EXCEPT ![k] = rewardVault[k] - payout]
    BY DEF ClaimReward, Current
<1>2. /\ rewards' \in [RewardIndex -> RewardInfo] /\ positions[p] \in PositionState
      /\ CanUpdatePositionReward(positions[p], rewards')
      /\ rewardVault \in [RewardIndex -> Nat]
    BY <1>1, CurrentRewards DEF SafeInv, TypeInv, TypeOK
<1>3. updated \in PositionState
    BY <1>2, UpdatePositionRewardType
<1>4. /\ DOMAIN positions' = DOMAIN positions /\ positions'[p] = position
      /\ \A q \in DOMAIN positions \ {p} : positions'[q] = positions[q]
      /\ rewardVault[k] \in Nat /\ rewardVault'[k] = rewardVault[k] - payout
    BY <1>1, <1>2
<1>5. /\ EarnedReward(p, i) = updated.reward_pending[i] /\ EarnedReward(p, i) \in Nat
    BY <1>1, UpdatedNow DEF RewardEarned
<1>6. updated.reward_checkpoint[i] = UpdatedRewards'[i].reward_per_token_stored
    BY <1>1, UpdateLevels, UpdateIsComplete DEF SafeInv
<1> HIDE DEF updated
<1>7. /\ position.reward_checkpoint = updated.reward_checkpoint
      /\ position.reward_pending[k] = 0
      /\ i # k => position.reward_pending[i] = updated.reward_pending[i]
    BY <1>3 DEF PositionState
<1> HIDE DEF position
<1>8. RewardKept(p, i)
    <2>1. EarnedReward(p, i)' = position.reward_pending[i]
        BY <1>1, <1>4, <1>6, <1>7, UpdatedNowNext, SettledEarns
    <2>2. CASE i # k
        BY <1>5, <1>7, <2>1, <2>2 DEF RewardKept
    <2>3. CASE i = k /\ rewardVaultFrozen[k]
        BY <1>5, <1>7, <2>1, <2>3 DEF RewardKept
    <2>4. CASE i = k /\ ~rewardVaultFrozen[k]
        <3>1. /\ rewardVault[i] - rewardVault'[i] = EarnedReward(p, i)
              /\ EarnedReward(p, i)' = 0
            BY <1>4, <1>5, <1>7, <2>1, <2>4
        <3> QED
            BY <1>5, <3>1 DEF RewardKept
    <2> QED
        BY <2>2, <2>3, <2>4
<1>9. LevelGrows(i)
    BY <1>1, UpdateKeepsLevel
<1>10. \A q \in DOMAIN positions \ {p} : RewardKept(q, i)
    <2>1. \A q \in DOMAIN positions \ {p} : q \in DOMAIN positions' /\ StillEarned(q, i)
        BY <1>4 DEF StillEarned
    <2> QED
        BY <1>9, <2>1, StillEarnedKeeps
<1>11. \A q : q \notin DOMAIN positions => RewardKept(q, i)
    BY UpdatedNow, NothingToKeep
<1> QED
    BY <1>8, <1>10, <1>11

(* Positions that the step leaves alone, while the level does not fall.      *)
LEMMA SamePositionsKeepRewards ==
    ASSUME SafeInv, SafeInv', positions' = positions, NEW i \in RewardIndex, LevelGrows(i)
    PROVE  \A q : RewardKept(q, i)
BY AllKept DEF StillEarned

(* A funding changes the rate only after it has accumulated what was earned  *)
(* at the old one.                                                           *)
LEMMA FundRewardKeepsRewards ==
    ASSUME SafeInv, SafeInv', NEW k \in RewardIndex, NEW signer, NEW amount \in Nat,
           NEW carry_forward \in BOOLEAN, FundReward(k, signer, amount, carry_forward),
           NEW i \in RewardIndex
    PROVE  \A q : RewardKept(q, i)
<1> DEFINE updated == UpdatedRewards[k]
           reset == ResetEmptySeconds(updated)
           worth == IneligibleReward(updated)
           funded == IF carry_forward THEN UpdateRateAfterFunding(reset, clock, amount + worth)
                                      ELSE UpdateRateAfterFunding(updated, clock, amount)
<1>1. /\ TypeOK /\ CanUpdateRewards /\ rewards[k].initialized /\ clock \in Nat
      /\ positions' = positions /\ rewards' = [UpdatedRewards EXCEPT ![k] = funded]
    BY DEF FundReward, SafeInv, TypeInv, TypeOK
<1>2. updated \in RewardInfo /\ updated.initialized /\ updated.reward_duration > 0
    <2>1. /\ updated \in RewardInfo /\ updated.initialized = rewards[k].initialized
          /\ updated.reward_duration = rewards[k].reward_duration
        BY <1>1, UpdatedRewardsType
    <2> QED
        BY <1>1, <2>1 DEF SafeInv, TypeInv, RewardsHaveDuration
<1>3. UpdatedRewards \in [RewardIndex -> RewardInfo]
    BY UpdatedNow
<1>4. rewards'[k] = funded /\ (i # k => rewards'[i] = UpdatedRewards[i])
    BY <1>1, <1>3
<1> HIDE DEF updated
<1>5. /\ reset \in RewardInfo /\ reset.initialized /\ reset.reward_duration > 0
      /\ reset.reward_per_token_stored = updated.reward_per_token_stored
    BY <1>2, ResetEmptySecondsType
<1>6. worth \in Nat /\ amount + worth \in Nat
    BY <1>2, IneligibleRewardType
<1> HIDE DEF reset, worth
<1>7. /\ funded.initialized
      /\ funded.reward_per_token_stored = updated.reward_per_token_stored
    <2>1. CASE carry_forward
        BY <1>1, <1>5, <1>6, <2>1, UpdateRateAfterFundingType
    <2>2. CASE ~carry_forward
        BY <1>1, <1>2, <2>2, UpdateRateAfterFundingType
    <2> QED
        BY <2>1, <2>2
<1> HIDE DEF funded
<1>8. LevelGrows(i)
    <2>1. /\ rewards'[i].reward_per_token_stored = UpdatedRewards[i].reward_per_token_stored
          /\ rewards'[i].initialized = UpdatedRewards[i].initialized
        <3>1. CASE i = k
            BY <1>2, <1>4, <1>7, <3>1 DEF updated
        <3>2. CASE i # k
            BY <1>4, <3>2
        <3> QED
            BY <3>1, <3>2
    <2> QED
        BY <2>1, UpdateKeepsLevel
<1> QED
    BY <1>1, <1>8, SamePositionsKeepRewards

LEMMA WithdrawIneligibleKeepsRewards ==
    ASSUME SafeInv, SafeInv', NEW k \in RewardIndex, NEW signer,
           WithdrawIneligibleReward(k, signer), NEW i \in RewardIndex
    PROVE  \A q : RewardKept(q, i)
<1> DEFINE reset == ResetEmptySeconds(UpdatedRewards[k])
<1>1. positions' = positions /\ rewards' = [UpdatedRewards EXCEPT ![k] = reset]
    BY DEF WithdrawIneligibleReward
<1>2. UpdatedRewards \in [RewardIndex -> RewardInfo]
    BY UpdatedNow
<1>3. /\ reset.initialized = UpdatedRewards[k].initialized
      /\ reset.reward_per_token_stored = UpdatedRewards[k].reward_per_token_stored
    BY <1>2, ResetEmptySecondsType
<1>4. rewards'[k] = reset /\ (i # k => rewards'[i] = UpdatedRewards[i])
    BY <1>1, <1>2
<1> HIDE DEF reset
<1>5. LevelGrows(i)
    <2>1. /\ rewards'[i].reward_per_token_stored = UpdatedRewards[i].reward_per_token_stored
          /\ rewards'[i].initialized = UpdatedRewards[i].initialized
        BY <1>3, <1>4
    <2> QED
        BY <2>1, UpdateKeepsLevel
<1> QED
    BY <1>1, <1>5, SamePositionsKeepRewards

LEMMA EditKeepsRewards ==
    ASSUME SafeInv, SafeInv', NEW k \in RewardIndex, NEW signer,
           \/ \E funder \in Key, duration \in RewardDurations :
                 InitializeReward(k, signer, funder, duration)
           \/ \E duration \in RewardDurations : UpdateRewardDuration(k, signer, duration)
           \/ \E funder \in Key : UpdateRewardFunder(k, signer, funder),
           NEW i \in RewardIndex
    PROVE  \A q : RewardKept(q, i)
<1>1. pool'.liquidity = pool.liquidity /\ clock' = clock
    BY DEF InitializeReward, UpdateRewardDuration, UpdateRewardFunder
<1>2. positions' = positions /\ (i # k => rewards'[i] = rewards[i])
    BY EditFields
<1>3. CASE i = k
    <2>1. LevelGrows(i)
        BY <1>1, <1>3, EditFields, EditKeepsLevel
    <2> QED
        BY <1>2, <2>1, SamePositionsKeepRewards
<1>4. CASE i # k
    <2>1. UpdatedRewards'[i] = UpdatedRewards[i]
        BY <1>1, <1>2, <1>4, SafeIsAccounted, SafeIsAccountedNext DEF Refreshed
    <2>2. LevelGrows(i)
        BY <2>1, UpdatedNow DEF LevelGrows
    <2> QED
        BY <1>2, <2>2, SamePositionsKeepRewards
<1> QED
    BY <1>3, <1>4

(* Nothing but deposits and withdrawals changes the pool's liquidity.        *)
LEMMA TradeIsIdle ==
    ASSUME SafeInv,
           \/ Tick \/ SetPoolStatus \/ TradeInstruction
           \/ \E i \in RewardIndex : FreezeRewardVault(i)
    PROVE  RewardFieldsKept /\ pool'.liquidity = pool.liquidity /\ clock <= clock'
<1>1. /\ positions' = positions /\ rewards' = rewards /\ rewardVault' = rewardVault
      /\ clock' = clock \/ clock' = clock + 1
    BY DEF Tick, SetPoolStatus, TradeInstruction, Swap, ClaimProtocolFee, ClaimPartnerFee,
           FreezeRewardVault
<1>2. clock \in Nat /\ pool \in PoolState /\ TypeInv
    BY DEF SafeInv, TypeInv, TypeOK
<1>3. pool'.liquidity = pool.liquidity
    <2>1. CASE \E amount_in \in SwapAmounts, a_for_b, has_referral, is_whitelisted_vault \in BOOLEAN,
                  minimum_amount_out \in MinimumAmountsOut :
                  Swap(amount_in, a_for_b, has_referral, is_whitelisted_vault, minimum_amount_out)
        BY <1>2, <2>1, InputTypes, SwapEffect DEF HasSwapped
    <2>2. CASE Tick \/ SetPoolStatus \/ (\E i \in RewardIndex : FreezeRewardVault(i))
        BY <1>2, <2>2 DEF Tick, SetPoolStatus, FreezeRewardVault, PoolState
    <2>3. CASE \/ \E max_amount \in [Token -> MaxFeeClaims] : ClaimProtocolFee(max_amount)
               \/ \E max_amount \in [Token -> MaxFeeClaims] : ClaimPartnerFee(max_amount)
        BY <1>2, <2>3 DEF ClaimProtocolFee, ClaimPartnerFee, PoolState
    <2> QED
        BY <2>1, <2>2, <2>3 DEF TradeInstruction
<1> QED
    BY <1>1, <1>2, <1>3 DEF RewardFieldsKept

LEMMA RewardsKeptStep ==
    ASSUME SafeInv, SafeInv', RewardInv, Next, NEW j \in RewardIndex
    PROVE  \A q : RewardKept(q, j)
<1>1. CASE Tick \/ SetPoolStatus \/ TradeInstruction
    BY <1>1, TradeIsIdle, IdleKeepsRewards
<1>2. CASE PositionInstruction
    <2>1. PICK p \in PositionId :
            \/ CreatePosition(p)
            \/ ClosePosition(p)
            \/ ClaimPositionFee(p)
            \/ \E delta \in Nat : \E threshold : AddLiquidity(p, delta, threshold)
            \/ \E delta \in Nat : \E threshold : RemoveLiquidity(p, delta, threshold)
        BY <1>2, PositionInstructionCases DEF SafeInv
    <2>2. CASE ClaimPositionFee(p)
        <3>1. RewardFieldsKept
            BY <2>2, ClaimPositionFeeFields
        <3>2. pool'.liquidity = pool.liquidity /\ clock' = clock /\ clock \in Nat /\ pool \in PoolState
            BY <2>2 DEF ClaimPositionFee, SafeInv, TypeInv, TypeOK, PoolState
        <3> QED
            BY <3>1, <3>2, IdleKeepsRewards
    <2> QED
        BY <2>1, <2>2, CreatePositionKeepsRewards, ClosePositionKeepsRewards, LiquidityKeepsRewards
<1>3. CASE LockInstruction
    <2>1. CASE \E p \in PositionId, r \in PositionId, numerators \in SplitNumerators :
                 SplitPosition(p, r, numerators)
        BY <2>1, InputTypes, SplitKeepsRewards
    <2>2. CASE ~\E p \in PositionId, r \in PositionId, numerators \in SplitNumerators :
                 SplitPosition(p, r, numerators)
        <3>1. RewardFieldsKept
            BY <1>3, <2>2, InputTypes, LockPositionFields, RefreshVestingFields,
               PermanentLockFields DEF LockInstruction
        <3>2. pool'.liquidity = pool.liquidity /\ clock' = clock /\ clock \in Nat
            BY <1>3, <2>2 DEF LockInstruction, LockPosition, RefreshVesting,
               PermanentLockPosition, SafeInv, TypeInv, TypeOK, PoolState
        <3> QED
            BY <3>1, <3>2, IdleKeepsRewards
    <2> QED
        BY <2>1, <2>2
<1>4. CASE RewardInstruction
    <2>1. PICK i \in RewardIndex :
            \/ \E signer, funder \in Key, duration \in RewardDurations :
                  InitializeReward(i, signer, funder, duration)
            \/ \E signer \in Key, amount \in FundingAmounts, carry_forward \in BOOLEAN :
                  FundReward(i, signer, amount, carry_forward)
            \/ \E p \in PositionId, skip_reward \in BOOLEAN : ClaimReward(p, i, skip_reward)
            \/ \E signer \in Key : WithdrawIneligibleReward(i, signer)
            \/ \E signer \in Key, duration \in RewardDurations :
                  UpdateRewardDuration(i, signer, duration)
            \/ \E signer, funder \in Key : UpdateRewardFunder(i, signer, funder)
            \/ FreezeRewardVault(i)
        BY <1>4 DEF RewardInstruction
    <2>2. CASE FreezeRewardVault(i)
        BY <2>2, TradeIsIdle, IdleKeepsRewards
    <2>3. CASE \E signer \in Key, amount \in FundingAmounts, carry_forward \in BOOLEAN :
                  FundReward(i, signer, amount, carry_forward)
        BY <2>3, InputTypes, FundRewardKeepsRewards
    <2>4. CASE \E p \in PositionId, skip_reward \in BOOLEAN : ClaimReward(p, i, skip_reward)
        BY <2>4, ClaimRewardKeepsRewards
    <2>5. CASE \E signer \in Key : WithdrawIneligibleReward(i, signer)
        BY <2>5, WithdrawIneligibleKeepsRewards
    <2> QED
        BY <2>1, <2>2, <2>3, <2>4, <2>5, EditKeepsRewards
<1> QED
    BY <1>1, <1>2, <1>3, <1>4 DEF Next, Instruction

(* No position loses a reward it has earned, settled or not: not when a      *)
(* campaign is funded, changed or drained of what nobody earned, not when    *)
(* others deposit, withdraw, split or close.  It is paid out, or moved to    *)
(* another position by a split, or given up by its owner with a frozen vault *)
(* (claim_reward with skip_reward).                                          *)
THEOREM EarnedRewardsSafety == Spec => EarnedRewardsAreKept
<1>1. SafeInv /\ SafeInv' /\ RewardInv /\ [Next]_vars
        => [\A p \in PositionId, i \in RewardIndex : RewardKept(p, i)]_vars
    BY RewardsKeptStep
<1>2. TypeInv /\ CheckpointsBehind /\ CountInv /\ OwnedInv => SafeInv
    BY DEF SafeInv
<1> QED
    BY <1>1, <1>2, TypeInvariance, CheckpointSafety, CountInvariance, OwnedInvariance,
       RewardInvariance, PTL DEF Spec, EarnedRewardsAreKept, RewardKept
=============================================================================
