---------------------------- MODULE MCCpAmmLive ----------------------------
(***************************************************************************)
(* A bounded instance of CpAmm for its locks.  Instructions other than       *)
(* refreshing are bounded in number and stop at LastInstruction; the clock  *)
(* runs on past the end of every lock made until then, and refreshing is    *)
(* never bounded.                                                           *)
(***************************************************************************)
EXTENDS MCCpAmm

CONSTANT LastInstruction

ASSUME ClockOutlivesLocks == LastInstruction + MaxVestingDuration <= MaxClock

liveVars == <<vars, instructions>>

LiveTick ==
    /\ clock < MaxClock
    /\ Tick
    /\ UNCHANGED instructions

LiveRefresh(v) == RefreshVesting(v) /\ UNCHANGED instructions

LiveInstruction ==
    /\ instructions < MaxInstructions
    /\ clock <= LastInstruction
    /\ Instruction
    /\ instructions' = instructions + 1

ClockExhausted ==
    /\ clock = MaxClock
    /\ UNCHANGED liveVars

LiveNext ==
    \/ LiveTick
    \/ \E v \in VestingId : LiveRefresh(v)
    \/ LiveInstruction
    \/ ClockExhausted

LiveSpec ==
    /\ MCInit
    /\ [][LiveNext]_liveVars
    /\ WF_liveVars(LiveTick)
    /\ \A v \in VestingId : WF_liveVars(LiveRefresh(v))
-----------------------------------------------------------------------------
(* A cliff and two periods of two points each; a cliff only.                 *)
CliffAndPeriods ==
    {[period_frequency |-> 2, cliff_unlock_liquidity |-> 256, liquidity_per_period |-> 128,
      number_of_period |-> 2],
     [period_frequency |-> 0, cliff_unlock_liquidity |-> 300, liquidity_per_period |-> 0,
      number_of_period |-> 0]}
=============================================================================
