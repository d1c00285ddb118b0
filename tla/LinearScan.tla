----------------------------- MODULE LinearScan -----------------------------
(***************************************************************************)
(* The linear-scan register allocator of llvm/llvmFunction.go, run once    *)
(* for every function before its instructions are translated to ARM.       *)
(*                                                                         *)
(* A step is one iteration of the loop over sortByStart (lines 156-164):   *)
(* it expires the intervals that ended, then gives the variable a register *)
(* or, when every register is taken, sends somebody to the stack.          *)
(*                                                                         *)
(* The abstraction: active is a set.  The slice the code keeps, the order  *)
(* of its elements and its aliased backing array are in LinearScanSlice,   *)
(* which implements this module.                                           *)
(***************************************************************************)
EXTENDS Integers, FiniteSets

CONSTANTS
    Var,        \* the *st.VarEntry keys of the live-range maps
    MaxPoint,   \* bound on positions in the superblock
    StartReg,   \* the code's startReg: 8
    EndReg      \* the code's endReg: 25

ASSUME VarAssumption == IsFiniteSet(Var)
ASSUME PointAssumption == MaxPoint \in Nat
\* extractMin looks at x8..x28 only, and R counts x16..x18 as excluded, so
\* the interval has to contain those three; with no register left the code
\* would index an empty slice.
ASSUME RegAssumption ==
    /\ StartReg \in 8..16
    /\ EndReg \in 18..28
    /\ EndReg - StartReg - 2 > 0

VARIABLES
    startpoint,  \* first position of each variable
    endpoint,    \* one before its last position, if it has several
    pending,     \* the part of sortByStart the loop has not reached
    active,      \* variables whose register is still theirs
    freeRegs,    \* registers mapped to true
    registers,   \* Var -> register, Spilled, or Unset (no key in the map)
    locations,   \* Var -> offset from sp, or NoSlot (no key in the map)
    stackSize    \* first free offset of the frame

ranges == <<startpoint, endpoint>>
vars == <<startpoint, endpoint, pending, active, freeRegs, registers,
          locations, stackSize>>

Point == 0..MaxPoint
Reg == {r \in StartReg..EndReg : r < 16 \/ r > 18}

(* Mutant: one register too many.                                          *)
ROffByOne == EndReg - StartReg - 1
R == EndReg - StartReg - 2

Spilled == -1
Unset == -2
NoSlot == -1
StackHeader == 16
SlotSize == 8

-----------------------------------------------------------------------------
(* Any live ranges CalculateLiveRanges can return: a variable's endpoint   *)
(* is its start or at least its second position minus one.                 *)
Init ==
    /\ startpoint \in [Var -> Point]
    /\ endpoint \in [Var -> Point]
    /\ \A v \in Var : startpoint[v] <= endpoint[v]
    /\ pending = Var
    /\ active = {}
    /\ freeRegs = Reg
    /\ registers = [v \in Var |-> Unset]
    /\ locations = [v \in Var |-> NoSlot]
    /\ stackSize = StackHeader

(* The next element of sortByStart.  The slice is filled from a map, so    *)
(* variables with equal starts come in any order.                          *)
IsNext(v) ==
    /\ v \in pending
    /\ \A w \in pending : startpoint[v] <= startpoint[w]

(* Mutant: a range that ends where v starts is expired too early.          *)
ExpiredEarly(v) == {w \in active : endpoint[w] <= startpoint[v]}
(* Mutant: a range that just ended is kept for one more position.          *)
ExpiredLate(v) == {w \in active : endpoint[w] < startpoint[v] - 1}
(* ExpireOldIntervals(v, ...).                                             *)
Expired(v) == {w \in active : endpoint[w] < startpoint[v]}
Kept(v) == active \ Expired(v)

(* Mutant: the registers of expired ranges are not given back.             *)
FreedForgotten(v) == freeRegs
Freed(v) == freeRegs \cup {registers[w] : w \in Expired(v)}

ExtractMin(free) ==
    IF \E i \in 8..28 : i \in free
    THEN CHOOSE i \in 8..28 : i \in free /\ \A j \in 8..28 : j \in free => i <= j
    ELSE Spilled

(* Mutant: sorted the other way round.                                     *)
IsFirst(s, v) ==
    /\ s \in Kept(v)
    /\ \A w \in Kept(v) : endpoint[s] <= endpoint[w]
(* SpillAtInterval's candidate: the last of active sorted by endpoint.     *)
IsLast(s, v) ==
    /\ s \in Kept(v)
    /\ \A w \in Kept(v) : endpoint[w] <= endpoint[s]

(* Mutant: the spilled variable stays in active.                           *)
ReplaceKeeps(v, s) == Kept(v) \cup {v}
(* SpillAtInterval drops the candidate from active and appends v.          *)
Replace(v, s) == (Kept(v) \ {s}) \cup {v}

(* Mutant: the stack size is not advanced.                                 *)
StackSizeStays == stackSize
StackSizeAfterSpill == stackSize + SlotSize

AssignRegister(v) ==
    /\ IsNext(v)
    /\ Cardinality(Kept(v)) # R
    /\ LET r == ExtractMin(Freed(v))
       IN  /\ registers' = [registers EXCEPT ![v] = r]
           /\ freeRegs' = Freed(v) \ {r}
    /\ active' = Kept(v) \cup {v}
    /\ pending' = pending \ {v}
    /\ UNCHANGED <<ranges, locations, stackSize>>

SpillActive(v, s) ==
    /\ IsNext(v)
    /\ Cardinality(Kept(v)) = R
    /\ IsLast(s, v)
    /\ endpoint[s] > endpoint[v]
    /\ registers' = [registers EXCEPT ![v] = registers[s], ![s] = Spilled]
    /\ locations' = [locations EXCEPT ![s] = stackSize]
    /\ stackSize' = StackSizeAfterSpill
    /\ active' = Replace(v, s)
    /\ freeRegs' = Freed(v)
    /\ pending' = pending \ {v}
    /\ UNCHANGED ranges

SpillNew(v) ==
    /\ IsNext(v)
    /\ Cardinality(Kept(v)) = R
    /\ \E s \in Kept(v) : IsLast(s, v) /\ endpoint[s] <= endpoint[v]
    /\ locations' = [locations EXCEPT ![v] = stackSize]
    /\ stackSize' = StackSizeAfterSpill
    /\ active' = Kept(v)
    /\ freeRegs' = Freed(v)
    /\ pending' = pending \ {v}
    /\ UNCHANGED <<ranges, registers>>

Allocate(v) ==
    \/ AssignRegister(v)
    \/ \E s \in Var : SpillActive(v, s)
    \/ SpillNew(v)

Next == \E v \in Var : Allocate(v)

Spec == Init /\ [][Next]_vars

-----------------------------------------------------------------------------
Done == Var \ pending
Overlap(v, w) == startpoint[v] <= endpoint[w] /\ startpoint[w] <= endpoint[v]
Resident(v) == registers[v] \in Reg
OnStack(v) == locations[v] # NoSlot

(* The maps and counters keep their types; a register that extractMin hands *)
(* out is one of the allocatable ones or -1.                               *)
TypeOK ==
    /\ startpoint \in [Var -> Point]
    /\ endpoint \in [Var -> Point]
    /\ pending \subseteq Var
    /\ active \subseteq Var
    /\ freeRegs \subseteq Reg
    /\ registers \in [Var -> Reg \cup {Spilled, Unset}]
    /\ locations \in [Var -> Nat \cup {NoSlot}]
    /\ stackSize \in Nat

(* Two variables whose live ranges overlap never end up in one register,   *)
(* through any order of expiries, reuses and steals (lines 156-212).       *)
NoSharedRegister ==
    \A v, w \in Done :
        v # w /\ Resident(v) /\ registers[v] = registers[w] => ~Overlap(v, w)

(* Every variable the loop has passed has exactly one home.  extractMin    *)
(* never answers -1 (line 128), which would leave a variable with neither  *)
(* a register nor a stack slot, so that its VarLocations entry is nil.     *)
OneHome == \A v \in Done : Resident(v) <=> ~OnStack(v)

(* Spill slots are disjoint, lie above the saved x29/x30 pair and below    *)
(* the frame size handed to NewARMFunction.                                *)
SlotsDisjoint ==
    \A v \in Done : OnStack(v) =>
        /\ StackHeader <= locations[v] /\ locations[v] + SlotSize <= stackSize
        /\ \A w \in Done : w # v /\ OnStack(w) =>
              \/ locations[v] + SlotSize <= locations[w]
              \/ locations[w] + SlotSize <= locations[v]

(* No register leaks and none is free while in use: the free registers and *)
(* the registers of active split the allocatable ones.                     *)
RegistersPartitioned ==
    /\ \A v \in active : registers[v] \in Reg \ freeRegs
    /\ Reg \ freeRegs \subseteq {registers[v] : v \in active}
    /\ \A v, w \in active : v # w => registers[v] # registers[w]

(* A variable goes to the stack only if some position really is crossed by *)
(* more ranges than there are registers.                                   *)
Pressure(p) == {w \in Var : startpoint[w] <= p /\ p <= endpoint[w]}
NoNeedlessSpill ==
    (\E v \in Done : OnStack(v)) => \E p \in Point : Cardinality(Pressure(p)) > R

(* Spilling the range that ends last is optimal: when the loop is over, no *)
(* set of variables that fits in the registers at every position is larger *)
(* than the set that got one.                                              *)
FitsInRegisters(S) == \A p \in Point : Cardinality(Pressure(p) \cap S) <= R
FewestSpills ==
    pending = {} =>
        \A S \in SUBSET Var :
            FitsInRegisters(S) => Cardinality(S) <= Cardinality({v \in Var : Resident(v)})

(* A stack home is final, and a register is only ever taken away to move   *)
(* the variable to the stack: no variable moves from register to register. *)
HomesAreStable ==
    [][\A v \in Done :
          /\ OnStack(v) => locations'[v] = locations[v]
          /\ registers'[v] # registers[v] => ~OnStack(v) /\ locations'[v] = stackSize]_vars
=============================================================================
