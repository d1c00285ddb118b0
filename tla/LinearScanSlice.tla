--------------------------- MODULE LinearScanSlice --------------------------
(***************************************************************************)
(* The register allocator of llvm/llvmFunction.go with the slice it keeps  *)
(* its active list in.  A Go slice is a window onto an array: sorting,     *)
(* remove and append work on the array in place, and SpillAtInterval       *)
(* (lines 195-212) gets a copy of the window, shortens its copy and        *)
(* appends v to it without returning it.  The caller sees the change only  *)
(* because that append writes over the element its own window ends with.   *)
(*                                                                         *)
(* An append that outgrows the array moves the caller's window to a new    *)
(* one with the same content; nobody else holds the old array, so backing  *)
(* grows instead.                                                          *)
(***************************************************************************)
EXTENDS Integers, Sequences, SequencesExt

CONSTANTS Var, MaxPoint, StartReg, EndReg  \* as in LinearScan

ASSUME AllocatorAssumption ==
    /\ IsFiniteSet(Var)
    /\ MaxPoint \in Nat
    /\ StartReg \in 8..16 /\ EndReg \in 18..28 /\ EndReg - StartReg - 2 > 0

VARIABLES
    startpoint, endpoint, pending, freeRegs, registers, locations, stackSize,
    backing,    \* the array under the active slice, stale tail included
    len         \* length of GenerateVarLocationsLinearScan's window onto it

ranges == <<startpoint, endpoint>>
vars == <<startpoint, endpoint, pending, freeRegs, registers, locations,
          stackSize, backing, len>>

Window(array, n) == SubSeq(array, 1, n)
activeSet == ToSet(Window(backing, len))

Scan == INSTANCE LinearScan WITH active <- activeSet

-----------------------------------------------------------------------------
(* sort.SliceStable by endpoint: those not larger go first, in the order   *)
(* they had.  Rank is where an element goes.                               *)
Before(s, j, i) ==
    \/ endpoint[s[j]] < endpoint[s[i]]
    \/ endpoint[s[j]] = endpoint[s[i]] /\ j < i
Rank(s, i) == Cardinality({j \in DOMAIN s : Before(s, j, i)}) + 1
StableSort(s) == [r \in 1..Len(s) |-> s[CHOOSE i \in DOMAIN s : Rank(s, i) = r]]

(* Writing the window back leaves what lies behind it alone.               *)
WriteWindow(array, window) ==
    window \o SubSeq(array, Len(window) + 1, Len(array))

(* ExpireOldIntervals on the caller's window: sort in place, then one      *)
(* remove per expired element, each of which shifts the rest one to the    *)
(* left and leaves a copy of the last element behind.                      *)
Sorted == StableSort(Window(backing, len))
(* The loop over the window breaks at the first range that has not ended.  *)
Expirations(v) ==
    CHOOSE k \in 0..len :
        /\ \A i \in 1..k : endpoint[Sorted[i]] < startpoint[v]
        /\ k < len => endpoint[Sorted[k + 1]] >= startpoint[v]
LenAfterExpire(v) == len - Expirations(v)
AfterExpire(v) ==
    LET k == Expirations(v)
        shifted == [i \in 1..len |-> IF i + k <= len THEN Sorted[i + k] ELSE Sorted[len]]
    IN  WriteWindow(backing, shifted)
FreedRegs(v) == freeRegs \cup {registers[Sorted[i]] : i \in 1..Expirations(v)}

(* Mutant: the element behind the window is not written over.              *)
AppendBehind(array, n, v) == Append(array, v)
(* append(window of length n, v): over element n + 1 of the array.         *)
AppendTo(array, n, v) ==
    IF n < Len(array) THEN [array EXCEPT ![n + 1] = v] ELSE Append(array, v)

-----------------------------------------------------------------------------
Init ==
    /\ backing = <<>>
    /\ len = 0
    /\ Scan!Init

AssignRegister(v) ==
    /\ Scan!IsNext(v)
    /\ LenAfterExpire(v) # Scan!R
    /\ LET r == Scan!ExtractMin(FreedRegs(v))
       IN  /\ registers' = [registers EXCEPT ![v] = r]
           /\ freeRegs' = FreedRegs(v) \ {r}
    /\ backing' = AppendTo(AfterExpire(v), LenAfterExpire(v), v)
    /\ len' = LenAfterExpire(v) + 1
    /\ pending' = pending \ {v}
    /\ UNCHANGED <<ranges, locations, stackSize>>

(* The callee's second sort finds the window sorted already.               *)
Candidate(v) == AfterExpire(v)[LenAfterExpire(v)]

(* Mutant: the callee appends to a copy, as a reader of lines 208-209 may  *)
(* expect, and the caller's window still ends in the spilled variable.     *)
ArrayUntouched(v) == AfterExpire(v)
(* SpillAtInterval's own window is one shorter than the caller's, so its   *)
(* append lands on the caller's last element.                              *)
ArrayAfterSpill(v) == AppendTo(AfterExpire(v), LenAfterExpire(v) - 1, v)

SpillActive(v) ==
    /\ Scan!IsNext(v)
    /\ LenAfterExpire(v) = Scan!R
    /\ endpoint[Candidate(v)] > endpoint[v]
    /\ registers' = [registers EXCEPT ![v] = registers[Candidate(v)],
                                      ![Candidate(v)] = Scan!Spilled]
    /\ locations' = [locations EXCEPT ![Candidate(v)] = stackSize]
    /\ stackSize' = Scan!StackSizeAfterSpill
    /\ backing' = ArrayAfterSpill(v)
    /\ len' = LenAfterExpire(v)
    /\ freeRegs' = FreedRegs(v)
    /\ pending' = pending \ {v}
    /\ UNCHANGED ranges

SpillNew(v) ==
    /\ Scan!IsNext(v)
    /\ LenAfterExpire(v) = Scan!R
    /\ endpoint[Candidate(v)] <= endpoint[v]
    /\ locations' = [locations EXCEPT ![v] = stackSize]
    /\ stackSize' = Scan!StackSizeAfterSpill
    /\ backing' = AfterExpire(v)
    /\ len' = LenAfterExpire(v)
    /\ freeRegs' = FreedRegs(v)
    /\ pending' = pending \ {v}
    /\ UNCHANGED <<ranges, registers>>

Next == \E v \in Var : AssignRegister(v) \/ SpillActive(v) \/ SpillNew(v)

Spec == Init /\ [][Next]_vars

-----------------------------------------------------------------------------
(* The window never holds a variable twice, so remove (lines 186-193),     *)
(* which deletes the first match, deletes the right one; and everyone in   *)
(* it holds a register.                                                    *)
WindowDistinct ==
    /\ len \in 0..Len(backing)
    /\ \A i, j \in 1..len : i # j => backing[i] # backing[j]
    /\ \A i \in 1..len : registers[backing[i]] \in Scan!Reg

(* The in-place slice operations, the aliased append of SpillAtInterval    *)
(* included, carry out exactly the set-based algorithm.                    *)
ImplementsLinearScan == Scan!Spec
=============================================================================
