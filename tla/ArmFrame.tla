------------------------------ MODULE ArmFrame ------------------------------
(***************************************************************************)
(* Where things lie in the stack frame of a compiled function: the layout  *)
(* of ARMFunction.GenerateVarLocations (codegen/armFunction.go:54-86),     *)
(* which starts from the stack size the register allocator ended with.     *)
(* Offsets are from sp after the prologue.                                 *)
(***************************************************************************)
EXTENDS Integers

(* Mutant: the frame record is taken for one word.                         *)
ScanSizeShort(spills) == 8 + 8 * spills
(* The frame record of x29 and x30 and the spill slots.                    *)
ScanSize(spills) == 16 + 8 * spills
SpillSlot(j) == 16 + 8 * j

(* The registers that have a place to be saved in, in that order.          *)
Saved == 0..15 \cup 19..28
SavedAddress(spills, r) == ScanSize(spills) + 8 * (IF r <= 15 THEN r ELSE r - 3)

(* Mutant: no lower bound.                                                 *)
ExtraUnbounded(params) == params - 8
(* Parameters from the ninth on.                                           *)
Extra(params) == IF params > 8 THEN params - 8 ELSE 0
ParamSlot(spills, i) == ScanSize(spills) + 26 * 8 + 8 * (i - 8)

(* A multiple of 16; 16 is added even to a size that is one.               *)
FrameSize(spills, params) ==
    LET used == ScanSize(spills) + 26 * 8 + 8 * Extra(params)
    IN  used + (16 - (used % 16))
=============================================================================
