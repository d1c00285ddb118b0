------------------------------- MODULE ArmCall ------------------------------
(***************************************************************************)
(* One call out of a compiled function: the ARM code that Call,            *)
(* CallAssign, Printf, Scanf, Malloc and Free of llvm/instructions.go are  *)
(* translated to, executed on the caller's frame.                          *)
(*                                                                         *)
(* An action is one group of emitted instructions; Phases lists the groups *)
(* of each translation in order.  Addresses are relative to the caller's   *)
(* sp after its prologue; memory below sp belongs to nobody.  A value is   *)
(* named after the place it was in before the call.                        *)
(***************************************************************************)
EXTENDS ArmFrame, Sequences, FiniteSets

CONSTANTS
    SpillCounts,    \* numbers of spilled variables of caller and callee
    ParamCounts,    \* numbers of parameters of the caller
    ArgCounts,      \* numbers of arguments of the call
    MaxFlags,       \* bound on the flags of a printf
    Words           \* words of memory either side of sp

(* With more than 15 flags a printf would read operands its first flags    *)
(* have overwritten.                                                       *)
ASSUME CountAssumption ==
    /\ SpillCounts \subseteq Nat /\ ParamCounts \subseteq Nat /\ ArgCounts \subseteq Nat
    /\ MaxFlags \in 0..15
(* The caller's frame and the arguments below it lie in memory.            *)
ASSUME MemoryAssumption ==
    /\ Words \in Nat
    /\ \A spills \in SpillCounts, params \in ParamCounts : FrameSize(spills, params) <= 8 * Words
    /\ \A args \in ArgCounts : args <= Words

VARIABLES
    site,       \* what the call looks like
    pc,         \* the next phase
    stored,     \* arguments from the ninth on that are in memory
    sp,
    reg,        \* x0..x28
    mem,
    got         \* what the callee read as its parameters

vars == <<site, pc, stored, sp, reg, mem, got>>

(* Mutant: the result is put into its register before the registers are    *)
(* restored.                                                               *)
PhasesPutFirst ==
    [Call       |-> <<"save", "pass", "lower", "extra", "call", "raise", "restore">>,
     CallAssign |-> <<"save", "pass", "lower", "extra", "call", "raise", "take", "put", "restore">>,
     Printf     |-> <<"pass", "save", "call", "restore">>,
     Scanf      |-> <<"pass", "save", "call", "restore", "put">>,
     Malloc     |-> <<"pass", "call", "put">>,
     Free       |-> <<"pass", "call">>]
Phases ==
    [Call       |-> <<"save", "pass", "lower", "extra", "call", "raise", "restore">>,
     CallAssign |-> <<"save", "pass", "lower", "extra", "call", "raise", "take", "restore", "put">>,
     Printf     |-> <<"pass", "save", "call", "restore">>,
     Scanf      |-> <<"pass", "save", "call", "restore", "put">>,
     Malloc     |-> <<"pass", "call", "put">>,
     Free       |-> <<"pass", "call">>]
Compiled == {"Call", "CallAssign"}

(* x8..x15 and x19..x25 hold variables, x26 is the scratch register        *)
(* (NextAvailableRegister).                                                *)
Homes == 8..15 \cup 19..25
Scratch == 26
OnStack == -1

Registers == 0..28
Address == {8 * i : i \in -Words..Words}
Before(a) == <<"mem", a>>
Unknown == <<"unknown", 0>>

(* Every operand of the call is in a register, in a slot, or immediate.    *)
HomeOf(i) == LET n == i % 15 IN IF n < 8 THEN 8 + n ELSE 11 + n
SlotOf(i) == SpillSlot(i % site.spills)
ArgValue(i) ==
    CASE site.home = "register" -> <<"reg", HomeOf(i)>>
      [] site.home = "slot" -> Before(SlotOf(i))
      [] OTHER -> <<"imm", i>>
(* What the code that passes operand i finds, sp having moved or not.      *)
Operand(i) ==
    CASE site.home = "register" -> reg[HomeOf(i)]
      [] site.home = "slot" -> mem[sp + SlotOf(i)]
      [] OTHER -> <<"imm", i>>

-----------------------------------------------------------------------------
(* dest is the register of the result, or OnStack for the first slot.      *)
Sites ==
    {s \in [kind : DOMAIN Phases, spills : SpillCounts, params : ParamCounts,
            args : ArgCounts, home : {"register", "slot", "immediate"},
            dest : {8, 25, OnStack}, calleeSpills : SpillCounts] :
        /\ (s.home = "slot" \/ s.dest = OnStack) => s.spills > 0
        /\ s.kind = "Printf" => s.args <= MaxFlags
        /\ s.kind = "Free" => s.args = 1 /\ s.home # "immediate"
        /\ s.kind \in {"Scanf", "Malloc"} => s.args = 0
        /\ s.kind \notin Compiled => s.calleeSpills = 0
        /\ s.kind \in {"Call", "Printf", "Free"} => s.dest = 8}

Init ==
    /\ site \in Sites
    /\ pc = 1
    /\ stored = 0
    /\ sp = 0
    /\ reg = [r \in Registers |-> <<"reg", r>>]
    /\ mem = [a \in Address |-> Before(a)]
    /\ got = <<>>

Done == pc > Len(Phases[site.kind])
At(phase) == ~Done /\ Phases[site.kind][pc] = phase
Advance == pc' = pc + 1 /\ UNCHANGED site

(* SaveRegs and RestoreRegs leave out x0..x7.                              *)
SavedHere == IF site.kind \in Compiled THEN Saved ELSE {r \in Saved : r >= 8}
(* Mutant: the second loop starts one register too late.                   *)
SaveAreaShort == {sp + SavedAddress(site.spills, r) : r \in SavedHere \ {19}}
SaveArea == {sp + SavedAddress(site.spills, r) : r \in SavedHere}

Save ==
    /\ At("save")
    /\ mem' = [a \in Address |->
                  IF a \in SaveArea
                  THEN reg[CHOOSE r \in SavedHere : sp + SavedAddress(site.spills, r) = a]
                  ELSE mem[a]]
    /\ Advance
    /\ UNCHANGED <<stored, sp, reg, got>>

Restore ==
    /\ At("restore")
    /\ reg' = [r \in Registers |->
                  IF r \in SavedHere THEN mem[sp + SavedAddress(site.spills, r)] ELSE reg[r]]
    /\ Advance
    /\ UNCHANGED <<stored, sp, mem, got>>

(* Arguments go to x0..x7.                                                 *)
PassArguments ==
    /\ At("pass") /\ site.kind \in Compiled
    /\ reg' = [r \in Registers |-> IF r < 8 /\ r < site.args THEN Operand(r) ELSE reg[r]]
    /\ Advance
    /\ UNCHANGED <<stored, sp, mem, got>>

(* The format goes to x0 by way of the scratch register, flags to x1...    *)
PassFlags ==
    /\ At("pass") /\ site.kind = "Printf"
    /\ reg' = [r \in Registers |->
                  IF r \in {0, Scratch} THEN <<"format", 0>>
                  ELSE IF r \in 1..site.args THEN Operand(r - 1) ELSE reg[r]]
    /\ Advance
    /\ UNCHANGED <<stored, sp, mem, got>>

(* scanf gets the address of the variable's slot, or of a word below the   *)
(* frame if the variable is in a register.                                 *)
PassAddress ==
    /\ At("pass") /\ site.kind = "Scanf"
    /\ sp' = IF site.dest = OnStack THEN sp ELSE sp - 16
    /\ reg' = [reg EXCEPT ![0] = <<"format", 0>>, ![Scratch] = <<"format", 0>>,
                          ![1] = <<"addr", IF site.dest = OnStack THEN SpillSlot(0) ELSE sp'>>]
    /\ Advance
    /\ UNCHANGED <<stored, mem, got>>

PassToRuntime ==
    /\ At("pass") /\ site.kind \in {"Malloc", "Free"}
    /\ reg' = [r \in Registers |->
                  CASE site.kind = "Malloc" /\ r = 0 -> <<"size", 0>>
                    [] site.kind = "Free" /\ (r = 0 \/ (r = Scratch /\ site.home = "slot")) -> Operand(0)
                    [] OTHER -> reg[r]]
    /\ Advance
    /\ UNCHANGED <<stored, sp, mem, got>>

-----------------------------------------------------------------------------
(* Mutant: room for the arguments, not rounded.                            *)
OffsetUnrounded(args) == 8 * Extra(args)
StackOffset(args) ==
    LET bytes == 8 * Extra(args) IN IF bytes % 16 # 0 THEN bytes + 8 ELSE bytes

LowerSp ==
    /\ At("lower")
    /\ sp' = sp - StackOffset(site.args)
    /\ Advance
    /\ UNCHANGED <<stored, reg, mem, got>>

RaiseSp ==
    /\ At("raise")
    /\ sp' = sp + StackOffset(site.args)
    /\ Advance
    /\ UNCHANGED <<stored, reg, mem, got>>

(* Mutant: the offset is taken from the frame without its last two words.  *)
ExtraAddressHigh(i) == sp + FrameSize(site.spills, site.params) + 8 * i
(* Where extra argument i is stored.                                       *)
ExtraAddress(i) == sp + FrameSize(site.spills, site.params) + 8 * i - 16

StoreExtra ==
    /\ At("extra") /\ stored < Extra(site.args)
    /\ mem' = [mem EXCEPT ![ExtraAddress(stored)] = Operand(8 + stored)]
    /\ reg' = IF site.home = "register" THEN reg
              ELSE [reg EXCEPT ![Scratch] = Operand(8 + stored)]
    /\ stored' = stored + 1
    /\ UNCHANGED <<site, pc, sp, got>>

ExtraStored ==
    /\ At("extra") /\ stored = Extra(site.args)
    /\ Advance
    /\ UNCHANGED <<stored, sp, reg, mem, got>>

(* The callee finds parameter i: the first eight in registers, the others  *)
(* where Store.TranslateToAssembly (instructions.go:284-287) looks.        *)
CalleeFrame == FrameSize(site.calleeSpills, site.args)
ReadAt(i) ==
    sp - CalleeFrame + ParamSlot(site.calleeSpills, i) + CalleeFrame
       - 8 * (IF site.args > 14 THEN site.args - 14 ELSE 0)
Received(i) ==
    IF i < 8 THEN reg[i] ELSE IF ReadAt(i) \in Address THEN mem[ReadAt(i)] ELSE Unknown

(* A compiled callee saves nothing in its prologue: every register and all *)
(* memory below sp may have changed when it returns.                       *)
CallFunction ==
    /\ At("call") /\ site.kind \in Compiled
    /\ got' = [i \in 1..site.args |-> Received(i - 1)]
    /\ reg' = [r \in Registers |-> IF r = 0 THEN <<"result", 0>> ELSE Unknown]
    /\ mem' = [a \in Address |-> IF a < sp THEN Unknown ELSE mem[a]]
    /\ Advance
    /\ UNCHANGED <<stored, sp>>

(* The C library keeps x19..x28 and everything above sp, but for what      *)
(* scanf was asked to write.                                               *)
CallRuntime ==
    /\ At("call") /\ site.kind \notin Compiled
    /\ got' = [i \in 1..site.args |-> reg[IF site.kind = "Printf" THEN i ELSE i - 1]]
    /\ reg' = [r \in Registers |->
                  IF r = 0 THEN <<"result", 0>> ELSE IF r < 19 THEN Unknown ELSE reg[r]]
    /\ mem' = [a \in Address |->
                  IF site.kind = "Scanf" /\ reg[1] = <<"addr", a>> THEN <<"result", 0>>
                  ELSE IF a < sp THEN Unknown ELSE mem[a]]
    /\ Advance
    /\ UNCHANGED <<stored, sp>>

(* The result waits in x16 while the registers are restored.  Of a spilled *)
(* destination the old value is loaded.                                    *)
TakeResult ==
    /\ At("take")
    /\ reg' = [r \in Registers |->
                  CASE r = 16 -> reg[0]
                    [] r = Scratch /\ site.dest = OnStack -> mem[sp + SpillSlot(0)]
                    [] OTHER -> reg[r]]
    /\ Advance
    /\ UNCHANGED <<stored, sp, mem, got>>

PutResult ==
    /\ At("put") /\ site.kind = "CallAssign"
    /\ reg' = [reg EXCEPT ![IF site.dest = OnStack THEN Scratch ELSE site.dest] = reg[16]]
    /\ Advance
    /\ UNCHANGED <<stored, sp, mem, got>>

PutInput ==
    /\ At("put") /\ site.kind = "Scanf"
    /\ IF site.dest = OnStack THEN UNCHANGED <<sp, reg>>
       ELSE /\ reg' = [reg EXCEPT ![site.dest] = mem[sp]]
            /\ sp' = sp + 16
    /\ Advance
    /\ UNCHANGED <<stored, mem, got>>

PutAllocated ==
    /\ At("put") /\ site.kind = "Malloc"
    /\ IF site.dest = OnStack
       THEN mem' = [mem EXCEPT ![sp + SpillSlot(0)] = reg[0]] /\ UNCHANGED reg
       ELSE reg' = [reg EXCEPT ![site.dest] = reg[0]] /\ UNCHANGED mem
    /\ Advance
    /\ UNCHANGED <<stored, sp, got>>

Next ==
    \/ Save \/ Restore
    \/ PassArguments \/ PassFlags \/ PassAddress \/ PassToRuntime
    \/ LowerSp \/ RaiseSp \/ StoreExtra \/ ExtraStored
    \/ CallFunction \/ CallRuntime
    \/ TakeResult \/ PutResult \/ PutInput \/ PutAllocated

Spec == Init /\ [][Next]_vars

-----------------------------------------------------------------------------
Value == {"reg", "mem", "imm", "format", "addr", "size", "result", "unknown"} \X Int

(* Machine state keeps its types; no more is stored than was to be stored. *)
TypeOK ==
    /\ site \in Sites
    /\ pc \in 1..(Len(Phases[site.kind]) + 1)
    /\ stored \in 0..Extra(site.args)
    /\ sp \in Int
    /\ reg \in [Registers -> Value]
    /\ mem \in [Address -> Value]
    /\ got \in Seq(Value)

Results == IF site.kind \in {"CallAssign", "Scanf", "Malloc"} THEN {site.dest} ELSE {}
KeepsRegisters == \A r \in Homes \ Results : reg[r] = <<"reg", r>>

(* A call brings back every register a variable may be in, although the    *)
(* callee saves none, if it has at most ten arguments: stores of one or    *)
(* two on the stack (instructions.go:988) fall on the places of x26 to     *)
(* x28 only, those of more on x25, x24 and down.  So do a printf with at   *)
(* most seven flags, the eighth goes to x8, and a scanf; malloc and free   *)
(* save nothing.                                                           *)
Ordinary ==
    CASE site.kind \in Compiled -> site.args <= 10
      [] site.kind = "Printf" -> site.args <= 7
      [] site.kind = "Scanf" -> TRUE
      [] OTHER -> FALSE
RegistersSurvive == Done /\ Ordinary => KeepsRegisters

(* The frame record and the spilled variables survive a call with at most  *)
(* 32 arguments, wherever its arguments are stored; and nothing is ever    *)
(* written above the frame.                                                *)
Untouched(a) == mem[a] = Before(a)
SlotsSurvive ==
    Done =>
        /\ site.args <= 32 =>
              /\ Untouched(0) /\ Untouched(8)
              /\ \A j \in 0..(site.spills - 1) :
                    (j = 0 /\ OnStack \in Results) \/ Untouched(SpillSlot(j))
        /\ \A a \in Address : a >= FrameSize(site.spills, site.params) => Untouched(a)

(* The first eight arguments always arrive; the others do if the frames    *)
(* happen to agree: a caller with at most one spill and no parameters on   *)
(* the stack, none of the arguments spilled, and a callee that spills as   *)
(* many variables as it has parameters beyond the fourteenth.              *)
FramesAgree ==
    /\ site.spills <= 1 /\ site.params <= 8 /\ site.home # "slot"
    /\ site.calleeSpills = IF site.args > 14 THEN site.args - 14 ELSE 0
ArgumentsArrive ==
    \A i \in DOMAIN got : (i <= 8 \/ FramesAgree) => got[i] = ArgValue(i - 1)

(* "If there are more than 8 parameters, load the rest onto the stack"     *)
(* (instructions.go:980): every argument arrives.                          *)
AllArgumentsArrive == \A i \in DOMAIN got : got[i] = ArgValue(i - 1)

(* sp is a multiple of 16 whenever somebody else runs, and is back at the  *)
(* end; so is the frame size that the prologue subtracts.                  *)
StackBalanced ==
    /\ At("call") => sp % 16 = 0 /\ FrameSize(site.spills, site.params) % 16 = 0
    /\ Done => sp = 0

(* A result that has a register gets there through the restoring of all    *)
(* registers; scanf and malloc reach a slot as well.                       *)
Arrived ==
    IF site.dest = OnStack THEN mem[SpillSlot(0)] = <<"result", 0>>
    ELSE reg[site.dest] = <<"result", 0>>
ResultArrives ==
    Done /\ Results # {} => Arrived \/ (site.kind = "CallAssign" /\ site.dest = OnStack)
=============================================================================
