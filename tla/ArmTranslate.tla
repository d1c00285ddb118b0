---------------------------- MODULE ArmTranslate ----------------------------
(***************************************************************************)
(* TranslateToAssembly of the straight-line instructions of                *)
(* llvm/instructions.go: an LLVM machine and an ARM machine run the same   *)
(* function side by side, the second by the code each instruction is       *)
(* translated to.                                                          *)
(*                                                                         *)
(* A local is what the allocator gave a home: a temporary, a pointer to a  *)
(* field, or a variable.  Two locals may share a register; when one gets a *)
(* value the other is dead, which is how the allocator reuses registers.   *)
(* What a call does to other registers is ArmCall's subject; here a call   *)
(* only brings its result and takes scratch registers.                     *)
(***************************************************************************)
EXTENDS Llvm, FiniteSets

CONSTANTS
    Locals,     \* number of locals
    MaxSteps,   \* instructions that are run
    MaxWord,    \* numbers that are computed with are -MaxWord..MaxWord
    BinOps,     \* operators of BinOp that occur
    Conds       \* conditions of ICMP that occur

ASSUME BoundsAssumption == Locals \in Nat /\ MaxSteps \in Nat /\ MaxWord \in Nat
ASSUME OpsAssumption ==
    /\ BinOps \subseteq {"add", "sub", "mul", "sdiv", "and", "or"}
    /\ Conds \subseteq {"eq", "ne", "sgt", "sge", "slt", "sle"}

VARIABLES
    home,      \* VarLocations: a register or an address for every local
    role,      \* what every local is at the moment
    llvm, arm, \* the two machines
    next,      \* NextAvailableRegister
    highest,   \* the highest number of a register in the code so far
    sound,     \* only instructions in Covered have been run
    steps

vars == <<home, role, llvm, arm, next, highest, sound, steps>>

Local == 1..Locals
Word == -MaxWord..MaxWord
Count == -1   \* a global number and a global struct, by their places in llvm.vars
Struct == -2
Global == {Count, Struct}
Undefined == -1000

-----------------------------------------------------------------------------
(* ARM operands and instructions.                                          *)
Reg(n) == [kind |-> "reg", n |-> n]
Imm(n) == [kind |-> "imm", n |-> n]
Addr(offset) == [kind |-> "addr", n |-> offset]
ARM(op, code, reg, x, y) == [op |-> op, code |-> code, reg |-> reg, x |-> x, y |-> y]
Ldr(reg, x) == ARM("ldr", "", reg, x, x)
Str(reg, x) == ARM("str", "", reg, x, x)
Mov(reg, x) == ARM("mov", "", reg, x, x)
ARMBinOp(op, dest, reg1, reg2) == ARM("binop", op, dest, Reg(reg1), Reg(reg2))
AddImm(reg, ptr, imm) == ARM("binop", "add", reg, Reg(ptr), Imm(imm))
Adrp(reg, g) == ARM("adrp", "", reg, Imm(g), Imm(g))
AddLo12(reg, g) == ARM("addlo12", "", reg, Imm(g), Imm(g))
Cmp(x, y) == ARM("cmp", "", 0, x, y)
Cset(dest, cc) == ARM("cset", cc, dest, Imm(0), Imm(0))
BCond(cc) == ARM("bcond", cc, 0, Imm(0), Imm(0))
Bl(function) == ARM("bl", function, 0, Imm(0), Imm(0))
Exit == ARM("exit", "", 0, Imm(0), Imm(0))

ToARM(code) == CASE code = "or" -> "orr" [] code = "sgt" -> "gt" [] code = "sge" -> "ge"
                 [] code = "slt" -> "lt" [] code = "sle" -> "le" [] OTHER -> code
Negate(cc) == CASE cc = "eq" -> "ne" [] cc = "ne" -> "eq" [] cc = "sgt" -> "sle"
                [] cc = "sge" -> "slt" [] cc = "slt" -> "sge" [] cc = "sle" -> "sgt"

(* Memory: the globals, the heap (NewObject), the stack slots.             *)
Page(g) == 4096 * g
Lo12 == 8
Place(g) == Page(g) + Lo12
Slot(l) == 1000 + 8 * l
Fields == {NewObject, NewObject + 8}

(* What the processor does.  Loads and stores of places that do not exist  *)
(* read nothing and change nothing.                                        *)
ArmCond(cc, a, b) ==
    CASE cc = "eq" -> a = b [] cc = "ne" -> a # b [] cc = "gt" -> a > b
      [] cc = "ge" -> a >= b [] cc = "lt" -> a < b [] cc = "le" -> a <= b
ArmExec(a, in) ==
    LET value(x) == IF x.kind = "reg" THEN a.reg[x.n] ELSE x.n
        place == value(in.x)
        write(r, x) == [a EXCEPT !.reg = [@ EXCEPT ![r] = x]]
    IN  CASE in.op = "ldr" -> write(in.reg, IF place \in DOMAIN a.mem THEN a.mem[place] ELSE Undefined)
          [] in.op = "str" -> IF place \in DOMAIN a.mem
                              THEN [a EXCEPT !.mem = [@ EXCEPT ![place] = a.reg[in.reg]]] ELSE a
          [] in.op = "mov" -> write(in.reg, value(in.x))
          [] in.op = "binop" ->
                write(in.reg, Arithmetic(IF in.code = "orr" THEN "or" ELSE in.code,
                                         value(in.x), value(in.y)))
          [] in.op = "adrp" -> write(in.reg, Page(in.x.n))
          [] in.op = "addlo12" -> write(in.reg, a.reg[in.reg] + Lo12)
          [] in.op = "cmp" -> [a EXCEPT !.flags = <<value(in.x), value(in.y)>>]
          [] in.op = "cset" -> write(in.reg, Bit(ArmCond(in.code, a.flags[1], a.flags[2])))
          [] in.op = "bcond" ->
                IF a.out # Undefined THEN a
                ELSE IF ArmCond(in.code, a.flags[1], a.flags[2])
                THEN [a EXCEPT !.out = Bit(in.code = "eq")] ELSE a
          [] in.op = "bl" -> CASE in.code = "malloc" -> write(0, NewObject)
                               [] in.code = "g" -> write(0, Called("g", a.reg[0]))
                               [] OTHER -> a
          [] in.op = "exit" -> [a EXCEPT !.out = a.reg[0]]

ArmRun(a, code) ==
    LET after[k \in 0..Len(code)] == IF k = 0 THEN a ELSE ArmExec(after[k - 1], code[k])
    IN  after[Len(code)]

-----------------------------------------------------------------------------
(* The helpers of llvm/llvmToArmOps.go.  Each answers code, the operand it *)
(* leaves something in, and what NextAvailableRegister is afterwards.      *)
Got(code, opnd, n) == [code |-> code, opnd |-> opnd, n |-> n]
InRegister(l) == home[l].kind = "reg"
IsPtr(l) == role[l] = "ptr"
IsGlobal(o) == o.kind = "var" /\ o.name \in Global
LocalOf(o) == IF o.kind = "var" THEN o.name ELSE o.id

RegOf(l, n) == IF InRegister(l) THEN Got(<<>>, home[l], n)
               ELSE Got(<<Ldr(n, home[l])>>, Reg(n), n + 1)
AddressOf(g, n) == <<Adrp(n, g), AddLo12(n, g)>>

GetARMRegFromLLVMOp(o, n) ==
    IF o.kind = "imm" THEN Got(<<Mov(n, Imm(o.val))>>, Reg(n), n + 1) ELSE RegOf(LocalOf(o), n)
GetARMRegFromLLVMReg(o, n) ==
    IF IsGlobal(o) THEN Got(AddressOf(o.name, n), Reg(n), n + 1) ELSE RegOf(LocalOf(o), n)
GetARMOpFromLLVMReg(o, n) ==
    IF IsGlobal(o) THEN Got(AddressOf(o.name, n), Reg(n), n) ELSE Got(<<>>, home[LocalOf(o)], n)
GetARMOpFromLLVMOp(o, n) ==
    IF o.kind = "imm" THEN Got(<<Mov(n, Imm(o.val))>>, Reg(n), n + 1)
    ELSE GetARMOpFromLLVMReg(o, n)

(* Keep a result that was computed in a scratch register.                  *)
StoreResult(dest, n) ==
    LET l == LocalOf(dest)
    IN  IF InRegister(l) THEN <<Mov(home[l].n, Reg(n))>> ELSE <<Str(n, home[l])>>

BinOpCode(in) ==
    LET a == GetARMRegFromLLVMOp(in.args[1], next)
        b == GetARMRegFromLLVMOp(in.args[2], a.n)
    IN  a.code \o b.code \o <<ARMBinOp(ToARM(in.code), b.n, a.opnd.n, b.opnd.n)>>
        \o StoreResult(in.dest, b.n)

(* One register is skipped.                                                *)
ICMPResult(n) == n + 1
ICMPCode(in) ==
    LET a == GetARMRegFromLLVMOp(in.args[1], next)
        b == GetARMRegFromLLVMOp(in.args[2], a.n)
        d == ICMPResult(b.n)
    IN  a.code \o b.code \o <<Cmp(a.opnd, b.opnd), Cset(d, ToARM(in.code))>>
        \o StoreResult(in.dest, d)

SelectCode(in) ==
    LET c == GetARMRegFromLLVMOp(in.args[1], next)
    IN  c.code \o <<Cmp(c.opnd, Imm(1)), Cset(c.n, "eq")>> \o StoreResult(in.dest, c.n)

(* Trunc and Bitcast copy.                                                 *)
CopyCode(in) ==
    LET v == GetARMRegFromLLVMOp(in.args[1], next) IN v.code \o StoreResult(in.dest, v.opnd.n)

GEPCode(in) ==
    LET d == GetARMRegFromLLVMReg(in.dest, next)
        p == GetARMRegFromLLVMReg(in.args[1], d.n)
    IN  d.code \o p.code \o <<AddImm(d.opnd.n, p.opnd.n, Offset(in.code))>>

LoadCode(in) ==
    LET op == in.args[1]
        d == GetARMRegFromLLVMReg(in.dest, next)
        p == GetARMOpFromLLVMReg(op, d.n)
    IN  (IF ~IsGlobal(op) /\ IsPtr(LocalOf(op)) THEN <<Ldr(home[LocalOf(in.dest)].n, home[LocalOf(op)])>>
         ELSE <<>>)
        \o d.code \o p.code
        \o <<IF p.opnd.kind = "reg" /\ ~IsGlobal(op) THEN Mov(d.opnd.n, p.opnd)
             ELSE Ldr(d.opnd.n, p.opnd)>>

(* Mutant: a store through a pointer changes the pointer.                  *)
StoreThroughMoved(op) == IsGlobal(op)
StoreThrough(op) == IsGlobal(op) \/ IsPtr(LocalOf(op))
StoreCode(in) ==
    LET op == in.args[2]
        spilled == ~IsGlobal(op) /\ ~InRegister(LocalOf(op))
        p == IF spilled THEN Got(<<>>, Reg(next), next) ELSE GetARMRegFromLLVMReg(op, next)
        v == GetARMOpFromLLVMOp(in.args[1], p.n)
    IN  p.code \o v.code
        \o <<CASE spilled -> Str(p.opnd.n, home[LocalOf(op)])
               [] ~spilled /\ v.opnd.kind = "addr" -> Ldr(p.opnd.n, v.opnd)
               [] OTHER -> IF StoreThrough(op) THEN Str(v.opnd.n, p.opnd) ELSE Mov(p.opnd.n, v.opnd)>>

RetCode(in) ==
    LET v == in.args[1]
    IN  <<CASE v.kind = "imm" -> Mov(0, Imm(v.val))
            [] v.kind = "temp" -> IF InRegister(v.id) THEN Mov(0, home[v.id]) ELSE Ldr(0, home[v.id]),
          Exit>>

(* A branch relies on the flags the selection before it has left.          *)
BrCondCode(in) == <<BCond(ToARM(in.code)), BCond(ToARM(Negate(in.code)))>>

MallocCode(in) == <<Mov(0, Imm(16)), Bl("malloc")>> \o StoreResult(in.dest, 0)

(* Mutant: a comparison does not give its registers back.                  *)
LostByCompare(in) == Bit(in.op \in {"CallAssign", "ICMP"})
(* For a result on the stack, the old value is loaded into a scratch       *)
(* register that is not given back.                                        *)
Lost(in) == Bit(in.op = "CallAssign" /\ ~InRegister(LocalOf(in.dest)))
CallAssignCode(in) ==
    LET v == in.args[1]
        d == GetARMRegFromLLVMReg(in.dest, next)
    IN  <<CASE v.kind = "imm" -> Mov(0, Imm(v.val))
            [] v.kind = "temp" -> IF InRegister(v.id) THEN Mov(0, home[v.id]) ELSE Ldr(0, home[v.id]),
          Bl(in.code[1])>> \o d.code \o <<Mov(16, Reg(0)), Mov(d.opnd.n, Reg(16))>>

TranslateToAssembly(in) ==
    CASE in.op = "BinOp" -> BinOpCode(in) [] in.op = "ICMP" -> ICMPCode(in)
      [] in.op = "Select" -> SelectCode(in) [] in.op \in {"Trunc", "Bitcast"} -> CopyCode(in)
      [] in.op = "GetElementPtr" -> GEPCode(in) [] in.op = "Load" -> LoadCode(in)
      [] in.op = "Store" -> StoreCode(in) [] in.op = "Ret" -> RetCode(in)
      [] in.op = "BrCond" -> BrCondCode(in) [] in.op = "Malloc" -> MallocCode(in)
      [] in.op = "CallAssign" -> CallAssignCode(in)

(* What the translation gets right: a load needs a register to load into,  *)
(* and a load through a pointer the register of the pointer itself; a      *)
(* value on the stack can only be stored into a variable in a register; a  *)
(* variable on the stack only gets numbers; a pointer to a field and the   *)
(* result of a call cannot be on the stack.                                *)
Covered(in) ==
    LET inRegister(o) == o.kind # "imm" /\ InRegister(LocalOf(o))
    IN  CASE in.op = "Load" ->
                /\ inRegister(in.dest)
                /\ \/ IsGlobal(in.args[1]) \/ ~IsPtr(LocalOf(in.args[1]))
                   \/ home[LocalOf(in.args[1])] = home[LocalOf(in.dest)]
          [] in.op = "Store" ->
                LET val == in.args[1] op == in.args[2]
                IN  CASE IsGlobal(op) -> val.kind = "imm" \/ inRegister(val)
                      [] IsPtr(LocalOf(op)) -> inRegister(op) /\ (val.kind = "imm" \/ inRegister(val))
                      [] OTHER -> inRegister(op) \/ val.kind = "imm"
          [] in.op \in {"GetElementPtr", "CallAssign"} -> inRegister(in.dest)
          [] OTHER -> TRUE

-----------------------------------------------------------------------------
(* Homes: every local on the stack has its own place; of the registers,    *)
(* which are alike, a local takes the first that an earlier one left.      *)
HomeRegisters == 8..15 \cup 19..25
HomeRegister(k) == IF k <= 7 THEN 18 + k ELSE k
Registers == {0, 16} \cup HomeRegisters \cup 26..30
Homes ==
    {[l \in Local |-> IF c[l] = 0 THEN Addr(Slot(l)) ELSE Reg(HomeRegister(c[l]))] :
        c \in {c \in [Local -> 0..15] :
                 \A l \in Local : c[l] <= 1 + Cardinality({c[k] : k \in 1..(l - 1)} \ {0})}}

Init ==
    /\ home \in Homes
    /\ role = [l \in Local |-> "dead"]
    /\ llvm = [temps |-> [l \in Local |-> Undefined],
               vars |-> [v \in Local \cup Global |->
                            CASE v = Count -> 1 [] v = Struct -> NewObject [] OTHER -> Undefined],
               heap |-> [a \in Fields |-> 0],
               out |-> Undefined, trap |-> FALSE]
    /\ arm = [reg |-> [n \in Registers |-> Undefined],
              mem |-> [a \in {Slot(l) : l \in Local} \cup {Place(g) : g \in Global} \cup Fields |->
                          CASE a = Place(Count) -> 1 [] a = Place(Struct) -> NewObject
                            [] a \in Fields -> 0 [] OTHER -> Undefined],
              flags |-> <<0, 0>>, out |-> Undefined]
    /\ next = 26 /\ highest = 26 /\ sound = TRUE /\ steps = 0

(* The scratch registers an instruction leaves behind are of no use later. *)
Forget(a) == [a EXCEPT !.reg = [n \in Registers |-> IF n \in HomeRegisters THEN @[n] ELSE Undefined],
                       !.flags = <<0, 0>>]
Named(code) == {code[i].reg : i \in DOMAIN code}
               \cup {code[i].x.n : i \in {j \in DOMAIN code : code[j].x.kind = "reg"}}

(* One instruction, or a selection with its branch: both machines run it,  *)
(* and dest, if it is a local, is now r; who shared its register is dead.  *)
(* With the first instruction that is not covered the comparison ends.     *)
Run(ins, dest, r) ==
    LET code == IF Len(ins) = 1 THEN TranslateToAssembly(ins[1])
                ELSE TranslateToAssembly(ins[1]) \o TranslateToAssembly(ins[2])
        become == [l \in Local |-> IF l = dest THEN r
                                   ELSE IF dest \in Local /\ home[l] = home[dest] THEN "dead"
                                   ELSE role[l]]
        first == Exec([llvm EXCEPT !.out = Undefined], ins[1])
        after == IF Len(ins) = 1 THEN first ELSE Exec(first, ins[2])
    IN  /\ sound /\ steps < MaxSteps /\ steps' = steps + 1
        /\ role' = become
        /\ llvm' = [after EXCEPT
                !.temps = [l \in Local |-> IF become[l] \in {"temp", "ptr"} THEN @[l] ELSE Undefined],
                !.vars = [v \in DOMAIN @ |-> IF v \in Local /\ become[v] # "var" THEN Undefined ELSE @[v]]]
        /\ arm' = Forget(ArmRun([arm EXCEPT !.out = Undefined], code))
        /\ next' = next + Lost(ins[1])
        /\ highest' = Max(Named(code) \cup {highest})
        /\ sound' = (sound /\ \A i \in DOMAIN ins : Covered(ins[i]))
        /\ UNCHANGED home

Of(r) == {l \in Local : role[l] = r}
Number(n) == Immediate(n, "i64")
(* What can be computed with: temporaries that hold numbers, and a number. *)
Operands == {Number(1)} \cup {Temp(l, "i64") : l \in {k \in Of("temp") : llvm.temps[k] \in Word}}
Values == {Number(1)} \cup {Temp(l, "i64") : l \in Of("temp")}
ValueOf(o) == IF o.kind = "imm" THEN o.val ELSE llvm.temps[o.id]
IsBit(o) == ValueOf(o) \in {0, 1}

(* A temporary or a pointer gets its value once, before anything uses it.  *)
Define(ins, d, r) == role[d] = "dead" /\ Run(ins, d, r)
Compute(d, binTy, a, b) ==
    /\ binTy = "sdiv" => ValueOf(b) # 0
    /\ binTy \in {"and", "or"} => IsBit(a) /\ IsBit(b)
    /\ Define(<<BinOp(Temp(d, "i64"), binTy, a, b)>>, d, "temp")
Compare(d, cc, a, b) == Define(<<ICMP(Temp(d, "i1"), cc, "i64", a, b)>>, d, "temp")
SelectOne(d, a) == IsBit(a) /\ Define(<<Select(Temp(d, "i64"), a, "i64")>>, d, "temp")
Copy(d, a) == Define(<<Bitcast(Temp(d, "i8*"), a, "i8*")>>, d, "temp")
(* The end of the block an if or a for begins with.                        *)
Branch(d, a) ==
    IsBit(a) /\ Define(<<Select(Temp(d, "i1"), a, "i1"), BrCond(Temp(d, "i1"))>>, d, "temp")
LoadVariable(d, v) == Define(<<Load("i64", Temp(d, "i64"), Variable(v, "i64"))>>, d, "temp")
(* Without a register for the value the compiler itself stops here, on a   *)
(* register that is nil.                                                   *)
LoadField(d, p) == InRegister(d) /\ Define(<<Load("i64", Temp(d, "i64"), Temp(p, "i64"))>>, d, "temp")
FieldAddress(d, s, field) ==
    /\ llvm.temps[s] = NewObject
    /\ Define(<<GetElementPtr(Temp(d, "i64"), Temp(s, "S"), field)>>, d, "ptr")
Allocate(d) == Define(<<Malloc(Temp(d, "i8*"))>>, d, "temp")
CallFunction(d, a) ==
    Define(<<CallAssign(Temp(d, "i64"), "int", "g", "int", a)>>, d, "temp")
StoreVariable(v, a) ==
    /\ v \in Local => role[v] \in {"dead", "var"}
    /\ Run(<<Store("i64", a, Variable(v, "i64"))>>, v, "var")
StoreField(p, a) == Run(<<Store("i64", a, Temp(p, "i64"))>>, 0, "ptr")
ReturnValue(a) == Run(<<Ret("i64", a)>>, 0, "dead")

(* scanf into a global: what the global holds is passed for its address,   *)
(* and the scratch register is not given back.                             *)
ReadGlobal ==
    /\ sound /\ steps < MaxSteps /\ steps' = steps + 1
    /\ next' = next + 1
    /\ highest' = Max({next, highest})
    /\ sound' = FALSE
    /\ UNCHANGED <<home, role, llvm, arm>>

Next ==
    \/ \E d \in Local, a, b \in Operands :
          \/ \E binTy \in BinOps : Compute(d, binTy, a, b)
          \/ \E cc \in Conds : Compare(d, cc, a, b)
    \/ \E d \in Local, a \in Operands : SelectOne(d, a) \/ Branch(d, a) \/ CallFunction(d, a)
    \/ \E d \in Local, a \in Values : Copy(d, a) \/ StoreVariable(d, a)
    \/ \E d \in Local : Allocate(d)
    \/ \E d \in Local, v \in Of("var") \cup Global : LoadVariable(d, v)
    \/ \E d \in Local, p \in Of("ptr") : LoadField(d, p)
    \/ \E d \in Local, s \in Of("temp"), field \in {"f", "n"} : FieldAddress(d, s, field)
    \/ \E p \in Of("ptr"), a \in Operands : StoreField(p, a)
    \/ \E a \in Operands : StoreVariable(Count, a) \/ ReturnValue(a)
    \/ ReadGlobal
Spec == Init /\ [][Next]_vars
-----------------------------------------------------------------------------
TypeOK ==
    /\ \A l \in Local : home[l] \in {Addr(Slot(l))} \cup {Reg(n) : n \in HomeRegisters}
    /\ role \in [Local -> {"dead", "temp", "ptr", "var"}]
    /\ next \in {26, 27} /\ highest \in Registers /\ steps \in 0..MaxSteps
    /\ sound \in BOOLEAN

(* The ARM code does what the LLVM code does: every live local has at home *)
(* the value LLVM gives it, globals and the heap are equal, and a return   *)
(* or a branch comes out the same.                                         *)
ContentOf(l) == IF InRegister(l) THEN arm.reg[home[l].n] ELSE arm.mem[home[l].n]
Meant(l) == IF role[l] = "var" THEN llvm.vars[l] ELSE llvm.temps[l]
Simulates ==
    /\ \A l \in Local : role[l] # "dead" => ContentOf(l) = Meant(l)
    /\ \A g \in Global : arm.mem[Place(g)] = llvm.vars[g]
    /\ \A a \in DOMAIN llvm.heap : arm.mem[a] = llvm.heap[a]
    /\ arm.out = llvm.out

(* For the instructions Covered names.                                     *)
CoveredSimulates == sound => Simulates

(* The same of every load of a field into a register, which is what        *)
(* "<result> = load <ty>, <ty>* <pointer>" says.                           *)
FieldLoadsSimulate == [][(\E d \in Local, p \in Of("ptr") : LoadField(d, p)) => Simulates']_vars

(* An instruction takes at most the four registers x26 to x29 and gives    *)
(* them back, a read into a global and a call whose result is spilled      *)
(* excepted, with which the comparison ends: no code names a register that *)
(* does not exist.                                                         *)
RegistersExist == highest <= 29
=============================================================================
