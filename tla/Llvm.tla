-------------------------------- MODULE Llvm --------------------------------
(***************************************************************************)
(* The LLVM instructions of llvm/instructions.go that straight-line code   *)
(* is made of: their operands (llvm/operands.go), the types their text     *)
(* gives the operands, and what they do.                                   *)
(*                                                                         *)
(* A type is one of types/types.go: "int", "bool", "nil", "unknown" and    *)
(* the struct "S" of the source, "i1", "i64" and "i8*" of LLVM.  A value   *)
(* is an integer: 0 and 1 are false and true, 0 is nil, and a struct is    *)
(* the address of its first field.                                         *)
(***************************************************************************)
EXTENDS Integers, Sequences, SequencesExt

(* What TypeToLLVMString prints.                                           *)
TypeToLLVMString(ty) ==
    CASE ty \in {"i1", "i8*"} -> ty
      [] ty = "S" -> "%struct.S*"
      [] OTHER -> "i64"

(* A temporary %r<id>, a variable that memory was allocated for, and a     *)
(* number.                                                                 *)
Temp(id, ty) == [kind |-> "temp", id |-> id, name |-> "", ty |-> ty, val |-> 0]
Variable(name, ty) == [kind |-> "var", id |-> 0, name |-> name, ty |-> ty, val |-> 0]
Immediate(val, ty) == [kind |-> "imm", id |-> 0, name |-> "", ty |-> ty, val |-> val]

Instr(op, code, dest, args, ty) ==
    [op |-> op, code |-> code, dest |-> dest, args |-> args, ty |-> ty]
NoDest == Temp(-1, "i64")
One(ty) == Immediate(1, ty)
Zero(ty) == Immediate(0, ty)

BinOp(dest, binTy, op1, op2) == Instr("BinOp", binTy, dest, <<op1, op2>>, "i64")
Load(ty, dest, op) == Instr("Load", "", dest, <<op>>, ty)
Store(ty, val, op) == Instr("Store", "", NoDest, <<val, op>>, ty)
Select(dest, cond, ty2) == Instr("Select", "", dest, <<cond, One(ty2), Zero(ty2)>>, ty2)
Trunc(dest, val1) == Instr("Trunc", "", dest, <<val1>>, "i1")
GetElementPtr(dest, ptrval, field) == Instr("GetElementPtr", field, dest, <<ptrval>>, "S")
Bitcast(dest, val, ty2) == Instr("Bitcast", "", dest, <<val>>, ty2)
ICMP(dest, cc, ty, op1, op2) == Instr("ICMP", cc, dest, <<op1, op2>>, ty)
BrCond(cond) == Instr("BrCond", "eq", NoDest, <<cond>>, "i1")
Ret(ty, value) == Instr("Ret", "", NoDest, <<value>>, ty)
Printf(flag) == Instr("Printf", "", NoDest, <<flag>>, "i64")
CallAssign(dest, retTy, fn, paramTy, param) ==
    Instr("CallAssign", <<fn, paramTy>>, dest, <<param>>, retTy)
Malloc(dest) == Instr("Malloc", "", dest, <<>>, "i8*")
Free(op) == Instr("Free", "", NoDest, <<op>>, "i8*")

(* The type the text of the instruction gives its i-th operand; pointers   *)
(* that are loaded from or stored to are left out.                         *)
UsedAs(in, i) ==
    CASE in.op \in {"BinOp", "Printf", "Trunc"} -> "i64"
      [] in.op = "Select" /\ i = 1 -> "i1"
      [] in.op = "Store" /\ in.args[1].ty = "nil" -> "ptr"
      [] in.op = "Bitcast" -> TypeToLLVMString(in.args[i].ty)
      [] in.op = "CallAssign" -> TypeToLLVMString(in.code[2])
      [] OTHER -> TypeToLLVMString(in.ty)
(* The type it gives its result.                                           *)
DefinedAs(in) ==
    CASE in.op = "BinOp" -> "i64"
      [] in.op = "ICMP" -> "i1"
      [] in.op = "GetElementPtr" -> "pointer"
      [] OTHER -> TypeToLLVMString(in.ty)
ValueOperands(in) ==
    CASE in.op \in {"Load", "GetElementPtr", "Malloc"} -> {}
      [] in.op = "Store" -> {1}
      [] OTHER -> DOMAIN in.args

(* LLVM accepts a temporary only as what it was defined as, null only as a *)
(* pointer, and a number only as an integer.                               *)
IllTyped(code, k) ==
    {i \in ValueOperands(code[k]) :
        LET o == code[k].args[i] used == UsedAs(code[k], i)
        IN  CASE o.kind = "temp" ->
                    ~\E j \in 1..(k - 1) : code[j].dest.id = o.id /\ DefinedAs(code[j]) = used
              [] o.kind # "temp" /\ o.ty = "nil" -> used \notin {"ptr", "%struct.S*"}
              [] OTHER -> used \notin {"i1", "i64"}}

-----------------------------------------------------------------------------
(* Meaning.  A machine has temporaries, variables and a heap; trap says    *)
(* that it loaded from or stored to a place that does not exist.           *)
Bit(b) == IF b THEN 1 ELSE 0
Abs(a) == IF a < 0 THEN -a ELSE a
Quotient(a, b) ==
    IF b = 0 THEN 0 ELSE (IF (a < 0) = (b < 0) THEN 1 ELSE -1) * (Abs(a) \div Abs(b))
Both(a, b) == Bit(a = 1 /\ b = 1)
Either(a, b) == Bit(a = 1 \/ b = 1)
Arithmetic(binTy, a, b) ==
    CASE binTy = "add" -> a + b
      [] binTy = "sub" -> a - b
      [] binTy = "mul" -> a * b
      [] binTy = "sdiv" -> Quotient(a, b)
      [] binTy = "and" -> Both(a, b)
      [] binTy = "or" -> Either(a, b)
Holds(cc, a, b) ==
    CASE cc = "eq" -> a = b
      [] cc = "ne" -> a # b
      [] cc = "sgt" -> a > b
      [] cc = "sge" -> a >= b
      [] cc = "slt" -> a < b
      [] cc = "sle" -> a <= b

Offset(field) == IF field = "f" THEN 0 ELSE 8
NewObject == 200

(* The two functions calls are made to: one adds ten, one asks for > 2.    *)
Called(fn, x) == IF fn = "g" THEN x + 10 ELSE Bit(x > 2)

Exec(m, in) ==
    LET value(o) == IF o.kind = "imm" THEN o.val ELSE m.temps[o.id]
        v == [i \in ValueOperands(in) |-> value(in.args[i])]
        define(x) == [m EXCEPT !.temps = [@ EXCEPT ![in.dest.id] = x]]
        ptr == in.args[Len(in.args)]
        trapped == [m EXCEPT !.trap = TRUE]
        seen(x) == [m EXCEPT !.out = x]
    IN  IF m.trap THEN m ELSE
        CASE in.op = "BinOp" -> define(Arithmetic(in.code, v[1], v[2]))
          [] in.op = "ICMP" -> define(Bit(Holds(in.code, v[1], v[2])))
          [] in.op = "Select" -> define(IF v[1] = 1 THEN v[2] ELSE v[3])
          [] in.op \in {"Trunc", "Bitcast"} -> define(v[1])
          [] in.op = "GetElementPtr" -> define(value(ptr) + Offset(in.code))
          [] in.op = "Malloc" -> define(NewObject)
          [] in.op = "CallAssign" -> define(Called(in.code[1], v[1]))
          [] in.op = "Load" /\ ptr.kind = "var" -> define(m.vars[ptr.name])
          [] in.op = "Load" /\ ptr.kind # "var" ->
                IF value(ptr) \in DOMAIN m.heap THEN define(m.heap[value(ptr)]) ELSE trapped
          [] in.op = "Store" /\ ptr.kind = "var" -> [m EXCEPT !.vars = [@ EXCEPT ![ptr.name] = v[1]]]
          [] in.op = "Store" /\ ptr.kind # "var" ->
                IF value(ptr) \in DOMAIN m.heap
                THEN [m EXCEPT !.heap = [@ EXCEPT ![value(ptr)] = v[1]]] ELSE trapped
          [] in.op \in {"BrCond", "Ret", "Printf", "Free"} -> seen(v[1])
Execute(m, code) ==
    LET after[k \in 0..Len(code)] == IF k = 0 THEN m ELSE Exec(after[k - 1], code[k])
    IN  after[Len(code)]
=============================================================================
