---------------------------- MODULE Expressions ----------------------------
(***************************************************************************)
(* Expressions and the statements they stand in: how the AST nodes of      *)
(* ast/ are type-checked, and which LLVM code they are translated to.      *)
(*                                                                         *)
(* A statement is built from its leaves upwards.  Each element of stack is *)
(* a finished expression with what its node answers: the type (GetType),   *)
(* whether TypeCheck adds no error, and the operand its translation        *)
(* returns; code is what the translations have produced, in the order the  *)
(* nodes produce it.  Beside these stand the type and the value the GoLite *)
(* program gives the expression, for comparison.                           *)
(***************************************************************************)
EXTENDS Llvm

CONSTANTS Ops,            \* the binary operators, of AllOps
          MaxNodes        \* a bound on the nodes of a statement's expression

AllOps == {"+", "-", "*", "/", "<", ">", "<=", ">=", "==", "!=", "&&", "||"}
ASSUME OpsAssumption == Ops \subseteq AllOps
ASSUME MaxNodesAssumption == MaxNodes \in Nat

VARIABLES stack, code,
          next,           \* the number of the register RegisterGen answers next
          nodes, memory,  \* what variables and heap hold before the statement
          stm             \* the finished statement
vars == <<stack, code, next, nodes, memory, stm>>

(* The variables of the function: an int x, a bool b, a struct p and a     *)
(* parameter y, whose copy _P_y is what the code uses.  The function       *)
(* answers an int.                                                         *)
Names == {"x", "b", "p", "_P_y", "_ret_val"}
GetType == [v \in Names |->
              CASE v = "b" -> "bool" [] v = "p" -> "S" [] OTHER -> "int"]
RetTy == "int"
Operands == {"b", "p", "_P_y"}
(* struct S { f int; n *S }                                                *)
FieldType(field) == IF field = "f" THEN "int" ELSE "S"
Paths == {<<"f">>, <<"n", "f">>}
Targets == {"x", "b", "p"} \X {<<>>, <<"n">>, <<"n", "f">>}

NoStatement == [kind |-> "none", typed |-> TRUE, lax |-> {}, effect |-> 0,
                trap |-> FALSE, target |-> "", path |-> <<>>]

(* A node asks for five registers at most, a statement for four (bound).    *)
Registered == 1..(5 * MaxNodes + 4)

Init == /\ stack = <<>> /\ code = <<>> /\ next = 1 /\ nodes = 0 /\ stm = NoStatement
        /\ \E b \in {0, 1}, p \in {0, 100} :
              memory = [temps |-> [t \in Registered |-> 0],
                        vars |-> [v \in Names |-> CASE v = "x" -> 3 [] v = "b" -> b
                                                    [] v = "p" -> p [] OTHER -> 2],
                        heap |-> [a \in {100, 108, 200, 208} |-> IF a = 100 THEN 5 ELSE 0],
                        trap |-> FALSE, out |-> 0]

-----------------------------------------------------------------------------
(* An expression that is no chain of operators.  lax names the ways in     *)
(* which its check was not strict.                                         *)
Expr(ty, ok, real, opnd, val, trap, lax, level) ==
    [ty |-> ty, ok |-> ok, real |-> real, opnd |-> opnd, val |-> val,
     trap |-> trap, lax |-> lax, level |-> level, first |-> ty]
Primary == 8
Unary == 7
Leaf(ty, opnd, val, trap) == Expr(ty, TRUE, ty, opnd, val, trap, {}, Primary)

(* Mutant: RegisterGen answers the same name again.                        *)
EmitStuck(instrs, registers) == code' = code \o instrs /\ UNCHANGED next
Emit(instrs, registers) == /\ code' = code \o instrs
                           /\ next' = next + registers
(* Another node may be begun: what is open can still be joined.            *)
Open == stm = NoStatement /\ nodes + Len(stack) < MaxNodes
Replace(n, e, instrs, registers) ==
    /\ nodes' = nodes + 1
    /\ stack' = Append(SubSeq(stack, 1, Len(stack) - n), e)
    /\ Emit(instrs, registers)
    /\ UNCHANGED <<memory, stm>>
Push(e, instrs, registers) == Replace(0, e, instrs, registers)
Top == stack[Len(stack)]

Literal ==
    Open /\ \E l \in {<<2, "int">>, <<1, "bool">>, <<0, "nil">>} :
        Push(Leaf(l[2], Immediate(l[1], l[2]), l[1], FALSE), <<>>, 0)

VariableExpr(v) ==
    LET t == Temp(next, GetType[v])
    IN  Open /\ Push(Leaf(GetType[v], t, memory.vars[v], FALSE),
             <<Load(GetType[v], t, Variable(v, GetType[v]))>>, 1)

(* Mutant: the field after the first is sought in the address of the first.*)
AddressCodeUnloaded(v, path, n) ==
    LET address(i) == Temp(n + 2 * i - 1, FieldType(path[i]))
        base == Temp(n, GetType[v])
    IN  <<Load(GetType[v], base, Variable(v, GetType[v]))>>
        \o [i \in DOMAIN path |->
              GetElementPtr(address(i), IF i = 1 THEN base ELSE address(i - 1), path[i])]
(* The code that leads to the field at the end of a path: a load of the    *)
(* struct, and for every field its address and, before the next, its value.*)
AddressCode(v, path, n) ==
    LET pointer(i) == Temp(n + 2 * i, IF i = 0 THEN GetType[v] ELSE FieldType(path[i]))
        address(i) == Temp(n + 2 * i - 1, FieldType(path[i]))
        step(i) == <<Load(pointer(i - 1).ty, pointer(i - 1),
                          IF i = 1 THEN Variable(v, GetType[v]) ELSE address(i - 1)),
                     GetElementPtr(address(i), pointer(i - 1), path[i])>>
    IN  FlattenSeq([i \in DOMAIN path |-> step(i)])
FieldAddress(path, n) == Temp(n + 2 * Len(path) - 1, FieldType(Last(path)))
(* What the path leads to, in the memory before the statement.             *)
Follow(at, field) ==
    IF at.trap \/ at.val + Offset(field) \notin DOMAIN memory.heap
    THEN [val |-> 0, trap |-> TRUE]
    ELSE [val |-> memory.heap[at.val + Offset(field)], trap |-> FALSE]
Reached(v, path) ==
    LET at[i \in 0..Len(path)] ==
          IF i = 0 THEN [val |-> memory.vars[v], trap |-> FALSE]
          ELSE Follow(at[i - 1], path[i])
    IN  at[Len(path)]

FieldExpr(v, path) ==
    LET ty == FieldType(Last(path))
        t == Temp(next + 2 * Len(path), ty)
        found == Reached(v, path)
    IN  Open /\ Push(Leaf(ty, t, found.val, found.trap),
             Append(AddressCode(v, path, next), Load(ty, t, FieldAddress(path, next))),
             2 * Len(path) + 1)

New ==
    /\ Open /\ \A i \in DOMAIN code : code[i].op # "Malloc"
    /\ Push(Leaf("S", Temp(next + 1, "S"), NewObject, FALSE),
            <<Malloc(Temp(next, "S")),
              Bitcast(Temp(next + 1, "S"), Temp(next, "i8*"), "S")>>, 2)

(* Neither the number nor the types of the arguments are looked at.        *)
FunctionType(fn) == IF fn = "g" THEN "int" ELSE "bool"
Invocation(fn) ==
    /\ Open /\ stack # <<>>
    /\ LET arg == Top
           typed == arg.real = "int"
           t == Temp(next, "unknown")
       IN  Replace(1, Expr(FunctionType(fn), TRUE, IF typed THEN FunctionType(fn) ELSE "none",
                           t, Called(fn, arg.val), arg.trap,
                           IF typed THEN arg.lax ELSE {"argument"}, Primary),
                   <<CallAssign(t, FunctionType(fn), fn, arg.ty, arg.opnd)>>, 1)

Parenthesised == /\ Open /\ stack # <<>> /\ Top.level < Unary
                 /\ Replace(1, Expr(Top.ty, Top.ok, Top.real, Top.opnd, Top.val, Top.trap,
                                    Top.lax, Primary), <<>>, 0)

(* A unary operator answers its operand's type and checks nothing, not     *)
(* even the operand.                                                       *)
UnaryTypeCheck(e) == TRUE
UnaryCode(op, e) ==
    IF op = "-" THEN BinOp(Temp(next, "i64"), "mul", Immediate(-1, "i64"), e.opnd)
    ELSE LET negType == IF e.opnd.kind = "temp" THEN e.opnd.ty ELSE "none"
         IN  ICMP(Temp(next, "i1"), "eq", negType, e.opnd, Zero(negType))
UnaryExpr(op) ==
    /\ Open /\ stack # <<>> /\ Top.level = Primary
    /\ LET e == Top
           in == UnaryCode(op, e)
           typed == e.real = IF op = "-" THEN "int" ELSE "bool"
       IN  Replace(1, Expr(e.ty, UnaryTypeCheck(e), IF typed THEN e.real ELSE "none", in.dest,
                           IF op = "-" THEN -e.val ELSE 1 - e.val, e.trap,
                           IF typed THEN e.lax ELSE {"unary"}, Unary), <<in>>, 1)

-----------------------------------------------------------------------------
(* Binary operators: a chain  first op rest op rest ... of one level of    *)
(* the grammar is one node.                                                *)
ArithmeticOps == {"+", "-", "*", "/"}
RelationalOps == {"<", ">", "<=", ">="}
EqualityOps == {"==", "!="}
IsBoolOp(op) == op \in {"&&", "||"}
IsComparison(op) == op \in RelationalOps \cup EqualityOps
Level(op) == CASE op = "||" -> 1 [] op = "&&" -> 2 [] op \in EqualityOps -> 3
               [] op \in RelationalOps -> 4 [] op \in {"+", "-"} -> 5 [] OTHER -> 6
ToLLVMBinOpTy(op) == CASE op = "+" -> "add" [] op = "-" -> "sub" [] op = "*" -> "mul"
                       [] op = "/" -> "sdiv" [] op = "&&" -> "and" [] op = "||" -> "or"
ToLLVMCondCode(op) == CASE op = ">" -> "sgt" [] op = ">=" -> "sge" [] op = "<" -> "slt"
                        [] op = "<=" -> "sle" [] op = "==" -> "eq" [] op = "!=" -> "ne"

OperandTypes(op) == CASE IsBoolOp(op) -> {"bool"}
                      [] op \in EqualityOps -> {"int", "S", "nil"}
                      [] OTHER -> {"int"}
(* ValidateBin and GetType look at the type of the first expression of the *)
(* chain and at that of the one to the right of the operator.              *)
(* Mutant: nil goes with nothing but nil.                                  *)
FitsStrictly(firstTy, op, nextTy) == firstTy = nextTy /\ nextTy \in OperandTypes(op)
(* Mutant: only the right operand is looked at.                            *)
FitsRight(firstTy, op, nextTy) == nextTy \in OperandTypes(op)
Fits(firstTy, op, nextTy) ==
    /\ firstTy = nextTy \/ "nil" \in {firstTy, nextTy}
    /\ nextTy \in OperandTypes(op)
BinaryType(firstTy, op, nextTy) ==
    IF ~Fits(firstTy, op, nextTy) THEN "unknown"
    ELSE IF op \in ArithmeticOps THEN "int" ELSE "bool"

(* The types the language gives: both operands have what the operator      *)
(* takes, and nil goes with a struct.                                      *)
Typed(op, ty1, ty2) ==
    /\ {ty1, ty2} \subseteq OperandTypes(op)
    /\ ty1 = ty2 \/ {ty1, ty2} = {"S", "nil"}
Meaning(op, a, b) ==
    IF IsComparison(op) THEN Bit(Holds(ToLLVMCondCode(op), a, b))
    ELSE Arithmetic(ToLLVMBinOpTy(op), a, b)

(* Registers are numbered in the order the translation asks for them: one  *)
(* for a selection of each side of && and ||, needed or not, and last the  *)
(* one of the result.                                                      *)
SelectsRight(op, right) == IsBoolOp(op) /\ right.ty # "i64"
SelectsLeft(op, left) == IsBoolOp(op) /\ left.ty # "i64"
(* Mutant: the selection on the left shares the register of the result.    *)
RegistersShared(op, right) == 1 + Bit(SelectsRight(op, right))
Registers(op, right) == 1 + Bit(IsBoolOp(op)) + Bit(SelectsRight(op, right))
(* Mutant: everything is compared as a number.                             *)
ComparedAsNumber(left) == "i64"
(* icmp gets the type of the left operand.                                 *)
ComparedAs(left) == left.ty
BinaryCode(op, left, right) ==
    LET result(ty) == Temp(next + Registers(op, right) - 1, ty)
        selectLeft == Select(Temp(next, "i64"), left, "i64")
        selectRight == Select(Temp(next + 1, "i64"), right, "i64")
        a == IF SelectsLeft(op, left) THEN selectLeft.dest ELSE left
        b == IF SelectsRight(op, right) THEN selectRight.dest ELSE right
    IN  IF IsComparison(op)
        THEN <<ICMP(result("i1"), ToLLVMCondCode(op), ComparedAs(left), left, right)>>
        ELSE (IF SelectsLeft(op, left) THEN <<selectLeft>> ELSE <<>>)
             \o (IF SelectsRight(op, right) THEN <<selectRight>> ELSE <<>>)
             \o <<BinOp(result("i64"), ToLLVMBinOpTy(op), a, b)>>

BinaryExpr(op) ==
    /\ stm = NoStatement /\ Len(stack) >= 2
    /\ LET left == stack[Len(stack) - 1]
           right == Top
           extends == left.level = Level(op)
           typed == Typed(op, left.real, right.real)
           in == BinaryCode(op, left.opnd, right.opnd)
           ty == IF extends THEN left.ty ELSE BinaryType(left.ty, op, right.ty)
           firstTy == IF extends THEN left.first ELSE left.ty
           looseness == (IF extends /\ IsComparison(op) THEN {"chain"} ELSE {})
                        \cup (IF "nil" \in {firstTy, right.ty} THEN {"nil"} ELSE {})
       IN  /\ left.level >= Level(op) /\ right.level > Level(op)
           /\ Replace(2, [Expr(ty, left.ok /\ right.ok /\ Fits(firstTy, op, right.ty),
                               IF ~typed THEN "none"
                               ELSE IF op \in ArithmeticOps THEN "int" ELSE "bool",
                               Last(in).dest, Meaning(op, left.val, right.val),
                               left.trap \/ right.trap,
                               left.lax \cup right.lax \cup (IF typed THEN {} ELSE looseness),
                               Level(op))
                          EXCEPT !.first = firstTy], in, Registers(op, right.opnd))

-----------------------------------------------------------------------------
(* Statements.  What is not accepted is not translated.                    *)
Finish(kind, accepted, typed, instrs, target, path) ==
    /\ stm = NoStatement /\ Len(stack) = 1 /\ accepted
    /\ stm' = [kind |-> kind, typed |-> typed, trap |-> Top.trap, effect |-> Top.val,
               lax |-> Top.lax \cup (IF Top.ok THEN {} ELSE {"unchecked"}),
               target |-> target, path |-> path]
    /\ Emit(instrs, 0)
    /\ UNCHANGED <<stack, nodes, memory>>

Assignable(ty, lType) == ty = lType \/ (ty = "nil" /\ lType = "S")
Assignment(v, path) ==
    /\ stack # <<>> /\ (v # "p" => path = <<>>)
    /\ LET e == Top
           lType == IF path = <<>> THEN GetType[v] ELSE FieldType(Last(path))
           lReg == IF path = <<>> THEN Variable(v, lType) ELSE FieldAddress(path, next)
       IN  Finish("assignment", e.ok /\ Assignable(e.ty, lType), Assignable(e.real, lType),
                  Append(AddressCode(v, path, next), Store(lType, e.opnd, lReg)), v, path)

(* Return, print and delete ask for the type of their expression and not   *)
(* for its check.                                                          *)
Return ==
    /\ stack # <<>>
    /\ LET t == Temp(next, "i64") r == Variable("_ret_val", RetTy)
       IN  Finish("return", Top.ty = RetTy, Top.real = RetTy,
                  <<Store(Top.ty, Top.opnd, r), Load(Top.ty, t, r), Ret(Top.ty, t)>>,
                  "_ret_val", <<>>)
PrintStatement ==
    /\ stack # <<>>
    /\ Finish("print", Top.ty = "int", Top.real = "int", <<Printf(Top.opnd)>>, "", <<>>)
Delete ==
    /\ stack # <<>>
    /\ LET t == Temp(next, Top.ty)
       IN  Finish("delete", Top.ty \notin {"nil", "bool", "int"}, Top.real = "S",
                  <<Bitcast(t, [Top.opnd EXCEPT !.ty = Top.ty], "i8*"), Free(t)>>, "", <<>>)

(* An if truncates its condition unless it has type i1, and branches on    *)
(* the selection; a for truncates it only if its type is i64, and branches *)
(* on the condition itself.                                                *)
Truncated(kind, o) ==
    o.kind = "temp" /\ IF kind = "if" THEN o.ty # "i1" ELSE o.ty = "i64"
Condition(kind) ==
    /\ stack # <<>>
    /\ LET cut == Truncated(kind, Top.opnd)
           cOperand == IF cut THEN Temp(next, "i1") ELSE Top.opnd
           sel == Temp(next + Bit(cut), "i1")
       IN  Finish(kind, Top.ok /\ Top.ty = "bool", Top.real = "bool",
                  (IF cut THEN <<Trunc(cOperand, Top.opnd)>> ELSE <<>>)
                  \o <<Select(sel, cOperand, "i1"), BrCond(IF kind = "if" THEN sel ELSE cOperand)>>,
                  "", <<>>)

Next == \/ Literal
        \/ \E v \in Operands : VariableExpr(v)
        \/ \E path \in Paths : FieldExpr("p", path)
        \/ New
        \/ \E fn \in {"g", "h"} : Invocation(fn)
        \/ Parenthesised
        \/ \E op \in {"-", "!"} : UnaryExpr(op)
        \/ \E op \in Ops : BinaryExpr(op)
        \/ \E t \in Targets : Assignment(t[1], t[2])
        \/ Return
        \/ PrintStatement
        \/ Delete
        \/ \E kind \in {"if", "for"} : Condition(kind)
Spec == Init /\ [][Next]_vars
-----------------------------------------------------------------------------
Types == {"int", "bool", "nil", "S", "unknown"}
TypeOK ==
    /\ \A i \in DOMAIN stack :
          /\ stack[i].ty \in Types /\ stack[i].real \in (Types \cup {"none"}) \ {"unknown"}
          /\ stack[i].ok \in BOOLEAN /\ stack[i].level \in 1..Primary
          /\ stack[i].opnd.kind = "temp" => stack[i].opnd.id \in 1..(next - 1)
    /\ nodes \in 0..MaxNodes /\ next \in Nat

(* An expression that GoLite gives a type passes TypeCheck, and GetType    *)
(* answers that type: no program is refused for its expressions.           *)
TypedIsAccepted ==
    \A i \in DOMAIN stack : stack[i].real # "none" => stack[i].ok /\ stack[i].ty = stack[i].real

(* A statement is accepted only if the language gives its expressions the  *)
(* types it needs, apart from what the checks are known to leave out:      *)
(* operands of unary operators, arguments, the left side of a second       *)
(* comparison, nil beside a number, and expressions whose check is not     *)
(* asked for.                                                              *)
AcceptedIsTyped == stm.typed \/ stm.lax # {}

(* The code of a well-typed statement takes the value the statement means  *)
(* to the place it means and changes nothing else, or fails on nil exactly *)
(* where it has to (with both sides of && and || always evaluated).        *)
ComputesTheStatement ==
    stm.kind # "none" /\ stm.typed =>
        LET final == Execute(memory, code)
            place == IF stm.path = <<>> THEN [val |-> 0, trap |-> FALSE]
                     ELSE Reached(stm.target, Front(stm.path))
            address == place.val + (IF stm.path = <<>> THEN 0 ELSE Offset(Last(stm.path)))
            fails == \/ stm.trap \/ place.trap
                     \/ stm.path # <<>> /\ address \notin DOMAIN memory.heap
        IN  IF fails THEN final.trap
            ELSE /\ ~final.trap
                 /\ stm.kind # "assignment" => final.out = stm.effect
                 /\ final.vars = [v \in Names |-> IF v = stm.target /\ stm.path = <<>>
                                                  THEN stm.effect ELSE memory.vars[v]]
                 /\ final.heap = [a \in DOMAIN memory.heap |->
                                     IF stm.path # <<>> /\ a = address
                                     THEN stm.effect ELSE memory.heap[a]]

(* Every temporary is assigned once, and before it is used: the registers  *)
(* RegisterGen hands out in one order are put into instructions in another.*)
AssignedOnce ==
    \A k \in DOMAIN code :
        /\ code[k].dest.id > 0 =>
              \A j \in 1..(k - 1) : code[j].dest.id # code[k].dest.id
        /\ \A i \in DOMAIN code[k].args :
              code[k].args[i].kind = "temp" =>
                 \E j \in 1..(k - 1) : code[j].dest.id = code[k].args[i].id

(* LLVM agrees with the types in the text of a well-typed statement,       *)
(* except about booleans, which are i1 in one place and i64 in another,    *)
(* and about a nil on the left of a comparison.                            *)
AgreesOnPointersAndInts ==
    stm.kind # "none" /\ stm.typed =>
        \A k \in DOMAIN code : \A i \in IllTyped(code, k) :
            \/ code[k].args[i].ty \in {"bool", "i1", "unknown"}
            \/ code[k].op = "ICMP" /\ code[k].args[1].ty = "nil"
=============================================================================
