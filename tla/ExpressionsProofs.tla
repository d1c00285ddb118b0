-------------------------- MODULE ExpressionsProofs --------------------------
(***************************************************************************)
(* Expressions of any size over any of the operators.  The checks of ast/  *)
(* and the types of the language agree: what GoLite gives a type is        *)
(* accepted with that type, and what is accepted and has no type is named  *)
(* as a gap in the checks.  The code of what has a type is right: its      *)
(* registers are assigned once, its text is well typed apart from the two  *)
(* known ways, and running it does what the statement means.               *)
(***************************************************************************)
EXTENDS Expressions, WellFoundedInduction, SequenceTheorems, TLAPS

-----------------------------------------------------------------------------
(* Every non-empty set of naturals has a least element.                    *)
LEMMA LeastNat ==
    ASSUME NEW T, T \subseteq Nat, T # {}
    PROVE  \E m \in T : \A n \in T : m <= n
  <1>1. PICK m \in T : \A n \in T : ~ (<<n, m>> \in OpToRel(<, Nat))
    BY NatLessThanWellFounded, WFMin
  <1>2. \A n \in T : <<n, m>> \in OpToRel(<, Nat) <=> n < m
    BY DEF OpToRel
  <1>3. \A n \in T : ~ (n < m)
    BY <1>1, <1>2
  <1>4. \A n \in T : m <= n
    BY <1>3
  <1> QED
    BY <1>4

(* Induction over the numbers, stated of a set: one that holds 0 and the   *)
(* successor of what it holds has all naturals.                            *)
LEMMA AllNats ==
    ASSUME NEW S, 0 \in S, \A n \in Nat : n \in S => n + 1 \in S
    PROVE  \A n \in Nat : n \in S
  <1> SUFFICES ASSUME Nat \ S # {} PROVE FALSE
    OBVIOUS
  <1>1. PICK m \in Nat \ S : \A n \in Nat \ S : m <= n
    BY LeastNat
  <1>2. m # 0 /\ m - 1 \in Nat
    BY <1>1
  <1>3. m - 1 \in S
    BY <1>1, <1>2
  <1>4. (m - 1) + 1 = m
    BY <1>2
  <1> QED
    BY <1>1, <1>2, <1>3, <1>4

-----------------------------------------------------------------------------
(* What holds of every finished expression.  The two properties relate its *)
(* check to its type; they last under further operators because a chain    *)
(* that has a type has the type of its level, and its first expression,    *)
(* which ValidateBin looks at, has it too.                                 *)
Chain(e) ==
    /\ e.level \in {5, 6} => e.real \in {"int", "none"}
    /\ e.level \in 1..4 => e.real \in {"bool", "none"}
    /\ e.level \in {1, 2, 5, 6} /\ e.real # "none" => e.first = e.real
Sound(e) ==
    /\ e.real \in {"int", "bool", "nil", "S", "none"}
    /\ e.level \in 1..Primary
    /\ e.real # "none" => e.ok /\ e.ty = e.real
    /\ e.real = "none" => e.lax # {} \/ ~e.ok
    /\ Chain(e)
IsStack(s) == \E S : s \in Seq(S)
SoundStack(s) == IsStack(s) /\ \A i \in DOMAIN s : Sound(s[i])
SoundInv == SoundStack(stack) /\ AcceptedIsTyped

LEMMA TopIsSound ==
    ASSUME NEW s, SoundStack(s), s # <<>>
    PROVE  Sound(s[Len(s)]) /\ Len(s) \in Nat /\ Len(s) >= 1
  BY DEF SoundStack, IsStack

LEMMA Prefix ==
    ASSUME NEW S, NEW s \in Seq(S), NEW k \in 0..Len(s)
    PROVE  /\ SubSeq(s, 1, k) \in Seq(S)
           /\ Len(SubSeq(s, 1, k)) = k
           /\ \A i \in 1..k : SubSeq(s, 1, k)[i] = s[i]
  OBVIOUS

LEMMA Replaced ==
    ASSUME NEW s, IsStack(s), NEW n \in 0..Len(s), NEW e
    PROVE  LET t == Append(SubSeq(s, 1, Len(s) - n), e)
           IN  /\ IsStack(t) /\ Len(t) = Len(s) - n + 1
               /\ \A i \in DOMAIN t : t[i] = e \/ \E j \in DOMAIN s : t[i] = s[j]
  <1>1. PICK S : s \in Seq(S)
    BY DEF IsStack
  <1> DEFINE T == S \cup {e}
             kept == SubSeq(s, 1, Len(s) - n)
             t == Append(kept, e)
  <1>2. s \in Seq(T) /\ e \in T /\ Len(s) \in Nat /\ DOMAIN s = 1..Len(s)
    BY <1>1
  <1>3. /\ kept \in Seq(T) /\ Len(kept) = Len(s) - n
        /\ \A i \in 1..Len(kept) : kept[i] = s[i]
    <2>1. Len(s) - n \in 0..Len(s)
      BY <1>2
    <2> HIDE DEF T
    <2> QED
      BY <1>2, <2>1, Prefix
  <1> HIDE DEF kept, T
  <1>4. /\ t \in Seq(T) /\ Len(t) = Len(kept) + 1
        /\ \A i \in 1..Len(kept) : t[i] = kept[i]
        /\ t[Len(kept) + 1] = e
    BY <1>2, <1>3, AppendProperties
  <1>5. ASSUME NEW i \in DOMAIN t
        PROVE  t[i] = e \/ \E j \in DOMAIN s : t[i] = s[j]
    <2>1. i \in 1..(Len(kept) + 1) /\ Len(kept) \in Nat
      BY <1>2, <1>3, <1>4, <1>5
    <2>2. CASE i = Len(kept) + 1
      BY <1>4, <2>2
    <2>3. CASE i # Len(kept) + 1
      <3>1. i \in 1..Len(kept) /\ i \in DOMAIN s
        BY <1>2, <1>3, <2>1, <2>3
      <3> QED
        BY <3>1, <1>3, <1>4
    <2> QED
      BY <2>2, <2>3
  <1> QED
    BY <1>3, <1>4, <1>5 DEF IsStack, kept

LEMMA ReplacedStack ==
    ASSUME NEW s, SoundStack(s), NEW n \in 0..Len(s), NEW e, Sound(e)
    PROVE  SoundStack(Append(SubSeq(s, 1, Len(s) - n), e))
  <1> DEFINE t == Append(SubSeq(s, 1, Len(s) - n), e)
  <1>1. IsStack(s) /\ \A i \in DOMAIN s : Sound(s[i])
    BY DEF SoundStack
  <1>2. IsStack(t) /\ \A i \in DOMAIN t : t[i] = e \/ \E j \in DOMAIN s : t[i] = s[j]
    BY <1>1, Replaced
  <1> HIDE DEF t
  <1>3. SoundStack(t)
    BY <1>1, <1>2 DEF SoundStack
  <1> QED
    BY <1>3 DEF t

LEMMA LeafIsSound ==
    ASSUME NEW ty \in {"int", "bool", "nil", "S"}, NEW opnd, NEW val, NEW trap
    PROVE  Sound(Leaf(ty, opnd, val, trap))
  BY DEF Leaf, Expr, Sound, Chain, Primary

(* An operator joined to two sound expressions in the order the grammar    *)
(* allows makes a sound one (binary.go, ValidateBin).                      *)
Extends(op, left) == left.level = Level(op)
FirstType(op, left) == IF Extends(op, left) THEN left.first ELSE left.ty
Looseness(op, left, right) ==
    (IF Extends(op, left) /\ IsComparison(op) THEN {"chain"} ELSE {})
    \cup (IF "nil" \in {FirstType(op, left), right.ty} THEN {"nil"} ELSE {})

LEMMA BinaryIsSound ==
    ASSUME NEW op \in AllOps, NEW left, NEW right, NEW e,
           Sound(left), Sound(right),
           left.level >= Level(op), right.level > Level(op),
           e.first = FirstType(op, left),
           e.ty = IF Extends(op, left) THEN left.ty ELSE BinaryType(left.ty, op, right.ty),
           e.ok <=> left.ok /\ right.ok /\ Fits(e.first, op, right.ty),
           e.real = IF ~Typed(op, left.real, right.real) THEN "none"
                    ELSE IF op \in ArithmeticOps THEN "int" ELSE "bool",
           e.level = Level(op),
           e.lax = left.lax \cup right.lax
                   \cup IF Typed(op, left.real, right.real) THEN {}
                        ELSE Looseness(op, left, right)
    PROVE  Sound(e)
  <1> DEFINE extends == Extends(op, left)
             typed == Typed(op, left.real, right.real)
             firstTy == FirstType(op, left)
  <1>0. ~typed /\ ((extends /\ IsComparison(op)) \/ "nil" \in {firstTy, right.ty}) => e.lax # {}
    BY DEF Looseness
  <1>1. /\ Level(op) \in 1..6
        /\ Level(op) \in {5, 6} <=> op \in ArithmeticOps
        /\ Level(op) \in {3, 4} <=> IsComparison(op)
        /\ Level(op) \in {1, 2} <=> IsBoolOp(op)
        /\ op \in ArithmeticOps => OperandTypes(op) = {"int"}
        /\ IsBoolOp(op) => OperandTypes(op) = {"bool"}
        /\ IsComparison(op) => OperandTypes(op) \in {{"int"}, {"int", "S", "nil"}}
    BY DEF AllOps, Level, IsComparison, IsBoolOp, RelationalOps, EqualityOps,
           ArithmeticOps, OperandTypes
  <1>2. CASE typed
    <2>1. /\ left.real # "none" /\ right.real # "none"
          /\ left.ok /\ right.ok /\ left.ty = left.real /\ right.ty = right.real
          /\ {left.real, right.real} \subseteq OperandTypes(op)
          /\ left.real = right.real \/ "nil" \in {left.real, right.real}
      BY <1>1, <1>2 DEF Sound, Typed
    <2>2. ~(extends /\ IsComparison(op))
      BY <1>1, <2>1 DEF Sound, Chain, Extends
    <2>3. extends => left.first = left.real
      BY <1>1, <2>1, <2>2 DEF Sound, Chain, Extends
    <2>4. firstTy = left.real
      BY <2>1, <2>3 DEF FirstType
    <2>5. Fits(firstTy, op, right.ty) /\ Fits(left.ty, op, right.ty)
      BY <2>1, <2>4 DEF Fits
    <2>6. e.ty = e.real
      <3>1. CASE extends
        BY <1>1, <1>2, <2>1, <2>2, <3>1
      <3>2. CASE ~extends
        BY <1>2, <2>5, <3>2 DEF BinaryType
      <3> QED
        BY <3>1, <3>2
    <2>7. e.level \in 1..6 /\ e.real \in {"int", "bool"} /\ e.ok
      BY <1>1, <1>2, <2>1, <2>5
    <2>8. Chain(e)
      BY <1>1, <1>2, <2>1, <2>4, <2>7 DEF Chain
    <2> QED
      BY <2>6, <2>7, <2>8 DEF Sound, Primary
  <1>3. CASE ~typed
    <2>1. e.real = "none" /\ e.level \in 1..6
      BY <1>1, <1>3
    <2>2. ASSUME e.lax = {}, e.ok PROVE FALSE
      <3>1. /\ left.lax = {} /\ right.lax = {} /\ ~(extends /\ IsComparison(op))
            /\ "nil" \notin {firstTy, right.ty}
        BY <1>0, <1>3, <2>2
      <3>2. left.ok /\ right.ok /\ Fits(firstTy, op, right.ty)
        BY <2>2
      <3>3. /\ left.real # "none" /\ right.real # "none"
            /\ left.ty = left.real /\ right.ty = right.real
        BY <3>1, <3>2 DEF Sound
      <3>4. firstTy = left.real
        BY <1>1, <3>1, <3>3 DEF Sound, Chain, FirstType, Extends
      <3>5. left.real = right.real /\ right.real \in OperandTypes(op)
        BY <3>1, <3>2, <3>3, <3>4 DEF Fits
      <3> QED
        BY <1>3, <3>5 DEF Typed
    <2>3. e.lax # {} \/ ~e.ok
      BY <2>2
    <2>4. Chain(e)
      BY <2>1 DEF Chain
    <2> QED
      BY <2>1, <2>3, <2>4 DEF Sound, Primary
  <1> QED
    BY <1>2, <1>3

-----------------------------------------------------------------------------
LEMMA SoundInit == Init => SoundInv
  <1> SUFFICES ASSUME Init PROVE SoundInv
    OBVIOUS
  <1>1. stack = <<>> /\ stm.typed
    BY DEF Init, NoStatement
  <1>2. SoundStack(stack)
    BY <1>1, EmptySeq DEF SoundStack, IsStack
  <1> QED
    BY <1>1, <1>2 DEF SoundInv, AcceptedIsTyped

LEMMA SoundNext == SoundInv /\ [Next]_vars => SoundInv'
  <1> SUFFICES ASSUME SoundInv, [Next]_vars PROVE SoundInv'
    OBVIOUS
  <1> USE DEF SoundInv
  <1>1. Len(stack) \in Nat /\ 0 \in 0..Len(stack)
    BY DEF SoundStack, IsStack
  <1>2. stack # <<>> => Sound(Top) /\ Len(stack) \in Nat \ {0}
    BY TopIsSound DEF Top
  (* A new expression for some of the old ones.                            *)
  <1>3. ASSUME NEW n \in 0..Len(stack), NEW e, NEW instrs, NEW registers,
               Sound(e), Replace(n, e, instrs, registers)
        PROVE  SoundInv'
    <2>1. SoundStack(stack')
      BY <1>3, ReplacedStack DEF Replace
    <2> QED
      BY <1>3, <2>1 DEF Replace, AcceptedIsTyped
  (* A statement: its expression has the type it is accepted with, or the  *)
  (* statement is lax.                                                     *)
  <1>4. ASSUME NEW kind, NEW accepted, NEW typed, NEW instrs, NEW target, NEW path,
               Finish(kind, accepted, typed, instrs, target, path),
               accepted /\ Top.real # "none" => typed
        PROVE  SoundInv'
    <2>1. stack # <<>>
      BY <1>1, <1>4 DEF Finish
    <2>2. /\ stm'.typed = typed
          /\ stm'.lax = Top.lax \cup (IF Top.ok THEN {} ELSE {"unchecked"})
      BY <1>4 DEF Finish
    <2>3. typed \/ stm'.lax # {}
      BY <1>2, <1>4, <2>1, <2>2 DEF Sound, Finish
    <2> QED
      BY <1>4, <2>2, <2>3 DEF Finish, AcceptedIsTyped
  <1>5. CASE Literal
    <2>1. PICK l \in {<<2, "int">>, <<1, "bool">>, <<0, "nil">>} :
             Push(Leaf(l[2], Immediate(l[1], l[2]), l[1], FALSE), <<>>, 0)
      BY <1>5 DEF Literal
    <2>2. l[2] \in {"int", "bool", "nil", "S"}
      OBVIOUS
    <2>3. Sound(Leaf(l[2], Immediate(l[1], l[2]), l[1], FALSE))
      BY <2>2, LeafIsSound
    <2> QED
      BY <1>1, <1>3, <2>1, <2>3 DEF Push
  <1>6. ASSUME NEW v \in Operands, VariableExpr(v) PROVE SoundInv'
    <2> DEFINE e == Leaf(GetType[v], Temp(next, GetType[v]), memory.vars[v], FALSE)
    <2>1. GetType[v] \in {"int", "bool", "S"}
      BY <1>6 DEF GetType, Operands, Names
    <2>2. Sound(e)
      BY <2>1, LeafIsSound
    <2> QED
      BY <1>1, <1>3, <1>6, <2>2 DEF VariableExpr, Push
  <1>7. ASSUME NEW path \in Paths, FieldExpr("p", path) PROVE SoundInv'
    <2> DEFINE ty == FieldType(Last(path))
               found == Reached("p", path)
               e == Leaf(ty, Temp(next + 2 * Len(path), ty), found.val, found.trap)
    <2>1. Sound(e)
      BY LeafIsSound DEF FieldType
    <2> QED
      BY <1>1, <1>3, <1>7, <2>1 DEF FieldExpr, Push
  <1>8. CASE New
    <2>1. Sound(Leaf("S", Temp(next + 1, "S"), NewObject, FALSE))
      BY LeafIsSound
    <2> QED
      BY <1>1, <1>3, <1>8, <2>1 DEF New, Push
  <1>9. ASSUME NEW fn \in {"g", "h"}, Invocation(fn) PROVE SoundInv'
    <2> DEFINE typed == Top.real = "int"
               e == Expr(FunctionType(fn), TRUE, IF typed THEN FunctionType(fn) ELSE "none",
                         Temp(next, "unknown"), Called(fn, Top.val), Top.trap,
                         IF typed THEN Top.lax ELSE {"argument"}, Primary)
    <2>1. stack # <<>> /\ 1 \in 0..Len(stack)
      BY <1>2, <1>9 DEF Invocation
    <2>2. Sound(e)
      BY DEF Expr, Sound, Chain, Primary, FunctionType
    <2> QED
      BY <1>3, <1>9, <2>1, <2>2 DEF Invocation
  <1>10. CASE Parenthesised
    <2> DEFINE e == Expr(Top.ty, Top.ok, Top.real, Top.opnd, Top.val, Top.trap,
                         Top.lax, Primary)
    <2>1. stack # <<>> /\ 1 \in 0..Len(stack)
      BY <1>2, <1>10 DEF Parenthesised
    <2>2. Sound(e)
      BY <1>2, <2>1 DEF Expr, Sound, Chain, Primary
    <2> QED
      BY <1>3, <1>10, <2>1, <2>2 DEF Parenthesised
  <1>11. ASSUME NEW op \in {"-", "!"}, UnaryExpr(op) PROVE SoundInv'
    <2> DEFINE in == UnaryCode(op, Top)
               typed == Top.real = IF op = "-" THEN "int" ELSE "bool"
               e == Expr(Top.ty, UnaryTypeCheck(Top), IF typed THEN Top.real ELSE "none",
                         in.dest, IF op = "-" THEN -Top.val ELSE 1 - Top.val, Top.trap,
                         IF typed THEN Top.lax ELSE {"unary"}, Unary)
    <2>1. stack # <<>> /\ 1 \in 0..Len(stack)
      BY <1>2, <1>11 DEF UnaryExpr
    <2>2. Sound(e)
      BY <1>2, <2>1 DEF Expr, Sound, Chain, Primary, Unary, UnaryTypeCheck
    <2> QED
      BY <1>3, <1>11, <2>1, <2>2 DEF UnaryExpr
  <1>12. ASSUME NEW op \in Ops, BinaryExpr(op) PROVE SoundInv'
    <2> DEFINE left == stack[Len(stack) - 1]
               extends == left.level = Level(op)
               typed == Typed(op, left.real, Top.real)
               in == BinaryCode(op, left.opnd, Top.opnd)
               ty == IF extends THEN left.ty ELSE BinaryType(left.ty, op, Top.ty)
               firstTy == IF extends THEN left.first ELSE left.ty
               looseness == (IF extends /\ IsComparison(op) THEN {"chain"} ELSE {})
                            \cup (IF "nil" \in {firstTy, Top.ty} THEN {"nil"} ELSE {})
               e == [Expr(ty, left.ok /\ Top.ok /\ Fits(firstTy, op, Top.ty),
                          IF ~typed THEN "none"
                          ELSE IF op \in ArithmeticOps THEN "int" ELSE "bool",
                          Last(in).dest, Meaning(op, left.val, Top.val),
                          left.trap \/ Top.trap,
                          left.lax \cup Top.lax \cup (IF typed THEN {} ELSE looseness),
                          Level(op))
                     EXCEPT !.first = firstTy]
    <2>1. /\ left.level >= Level(op) /\ Top.level > Level(op)
          /\ Replace(2, e, in, Registers(op, Top.opnd))
          /\ Len(stack) >= 2
      BY <1>12 DEF BinaryExpr
    <2>2. 2 \in 0..Len(stack) /\ Len(stack) - 1 \in DOMAIN stack /\ stack # <<>>
      BY <1>1, <2>1 DEF SoundStack, IsStack
    <2>3. Sound(left) /\ Sound(Top)
      BY <1>2, <2>2 DEF SoundStack
    <2>4. /\ e.first = FirstType(op, left)
          /\ e.ty = IF Extends(op, left) THEN left.ty ELSE BinaryType(left.ty, op, Top.ty)
          /\ e.ok <=> left.ok /\ Top.ok /\ Fits(e.first, op, Top.ty)
          /\ e.real = IF ~Typed(op, left.real, Top.real) THEN "none"
                      ELSE IF op \in ArithmeticOps THEN "int" ELSE "bool"
          /\ e.level = Level(op)
          /\ e.lax = left.lax \cup Top.lax
                     \cup IF Typed(op, left.real, Top.real) THEN {}
                          ELSE Looseness(op, left, Top)
      BY DEF Expr, FirstType, Extends, Looseness
    <2>5. op \in AllOps
      BY OpsAssumption
    <2>8. Sound(e)
      <3> HIDE DEF e, left
      <3> QED
        BY <2>1, <2>3, <2>4, <2>5, BinaryIsSound
    <2> QED
      BY <1>3, <2>1, <2>2, <2>8
  <1>13. stack # <<>> /\ Top.real # "none" => Top.ty = Top.real
    BY <1>2 DEF Sound
  <1>14. ASSUME NEW v, NEW path, Assignment(v, path) PROVE SoundInv'
    <2>1. PICK lType, instrs :
             Finish("assignment", Top.ok /\ Assignable(Top.ty, lType),
                    Assignable(Top.real, lType), instrs, v, path)
      BY <1>14, Zenon DEF Assignment
    <2>2. stack # <<>>
      BY <1>14, Zenon DEF Assignment
    <2>3. Top.ok /\ Assignable(Top.ty, lType) /\ Top.real # "none" => Assignable(Top.real, lType)
      BY <1>13, <2>2
    <2> QED
      BY <1>4, <2>1, <2>3, Zenon
  <1>15. CASE Return
    BY <1>4, <1>13, <1>15 DEF Return
  <1>16. CASE PrintStatement
    BY <1>4, <1>13, <1>16 DEF PrintStatement
  <1>17. CASE Delete
    <2>1. stack # <<>>
      BY <1>17 DEF Delete
    <2>2. Top.ty \notin {"nil", "bool", "int"} /\ Top.real # "none" => Top.real = "S"
      BY <1>2, <1>13, <2>1 DEF Sound
    <2> QED
      BY <1>4, <1>17, <2>2 DEF Delete
  <1>18. ASSUME NEW kind \in {"if", "for"}, Condition(kind) PROVE SoundInv'
    BY <1>4, <1>13, <1>18 DEF Condition
  <1>19. CASE UNCHANGED vars
    BY <1>19 DEF vars, AcceptedIsTyped
  <1> QED
    BY <1>5, <1>6, <1>7, <1>8, <1>9, <1>10, <1>11, <1>12, <1>14, <1>15, <1>16, <1>17,
       <1>18, <1>19 DEF Next

LEMMA SoundAlways == Spec => []SoundInv
  BY SoundInit, SoundNext, PTL DEF Spec

(* What GoLite gives a type is accepted, with that type, however large the *)
(* expression and whatever its operators: ValidateBin (binary.go) and the  *)
(* TypeCheck of the nodes refuse no well-typed program.                    *)
THEOREM TypedExpressionsAccepted == Spec => []TypedIsAccepted
  <1>1. SoundInv => TypedIsAccepted
    BY DEF SoundInv, SoundStack, Sound, TypedIsAccepted
  <1> QED
    BY <1>1, SoundAlways, PTL

(* A statement that is accepted although the language gives it no type has *)
(* passed one of the five gaps the model names, and there is no sixth.     *)
THEOREM AcceptedStatementsTyped == Spec => []AcceptedIsTyped
  <1>1. SoundInv => AcceptedIsTyped
    BY DEF SoundInv
  <1> QED
    BY <1>1, SoundAlways, PTL

-----------------------------------------------------------------------------
(* Types, and the register an operand is in: it has been handed out.       *)
WellFormed(e, n) ==
    /\ e.ty \in Types /\ e.ok \in BOOLEAN
    /\ e.opnd.kind = "temp" => e.opnd.id \in 1..(n - 1)
WellFormedStack(s, n) == \A i \in DOMAIN s : WellFormed(s[i], n)
(* No expression is wider than its nodes: what is open can be joined.      *)
TypeInv ==
    /\ SoundInv
    /\ next \in Nat \ {0} /\ nodes \in 0..MaxNodes /\ nodes + Len(stack) <= MaxNodes + 1
    /\ WellFormedStack(stack, next)

LEMMA ReplacedTypes ==
    ASSUME NEW s, IsStack(s), NEW k \in Nat, NEW m \in Nat, k <= m, WellFormedStack(s, k),
           NEW n \in 0..Len(s), NEW e, WellFormed(e, m)
    PROVE  LET t == Append(SubSeq(s, 1, Len(s) - n), e)
           IN  WellFormedStack(t, m) /\ Len(t) = Len(s) - n + 1
  <1> DEFINE t == Append(SubSeq(s, 1, Len(s) - n), e)
  <1>1. /\ Len(t) = Len(s) - n + 1
        /\ \A i \in DOMAIN t : t[i] = e \/ \E j \in DOMAIN s : t[i] = s[j]
    BY Replaced
  <1> HIDE DEF t
  <1>2. \A j \in DOMAIN s : WellFormed(s[j], m)
    BY DEF WellFormedStack, WellFormed
  <1>3. WellFormedStack(t, m)
    BY <1>1, <1>2 DEF WellFormedStack
  <1> QED
    BY <1>1, <1>3 DEF t

LEMMA ExprFormed ==
    ASSUME NEW ty \in Types, NEW ok \in BOOLEAN, NEW real, NEW opnd, NEW val, NEW trap,
           NEW lax, NEW level, NEW m, opnd.kind = "temp" => opnd.id \in 1..(m - 1)
    PROVE  WellFormed(Expr(ty, ok, real, opnd, val, trap, lax, level), m)
  <1> DEFINE e == Expr(ty, ok, real, opnd, val, trap, lax, level)
  <1>1. e.ty = ty /\ e.ok = ok /\ e.opnd = opnd
    BY Zenon DEF Expr
  <1> HIDE DEF e
  <1>2. WellFormed(e, m)
    BY <1>1, Zenon DEF WellFormed
  <1> QED
    BY <1>2 DEF e

LEMMA TypeInit == Init => TypeInv
  <1> SUFFICES ASSUME Init PROVE TypeInv
    OBVIOUS
  <1>1. stack = <<>> /\ next = 1 /\ nodes = 0
    BY DEF Init
  <1> QED
    BY <1>1, SoundInit, MaxNodesAssumption DEF TypeInv, WellFormedStack

(* The operand of a binary operator's result, whether its sides are        *)
(* selected or not.                                                        *)
LEMMA BinaryOperand ==
    ASSUME next \in Nat, NEW op \in AllOps, NEW left, NEW right
    PROVE  LET in == BinaryCode(op, left, right)
               dest == Last(in).dest
           IN  /\ dest.kind = "temp" /\ dest.id = next + Registers(op, right) - 1
               /\ Registers(op, right) \in 1..3
               /\ dest = Temp(next + Registers(op, right) - 1,
                              IF IsComparison(op) THEN "i1" ELSE "i64")
  <1> DEFINE in == BinaryCode(op, left, right)
             k == Registers(op, right)
             id == next + k - 1
  <1>1. k \in 1..3
    BY DEF Registers, Bit
  <1>2. \A ty : Temp(id, ty).kind = "temp" /\ Temp(id, ty).id = id
    BY DEF Temp
  <1>3. CASE IsComparison(op)
    <2>1. in = <<ICMP(Temp(id, "i1"), ToLLVMCondCode(op), ComparedAs(left), left, right)>>
      BY <1>3 DEF BinaryCode
    <2>2. Last(in).dest = Temp(id, "i1")
      BY <2>1 DEF Last, ICMP, Instr
    <2> QED
      BY <1>1, <1>2, <1>3, <2>2
  <1>4. CASE ~IsComparison(op)
    <2> DEFINE a == IF SelectsLeft(op, left) THEN Select(Temp(next, "i64"), left, "i64").dest
                    ELSE left
               b == IF SelectsRight(op, right)
                    THEN Select(Temp(next + 1, "i64"), right, "i64").dest ELSE right
               last == BinOp(Temp(id, "i64"), ToLLVMBinOpTy(op), a, b)
               before == (IF SelectsLeft(op, left)
                          THEN <<Select(Temp(next, "i64"), left, "i64")>> ELSE <<>>)
                         \o (IF SelectsRight(op, right)
                             THEN <<Select(Temp(next + 1, "i64"), right, "i64")>> ELSE <<>>)
    <2>1. in = before \o <<last>>
      BY <1>4 DEF BinaryCode
    <2>2. PICK S : before \in Seq(S) /\ last \in S
      <3> DEFINE S == {Select(Temp(next, "i64"), left, "i64"),
                       Select(Temp(next + 1, "i64"), right, "i64"), last}
      <3>1. /\ <<Select(Temp(next, "i64"), left, "i64")>> \in Seq(S) /\ <<>> \in Seq(S)
            /\ <<Select(Temp(next + 1, "i64"), right, "i64")>> \in Seq(S)
        OBVIOUS
      <3>2. before \in Seq(S)
        <4> HIDE DEF S
        <4> QED
          BY <3>1
      <3> QED
        BY <3>2
    <2>3. last.dest = Temp(id, "i64")
      BY DEF BinOp, Instr
    <2> HIDE DEF before, last
    <2>4. before \o <<last>> = Append(before, last) /\ Len(before) \in Nat
      BY <2>2
    <2>5. Last(in) = last
      BY <2>1, <2>2, <2>4, AppendProperties DEF Last
    <2> QED
      BY <1>1, <1>2, <1>4, <2>3, <2>5
  <1> QED
    BY <1>3, <1>4

LEMMA TypeNext == TypeInv /\ [Next]_vars => TypeInv'
  <1> SUFFICES ASSUME TypeInv, [Next]_vars PROVE TypeInv'
    OBVIOUS
  <1>1. /\ IsStack(stack) /\ Len(stack) \in Nat /\ DOMAIN stack = 1..Len(stack)
        /\ 0 \in 0..Len(stack)
    BY DEF TypeInv, SoundInv, SoundStack, IsStack
  <1>2. stack # <<>> => /\ WellFormed(Top, next) /\ Sound(Top)
                        /\ Len(stack) \in Nat \ {0} /\ 1 \in 0..Len(stack)
    <2>1. stack # <<>> => Sound(Top) /\ Len(stack) \in Nat \ {0}
      BY TopIsSound DEF Top, TypeInv, SoundInv
    <2> QED
      BY <1>1, <2>1 DEF TypeInv, WellFormedStack, Top
  <1>3. SoundInv'
    BY SoundNext DEF TypeInv
  <1>4. ASSUME NEW n \in 0..Len(stack), NEW e, NEW instrs, NEW registers \in Nat,
               WellFormed(e, next + registers), Replace(n, e, instrs, registers),
               nodes + Len(stack) < MaxNodes \/ (n = 2 /\ Len(stack) >= 2)
        PROVE  TypeInv'
    <2>1. stack' = Append(SubSeq(stack, 1, Len(stack) - n), e)
      BY <1>4 DEF Replace
    <2>2. nodes' = nodes + 1 /\ next' = next + registers
      BY <1>4 DEF Replace, Emit
    <2>3. /\ next \in Nat \ {0} /\ next + registers \in Nat /\ next <= next + registers
          /\ WellFormedStack(stack, next)
      BY <1>4 DEF TypeInv
    <2>4. WellFormedStack(stack', next') /\ Len(stack') = Len(stack) - n + 1
      BY <1>1, <1>4, <2>1, <2>2, <2>3, ReplacedTypes
    <2>5. nodes' \in 0..MaxNodes /\ nodes' + Len(stack') <= MaxNodes + 1
      BY <1>1, <1>4, <2>2, <2>4, MaxNodesAssumption DEF TypeInv
    <2> QED
      BY <1>3, <2>2, <2>3, <2>4, <2>5 DEF TypeInv
  <1>5. ASSUME NEW kind, NEW accepted, NEW typed, NEW instrs, NEW target, NEW path,
               Finish(kind, accepted, typed, instrs, target, path)
        PROVE  TypeInv'
    <2>1. UNCHANGED <<stack, nodes>> /\ next' = next + 0
      BY <1>5 DEF Finish, Emit
    <2> QED
      BY <1>3, <2>1 DEF TypeInv, WellFormedStack
  <1>6. ASSUME NEW ty \in Types, NEW opnd, NEW val, NEW trap, NEW instrs, NEW registers \in Nat,
               opnd.kind = "temp" => opnd.id \in 1..((next + registers) - 1),
               Open, Push(Leaf(ty, opnd, val, trap), instrs, registers)
        PROVE  TypeInv'
    <2>1. WellFormed(Leaf(ty, opnd, val, trap), next + registers)
      BY <1>6, ExprFormed DEF Leaf
    <2> QED
      BY <1>1, <1>4, <1>6, <2>1 DEF Push, Open
  <1>7. next \in Nat \ {0}
    BY DEF TypeInv
  <1>8. CASE Literal
    <2>1. PICK l \in {<<2, "int">>, <<1, "bool">>, <<0, "nil">>} :
             Open /\ Push(Leaf(l[2], Immediate(l[1], l[2]), l[1], FALSE), <<>>, 0)
      BY <1>8 DEF Literal
    <2>2. l[2] \in Types /\ Immediate(l[1], l[2]).kind = "imm"
      BY DEF Types, Immediate
    <2> QED
      BY <1>6, <2>1, <2>2
  <1>9. ASSUME NEW v \in Operands, VariableExpr(v) PROVE TypeInv'
    <2> DEFINE t == Temp(next, GetType[v])
    <2>1. GetType[v] \in Types
      BY <1>9 DEF GetType, Operands, Names, Types
    <2>2. t.id \in 1..((next + 1) - 1)
      BY <1>7 DEF Temp
    <2>3. PICK instrs : Open /\ Push(Leaf(GetType[v], t, memory.vars[v], FALSE), instrs, 1)
      BY <1>9 DEF VariableExpr
    <2> HIDE DEF t
    <2> QED
      BY <1>6, <2>1, <2>2, <2>3
  <1>10. ASSUME NEW path \in Paths, FieldExpr("p", path) PROVE TypeInv'
    <2> DEFINE ty == FieldType(Last(path))
               t == Temp(next + 2 * Len(path), ty)
               found == Reached("p", path)
    <2>1. Len(path) \in {1, 2}
      BY DEF Paths
    <2>2. ty \in Types
      BY DEF FieldType, Types
    <2>3. t.id \in 1..((next + (2 * Len(path) + 1)) - 1) /\ 2 * Len(path) + 1 \in Nat
      BY <1>7, <2>1 DEF Temp
    <2>4. PICK instrs :
             Open /\ Push(Leaf(ty, t, found.val, found.trap), instrs, 2 * Len(path) + 1)
      BY <1>10 DEF FieldExpr
    <2> HIDE DEF t, ty, found
    <2> QED
      BY <1>6, <2>2, <2>3, <2>4
  <1>11. CASE New
    <2> DEFINE t == Temp(next + 1, "S")
    <2>1. t.id \in 1..((next + 2) - 1)
      BY <1>7 DEF Temp
    <2>2. PICK instrs : Open /\ Push(Leaf("S", t, NewObject, FALSE), instrs, 2)
      BY <1>11 DEF New
    <2>3. "S" \in Types
      BY DEF Types
    <2> HIDE DEF t
    <2> QED
      BY <1>6, <2>1, <2>2, <2>3
  <1>13. ASSUME NEW fn \in {"g", "h"}, Invocation(fn) PROVE TypeInv'
    <2> DEFINE typed == Top.real = "int"
               e == Expr(FunctionType(fn), TRUE, IF typed THEN FunctionType(fn) ELSE "none",
                         Temp(next, "unknown"), Called(fn, Top.val), Top.trap,
                         IF typed THEN Top.lax ELSE {"argument"}, Primary)
    <2>1. PICK instrs : Open /\ stack # <<>> /\ Replace(1, e, instrs, 1)
      BY <1>13 DEF Invocation
    <2>2. FunctionType(fn) \in Types /\ Temp(next, "unknown").id \in 1..((next + 1) - 1)
      BY <1>7 DEF FunctionType, Types, Temp
    <2>3. WellFormed(e, next + 1)
      BY <2>2, ExprFormed
    <2> HIDE DEF e
    <2> QED
      BY <1>2, <1>4, <2>1, <2>3 DEF Open
  <1>14. CASE Parenthesised
    <2> DEFINE e == Expr(Top.ty, Top.ok, Top.real, Top.opnd, Top.val, Top.trap,
                         Top.lax, Primary)
    <2>1. Open /\ stack # <<>> /\ Replace(1, e, <<>>, 0)
      BY <1>14 DEF Parenthesised
    <2>2. WellFormed(e, next + 0)
      BY <1>2, <1>7, <2>1 DEF WellFormed, Expr
    <2> HIDE DEF e
    <2> QED
      BY <1>2, <1>4, <2>1, <2>2 DEF Open
  <1>15. ASSUME NEW op \in {"-", "!"}, UnaryExpr(op) PROVE TypeInv'
    <2> DEFINE in == UnaryCode(op, Top)
               typed == Top.real = IF op = "-" THEN "int" ELSE "bool"
               e == Expr(Top.ty, UnaryTypeCheck(Top), IF typed THEN Top.real ELSE "none",
                         in.dest, IF op = "-" THEN -Top.val ELSE 1 - Top.val, Top.trap,
                         IF typed THEN Top.lax ELSE {"unary"}, Unary)
    <2>1. PICK instrs : Open /\ stack # <<>> /\ Replace(1, e, instrs, 1)
      BY <1>15 DEF UnaryExpr
    <2>2. in.dest \in {Temp(next, "i64"), Temp(next, "i1")}
      BY DEF UnaryCode, BinOp, ICMP, Instr
    <2>3. in.dest.id = next
      <3> HIDE DEF in
      <3>1. \A ty : Temp(next, ty).id = next
        BY DEF Temp
      <3> QED
        BY <2>2, <3>1
    <2>4. WellFormed(e, next + 1)
      <3> HIDE DEF in
      <3> QED
        BY <1>2, <1>7, <2>1, <2>3 DEF WellFormed, Expr, UnaryTypeCheck
    <2> HIDE DEF e
    <2> QED
      BY <1>2, <1>4, <2>1, <2>4 DEF Open
  <1>16. ASSUME NEW op \in Ops, BinaryExpr(op) PROVE TypeInv'
    <2> DEFINE left == stack[Len(stack) - 1]
               extends == left.level = Level(op)
               typed == Typed(op, left.real, Top.real)
               in == BinaryCode(op, left.opnd, Top.opnd)
               ty == IF extends THEN left.ty ELSE BinaryType(left.ty, op, Top.ty)
               firstTy == IF extends THEN left.first ELSE left.ty
               looseness == (IF extends /\ IsComparison(op) THEN {"chain"} ELSE {})
                            \cup (IF "nil" \in {firstTy, Top.ty} THEN {"nil"} ELSE {})
               e == [Expr(ty, left.ok /\ Top.ok /\ Fits(firstTy, op, Top.ty),
                          IF ~typed THEN "none"
                          ELSE IF op \in ArithmeticOps THEN "int" ELSE "bool",
                          Last(in).dest, Meaning(op, left.val, Top.val),
                          left.trap \/ Top.trap,
                          left.lax \cup Top.lax \cup (IF typed THEN {} ELSE looseness),
                          Level(op))
                     EXCEPT !.first = firstTy]
               k == Registers(op, Top.opnd)
    <2>1. Replace(2, e, in, k) /\ Len(stack) >= 2
      BY <1>16 DEF BinaryExpr
    <2>2. 2 \in 0..Len(stack) /\ Len(stack) - 1 \in DOMAIN stack /\ stack # <<>>
      BY <1>1, <2>1
    <2>3. WellFormed(left, next) /\ WellFormed(Top, next)
      BY <1>2, <2>2 DEF TypeInv, WellFormedStack
    <2>4. op \in AllOps
      BY OpsAssumption
    <2>5. /\ Last(in).dest.kind = "temp" /\ Last(in).dest.id = next + k - 1
          /\ k \in 1..3
      BY <1>7, <2>4, BinaryOperand
    <2>6. /\ e.ty = ty
          /\ e.ok = (left.ok /\ Top.ok /\ Fits(firstTy, op, Top.ty))
          /\ e.opnd = Last(in).dest
      BY DEF Expr
    <2>7. ty \in Types
      BY <2>3 DEF BinaryType, WellFormed, Types
    <2>8. e.ok \in BOOLEAN
      BY <2>6, Zenon
    <2>9. WellFormed(e, next + k)
      <3> HIDE DEF e, in, k, ty
      <3>1. e.opnd.id \in 1..((next + k) - 1)
        BY <1>7, <2>5, <2>6
      <3>2. e.ty \in Types
        BY <2>6, <2>7
      <3> QED
        BY <2>8, <3>1, <3>2, Zenon DEF WellFormed
    <2>10. k \in Nat
      BY <2>5
    <2> HIDE DEF e, in, k
    <2> QED
      BY <1>4, <2>1, <2>2, <2>9, <2>10
  <1>17. ASSUME NEW v, NEW path, Assignment(v, path) PROVE TypeInv'
    BY <1>5, <1>17, Zenon DEF Assignment
  <1>18. CASE Return
    BY <1>5, <1>18, Zenon DEF Return
  <1>19. CASE PrintStatement
    BY <1>5, <1>19, Zenon DEF PrintStatement
  <1>20. CASE Delete
    BY <1>5, <1>20, Zenon DEF Delete
  <1>21. ASSUME NEW kind \in {"if", "for"}, Condition(kind) PROVE TypeInv'
    BY <1>5, <1>21, Zenon DEF Condition
  <1>22. CASE UNCHANGED vars
    BY <1>3, <1>22 DEF vars, TypeInv, WellFormedStack
  <1> QED
    BY <1>8, <1>9, <1>10, <1>11, <1>13, <1>14, <1>15, <1>16, <1>17, <1>18, <1>19, <1>20,
       <1>21, <1>22 DEF Next

(* Every operand the code uses is in a register RegisterGen has handed     *)
(* out, and what a node answers as its type is one of types.go.            *)
THEOREM ExpressionTypes == Spec => []TypeOK
  <1>1. TypeInv => TypeOK
    BY DEF TypeInv, SoundInv, SoundStack, Sound, WellFormedStack, WellFormed, TypeOK, Types
  <1> QED
    BY <1>1, TypeInit, TypeNext, PTL DEF Spec

-----------------------------------------------------------------------------
(* Running code: f holds the machines after the first n instructions of c. *)
Computes(f, m, c, n) ==
    f = [k \in 0..n |-> IF k = 0 THEN m ELSE Exec(f[k - 1], c[k])]

LEMMA ComputesExists ==
    ASSUME NEW m, NEW c
    PROVE  \A n \in Nat : \E f : Computes(f, m, c, n)
  <1> DEFINE S == {n \in Nat : \E f : Computes(f, m, c, n)}
  <1>1. 0 \in S
    <2>1. Computes([k \in 0..0 |-> m], m, c, 0)
      BY DEF Computes
    <2> QED
      BY <2>1
  <1>2. ASSUME NEW n \in Nat, n \in S PROVE n + 1 \in S
    <2>1. PICK f : Computes(f, m, c, n)
      BY <1>2
    <2> DEFINE g == [k \in 0..(n + 1) |-> IF k <= n THEN f[k] ELSE Exec(f[n], c[n + 1])]
               h == [k \in 0..(n + 1) |-> IF k = 0 THEN m ELSE Exec(g[k - 1], c[k])]
    <2>2. ASSUME NEW k \in 0..(n + 1) PROVE g[k] = h[k]
      <3>1. CASE k = n + 1
        <4>1. k - 1 \in 0..(n + 1) /\ k - 1 = n /\ k # 0
          BY <3>1
        <4>2. g[k - 1] = f[n] /\ g[k] = Exec(f[n], c[k])
          BY <3>1, <4>1
        <4> QED
          BY <4>1, <4>2
      <3>2. CASE k # n + 1 /\ k # 0
        <4>1. k \in 0..n /\ k - 1 \in 0..n
          BY <3>2
        <4>2. g[k] = f[k] /\ g[k - 1] = f[k - 1] /\ h[k] = Exec(g[k - 1], c[k])
          BY <3>2, <4>1
        <4> HIDE DEF g, h
        <4>3. f[k] = Exec(f[k - 1], c[k])
          BY <2>1, <3>2, <4>1 DEF Computes
        <4> QED
          BY <4>2, <4>3
      <3>3. CASE k = 0
        <4>1. 0 \in 0..n
          OBVIOUS
        <4>2. f[0] = m
          BY <2>1, <4>1 DEF Computes
        <4> QED
          BY <3>3, <4>2
      <3> QED
        BY <3>1, <3>2, <3>3
    <2>3. g = h
      BY <2>2
    <2>4. Computes(g, m, c, n + 1)
      BY <2>3 DEF Computes
    <2> QED
      BY <2>4
  <1> HIDE DEF S
  <1>3. \A n \in Nat : n \in S
    BY <1>1, <1>2, AllNats
  <1> QED
    BY <1>3 DEF S

(* The machines after common beginnings are the same.                      *)
LEMMA ComputesSame ==
    ASSUME NEW m, NEW c, NEW d, NEW n \in Nat, NEW p \in Nat, n <= p,
           \A k \in 1..n : c[k] = d[k],
           NEW f, NEW g, Computes(f, m, c, n), Computes(g, m, d, p)
    PROVE  f[n] = g[n]
  <1> DEFINE S == {k \in Nat : k <= n => f[k] = g[k]}
  <1>1. 0 \in S
    <2>1. 0 \in 0..n /\ 0 \in 0..p
      OBVIOUS
    <2>2. f[0] = m /\ g[0] = m
      BY <2>1 DEF Computes
    <2> QED
      BY <2>2
  <1>2. ASSUME NEW k \in Nat, k \in S PROVE k + 1 \in S
    <2> SUFFICES ASSUME k + 1 <= n PROVE f[k + 1] = g[k + 1]
      OBVIOUS
    <2>1. /\ k + 1 \in 0..n /\ k + 1 \in 0..p /\ k + 1 \in 1..n
          /\ (k + 1) - 1 = k /\ k + 1 # 0
      OBVIOUS
    <2>2. f[k + 1] = Exec(f[k], c[k + 1]) /\ g[k + 1] = Exec(g[k], d[k + 1])
      BY <2>1 DEF Computes
    <2>3. f[k] = g[k] /\ c[k + 1] = d[k + 1]
      BY <1>2, <2>1
    <2> QED
      BY <2>2, <2>3
  <1> HIDE DEF S
  <1>3. \A k \in Nat : k \in S
    BY <1>1, <1>2, AllNats
  <1> QED
    BY <1>3 DEF S

LEMMA ExecuteComputes ==
    ASSUME NEW m, NEW c, Len(c) \in Nat
    PROVE  \E f : Computes(f, m, c, Len(c)) /\ Execute(m, c) = f[Len(c)]
  <1> DEFINE f == CHOOSE f : f = [k \in 0..Len(c) |-> IF k = 0 THEN m ELSE Exec(f[k - 1], c[k])]
  <1>1. \E g : g = [k \in 0..Len(c) |-> IF k = 0 THEN m ELSE Exec(g[k - 1], c[k])]
    <2>1. PICK g : Computes(g, m, c, Len(c))
      BY ComputesExists
    <2> QED
      BY <2>1 DEF Computes
  <1>2. f = [k \in 0..Len(c) |-> IF k = 0 THEN m ELSE Exec(f[k - 1], c[k])]
    BY <1>1
  <1>3. Execute(m, c) = f[Len(c)]
    BY DEF Execute
  <1> HIDE DEF f
  <1> QED
    BY <1>2, <1>3 DEF Computes

IsCode(c) == \E S : c \in Seq(S)

(* What Append does to code.                                               *)
LEMMA Appended ==
    ASSUME NEW c, IsCode(c), NEW in
    PROVE  /\ IsCode(Append(c, in)) /\ Len(c) \in Nat
           /\ Len(Append(c, in)) = Len(c) + 1
           /\ DOMAIN c = 1..Len(c) /\ DOMAIN Append(c, in) = 1..(Len(c) + 1)
           /\ \A k \in 1..Len(c) : Append(c, in)[k] = c[k]
           /\ Append(c, in)[Len(c) + 1] = in
  <1>1. PICK S : c \in Seq(S)
    BY DEF IsCode
  <1>2. c \in Seq(S \cup {in})
    BY <1>1
  <1>3. Append(c, in) \in Seq(S \cup {in})
    BY <1>2
  <1> QED
    BY <1>2, <1>3, AppendProperties DEF IsCode

LEMMA ExecuteAppend ==
    ASSUME NEW m, NEW c, IsCode(c), NEW in
    PROVE  Execute(m, Append(c, in)) = Exec(Execute(m, c), in)
  <1> DEFINE d == Append(c, in)
             n == Len(c)
  <1>1. /\ n \in Nat /\ Len(d) = n + 1 /\ d[n + 1] = in
        /\ \A k \in 1..n : c[k] = d[k]
    BY Appended
  <1> HIDE DEF d
  <1>2. PICK f : Computes(f, m, c, n) /\ Execute(m, c) = f[n]
    BY <1>1, ExecuteComputes
  <1>3. PICK g : Computes(g, m, d, n + 1) /\ Execute(m, d) = g[n + 1]
    BY <1>1, ExecuteComputes
  <1> HIDE DEF n
  <1>4. f[n] = g[n]
    BY <1>1, <1>2, <1>3, ComputesSame
  <1>5. g[n + 1] = Exec(g[n], in)
    <2>1. n + 1 \in 0..(n + 1) /\ n + 1 # 0 /\ (n + 1) - 1 = n
      BY <1>1
    <2> QED
      BY <1>1, <1>3, <2>1 DEF Computes
  <1> QED
    BY <1>2, <1>3, <1>4, <1>5 DEF d

LEMMA ExecuteNothing ==
    ASSUME NEW m
    PROVE  Execute(m, <<>>) = m
  <1>1. Len(<<>>) = 0
    OBVIOUS
  <1>2. PICK f : Computes(f, m, <<>>, 0) /\ Execute(m, <<>>) = f[0]
    BY <1>1, ExecuteComputes
  <1>3. 0 \in 0..0
    OBVIOUS
  <1>4. f[0] = m
    BY <1>2, <1>3 DEF Computes
  <1> QED
    BY <1>2, <1>4

-----------------------------------------------------------------------------
(* Machines, and what single instructions do to them.                      *)
Heap == {100, 108, 200, 208}
Machines == [temps : [Registered -> Int], vars : [Names -> Int],
             heap : [Heap -> Int], trap : BOOLEAN, out : Int]
Value(m, o) == IF o.kind = "imm" THEN o.val ELSE m.temps[o.id]
Defining(m, id, x) == [m EXCEPT !.temps = [@ EXCEPT ![id] = x]]

(* in gives its register the value x.                                      *)
Yields(m, in, x) == Exec(m, in) = Defining(m, in.dest.id, x)

LEMMA ExecTrapped ==
    ASSUME NEW m, NEW in, m.trap
    PROVE  Exec(m, in) = m
  BY DEF Exec

LEMMA ExecBinOp ==
    ASSUME NEW m, ~m.trap, NEW dest, NEW op, NEW a, NEW b
    PROVE  LET in == BinOp(dest, op, a, b)
           IN  /\ Yields(m, in, Arithmetic(op, Value(m, a), Value(m, b)))
               /\ in.dest = dest /\ in.args = <<a, b>> /\ DOMAIN in.args = 1..2
               /\ ValueOperands(in) = 1..2
  BY DEF Yields, Exec, BinOp, Instr, Value, Defining, ValueOperands

LEMMA ExecICMP ==
    ASSUME NEW m, ~m.trap, NEW dest, NEW cc, NEW ty, NEW a, NEW b
    PROVE  LET in == ICMP(dest, cc, ty, a, b)
           IN  /\ Yields(m, in, Bit(Holds(cc, Value(m, a), Value(m, b))))
               /\ in.dest = dest /\ in.args = <<a, b>> /\ DOMAIN in.args = 1..2
               /\ ValueOperands(in) = 1..2
  BY DEF Yields, Exec, ICMP, Instr, Value, Defining, ValueOperands

LEMMA ExecSelect ==
    ASSUME NEW m, ~m.trap, NEW dest, NEW a, NEW ty
    PROVE  Yields(m, Select(dest, a, ty), IF Value(m, a) = 1 THEN 1 ELSE 0)
  <1> DEFINE in == Select(dest, a, ty)
  <1>1. /\ in.op = "Select" /\ in.dest = dest
        /\ in.args = <<a, One(ty), Zero(ty)>>
    BY DEF Select, Instr
  <1> HIDE DEF in
  <1>2. /\ DOMAIN in.args = 1..3 /\ in.args[1] = a
        /\ in.args[2] = One(ty) /\ in.args[3] = Zero(ty)
    BY <1>1
  <1>3. ValueOperands(in) = 1..3
    BY <1>1, <1>2 DEF ValueOperands
  <1>4. Value(m, in.args[2]) = 1 /\ Value(m, in.args[3]) = 0
    <2>1. One(ty).kind = "imm" /\ One(ty).val = 1
      BY DEF One, Immediate
    <2>2. Zero(ty).kind = "imm" /\ Zero(ty).val = 0
      BY DEF Zero, Immediate
    <2> QED
      BY <1>2, <2>1, <2>2 DEF Value
  <1>5. Yields(m, in, IF Value(m, a) = 1 THEN 1 ELSE 0)
    BY <1>1, <1>2, <1>3, <1>4 DEF Yields, Exec, Value, Defining
  <1> QED
    BY <1>5 DEF in

LEMMA ExecTrunc ==
    ASSUME NEW m, ~m.trap, NEW dest, NEW a
    PROVE  Yields(m, Trunc(dest, a), Value(m, a))
  BY DEF Yields, Exec, Trunc, Instr, Value, Defining, ValueOperands

LEMMA ExecBitcast ==
    ASSUME NEW m, ~m.trap, NEW dest, NEW a, NEW ty
    PROVE  Yields(m, Bitcast(dest, a, ty), Value(m, a))
  BY DEF Yields, Exec, Bitcast, Instr, Value, Defining, ValueOperands

LEMMA ExecGetElementPtr ==
    ASSUME NEW m, ~m.trap, NEW dest, NEW a, NEW field
    PROVE  Yields(m, GetElementPtr(dest, a, field), Value(m, a) + Offset(field))
  BY DEF Yields, Exec, GetElementPtr, Instr, Value, Defining

LEMMA ExecMalloc ==
    ASSUME NEW m, ~m.trap, NEW dest
    PROVE  Yields(m, Malloc(dest), NewObject)
  BY DEF Yields, Exec, Malloc, Instr, Defining

LEMMA ExecCallAssign ==
    ASSUME NEW m, ~m.trap, NEW dest, NEW ty, NEW fn, NEW pty, NEW a
    PROVE  Yields(m, CallAssign(dest, ty, fn, pty, a), Called(fn, Value(m, a)))
  BY DEF Yields, Exec, CallAssign, Instr, Value, Defining, ValueOperands

LEMMA ExecLoadVariable ==
    ASSUME NEW m, ~m.trap, NEW dest, NEW ty, NEW a, a.kind = "var"
    PROVE  Yields(m, Load(ty, dest, a), m.vars[a.name])
  BY DEF Yields, Exec, Load, Instr, Value, Defining

LEMMA ExecLoadField ==
    ASSUME NEW m, ~m.trap, NEW dest, NEW ty, NEW a, a.kind = "temp"
    PROVE  IF Value(m, a) \in DOMAIN m.heap
           THEN Yields(m, Load(ty, dest, a), m.heap[Value(m, a)])
           ELSE Exec(m, Load(ty, dest, a)) = [m EXCEPT !.trap = TRUE]
  BY DEF Yields, Exec, Load, Instr, Value, Defining

LEMMA ExecStoreVariable ==
    ASSUME NEW m, ~m.trap, NEW ty, NEW x, NEW a, a.kind = "var"
    PROVE  Exec(m, Store(ty, x, a)) = [m EXCEPT !.vars = [@ EXCEPT ![a.name] = Value(m, x)]]
  BY DEF Exec, Store, Instr, Value, ValueOperands

LEMMA ExecStoreField ==
    ASSUME NEW m, ~m.trap, NEW ty, NEW x, NEW a, a.kind = "temp"
    PROVE  Exec(m, Store(ty, x, a)) =
             IF Value(m, a) \in DOMAIN m.heap
             THEN [m EXCEPT !.heap = [@ EXCEPT ![Value(m, a)] = Value(m, x)]]
             ELSE [m EXCEPT !.trap = TRUE]
  BY DEF Exec, Store, Instr, Value, ValueOperands

LEMMA ExecSeen ==
    ASSUME NEW m, ~m.trap, NEW in, in.op \in {"BrCond", "Ret", "Printf", "Free"},
           DOMAIN in.args = 1..1
    PROVE  Exec(m, in) = [m EXCEPT !.out = Value(m, in.args[1])]
  BY DEF Exec, Value, ValueOperands

-----------------------------------------------------------------------------
(* Code whose registers are assigned once, before they are used, and are   *)
(* below n.  Sees: the operand o may be used after c.                      *)
Once(c) ==
    \A k \in DOMAIN c :
        /\ c[k].dest.id > 0 => \A j \in 1..(k - 1) : c[j].dest.id # c[k].dest.id
        /\ \A i \in DOMAIN c[k].args :
              c[k].args[i].kind = "temp" =>
                 \E j \in 1..(k - 1) : c[j].dest.id = c[k].args[i].id
Numbered(c, n) ==
    /\ IsCode(c) /\ n \in Nat \ {0} /\ Once(c)
    /\ \A k \in DOMAIN c : c[k].dest.id \in Int /\ c[k].dest.id < n
Sees(c, o) == o.kind = "temp" => \E j \in DOMAIN c : c[j].dest.id = o.id

(* The same with types, as far as the types of the text are consistent.    *)
Lenient == {"bool", "i1", "unknown"}
SeesTyped(c, o) ==
    o.kind = "temp" /\ o.ty \notin Lenient =>
      \E j \in DOMAIN c : c[j].dest.id = o.id /\ DefinedAs(c[j]) = TypeToLLVMString(o.ty)
Excused(in, i) ==
    in.args[i].ty \in Lenient \/ (in.op = "ICMP" /\ in.args[1].ty = "nil")
WellTyped(c) == \A k \in DOMAIN c : \A i \in IllTyped(c, k) : Excused(c[k], i)
FitsAfter(c, in, i) ==
    \/ Excused(in, i)
    \/ /\ in.args[i].kind = "temp"
       /\ \E j \in DOMAIN c : c[j].dest.id = in.args[i].id /\ DefinedAs(c[j]) = UsedAs(in, i)
    \/ /\ in.args[i].kind # "temp"
       /\ IF in.args[i].ty = "nil" THEN UsedAs(in, i) \in {"ptr", "%struct.S*"}
                                   ELSE UsedAs(in, i) \in {"i1", "i64"}
(* o is what in defines, of a type its text agrees with.                   *)
Returns(in, o) ==
    /\ o.id = in.dest.id
    /\ o.ty \in Lenient \/ DefinedAs(in) = TypeToLLVMString(o.ty)

LEMMA Emitted ==
    ASSUME NEW c, NEW n, Numbered(c, n), NEW in, NEW n2 \in Nat, n <= n2,
           in.dest.id \in {-1} \cup (n..(n2 - 1)),
           \A i \in DOMAIN in.args : Sees(c, in.args[i])
    PROVE  /\ Numbered(Append(c, in), n2)
           /\ \A o : Sees(c, o) => Sees(Append(c, in), o)
           /\ \A o : SeesTyped(c, o) => SeesTyped(Append(c, in), o)
           /\ \A o : o.id = in.dest.id => Sees(Append(c, in), o)
           /\ \A o : Returns(in, o) => SeesTyped(Append(c, in), o)
  <1> DEFINE d == Append(c, in)
             N == Len(c)
  <1>1. IsCode(c) /\ n \in Nat \ {0} /\ Once(c)
    BY DEF Numbered
  <1>2. /\ IsCode(d) /\ N \in Nat /\ DOMAIN c = 1..N /\ DOMAIN d = 1..(N + 1)
        /\ d[N + 1] = in
    BY <1>1, Appended
  <1>3. ASSUME NEW k \in 1..N PROVE d[k] = c[k] /\ k \in DOMAIN d
    BY <1>1, <1>2, Appended
  <1> HIDE DEF d, N
  <1>4. \A k \in DOMAIN c : c[k].dest.id \in Int /\ c[k].dest.id < n
    BY DEF Numbered
  <1>5. ASSUME NEW o, Sees(c, o) PROVE Sees(d, o)
    BY <1>2, <1>3, <1>5 DEF Sees
  <1>6. ASSUME NEW o, SeesTyped(c, o) PROVE SeesTyped(d, o)
    <2> SUFFICES ASSUME o.kind = "temp", o.ty \notin Lenient
                 PROVE  \E j \in DOMAIN d : d[j].dest.id = o.id
                                            /\ DefinedAs(d[j]) = TypeToLLVMString(o.ty)
      BY DEF SeesTyped
    <2>1. PICK j \in DOMAIN c : c[j].dest.id = o.id /\ DefinedAs(c[j]) = TypeToLLVMString(o.ty)
      BY <1>6 DEF SeesTyped
    <2>2. d[j] = c[j] /\ j \in DOMAIN d
      BY <1>2, <1>3
    <2> QED
      BY <2>1, <2>2
  <1>7. N + 1 \in DOMAIN d
    BY <1>2
  <1>8. ASSUME NEW o, o.id = in.dest.id PROVE Sees(d, o)
    BY <1>2, <1>7, <1>8 DEF Sees
  <1>9. ASSUME NEW o, Returns(in, o) PROVE SeesTyped(d, o)
    BY <1>2, <1>7, <1>9 DEF SeesTyped, Returns
  <1>10. ASSUME NEW k \in DOMAIN d PROVE d[k].dest.id \in Int /\ d[k].dest.id < n2
    <2>1. CASE k = N + 1
      BY <1>1, <1>2, <2>1
    <2>2. CASE k # N + 1
      <3>1. k \in 1..N
        BY <1>2, <1>10, <2>2
      <3>2. d[k] = c[k] /\ c[k].dest.id \in Int /\ c[k].dest.id < n
        BY <1>2, <1>3, <1>4, <3>1
      <3> QED
        BY <1>1, <3>2
    <2> QED
      BY <2>1, <2>2
  <1>11. Once(d)
    <2> SUFFICES ASSUME NEW k \in DOMAIN d
                 PROVE  /\ d[k].dest.id > 0 =>
                             \A j \in 1..(k - 1) : d[j].dest.id # d[k].dest.id
                        /\ \A i \in DOMAIN d[k].args :
                             d[k].args[i].kind = "temp" =>
                               \E j \in 1..(k - 1) : d[j].dest.id = d[k].args[i].id
      BY DEF Once
    <2>1. CASE k = N + 1
      <3>1. 1..(k - 1) = DOMAIN c /\ DOMAIN c = 1..N
        BY <1>2, <2>1
      <3>2. ASSUME NEW j \in 1..(k - 1), d[k].dest.id > 0 PROVE d[j].dest.id # d[k].dest.id
        <4>1. d[j] = c[j] /\ c[j].dest.id < n /\ c[j].dest.id \in Int
          BY <1>3, <1>4, <3>1
        <4>2. d[k].dest.id \in n..(n2 - 1)
          BY <1>2, <2>1, <3>2
        <4> QED
          BY <1>1, <4>1, <4>2
      <3>3. ASSUME NEW i \in DOMAIN d[k].args, d[k].args[i].kind = "temp"
            PROVE  \E j \in 1..(k - 1) : d[j].dest.id = d[k].args[i].id
        <4>1. Sees(c, in.args[i]) /\ d[k] = in
          BY <1>2, <2>1, <3>3
        <4>2. PICK j \in DOMAIN c : c[j].dest.id = in.args[i].id
          BY <3>3, <4>1 DEF Sees
        <4> QED
          BY <1>3, <3>1, <4>1, <4>2
      <3> QED
        BY <3>2, <3>3
    <2>2. CASE k # N + 1
      <3>1. k \in 1..N /\ k \in DOMAIN c
        BY <1>2, <2>2
      <3>2. \A j \in 1..(k - 1) : d[j] = c[j]
        BY <1>2, <1>3, <3>1
      <3>3. d[k] = c[k]
        BY <1>3, <3>1
      <3>4. /\ c[k].dest.id > 0 => \A j \in 1..(k - 1) : c[j].dest.id # c[k].dest.id
            /\ \A i \in DOMAIN c[k].args : c[k].args[i].kind = "temp" =>
                 \E j \in 1..(k - 1) : c[j].dest.id = c[k].args[i].id
        BY <1>1, <3>1 DEF Once
      <3> QED
        BY <3>2, <3>3, <3>4
    <2> QED
      BY <2>1, <2>2
  <1>12. Numbered(d, n2)
    BY <1>1, <1>2, <1>10, <1>11 DEF Numbered
  <1>13. \A o : Sees(c, o) => Sees(d, o)
    BY <1>5
  <1>14. \A o : SeesTyped(c, o) => SeesTyped(d, o)
    BY <1>6
  <1>15. \A o : o.id = in.dest.id => Sees(d, o)
    BY <1>8
  <1>16. \A o : Returns(in, o) => SeesTyped(d, o)
    BY <1>9
  <1> QED
    BY <1>12, <1>13, <1>14, <1>15, <1>16, Zenon DEF d

LEMMA EmittedTyped ==
    ASSUME NEW c, IsCode(c), WellTyped(c), NEW in,
           \A i \in ValueOperands(in) : FitsAfter(c, in, i)
    PROVE  WellTyped(Append(c, in))
  <1> DEFINE d == Append(c, in)
             N == Len(c)
  <1>1. /\ N \in Nat /\ DOMAIN c = 1..N /\ DOMAIN d = 1..(N + 1) /\ d[N + 1] = in
    BY Appended
  <1>2. ASSUME NEW k \in 1..N PROVE d[k] = c[k]
    BY Appended
  <1> HIDE DEF d, N
  <1> SUFFICES ASSUME NEW k \in DOMAIN d, NEW i \in IllTyped(d, k) PROVE Excused(d[k], i)
    BY DEF WellTyped, d
  <1>3. CASE k = N + 1
    <2>1. 1..(k - 1) = DOMAIN c /\ d[k] = in /\ \A j \in DOMAIN c : d[j] = c[j]
      BY <1>1, <1>2, <1>3
    <2>2. i \in ValueOperands(in) /\ FitsAfter(c, in, i)
      BY <2>1 DEF IllTyped
    <2>3. ~(in.args[i].kind = "temp" /\
            \E j \in DOMAIN c : c[j].dest.id = in.args[i].id /\ DefinedAs(c[j]) = UsedAs(in, i))
      <3> SUFFICES ASSUME in.args[i].kind = "temp", NEW j \in DOMAIN c,
                          c[j].dest.id = in.args[i].id, DefinedAs(c[j]) = UsedAs(in, i)
                   PROVE  FALSE
        OBVIOUS
      <3>1. d[j].dest.id = d[k].args[i].id /\ DefinedAs(d[j]) = UsedAs(d[k], i) /\ j \in 1..(k - 1)
        BY <2>1
      <3> QED
        BY <2>1, <3>1 DEF IllTyped
    <2>4. in.args[i].kind # "temp" =>
            IF in.args[i].ty = "nil" THEN UsedAs(in, i) \notin {"ptr", "%struct.S*"}
                                     ELSE UsedAs(in, i) \notin {"i1", "i64"}
      BY <2>1 DEF IllTyped
    <2> QED
      BY <2>1, <2>2, <2>3, <2>4 DEF FitsAfter
  <1>4. CASE k # N + 1
    <2>1. k \in 1..N /\ k \in DOMAIN c /\ d[k] = c[k]
      BY <1>1, <1>2, <1>4
    <2>2. \A j \in 1..(k - 1) : d[j] = c[j]
      BY <1>1, <1>2, <2>1
    <2>3. i \in IllTyped(c, k)
      BY <2>1, <2>2 DEF IllTyped
    <2> QED
      BY <2>1, <2>3 DEF WellTyped
  <1> QED
    BY <1>3, <1>4

-----------------------------------------------------------------------------
(* Code that is right so far: its text is well typed, and running it       *)
(* leaves the variables and the heap as they were.  Carries: unless that   *)
(* traps, the operand o then has the value x; Delivers: with its type.     *)
MemoryInv == memory \in Machines /\ ~memory.trap /\ memory.vars["b"] \in {0, 1}
After(c) == Execute(memory, c)
Trapped(c) == After(c).trap
Right(c) ==
    /\ WellTyped(c) /\ After(c) \in Machines
    /\ After(c).vars = memory.vars /\ After(c).heap = memory.heap
Carries(c, o, x) == ~Trapped(c) => Value(After(c), o) = x
Delivers(c, o, x) == SeesTyped(c, o) /\ Carries(c, o, x)
Operand(o) == o.kind = "imm" \/ (o.kind = "temp" /\ o.id \in Registered)
Keeps(c, d) ==
    /\ \A o : Sees(c, o) => Sees(d, o)
    /\ \A o, x : Operand(o) /\ Sees(c, o) /\ Delivers(c, o, x) => Delivers(d, o, x)

LEMMA KeepsOn ==
    ASSUME NEW b, NEW c, NEW d, Keeps(b, c), Keeps(c, d)
    PROVE  Keeps(b, d)
  BY DEF Keeps

(* The machine k is m with x in the register id.                          *)
Gives(m, k, id, x) ==
    /\ k \in Machines
    /\ k.vars = m.vars /\ k.heap = m.heap /\ k.trap = m.trap
    /\ \A o : o.kind = "temp" /\ o.id = id => Value(k, o) = x
    /\ \A o : o.kind = "imm" => Value(k, o) = Value(m, o)
    /\ \A o : o.kind = "temp" /\ o.id \in Registered /\ o.id # id
                => Value(k, o) = Value(m, o)

LEMMA DefiningFacts ==
    ASSUME NEW m \in Machines, NEW id \in Registered, NEW x \in Int,
           NEW k, k = Defining(m, id, x)
    PROVE  Gives(m, k, id, x)
  <1>1. m.temps \in [Registered -> Int]
    BY DEF Machines
  <1>2. k.temps = [m.temps EXCEPT ![id] = x]
    BY DEF Defining, Machines
  <1>3. /\ k \in Machines
        /\ k.vars = m.vars /\ k.heap = m.heap /\ k.trap = m.trap
    BY <1>1 DEF Defining, Machines
  <1>4. k.temps[id] = x /\ \A i \in Registered \ {id} : k.temps[i] = m.temps[i]
    BY <1>1, <1>2
  <1>5. ASSUME NEW o, o.kind = "temp", o.id = id PROVE Value(k, o) = x
    BY <1>4, <1>5 DEF Value
  <1>6. ASSUME NEW o, o.kind = "imm" PROVE Value(k, o) = Value(m, o)
    BY <1>6 DEF Value
  <1>7. ASSUME NEW o, o.kind = "temp", o.id \in Registered, o.id # id PROVE Value(k, o) = Value(m, o)
    BY <1>4, <1>7 DEF Value
  <1>8. \A o : o.kind = "temp" /\ o.id = id => Value(k, o) = x
    BY <1>5
  <1>9. \A o : o.kind = "imm" => Value(k, o) = Value(m, o)
    BY <1>6
  <1>10. \A o : o.kind = "temp" /\ o.id \in Registered /\ o.id # id => Value(k, o) = Value(m, o)
    BY <1>7
  <1> QED
    BY <1>3, <1>8, <1>9, <1>10, Zenon DEF Gives

(* An operand that has been seen is a register below n.                    *)
LEMMA SeenBelow ==
    ASSUME NEW c, NEW n, Numbered(c, n), NEW o, o.kind = "temp", Sees(c, o)
    PROVE  o.id \in Int /\ o.id < n
  BY DEF Numbered, Sees

(* d is c with one instruction more, that gives a new register the value   *)
(* x, or traps if bad.                                                     *)
Answers(d, in, x) ==
    \A o : o.kind = "temp" /\ o.id = in.dest.id =>
              /\ Sees(d, o) /\ Carries(d, o, x)
              /\ Returns(in, o) => Delivers(d, o, x)
Grows(c, d, n2, in, x, bad) ==
    /\ Numbered(d, n2) /\ Right(d) /\ Keeps(c, d)
    /\ (Trapped(d) <=> Trapped(c) \/ bad)
    /\ Answers(d, in, x)

LEMMA Adds ==
    ASSUME NEW c, NEW n, Numbered(c, n), Right(c), NEW in, NEW n2 \in Nat,
           in.dest.id \in n..(n2 - 1), n2 - 1 \in Registered,
           \A i \in DOMAIN in.args : Sees(c, in.args[i]),
           \A i \in ValueOperands(in) : FitsAfter(c, in, i),
           NEW x, NEW bad \in BOOLEAN,
           ~Trapped(c) /\ ~bad => x \in Int /\ Yields(After(c), in, x),
           ~Trapped(c) /\ bad => Exec(After(c), in) = [After(c) EXCEPT !.trap = TRUE]
    PROVE  Grows(c, Append(c, in), n2, in, x, bad)
  <1> DEFINE d == Append(c, in)
             m == After(c)
             reg == in.dest.id
  <1>1. IsCode(c) /\ n \in Nat \ {0} /\ reg \in Registered /\ n <= n2
    BY MaxNodesAssumption DEF Numbered, Registered
  <1>2. After(d) = Exec(m, in)
    BY <1>1, ExecuteAppend DEF After
  <1>3. /\ Numbered(d, n2)
        /\ \A o : Sees(c, o) => Sees(d, o)
        /\ \A o : SeesTyped(c, o) => SeesTyped(d, o)
        /\ \A o : o.id = reg => Sees(d, o)
        /\ \A o : Returns(in, o) => SeesTyped(d, o)
    BY <1>1, Emitted
  <1>4. WellTyped(d)
    BY <1>1, EmittedTyped DEF Right
  <1>5. m \in Machines /\ m.vars = memory.vars /\ m.heap = memory.heap
    BY DEF Right
  <1> HIDE DEF d, m, reg
  <1>6. CASE Trapped(c) \/ bad
    <2>1. After(d) \in Machines /\ After(d).trap
          /\ After(d).vars = m.vars /\ After(d).heap = m.heap
      <3>1. CASE Trapped(c)
        <4>1. After(d) = m
          BY <1>2, <3>1, ExecTrapped DEF Trapped, m
        <4> QED
          BY <1>5, <3>1, <4>1 DEF Trapped, m
      <3>2. CASE ~Trapped(c) /\ bad
        <4>1. After(d) = [m EXCEPT !.trap = TRUE]
          BY <1>2, <3>2 DEF m
        <4> QED
          BY <1>5, <4>1 DEF Machines
      <3> QED
        BY <1>6, <3>1, <3>2
    <2>2. Right(d) /\ Trapped(d)
      BY <1>4, <1>5, <2>1 DEF Right, Trapped
    <2>3. ASSUME NEW o, NEW y PROVE Carries(d, o, y)
      BY <2>2 DEF Carries
    <2>4. Keeps(c, d)
      BY <1>3, <2>3 DEF Keeps, Delivers
    <2>5. Answers(d, in, x)
      BY <1>3, <2>3 DEF Answers, Delivers, reg
    <2> QED
      BY <1>3, <1>6, <2>2, <2>4, <2>5 DEF d, Grows
  <1>7. CASE ~Trapped(c) /\ ~bad
    <2>1. PICK y \in Int : y = x /\ After(d) = Defining(m, reg, y)
      BY <1>2, <1>7 DEF Yields, m, reg
    <2>2. Gives(m, After(d), reg, y)
      BY <1>1, <1>5, <2>1, DefiningFacts
    <2>3. /\ After(d) \in Machines
          /\ After(d).vars = m.vars /\ After(d).heap = m.heap
          /\ After(d).trap = m.trap
          /\ \A o : o.kind = "temp" /\ o.id = reg => Value(After(d), o) = y
          /\ \A o : o.kind = "imm" => Value(After(d), o) = Value(m, o)
          /\ \A o : o.kind = "temp" /\ o.id \in Registered /\ o.id # reg
                      => Value(After(d), o) = Value(m, o)
      BY <2>2, Zenon DEF Gives
    <2>4. Right(d) /\ ~Trapped(d)
      BY <1>4, <1>5, <1>7, <2>3 DEF Right, Trapped, m
    <2>5. ASSUME NEW o, o.kind = "temp", o.id = reg PROVE Carries(d, o, x)
      BY <2>1, <2>3, <2>5 DEF Carries
    <2>6. ASSUME NEW o, NEW v, Operand(o), Sees(c, o), Delivers(c, o, v)
          PROVE  Delivers(d, o, v)
      <3>1. SeesTyped(d, o) /\ Value(m, o) = v
        BY <1>3, <1>7, <2>6 DEF Delivers, Carries, m
      <3>2. CASE o.kind = "imm"
        BY <2>3, <3>1, <3>2 DEF Delivers, Carries
      <3>3. CASE o.kind = "temp"
        <4>1. o.id \in Int /\ o.id < n
          BY <2>6, <3>3, SeenBelow
        <4>2. o.id # reg
          BY <1>1, <4>1 DEF reg
        <4> QED
          BY <2>3, <2>6, <3>1, <3>3, <4>2 DEF Delivers, Carries, Operand
      <3> QED
        BY <2>6, <3>2, <3>3 DEF Operand
    <2>7. Keeps(c, d)
      BY <1>3, <2>6 DEF Keeps
    <2>8. Answers(d, in, x)
      BY <1>3, <2>5 DEF Answers, Delivers, reg
    <2> QED
      BY <1>3, <1>7, <2>4, <2>7, <2>8 DEF d, Grows
  <1> QED
    BY <1>6, <1>7

-----------------------------------------------------------------------------
(* Joining code.                                                           *)
LEMMA IsCodeJoin ==
    ASSUME NEW s, NEW t, IsCode(s), IsCode(t)
    PROVE  \E S : s \in Seq(S) /\ t \in Seq(S)
  <1>1. PICK S : s \in Seq(S)
    BY DEF IsCode
  <1>2. PICK T : t \in Seq(T)
    BY DEF IsCode
  <1>3. s \in Seq(S \cup T)
    BY <1>1
  <1>4. t \in Seq(S \cup T)
    BY <1>2
  <1> QED
    BY <1>3, <1>4

LEMMA JoinAppend ==
    ASSUME NEW c, NEW s, IsCode(c), IsCode(s), NEW in
    PROVE  c \o Append(s, in) = Append(c \o s, in)
  <1>1. PICK S : c \in Seq(S) /\ s \in Seq(S)
    BY IsCodeJoin
  <1> DEFINE T == S \cup {in}
  <1>2. c \in Seq(T) /\ s \in Seq(T) /\ in \in T
    BY <1>1
  <1> HIDE DEF T
  <1>3. c \o Append(s, in) = Append(c \o s, in)
    BY <1>2
  <1> QED
    BY <1>3

LEMMA JoinNothing ==
    ASSUME NEW c, IsCode(c)
    PROVE  c \o <<>> = c /\ <<>> \o c = c
  BY DEF IsCode

LEMMA JoinFew ==
    ASSUME NEW c, IsCode(c), NEW i1, NEW i2, NEW i3
    PROVE  /\ c \o <<i1>> = Append(c, i1)
           /\ c \o <<i1, i2>> = Append(Append(c, i1), i2)
           /\ c \o <<i1, i2, i3>> = Append(Append(Append(c, i1), i2), i3)
  <1>1. PICK S : c \in Seq(S)
    BY DEF IsCode
  <1> DEFINE T == S \cup {i1, i2, i3}
  <1>2. c \in Seq(T) /\ i1 \in T /\ i2 \in T /\ i3 \in T
    BY <1>1
  <1> HIDE DEF T
  <1>3. IsCode(<<>>) /\ IsCode(<<i1>>) /\ IsCode(<<i1, i2>>)
    BY <1>2 DEF IsCode
  <1>4. /\ <<i1>> = Append(<<>>, i1) /\ <<i1, i2>> = Append(<<i1>>, i2)
        /\ <<i1, i2, i3>> = Append(<<i1, i2>>, i3)
    OBVIOUS
  <1>5. c \o <<i1>> = Append(c, i1)
    BY <1>3, <1>4, JoinAppend, JoinNothing
  <1>6. c \o <<i1, i2>> = Append(c \o <<i1>>, i2)
    BY <1>3, <1>4, JoinAppend
  <1>7. c \o <<i1, i2, i3>> = Append(c \o <<i1, i2>>, i3)
    BY <1>3, <1>4, JoinAppend
  <1> QED
    BY <1>5, <1>6, <1>7

LEMMA JoinThree ==
    ASSUME NEW c, NEW s, NEW t, IsCode(c), IsCode(s), IsCode(t)
    PROVE  c \o (s \o t) = (c \o s) \o t
  <1>1. PICK S : c \in Seq(S) /\ s \in Seq(S)
    BY IsCodeJoin
  <1>2. PICK T : t \in Seq(T)
    BY DEF IsCode
  <1> DEFINE U == S \cup T
  <1>3. c \in Seq(U) /\ s \in Seq(U)
    BY <1>1
  <1>4. t \in Seq(U)
    BY <1>2
  <1> HIDE DEF U
  <1> QED
    BY <1>3, <1>4, ConcatAssociative

LEMMA JoinedCode ==
    ASSUME NEW c, NEW s, IsCode(c), IsCode(s)
    PROVE  IsCode(c \o s)
  <1>1. PICK S : c \in Seq(S) /\ s \in Seq(S)
    BY IsCodeJoin
  <1>2. c \o s \in Seq(S)
    BY <1>1
  <1> QED
    BY <1>2 DEF IsCode

-----------------------------------------------------------------------------
(* The code and the meaning of paths of up to two fields.                  *)
LEMMA FlattenFew ==
    ASSUME NEW s
    PROVE  /\ Len(s) = 0 => FlattenSeq(s) = s
           /\ Len(s) = 1 => FlattenSeq(s) = s[1]
           /\ Len(s) = 2 => FlattenSeq(s) = s[1] \o s[2]
  <1> DEFINE Cat(a, b) == a \o b
             F(f) == [i \in 1..Len(s) |-> IF i = 1 THEN s[i] ELSE Cat(f[i - 1], s[i])]
             h == CHOOSE f : f = F(f)
  <1>1. Len(s) = 0 => FlattenSeq(s) = s
    BY DEF FlattenSeq
  <1>2. Len(s) # 0 => FlattenSeq(s) = h[Len(s)]
    BY DEF FlattenSeq
  <1> SUFFICES ASSUME Len(s) \in {1, 2}
               PROVE  /\ Len(s) = 1 => FlattenSeq(s) = s[1]
                      /\ Len(s) = 2 => FlattenSeq(s) = Cat(s[1], s[2])
    BY <1>1
  <1> HIDE DEF Cat
  <1>3. CASE Len(s) = 1
    <2> DEFINE g == [i \in 1..1 |-> s[1]]
    <2>1. g = F(g)
      BY <1>3
    <2>2. h = F(h)
      BY <2>1
    <2> HIDE DEF h
    <2>3. 1 \in 1..Len(s)
      BY <1>3
    <2>4. h[1] = s[1]
      BY <2>2, <2>3
    <2> QED
      BY <1>2, <1>3, <2>4
  <1>4. CASE Len(s) = 2
    <2> DEFINE g == [i \in 1..2 |-> IF i = 1 THEN s[1] ELSE Cat(s[1], s[2])]
    <2>1. g = F(g)
      <3>1. \A i \in 1..2 : i = 1 \/ i = 2
        OBVIOUS
      <3>2. ASSUME NEW i \in 1..2
            PROVE  g[i] = IF i = 1 THEN s[i] ELSE Cat(g[i - 1], s[i])
        <4>1. CASE i = 1
          BY <4>1
        <4>2. CASE i = 2
          <5>1. i - 1 = 1 /\ g[1] = s[1]
            BY <4>2
          <5> QED
            BY <4>2, <5>1
        <4> QED
          BY <3>1, <4>1, <4>2
      <3> QED
        BY <1>4, <3>2
    <2>2. h = F(h)
      BY <2>1
    <2> HIDE DEF h, g
    <2>3. 1 \in 1..Len(s) /\ 2 \in 1..Len(s)
      BY <1>4
    <2>4. h[1] = s[1]
      BY <2>2, <2>3
    <2>5. h[2] = Cat(h[2 - 1], s[2]) /\ 2 - 1 = 1
      BY <2>2, <2>3
    <2> QED
      BY <1>2, <1>4, <2>4, <2>5
  <1> QED
    BY <1>3, <1>4

FirstField(v, f, n) ==
    <<Load(GetType[v], Temp(n, GetType[v]), Variable(v, GetType[v])),
      GetElementPtr(Temp(n + 1, FieldType(f)), Temp(n, GetType[v]), f)>>
SecondField(g, f, n) ==
    <<Load(FieldType(g), Temp(n + 2, FieldType(g)), Temp(n + 1, FieldType(g))),
      GetElementPtr(Temp(n + 3, FieldType(f)), Temp(n + 2, FieldType(g)), f)>>
AddressIs(v, f, g, n) ==
    /\ AddressCode(v, <<>>, n) = <<>>
    /\ AddressCode(v, <<f>>, n) = FirstField(v, f, n)
    /\ FieldAddress(<<f>>, n) = Temp(n + 1, FieldType(f))
    /\ AddressCode(v, <<g, f>>, n) = FirstField(v, g, n) \o SecondField(g, f, n)
    /\ FieldAddress(<<g, f>>, n) = Temp(n + 3, FieldType(f))

LEMMA AddressFacts ==
    ASSUME NEW v, NEW f, NEW g, NEW n \in Int
    PROVE  AddressIs(v, f, g, n)
  <1> DEFINE pointer(path, i) ==
               Temp(n + 2 * i, IF i = 0 THEN GetType[v] ELSE FieldType(path[i]))
             address(path, i) == Temp(n + 2 * i - 1, FieldType(path[i]))
             step(path, i) ==
               <<Load(pointer(path, i - 1).ty, pointer(path, i - 1),
                      IF i = 1 THEN Variable(v, GetType[v]) ELSE address(path, i - 1)),
                 GetElementPtr(address(path, i), pointer(path, i - 1), path[i])>>
             steps(path) == [i \in DOMAIN path |-> step(path, i)]
  <1>1. ASSUME NEW path PROVE AddressCode(v, path, n) = FlattenSeq(steps(path))
    BY DEF AddressCode
  <1>2. AddressCode(v, <<>>, n) = <<>>
    <2>1. steps(<<>>) = <<>>
      OBVIOUS
    <2>2. Len(<<>>) = 0
      OBVIOUS
    <2> HIDE DEF steps
    <2> QED
      BY <1>1, <2>1, <2>2, FlattenFew
  <1>3. ASSUME NEW path PROVE pointer(path, 0) = Temp(n, GetType[v]) /\ pointer(path, 0).ty = GetType[v]
    BY DEF Temp
  <1>4. ASSUME NEW path PROVE step(path, 1) = FirstField(v, path[1], n)
    <2>1. 1 - 1 = 0 /\ n + 2 * 1 - 1 = n + 1
      OBVIOUS
    <2>2. address(path, 1) = Temp(n + 1, FieldType(path[1]))
      BY <2>1
    <2> HIDE DEF pointer, address
    <2> QED
      BY <1>3, <2>1, <2>2 DEF FirstField
  <1>5. AddressCode(v, <<f>>, n) = FirstField(v, f, n)
    <2> DEFINE path == <<f>>
    <2>1. path[1] = f /\ DOMAIN path = 1..1
      OBVIOUS
    <2> HIDE DEF step, path
    <2>2. Len(steps(path)) = 1 /\ steps(path)[1] = step(path, 1)
      BY <2>1
    <2> HIDE DEF steps
    <2>3. AddressCode(v, path, n) = FirstField(v, f, n)
      BY <1>1, <1>4, <2>1, <2>2, FlattenFew
    <2> QED
      BY <2>3 DEF path
  <1>6. AddressCode(v, <<g, f>>, n) = FirstField(v, g, n) \o SecondField(g, f, n)
    <2> DEFINE path == <<g, f>>
    <2>1. path[1] = g /\ path[2] = f /\ DOMAIN path = 1..2
      OBVIOUS
    <2>2. step(path, 2) = SecondField(g, f, n)
      <3>1. /\ 2 - 1 = 1 /\ 2 # 1 /\ n + 2 * 1 = n + 2 /\ n + 2 * 1 - 1 = n + 1
            /\ n + 2 * 2 - 1 = n + 3
        OBVIOUS
      <3> HIDE DEF path
      <3>2. /\ pointer(path, 1) = Temp(n + 2, FieldType(g))
            /\ address(path, 1) = Temp(n + 1, FieldType(g))
            /\ address(path, 2) = Temp(n + 3, FieldType(f))
        BY <2>1, <3>1
      <3>3. pointer(path, 1).ty = FieldType(g)
        BY <3>2 DEF Temp
      <3> HIDE DEF pointer, address
      <3> QED
        BY <2>1, <3>1, <3>2, <3>3 DEF SecondField
    <2> HIDE DEF step, path
    <2>3. Len(steps(path)) = 2 /\ steps(path)[1] = step(path, 1) /\ steps(path)[2] = step(path, 2)
      BY <2>1
    <2> HIDE DEF steps
    <2>4. AddressCode(v, path, n) = FirstField(v, g, n) \o SecondField(g, f, n)
      BY <1>1, <1>4, <2>1, <2>2, <2>3, FlattenFew
    <2> QED
      BY <2>4 DEF path
  <1>7. FieldAddress(<<f>>, n) = Temp(n + 1, FieldType(f))
    <2>1. Len(<<f>>) = 1 /\ Last(<<f>>) = f /\ n + 2 * 1 - 1 = n + 1
      BY DEF Last
    <2> QED
      BY <2>1 DEF FieldAddress
  <1>8. FieldAddress(<<g, f>>, n) = Temp(n + 3, FieldType(f))
    <2>1. Len(<<g, f>>) = 2 /\ Last(<<g, f>>) = f /\ n + 2 * 2 - 1 = n + 3
      BY DEF Last
    <2> QED
      BY <2>1 DEF FieldAddress
  <1> QED
    BY <1>2, <1>5, <1>6, <1>7, <1>8 DEF AddressIs

(* Following a path field by field.                                        *)
Root(v) == [val |-> memory.vars[v], trap |-> FALSE]
ReachedIs(v, f, g) ==
    /\ Reached(v, <<>>) = Root(v)
    /\ Reached(v, <<f>>) = Follow(Root(v), f)
    /\ Reached(v, <<g, f>>) = Follow(Follow(Root(v), g), f)
    /\ Front(<<f>>) = <<>> /\ Front(<<g, f>>) = <<g>>

LEMMA ReachedFacts ==
    ASSUME NEW v, NEW f, NEW g
    PROVE  ReachedIs(v, f, g)
  <1> DEFINE F(path, at) == [i \in 0..Len(path) |->
                 IF i = 0 THEN Root(v) ELSE Follow(at[i - 1], path[i])]
             H(path) == CHOOSE at : at = F(path, at)
             G(path) == [i \in 0..2 |-> CASE i = 0 -> Root(v)
                                          [] i = 1 -> Follow(Root(v), path[1])
                                          [] i = 2 -> Follow(Follow(Root(v), path[1]), path[2])]
  <1>1. ASSUME NEW path PROVE Reached(v, path) = H(path)[Len(path)]
    BY DEF Reached, Root
  <1>2. ASSUME NEW path, NEW n \in 0..2, Len(path) = n
        PROVE  Reached(v, path) = G(path)[n]
    <2> DEFINE at == [i \in 0..n |-> G(path)[i]]
    <2>1. G(path)[0] = Root(v)
      OBVIOUS
    <2>2. G(path)[1] = Follow(G(path)[0], path[1])
      OBVIOUS
    <2>3. G(path)[2] = Follow(G(path)[1], path[2])
      OBVIOUS
    <2> HIDE DEF G
    <2>4. ASSUME NEW i \in 0..n, i # 0 PROVE at[i] = Follow(at[i - 1], path[i])
      <3>1. i - 1 \in 0..n /\ (i = 1 \/ i = 2)
        BY <2>4
      <3>2. at[i] = G(path)[i] /\ at[i - 1] = G(path)[i - 1]
        BY <3>1
      <3>3. CASE i = 1
        <4>1. i - 1 = 0
          BY <3>3
        <4> QED
          BY <2>2, <3>2, <3>3, <4>1
      <3>4. CASE i = 2
        <4>1. i - 1 = 1
          BY <3>4
        <4> QED
          BY <2>3, <3>2, <3>4, <4>1
      <3> QED
        BY <3>1, <3>3, <3>4
    <2>5. at[0] = Root(v)
      BY <2>1
    <2>6. at = F(path, at)
      <3>1. \A i \in 0..n : at[i] = IF i = 0 THEN Root(v) ELSE Follow(at[i - 1], path[i])
        BY <2>4, <2>5
      <3> QED
        BY <1>2, <3>1
    <2>7. H(path) = F(path, H(path))
      BY <2>6
    <2> DEFINE h == H(path)
    <2> HIDE DEF H, at
    <2>8. h[0] = Root(v) /\ \A i \in 1..n : h[i] = Follow(h[i - 1], path[i])
      <3>1. h = F(path, h)
        BY <2>7
      <3> HIDE DEF h
      <3>2. 0 \in 0..Len(path) /\ \A i \in 1..n : i \in 0..Len(path) /\ i # 0
        BY <1>2
      <3> QED
        BY <3>1, <3>2
    <2> HIDE DEF h
    <2>9. CASE n = 0
      BY <1>1, <1>2, <2>1, <2>8, <2>9 DEF h
    <2>10. CASE n = 1
      <3>1. 1 \in 1..n /\ 1 - 1 = 0
        BY <2>10
      <3>2. h[1] = Follow(h[0], path[1])
        BY <2>8, <3>1
      <3> QED
        BY <1>1, <1>2, <2>1, <2>2, <2>8, <2>10, <3>2 DEF h
    <2>11. CASE n = 2
      <3>1. 1 \in 1..n /\ 2 \in 1..n /\ 1 - 1 = 0 /\ 2 - 1 = 1
        BY <2>11
      <3>2. h[1] = Follow(h[0], path[1]) /\ h[2] = Follow(h[1], path[2])
        BY <2>8, <3>1
      <3> QED
        BY <1>1, <1>2, <2>1, <2>2, <2>3, <2>8, <2>11, <3>2 DEF h
    <2> QED
      BY <2>9, <2>10, <2>11
  <1>3. Len(<<>>) = 0 /\ Len(<<f>>) = 1 /\ Len(<<g, f>>) = 2
    OBVIOUS
  <1>4. Reached(v, <<>>) = Root(v)
    <2>1. G(<<>>)[0] = Root(v)
      OBVIOUS
    <2> HIDE DEF G
    <2> QED
      BY <1>2, <1>3, <2>1
  <1>5. Reached(v, <<f>>) = Follow(Root(v), f)
    <2>1. G(<<f>>)[1] = Follow(Root(v), f)
      OBVIOUS
    <2> HIDE DEF G
    <2> QED
      BY <1>2, <1>3, <2>1
  <1>6. Reached(v, <<g, f>>) = Follow(Follow(Root(v), g), f)
    <2>1. G(<<g, f>>)[2] = Follow(Follow(Root(v), g), f)
      OBVIOUS
    <2> HIDE DEF G
    <2> QED
      BY <1>2, <1>3, <2>1
  <1>7. Front(<<f>>) = <<>> /\ Front(<<g, f>>) = <<g>>
    <2>1. <<f>> \in Seq({f, g}) /\ <<g, f>> \in Seq({f, g}) /\ <<g>> \in Seq({f, g})
      OBVIOUS
    <2>2. Len(<<f>>) - 1 = 0 /\ Len(<<g, f>>) - 1 = 1
      OBVIOUS
    <2>3. Front(<<f>>) = <<>>
      BY <2>1, <2>2, SubSeqEmpty DEF Front
    <2>4. SubSeq(<<g, f>>, 1, 1) = <<g>>
      <3>1. /\ SubSeq(<<g, f>>, 1, 1) \in Seq({f, g})
            /\ Len(SubSeq(<<g, f>>, 1, 1)) = 1 /\ SubSeq(<<g, f>>, 1, 1)[1] = g
        BY <2>1, SubSeqProperties
      <3>2. Len(<<g>>) = 1 /\ <<g>>[1] = g
        OBVIOUS
      <3>3. \A i \in 1..1 : i = 1
        OBVIOUS
      <3> QED
        BY <2>1, <3>1, <3>2, <3>3, SeqEqual
    <2> QED
      BY <2>2, <2>3, <2>4 DEF Front
  <1> QED
    BY <1>4, <1>5, <1>6, <1>7 DEF ReachedIs

-----------------------------------------------------------------------------
(* Every register is assigned once, before it is used.                     *)
Written(c, d, n) == Numbered(d, n) /\ \A o : Sees(c, o) => Sees(d, o)
IsOperand(o) == \E x, ty : o = Temp(x, ty) \/ o = Immediate(x, ty)
OnceInv ==
    /\ Once(code)
    /\ stm = NoStatement =>
         /\ Numbered(code, next)
         /\ \A i \in DOMAIN stack : Sees(code, stack[i].opnd) /\ IsOperand(stack[i].opnd)

LEMMA Later ==
    ASSUME NEW c, NEW n, Numbered(c, n), NEW n2 \in Nat, n <= n2
    PROVE  Numbered(c, n2)
  BY DEF Numbered

LEMMA WrittenOn ==
    ASSUME NEW b, NEW c, NEW d, NEW n, NEW n2, Written(b, c, n), Written(c, d, n2)
    PROVE  Written(b, d, n2)
  BY Zenon DEF Written

LEMMA ArgsSeen ==
    ASSUME NEW c, NEW in
    PROVE  /\ in.args = <<>> => \A i \in DOMAIN in.args : Sees(c, in.args[i])
           /\ \A a : in.args = <<a>> /\ Sees(c, a) => \A i \in DOMAIN in.args : Sees(c, in.args[i])
           /\ \A a, b : in.args = <<a, b>> /\ Sees(c, a) /\ Sees(c, b)
                          => \A i \in DOMAIN in.args : Sees(c, in.args[i])
           /\ \A a, b, e : in.args = <<a, b, e>> /\ Sees(c, a) /\ Sees(c, b) /\ Sees(c, e)
                          => \A i \in DOMAIN in.args : Sees(c, in.args[i])
  <1> DEFINE P(args) == \A i \in DOMAIN args : Sees(c, args[i])
  <1>1. P(<<>>)
    OBVIOUS
  <1>2. ASSUME NEW a, Sees(c, a) PROVE P(<<a>>)
    BY <1>2
  <1>3. ASSUME NEW a, NEW b, Sees(c, a), Sees(c, b) PROVE P(<<a, b>>)
    BY <1>3
  <1>4. ASSUME NEW a, NEW b, NEW e, Sees(c, a), Sees(c, b), Sees(c, e) PROVE P(<<a, b, e>>)
    BY <1>4
  <1>5. in.args = <<>> => P(in.args)
    BY <1>1
  <1> DEFINE Q == P(in.args)
  <1>6. \A a : in.args = <<a>> /\ Sees(c, a) => Q
    BY <1>2
  <1>7. \A a, b : in.args = <<a, b>> /\ Sees(c, a) /\ Sees(c, b) => Q
    BY <1>3
  <1>8. \A a, b, e : in.args = <<a, b, e>> /\ Sees(c, a) /\ Sees(c, b) /\ Sees(c, e) => Q
    BY <1>4
  <1> QED
    BY <1>5, <1>6, <1>7, <1>8, Zenon

(* An instruction more, and the operand that is its register.              *)
LEMMA Writes ==
    ASSUME NEW c, NEW n, Numbered(c, n), NEW in, NEW n2 \in Nat, n <= n2,
           in.dest.id \in {-1} \cup (n..(n2 - 1)),
           \A i \in DOMAIN in.args : Sees(c, in.args[i])
    PROVE  /\ Written(c, Append(c, in), n2)
           /\ Sees(Append(c, in), in.dest)
  BY Emitted DEF Written

LEMMA NothingSeen ==
    ASSUME NEW c, NEW o, o.kind # "temp"
    PROVE  Sees(c, o)
  BY DEF Sees

LEMMA NumbersSeen ==
    ASSUME NEW c, NEW x, NEW ty
    PROVE  /\ Sees(c, Immediate(x, ty)) /\ Sees(c, One(ty)) /\ Sees(c, Zero(ty))
           /\ Sees(c, Variable(x, ty))
  BY DEF Sees, Immediate, One, Zero, Variable

(* What every instruction writes.                                          *)
Writer(c, in, n, id) ==
    /\ Written(c, Append(c, in), n)
    /\ \A ty : Sees(Append(c, in), Temp(id, ty))

LEMMA WritesTo ==
    ASSUME NEW c, NEW n, Numbered(c, n), NEW in, NEW n2 \in Nat, NEW id \in n..(n2 - 1), n \in Nat,
           in.dest.id = id, \A i \in DOMAIN in.args : Sees(c, in.args[i])
    PROVE  Writer(c, in, n2, id)
  <1>1. Written(c, Append(c, in), n2)
    BY Writes
  <1>2. ASSUME NEW ty PROVE Sees(Append(c, in), Temp(id, ty))
    <2>1. Temp(id, ty).id = in.dest.id
      BY DEF Temp
    <2> QED
      BY <2>1, Emitted
  <1> QED
    BY <1>1, <1>2 DEF Writer

LEMMA MallocWrites ==
    ASSUME NEW c, NEW n \in Nat, Numbered(c, n), NEW n2 \in Nat, NEW id \in n..(n2 - 1), NEW ty1
    PROVE  Writer(c, Malloc(Temp(id, ty1)), n2, id)
  <1> DEFINE in == Malloc(Temp(id, ty1))
  <1>1. in.dest.id = id /\ in.args = <<>>
    BY DEF Malloc, Instr, Temp
  <1> HIDE DEF in
  <1>2. \A i \in DOMAIN in.args : Sees(c, in.args[i])
    BY <1>1, ArgsSeen
  <1>3. Writer(c, in, n2, id)
    BY <1>1, <1>2, WritesTo
  <1> QED
    BY <1>3 DEF in

LEMMA LoadWrites ==
    ASSUME NEW c, NEW n \in Nat, Numbered(c, n), NEW n2 \in Nat, NEW id \in n..(n2 - 1),
           NEW ty1, NEW ty2, NEW a, Sees(c, a)
    PROVE  Writer(c, Load(ty1, Temp(id, ty2), a), n2, id)
  <1> DEFINE in == Load(ty1, Temp(id, ty2), a)
  <1>1. in.dest.id = id /\ in.args = <<a>>
    BY DEF Load, Instr, Temp
  <1> HIDE DEF in
  <1>2. \A i \in DOMAIN in.args : Sees(c, in.args[i])
    BY <1>1, ArgsSeen
  <1>3. Writer(c, in, n2, id)
    BY <1>1, <1>2, WritesTo
  <1> QED
    BY <1>3 DEF in

LEMMA GetElementPtrWrites ==
    ASSUME NEW c, NEW n \in Nat, Numbered(c, n), NEW n2 \in Nat, NEW id \in n..(n2 - 1),
           NEW ty1, NEW f, NEW a, Sees(c, a)
    PROVE  Writer(c, GetElementPtr(Temp(id, ty1), a, f), n2, id)
  <1> DEFINE in == GetElementPtr(Temp(id, ty1), a, f)
  <1>1. in.dest.id = id /\ in.args = <<a>>
    BY DEF GetElementPtr, Instr, Temp
  <1> HIDE DEF in
  <1>2. \A i \in DOMAIN in.args : Sees(c, in.args[i])
    BY <1>1, ArgsSeen
  <1>3. Writer(c, in, n2, id)
    BY <1>1, <1>2, WritesTo
  <1> QED
    BY <1>3 DEF in

LEMMA BitcastWrites ==
    ASSUME NEW c, NEW n \in Nat, Numbered(c, n), NEW n2 \in Nat, NEW id \in n..(n2 - 1),
           NEW ty1, NEW ty2, NEW a, Sees(c, a)
    PROVE  Writer(c, Bitcast(Temp(id, ty1), a, ty2), n2, id)
  <1> DEFINE in == Bitcast(Temp(id, ty1), a, ty2)
  <1>1. in.dest.id = id /\ in.args = <<a>>
    BY DEF Bitcast, Instr, Temp
  <1> HIDE DEF in
  <1>2. \A i \in DOMAIN in.args : Sees(c, in.args[i])
    BY <1>1, ArgsSeen
  <1>3. Writer(c, in, n2, id)
    BY <1>1, <1>2, WritesTo
  <1> QED
    BY <1>3 DEF in

LEMMA TruncWrites ==
    ASSUME NEW c, NEW n \in Nat, Numbered(c, n), NEW n2 \in Nat, NEW id \in n..(n2 - 1),
           NEW ty1, NEW a, Sees(c, a)
    PROVE  Writer(c, Trunc(Temp(id, ty1), a), n2, id)
  <1> DEFINE in == Trunc(Temp(id, ty1), a)
  <1>1. in.dest.id = id /\ in.args = <<a>>
    BY DEF Trunc, Instr, Temp
  <1> HIDE DEF in
  <1>2. \A i \in DOMAIN in.args : Sees(c, in.args[i])
    BY <1>1, ArgsSeen
  <1>3. Writer(c, in, n2, id)
    BY <1>1, <1>2, WritesTo
  <1> QED
    BY <1>3 DEF in

LEMMA CallAssignWrites ==
    ASSUME NEW c, NEW n \in Nat, Numbered(c, n), NEW n2 \in Nat, NEW id \in n..(n2 - 1),
           NEW ty1, NEW ty2, NEW fn, NEW ty3, NEW a, Sees(c, a)
    PROVE  Writer(c, CallAssign(Temp(id, ty1), ty2, fn, ty3, a), n2, id)
  <1> DEFINE in == CallAssign(Temp(id, ty1), ty2, fn, ty3, a)
  <1>1. in.dest.id = id /\ in.args = <<a>>
    BY DEF CallAssign, Instr, Temp
  <1> HIDE DEF in
  <1>2. \A i \in DOMAIN in.args : Sees(c, in.args[i])
    BY <1>1, ArgsSeen
  <1>3. Writer(c, in, n2, id)
    BY <1>1, <1>2, WritesTo
  <1> QED
    BY <1>3 DEF in

LEMMA BinOpWrites ==
    ASSUME NEW c, NEW n \in Nat, Numbered(c, n), NEW n2 \in Nat, NEW id \in n..(n2 - 1),
           NEW ty1, NEW op, NEW a, NEW b, Sees(c, a), Sees(c, b)
    PROVE  Writer(c, BinOp(Temp(id, ty1), op, a, b), n2, id)
  <1> DEFINE in == BinOp(Temp(id, ty1), op, a, b)
  <1>1. in.dest.id = id /\ in.args = <<a, b>>
    BY DEF BinOp, Instr, Temp
  <1> HIDE DEF in
  <1>2. \A i \in DOMAIN in.args : Sees(c, in.args[i])
    BY <1>1, ArgsSeen
  <1>3. Writer(c, in, n2, id)
    BY <1>1, <1>2, WritesTo
  <1> QED
    BY <1>3 DEF in

LEMMA ICMPWrites ==
    ASSUME NEW c, NEW n \in Nat, Numbered(c, n), NEW n2 \in Nat, NEW id \in n..(n2 - 1),
           NEW ty1, NEW ty2, NEW cc, NEW a, NEW b,
           Sees(c, a), Sees(c, b)
    PROVE  Writer(c, ICMP(Temp(id, ty1), cc, ty2, a, b), n2, id)
  <1> DEFINE in == ICMP(Temp(id, ty1), cc, ty2, a, b)
  <1>1. in.dest.id = id /\ in.args = <<a, b>>
    BY DEF ICMP, Instr, Temp
  <1> HIDE DEF in
  <1>2. \A i \in DOMAIN in.args : Sees(c, in.args[i])
    BY <1>1, ArgsSeen
  <1>3. Writer(c, in, n2, id)
    BY <1>1, <1>2, WritesTo
  <1> QED
    BY <1>3 DEF in

LEMMA SelectWrites ==
    ASSUME NEW c, NEW n \in Nat, Numbered(c, n), NEW n2 \in Nat, NEW id \in n..(n2 - 1),
           NEW ty1, NEW ty2, NEW a, Sees(c, a)
    PROVE  Writer(c, Select(Temp(id, ty1), a, ty2), n2, id)
  <1> DEFINE in == Select(Temp(id, ty1), a, ty2)
  <1>1. in.dest.id = id /\ in.args = <<a, One(ty2), Zero(ty2)>>
    BY DEF Select, Instr, Temp
  <1> HIDE DEF in
  <1>2. \A i \in DOMAIN in.args : Sees(c, in.args[i])
    BY <1>1, ArgsSeen, NumbersSeen
  <1>3. Writer(c, in, n2, id)
    BY <1>1, <1>2, WritesTo
  <1> QED
    BY <1>3 DEF in

(* What has no result leaves the numbers alone.                            *)
LEMMA SilentWrites ==
    ASSUME NEW c, NEW n \in Nat, Numbered(c, n), NEW a, Sees(c, a), NEW b, Sees(c, b), NEW ty
    PROVE  /\ Written(c, Append(c, Store(ty, a, b)), n)
           /\ Written(c, Append(c, BrCond(a)), n) /\ Written(c, Append(c, Ret(ty, a)), n)
           /\ Written(c, Append(c, Printf(a)), n) /\ Written(c, Append(c, Free(a)), n)
  <1>1. ASSUME NEW in, in.dest = NoDest, in.args = <<a>> \/ in.args = <<a, b>>
        PROVE  Written(c, Append(c, in), n)
    <2>1. in.dest.id = -1
      <3>1. NoDest.id = -1
        BY DEF NoDest, Temp
      <3> QED
        BY <1>1, <3>1
    <2>2. \A i \in DOMAIN in.args : Sees(c, in.args[i])
      BY <1>1, ArgsSeen
    <2> QED
      BY <2>1, <2>2, Writes
  <1>2. Store(ty, a, b).dest = NoDest /\ Store(ty, a, b).args = <<a, b>>
    BY DEF Store, Instr
  <1>3. /\ BrCond(a).dest = NoDest /\ BrCond(a).args = <<a>>
        /\ Ret(ty, a).dest = NoDest /\ Ret(ty, a).args = <<a>>
    BY DEF BrCond, Ret, Instr
  <1>4. /\ Printf(a).dest = NoDest /\ Printf(a).args = <<a>>
        /\ Free(a).dest = NoDest /\ Free(a).args = <<a>>
    BY DEF Printf, Free, Instr
  <1> QED
    BY <1>1, <1>2, <1>3, <1>4

(* The paths the program follows.                                          *)
Fields == {"n", "f"}
Followed == {<<>>} \cup {<<f>> : f \in Fields} \cup {<<g, f>> : g \in Fields, f \in Fields}

(* The code of a path, one instruction after the other.                    *)
AddressJoins(c, v, f, g, n) ==
    LET load == Load(GetType[v], Temp(n, GetType[v]), Variable(v, GetType[v]))
        first(h) == GetElementPtr(Temp(n + 1, FieldType(h)), Temp(n, GetType[v]), h)
        next2 == Load(FieldType(g), Temp(n + 2, FieldType(g)), Temp(n + 1, FieldType(g)))
        second == GetElementPtr(Temp(n + 3, FieldType(f)), Temp(n + 2, FieldType(g)), f)
    IN  /\ c \o AddressCode(v, <<>>, n) = c
        /\ c \o AddressCode(v, <<f>>, n) = Append(Append(c, load), first(f))
        /\ c \o AddressCode(v, <<g, f>>, n)
             = Append(Append(Append(Append(c, load), first(g)), next2), second)
        /\ IsCode(AddressCode(v, <<>>, n)) /\ IsCode(AddressCode(v, <<f>>, n))
        /\ IsCode(AddressCode(v, <<g, f>>, n))

LEMMA AddressJoined ==
    ASSUME NEW c, IsCode(c), NEW v, NEW f, NEW g, NEW n \in Int
    PROVE  AddressJoins(c, v, f, g, n)
  <1> DEFINE load == Load(GetType[v], Temp(n, GetType[v]), Variable(v, GetType[v]))
             first(h) == GetElementPtr(Temp(n + 1, FieldType(h)), Temp(n, GetType[v]), h)
             next2 == Load(FieldType(g), Temp(n + 2, FieldType(g)), Temp(n + 1, FieldType(g)))
             second == GetElementPtr(Temp(n + 3, FieldType(f)), Temp(n + 2, FieldType(g)), f)
  <1>1. /\ AddressCode(v, <<>>, n) = <<>>
        /\ AddressCode(v, <<f>>, n) = <<load, first(f)>>
        /\ AddressCode(v, <<g, f>>, n) = <<load, first(g)>> \o <<next2, second>>
    <2>1. /\ AddressCode(v, <<>>, n) = <<>>
          /\ AddressCode(v, <<f>>, n) = FirstField(v, f, n)
          /\ AddressCode(v, <<g, f>>, n) = FirstField(v, g, n) \o SecondField(g, f, n)
      <3>1. AddressIs(v, f, g, n)
        BY AddressFacts
      <3> QED
        BY <3>1, Zenon DEF AddressIs
    <2>2. ASSUME NEW h PROVE FirstField(v, h, n) = <<load, first(h)>>
      BY Zenon DEF FirstField
    <2>3. SecondField(g, f, n) = <<next2, second>>
      BY Zenon DEF SecondField
    <2> QED
      BY <2>1, <2>2, <2>3, Zenon
  <1> HIDE DEF load, first, next2, second
  <1>2. /\ IsCode(<<>>) /\ IsCode(<<load, first(f)>>) /\ IsCode(<<load, first(g)>>)
        /\ IsCode(<<next2, second>>)
    <2>1. ASSUME NEW a, NEW b PROVE IsCode(<<a, b>>)
      <3>1. <<a, b>> \in Seq({a, b})
        OBVIOUS
      <3> QED
        BY <3>1 DEF IsCode
    <2>2. IsCode(<<>>)
      <3>1. <<>> \in Seq({})
        OBVIOUS
      <3> QED
        BY <3>1 DEF IsCode
    <2> QED
      BY <2>1, <2>2
  <1>3. c \o <<>> = c
    BY JoinNothing
  <1>4. c \o <<load, first(f)>> = Append(Append(c, load), first(f))
    BY JoinFew
  <1>5. c \o (<<load, first(g)>> \o <<next2, second>>)
          = Append(Append(Append(Append(c, load), first(g)), next2), second)
    <2> DEFINE d == Append(Append(c, load), first(g))
    <2>1. c \o <<load, first(g)>> = d
      BY JoinFew
    <2>2. IsCode(d)
      BY Appended
    <2>3. d \o <<next2, second>> = Append(Append(d, next2), second)
      BY <2>2, JoinFew
    <2>4. c \o (<<load, first(g)>> \o <<next2, second>>)
            = (c \o <<load, first(g)>>) \o <<next2, second>>
      BY <1>2, JoinThree
    <2> QED
      BY <2>1, <2>3, <2>4
  <1>6. IsCode(<<load, first(g)>> \o <<next2, second>>)
    BY <1>2, JoinedCode
  <1> QED
    BY <1>1, <1>2, <1>3, <1>4, <1>5, <1>6 DEF AddressJoins, load, first, next2, second

LEMMA AddressWritten ==
    ASSUME NEW c, NEW n \in Nat, Numbered(c, n), NEW v, NEW path \in Followed
    PROVE  LET d == c \o AddressCode(v, path, n)
           IN  /\ IsCode(AddressCode(v, path, n))
               /\ Written(c, d, n + 2 * Len(path))
               /\ path # <<>> => Sees(d, FieldAddress(path, n))
  <1> DEFINE load == Load(GetType[v], Temp(n, GetType[v]), Variable(v, GetType[v]))
             first(h) == GetElementPtr(Temp(n + 1, FieldType(h)), Temp(n, GetType[v]), h)
             next2(g) == Load(FieldType(g), Temp(n + 2, FieldType(g)), Temp(n + 1, FieldType(g)))
             second(g, f) == GetElementPtr(Temp(n + 3, FieldType(f)), Temp(n + 2, FieldType(g)), f)
             c1 == Append(c, load)
             c2(h) == Append(c1, first(h))
             c3(g) == Append(c2(g), next2(g))
             c4(g, f) == Append(c3(g), second(g, f))
  <1>0. n \in Int
    OBVIOUS
  <1>1. Written(c, c1, n + 1) /\ Sees(c1, Temp(n, GetType[v]))
    BY NumbersSeen, LoadWrites DEF Writer
  <1>2. ASSUME NEW h
        PROVE  /\ Written(c, c2(h), n + 2) /\ Sees(c2(h), Temp(n + 1, FieldType(h)))
    <2>1. Numbered(c1, n + 1)
      BY <1>1 DEF Written
    <2> HIDE DEF c1
    <2>2. Writer(c1, first(h), n + 2, n + 1)
      BY <1>1, <2>1, GetElementPtrWrites
    <2> QED
      BY <1>1, <2>2, WrittenOn DEF Writer
  <1>3. ASSUME NEW g
        PROVE  /\ Written(c, c3(g), n + 3) /\ Sees(c3(g), Temp(n + 2, FieldType(g)))
    <2>1. Numbered(c2(g), n + 2)
      BY <1>2 DEF Written
    <2> HIDE DEF c2
    <2>2. Writer(c2(g), next2(g), n + 3, n + 2)
      BY <1>2, <2>1, LoadWrites
    <2> QED
      BY <1>2, <2>2, WrittenOn DEF Writer
  <1>4. ASSUME NEW g, NEW f
        PROVE  /\ Written(c, c4(g, f), n + 4) /\ Sees(c4(g, f), Temp(n + 3, FieldType(f)))
    <2>1. Numbered(c3(g), n + 3)
      BY <1>3 DEF Written
    <2> HIDE DEF c3
    <2>2. Writer(c3(g), second(g, f), n + 4, n + 3)
      BY <1>3, <2>1, GetElementPtrWrites
    <2> QED
      BY <1>3, <2>2, WrittenOn DEF Writer
  <1>5. IsCode(c)
    BY DEF Numbered
  <1>6. ASSUME NEW f, NEW g
        PROVE  /\ c \o AddressCode(v, <<>>, n) = c
               /\ c \o AddressCode(v, <<f>>, n) = c2(f)
               /\ c \o AddressCode(v, <<g, f>>, n) = c4(g, f)
               /\ IsCode(AddressCode(v, <<>>, n)) /\ IsCode(AddressCode(v, <<f>>, n))
               /\ IsCode(AddressCode(v, <<g, f>>, n))
    <2>1. AddressJoins(c, v, f, g, n)
      BY <1>0, <1>5, AddressJoined
    <2> QED
      BY <2>1, Zenon DEF AddressJoins
  <1> HIDE DEF c2, c4
  <1>7. CASE path = <<>>
    <2>1. Len(path) = 0 /\ n + 2 * 0 = n
      BY <1>7
    <2>2. Written(c, c, n)
      BY DEF Written
    <2> QED
      BY <1>6, <1>7, <2>1, <2>2
  <1>8. ASSUME NEW f, path = <<f>> PROVE Sees(c2(f), FieldAddress(path, n)) /\ Len(path) = 1
    <2>1. FieldAddress(<<f>>, n) = Temp(n + 1, FieldType(f))
      BY <1>0, AddressFacts, Zenon DEF AddressIs
    <2>2. Len(<<f>>) = 1
      OBVIOUS
    <2> QED
      BY <1>2, <1>8, <2>1, <2>2
  <1>9. ASSUME NEW f, NEW g, path = <<g, f>>
        PROVE Sees(c4(g, f), FieldAddress(path, n)) /\ Len(path) = 2
    <2>1. FieldAddress(<<g, f>>, n) = Temp(n + 3, FieldType(f))
      BY <1>0, AddressFacts, Zenon DEF AddressIs
    <2>2. Len(<<g, f>>) = 2
      OBVIOUS
    <2> QED
      BY <1>4, <1>9, <2>1, <2>2
  <1>10. n + 2 * 1 = n + 2 /\ n + 2 * 2 = n + 4
    OBVIOUS
  <1>11. CASE \E f \in Fields : path = <<f>>
    BY <1>2, <1>6, <1>8, <1>10, <1>11
  <1>12. CASE \E g, f \in Fields : path = <<g, f>>
    <2>1. PICK g \in Fields, f \in Fields : path = <<g, f>>
      BY <1>12
    <2>2. /\ c \o AddressCode(v, path, n) = c4(g, f) /\ IsCode(AddressCode(v, path, n))
      BY <1>6, <2>1
    <2>3. Sees(c4(g, f), FieldAddress(path, n)) /\ n + 2 * Len(path) = n + 4
      BY <1>9, <1>10, <2>1
    <2> QED
      BY <1>4, <2>2, <2>3
  <1> QED
    BY <1>7, <1>11, <1>12 DEF Followed

(* The code of a binary operator, one instruction after the other.  For && *)
(* and || an operand that is not an i64 is selected into one first.        *)
Selection(r, o) == Select(Temp(r, "i64"), o, "i64")
Selected(c, r, o) == IF o.ty # "i64" THEN Append(c, Selection(r, o)) ELSE c
SelectedAs(r, o) == IF o.ty # "i64" THEN Temp(r, "i64") ELSE o
BothSelected(c, left, right) == Selected(Selected(c, next, left), next + 1, right)
Result(op, right) == next + Registers(op, right) - 1

LEMMA SelectedCode ==
    ASSUME NEW c, IsCode(c), NEW r, NEW o
    PROVE  /\ IsCode(Selected(c, r, o))
           /\ c \o (IF o.ty # "i64" THEN <<Selection(r, o)>> ELSE <<>>) = Selected(c, r, o)
  <1>1. IsCode(Append(c, Selection(r, o)))
    BY Appended
  <1>2. c \o <<Selection(r, o)>> = Append(c, Selection(r, o)) /\ c \o <<>> = c
    <2> DEFINE in == Selection(r, o)
    <2> HIDE DEF in
    <2>1. c \o <<in>> = Append(c, in) /\ c \o <<>> = c
      BY JoinFew, JoinNothing
    <2> QED
      BY <2>1 DEF in
  <1> QED
    BY <1>1, <1>2 DEF Selected

LEMMA FewAreCode ==
    ASSUME NEW a, NEW b
    PROVE  IsCode(<<>>) /\ IsCode(<<a>>) /\ IsCode(<<a, b>>)
  <1>1. <<>> \in Seq({}) /\ <<a>> \in Seq({a}) /\ <<a, b>> \in Seq({a, b})
    OBVIOUS
  <1> QED
    BY <1>1 DEF IsCode

BinaryCodeIs(c, op, left, right) ==
    LET in == BinaryCode(op, left, right)
    IN  /\ IsComparison(op) =>
             c \o in = Append(c, ICMP(Temp(Result(op, right), "i1"), ToLLVMCondCode(op),
                                      ComparedAs(left), left, right))
        /\ op \in ArithmeticOps =>
             c \o in = Append(c, BinOp(Temp(Result(op, right), "i64"), ToLLVMBinOpTy(op),
                                       left, right))
        /\ IsBoolOp(op) =>
             c \o in = Append(BothSelected(c, left, right),
                              BinOp(Temp(Result(op, right), "i64"), ToLLVMBinOpTy(op),
                                    SelectedAs(next, left), SelectedAs(next + 1, right)))
        /\ IsComparison(op) \/ op \in ArithmeticOps \/ IsBoolOp(op)

LEMMA BinaryJoined ==
    ASSUME NEW c, IsCode(c), NEW op \in AllOps, NEW left, NEW right
    PROVE  BinaryCodeIs(c, op, left, right)
  <1> DEFINE in == BinaryCode(op, left, right)
             icmp == ICMP(Temp(Result(op, right), "i1"), ToLLVMCondCode(op),
                          ComparedAs(left), left, right)
             a == IF SelectsLeft(op, left) THEN Selection(next, left).dest ELSE left
             b == IF SelectsRight(op, right) THEN Selection(next + 1, right).dest ELSE right
             binop == BinOp(Temp(Result(op, right), "i64"), ToLLVMBinOpTy(op), a, b)
             L == IF SelectsLeft(op, left) THEN <<Selection(next, left)>> ELSE <<>>
             R == IF SelectsRight(op, right) THEN <<Selection(next + 1, right)>> ELSE <<>>
  <1>1. IsComparison(op) \/ op \in ArithmeticOps \/ IsBoolOp(op)
    BY DEF AllOps, IsComparison, RelationalOps, EqualityOps, ArithmeticOps, IsBoolOp
  <1>2. ~(IsComparison(op) /\ op \in ArithmeticOps) /\ ~(IsComparison(op) /\ IsBoolOp(op))
        /\ ~(op \in ArithmeticOps /\ IsBoolOp(op))
    BY DEF IsComparison, RelationalOps, EqualityOps, ArithmeticOps, IsBoolOp
  <1>3. IsComparison(op) => in = <<icmp>>
    BY DEF BinaryCode, Result
  <1>4. ~IsComparison(op) => in = L \o R \o <<binop>>
    BY DEF BinaryCode, Result, Selection
  <1>5. CASE IsComparison(op)
    <2> HIDE DEF icmp, in
    <2>1. c \o in = Append(c, icmp)
      <3>1. c \o <<icmp>> = Append(c, icmp)
        BY JoinFew
      <3> QED
        BY <1>3, <1>5, <3>1
    <2> QED
      BY <1>1, <1>2, <1>5, <2>1 DEF icmp, in, BinaryCodeIs
  <1>6. ASSUME NEW x, NEW s, IsCode(s) PROVE c \o (s \o <<x>>) = Append(c \o s, x)
    <2>1. s \o <<x>> = Append(s, x)
      BY <1>6, JoinFew
    <2> QED
      BY <1>6, <2>1, JoinAppend
  <1>7. CASE op \in ArithmeticOps
    <2>1. L = <<>> /\ R = <<>> /\ a = left /\ b = right
      BY <1>2, <1>7 DEF SelectsLeft, SelectsRight
    <2>2. binop = BinOp(Temp(Result(op, right), "i64"), ToLLVMBinOpTy(op), left, right)
      BY <2>1
    <2>3. in = L \o R \o <<binop>>
      BY <1>2, <1>4, <1>7
    <2> HIDE DEF in, L, R, binop
    <2>4. <<>> \o <<>> = <<>> /\ IsCode(<<>>)
      BY FewAreCode, JoinNothing
    <2>5. c \o in = Append(c \o <<>>, binop)
      BY <1>6, <2>1, <2>3, <2>4
    <2>6. c \o in = Append(c, binop)
      BY <2>5, JoinNothing
    <2> QED
      BY <1>1, <1>2, <1>7, <2>2, <2>6 DEF in, BinaryCodeIs
  <1>8. CASE IsBoolOp(op)
    <2>1. /\ L = IF left.ty # "i64" THEN <<Selection(next, left)>> ELSE <<>>
          /\ R = IF right.ty # "i64" THEN <<Selection(next + 1, right)>> ELSE <<>>
      BY <1>8 DEF SelectsLeft, SelectsRight
    <2>2. Selection(next, left).dest = Temp(next, "i64")
          /\ Selection(next + 1, right).dest = Temp(next + 1, "i64")
      BY DEF Selection, Select, Instr
    <2>3. a = SelectedAs(next, left) /\ b = SelectedAs(next + 1, right)
      BY <1>8, <2>2 DEF SelectsLeft, SelectsRight, SelectedAs
    <2>4. binop = BinOp(Temp(Result(op, right), "i64"), ToLLVMBinOpTy(op),
                        SelectedAs(next, left), SelectedAs(next + 1, right))
      BY <2>3
    <2>5. in = L \o R \o <<binop>>
      BY <1>2, <1>4, <1>8
    <2>6. IsCode(L) /\ IsCode(R)
      BY <2>1, FewAreCode
    <2>7. c \o L = Selected(c, next, left)
      BY <2>1, SelectedCode
    <2>8. IsCode(Selected(c, next, left))
      BY SelectedCode
    <2>9. Selected(c, next, left) \o R = BothSelected(c, left, right)
      BY <2>1, <2>8, SelectedCode DEF BothSelected
    <2> HIDE DEF in, L, R, binop
    <2>10. c \o (L \o R) = BothSelected(c, left, right) /\ IsCode(L \o R)
      <3>1. c \o (L \o R) = (c \o L) \o R
        BY <2>6, JoinThree
      <3>2. IsCode(L \o R)
        BY <2>6, JoinedCode
      <3> QED
        BY <2>7, <2>9, <3>1, <3>2
    <2>11. c \o in = Append(BothSelected(c, left, right), binop)
      BY <1>6, <2>5, <2>10
    <2> QED
      BY <1>1, <1>2, <1>8, <2>4, <2>11 DEF in, BinaryCodeIs
  <1> QED
    BY <1>1, <1>5, <1>7, <1>8

LEMMA SelectedWritten ==
    ASSUME NEW c, NEW n \in Nat, Numbered(c, n), NEW r \in n..n, NEW o, Sees(c, o)
    PROVE  LET n2 == n + Bit(o.ty # "i64")
           IN  Written(c, Selected(c, r, o), n2) /\ Sees(Selected(c, r, o), SelectedAs(r, o))
  <1>1. CASE o.ty # "i64"
    <2>1. Writer(c, Selection(r, o), n + 1, r)
      BY SelectWrites DEF Selection
    <2>2. Selected(c, r, o) = Append(c, Selection(r, o)) /\ SelectedAs(r, o) = Temp(r, "i64")
      BY <1>1 DEF Selected, SelectedAs
    <2> QED
      BY <1>1, <2>1, <2>2 DEF Writer, Bit
  <1>2. CASE o.ty = "i64"
    <2>1. Selected(c, r, o) = c /\ SelectedAs(r, o) = o
      BY <1>2 DEF Selected, SelectedAs
    <2>2. Written(c, c, n) /\ n + Bit(o.ty # "i64") = n
      BY <1>2 DEF Written, Bit
    <2> QED
      BY <2>1, <2>2
  <1> QED
    BY <1>1, <1>2

LEMMA BinaryWritten ==
    ASSUME next \in Nat, NEW c, Numbered(c, next), NEW op \in AllOps, NEW left, NEW right,
           Sees(c, left), Sees(c, right)
    PROVE  LET in == BinaryCode(op, left, right)
           IN  /\ Written(c, c \o in, next + Registers(op, right))
               /\ \A ty : Sees(c \o in, Temp(Result(op, right), ty))
  <1> DEFINE in == BinaryCode(op, left, right)
             k == Registers(op, right)
             result == Result(op, right)
  <1>1. k \in Nat \ {0} /\ IsCode(c) /\ result \in Nat /\ result + 1 = next + k
    BY BinaryOperand DEF Numbered, Result
  <1> HIDE DEF k, result
  <1>8. BinaryCodeIs(c, op, left, right)
    BY <1>1, BinaryJoined
  <1>2. ASSUME NEW d, NEW x, Written(c, d, result), Writer(d, x, result + 1, result),
               c \o in = Append(d, x)
        PROVE  /\ Written(c, c \o in, next + k)
               /\ \A ty : Sees(c \o in, Temp(result, ty))
    BY <1>1, <1>2, WrittenOn DEF Writer
  <1>3. result \in result..((result + 1) - 1) /\ result + 1 \in Nat
    BY <1>1
  <1>4. CASE IsComparison(op)
    <2> DEFINE x == ICMP(Temp(result, "i1"), ToLLVMCondCode(op), ComparedAs(left), left, right)
    <2>1. c \o in = Append(c, x)
      BY <1>8, <1>4, Zenon DEF BinaryCodeIs, result
    <2>2. Numbered(c, result) /\ Written(c, c, result)
      BY <1>1, Later DEF Written
    <2>3. Writer(c, x, result + 1, result)
      BY <1>1, <1>3, <2>2, ICMPWrites
    <2> HIDE DEF x, in
    <2> QED
      BY <1>2, <2>1, <2>2, <2>3 DEF in, k, result
  <1>5. CASE op \in ArithmeticOps
    <2> DEFINE x == BinOp(Temp(result, "i64"), ToLLVMBinOpTy(op), left, right)
    <2>1. c \o in = Append(c, x)
      BY <1>8, <1>5, Zenon DEF BinaryCodeIs, result
    <2>2. Numbered(c, result) /\ Written(c, c, result)
      BY <1>1, Later DEF Written
    <2>3. Writer(c, x, result + 1, result)
      BY <1>1, <1>3, <2>2, BinOpWrites
    <2> HIDE DEF x, in
    <2> QED
      BY <1>2, <2>1, <2>2, <2>3 DEF in, k, result
  <1>6. CASE IsBoolOp(op)
    <2> DEFINE a == SelectedAs(next, left)
               b == SelectedAs(next + 1, right)
               x == BinOp(Temp(result, "i64"), ToLLVMBinOpTy(op), a, b)
               d == Selected(c, next, left)
               f == Selected(d, next + 1, right)
    <2>1. c \o in = Append(f, x)
      <3>1. c \o in = Append(BothSelected(c, left, right), x)
        BY <1>8, <1>6, Zenon DEF BinaryCodeIs, result
      <3> QED
        BY <3>1 DEF BothSelected
    <2>2. Written(c, d, next + 1) /\ Sees(d, a) /\ Sees(d, right)
      <3>1. Written(c, d, next + Bit(left.ty # "i64")) /\ Sees(d, a)
        BY SelectedWritten
      <3>2. next + Bit(left.ty # "i64") <= next + 1
        BY DEF Bit
      <3> HIDE DEF d
      <3>3. Numbered(d, next + 1)
        BY <3>1, <3>2, Later DEF Written
      <3> QED
        BY <3>1, <3>3 DEF Written
    <2>3. result = next + 1 + Bit(right.ty # "i64")
      BY <1>6 DEF result, Result, Registers, SelectsRight, Bit
    <2> HIDE DEF d, a
    <2>4. Written(d, f, result) /\ Sees(f, b)
      <3>1. Numbered(d, next + 1) /\ next + 1 \in (next + 1)..(next + 1) /\ next + 1 \in Nat
        BY <2>2 DEF Written
      <3> QED
        BY <2>2, <2>3, <3>1, SelectedWritten
    <2> HIDE DEF f, b
    <2>5. Written(c, f, result) /\ Sees(f, a)
      BY <2>2, <2>4, WrittenOn DEF Written
    <2>6. Writer(f, x, result + 1, result)
      <3>1. Numbered(f, result)
        BY <2>5 DEF Written
      <3> QED
        BY <1>1, <1>3, <2>4, <2>5, <3>1, BinOpWrites
    <2> HIDE DEF x, in
    <2> QED
      BY <1>2, <2>1, <2>5, <2>6 DEF in, k, result
  <1>7. IsComparison(op) \/ op \in ArithmeticOps \/ IsBoolOp(op)
    BY DEF AllOps, IsComparison, RelationalOps, EqualityOps, ArithmeticOps, IsBoolOp
  <1> QED
    BY <1>4, <1>5, <1>6, <1>7 DEF in, k, result

LEMMA OnceInit == Init => OnceInv
  <1> SUFFICES ASSUME Init PROVE OnceInv
    OBVIOUS
  <1>1. code = <<>> /\ stack = <<>> /\ next = 1
    BY DEF Init
  <1>2. DOMAIN code = {} /\ DOMAIN stack = {}
    BY <1>1
  <1>3. IsCode(code)
    BY <1>1, FewAreCode
  <1> QED
    BY <1>1, <1>2, <1>3 DEF OnceInv, Once, Numbered

(* A condition's code: truncated first or not.                             *)
ConditionInstrs(cut, o, n, kind) ==
    LET cOperand == IF cut THEN Temp(n, "i1") ELSE o
        sel == Temp(n + Bit(cut), "i1")
    IN  (IF cut THEN <<Trunc(cOperand, o)>> ELSE <<>>)
        \o <<Select(sel, cOperand, "i1"), BrCond(IF kind = "if" THEN sel ELSE cOperand)>>
ConditionCode(c, cut, o, n, kind) ==
    LET cOperand == IF cut THEN Temp(n, "i1") ELSE o
        sel == Temp(n + Bit(cut), "i1")
        d == IF cut THEN Append(c, Trunc(cOperand, o)) ELSE c
    IN  Append(Append(d, Select(sel, cOperand, "i1")),
               BrCond(IF kind = "if" THEN sel ELSE cOperand))

LEMMA ConditionJoined ==
    ASSUME NEW c, IsCode(c), NEW cut \in BOOLEAN, NEW o, NEW n, NEW kind
    PROVE  c \o ConditionInstrs(cut, o, n, kind) = ConditionCode(c, cut, o, n, kind)
  <1> DEFINE cOperand == IF cut THEN Temp(n, "i1") ELSE o
             sel == Temp(n + Bit(cut), "i1")
             d == IF cut THEN Append(c, Trunc(cOperand, o)) ELSE c
             t == Trunc(cOperand, o)
             s == IF cut THEN <<t>> ELSE <<>>
             a == Select(sel, cOperand, "i1")
             b == BrCond(IF kind = "if" THEN sel ELSE cOperand)
  <1>1. ConditionCode(c, cut, o, n, kind) = Append(Append(d, a), b)
    BY DEF ConditionCode
  <1>2. d = IF cut THEN Append(c, t) ELSE c
    OBVIOUS
  <1> HIDE DEF d, t, a, b, cOperand, sel
  <1>3. c \o s = d /\ IsCode(s) /\ IsCode(d)
    <2>1. c \o <<t>> = Append(c, t)
      BY JoinFew
    <2>2. c \o <<>> = c
      BY JoinNothing
    <2>3. IsCode(<<t>>) /\ IsCode(<<>>)
      BY FewAreCode
    <2>4. IsCode(Append(c, t))
      BY Appended
    <2> QED
      BY <1>2, <2>1, <2>2, <2>3, <2>4
  <1> HIDE DEF s
  <1>4. c \o (s \o <<a, b>>) = Append(Append(d, a), b)
    <2>1. IsCode(<<a, b>>)
      BY FewAreCode
    <2>2. c \o (s \o <<a, b>>) = (c \o s) \o <<a, b>>
      BY <1>3, <2>1, JoinThree
    <2>3. d \o <<a, b>> = Append(Append(d, a), b)
      BY <1>3, JoinFew
    <2> QED
      BY <1>3, <2>2, <2>3
  <1> QED
    BY <1>1, <1>4 DEF ConditionInstrs, s, t, a, b, cOperand, sel

LEMMA ConditionWritten ==
    ASSUME NEW c, NEW n \in Nat, Numbered(c, n), NEW cut \in BOOLEAN, NEW o, Sees(c, o), NEW kind
    PROVE  Once(ConditionCode(c, cut, o, n, kind))
  <1> DEFINE cOperand == IF cut THEN Temp(n, "i1") ELSE o
             sel == Temp(n + Bit(cut), "i1")
             d == IF cut THEN Append(c, Trunc(cOperand, o)) ELSE c
             e == Append(d, Select(sel, cOperand, "i1"))
             b == IF kind = "if" THEN sel ELSE cOperand
  <1>1. Numbered(d, n + Bit(cut)) /\ Sees(d, cOperand)
    <2>1. CASE cut
      <3>1. Writer(c, Trunc(Temp(n, "i1"), o), n + 1, n)
        BY TruncWrites
      <3> QED
        BY <2>1, <3>1 DEF Writer, Written, Bit
    <2>2. CASE ~cut
      BY <2>2 DEF Bit
    <2> QED
      BY <2>1, <2>2
  <1>2. n + Bit(cut) \in Nat
    BY DEF Bit
  <1> HIDE DEF cOperand, d
  <1>3. Writer(d, Select(sel, cOperand, "i1"), n + Bit(cut) + 1, n + Bit(cut))
    <2> HIDE DEF sel
    <2> DEFINE k == n + Bit(cut)
    <2>1. sel = Temp(k, "i1")
      BY DEF sel
    <2>2. k \in k..((k + 1) - 1) /\ k + 1 \in Nat
      BY <1>2
    <2> HIDE DEF k
    <2> QED
      BY <1>1, <1>2, <2>1, <2>2, SelectWrites DEF k
  <1>4. Sees(e, sel) /\ Sees(e, cOperand) /\ Numbered(e, n + Bit(cut) + 1)
    BY <1>1, <1>3 DEF Writer, Written
  <1>5. Sees(e, b)
    BY <1>4
  <1>6. n + Bit(cut) + 1 \in Nat
    BY <1>2
  <1> HIDE DEF e, b
  <1>7. Numbered(Append(e, BrCond(b)), n + Bit(cut) + 1)
    BY <1>4, <1>5, <1>6, SilentWrites DEF Written
  <1> QED
    BY <1>7 DEF Numbered, ConditionCode, e, b, d, sel, cOperand

LEMMA OnceNext == TypeInv /\ OnceInv /\ [Next]_vars => OnceInv'
  <1> SUFFICES ASSUME TypeInv, OnceInv, [Next]_vars PROVE OnceInv'
    OBVIOUS
  <1>1. /\ IsStack(stack) /\ Len(stack) \in Nat /\ DOMAIN stack = 1..Len(stack)
        /\ 0 \in 0..Len(stack) /\ next \in Nat
    BY DEF TypeInv, SoundInv, SoundStack, IsStack
  <1>2. ASSUME stm = NoStatement
        PROVE  Numbered(code, next) /\ IsCode(code)
    BY <1>2 DEF OnceInv, Numbered
  <1>3. ASSUME stm = NoStatement, stack # <<>>
        PROVE  /\ Sees(code, Top.opnd) /\ IsOperand(Top.opnd)
               /\ Len(stack) \in Nat \ {0} /\ 1 \in 0..Len(stack)
    BY <1>1, <1>3 DEF OnceInv, Top
  (* A new expression for some of the old ones.                            *)
  <1>4. ASSUME NEW n \in 0..Len(stack), NEW e, NEW instrs, NEW registers,
               stm = NoStatement, Replace(n, e, instrs, registers),
               Written(code, code \o instrs, next + registers),
               Sees(code \o instrs, e.opnd), IsOperand(e.opnd)
        PROVE  OnceInv'
    <2>1. /\ stack' = Append(SubSeq(stack, 1, Len(stack) - n), e)
          /\ code' = code \o instrs /\ next' = next + registers /\ stm' = stm
      BY <1>4 DEF Replace, Emit
    <2>2. \A i \in DOMAIN stack' : stack'[i] = e \/ \E j \in DOMAIN stack : stack'[i] = stack[j]
      BY <1>1, <2>1, Replaced
    <2>3. Numbered(code', next') /\ \A o : Sees(code, o) => Sees(code', o)
      BY <1>4, <2>1 DEF Written
    <2>4. Sees(code', e.opnd)
      BY <1>4, <2>1
    <2>5. \A j \in DOMAIN stack : Sees(code, stack[j].opnd) /\ IsOperand(stack[j].opnd)
      BY <1>4 DEF OnceInv
    <2>6. \A i \in DOMAIN stack' : Sees(code', stack'[i].opnd) /\ IsOperand(stack'[i].opnd)
      BY <1>4, <2>2, <2>3, <2>4, <2>5
    <2>7. Once(code')
      BY <2>3 DEF Numbered
    <2> QED
      BY <2>3, <2>6, <2>7 DEF OnceInv
  <1>5. ASSUME NEW kind \in {"assignment", "return", "print", "delete", "if", "for"},
               NEW accepted, NEW typed, NEW instrs, NEW target, NEW path,
               Finish(kind, accepted, typed, instrs, target, path), Once(code \o instrs)
        PROVE  OnceInv'
    <2>1. stm'.kind = kind /\ code' = code \o instrs
      BY <1>5 DEF Finish, Emit
    <2>2. stm' # NoStatement
      <3>1. NoStatement.kind = "none"
        BY DEF NoStatement
      <3> QED
        BY <2>1, <3>1
    <2> QED
      BY <1>5, <2>1, <2>2 DEF OnceInv
  <1>8. ASSUME NEW x, NEW ty PROVE IsOperand(Temp(x, ty)) /\ IsOperand(Immediate(x, ty))
    BY DEF IsOperand
  <1>9. CASE Literal
    <2>1. PICK l \in {<<2, "int">>, <<1, "bool">>, <<0, "nil">>} :
             Open /\ Push(Leaf(l[2], Immediate(l[1], l[2]), l[1], FALSE), <<>>, 0)
      BY <1>9 DEF Literal
    <2>2. stm = NoStatement
      BY <2>1 DEF Open
    <2>3. code \o <<>> = code /\ next + 0 = next
      BY <1>1, <1>2, <2>2, JoinNothing
    <2>4. Written(code, code, next)
      BY <1>2, <2>2 DEF Written
    <2> DEFINE o == Immediate(l[1], l[2])
               e == Leaf(l[2], o, l[1], FALSE)
    <2>5. Sees(code, o) /\ IsOperand(o)
      BY <1>8, NumbersSeen
    <2>6. e.opnd = o
      BY Zenon DEF Leaf, Expr
    <2> HIDE DEF o, e
    <2> QED
      BY <1>1, <1>4, <2>1, <2>2, <2>3, <2>4, <2>5, <2>6 DEF Push, o, e
  <1>10. ASSUME NEW v \in Operands, VariableExpr(v) PROVE OnceInv'
    <2> DEFINE t == Temp(next, GetType[v])
               in == Load(GetType[v], t, Variable(v, GetType[v]))
               e == Leaf(GetType[v], t, memory.vars[v], FALSE)
    <2>1. Open /\ Push(e, <<in>>, 1)
      BY <1>10 DEF VariableExpr
    <2>2. stm = NoStatement
      BY <2>1 DEF Open
    <2>3. Writer(code, in, next + 1, next)
      BY <1>1, <1>2, <2>2, NumbersSeen, LoadWrites
    <2>4. Sees(Append(code, in), t) /\ Written(code, Append(code, in), next + 1)
      BY <2>3 DEF Writer
    <2>5. IsOperand(t) /\ e.opnd = t
      <3>1. e.opnd = t
        BY Zenon DEF Leaf, Expr
      <3> QED
        BY <1>8, <3>1
    <2> HIDE DEF in, t, e
    <2>6. code \o <<in>> = Append(code, in)
      BY <1>2, <2>2, JoinFew
    <2> QED
      BY <1>1, <1>4, <2>1, <2>2, <2>4, <2>5, <2>6 DEF Push
  <1>11. ASSUME NEW path \in Paths, FieldExpr("p", path) PROVE OnceInv'
    <2> DEFINE ty == FieldType(Last(path))
               m == next + 2 * Len(path)
               t == Temp(m, ty)
               found == Reached("p", path)
               addressed == AddressCode("p", path, next)
               in == Load(ty, t, FieldAddress(path, next))
               e == Leaf(ty, t, found.val, found.trap)
    <2>1. Open /\ Push(e, Append(addressed, in), 2 * Len(path) + 1)
      BY <1>11 DEF FieldExpr
    <2>2. stm = NoStatement
      BY <2>1 DEF Open
    <2>3. path \in Followed /\ path # <<>> /\ m \in Nat /\ m + 1 = next + (2 * Len(path) + 1)
      BY <1>1 DEF Paths, Followed, Fields
    <2>4. /\ IsCode(addressed) /\ Written(code, code \o addressed, m)
          /\ Sees(code \o addressed, FieldAddress(path, next))
      BY <1>1, <1>2, <2>2, <2>3, AddressWritten
    <2> DEFINE d == code \o addressed
    <2>5. code \o Append(addressed, in) = Append(d, in)
      BY <1>2, <2>2, <2>4, JoinAppend
    <2> HIDE DEF d, m, addressed
    <2>6. Writer(d, in, m + 1, m)
      <3>1. Numbered(d, m) /\ Sees(d, FieldAddress(path, next))
        BY <2>4 DEF Written, d
      <3>2. m \in m..((m + 1) - 1) /\ m + 1 \in Nat
        BY <2>3
      <3> QED
        BY <2>3, <3>1, <3>2, LoadWrites
    <2>7. Written(code, Append(d, in), m + 1) /\ Sees(Append(d, in), t)
      BY <2>4, <2>6, WrittenOn DEF Writer, d
    <2>8. IsOperand(t) /\ e.opnd = t
      <3>1. e.opnd = t
        BY Zenon DEF Leaf, Expr
      <3> QED
        BY <1>8, <3>1
    <2> HIDE DEF in, t, e
    <2> QED
      BY <1>1, <1>4, <2>1, <2>2, <2>3, <2>5, <2>7, <2>8 DEF Push
  <1>12. CASE New
    <2> DEFINE a == Malloc(Temp(next, "S"))
               t == Temp(next + 1, "S")
               b == Bitcast(t, Temp(next, "i8*"), "S")
               e == Leaf("S", t, NewObject, FALSE)
    <2>1. Open /\ Push(e, <<a, b>>, 2)
      BY <1>12 DEF New
    <2>2. stm = NoStatement
      BY <2>1 DEF Open
    <2>3. Writer(code, a, next + 1, next)
      BY <1>1, <1>2, <2>2, MallocWrites
    <2> DEFINE d == Append(code, a)
    <2>4. Numbered(d, next + 1) /\ Sees(d, Temp(next, "i8*"))
      BY <2>3 DEF Writer, Written
    <2> HIDE DEF d
    <2>5. Writer(d, b, next + 2, next + 1)
      BY <1>1, <2>4, BitcastWrites
    <2>6. Written(code, Append(d, b), next + 2) /\ Sees(Append(d, b), t)
      BY <2>3, <2>5, WrittenOn DEF Writer, d
    <2>7. IsOperand(t) /\ e.opnd = t
      <3>1. e.opnd = t
        BY Zenon DEF Leaf, Expr
      <3> QED
        BY <1>8, <3>1
    <2> HIDE DEF a, b, t, e
    <2>8. code \o <<a, b>> = Append(d, b)
      BY <1>2, <2>2, JoinFew DEF d
    <2> QED
      BY <1>1, <1>4, <2>1, <2>2, <2>6, <2>7, <2>8 DEF Push
  <1>13. ASSUME NEW fn \in {"g", "h"}, Invocation(fn) PROVE OnceInv'
    <2> DEFINE typed == Top.real = "int"
               t == Temp(next, "unknown")
               e == Expr(FunctionType(fn), TRUE, IF typed THEN FunctionType(fn) ELSE "none",
                         t, Called(fn, Top.val), Top.trap,
                         IF typed THEN Top.lax ELSE {"argument"}, Primary)
               in == CallAssign(t, FunctionType(fn), fn, Top.ty, Top.opnd)
    <2>1. Open /\ stack # <<>> /\ Replace(1, e, <<in>>, 1)
      BY <1>13 DEF Invocation
    <2>2. stm = NoStatement
      BY <2>1 DEF Open
    <2>3. Writer(code, in, next + 1, next)
      BY <1>1, <1>2, <1>3, <2>1, <2>2, CallAssignWrites
    <2>4. Sees(Append(code, in), t) /\ Written(code, Append(code, in), next + 1)
      BY <2>3 DEF Writer
    <2>5. IsOperand(t) /\ e.opnd = t
      <3>1. e.opnd = t
        BY Zenon DEF Leaf, Expr
      <3> QED
        BY <1>8, <3>1
    <2> HIDE DEF in, t, e
    <2>6. code \o <<in>> = Append(code, in)
      BY <1>2, <2>2, JoinFew
    <2> QED
      BY <1>3, <1>4, <2>1, <2>2, <2>4, <2>5, <2>6
  <1>14. CASE Parenthesised
    <2> DEFINE e == Expr(Top.ty, Top.ok, Top.real, Top.opnd, Top.val, Top.trap,
                         Top.lax, Primary)
    <2>1. Open /\ stack # <<>> /\ Replace(1, e, <<>>, 0)
      BY <1>14 DEF Parenthesised
    <2>2. stm = NoStatement
      BY <2>1 DEF Open
    <2>3. code \o <<>> = code /\ next + 0 = next
      BY <1>1, <1>2, <2>2, JoinNothing
    <2>4. Written(code, code, next)
      BY <1>2, <2>2 DEF Written
    <2>5. e.opnd = Top.opnd
      BY Zenon DEF Expr
    <2> HIDE DEF e
    <2> QED
      BY <1>3, <1>4, <2>1, <2>2, <2>3, <2>4, <2>5
  <1>15. ASSUME NEW op \in {"-", "!"}, UnaryExpr(op) PROVE OnceInv'
    <2> DEFINE in == UnaryCode(op, Top)
               typed == Top.real = IF op = "-" THEN "int" ELSE "bool"
               e == Expr(Top.ty, UnaryTypeCheck(Top), IF typed THEN Top.real ELSE "none",
                         in.dest, IF op = "-" THEN -Top.val ELSE 1 - Top.val, Top.trap,
                         IF typed THEN Top.lax ELSE {"unary"}, Unary)
    <2>1. Open /\ stack # <<>> /\ Replace(1, e, <<in>>, 1)
      BY <1>15 DEF UnaryExpr
    <2>2. stm = NoStatement
      BY <2>1 DEF Open
    <2>3. Writer(code, in, next + 1, next) /\ \E ty : in.dest = Temp(next, ty)
      <3>1. CASE op = "-"
        <4>1. in = BinOp(Temp(next, "i64"), "mul", Immediate(-1, "i64"), Top.opnd)
          BY <3>1 DEF UnaryCode
        <4>2. in.dest = Temp(next, "i64")
          BY <4>1 DEF BinOp, Instr
        <4>3. Sees(code, Immediate(-1, "i64"))
          BY NumbersSeen
        <4> HIDE DEF in
        <4> QED
          BY <1>1, <1>2, <1>3, <2>1, <2>2, <4>1, <4>2, <4>3, BinOpWrites
      <3>2. CASE op # "-"
        <4> DEFINE negType == IF Top.opnd.kind = "temp" THEN Top.opnd.ty ELSE "none"
        <4>1. in = ICMP(Temp(next, "i1"), "eq", negType, Top.opnd, Zero(negType))
          BY <3>2 DEF UnaryCode
        <4> HIDE DEF negType
        <4>2. in.dest = Temp(next, "i1")
          BY <4>1 DEF ICMP, Instr
        <4>3. Sees(code, Zero(negType))
          BY NumbersSeen
        <4> HIDE DEF in
        <4> QED
          BY <1>1, <1>2, <1>3, <2>1, <2>2, <4>1, <4>2, <4>3, ICMPWrites
      <3> QED
        BY <3>1, <3>2
    <2> HIDE DEF in
    <2>4. e.opnd = in.dest
      BY Zenon DEF Expr
    <2> HIDE DEF e
    <2>5. /\ Written(code, Append(code, in), next + 1)
          /\ Sees(Append(code, in), e.opnd) /\ IsOperand(e.opnd)
      BY <1>8, <2>3, <2>4 DEF Writer
    <2>6. code \o <<in>> = Append(code, in)
      BY <1>2, <2>2, JoinFew
    <2> QED
      BY <1>3, <1>4, <2>1, <2>2, <2>5, <2>6
  <1>16. ASSUME NEW op \in Ops, BinaryExpr(op) PROVE OnceInv'
    <2> DEFINE left == stack[Len(stack) - 1]
               extends == left.level = Level(op)
               typed == Typed(op, left.real, Top.real)
               in == BinaryCode(op, left.opnd, Top.opnd)
               ty == IF extends THEN left.ty ELSE BinaryType(left.ty, op, Top.ty)
               firstTy == IF extends THEN left.first ELSE left.ty
               looseness == (IF extends /\ IsComparison(op) THEN {"chain"} ELSE {})
                            \cup (IF "nil" \in {firstTy, Top.ty} THEN {"nil"} ELSE {})
               o == Last(in).dest
               e == [Expr(ty, left.ok /\ Top.ok /\ Fits(firstTy, op, Top.ty),
                          IF ~typed THEN "none"
                          ELSE IF op \in ArithmeticOps THEN "int" ELSE "bool",
                          o, Meaning(op, left.val, Top.val),
                          left.trap \/ Top.trap,
                          left.lax \cup Top.lax \cup (IF typed THEN {} ELSE looseness),
                          Level(op))
                     EXCEPT !.first = firstTy]
               k == Registers(op, Top.opnd)
    <2>1. Replace(2, e, in, k)
      BY <1>16 DEF BinaryExpr
    <2>2. e.opnd = o
      BY DEF Expr
    <2>3. stm = NoStatement /\ Len(stack) >= 2
      BY <1>16 DEF BinaryExpr
    <2>4. 2 \in 0..Len(stack) /\ Len(stack) - 1 \in DOMAIN stack /\ stack # <<>>
      BY <1>1, <2>3
    <2>5. Sees(code, left.opnd) /\ Sees(code, Top.opnd)
      BY <1>3, <2>3, <2>4 DEF OnceInv
    <2>6. op \in AllOps
      BY OpsAssumption
    <2>7. \E ty2 : o = Temp(next + k - 1, ty2)
      BY <1>1, <2>6, BinaryOperand
    <2>8. Written(code, code \o in, next + k) /\ Sees(code \o in, o)
      <3>1. /\ Written(code, code \o in, next + k)
            /\ \A ty2 : Sees(code \o in, Temp(next + k - 1, ty2))
        BY <1>1, <1>2, <2>3, <2>5, <2>6, BinaryWritten DEF Result
      <3> QED
        BY <2>7, <3>1
    <2>9. IsOperand(o)
      BY <1>8, <2>7
    <2> HIDE DEF o, in, k, e
    <2> QED
      BY <1>4, <2>1, <2>2, <2>3, <2>4, <2>8, <2>9
  <1>17. ASSUME NEW t \in Targets, Assignment(t[1], t[2]) PROVE OnceInv'
    <2> DEFINE v == t[1]
               path == t[2]
               lType == IF path = <<>> THEN GetType[v] ELSE FieldType(Last(path))
               lReg == IF path = <<>> THEN Variable(v, lType) ELSE FieldAddress(path, next)
               addressed == AddressCode(v, path, next)
               in == Store(lType, Top.opnd, lReg)
    <2>1. /\ stack # <<>>
          /\ Finish("assignment", Top.ok /\ Assignable(Top.ty, lType), Assignable(Top.real, lType),
                    Append(addressed, in), v, path)
      BY <1>17, Zenon DEF Assignment
    <2>2. stm = NoStatement
      BY <2>1 DEF Finish
    <2>3. path \in Followed
      BY DEF Targets, Followed, Fields
    <2> DEFINE d == code \o addressed
               m == next + 2 * Len(path)
    <2>4. /\ IsCode(addressed) /\ Written(code, d, m)
          /\ path # <<>> => Sees(d, FieldAddress(path, next))
      BY <1>1, <1>2, <2>2, <2>3, AddressWritten
    <2>5. Sees(d, lReg) /\ Sees(d, Top.opnd)
      BY <1>3, <2>1, <2>2, <2>4, NumbersSeen DEF Written
    <2>6. m \in Nat
      BY <1>1, <2>3 DEF Followed
    <2> HIDE DEF d, m, lReg, addressed
    <2>7. Numbered(Append(d, in), m)
      BY <2>4, <2>5, <2>6, SilentWrites DEF Written
    <2>8. code \o Append(addressed, in) = Append(d, in)
      BY <1>2, <2>2, <2>4, JoinAppend DEF d
    <2>9. Once(code \o Append(addressed, in))
      BY <2>7, <2>8 DEF Numbered
    <2> HIDE DEF in, v, path, lType
    <2> QED
      BY <1>5, <2>1, <2>9, Zenon
  <1>18. CASE Return
    <2> DEFINE t == Temp(next, "i64")
               r == Variable("_ret_val", RetTy)
               a == Store(Top.ty, Top.opnd, r)
               b == Load(Top.ty, t, r)
               c == Ret(Top.ty, t)
    <2>1. /\ stack # <<>>
          /\ Finish("return", Top.ty = RetTy, Top.real = RetTy, <<a, b, c>>, "_ret_val", <<>>)
      BY <1>18, Zenon DEF Return
    <2>2. stm = NoStatement
      BY <2>1 DEF Finish
    <2>3. Sees(code, r)
      BY NumbersSeen
    <2> HIDE DEF r
    <2>4. Numbered(Append(code, a), next)
      BY <1>1, <1>2, <1>3, <2>1, <2>2, <2>3, SilentWrites DEF Written
    <2> DEFINE d == Append(code, a)
    <2>5. Sees(d, r)
      BY NumbersSeen DEF r
    <2> HIDE DEF d
    <2>6. Writer(d, b, next + 1, next)
      <3>1. Numbered(d, next)
        BY <2>4 DEF d
      <3> QED
        BY <1>1, <2>5, <3>1, LoadWrites
    <2> DEFINE f == Append(d, b)
    <2>7. Numbered(f, next + 1) /\ Sees(f, t)
      BY <2>6 DEF Writer, Written
    <2> HIDE DEF f, t
    <2>8. Numbered(Append(f, c), next + 1)
      <3>1. next + 1 \in Nat
        BY <1>1
      <3> QED
        BY <2>7, <3>1, SilentWrites DEF Written
    <2> HIDE DEF a, b, c
    <2>9. code \o <<a, b, c>> = Append(f, c)
      BY <1>2, <2>2, JoinFew DEF d, f
    <2>10. Once(code \o <<a, b, c>>)
      BY <2>8, <2>9 DEF Numbered
    <2> QED
      BY <1>5, <2>1, <2>10, Zenon
  <1>19. CASE PrintStatement
    <2> DEFINE a == Printf(Top.opnd)
    <2>1. /\ stack # <<>>
          /\ Finish("print", Top.ty = "int", Top.real = "int", <<a>>, "", <<>>)
      BY <1>19, Zenon DEF PrintStatement
    <2>2. stm = NoStatement
      BY <2>1 DEF Finish
    <2>3. Numbered(Append(code, a), next)
      BY <1>1, <1>2, <1>3, <2>1, <2>2, SilentWrites DEF Written
    <2> HIDE DEF a
    <2>4. code \o <<a>> = Append(code, a)
      BY <1>2, <2>2, JoinFew
    <2>5. Once(code \o <<a>>)
      BY <2>3, <2>4 DEF Numbered
    <2> QED
      BY <1>5, <2>1, <2>5, Zenon
  <1>20. CASE Delete
    <2> DEFINE t == Temp(next, Top.ty)
               o == [Top.opnd EXCEPT !.ty = Top.ty]
               a == Bitcast(t, o, "i8*")
               b == Free(t)
    <2>1. /\ stack # <<>>
          /\ Finish("delete", Top.ty \notin {"nil", "bool", "int"}, Top.real = "S", <<a, b>>,
                    "", <<>>)
      BY <1>20, Zenon DEF Delete
    <2>2. stm = NoStatement
      BY <2>1 DEF Finish
    <2>3. Sees(code, o)
      <3>1. PICK x, ty : Top.opnd = Temp(x, ty) \/ Top.opnd = Immediate(x, ty)
        BY <1>3, <2>1, <2>2 DEF IsOperand
      <3>2. o.kind = Top.opnd.kind /\ o.id = Top.opnd.id
        BY <3>1 DEF Temp, Immediate
      <3> QED
        BY <1>3, <2>1, <2>2, <3>2 DEF Sees
    <2> HIDE DEF o
    <2>4. Writer(code, a, next + 1, next)
      BY <1>1, <1>2, <2>2, <2>3, BitcastWrites
    <2> DEFINE d == Append(code, a)
    <2>5. Numbered(d, next + 1) /\ Sees(d, t)
      BY <2>4 DEF Writer, Written
    <2> HIDE DEF d, t
    <2>6. Numbered(Append(d, b), next + 1)
      <3>1. next + 1 \in Nat
        BY <1>1
      <3> QED
        BY <2>5, <3>1, SilentWrites DEF Written
    <2> HIDE DEF a, b
    <2>7. code \o <<a, b>> = Append(d, b)
      BY <1>2, <2>2, JoinFew DEF d
    <2>8. Once(code \o <<a, b>>)
      BY <2>6, <2>7 DEF Numbered
    <2> QED
      BY <1>5, <2>1, <2>8, Zenon
  <1>21. ASSUME NEW kind \in {"if", "for"}, Condition(kind) PROVE OnceInv'
    <2> DEFINE cut == Truncated(kind, Top.opnd)
               o == Top.opnd
               in == ConditionInstrs(cut, o, next, kind)
    <2>1. /\ stack # <<>>
          /\ Finish(kind, Top.ok /\ Top.ty = "bool", Top.real = "bool", in, "", <<>>)
      BY <1>21, Zenon DEF Condition, ConditionInstrs
    <2>2. stm = NoStatement
      BY <2>1 DEF Finish
    <2>3. cut \in BOOLEAN
      BY DEF Truncated
    <2>4. code \o in = ConditionCode(code, cut, o, next, kind)
      BY <1>2, <2>2, <2>3, ConditionJoined
    <2> HIDE DEF cut, in
    <2>5. Once(code \o in)
      BY <1>1, <1>2, <1>3, <2>1, <2>2, <2>3, <2>4, ConditionWritten
    <2> QED
      BY <1>5, <2>1, <2>5
  <1>22. CASE UNCHANGED vars
    BY <1>22 DEF vars, OnceInv
  <1> QED
    BY <1>9, <1>10, <1>11, <1>12, <1>13, <1>14, <1>15, <1>16, <1>17, <1>18, <1>19, <1>20,
       <1>21, <1>22 DEF Next

(* No register is assigned twice, nor used before it is assigned, though   *)
(* RegisterGen numbers them in another order than the code uses them.      *)
THEOREM RegistersAssignedOnce == Spec => []AssignedOnce
  <1>1. OnceInv => AssignedOnce
    BY DEF OnceInv, AssignedOnce, Once
  <1>2. Init => TypeInv /\ OnceInv
    BY TypeInit, OnceInit
  <1>3. TypeInv /\ OnceInv /\ [Next]_vars => TypeInv' /\ OnceInv'
    BY TypeNext, OnceNext
  <1> QED
    BY <1>1, <1>2, <1>3, PTL DEF Spec

-----------------------------------------------------------------------------
(* The code of a well-typed statement.  First its instructions, one by     *)
(* one: what is used fits, and the register gets the value it should.      *)
Suits(o, used) ==
    \/ o.ty \in Lenient
    \/ o.kind = "temp" /\ TypeToLLVMString(o.ty) = used
    \/ o.kind = "imm" /\ IF o.ty = "nil" THEN used \in {"ptr", "%struct.S*"}
                                         ELSE used \in {"i1", "i64"}

LEMMA SuitsFits ==
    ASSUME NEW c, NEW in, NEW i, SeesTyped(c, in.args[i]), Suits(in.args[i], UsedAs(in, i))
    PROVE  FitsAfter(c, in, i)
  <1> DEFINE o == in.args[i]
  <1>1. CASE o.ty \in Lenient
    BY <1>1 DEF FitsAfter, Excused
  <1>2. CASE o.ty \notin Lenient
    <2>1. CASE o.kind = "temp"
      BY <1>2, <2>1 DEF Suits, SeesTyped, FitsAfter
    <2>2. CASE o.kind = "imm"
      BY <1>2, <2>2 DEF Suits, FitsAfter
    <2> QED
      BY <1>2, <2>1, <2>2 DEF Suits
  <1> QED
    BY <1>1, <1>2

(* The operand has the value x, of the type its text says.                 *)
Given(c, o, x) ==
    x \in Int /\ IsOperand(o) /\ Operand(o) /\ Sees(c, o) /\ Delivers(c, o, x)

LEMMA GivenValue ==
    ASSUME NEW c, NEW o, NEW x, Given(c, o, x)
    PROVE  /\ Sees(c, o) /\ SeesTyped(c, o) /\ x \in Int
           /\ ~Trapped(c) => ~After(c).trap /\ Value(After(c), o) = x
  BY Zenon DEF Given, Delivers, Carries, Trapped

LEMMA NumbersGiven ==
    ASSUME NEW c, NEW x \in Int, NEW ty
    PROVE  Given(c, Immediate(x, ty), x)
  <1> DEFINE o == Immediate(x, ty)
  <1>1. o.kind = "imm" /\ o.val = x
    BY DEF Immediate
  <1>2. IsOperand(o)
    BY DEF IsOperand
  <1> HIDE DEF o
  <1>3. Given(c, o, x)
    BY <1>1, <1>2 DEF Given, Operand, Sees, SeesTyped, Delivers, Carries, Value
  <1> QED
    BY <1>3 DEF o

LEMMA AddsHere ==
    ASSUME NEW c, NEW n \in Registered, Numbered(c, n), Right(c), NEW in, in.dest.id = n,
           \A i \in DOMAIN in.args : Sees(c, in.args[i]),
           \A i \in ValueOperands(in) :
              SeesTyped(c, in.args[i]) /\ Suits(in.args[i], UsedAs(in, i)),
           NEW x, NEW bad \in BOOLEAN,
           ~Trapped(c) /\ ~bad => x \in Int /\ Yields(After(c), in, x),
           ~Trapped(c) /\ bad => Exec(After(c), in) = [After(c) EXCEPT !.trap = TRUE]
    PROVE  Grows(c, Append(c, in), n + 1, in, x, bad)
  <1>1. n + 1 \in Nat /\ in.dest.id \in n..((n + 1) - 1) /\ (n + 1) - 1 \in Registered
    BY MaxNodesAssumption DEF Registered
  <1>2. \A i \in ValueOperands(in) : FitsAfter(c, in, i)
    BY SuitsFits
  <1> HIDE DEF Registered
  <1> QED
    BY <1>1, <1>2, Adds

LEMMA LoadVariableAdds ==
    ASSUME MemoryInv, NEW c, NEW n \in Registered, Numbered(c, n), Right(c), NEW v \in Names
    PROVE  LET in == Load(GetType[v], Temp(n, GetType[v]), Variable(v, GetType[v]))
           IN  /\ Grows(c, Append(c, in), n + 1, in, memory.vars[v], FALSE)
               /\ Returns(in, Temp(n, GetType[v]))
  <1> DEFINE a == Variable(v, GetType[v])
             in == Load(GetType[v], Temp(n, GetType[v]), a)
  <1>1. /\ in.op = "Load" /\ in.dest = Temp(n, GetType[v]) /\ in.args = <<a>>
        /\ in.ty = GetType[v]
    BY DEF Load, Instr
  <1>2. in.dest.id = n
    BY DEF Load, Instr, Temp
  <1>3. a.kind = "var" /\ a.name = v /\ Sees(c, a)
    BY DEF Variable, Sees
  <1>4. ValueOperands(in) = {} /\ DefinedAs(in) = TypeToLLVMString(GetType[v])
    BY <1>1 DEF ValueOperands, DefinedAs
  <1>5. Returns(in, Temp(n, GetType[v]))
    BY <1>2, <1>4 DEF Returns, Temp
  <1>6. memory.vars[v] \in Int
    BY DEF MemoryInv, Machines
  <1>7. ~Trapped(c) => Yields(After(c), in, memory.vars[v])
    <2>1. ~Trapped(c) => Yields(After(c), in, After(c).vars[a.name])
      BY <1>3, ExecLoadVariable DEF Trapped
    <2> QED
      BY <1>3, <2>1 DEF Right
  <1> HIDE DEF in, a
  <1>8. \A i \in DOMAIN in.args : Sees(c, in.args[i])
    BY <1>1, <1>3, ArgsSeen
  <1>9. Grows(c, Append(c, in), n + 1, in, memory.vars[v], FALSE)
    BY <1>2, <1>4, <1>6, <1>7, <1>8, AddsHere
  <1> QED
    BY <1>5, <1>9 DEF in, a

LEMMA AddressAdds ==
    ASSUME NEW c, NEW n \in Registered, Numbered(c, n), Right(c), NEW a, NEW x \in Int,
           Sees(c, a), Carries(c, a, x), NEW ty, NEW field
    PROVE  LET in == GetElementPtr(Temp(n, ty), a, field)
           IN  Grows(c, Append(c, in), n + 1, in, x + Offset(field), FALSE)
  <1> DEFINE in == GetElementPtr(Temp(n, ty), a, field)
  <1>1. in.op = "GetElementPtr" /\ in.dest = Temp(n, ty) /\ in.args = <<a>>
    BY DEF GetElementPtr, Instr
  <1>2. in.dest.id = n
    BY DEF GetElementPtr, Instr, Temp
  <1>3. ValueOperands(in) = {}
    BY <1>1 DEF ValueOperands
  <1>4. x + Offset(field) \in Int
    BY DEF Offset
  <1>5. ~Trapped(c) => Yields(After(c), in, x + Offset(field))
    BY ExecGetElementPtr DEF Trapped, Carries
  <1> HIDE DEF in
  <1>6. \A i \in DOMAIN in.args : Sees(c, in.args[i])
    BY <1>1, ArgsSeen
  <1>7. Grows(c, Append(c, in), n + 1, in, x + Offset(field), FALSE)
    BY <1>2, <1>3, <1>4, <1>5, <1>6, AddsHere
  <1> QED
    BY <1>7 DEF in

LEMMA LoadFieldAdds ==
    ASSUME MemoryInv, NEW c, NEW n \in Registered, Numbered(c, n), Right(c), NEW a,
           a.kind = "temp", NEW x \in Int, Sees(c, a), Carries(c, a, x), NEW ty
    PROVE  LET in == Load(ty, Temp(n, ty), a)
           IN  /\ Grows(c, Append(c, in), n + 1, in, memory.heap[x], x \notin Heap)
               /\ Returns(in, Temp(n, ty))
  <1> DEFINE in == Load(ty, Temp(n, ty), a)
             m == After(c)
  <1>1. in.op = "Load" /\ in.dest = Temp(n, ty) /\ in.args = <<a>> /\ in.ty = ty
    BY DEF Load, Instr
  <1>2. in.dest.id = n
    BY DEF Load, Instr, Temp
  <1>3. ValueOperands(in) = {} /\ DefinedAs(in) = TypeToLLVMString(ty)
    BY <1>1 DEF ValueOperands, DefinedAs
  <1>4. Returns(in, Temp(n, ty))
    BY <1>2, <1>3 DEF Returns, Temp
  <1>5. m.heap = memory.heap /\ memory.heap \in [Heap -> Int]
    BY DEF Right, MemoryInv, Machines
  <1>6. ~Trapped(c) => ~m.trap /\ Value(m, a) = x
    BY DEF Trapped, Carries
  <1> HIDE DEF m
  <1>7. ~Trapped(c) => IF x \in Heap THEN Yields(m, in, memory.heap[x])
                       ELSE Exec(m, in) = [m EXCEPT !.trap = TRUE]
    <2>1. ~Trapped(c) => IF Value(m, a) \in DOMAIN m.heap THEN Yields(m, in, m.heap[Value(m, a)])
                         ELSE Exec(m, in) = [m EXCEPT !.trap = TRUE]
      BY <1>6, ExecLoadField
    <2>2. DOMAIN m.heap = Heap
      BY <1>5
    <2> HIDE DEF in
    <2> QED
      BY <1>5, <1>6, <2>1, <2>2
  <1>8. x \in Heap => memory.heap[x] \in Int
    BY <1>5
  <1> HIDE DEF in
  <1>9. \A i \in DOMAIN in.args : Sees(c, in.args[i])
    BY <1>1, ArgsSeen
  <1>10. Grows(c, Append(c, in), n + 1, in, memory.heap[x], x \notin Heap)
    BY <1>2, <1>3, <1>7, <1>8, <1>9, AddsHere DEF m
  <1> QED
    BY <1>4, <1>10 DEF in

LEMMA MallocAdds ==
    ASSUME NEW c, NEW n \in Registered, Numbered(c, n), Right(c)
    PROVE  LET in == Malloc(Temp(n, "S"))
           IN  /\ Grows(c, Append(c, in), n + 1, in, NewObject, FALSE)
               /\ Returns(in, Temp(n, "i8*"))
  <1> DEFINE in == Malloc(Temp(n, "S"))
  <1>1. in.op = "Malloc" /\ in.dest = Temp(n, "S") /\ in.args = <<>> /\ in.ty = "i8*"
    BY DEF Malloc, Instr
  <1>2. in.dest.id = n
    BY DEF Malloc, Instr, Temp
  <1>3. ValueOperands(in) = {} /\ DefinedAs(in) = TypeToLLVMString("i8*")
    BY <1>1 DEF ValueOperands, DefinedAs
  <1>4. Returns(in, Temp(n, "i8*"))
    BY <1>2, <1>3 DEF Returns, Temp
  <1>5. ~Trapped(c) => Yields(After(c), in, NewObject)
    BY ExecMalloc DEF Trapped
  <1> HIDE DEF in
  <1>6. \A i \in DOMAIN in.args : Sees(c, in.args[i])
    BY <1>1, ArgsSeen
  <1>7. NewObject \in Int
    BY DEF NewObject
  <1>8. Grows(c, Append(c, in), n + 1, in, NewObject, FALSE)
    BY <1>2, <1>3, <1>5, <1>6, <1>7, AddsHere
  <1> QED
    BY <1>4, <1>8 DEF in

LEMMA BitcastAdds ==
    ASSUME NEW c, NEW n \in Registered, Numbered(c, n), Right(c), NEW a, NEW x, Given(c, a, x),
           a.kind = "temp", NEW ty, NEW ty2
    PROVE  LET in == Bitcast(Temp(n, ty), a, ty2)
           IN  /\ Grows(c, Append(c, in), n + 1, in, x, FALSE)
               /\ Returns(in, Temp(n, ty2))
  <1> DEFINE in == Bitcast(Temp(n, ty), a, ty2)
  <1>1. in.op = "Bitcast" /\ in.dest = Temp(n, ty) /\ in.args = <<a>> /\ in.ty = ty2
    BY DEF Bitcast, Instr
  <1>2. in.dest.id = n
    BY DEF Bitcast, Instr, Temp
  <1>3. ValueOperands(in) = 1..1 /\ DefinedAs(in) = TypeToLLVMString(ty2)
    BY <1>1 DEF ValueOperands, DefinedAs
  <1>4. Returns(in, Temp(n, ty2))
    BY <1>2, <1>3 DEF Returns, Temp
  <1>5. Sees(c, a) /\ SeesTyped(c, a) /\ x \in Int
        /\ (~Trapped(c) => ~After(c).trap /\ Value(After(c), a) = x)
    BY GivenValue
  <1>6. ~Trapped(c) => Yields(After(c), in, x)
    BY <1>5, ExecBitcast
  <1> HIDE DEF in
  <1>7. in.args[1] = a /\ \A i \in 1..1 : i = 1
    BY <1>1
  <1>8. Suits(a, UsedAs(in, 1))
    BY <1>1, <1>7 DEF Suits, UsedAs
  <1>9. \A i \in DOMAIN in.args : Sees(c, in.args[i])
    BY <1>1, <1>5, ArgsSeen
  <1>10. \A i \in ValueOperands(in) : SeesTyped(c, in.args[i]) /\ Suits(in.args[i], UsedAs(in, i))
    BY <1>3, <1>5, <1>7, <1>8
  <1>11. Grows(c, Append(c, in), n + 1, in, x, FALSE)
    BY <1>2, <1>5, <1>6, <1>9, <1>10, AddsHere
  <1> QED
    BY <1>4, <1>11 DEF in

LEMMA CallAdds ==
    ASSUME NEW c, NEW n \in Registered, Numbered(c, n), Right(c), NEW a, NEW x, Given(c, a, x),
           Suits(a, "i64"), NEW ty, NEW fn
    PROVE  LET in == CallAssign(Temp(n, "unknown"), ty, fn, "int", a)
           IN  /\ Grows(c, Append(c, in), n + 1, in, Called(fn, x), FALSE)
               /\ Returns(in, Temp(n, "unknown"))
  <1> DEFINE in == CallAssign(Temp(n, "unknown"), ty, fn, "int", a)
  <1>1. /\ in.op = "CallAssign" /\ in.dest = Temp(n, "unknown") /\ in.args = <<a>>
        /\ in.code = <<fn, "int">>
    BY DEF CallAssign, Instr
  <1>2. in.dest.id = n
    BY DEF CallAssign, Instr, Temp
  <1>3. ValueOperands(in) = 1..1
    BY <1>1 DEF ValueOperands
  <1>4. Returns(in, Temp(n, "unknown"))
    BY <1>2 DEF Returns, Temp, Lenient
  <1>5. Sees(c, a) /\ SeesTyped(c, a) /\ x \in Int
        /\ (~Trapped(c) => ~After(c).trap /\ Value(After(c), a) = x)
    BY GivenValue
  <1>6. ~Trapped(c) => Yields(After(c), in, Called(fn, x))
    BY <1>5, ExecCallAssign
  <1>7. Called(fn, x) \in Int
    BY <1>5 DEF Called, Bit
  <1> HIDE DEF in
  <1>8. in.args[1] = a /\ \A i \in 1..1 : i = 1
    BY <1>1
  <1>9. UsedAs(in, 1) = "i64"
    <2>1. in.code[2] = "int"
      BY <1>1
    <2> QED
      BY <1>1, <2>1 DEF UsedAs, TypeToLLVMString
  <1>10. \A i \in DOMAIN in.args : Sees(c, in.args[i])
    BY <1>1, <1>5, ArgsSeen
  <1>11. \A i \in ValueOperands(in) : SeesTyped(c, in.args[i]) /\ Suits(in.args[i], UsedAs(in, i))
    BY <1>3, <1>5, <1>8, <1>9
  <1>12. Grows(c, Append(c, in), n + 1, in, Called(fn, x), FALSE)
    BY <1>2, <1>6, <1>7, <1>10, <1>11, AddsHere
  <1> QED
    BY <1>4, <1>12 DEF in

LEMMA TruncAdds ==
    ASSUME NEW c, NEW n \in Registered, Numbered(c, n), Right(c), NEW a, NEW x, Given(c, a, x),
           Suits(a, "i64")
    PROVE  LET in == Trunc(Temp(n, "i1"), a)
           IN  /\ Grows(c, Append(c, in), n + 1, in, x, FALSE)
               /\ Returns(in, Temp(n, "i1"))
  <1> DEFINE in == Trunc(Temp(n, "i1"), a)
  <1>1. in.op = "Trunc" /\ in.dest = Temp(n, "i1") /\ in.args = <<a>>
    BY DEF Trunc, Instr
  <1>2. in.dest.id = n
    BY DEF Trunc, Instr, Temp
  <1>3. ValueOperands(in) = 1..1
    BY <1>1 DEF ValueOperands
  <1>4. Returns(in, Temp(n, "i1"))
    BY <1>2 DEF Returns, Temp, Lenient
  <1>5. Sees(c, a) /\ SeesTyped(c, a) /\ x \in Int
        /\ (~Trapped(c) => ~After(c).trap /\ Value(After(c), a) = x)
    BY GivenValue
  <1>6. ~Trapped(c) => Yields(After(c), in, x)
    BY <1>5, ExecTrunc
  <1> HIDE DEF in
  <1>7. in.args[1] = a /\ \A i \in 1..1 : i = 1
    BY <1>1
  <1>8. UsedAs(in, 1) = "i64"
    BY <1>1 DEF UsedAs
  <1>9. \A i \in DOMAIN in.args : Sees(c, in.args[i])
    BY <1>1, <1>5, ArgsSeen
  <1>10. \A i \in ValueOperands(in) : SeesTyped(c, in.args[i]) /\ Suits(in.args[i], UsedAs(in, i))
    BY <1>3, <1>5, <1>7, <1>8
  <1>11. Grows(c, Append(c, in), n + 1, in, x, FALSE)
    BY <1>2, <1>5, <1>6, <1>9, <1>10, AddsHere
  <1> QED
    BY <1>4, <1>11 DEF in

LEMMA SelectAdds ==
    ASSUME NEW c, NEW n \in Registered, Numbered(c, n), Right(c), NEW a, NEW x \in {0, 1},
           Given(c, a, x), a.ty \in Lenient, NEW ty \in {"i1", "i64"}
    PROVE  LET in == Select(Temp(n, ty), a, ty)
           IN  /\ Grows(c, Append(c, in), n + 1, in, x, FALSE)
               /\ Returns(in, Temp(n, ty))
  <1> DEFINE in == Select(Temp(n, ty), a, ty)
  <1>1. /\ in.op = "Select" /\ in.dest = Temp(n, ty) /\ in.args = <<a, One(ty), Zero(ty)>>
        /\ in.ty = ty
    BY DEF Select, Instr
  <1>2. in.dest.id = n
    BY DEF Select, Instr, Temp
  <1>3. DefinedAs(in) = TypeToLLVMString(ty)
    BY <1>1 DEF DefinedAs
  <1>4. Returns(in, Temp(n, ty))
    BY <1>2, <1>3 DEF Returns, Temp
  <1>5. Sees(c, a) /\ SeesTyped(c, a) /\ x \in Int
        /\ (~Trapped(c) => ~After(c).trap /\ Value(After(c), a) = x)
    BY GivenValue
  <1>6. ~Trapped(c) => Yields(After(c), in, x)
    <2>1. ~Trapped(c) => Yields(After(c), in, IF Value(After(c), a) = 1 THEN 1 ELSE 0)
      BY <1>5, ExecSelect
    <2> HIDE DEF in
    <2> QED
      BY <1>5, <2>1
  <1>7. \A i \in DOMAIN in.args : Sees(c, in.args[i])
    <2> HIDE DEF in
    <2> QED
      BY <1>1, <1>5, ArgsSeen, NumbersSeen
  <1> HIDE DEF in
  <1>8. /\ DOMAIN in.args = 1..3 /\ in.args[1] = a
        /\ in.args[2] = One(ty) /\ in.args[3] = Zero(ty)
    BY <1>1
  <1>9. ValueOperands(in) = 1..3
    BY <1>1, <1>8 DEF ValueOperands
  <1>10. Suits(a, UsedAs(in, 1))
    BY DEF Suits
  <1>11. \A i \in {2, 3} : UsedAs(in, i) = TypeToLLVMString(ty)
    BY <1>1 DEF UsedAs
  <1>12. TypeToLLVMString(ty) \in {"i1", "i64"}
    BY DEF TypeToLLVMString
  <1>13. ASSUME NEW y, NEW u \in {"i1", "i64"} PROVE Suits(Immediate(y, ty), u)
                                                  /\ SeesTyped(c, Immediate(y, ty))
    BY DEF Suits, SeesTyped, Immediate
  <1>14. \A i \in {2, 3} : SeesTyped(c, in.args[i]) /\ Suits(in.args[i], UsedAs(in, i))
    BY <1>8, <1>11, <1>12, <1>13 DEF One, Zero
  <1>15. \A i \in ValueOperands(in) : SeesTyped(c, in.args[i]) /\ Suits(in.args[i], UsedAs(in, i))
    BY <1>5, <1>8, <1>9, <1>10, <1>14
  <1>16. Grows(c, Append(c, in), n + 1, in, x, FALSE)
    BY <1>2, <1>5, <1>6, <1>7, <1>15, AddsHere
  <1> QED
    BY <1>4, <1>16 DEF in

LEMMA ArithmeticInt ==
    ASSUME NEW a \in Int, NEW b \in Int, NEW op \in {"add", "sub", "mul", "sdiv", "and", "or"}
    PROVE  Arithmetic(op, a, b) \in Int
  <1>1. Quotient(a, b) \in Int
    <2>1. CASE b = 0
      BY <2>1 DEF Quotient
    <2>2. CASE b # 0
      <3>1. Abs(a) \in Nat /\ Abs(b) \in Nat \ {0}
        BY <2>2 DEF Abs
      <3>2. Abs(a) \div Abs(b) \in Int
        BY <3>1
      <3>3. 1 * (Abs(a) \div Abs(b)) \in Int /\ (-1) * (Abs(a) \div Abs(b)) \in Int
        BY <3>2
      <3> QED
        BY <2>2, <3>3 DEF Quotient
    <2> QED
      BY <2>1, <2>2
  <1>2. Both(a, b) \in Int /\ Either(a, b) \in Int
    BY DEF Both, Either, Bit
  <1>3. a + b \in Int /\ a - b \in Int /\ a * b \in Int
    OBVIOUS
  <1> QED
    BY <1>1, <1>2, <1>3 DEF Arithmetic

LEMMA BinOpAdds ==
    ASSUME NEW c, NEW n \in Registered, Numbered(c, n), Right(c),
           NEW a, NEW x, Given(c, a, x), Suits(a, "i64"),
           NEW b, NEW y, Given(c, b, y), Suits(b, "i64"),
           NEW op \in {"add", "sub", "mul", "sdiv", "and", "or"}
    PROVE  LET in == BinOp(Temp(n, "i64"), op, a, b)
           IN  /\ Grows(c, Append(c, in), n + 1, in, Arithmetic(op, x, y), FALSE)
               /\ Returns(in, Temp(n, "i64"))
  <1> DEFINE in == BinOp(Temp(n, "i64"), op, a, b)
  <1>1. in.op = "BinOp" /\ in.dest = Temp(n, "i64") /\ in.args = <<a, b>>
    BY DEF BinOp, Instr
  <1>2. in.dest.id = n
    BY DEF BinOp, Instr, Temp
  <1>3. ValueOperands(in) = 1..2 /\ DefinedAs(in) = "i64"
    BY <1>1 DEF ValueOperands, DefinedAs
  <1>4. Returns(in, Temp(n, "i64"))
    BY <1>2, <1>3 DEF Returns, Temp, TypeToLLVMString
  <1>5. /\ Sees(c, a) /\ SeesTyped(c, a) /\ x \in Int /\ Sees(c, b) /\ SeesTyped(c, b) /\ y \in Int
        /\ ~Trapped(c) => /\ ~After(c).trap /\ Value(After(c), a) = x /\ Value(After(c), b) = y
    BY GivenValue
  <1>6. ~Trapped(c) => Yields(After(c), in, Arithmetic(op, x, y))
    <2>1. ~Trapped(c) => Yields(After(c), in, Arithmetic(op, Value(After(c), a), Value(After(c), b)))
      BY <1>5, ExecBinOp
    <2> HIDE DEF in
    <2> QED
      BY <1>5, <2>1
  <1>7. Arithmetic(op, x, y) \in Int
    BY <1>5, ArithmeticInt
  <1> HIDE DEF in
  <1>8. in.args[1] = a /\ in.args[2] = b /\ \A i \in 1..2 : i = 1 \/ i = 2
    BY <1>1
  <1>9. \A i \in 1..2 : UsedAs(in, i) = "i64"
    BY <1>1 DEF UsedAs
  <1>10. \A i \in DOMAIN in.args : Sees(c, in.args[i])
    BY <1>1, <1>5, ArgsSeen
  <1>11. \A i \in ValueOperands(in) : SeesTyped(c, in.args[i]) /\ Suits(in.args[i], UsedAs(in, i))
    BY <1>3, <1>5, <1>8, <1>9
  <1>12. Grows(c, Append(c, in), n + 1, in, Arithmetic(op, x, y), FALSE)
    BY <1>2, <1>6, <1>7, <1>10, <1>11, AddsHere
  <1> QED
    BY <1>4, <1>12 DEF in

(* A comparison in the type of its left operand.  With nil on the left the *)
(* text may be ill typed.                                                  *)
LEMMA ICMPAdds ==
    ASSUME NEW c, NEW n \in Registered, Numbered(c, n), Right(c),
           NEW a, NEW x, Given(c, a, x), NEW b, NEW y, Given(c, b, y), NEW cc, NEW ty,
           a.ty = "nil" \/ (Suits(a, TypeToLLVMString(ty)) /\ Suits(b, TypeToLLVMString(ty)))
    PROVE  LET in == ICMP(Temp(n, "i1"), cc, ty, a, b)
           IN  /\ Grows(c, Append(c, in), n + 1, in, Bit(Holds(cc, x, y)), FALSE)
               /\ Returns(in, Temp(n, "i1"))
  <1> DEFINE in == ICMP(Temp(n, "i1"), cc, ty, a, b)
  <1>1. in.op = "ICMP" /\ in.dest = Temp(n, "i1") /\ in.args = <<a, b>> /\ in.ty = ty
    BY DEF ICMP, Instr
  <1>2. in.dest.id = n
    BY DEF ICMP, Instr, Temp
  <1>3. ValueOperands(in) = 1..2
    BY <1>1 DEF ValueOperands
  <1>4. Returns(in, Temp(n, "i1"))
    BY <1>2 DEF Returns, Temp, Lenient
  <1>5. /\ Sees(c, a) /\ SeesTyped(c, a) /\ x \in Int /\ Sees(c, b) /\ SeesTyped(c, b) /\ y \in Int
        /\ ~Trapped(c) => /\ ~After(c).trap /\ Value(After(c), a) = x /\ Value(After(c), b) = y
    BY GivenValue
  <1>6. ~Trapped(c) => Yields(After(c), in, Bit(Holds(cc, x, y)))
    <2>1. ~Trapped(c) => Yields(After(c), in, Bit(Holds(cc, Value(After(c), a), Value(After(c), b))))
      BY <1>5, ExecICMP
    <2> HIDE DEF in
    <2> QED
      BY <1>5, <2>1
  <1>7. Bit(Holds(cc, x, y)) \in Int
    BY DEF Bit
  <1> HIDE DEF in
  <1>8. in.args[1] = a /\ in.args[2] = b /\ \A i \in 1..2 : i = 1 \/ i = 2
    BY <1>1
  <1>9. \A i \in 1..2 : UsedAs(in, i) = TypeToLLVMString(ty)
    BY <1>1 DEF UsedAs
  <1>10. \A i \in DOMAIN in.args : Sees(c, in.args[i])
    BY <1>1, <1>5, ArgsSeen
  <1>11. ASSUME NEW i \in ValueOperands(in) PROVE FitsAfter(c, in, i)
    <2>1. CASE a.ty = "nil"
      BY <1>1, <1>8, <2>1 DEF FitsAfter, Excused
    <2>2. CASE a.ty # "nil"
      <3>1. SeesTyped(c, in.args[i]) /\ Suits(in.args[i], UsedAs(in, i))
        BY <1>3, <1>5, <1>8, <1>9, <2>2
      <3> QED
        BY <3>1, SuitsFits
    <2> QED
      BY <2>1, <2>2
  <1>12. n + 1 \in Nat /\ in.dest.id \in n..((n + 1) - 1) /\ (n + 1) - 1 \in Registered
    BY <1>2, MaxNodesAssumption DEF Registered
  <1>13. Grows(c, Append(c, in), n + 1, in, Bit(Holds(cc, x, y)), FALSE)
    BY <1>6, <1>7, <1>10, <1>11, <1>12, Adds
  <1> QED
    BY <1>4, <1>13 DEF in

(* d is c with more code.                                                  *)
Leads(c, d, n) == Numbered(d, n) /\ Right(d) /\ Keeps(c, d)

LEMMA LeadsOn ==
    ASSUME NEW b, NEW c, NEW d, NEW n, NEW m, Leads(b, c, n), Leads(c, d, m)
    PROVE  Leads(b, d, m)
  <1>1. Keeps(b, d)
    BY KeepsOn, Zenon DEF Leads
  <1> QED
    BY <1>1, Zenon DEF Leads

LEMMA LeadsNowhere ==
    ASSUME NEW c, NEW n, Numbered(c, n), Right(c)
    PROVE  Leads(c, c, n)
  <1>1. Keeps(c, c)
    BY Zenon DEF Keeps
  <1> QED
    BY <1>1, Zenon DEF Leads

LEMMA LeadsLater ==
    ASSUME NEW c, NEW d, NEW n, Leads(c, d, n), NEW m \in Nat, n <= m
    PROVE  Leads(c, d, m)
  <1>1. Numbered(d, m)
    BY Later DEF Leads
  <1> QED
    BY <1>1, Zenon DEF Leads

LEMMA GivenKept ==
    ASSUME NEW c, NEW d, Keeps(c, d), NEW o, NEW x, Given(c, o, x)
    PROVE  Given(d, o, x)
  <1>1. Sees(d, o)
    BY Zenon DEF Keeps, Given
  <1>2. Delivers(d, o, x)
    BY Zenon DEF Keeps, Given
  <1> QED
    BY <1>1, <1>2, Zenon DEF Given

(* What an instruction more gives.                                         *)
LEMMA GrowsLeads ==
    ASSUME NEW c, NEW d, NEW n \in Registered, NEW in, NEW x, NEW bad,
           Grows(c, d, n + 1, in, x, bad), in.dest.id = n
    PROVE  /\ Leads(c, d, n + 1) /\ (Trapped(d) <=> Trapped(c) \/ bad)
           /\ \A ty : Sees(d, Temp(n, ty)) /\ Carries(d, Temp(n, ty), x)
           /\ \A ty : x \in Int /\ Returns(in, Temp(n, ty)) => Given(d, Temp(n, ty), x)
  <1>1. Leads(c, d, n + 1) /\ (Trapped(d) <=> Trapped(c) \/ bad) /\ Answers(d, in, x)
    BY Zenon DEF Grows, Leads
  <1>2. ASSUME NEW ty
        PROVE  /\ Temp(n, ty).kind = "temp" /\ Temp(n, ty).id = in.dest.id
               /\ Operand(Temp(n, ty)) /\ IsOperand(Temp(n, ty))
    BY DEF Temp, Operand, IsOperand
  <1>3. ASSUME NEW ty
        PROVE  /\ Sees(d, Temp(n, ty)) /\ Carries(d, Temp(n, ty), x)
               /\ Returns(in, Temp(n, ty)) => Delivers(d, Temp(n, ty), x)
    BY <1>1, <1>2, Zenon DEF Answers
  <1> QED
    BY <1>1, <1>2, <1>3, Zenon DEF Given

(* The operand of an expression of every type.                             *)
OperandFor(real, o) ==
    /\ real = "int" => o.ty \in {"int", "i64", "unknown"}
    /\ real = "bool" => o.ty \in Lenient \cup {"i64"} /\ (o.kind = "imm" => o.ty = "bool")
    /\ real = "S" => o.kind = "temp" /\ o.ty = "S"
    /\ real = "nil" => o.kind = "imm" /\ o.ty = "nil"

LEMMA SuitsReal ==
    ASSUME NEW real, NEW o, IsOperand(o), OperandFor(real, o)
    PROVE  /\ real \in {"int", "bool"} => Suits(o, "i64")
           /\ real \in {"S", "nil"} => Suits(o, "%struct.S*")
           /\ real = "nil" => Suits(o, "ptr")
  <1>1. o.kind \in {"temp", "imm"}
    <2>1. PICK x, ty : o = Temp(x, ty) \/ o = Immediate(x, ty)
      BY DEF IsOperand
    <2>2. Temp(x, ty).kind = "temp" /\ Immediate(x, ty).kind = "imm"
      BY DEF Temp, Immediate
    <2> QED
      BY <2>1, <2>2
  <1> QED
    BY <1>1 DEF OperandFor, Suits, Lenient, TypeToLLVMString

(* A finished expression: its operand has its value, whatever the type.    *)
Elem(c, e) ==
    /\ Given(c, e.opnd, e.val) /\ OperandFor(e.real, e.opnd)
    /\ e.trap \in BOOLEAN
    /\ e.real = "bool" => e.val \in {0, 1}

LEMMA ElemKept ==
    ASSUME NEW c, NEW d, Keeps(c, d), NEW e, Elem(c, e)
    PROVE  Elem(d, e)
  BY GivenKept, Zenon DEF Elem

(* The code of a path leads to the address of its last field; it traps if  *)
(* the fields before lead nowhere.                                         *)
LEMMA FollowFacts ==
    ASSUME MemoryInv, NEW at, at.val \in Int, at.trap \in BOOLEAN, NEW field
    PROVE  LET to == Follow(at, field)
           IN  /\ to.val \in Int /\ to.trap \in BOOLEAN
               /\ to.trap <=> at.trap \/ at.val + Offset(field) \notin Heap
               /\ ~to.trap => to.val = memory.heap[at.val + Offset(field)]
  <1>1. memory.heap \in [Heap -> Int] /\ DOMAIN memory.heap = Heap
    BY DEF MemoryInv, Machines
  <1>2. CASE at.trap \/ at.val + Offset(field) \notin Heap
    BY <1>1, <1>2 DEF Follow
  <1>3. CASE ~(at.trap \/ at.val + Offset(field) \notin Heap)
    BY <1>1, <1>3 DEF Follow
  <1> QED
    BY <1>2, <1>3

LEMMA RootFacts ==
    ASSUME MemoryInv, NEW v \in Names
    PROVE  Root(v).val = memory.vars[v] /\ Root(v).val \in Int /\ Root(v).trap = FALSE
  BY DEF Root, MemoryInv, Machines

AddressGiven(c, n, v, path) ==
    LET d == c \o AddressCode(v, path, n)
        place == Reached(v, Front(path))
    IN  /\ IsCode(AddressCode(v, path, n))
        /\ Leads(c, d, n + 2 * Len(path)) /\ (Trapped(d) <=> Trapped(c) \/ place.trap)
        /\ Sees(d, FieldAddress(path, n)) /\ FieldAddress(path, n).kind = "temp"
        /\ Carries(d, FieldAddress(path, n), place.val + Offset(Last(path)))
        /\ place.val \in Int /\ place.trap \in BOOLEAN
        /\ Reached(v, path) = Follow(place, Last(path))

LEMMA AddressMeant ==
    ASSUME MemoryInv, NEW c, NEW n, n \in Registered, n + 1 \in Registered, n + 2 \in Registered,
           n + 3 \in Registered, Numbered(c, n), Right(c), NEW v \in Names,
           NEW path \in Followed, path # <<>>
    PROVE  AddressGiven(c, n, v, path)
  <1> DEFINE load == Load(GetType[v], Temp(n, GetType[v]), Variable(v, GetType[v]))
             first(h) == GetElementPtr(Temp(n + 1, FieldType(h)), Temp(n, GetType[v]), h)
             next2(g) == Load(FieldType(g), Temp(n + 2, FieldType(g)), Temp(n + 1, FieldType(g)))
             second(g, f) == GetElementPtr(Temp(n + 3, FieldType(f)), Temp(n + 2, FieldType(g)), f)
             c1 == Append(c, load)
             c2(h) == Append(c1, first(h))
             c3(g) == Append(c2(g), next2(g))
             c4(g, f) == Append(c3(g), second(g, f))
             x1 == memory.vars[v]
             at(g) == Follow(Root(v), g)
  <1>0. n \in Int /\ IsCode(c) /\ x1 \in Int
    <2>1. n \in Int
      BY MaxNodesAssumption DEF Registered
    <2>2. IsCode(c)
      BY Zenon DEF Numbered
    <2>3. x1 \in Int
      BY RootFacts
    <2> QED
      BY <2>1, <2>2, <2>3
  <1>1. Leads(c, c1, n + 1) /\ (Trapped(c1) <=> Trapped(c)) /\ Sees(c1, Temp(n, GetType[v]))
        /\ Carries(c1, Temp(n, GetType[v]), x1)
    <2>1. Grows(c, c1, n + 1, load, x1, FALSE)
      BY LoadVariableAdds
    <2>2. load.dest.id = n
      BY DEF Load, Instr, Temp
    <2> HIDE DEF c1, load, x1
    <2> QED
      BY <2>1, <2>2, GrowsLeads
  <1> HIDE DEF c1, x1
  <1>2. ASSUME NEW h
        PROVE  /\ Leads(c, c2(h), n + 2) /\ (Trapped(c2(h)) <=> Trapped(c)) /\ Sees(c2(h), Temp(n + 1, FieldType(h)))
               /\ Carries(c2(h), Temp(n + 1, FieldType(h)), x1 + Offset(h))
    <2>1. Grows(c1, c2(h), (n + 1) + 1, first(h), x1 + Offset(h), FALSE)
      BY <1>0, <1>1, AddressAdds DEF Leads
    <2>2. first(h).dest.id = n + 1 /\ (n + 1) + 1 = n + 2
      <3>1. first(h).dest.id = n + 1
        BY DEF GetElementPtr, Instr, Temp
      <3>2. (n + 1) + 1 = n + 2
        BY <1>0
      <3> QED
        BY <3>1, <3>2
    <2> HIDE DEF c2, first
    <2>3. Leads(c1, c2(h), n + 2) /\ (Trapped(c2(h)) <=> Trapped(c1)) /\ Sees(c2(h), Temp(n + 1, FieldType(h)))
          /\ Carries(c2(h), Temp(n + 1, FieldType(h)), x1 + Offset(h))
      BY <2>1, <2>2, GrowsLeads
    <2>4. Leads(c, c2(h), n + 2)
      BY <1>1, <2>3, LeadsOn
    <2> QED
      BY <1>1, <2>3, <2>4
  <1> HIDE DEF c2
  <1>3. ASSUME NEW g
        PROVE  /\ Leads(c, c3(g), n + 3) /\ (Trapped(c3(g)) <=> Trapped(c) \/ at(g).trap)
               /\ Sees(c3(g), Temp(n + 2, FieldType(g)))
               /\ Carries(c3(g), Temp(n + 2, FieldType(g)), at(g).val)
               /\ at(g).val \in Int /\ at(g).trap \in BOOLEAN
    <2> DEFINE a == Temp(n + 1, FieldType(g))
               x == x1 + Offset(g)
    <2>1. x \in Int /\ a.kind = "temp"
      BY <1>0 DEF Offset, Temp
    <2>2. next2(g).dest.id = n + 2 /\ (n + 2) + 1 = n + 3
      <3>1. next2(g).dest.id = n + 2
        BY DEF Load, Instr, Temp
      <3>2. (n + 2) + 1 = n + 3
        BY <1>0
      <3> QED
        BY <3>1, <3>2
    <2>3. Numbered(c2(g), n + 2) /\ Right(c2(g)) /\ Sees(c2(g), a) /\ Carries(c2(g), a, x)
      BY <1>2 DEF Leads
    <2> HIDE DEF a
    <2>4. Grows(c2(g), c3(g), (n + 2) + 1, next2(g), memory.heap[x], x \notin Heap)
      BY <2>1, <2>3, LoadFieldAdds DEF a
    <2> HIDE DEF c3, next2
    <2>5. Leads(c2(g), c3(g), n + 3) /\ (Trapped(c3(g)) <=> Trapped(c2(g)) \/ x \notin Heap)
          /\ Sees(c3(g), Temp(n + 2, FieldType(g)))
          /\ Carries(c3(g), Temp(n + 2, FieldType(g)), memory.heap[x])
      BY <2>2, <2>4, GrowsLeads
    <2>6. Leads(c, c3(g), n + 3)
      BY <1>2, <2>5, LeadsOn
    <2>7. /\ at(g).val \in Int /\ at(g).trap \in BOOLEAN
          /\ at(g).trap <=> x \notin Heap
          /\ ~at(g).trap => at(g).val = memory.heap[x]
      BY RootFacts, FollowFacts DEF x1
    <2> HIDE DEF at, x
    <2>8. Trapped(c3(g)) <=> Trapped(c) \/ at(g).trap
      BY <1>2, <2>5, <2>7
    <2>9. Carries(c3(g), Temp(n + 2, FieldType(g)), at(g).val)
      BY <2>5, <2>7, <2>8 DEF Carries
    <2> QED
      BY <2>5, <2>6, <2>7, <2>8, <2>9
  <1> HIDE DEF c3, at
  <1>4. ASSUME NEW g, NEW f
        PROVE  /\ Leads(c, c4(g, f), n + 4)
               /\ (Trapped(c4(g, f)) <=> Trapped(c) \/ at(g).trap)
               /\ Sees(c4(g, f), Temp(n + 3, FieldType(f)))
               /\ Carries(c4(g, f), Temp(n + 3, FieldType(f)), at(g).val + Offset(f))
    <2>1. Grows(c3(g), c4(g, f), (n + 3) + 1, second(g, f), at(g).val + Offset(f), FALSE)
      BY <1>0, <1>3, AddressAdds DEF Leads
    <2>2. second(g, f).dest.id = n + 3 /\ (n + 3) + 1 = n + 4
      <3>1. second(g, f).dest.id = n + 3
        BY DEF GetElementPtr, Instr, Temp
      <3>2. (n + 3) + 1 = n + 4
        BY <1>0
      <3> QED
        BY <3>1, <3>2
    <2> HIDE DEF c4, second
    <2>3. Leads(c3(g), c4(g, f), n + 4) /\ (Trapped(c4(g, f)) <=> Trapped(c3(g)))
          /\ Sees(c4(g, f), Temp(n + 3, FieldType(f)))
          /\ Carries(c4(g, f), Temp(n + 3, FieldType(f)), at(g).val + Offset(f))
      BY <2>1, <2>2, GrowsLeads
    <2>4. Leads(c, c4(g, f), n + 4)
      BY <1>3, <2>3, LeadsOn
    <2> QED
      BY <1>3, <2>3, <2>4
  <1>5. ASSUME NEW f, NEW g
        PROVE  /\ c \o AddressCode(v, <<f>>, n) = c2(f)
               /\ c \o AddressCode(v, <<g, f>>, n) = c4(g, f)
               /\ IsCode(AddressCode(v, <<f>>, n)) /\ IsCode(AddressCode(v, <<g, f>>, n))
    <2>1. n \in Int /\ IsCode(c)
      BY <1>0
    <2>2. AddressJoins(c, v, f, g, n)
      BY <2>1, AddressJoined
    <2> QED
      BY <2>2, Zenon DEF AddressJoins, c1, c2, c3, c4
  <1>6. ASSUME NEW f, NEW g
        PROVE  /\ FieldAddress(<<f>>, n) = Temp(n + 1, FieldType(f))
               /\ FieldAddress(<<g, f>>, n) = Temp(n + 3, FieldType(f))
    BY <1>0, AddressFacts, Zenon DEF AddressIs
  <1>7. ASSUME NEW f, NEW g
        PROVE  /\ Reached(v, <<>>) = Root(v)
               /\ Reached(v, <<f>>) = Follow(Root(v), f)
               /\ Reached(v, <<g, f>>) = Follow(Follow(Root(v), g), f)
               /\ Front(<<f>>) = <<>> /\ Front(<<g, f>>) = <<g>>
    BY ReachedFacts, Zenon DEF ReachedIs
  <1> HIDE DEF c4
  <1>8. ASSUME NEW f, path = <<f>> PROVE AddressGiven(c, n, v, path)
    <2>1. Len(path) = 1 /\ n + 2 * Len(path) = n + 2 /\ Last(path) = f
      BY <1>8 DEF Last
    <2>2. c \o AddressCode(v, path, n) = c2(f) /\ IsCode(AddressCode(v, path, n))
      BY <1>5, <1>8
    <2>3. FieldAddress(path, n) = Temp(n + 1, FieldType(f)) /\ FieldAddress(path, n).kind = "temp"
      <3>1. FieldAddress(path, n) = Temp(n + 1, FieldType(f))
        BY <1>6, <1>8
      <3>2. Temp(n + 1, FieldType(f)).kind = "temp"
        BY DEF Temp
      <3> QED
        BY <3>1, <3>2
    <2>4. Reached(v, Front(path)) = Root(v) /\ Reached(v, path) = Follow(Root(v), f)
      BY <1>7, <1>8
    <2>5. Root(v).val = x1 /\ Root(v).trap = FALSE
      BY RootFacts DEF x1
    <2> QED
      BY <1>0, <1>2, <2>1, <2>2, <2>3, <2>4, <2>5, Zenon DEF AddressGiven
  <1>9. ASSUME NEW f, NEW g, path = <<g, f>> PROVE AddressGiven(c, n, v, path)
    <2>1. Len(path) = 2 /\ n + 2 * Len(path) = n + 4 /\ Last(path) = f
      BY <1>9 DEF Last
    <2>2. c \o AddressCode(v, path, n) = c4(g, f) /\ IsCode(AddressCode(v, path, n))
      BY <1>5, <1>9
    <2>3. FieldAddress(path, n) = Temp(n + 3, FieldType(f)) /\ FieldAddress(path, n).kind = "temp"
      <3>1. FieldAddress(path, n) = Temp(n + 3, FieldType(f))
        BY <1>6, <1>9
      <3>2. Temp(n + 3, FieldType(f)).kind = "temp"
        BY DEF Temp
      <3> QED
        BY <3>1, <3>2
    <2>4. Reached(v, Front(path)) = at(g) /\ Reached(v, path) = Follow(at(g), f)
      BY <1>7, <1>9 DEF at
    <2> QED
      BY <1>3, <1>4, <2>1, <2>2, <2>3, <2>4, Zenon DEF AddressGiven
  <1> QED
    BY <1>8, <1>9 DEF Followed

(* More code, whose result is the value x in the operand o.                *)
Meant(c, d, n, o, x) == Leads(c, d, n) /\ (Trapped(d) <=> Trapped(c)) /\ Given(d, o, x)

LEMMA GrowsMeant ==
    ASSUME NEW c, NEW d, NEW n \in Registered, NEW in, NEW x \in Int,
           Grows(c, d, n + 1, in, x, FALSE), in.dest.id = n, NEW ty, Returns(in, Temp(n, ty))
    PROVE  Meant(c, d, n + 1, Temp(n, ty), x)
  BY GrowsLeads DEF Meant

LEMMA VariableMeant ==
    ASSUME MemoryInv, NEW c, NEW n \in Registered, Numbered(c, n), Right(c), NEW v \in Names
    PROVE  LET t == Temp(n, GetType[v])
           IN  Meant(c, Append(c, Load(GetType[v], t, Variable(v, GetType[v]))), n + 1,
                     t, memory.vars[v])
  <1> DEFINE t == Temp(n, GetType[v])
             in == Load(GetType[v], t, Variable(v, GetType[v]))
             d == Append(c, in)
  <1>1. Grows(c, d, n + 1, in, memory.vars[v], FALSE) /\ Returns(in, t)
    BY LoadVariableAdds
  <1>2. in.dest.id = n
    BY DEF Load, Instr, Temp
  <1>3. memory.vars[v] \in Int
    BY RootFacts
  <1> HIDE DEF d, in
  <1>4. Meant(c, d, n + 1, Temp(n, GetType[v]), memory.vars[v])
    BY <1>1, <1>2, <1>3, GrowsMeant
  <1> QED
    BY <1>4 DEF d, in

LEMMA FieldMeant ==
    ASSUME MemoryInv, NEW c, NEW n \in Nat, \A k \in 0..4 : n + k \in Registered, Numbered(c, n),
           Right(c), NEW v \in Names, NEW path \in Followed, path # <<>>
    PROVE  LET ty == FieldType(Last(path))
               m == n + 2 * Len(path)
               t == Temp(m, ty)
               d == Append(c \o AddressCode(v, path, n), Load(ty, t, FieldAddress(path, n)))
               found == Reached(v, path)
           IN  /\ IsCode(AddressCode(v, path, n))
               /\ Leads(c, d, m + 1) /\ (Trapped(d) <=> Trapped(c) \/ found.trap)
               /\ Given(d, t, found.val) /\ found.trap \in BOOLEAN
  <1> DEFINE ty == FieldType(Last(path))
             m == n + 2 * Len(path)
             t == Temp(m, ty)
             a == FieldAddress(path, n)
             c1 == c \o AddressCode(v, path, n)
             in == Load(ty, t, a)
             d == Append(c1, in)
             place == Reached(v, Front(path))
             found == Reached(v, path)
             x == place.val + Offset(Last(path))
  <1>1. AddressGiven(c, n, v, path)
    <2>1. n + 0 \in Registered /\ n + 1 \in Registered /\ n + 2 \in Registered
          /\ n + 3 \in Registered /\ n + 0 = n
      OBVIOUS
    <2> QED
      BY <2>1, AddressMeant
  <1>2. /\ IsCode(AddressCode(v, path, n)) /\ Leads(c, c1, m) /\ (Trapped(c1) <=> Trapped(c) \/ place.trap)
        /\ Sees(c1, a) /\ a.kind = "temp" /\ Carries(c1, a, x)
        /\ place.val \in Int /\ place.trap \in BOOLEAN /\ found = Follow(place, Last(path))
    BY <1>1, Zenon DEF AddressGiven
  <1>3. m \in Registered
    <2>1. Len(path) \in {1, 2}
      <3>1. PICK f \in Fields, g \in Fields : path = <<f>> \/ path = <<g, f>>
        BY DEF Followed
      <3>2. Len(<<f>>) = 1 /\ Len(<<g, f>>) = 2
        OBVIOUS
      <3> QED
        BY <3>1, <3>2
    <2> DEFINE k == Len(path)
    <2>2. k \in {1, 2}
      BY <2>1
    <2> HIDE DEF k
    <2>3. 2 * k \in 0..4
      BY <2>2
    <2> QED
      BY <2>3 DEF k
  <1>4. x \in Int
    BY <1>2 DEF Offset
  <1>5. in.dest.id = m
    BY DEF Load, Instr, Temp
  <1>6. /\ found.val \in Int /\ found.trap \in BOOLEAN
        /\ found.trap <=> place.trap \/ x \notin Heap
        /\ ~found.trap => found.val = memory.heap[x]
    BY <1>2, FollowFacts
  <1> HIDE DEF c1, a, x, place, found, m
  <1>7. Grows(c1, d, m + 1, in, memory.heap[x], x \notin Heap) /\ Returns(in, t)
    BY <1>2, <1>3, <1>4, LoadFieldAdds DEF Leads
  <1> HIDE DEF d, in
  <1>8. Leads(c1, d, m + 1) /\ (Trapped(d) <=> Trapped(c1) \/ x \notin Heap)
    BY <1>3, <1>5, <1>7, GrowsLeads
  <1>9. Sees(d, t) /\ SeesTyped(d, t) /\ Carries(d, t, memory.heap[x])
    <2>1. Answers(d, in, memory.heap[x])
      BY <1>7, Zenon DEF Grows
    <2>2. t.kind = "temp" /\ t.id = in.dest.id
      BY <1>5 DEF Temp
    <2> HIDE DEF t
    <2> QED
      BY <1>7, <2>1, <2>2, Zenon DEF Answers, Delivers
  <1>10. IsOperand(t) /\ Operand(t)
    <2>1. t.id = m
      BY DEF Temp
    <2>2. t.kind = "temp"
      BY DEF Temp
    <2>3. IsOperand(t)
      BY DEF IsOperand
    <2> HIDE DEF t
    <2> QED
      BY <1>3, <2>1, <2>2, <2>3 DEF Operand
  <1>11. Trapped(d) <=> Trapped(c) \/ found.trap
    BY <1>2, <1>6, <1>8
  <1> HIDE DEF t
  <1>12. Given(d, t, found.val)
    <2>1. Carries(d, t, found.val)
      BY <1>6, <1>9, <1>11 DEF Carries
    <2> QED
      BY <1>6, <1>9, <1>10, <2>1 DEF Given, Delivers
  <1>13. Leads(c, d, m + 1)
    BY <1>2, <1>8, LeadsOn
  <1> QED
    BY <1>2, <1>6, <1>11, <1>12, <1>13 DEF c1, a, x, place, found, m, d, in, t

LEMMA NewMeant ==
    ASSUME NEW c, NEW n \in Registered, n + 1 \in Registered, Numbered(c, n), Right(c)
    PROVE  Meant(c, Append(Append(c, Malloc(Temp(n, "S"))),
                           Bitcast(Temp(n + 1, "S"), Temp(n, "i8*"), "S")),
                 n + 2, Temp(n + 1, "S"), NewObject)
  <1> DEFINE a == Malloc(Temp(n, "S"))
             o == Temp(n, "i8*")
             t == Temp(n + 1, "S")
             b == Bitcast(t, o, "S")
             c1 == Append(c, a)
             d == Append(c1, b)
  <1>1. Grows(c, c1, n + 1, a, NewObject, FALSE) /\ Returns(a, o)
    BY MallocAdds
  <1>2. a.dest.id = n /\ NewObject \in Int
    <2>1. a.dest.id = n
      BY DEF Malloc, Instr, Temp
    <2>2. NewObject \in Int
      BY DEF NewObject
    <2> QED
      BY <2>1, <2>2
  <1> HIDE DEF c1, a
  <1>3. Meant(c, c1, n + 1, o, NewObject)
    BY <1>1, <1>2, GrowsMeant
  <1>4. o.kind = "temp"
    BY DEF Temp
  <1> HIDE DEF o
  <1>5. Grows(c1, d, (n + 1) + 1, b, NewObject, FALSE) /\ Returns(b, t)
    BY <1>3, <1>4, BitcastAdds DEF Meant, Leads
  <1>6. b.dest.id = n + 1
    BY DEF Bitcast, Instr, Temp
  <1> HIDE DEF d, b
  <1>7. Meant(c1, d, (n + 1) + 1, t, NewObject)
    BY <1>2, <1>5, <1>6, GrowsMeant
  <1>8. (n + 1) + 1 = n + 2
    BY MaxNodesAssumption DEF Registered
  <1>9. Leads(c, d, n + 2)
    BY <1>3, <1>7, <1>8, LeadsOn DEF Meant
  <1>10. Meant(c, d, n + 2, t, NewObject)
    BY <1>3, <1>7, <1>9, Zenon DEF Meant
  <1> QED
    BY <1>10 DEF d, c1, a, b, o

LEMMA CallMeant ==
    ASSUME NEW c, NEW n \in Registered, Numbered(c, n), Right(c), NEW fn, NEW ty, NEW a, NEW x,
           Given(c, a, x), Suits(a, "i64")
    PROVE  LET t == Temp(n, "unknown")
           IN  Meant(c, Append(c, CallAssign(t, ty, fn, "int", a)), n + 1, t, Called(fn, x))
  <1> DEFINE t == Temp(n, "unknown")
             in == CallAssign(t, ty, fn, "int", a)
             d == Append(c, in)
  <1>1. Grows(c, d, n + 1, in, Called(fn, x), FALSE) /\ Returns(in, t)
    BY CallAdds
  <1>2. in.dest.id = n
    BY DEF CallAssign, Instr, Temp
  <1>3. Called(fn, x) \in Int
    BY GivenValue DEF Called, Bit
  <1> HIDE DEF d, in
  <1>4. Meant(c, d, n + 1, Temp(n, "unknown"), Called(fn, x))
    BY <1>1, <1>2, <1>3, GrowsMeant
  <1> QED
    BY <1>4 DEF d, in

(* A unary operator on an operand of its type.                             *)
LEMMA UnaryMeant ==
    ASSUME next \in Registered, NEW c, Numbered(c, next), Right(c), NEW op \in {"-", "!"}, NEW e,
           Elem(c, e), e.real = IF op = "-" THEN "int" ELSE "bool"
    PROVE  LET in == UnaryCode(op, e)
           IN  /\ Meant(c, Append(c, in), next + 1, in.dest,
                        IF op = "-" THEN -e.val ELSE 1 - e.val)
               /\ OperandFor(e.real, in.dest)
               /\ op = "!" => 1 - e.val \in {0, 1}
  <1> DEFINE in == UnaryCode(op, e)
             d == Append(c, in)
             x == IF op = "-" THEN -e.val ELSE 1 - e.val
  <1>1. Given(c, e.opnd, e.val) /\ OperandFor(e.real, e.opnd) /\ e.val \in Int
        /\ IsOperand(e.opnd)
    BY Zenon DEF Elem, Given
  <1>2. Suits(e.opnd, "i64")
    BY <1>1, SuitsReal
  <1>3. CASE op = "-"
    <2> DEFINE t == Temp(next, "i64")
               m == Immediate(-1, "i64")
               bin == BinOp(t, "mul", m, e.opnd)
    <2>1. in = bin
      BY <1>3 DEF UnaryCode
    <2>2. Given(c, m, -1)
      BY NumbersGiven
    <2>3. Suits(m, "i64")
      <3>1. m.kind = "imm" /\ m.ty = "i64"
        BY DEF Immediate
      <3> QED
        BY <3>1 DEF Suits
    <2>4. Arithmetic("mul", -1, e.val) = -e.val
      BY <1>1 DEF Arithmetic
    <2> HIDE DEF m
    <2>5. Grows(c, Append(c, bin), next + 1, bin, -e.val, FALSE) /\ Returns(bin, t)
      BY <1>1, <1>2, <2>2, <2>3, <2>4, BinOpAdds
    <2>6. bin.dest = t /\ bin.dest.id = next
      BY DEF BinOp, Instr, Temp
    <2>7. OperandFor("int", t)
      BY DEF OperandFor, Temp
    <2> HIDE DEF bin, in
    <2>8. Meant(c, Append(c, bin), next + 1, t, -e.val)
      <3>1. -e.val \in Int
        BY <1>1
      <3> QED
        BY <2>5, <2>6, <3>1, GrowsMeant
    <2> QED
      BY <1>3, <2>1, <2>6, <2>7, <2>8 DEF in
  <1>4. CASE op = "!"
    <2> DEFINE negType == IF e.opnd.kind = "temp" THEN e.opnd.ty ELSE "none"
               t == Temp(next, "i1")
               z == Zero(negType)
               cmp == ICMP(t, "eq", negType, e.opnd, z)
    <2>1. in = cmp
      BY <1>4 DEF UnaryCode
    <2>2. Given(c, z, 0)
      BY NumbersGiven DEF Zero
    <2>3. negType \in Lenient \cup {"i64", "none"}
      BY <1>1, <1>4 DEF OperandFor
    <2>4. Suits(e.opnd, TypeToLLVMString(negType))
      <3>1. e.opnd.kind \in {"temp", "imm"}
        <4>1. PICK y, ty : e.opnd = Temp(y, ty) \/ e.opnd = Immediate(y, ty)
          BY <1>1 DEF IsOperand
        <4>2. Temp(y, ty).kind = "temp" /\ Immediate(y, ty).kind = "imm"
          BY DEF Temp, Immediate
        <4> QED
          BY <4>1, <4>2
      <3> QED
        BY <1>1, <1>4, <3>1 DEF OperandFor, Suits, Lenient
    <2>5. Suits(z, TypeToLLVMString(negType))
      <3>1. z.kind = "imm" /\ z.ty = negType
        BY DEF Zero, Immediate
      <3> HIDE DEF negType, z
      <3>2. TypeToLLVMString(negType) \in {"i1", "i64"} /\ negType # "nil"
        BY <2>3 DEF Lenient, TypeToLLVMString
      <3> QED
        BY <3>1, <3>2 DEF Suits
    <2>6. Bit(Holds("eq", e.val, 0)) = 1 - e.val /\ 1 - e.val \in {0, 1}
      <3>1. e.val \in {0, 1}
        BY <1>4 DEF Elem
      <3> QED
        BY <3>1 DEF Holds, Bit
    <2> HIDE DEF z, negType
    <2>7. Grows(c, Append(c, cmp), next + 1, cmp, 1 - e.val, FALSE) /\ Returns(cmp, t)
      BY <1>1, <2>2, <2>4, <2>5, <2>6, ICMPAdds
    <2>8. cmp.dest = t /\ cmp.dest.id = next
      BY DEF ICMP, Instr, Temp
    <2>9. OperandFor("bool", t)
      BY DEF OperandFor, Temp, Lenient
    <2> HIDE DEF cmp, in
    <2>10. Meant(c, Append(c, cmp), next + 1, t, 1 - e.val)
      <3>1. 1 - e.val \in Int
        BY <1>1
      <3> QED
        BY <2>7, <2>8, <3>1, GrowsMeant
    <2> QED
      BY <1>4, <2>1, <2>6, <2>8, <2>9, <2>10 DEF in
  <1> QED
    BY <1>3, <1>4

LEMMA MeantOn ==
    ASSUME NEW b, NEW c, NEW d, NEW n, NEW m, NEW o, NEW x,
           Leads(b, c, n), Trapped(c) <=> Trapped(b), Meant(c, d, m, o, x)
    PROVE  Meant(b, d, m, o, x)
  <1>1. Leads(b, d, m)
    BY LeadsOn DEF Meant
  <1> QED
    BY <1>1 DEF Meant

(* A side of && or ||, selected into an i64 if it is none.                 *)
LEMMA SelectedMeant ==
    ASSUME NEW c, NEW r \in Registered, Numbered(c, r), Right(c), NEW o, NEW x \in {0, 1},
           Given(c, o, x), OperandFor("bool", o)
    PROVE  /\ Meant(c, Selected(c, r, o), r + Bit(o.ty # "i64"), SelectedAs(r, o), x)
           /\ Suits(SelectedAs(r, o), "i64")
  <1>1. CASE o.ty # "i64"
    <2> DEFINE in == Selection(r, o)
               d == Append(c, in)
    <2>1. o.ty \in Lenient
      BY <1>1 DEF OperandFor
    <2>2. Grows(c, d, r + 1, in, x, FALSE) /\ Returns(in, Temp(r, "i64"))
      BY <2>1, SelectAdds DEF Selection
    <2>3. in.dest.id = r
      BY DEF Selection, Select, Instr, Temp
    <2>4. Selected(c, r, o) = d /\ SelectedAs(r, o) = Temp(r, "i64") /\ r + Bit(o.ty # "i64") = r + 1
      BY <1>1 DEF Selected, SelectedAs, Bit
    <2> HIDE DEF in, d
    <2>5. Meant(c, d, r + 1, Temp(r, "i64"), x)
      <3>1. x \in Int
        OBVIOUS
      <3> QED
        BY <2>2, <2>3, <3>1, GrowsMeant
    <2>6. Suits(Temp(r, "i64"), "i64")
      <3>1. Temp(r, "i64").kind = "temp" /\ Temp(r, "i64").ty = "i64"
        BY DEF Temp
      <3> QED
        BY <3>1 DEF Suits, TypeToLLVMString
    <2> QED
      BY <2>4, <2>5, <2>6
  <1>2. CASE o.ty = "i64"
    <2>1. Selected(c, r, o) = c /\ SelectedAs(r, o) = o
      BY <1>2 DEF Selected, SelectedAs
    <2>2. r + Bit(o.ty # "i64") = r
      BY <1>2, MaxNodesAssumption DEF Bit, Registered
    <2>3. Meant(c, c, r, o, x)
      BY LeadsNowhere DEF Meant
    <2>4. Suits(o, "i64")
      BY SuitsReal DEF Given
    <2> QED
      BY <2>1, <2>2, <2>3, <2>4
  <1> QED
    BY <1>1, <1>2

(* A binary operator on operands of types that go with it.                 *)
Answer(op) == IF op \in ArithmeticOps THEN "int" ELSE "bool"

LEMMA ComparedMeant ==
    ASSUME NEW c, NEW n \in Registered, Numbered(c, n), Right(c), NEW op \in AllOps,
           IsComparison(op), NEW a, NEW b, Elem(c, a), Elem(c, b), Typed(op, a.real, b.real)
    PROVE  LET in == ICMP(Temp(n, "i1"), ToLLVMCondCode(op), ComparedAs(a.opnd), a.opnd, b.opnd)
           IN  Meant(c, Append(c, in), n + 1, Temp(n, "i1"), Meaning(op, a.val, b.val))
  <1> DEFINE ty == a.opnd.ty
             cc == ToLLVMCondCode(op)
             in == ICMP(Temp(n, "i1"), cc, ty, a.opnd, b.opnd)
             x == Bit(Holds(cc, a.val, b.val))
             d == Append(c, in)
  <1>1. /\ Given(c, a.opnd, a.val) /\ OperandFor(a.real, a.opnd) /\ IsOperand(a.opnd)
        /\ Given(c, b.opnd, b.val) /\ OperandFor(b.real, b.opnd) /\ IsOperand(b.opnd)
    BY Zenon DEF Elem, Given
  <1>2. \/ a.real = "int" /\ b.real = "int"
        \/ a.real = "S" /\ b.real \in {"S", "nil"}
        \/ a.real = "nil"
    BY DEF Typed, OperandTypes, IsComparison, IsBoolOp, EqualityOps, RelationalOps
  <1>3. \/ a.opnd.ty = "nil"
        \/ Suits(a.opnd, TypeToLLVMString(ty)) /\ Suits(b.opnd, TypeToLLVMString(ty))
    <2>1. CASE a.real = "int" /\ b.real = "int"
      <3>1. Suits(a.opnd, "i64") /\ Suits(b.opnd, "i64")
        BY <1>1, <2>1, SuitsReal
      <3>2. TypeToLLVMString(ty) = "i64"
        BY <1>1, <2>1 DEF OperandFor, TypeToLLVMString
      <3> QED
        BY <3>1, <3>2
    <2>2. CASE a.real = "S" /\ b.real \in {"S", "nil"}
      <3>1. Suits(a.opnd, "%struct.S*") /\ Suits(b.opnd, "%struct.S*")
        BY <1>1, <2>2, SuitsReal
      <3>2. TypeToLLVMString(ty) = "%struct.S*"
        BY <1>1, <2>2 DEF OperandFor, TypeToLLVMString
      <3> QED
        BY <3>1, <3>2
    <2>3. CASE a.real = "nil"
      BY <1>1, <2>3 DEF OperandFor
    <2> QED
      BY <1>2, <2>1, <2>2, <2>3
  <1> HIDE DEF ty, cc
  <1>4. Grows(c, d, n + 1, in, x, FALSE) /\ Returns(in, Temp(n, "i1"))
    BY <1>1, <1>3, ICMPAdds DEF ty
  <1>5. in.dest.id = n
    BY DEF ICMP, Instr, Temp
  <1>6. x \in Int
    BY DEF Bit
  <1>7. x = Meaning(op, a.val, b.val)
    BY DEF Meaning, cc
  <1> HIDE DEF in, d, x
  <1>8. Meant(c, d, n + 1, Temp(n, "i1"), x)
    BY <1>4, <1>5, <1>6, GrowsMeant
  <1> QED
    BY <1>7, <1>8 DEF in, d, ty, cc, ComparedAs

LEMMA CombinedMeant ==
    ASSUME NEW c, NEW n \in Registered, Numbered(c, n), Right(c), NEW op \in AllOps,
           ~IsComparison(op), NEW a, NEW x, Given(c, a, x), Suits(a, "i64"),
           NEW b, NEW y, Given(c, b, y), Suits(b, "i64")
    PROVE  LET in == BinOp(Temp(n, "i64"), ToLLVMBinOpTy(op), a, b)
           IN  Meant(c, Append(c, in), n + 1, Temp(n, "i64"), Meaning(op, x, y))
  <1> DEFINE binTy == ToLLVMBinOpTy(op)
             in == BinOp(Temp(n, "i64"), binTy, a, b)
             d == Append(c, in)
  <1>1. binTy \in {"add", "sub", "mul", "sdiv", "and", "or"}
    BY DEF ToLLVMBinOpTy, AllOps, IsComparison, RelationalOps, EqualityOps
  <1>2. Arithmetic(binTy, x, y) = Meaning(op, x, y)
    BY DEF Meaning
  <1>3. in.dest.id = n
    BY DEF BinOp, Instr, Temp
  <1> HIDE DEF binTy
  <1>4. Grows(c, d, n + 1, in, Arithmetic(binTy, x, y), FALSE) /\ Returns(in, Temp(n, "i64"))
    BY <1>1, BinOpAdds
  <1>5. Arithmetic(binTy, x, y) \in Int
    <2>1. x \in Int /\ y \in Int
      BY Zenon DEF Given
    <2> QED
      BY <1>1, <2>1, ArithmeticInt
  <1> HIDE DEF in, d
  <1>6. Meant(c, d, n + 1, Temp(n, "i64"), Arithmetic(binTy, x, y))
    BY <1>3, <1>4, <1>5, GrowsMeant
  <1> QED
    BY <1>2, <1>6 DEF in, d, binTy

LEMMA BinaryMeant ==
    ASSUME NEW c, \A k \in 0..4 : next + k \in Registered, next \in Nat, Numbered(c, next),
           Right(c), NEW op \in AllOps, NEW a, NEW b, Elem(c, a), Elem(c, b),
           Typed(op, a.real, b.real)
    PROVE  LET in == BinaryCode(op, a.opnd, b.opnd)
               o == Last(in).dest
               x == Meaning(op, a.val, b.val)
           IN  /\ Meant(c, c \o in, next + Registers(op, b.opnd), o, x)
               /\ OperandFor(Answer(op), o)
               /\ Answer(op) = "bool" => x \in {0, 1}
  <1> DEFINE in == BinaryCode(op, a.opnd, b.opnd)
             o == Last(in).dest
             x == Meaning(op, a.val, b.val)
             k == Registers(op, b.opnd)
             result == Result(op, b.opnd)
  <1>1. /\ k \in 1..3
        /\ o = Temp(next + k - 1, IF IsComparison(op) THEN "i1" ELSE "i64")
    BY BinaryOperand
  <1>2. next + 0 \in Registered /\ next + 1 \in Registered /\ next + 2 \in Registered
        /\ next + 0 = next
    OBVIOUS
  <1>3. result = next + k - 1
    BY DEF Result
  <1>4. result \in Registered /\ result + 1 = next + k /\ next <= result /\ result \in Nat
    <2> HIDE DEF k, result
    <2> QED
      BY <1>1, <1>2, <1>3
  <1>5. BinaryCodeIs(c, op, a.opnd, b.opnd)
    BY BinaryJoined DEF Numbered
  <1>6. IsComparison(op) \/ op \in ArithmeticOps \/ IsBoolOp(op)
    BY <1>5, Zenon DEF BinaryCodeIs
  <1>7. ~(IsComparison(op) /\ op \in ArithmeticOps) /\ ~(IsComparison(op) /\ IsBoolOp(op))
        /\ ~(op \in ArithmeticOps /\ IsBoolOp(op))
    BY DEF IsComparison, RelationalOps, EqualityOps, ArithmeticOps, IsBoolOp
  <1>8. Leads(c, c, result) /\ Numbered(c, result)
    <2>1. Leads(c, c, next)
      BY LeadsNowhere
    <2> QED
      BY <1>4, <2>1, LeadsLater DEF Leads
  <1>9. /\ Given(c, a.opnd, a.val) /\ OperandFor(a.real, a.opnd) /\ IsOperand(a.opnd)
        /\ Given(c, b.opnd, b.val) /\ OperandFor(b.real, b.opnd) /\ IsOperand(b.opnd)
    BY Zenon DEF Elem, Given
  <1> HIDE DEF o, k, result
  <1>10. OperandFor(Answer(op), o)
    <2>1. o.kind = "temp" /\ o.ty = IF IsComparison(op) THEN "i1" ELSE "i64"
      BY <1>1 DEF Temp
    <2>2. Answer(op) = "int" => o.ty = "i64"
      BY <1>7, <2>1 DEF Answer
    <2> QED
      BY <2>1, <2>2 DEF OperandFor, Answer, Lenient
  <1>11. CASE IsComparison(op)
    <2> DEFINE cmp == ICMP(Temp(result, "i1"), ToLLVMCondCode(op), ComparedAs(a.opnd),
                           a.opnd, b.opnd)
    <2>1. c \o in = Append(c, cmp)
      BY <1>5, <1>11, Zenon DEF BinaryCodeIs, result
    <2>2. Meant(c, Append(c, cmp), result + 1, Temp(result, "i1"), x)
      BY <1>4, <1>8, <1>11, ComparedMeant
    <2>3. x \in {0, 1}
      BY <1>11 DEF Meaning, Bit
    <2>4. o = Temp(result, "i1")
      BY <1>1, <1>3, <1>11
    <2> HIDE DEF cmp, in, x
    <2> QED
      BY <1>4, <1>10, <2>1, <2>2, <2>3, <2>4 DEF in, o, k, x
  <1>12. ASSUME ~IsComparison(op), NEW d, Leads(c, d, result), Trapped(d) <=> Trapped(c),
                NEW l, NEW r, Given(d, l, a.val), Suits(l, "i64"), Given(d, r, b.val),
                Suits(r, "i64"),
                c \o in = Append(d, BinOp(Temp(result, "i64"), ToLLVMBinOpTy(op), l, r))
         PROVE  Meant(c, c \o in, next + k, o, x)
    <2> DEFINE bin == BinOp(Temp(result, "i64"), ToLLVMBinOpTy(op), l, r)
    <2>1. Meant(d, Append(d, bin), result + 1, Temp(result, "i64"), x)
      BY <1>4, <1>12, CombinedMeant DEF Leads
    <2>2. o = Temp(result, "i64")
      BY <1>1, <1>3, <1>12
    <2> HIDE DEF bin, in, x
    <2>3. Meant(c, Append(d, bin), result + 1, Temp(result, "i64"), x)
      BY <1>12, <2>1, MeantOn
    <2> QED
      BY <1>4, <1>12, <2>2, <2>3 DEF bin
  <1>13. CASE op \in ArithmeticOps
    <2>1. a.real = "int" /\ b.real = "int"
      BY <1>7, <1>13 DEF Typed, OperandTypes, EqualityOps, IsComparison
    <2>2. Suits(a.opnd, "i64") /\ Suits(b.opnd, "i64")
      BY <1>9, <2>1, SuitsReal
    <2>3. c \o in = Append(c, BinOp(Temp(result, "i64"), ToLLVMBinOpTy(op), a.opnd, b.opnd))
      BY <1>5, <1>13, Zenon DEF BinaryCodeIs, result
    <2>4. Meant(c, c \o in, next + k, o, x)
      BY <1>7, <1>8, <1>9, <1>12, <1>13, <2>2, <2>3
    <2> HIDE DEF in, x
    <2> QED
      BY <1>10, <1>13, <2>4 DEF Answer, in, o, k, x
  <1>14. CASE IsBoolOp(op)
    <2> DEFINE d == Selected(c, next, a.opnd)
               f == Selected(d, next + 1, b.opnd)
               l == SelectedAs(next, a.opnd)
               r == SelectedAs(next + 1, b.opnd)
    <2>1. a.real = "bool" /\ b.real = "bool"
      <3>1. OperandTypes(op) = {"bool"}
        BY <1>14 DEF OperandTypes, IsBoolOp, EqualityOps
      <3> QED
        BY <3>1 DEF Typed
    <2>2. a.val \in {0, 1} /\ b.val \in {0, 1}
      BY <2>1 DEF Elem
    <2>3. /\ Meant(c, d, next + Bit(a.opnd.ty # "i64"), l, a.val)
          /\ Suits(l, "i64")
      BY <1>2, <1>9, <2>1, <2>2, SelectedMeant
    <2> HIDE DEF d, l
    <2>4. Leads(c, d, next + 1)
      <3>1. next + Bit(a.opnd.ty # "i64") <= next + 1 /\ next + 1 \in Nat
        BY DEF Bit
      <3> QED
        BY <2>3, <3>1, LeadsLater DEF Meant
    <2>5. Given(d, b.opnd, b.val)
      BY <1>9, <2>4, GivenKept DEF Leads
    <2>6. /\ Meant(d, f, (next + 1) + Bit(b.opnd.ty # "i64"), r, b.val)
          /\ Suits(r, "i64")
      BY <1>2, <1>9, <2>1, <2>2, <2>4, <2>5, SelectedMeant DEF Leads
    <2> HIDE DEF f, r
    <2>7. result = (next + 1) + Bit(b.opnd.ty # "i64")
      BY <1>14 DEF result, Result, Registers, SelectsRight, Bit
    <2>8. Leads(d, f, result) /\ Leads(c, f, result)
      BY <2>4, <2>6, <2>7, LeadsOn DEF Meant
    <2>9. Given(f, l, a.val) /\ Given(f, r, b.val) /\ (Trapped(f) <=> Trapped(c))
      BY <2>3, <2>6, <2>8, GivenKept DEF Meant, Leads
    <2>10. c \o in = Append(f, BinOp(Temp(result, "i64"), ToLLVMBinOpTy(op), l, r))
      <3>1. c \o in = Append(BothSelected(c, a.opnd, b.opnd),
                             BinOp(Temp(result, "i64"), ToLLVMBinOpTy(op),
                                   SelectedAs(next, a.opnd), SelectedAs(next + 1, b.opnd)))
        BY <1>5, <1>14, Zenon DEF BinaryCodeIs, result
      <3> QED
        BY <3>1, Zenon DEF BothSelected, d, f, l, r
    <2>11. Meant(c, c \o in, next + k, o, x)
      BY <1>7, <1>12, <1>14, <2>3, <2>6, <2>8, <2>9, <2>10
    <2>12. x \in {0, 1}
      <3>1. ToLLVMBinOpTy(op) \in {"and", "or"}
        BY <1>14 DEF ToLLVMBinOpTy, IsBoolOp
      <3> QED
        BY <1>7, <1>14, <3>1 DEF Meaning, Arithmetic, Both, Either, Bit
    <2> HIDE DEF in, x
    <2> QED
      BY <1>10, <2>11, <2>12 DEF in, o, k, x
  <1> QED
    BY <1>6, <1>11, <1>13, <1>14

-----------------------------------------------------------------------------
(* As long as the language gives every expression a type, the code so far  *)
(* is right, every operand has its expression's value, and running the     *)
(* code fails if one of the expressions does.                              *)
AllTyped(s) == \A i \in DOMAIN s : s[i].real # "none"
Meaningful(c, s) ==
    /\ Right(c)
    /\ \A i \in DOMAIN s : Elem(c, s[i])
    /\ Trapped(c) <=> \E i \in DOMAIN s : s[i].trap
MeaningInv ==
    /\ MemoryInv
    /\ next <= 5 * nodes + 1 /\ stm.path \in Followed
    /\ stm = NoStatement /\ AllTyped(stack) => Meaningful(code, stack)
    /\ ComputesTheStatement
    /\ AgreesOnPointersAndInts

LEMMA MeaningInit == Init => MeaningInv
  <1> SUFFICES ASSUME Init PROVE MeaningInv
    OBVIOUS
  <1>1. code = <<>> /\ stack = <<>> /\ next = 1 /\ nodes = 0 /\ stm = NoStatement
    BY DEF Init
  <1>2. MemoryInv
    <2>1. PICK b \in {0, 1}, p \in {0, 100} :
            memory = [temps |-> [t \in Registered |-> 0],
                      vars |-> [v \in Names |-> CASE v = "x" -> 3 [] v = "b" -> b
                                                  [] v = "p" -> p [] OTHER -> 2],
                      heap |-> [a \in {100, 108, 200, 208} |-> IF a = 100 THEN 5 ELSE 0],
                      trap |-> FALSE, out |-> 0]
      BY DEF Init
    <2> DEFINE vs == [v \in Names |-> CASE v = "x" -> 3 [] v = "b" -> b
                                        [] v = "p" -> p [] OTHER -> 2]
               ts == [t \in Registered |-> 0]
               hs == [a \in {100, 108, 200, 208} |-> IF a = 100 THEN 5 ELSE 0]
    <2>2. ts \in [Registered -> Int]
      OBVIOUS
    <2>3. vs \in [Names -> Int]
      <3> SUFFICES ASSUME NEW v \in Names PROVE vs[v] \in Int
        OBVIOUS
      <3> QED
        BY DEF Names
    <2>4. hs \in [Heap -> Int]
      BY DEF Heap
    <2>5. vs["b"] \in {0, 1}
      BY DEF Names
    <2> HIDE DEF vs, ts, hs
    <2>6. memory = [temps |-> ts, vars |-> vs, heap |-> hs, trap |-> FALSE, out |-> 0]
      BY <2>1 DEF ts, vs, hs
    <2> QED
      BY <2>2, <2>3, <2>4, <2>5, <2>6 DEF MemoryInv, Machines
  <1>3. IsCode(<<>>) /\ After(<<>>) = memory
    BY FewAreCode, ExecuteNothing DEF After
  <1>4. Meaningful(<<>>, <<>>)
    <2>1. DOMAIN <<>> = {}
      OBVIOUS
    <2>2. WellTyped(<<>>)
      BY <2>1 DEF WellTyped
    <2> QED
      BY <1>2, <1>3, <2>1, <2>2 DEF Meaningful, Right, Trapped, MemoryInv
  <1>5. stm.kind = "none"
    BY <1>1 DEF NoStatement
  <1>6. stm.path \in Followed
    <2>1. <<>> \in Followed
      BY DEF Followed
    <2>2. stm.path = <<>>
      BY <1>1 DEF NoStatement
    <2> QED
      BY <2>1, <2>2
  <1>7. ComputesTheStatement /\ AgreesOnPointersAndInts
    BY <1>5 DEF ComputesTheStatement, AgreesOnPointersAndInts
  <1> QED
    BY <1>1, <1>2, <1>4, <1>6, <1>7 DEF MeaningInv

(* One expression in the place of the last n.                              *)
Continues(c, d, s, n, e) ==
    /\ Keeps(c, d) /\ Right(d) /\ Elem(d, e)
    /\ Trapped(d) <=> Trapped(c) \/ e.trap
    /\ \A j \in (Len(s) - n + 1)..Len(s) : s[j].trap => e.trap

LEMMA ReplacedMeaning ==
    ASSUME NEW s, IsStack(s), NEW n \in 0..Len(s), NEW e, NEW c, NEW d,
           e.real # "none" => \A j \in (Len(s) - n + 1)..Len(s) : s[j].real # "none",
           AllTyped(s) => Meaningful(c, s),
           AllTyped(s) /\ e.real # "none" => Continues(c, d, s, n, e),
           AllTyped(Append(SubSeq(s, 1, Len(s) - n), e))
    PROVE  Meaningful(d, Append(SubSeq(s, 1, Len(s) - n), e))
  <1> DEFINE k == Len(s) - n
             t == Append(SubSeq(s, 1, k), e)
  <1>1. PICK S : s \in Seq(S)
    BY DEF IsStack
  <1>2. k \in 0..Len(s) /\ Len(s) \in Nat /\ DOMAIN s = 1..Len(s) /\ k = Len(s) - n
    BY <1>1
  <1>3. DOMAIN t = 1..(k + 1) /\ t[k + 1] = e /\ \A i \in 1..k : t[i] = s[i]
    <2> HIDE DEF k
    <2>1. /\ SubSeq(s, 1, k) \in Seq(S) /\ Len(SubSeq(s, 1, k)) = k
          /\ \A i \in 1..k : SubSeq(s, 1, k)[i] = s[i]
      BY <1>1, <1>2, Prefix
    <2> DEFINE u == SubSeq(s, 1, k)
    <2>2. IsCode(u)
      BY <2>1 DEF IsCode
    <2>3. Len(u) = k /\ \A i \in 1..k : u[i] = s[i]
      BY <2>1
    <2> HIDE DEF u
    <2>4. DOMAIN Append(u, e) = 1..(k + 1) /\ Append(u, e)[k + 1] = e
          /\ \A i \in 1..k : Append(u, e)[i] = u[i]
      BY <2>2, <2>3, Appended
    <2> QED
      BY <2>3, <2>4 DEF u
  <1>4. AllTyped(t)
    OBVIOUS
  <1> HIDE DEF t, k
  <1>5. e.real # "none" /\ \A i \in 1..k : s[i].real # "none"
    BY <1>2, <1>3, <1>4 DEF AllTyped
  <1>6. AllTyped(s)
    <2> SUFFICES ASSUME NEW i \in 1..Len(s) PROVE s[i].real # "none"
      BY <1>2 DEF AllTyped
    <2>1. i \in 1..k \/ i \in (Len(s) - n + 1)..Len(s)
      BY <1>2
    <2> QED
      BY <1>5, <2>1
  <1>7. Meaningful(c, s) /\ Continues(c, d, s, n, e)
    BY <1>5, <1>6
  <1>8. ASSUME NEW i \in DOMAIN t PROVE Elem(d, t[i])
    <2>1. CASE i = k + 1
      BY <1>3, <1>7, <2>1 DEF Continues
    <2>2. CASE i # k + 1
      <3>1. i \in 1..k /\ i \in DOMAIN s
        BY <1>2, <1>3, <2>2
      <3>2. t[i] = s[i] /\ Elem(c, s[i]) /\ Keeps(c, d)
        BY <1>3, <1>7, <3>1 DEF Meaningful, Continues
      <3> QED
        BY <3>2, ElemKept
    <2> QED
      BY <2>1, <2>2
  <1>9. (\E i \in DOMAIN t : t[i].trap) => Trapped(d)
    <2> SUFFICES ASSUME NEW i \in DOMAIN t, t[i].trap PROVE Trapped(d)
      OBVIOUS
    <2>1. CASE i = k + 1
      BY <1>3, <1>7, <2>1 DEF Continues
    <2>2. CASE i # k + 1
      <3>1. i \in DOMAIN s /\ t[i] = s[i]
        BY <1>2, <1>3, <2>2
      <3> QED
        BY <1>7, <3>1 DEF Meaningful, Continues
    <2> QED
      BY <2>1, <2>2
  <1>10. Trapped(d) => \E i \in DOMAIN t : t[i].trap
    <2> SUFFICES ASSUME Trapped(d) PROVE \E i \in DOMAIN t : t[i].trap
      OBVIOUS
    <2>1. k + 1 \in DOMAIN t
      BY <1>2, <1>3
    <2>2. CASE e.trap
      BY <1>3, <2>1, <2>2
    <2>3. CASE ~e.trap
      <3>1. PICK j \in DOMAIN s : s[j].trap
        BY <1>7, <2>3 DEF Meaningful, Continues
      <3>2. j \notin (Len(s) - n + 1)..Len(s)
        BY <1>7, <2>3, <3>1 DEF Continues
      <3>3. j \in 1..k /\ j \in DOMAIN t
        BY <1>2, <1>3, <3>1, <3>2
      <3> QED
        BY <1>3, <3>1, <3>3
    <2> QED
      BY <2>2, <2>3
  <1>11. Right(d)
    BY <1>7 DEF Continues
  <1>12. Meaningful(d, t)
    BY <1>8, <1>9, <1>10, <1>11 DEF Meaningful
  <1> QED
    BY <1>12 DEF t, k

(* What a step leaves of the memory's meaning.                             *)
LEMMA MeaningfulNext ==
    ASSUME memory' = memory, NEW c, NEW s, code' = c, stack' = s, Meaningful(c, s)
    PROVE  Meaningful(code, stack)'
  BY DEF Meaningful, Right, Trapped, Elem, Given, Delivers, Carries, After

AllReached == \A v, f, g : ReachedIs(v, f, g)
LEMMA ReachedAlways == AllReached
  BY ReachedFacts DEF AllReached
LEMMA ReachedNext == AllReached'
  BY ReachedAlways, PTL

LEMMA ReachedSame ==
    ASSUME memory' = memory, NEW v, NEW path \in Followed
    PROVE  Reached(v, path)' = Reached(v, path)
  <1>1. PICK f \in Fields, g \in Fields : path = <<>> \/ path = <<f>> \/ path = <<g, f>>
    BY DEF Followed, Fields
  <1>2. ReachedIs(v, f, g) /\ ReachedIs(v, f, g)'
    BY ReachedAlways, ReachedNext DEF AllReached
  <1>3. Root(v)' = Root(v) /\ \A at, h : Follow(at, h)' = Follow(at, h)
    BY DEF Root, Follow
  <1>4. /\ Reached(v, <<>>)' = Reached(v, <<>>)
        /\ Reached(v, <<f>>)' = Reached(v, <<f>>)
        /\ Reached(v, <<g, f>>)' = Reached(v, <<g, f>>)
    BY <1>2, <1>3, Zenon DEF ReachedIs
  <1> QED
    BY <1>1, <1>4

LEMMA FrontFollowed ==
    ASSUME NEW path \in Followed, path # <<>>
    PROVE  Front(path) \in Followed
  <1>1. PICK f \in Fields, g \in Fields : path = <<>> \/ path = <<f>> \/ path = <<g, f>>
    BY DEF Followed, Fields
  <1>2. Front(<<f>>) = <<>> /\ Front(<<g, f>>) = <<g>>
    <2>1. ReachedIs("p", f, g)
      BY ReachedFacts
    <2> QED
      BY <2>1, Zenon DEF ReachedIs
  <1>3. <<>> \in Followed /\ <<g>> \in Followed
    BY DEF Followed
  <1> QED
    BY <1>1, <1>2, <1>3

-----------------------------------------------------------------------------
(* Statements.  Done: running the code of a statement on e has ended so.   *)
Done(kind, e, target, path, final) ==
    LET place == IF path = <<>> THEN [val |-> 0, trap |-> FALSE]
                 ELSE Reached(target, Front(path))
        address == place.val + (IF path = <<>> THEN 0 ELSE Offset(Last(path)))
        fails == e.trap \/ place.trap \/ (path # <<>> /\ address \notin DOMAIN memory.heap)
    IN  IF fails THEN final.trap
        ELSE /\ ~final.trap
             /\ kind # "assignment" => final.out = e.val
             /\ final.vars = [v \in Names |-> IF v = target /\ path = <<>>
                                              THEN e.val ELSE memory.vars[v]]
             /\ final.heap = [a \in DOMAIN memory.heap |->
                                 IF path # <<>> /\ a = address THEN e.val ELSE memory.heap[a]]

(* A statement that stores nothing is done if its value is seen.           *)
Sights(in, o) ==
    in.op \in {"BrCond", "Ret", "Printf", "Free"} /\ DOMAIN in.args = 1..1 /\ in.args[1] = o

LEMMA SightsAre ==
    ASSUME NEW o
    PROVE  Sights(BrCond(o), o) /\ Sights(Ret("int", o), o) /\ Sights(Printf(o), o)
           /\ Sights(Free(o), o)
  BY DEF Sights, BrCond, Ret, Printf, Free, Instr

LEMMA SeenDone ==
    ASSUME MemoryInv, NEW c, IsCode(c), Right(c), NEW e, Trapped(c) <=> e.trap, NEW kind,
           NEW in, NEW o, Sights(in, o), Carries(c, o, e.val)
    PROVE  Done(kind, e, "", <<>>, After(Append(c, in)))
  <1> DEFINE m == After(c)
             k == After(Append(c, in))
  <1>1. k = Exec(m, in)
    BY ExecuteAppend DEF After
  <1>2. m \in Machines /\ m.vars = memory.vars /\ m.heap = memory.heap /\ (m.trap <=> e.trap)
    BY DEF Right, Trapped
  <1>3. memory.vars = [v \in Names |-> memory.vars[v]]
        /\ memory.heap = [a \in DOMAIN memory.heap |-> memory.heap[a]]
    BY DEF MemoryInv, Machines
  <1>4. "" \notin Names
    BY DEF Names
  <1> HIDE DEF m, k
  <1>5. CASE m.trap
    <2>1. k = m
      BY <1>1, <1>5, ExecTrapped
    <2> QED
      BY <1>2, <1>5, <2>1 DEF Done, k
  <1>6. CASE ~m.trap
    <2>1. k = [m EXCEPT !.out = Value(m, o)]
      BY <1>1, <1>6, ExecSeen DEF Sights
    <2>2. Value(m, o) = e.val
      BY <1>6 DEF Carries, Trapped, m
    <2>3. k.trap = m.trap /\ k.out = e.val /\ k.vars = m.vars /\ k.heap = m.heap
      BY <1>2, <2>1, <2>2 DEF Machines
    <2>4. [v \in Names |-> IF v = "" /\ TRUE THEN e.val ELSE memory.vars[v]] = memory.vars
      BY <1>3, <1>4
    <2>5. [a \in DOMAIN memory.heap |-> IF FALSE THEN e.val ELSE memory.heap[a]] = memory.heap
      BY <1>3
    <2> QED
      BY <1>2, <1>6, <2>3, <2>4, <2>5 DEF Done, k
  <1> QED
    BY <1>5, <1>6

LEMMA OneFits ==
    ASSUME NEW c, IsCode(c), WellTyped(c), NEW in, ValueOperands(in) \subseteq {1}, FitsAfter(c, in, 1)
    PROVE  WellTyped(Append(c, in))
  BY EmittedTyped

(* A store of an expression in a place of a type it may be assigned to.    *)
LEMMA StoreTyped ==
    ASSUME NEW c, IsCode(c), WellTyped(c), NEW e, Elem(c, e), NEW lType \in {"int", "bool", "S"},
           Assignable(e.real, lType), NEW r
    PROVE  WellTyped(Append(c, Store(lType, e.opnd, r)))
  <1> DEFINE o == e.opnd
             in == Store(lType, o, r)
  <1>1. SeesTyped(c, o) /\ IsOperand(o) /\ OperandFor(e.real, o)
    BY Zenon DEF Elem, Given, Delivers
  <1>2. in.op = "Store" /\ in.args[1] = o /\ in.ty = lType
    BY DEF Store, Instr
  <1> HIDE DEF in, o
  <1>3. ValueOperands(in) \subseteq {1}
    BY <1>2 DEF ValueOperands
  <1>4. UsedAs(in, 1) = IF o.ty = "nil" THEN "ptr" ELSE TypeToLLVMString(lType)
    BY <1>2 DEF UsedAs
  <1>5. Suits(o, UsedAs(in, 1))
    <2>1. CASE e.real = "nil"
      BY <1>1, <1>4, <2>1, SuitsReal DEF OperandFor
    <2>2. CASE e.real = "S" /\ lType = "S"
      <3>1. o.ty # "nil"
        BY <1>1, <2>2 DEF OperandFor
      <3> QED
        BY <1>1, <1>4, <2>2, <3>1, SuitsReal DEF TypeToLLVMString
    <2>3. CASE e.real \in {"int", "bool"} /\ lType = e.real
      <3>1. o.ty # "nil"
        BY <1>1, <2>3 DEF OperandFor, Lenient
      <3>2. TypeToLLVMString(lType) = "i64"
        BY <2>3 DEF TypeToLLVMString
      <3> QED
        BY <1>1, <1>4, <2>3, <3>1, <3>2, SuitsReal
    <2> QED
      BY <2>1, <2>2, <2>3 DEF Assignable
  <1>6. FitsAfter(c, in, 1)
    BY <1>1, <1>2, <1>5, SuitsFits
  <1>7. WellTyped(Append(c, in))
    BY <1>3, <1>6, OneFits
  <1> QED
    BY <1>7 DEF in, o

LEMMA VariableStored ==
    ASSUME MemoryInv, NEW c, IsCode(c), Right(c), NEW e, Trapped(c) <=> e.trap,
           Given(c, e.opnd, e.val), NEW ty, NEW v \in Names
    PROVE  Done("assignment", e, v, <<>>, After(Append(c, Store(ty, e.opnd, Variable(v, ty)))))
  <1> DEFINE r == Variable(v, ty)
             in == Store(ty, e.opnd, r)
             m == After(c)
             k == After(Append(c, in))
  <1>1. k = Exec(m, in)
    BY ExecuteAppend DEF After
  <1>2. m \in Machines /\ m.vars = memory.vars /\ m.heap = memory.heap /\ (m.trap <=> e.trap)
    BY DEF Right, Trapped
  <1>3. r.kind = "var" /\ r.name = v
    BY DEF Variable
  <1>4. ~m.trap => Value(m, e.opnd) = e.val
    BY GivenValue DEF Trapped
  <1> HIDE DEF r
  <1>5. ~m.trap => Exec(m, in) = [m EXCEPT !.vars = [@ EXCEPT ![v] = Value(m, e.opnd)]]
    BY <1>3, ExecStoreVariable
  <1>6. m.trap => Exec(m, in) = m
    BY ExecTrapped
  <1>7. memory.vars \in [Names -> Int]
        /\ memory.heap = [a \in DOMAIN memory.heap |-> memory.heap[a]]
    BY DEF MemoryInv, Machines
  <1> HIDE DEF m, k, in
  <1>8. CASE m.trap
    BY <1>1, <1>2, <1>6, <1>8 DEF Done, k, r, in
  <1>9. CASE ~m.trap
    <2>1. k.trap = m.trap /\ k.vars = [memory.vars EXCEPT ![v] = e.val] /\ k.heap = memory.heap
      BY <1>1, <1>2, <1>4, <1>5, <1>9 DEF Machines
    <2>2. k.vars = [w \in Names |-> IF w = v /\ TRUE THEN e.val ELSE memory.vars[w]]
      BY <1>7, <2>1
    <2>3. k.heap = [a \in DOMAIN memory.heap |-> IF FALSE THEN e.val ELSE memory.heap[a]]
      BY <1>7, <2>1
    <2>4. ~e.trap /\ ~k.trap
      BY <1>2, <1>9, <2>1
    <2> QED
      BY <2>2, <2>3, <2>4 DEF Done, k, r, in
  <1> QED
    BY <1>8, <1>9

LEMMA FieldStored ==
    ASSUME MemoryInv, NEW c, NEW d, IsCode(d), Right(d), NEW e, Trapped(c) <=> e.trap,
           Given(d, e.opnd, e.val), NEW ty, NEW a, a.kind = "temp", NEW v \in Names,
           NEW path \in Followed, path # <<>>,
           Trapped(d) <=> Trapped(c) \/ Reached(v, Front(path)).trap,
           Carries(d, a, Reached(v, Front(path)).val + Offset(Last(path)))
    PROVE  Done("assignment", e, v, path, After(Append(d, Store(ty, e.opnd, a))))
  <1> DEFINE in == Store(ty, e.opnd, a)
             m == After(d)
             k == After(Append(d, in))
             place == Reached(v, Front(path))
             x == place.val + Offset(Last(path))
  <1>1. k = Exec(m, in)
    BY ExecuteAppend DEF After
  <1>2. m \in Machines /\ m.vars = memory.vars /\ m.heap = memory.heap
        /\ (m.trap <=> e.trap \/ place.trap)
    BY DEF Right, Trapped
  <1>3. ~m.trap => Value(m, e.opnd) = e.val /\ Value(m, a) = x
    BY GivenValue DEF Trapped, Carries
  <1>4. ~m.trap => Exec(m, in) = IF Value(m, a) \in DOMAIN m.heap
                                 THEN [m EXCEPT !.heap = [@ EXCEPT ![Value(m, a)] = Value(m, e.opnd)]]
                                 ELSE [m EXCEPT !.trap = TRUE]
    BY ExecStoreField
  <1>5. m.trap => Exec(m, in) = m
    BY ExecTrapped
  <1>6. memory.vars = [w \in Names |-> memory.vars[w]]
        /\ memory.heap = [b \in DOMAIN memory.heap |-> memory.heap[b]]
    BY DEF MemoryInv, Machines
  <1> HIDE DEF m, k, in, x, place
  <1>7. CASE m.trap
    <2>1. k.trap
      BY <1>1, <1>5, <1>7
    <2>2. e.trap \/ place.trap
      BY <1>2, <1>7
    <2> QED
      BY <2>1, <2>2 DEF Done, k, in, place
  <1>8. CASE ~m.trap /\ x \notin DOMAIN memory.heap
    <2>1. k.trap
      BY <1>1, <1>2, <1>3, <1>4, <1>8 DEF Machines
    <2> QED
      BY <1>8, <2>1 DEF Done, k, in, x, place
  <1>9. CASE ~m.trap /\ x \in DOMAIN memory.heap
    <2>1. k.trap = m.trap /\ k.vars = memory.vars /\ k.heap = [memory.heap EXCEPT ![x] = e.val]
      BY <1>1, <1>2, <1>3, <1>4, <1>9 DEF Machines
    <2>2. k.vars = [w \in Names |-> IF w = v /\ FALSE THEN e.val ELSE memory.vars[w]]
      BY <1>6, <2>1
    <2>3. k.heap = [b \in DOMAIN memory.heap |-> IF TRUE /\ b = x THEN e.val ELSE memory.heap[b]]
      BY <1>6, <2>1
    <2>4. ~e.trap /\ ~place.trap /\ ~k.trap
      BY <1>2, <1>9, <2>1
    <2>5. path # <<>>
      OBVIOUS
    <2>6. k.vars = [w \in Names |-> IF w = v /\ path = <<>> THEN e.val ELSE memory.vars[w]]
      BY <2>2, <2>5
    <2>7. k.heap = [b \in DOMAIN memory.heap |->
                      IF path # <<>> /\ b = x THEN e.val ELSE memory.heap[b]]
      BY <2>3, <2>5
    <2> QED
      BY <1>9, <2>4, <2>5, <2>6, <2>7 DEF Done, k, in, x, place
  <1> QED
    BY <1>7, <1>8, <1>9

(* What the code of a statement on e starts from, and what it ends with.   *)
Ready(e) ==
    /\ MemoryInv /\ next \in Nat /\ \A k \in 0..3 : next + k \in Registered
    /\ Numbered(code, next) /\ Right(code) /\ Elem(code, e)
    /\ Trapped(code) <=> e.trap
Finished(kind, e, target, path, d) ==
    WellTyped(d) /\ Done(kind, e, target, path, After(d))

LEMMA ReadyFacts ==
    ASSUME NEW e, Ready(e)
    PROVE  /\ MemoryInv /\ next \in Registered /\ next + 1 \in Registered
           /\ Numbered(code, next) /\ IsCode(code) /\ Right(code) /\ WellTyped(code)
           /\ Elem(code, e) /\ Given(code, e.opnd, e.val) /\ OperandFor(e.real, e.opnd)
           /\ IsOperand(e.opnd)
           /\ Trapped(code) <=> e.trap
  <1>1. next + 0 \in Registered /\ next + 1 \in Registered /\ next + 0 = next
    BY DEF Ready
  <1>2. IsCode(code) /\ WellTyped(code)
    BY DEF Ready, Numbered, Right
  <1>3. Given(code, e.opnd, e.val) /\ OperandFor(e.real, e.opnd) /\ IsOperand(e.opnd)
    BY Zenon DEF Ready, Elem, Given
  <1> QED
    BY <1>1, <1>2, <1>3 DEF Ready

LEMMA AssignmentMeant ==
    ASSUME NEW e, Ready(e), NEW v \in Names, NEW path \in Followed, NEW lType \in {"int", "bool", "S"},
           Assignable(e.real, lType)
    PROVE  LET lReg == IF path = <<>> THEN Variable(v, lType) ELSE FieldAddress(path, next)
               in == Store(lType, e.opnd, lReg)
           IN  Finished("assignment", e, v, path, code \o Append(AddressCode(v, path, next), in))
  <1> DEFINE lReg == IF path = <<>> THEN Variable(v, lType) ELSE FieldAddress(path, next)
             in == Store(lType, e.opnd, lReg)
             addressed == AddressCode(v, path, next)
             d == code \o addressed
  <1>1. /\ MemoryInv /\ Numbered(code, next) /\ IsCode(code) /\ Right(code) /\ WellTyped(code)
        /\ Elem(code, e) /\ Given(code, e.opnd, e.val) /\ (Trapped(code) <=> e.trap)
    BY ReadyFacts
  <1>2. CASE path = <<>>
    <2>1. addressed = <<>>
      <3>1. AddressIs(v, "f", "f", next)
        BY AddressFacts DEF Ready
      <3> QED
        BY <1>2, <3>1, Zenon DEF AddressIs
    <2>2. in = Store(lType, e.opnd, Variable(v, lType))
      BY <1>2
    <2> HIDE DEF in, addressed
    <2>3. code \o Append(addressed, in) = Append(code, in)
      <3>1. code \o Append(<<>>, in) = Append(code \o <<>>, in)
        BY <1>1, FewAreCode, JoinAppend
      <3>2. code \o <<>> = code
        BY <1>1, JoinNothing
      <3> QED
        BY <2>1, <3>1, <3>2
    <2>4. Done("assignment", e, v, path, After(Append(code, in)))
      BY <1>1, <1>2, <2>2, VariableStored
    <2>5. WellTyped(Append(code, in))
      BY <1>1, <2>2, StoreTyped
    <2> QED
      BY <2>3, <2>4, <2>5 DEF Finished, in, addressed
  <1>3. CASE path # <<>>
    <2>1. AddressGiven(code, next, v, path)
      <3>1. /\ next + 0 \in Registered /\ next + 1 \in Registered /\ next + 2 \in Registered
            /\ next + 3 \in Registered /\ next + 0 = next
        BY DEF Ready
      <3> QED
        BY <1>1, <1>3, <3>1, AddressMeant
    <2> DEFINE place == Reached(v, Front(path))
               a == FieldAddress(path, next)
    <2>2. /\ IsCode(addressed)
          /\ Leads(code, d, next + 2 * Len(path)) /\ (Trapped(d) <=> Trapped(code) \/ place.trap)
          /\ a.kind = "temp" /\ Carries(d, a, place.val + Offset(Last(path)))
      BY <2>1, Zenon DEF AddressGiven
    <2>3. in = Store(lType, e.opnd, a)
      BY <1>3
    <2> HIDE DEF d, a, in, addressed
    <2>4. IsCode(d) /\ Right(d) /\ WellTyped(d) /\ Keeps(code, d)
      BY <2>2 DEF Leads, Numbered, Right
    <2>5. Elem(d, e) /\ Given(d, e.opnd, e.val)
      BY <1>1, <2>4, ElemKept, GivenKept
    <2>6. Done("assignment", e, v, path, After(Append(d, in)))
      BY <1>1, <1>3, <2>2, <2>3, <2>4, <2>5, FieldStored
    <2>7. WellTyped(Append(d, in))
      BY <2>3, <2>4, <2>5, StoreTyped
    <2>8. code \o Append(addressed, in) = Append(d, in)
      BY <1>1, <2>2, JoinAppend DEF d
    <2> QED
      BY <2>6, <2>7, <2>8 DEF Finished, in, addressed
  <1> QED
    BY <1>2, <1>3

LEMMA PrintMeant ==
    ASSUME NEW e, Ready(e), e.real = "int"
    PROVE  Finished("print", e, "", <<>>, Append(code, Printf(e.opnd)))
  <1> DEFINE in == Printf(e.opnd)
             o == e.opnd
  <1>1. /\ MemoryInv /\ IsCode(code) /\ Right(code) /\ WellTyped(code)
        /\ Given(code, o, e.val) /\ OperandFor("int", o) /\ IsOperand(o)
        /\ (Trapped(code) <=> e.trap)
    BY ReadyFacts
  <1>2. in.op = "Printf" /\ in.args[1] = o /\ DOMAIN in.args = 1..1 /\ Sights(in, o)
    <2>1. in.op = "Printf" /\ in.args[1] = o /\ DOMAIN in.args = 1..1
      BY DEF Printf, Instr
    <2>2. Sights(in, o)
      BY SightsAre
    <2> QED
      BY <2>1, <2>2
  <1> HIDE DEF in, o
  <1>3. UsedAs(in, 1) = "i64" /\ ValueOperands(in) = 1..1
    BY <1>2 DEF UsedAs, ValueOperands
  <1>4. FitsAfter(code, in, 1)
    <2>1. Suits(o, "i64")
      BY <1>1, SuitsReal
    <2>2. SeesTyped(code, o)
      BY <1>1, GivenValue
    <2> QED
      BY <1>2, <1>3, <2>1, <2>2, SuitsFits
  <1>5. WellTyped(Append(code, in))
    BY <1>1, <1>3, <1>4, OneFits
  <1>6. Carries(code, o, e.val)
    BY <1>1, Zenon DEF Given, Delivers
  <1>7. Done("print", e, "", <<>>, After(Append(code, in)))
    BY <1>1, <1>2, <1>6, SeenDone
  <1> QED
    BY <1>5, <1>7 DEF Finished, in

LEMMA ReturnMeant ==
    ASSUME NEW e, Ready(e), e.real = "int"
    PROVE  LET t == Temp(next, "i64") r == Variable("_ret_val", "int")
           IN  Finished("return", e, "_ret_val", <<>>,
                        Append(Append(Append(code, Store("int", e.opnd, r)),
                                      Load("int", t, r)), Ret("int", t)))
  <1> DEFINE t == Temp(next, "i64")
             r == Variable("_ret_val", "int")
             a == Store("int", e.opnd, r)
             b == Load("int", t, r)
             c == Ret("int", t)
             d1 == Append(code, a)
             d2 == Append(d1, b)
             d3 == Append(d2, c)
  <1>1. /\ MemoryInv /\ next \in Registered /\ Numbered(code, next) /\ IsCode(code) /\ Right(code)
        /\ WellTyped(code) /\ Elem(code, e) /\ Given(code, e.opnd, e.val)
        /\ (Trapped(code) <=> e.trap)
    BY ReadyFacts
  <1>2. t.kind = "temp" /\ t.id = next /\ t.ty = "i64" /\ r.kind = "var" /\ r.name = "_ret_val"
    BY DEF Temp, Variable
  <1>3. /\ a.op = "Store" /\ a.dest.id = -1 /\ a.args = <<e.opnd, r>>
        /\ b.op = "Load" /\ b.dest = t /\ b.args = <<r>> /\ b.ty = "int"
        /\ c.op = "Ret" /\ c.args = <<t>> /\ c.ty = "int"
    BY DEF Store, Load, Ret, Instr, NoDest, Temp
  <1>4. WellTyped(d1) /\ IsCode(d1) /\ Numbered(d1, next)
    <2>1. Assignable(e.real, "int")
      BY DEF Assignable
    <2>2. WellTyped(d1)
      <3> HIDE DEF r
      <3> QED
        BY <1>1, <2>1, StoreTyped
    <2>3. Sees(code, e.opnd) /\ Sees(code, r)
      BY <1>1, <1>2, NothingSeen, GivenValue
    <2>4. Numbered(d1, next)
      <3> HIDE DEF r
      <3> QED
        BY <1>1, <2>3, SilentWrites DEF Written, Ready
    <2> QED
      BY <2>2, <2>4 DEF Numbered
  <1>5. WellTyped(d2) /\ IsCode(d2) /\ SeesTyped(d2, t)
    <2>1. ValueOperands(b) = {} /\ DefinedAs(b) = "i64" /\ TypeToLLVMString("i64") = "i64"
      BY <1>3 DEF ValueOperands, DefinedAs, TypeToLLVMString
    <2>2. Returns(b, t)
      BY <1>2, <1>3, <2>1 DEF Returns
    <2>3. b.dest.id \in {-1} \cup (next..((next + 1) - 1)) /\ next + 1 \in Nat /\ next <= next + 1
      BY <1>2, <1>3 DEF Ready
    <2>4. \A i \in DOMAIN b.args : Sees(d1, b.args[i])
      BY <1>2, <1>3, NothingSeen
    <2> HIDE DEF d1, t, r, b
    <2>5. SeesTyped(Append(d1, b), t)
      BY <1>4, <2>2, <2>3, <2>4, Emitted
    <2>6. WellTyped(Append(d1, b))
      BY <1>4, <2>1, EmittedTyped
    <2>7. IsCode(Append(d1, b))
      BY <1>4, Appended
    <2> QED
      BY <2>5, <2>6, <2>7 DEF b
  <1>6. WellTyped(d3)
    <2>1. ValueOperands(c) \subseteq {1} /\ UsedAs(c, 1) = "i64" /\ c.args[1] = t
      BY <1>3 DEF ValueOperands, UsedAs, TypeToLLVMString
    <2>2. Suits(t, "i64")
      BY <1>2 DEF Suits, TypeToLLVMString
    <2> HIDE DEF d2, t, c
    <2>3. FitsAfter(d2, c, 1)
      BY <1>5, <2>1, <2>2, SuitsFits
    <2>4. WellTyped(Append(d2, c))
      BY <1>5, <2>1, <2>3, OneFits
    <2> QED
      BY <2>4 DEF c
  <1> DEFINE m == After(code)
             m1 == After(d1)
             m2 == After(d2)
             m3 == After(d3)
  <1>7. m1 = Exec(m, a) /\ m2 = Exec(m1, b) /\ m3 = Exec(m2, c)
    <2> HIDE DEF a, b, c
    <2>1. m1 = Exec(m, a)
      BY <1>1, ExecuteAppend DEF After
    <2> HIDE DEF d1
    <2>2. m2 = Exec(m1, b)
      BY <1>4, ExecuteAppend DEF After
    <2> HIDE DEF d2
    <2>3. m3 = Exec(m2, c)
      BY <1>5, ExecuteAppend DEF After
    <2> QED
      BY <2>1, <2>2, <2>3
  <1>8. m \in Machines /\ m.vars = memory.vars /\ m.heap = memory.heap /\ (m.trap <=> e.trap)
    BY <1>1 DEF Right, Trapped
  <1>9. ~m.trap => Value(m, e.opnd) = e.val /\ e.val \in Int
    BY <1>1, GivenValue DEF Trapped
  <1>10. memory.vars \in [Names -> Int] /\ "_ret_val" \in Names
         /\ memory.heap = [x \in DOMAIN memory.heap |-> memory.heap[x]]
    BY <1>1 DEF MemoryInv, Machines, Names
  <1> HIDE DEF m, m1, m2, m3, t, r
  <1>11. CASE m.trap
    <2>1. m3 = m
      <3> HIDE DEF a, b, c
      <3>1. m1 = m
        BY <1>7, <1>11, ExecTrapped
      <3>2. m2 = m
        BY <1>7, <1>11, <3>1, ExecTrapped
      <3> QED
        BY <1>7, <1>11, <3>2, ExecTrapped
    <2>2. e.trap /\ m3.trap
      BY <1>8, <1>11, <2>1
    <2> HIDE DEF d3
    <2>3. Done("return", e, "_ret_val", <<>>, m3)
      BY <2>2 DEF Done
    <2> QED
      BY <1>6, <2>3 DEF Finished, m3, d3, t, r
  <1>12. CASE ~m.trap
    <2>1. m1 = [m EXCEPT !.vars = [@ EXCEPT !["_ret_val"] = e.val]]
      BY <1>2, <1>7, <1>9, <1>12, ExecStoreVariable
    <2>2. /\ m1.trap = m.trap /\ m1.heap = memory.heap /\ m1.temps \in [Registered -> Int]
          /\ m1.vars = [memory.vars EXCEPT !["_ret_val"] = e.val]
          /\ m1 \in Machines
      BY <1>8, <1>9, <1>10, <1>12, <2>1 DEF Machines
    <2>3. m1.vars["_ret_val"] = e.val
      BY <1>10, <2>2
    <2>4. m2 = Defining(m1, next, e.val)
      <3>1. ~m1.trap
        BY <1>12, <2>2
      <3>2. Yields(m1, b, m1.vars[r.name])
        BY <1>2, <3>1, ExecLoadVariable
      <3> HIDE DEF b
      <3> QED
        BY <1>2, <1>3, <1>7, <2>3, <3>2 DEF Yields
    <2>5. Gives(m1, m2, next, e.val)
      BY <1>1, <1>9, <1>12, <2>2, <2>4, DefiningFacts
    <2>6. m2.trap = m.trap /\ m2.vars = m1.vars /\ m2.heap = m1.heap /\ Value(m2, t) = e.val
          /\ m2 \in Machines
      BY <1>2, <2>2, <2>5, Zenon DEF Gives
    <2>7. m3 = [m2 EXCEPT !.out = e.val]
      <3>1. DOMAIN c.args = 1..1 /\ c.args[1] = t /\ c.op \in {"BrCond", "Ret", "Printf", "Free"}
        BY <1>3
      <3> HIDE DEF c
      <3>2. Exec(m2, c) = [m2 EXCEPT !.out = Value(m2, c.args[1])]
        BY <1>12, <2>6, <3>1, ExecSeen
      <3> QED
        BY <1>7, <2>6, <3>1, <3>2
    <2>8. /\ ~m3.trap /\ m3.out = e.val /\ m3.heap = memory.heap
          /\ m3.vars = [memory.vars EXCEPT !["_ret_val"] = e.val]
      BY <1>12, <2>2, <2>6, <2>7 DEF Machines
    <2>9. m3.vars = [w \in Names |-> IF w = "_ret_val" /\ TRUE THEN e.val ELSE memory.vars[w]]
      BY <1>10, <2>8
    <2>10. m3.heap = [x \in DOMAIN memory.heap |-> IF FALSE THEN e.val ELSE memory.heap[x]]
      BY <1>10, <2>8
    <2>11. ~e.trap
      BY <1>8, <1>12
    <2> HIDE DEF d3
    <2>12. Done("return", e, "_ret_val", <<>>, m3)
      BY <2>8, <2>9, <2>10, <2>11 DEF Done
    <2> QED
      BY <1>6, <2>12 DEF Finished, m3, d3, t, r
  <1> QED
    BY <1>11, <1>12

LEMMA DeleteMeant ==
    ASSUME NEW e, Ready(e), e.real = "S"
    PROVE  LET t == Temp(next, "S")
               o == [e.opnd EXCEPT !.ty = "S"]
           IN  Finished("delete", e, "", <<>>, Append(Append(code, Bitcast(t, o, "i8*")), Free(t)))
  <1> DEFINE t == Temp(next, "S")
             o == [e.opnd EXCEPT !.ty = "S"]
             a == Bitcast(t, o, "i8*")
             b == Free(t)
             d == Append(code, a)
  <1>1. /\ MemoryInv /\ next \in Registered /\ Numbered(code, next) /\ Right(code)
        /\ Given(code, e.opnd, e.val) /\ OperandFor("S", e.opnd) /\ IsOperand(e.opnd)
        /\ (Trapped(code) <=> e.trap)
    BY ReadyFacts
  <1>2. o = e.opnd /\ e.opnd.kind = "temp"
    <2>1. e.opnd.kind = "temp" /\ e.opnd.ty = "S"
      BY <1>1 DEF OperandFor
    <2>2. PICK y, ty : e.opnd = Temp(y, ty) \/ e.opnd = Immediate(y, ty)
      BY <1>1 DEF IsOperand
    <2> QED
      BY <2>1, <2>2 DEF Temp, Immediate
  <1>3. a = Bitcast(t, e.opnd, "i8*")
    BY <1>2
  <1>4. a.dest.id = next /\ b.op = "Free" /\ b.args[1] = t /\ b.ty = "i8*" /\ Sights(b, t)
        /\ t.id = next /\ t.kind = "temp"
    BY SightsAre DEF Bitcast, Free, Instr, Temp
  <1> HIDE DEF o, a, b
  <1>5. Grows(code, d, next + 1, a, e.val, FALSE) /\ Returns(a, Temp(next, "i8*"))
    BY <1>1, <1>2, <1>3, BitcastAdds
  <1> HIDE DEF d
  <1>6. Leads(code, d, next + 1) /\ (Trapped(d) <=> Trapped(code))
    BY <1>1, <1>4, <1>5, GrowsLeads
  <1>7. Carries(d, t, e.val) /\ SeesTyped(d, Temp(next, "i8*"))
    <2>1. Answers(d, a, e.val)
      BY <1>5, Zenon DEF Grows
    <2>2. Temp(next, "i8*").kind = "temp" /\ Temp(next, "i8*").id = a.dest.id
      BY <1>4 DEF Temp
    <2> HIDE DEF t
    <2>3. Carries(d, t, e.val)
      BY <1>4, <2>1, Zenon DEF Answers
    <2>4. Delivers(d, Temp(next, "i8*"), e.val)
      BY <1>5, <2>1, <2>2, Zenon DEF Answers
    <2> QED
      BY <2>3, <2>4 DEF Delivers
  <1>8. MemoryInv /\ IsCode(d) /\ Right(d) /\ WellTyped(d) /\ (Trapped(d) <=> e.trap)
    BY <1>1, <1>6 DEF Leads, Numbered, Right
  <1>9. FitsAfter(d, b, 1)
    <2>1. UsedAs(b, 1) = "i8*" /\ TypeToLLVMString("i8*") = "i8*"
      BY <1>4 DEF UsedAs, TypeToLLVMString
    <2>2. Temp(next, "i8*").kind = "temp" /\ Temp(next, "i8*").id = next
          /\ Temp(next, "i8*").ty = "i8*"
      BY DEF Temp
    <2>3. PICK j \in DOMAIN d : d[j].dest.id = next /\ DefinedAs(d[j]) = "i8*"
      BY <1>7, <2>1, <2>2 DEF SeesTyped, Lenient
    <2> HIDE DEF t
    <2> QED
      BY <1>4, <2>1, <2>3 DEF FitsAfter
  <1> HIDE DEF t
  <1>10. WellTyped(Append(d, b))
    <2>1. ValueOperands(b) \subseteq {1}
      <3>1. DOMAIN b.args = 1..1
        BY <1>4 DEF Sights
      <3> QED
        BY <1>4, <3>1 DEF ValueOperands
    <2> QED
      BY <1>8, <1>9, <2>1, OneFits
  <1>11. Done("delete", e, "", <<>>, After(Append(d, b)))
    BY <1>4, <1>7, <1>8, SeenDone
  <1> QED
    BY <1>10, <1>11 DEF Finished, t, o, a, b, d

(* A condition: an if branches on its selection, a for on what it selects. *)
LEMMA ConditionMeant ==
    ASSUME NEW e, Ready(e), e.real = "bool", NEW kind \in {"if", "for"}
    PROVE  Finished(kind, e, "", <<>>,
                    ConditionCode(code, Truncated(kind, e.opnd), e.opnd, next, kind))
  <1> DEFINE o == e.opnd
             cut == Truncated(kind, o)
             cOperand == IF cut THEN Temp(next, "i1") ELSE o
             k == next + Bit(cut)
             sel == Temp(k, "i1")
             c == IF cut THEN Append(code, Trunc(cOperand, o)) ELSE code
             s == Select(sel, cOperand, "i1")
             d == Append(c, s)
             b == BrCond(IF kind = "if" THEN sel ELSE cOperand)
             x == e.val
  <1>1. /\ MemoryInv /\ next \in Registered /\ next + 1 \in Registered /\ Numbered(code, next)
        /\ Right(code) /\ Given(code, o, x) /\ OperandFor("bool", o) /\ IsOperand(o)
        /\ (Trapped(code) <=> e.trap) /\ Elem(code, e)
    BY ReadyFacts
  <1>2. x \in {0, 1} /\ x \in Int
    BY <1>1 DEF Elem
  <1>3. cut \in BOOLEAN /\ k \in Registered
    BY <1>1, MaxNodesAssumption DEF Truncated, Bit, Registered
  <1>4. Meant(code, c, k, cOperand, x) /\ cOperand.ty \in Lenient
    <2>1. CASE cut
      <3> DEFINE t == Temp(next, "i1")
                 in == Trunc(t, o)
      <3>1. Suits(o, "i64")
        BY <1>1, SuitsReal
      <3>2. Grows(code, Append(code, in), next + 1, in, x, FALSE) /\ Returns(in, t)
        BY <1>1, <3>1, TruncAdds
      <3>3. in.dest.id = next /\ t.ty = "i1"
        BY DEF Trunc, Instr, Temp
      <3>4. k = next + 1 /\ cOperand = t /\ c = Append(code, in)
        BY <2>1 DEF Bit
      <3> HIDE DEF in, k, cOperand, c
      <3>5. Meant(code, Append(code, in), next + 1, Temp(next, "i1"), x)
        BY <1>1, <1>2, <3>2, <3>3, GrowsMeant
      <3> QED
        BY <3>3, <3>4, <3>5 DEF Lenient
    <2>2. CASE ~cut
      <3>1. k = next /\ cOperand = o /\ c = code
        BY <1>1, <2>2, MaxNodesAssumption DEF Bit, Registered
      <3>2. Meant(code, code, next, o, x)
        BY <1>1, LeadsNowhere DEF Meant
      <3>3. o.ty \in Lenient
        <4>1. PICK y, ty : o = Temp(y, ty) \/ o = Immediate(y, ty)
          BY <1>1 DEF IsOperand
        <4>2. o.kind = "temp" \/ o.kind = "imm"
          <5>1. Temp(y, ty).kind = "temp" /\ Immediate(y, ty).kind = "imm"
            BY DEF Temp, Immediate
          <5> QED
            BY <4>1, <5>1
        <4> HIDE DEF o
        <4> QED
          BY <1>1, <2>2, <4>2 DEF OperandFor, Truncated, Lenient
      <3> QED
        BY <3>1, <3>2, <3>3
    <2> QED
      BY <2>1, <2>2
  <1>5. ConditionCode(code, cut, o, next, kind) = Append(d, b)
    BY DEF ConditionCode
  <1>6. s.dest.id = k /\ sel.ty = "i1"
    BY DEF Select, Instr, Temp
  <1> HIDE DEF cut, cOperand, k, c
  <1>7. Grows(c, d, k + 1, s, x, FALSE) /\ Returns(s, Temp(k, "i1"))
    BY <1>2, <1>3, <1>4, SelectAdds DEF Meant, Leads
  <1> HIDE DEF s, d
  <1>8. Meant(c, d, k + 1, Temp(k, "i1"), x)
    BY <1>2, <1>3, <1>6, <1>7, GrowsMeant
  <1>9. Given(d, sel, x) /\ Given(d, cOperand, x)
    BY <1>4, <1>8, GivenKept DEF Meant, Leads
  <1>10. IsCode(d) /\ Right(d) /\ WellTyped(d) /\ (Trapped(d) <=> e.trap)
    BY <1>1, <1>4, <1>8 DEF Meant, Leads, Numbered, Right
  <1> DEFINE u == IF kind = "if" THEN sel ELSE cOperand
  <1>11. Given(d, u, x) /\ u.ty \in Lenient /\ b = BrCond(u)
    BY <1>4, <1>6, <1>9 DEF Lenient
  <1> HIDE DEF u, b
  <1>12. Sights(b, u) /\ b.op = "BrCond" /\ DOMAIN b.args = 1..1 /\ b.args[1] = u
    BY <1>11, SightsAre DEF BrCond, Instr
  <1>13. WellTyped(Append(d, b))
    <2>1. ValueOperands(b) \subseteq {1}
      BY <1>12 DEF ValueOperands
    <2>2. FitsAfter(d, b, 1)
      BY <1>11, <1>12 DEF FitsAfter, Excused
    <2> QED
      BY <1>10, <2>1, <2>2, OneFits
  <1>14. Done(kind, e, "", <<>>, After(Append(d, b)))
    <2>1. Carries(d, u, x)
      BY <1>11, Zenon DEF Given, Delivers
    <2> QED
      BY <1>1, <1>10, <1>12, <2>1, SeenDone
  <1> HIDE DEF o
  <1>15. Finished(kind, e, "", <<>>, Append(d, b))
    BY <1>13, <1>14 DEF Finished
  <1> QED
    BY <1>5, <1>15 DEF o, cut

-----------------------------------------------------------------------------
(* Every step keeps the meaning.                                           *)
LEMMA MeantContinues ==
    ASSUME NEW s, NEW n, NEW c, NEW d, NEW m, NEW o, NEW x, NEW e, Meaningful(c, s),
           IsStack(s), n \in 0..Len(s),
           Meant(c, d, m, o, x), e.opnd = o, e.val = x, OperandFor(e.real, o),
           e.real = "bool" => x \in {0, 1}, e.trap \in BOOLEAN,
           e.trap <=> \E j \in (Len(s) - n + 1)..Len(s) : s[j].trap
    PROVE  Continues(c, d, s, n, e)
  <1>1. DOMAIN s = 1..Len(s) /\ Len(s) \in Nat
    BY DEF IsStack
  <1>2. e.trap => Trapped(c)
    <2> SUFFICES ASSUME e.trap PROVE Trapped(c)
      OBVIOUS
    <2>1. PICK j \in (Len(s) - n + 1)..Len(s) : s[j].trap
      OBVIOUS
    <2>2. j \in DOMAIN s
      BY <1>1
    <2> QED
      BY <2>1, <2>2 DEF Meaningful
  <1>3. Elem(d, e)
    BY DEF Elem, Meant
  <1>4. Keeps(c, d) /\ Right(d) /\ (Trapped(d) <=> Trapped(c))
    BY DEF Meant, Leads
  <1> QED
    BY <1>2, <1>3, <1>4 DEF Continues

(* The step that replaces n expressions by one, and the one that finishes. *)
LEMMA MeaningReplace ==
    ASSUME MeaningInv, IsStack(stack), next \in Nat, nodes \in Nat, stm = NoStatement,
           NEW n \in 0..Len(stack), NEW e, NEW instrs, NEW registers \in 0..5,
           Replace(n, e, instrs, registers),
           e.real # "none" => \A j \in (Len(stack) - n + 1)..Len(stack) : stack[j].real # "none",
           AllTyped(stack) /\ e.real # "none" => Continues(code, code \o instrs, stack, n, e)
    PROVE  MeaningInv'
  <1> DEFINE d == code \o instrs
             t == Append(SubSeq(stack, 1, Len(stack) - n), e)
  <1>1. stack' = t /\ code' = d /\ next' = next + registers /\ nodes' = nodes + 1
        /\ stm' = stm /\ memory' = memory
    BY DEF Replace, Emit
  <1>2. AllTyped(stack) => Meaningful(code, stack)
    BY DEF MeaningInv
  <1>3. AllTyped(t) => Meaningful(d, t)
    BY <1>2, ReplacedMeaning
  <1> HIDE DEF d, t
  <1>4. AllTyped(stack)' => Meaningful(code, stack)'
    <2> SUFFICES ASSUME AllTyped(stack)' PROVE Meaningful(code, stack)'
      OBVIOUS
    <2>1. AllTyped(t)
      BY <1>1 DEF AllTyped
    <2> QED
      BY <1>1, <1>3, <2>1, MeaningfulNext
  <1>5. next' <= 5 * nodes' + 1
    BY <1>1 DEF MeaningInv
  <1>6. MemoryInv'
    BY <1>1 DEF MeaningInv, MemoryInv
  <1>7. stm'.kind = "none" /\ stm'.path \in Followed
    BY <1>1 DEF NoStatement, MeaningInv
  <1>8. ComputesTheStatement' /\ AgreesOnPointersAndInts'
    BY <1>7 DEF ComputesTheStatement, AgreesOnPointersAndInts
  <1> QED
    BY <1>4, <1>5, <1>6, <1>7, <1>8 DEF MeaningInv

LEMMA MeaningFinish ==
    ASSUME MeaningInv, next \in Nat, nodes \in Nat,
           NEW kind \in {"assignment", "return", "print", "delete", "if", "for"},
           NEW accepted, NEW typed \in BOOLEAN, NEW instrs, NEW target, NEW path \in Followed,
           Finish(kind, accepted, typed, instrs, target, path),
           typed => Finished(kind, Top, target, path, code \o instrs)
    PROVE  MeaningInv'
  <1> DEFINE d == code \o instrs
             front == Front(path)
  <1>1. /\ stm'.kind = kind /\ stm'.typed = typed /\ stm'.trap = Top.trap
        /\ stm'.effect = Top.val /\ stm'.target = target /\ stm'.path = path
    BY DEF Finish
  <1>2. code' = d /\ next' = next + 0 /\ nodes' = nodes /\ memory' = memory
    BY DEF Finish, Emit
  <1>3. stm' # NoStatement
    <2>1. NoStatement.kind = "none"
      BY DEF NoStatement
    <2> QED
      BY <1>1, <2>1
  <1>4. path # <<>> => front \in Followed
    BY FrontFollowed
  <1>5. path # <<>> => Reached(target, front)' = Reached(target, front)
    BY <1>2, <1>4, ReachedSame
  <1> HIDE DEF d, front
  <1>6. AgreesOnPointersAndInts'
    <2> SUFFICES ASSUME typed PROVE AgreesOnPointersAndInts'
      BY <1>1 DEF AgreesOnPointersAndInts
    <2>1. WellTyped(d)
      BY DEF Finished, d
    <2>2. WellTyped(code')
      BY <1>2, <2>1
    <2> QED
      BY <2>2 DEF AgreesOnPointersAndInts, WellTyped, Excused, Lenient
  <1>7. ComputesTheStatement'
    <2> SUFFICES ASSUME typed PROVE ComputesTheStatement'
      BY <1>1 DEF ComputesTheStatement
    <2>1. Done(kind, Top, target, path, After(d))
      BY DEF Finished, d
    <2>2. After(code)' = After(d)
      BY <1>2 DEF After
    <2> DEFINE p == Reached(target, front)
    <2> QED
      BY <1>1, <1>2, <1>5, <2>1, <2>2 DEF ComputesTheStatement, Done, After, front
  <1>8. MemoryInv'
    BY <1>2 DEF MeaningInv, MemoryInv
  <1>9. next' <= 5 * nodes' + 1
    BY <1>2 DEF MeaningInv
  <1> QED
    BY <1>1, <1>3, <1>6, <1>7, <1>8, <1>9 DEF MeaningInv

LEMMA MeaningNext == TypeInv /\ OnceInv /\ MeaningInv /\ [Next]_vars => MeaningInv'
  <1> SUFFICES ASSUME TypeInv, OnceInv, MeaningInv, [Next]_vars PROVE MeaningInv'
    OBVIOUS
  <1>1. /\ IsStack(stack) /\ Len(stack) \in Nat /\ DOMAIN stack = 1..Len(stack)
        /\ 0 \in 0..Len(stack) /\ next \in Nat /\ nodes \in Nat
        /\ nodes + Len(stack) <= MaxNodes + 1 /\ nodes <= MaxNodes
    BY DEF TypeInv, SoundInv, SoundStack, IsStack
  <1>2. ASSUME stm = NoStatement
        PROVE  Numbered(code, next) /\ IsCode(code)
    BY <1>2 DEF OnceInv, Numbered
  <1>3. MemoryInv /\ next <= 5 * nodes + 1 /\ next >= 1
    BY DEF MeaningInv, TypeInv
  <1>4. ASSUME nodes < MaxNodes PROVE \A k \in 0..4 : next + k \in Registered
    BY <1>1, <1>3, <1>4, MaxNodesAssumption DEF Registered
  <1>5. ASSUME Open PROVE stm = NoStatement /\ (\A k \in 0..4 : next + k \in Registered)
                          /\ next \in Registered /\ next + 1 \in Registered
    <2>1. stm = NoStatement /\ nodes < MaxNodes
      BY <1>1, <1>5, MaxNodesAssumption DEF Open
    <2>2. \A k \in 0..4 : next + k \in Registered
      BY <1>4, <2>1
    <2>3. next + 0 \in Registered /\ next + 1 \in Registered /\ next + 0 = next
      BY <1>1, <2>2
    <2> QED
      BY <2>1, <2>2, <2>3
  <1>6. ASSUME stm = NoStatement, AllTyped(stack)
        PROVE  /\ Meaningful(code, stack) /\ Right(code) /\ Numbered(code, next)
               /\ \A j \in DOMAIN stack : Elem(code, stack[j])
    BY <1>2, <1>6 DEF MeaningInv, Meaningful
  <1>7. ASSUME stack # <<>>
        PROVE  /\ 1 \in 0..Len(stack) /\ Len(stack) \in DOMAIN stack
               /\ (Len(stack) - 1 + 1)..Len(stack) = {Len(stack)} /\ Sound(Top)
    <2>1. Len(stack) >= 1
      BY <1>1, <1>7, TopIsSound DEF TypeInv, SoundInv
    <2>2. Sound(Top)
      BY <1>7, TopIsSound DEF Top, TypeInv, SoundInv
    <2> QED
      BY <1>1, <2>1, <2>2
  (* A new expression that holds no old one.                               *)
  <1>8. ASSUME stm = NoStatement, NEW e, NEW instrs, NEW registers \in 0..5,
               Push(e, instrs, registers),
               AllTyped(stack) => Continues(code, code \o instrs, stack, 0, e)
        PROVE  MeaningInv'
    <2>1. (Len(stack) - 0 + 1)..Len(stack) = {}
      BY <1>1
    <2>2. Replace(0, e, instrs, registers)
      BY <1>8 DEF Push
    <2> QED
      BY <1>1, <1>8, <2>1, <2>2, MeaningReplace
  <1>9. ASSUME AllTyped(stack), stm = NoStatement, NEW d, NEW m, NEW o, NEW x, NEW e,
               Meant(code, d, m, o, x), e.opnd = o, e.val = x, OperandFor(e.real, o),
               e.real = "bool" => x \in {0, 1}, e.trap = FALSE
        PROVE  Continues(code, d, stack, 0, e)
    <2>1. (Len(stack) - 0 + 1)..Len(stack) = {}
      BY <1>1
    <2> QED
      BY <1>1, <1>6, <1>9, <2>1, MeantContinues
  (* A new expression in the place of the last.                            *)
  <1>10. ASSUME AllTyped(stack), stm = NoStatement, stack # <<>>,
                NEW d, NEW m, NEW o, NEW x, NEW e,
                Meant(code, d, m, o, x), e.opnd = o, e.val = x, OperandFor(e.real, o),
                e.real = "bool" => x \in {0, 1}, e.trap = Top.trap
         PROVE  Continues(code, d, stack, 1, e)
    <2>1. Elem(code, Top)
      BY <1>6, <1>7, <1>10 DEF Top
    <2>2. e.trap \in BOOLEAN
      BY <1>10, <2>1, Zenon DEF Elem
    <2>3. e.trap <=> \E j \in (Len(stack) - 1 + 1)..Len(stack) : stack[j].trap
      BY <1>7, <1>10 DEF Top
    <2> QED
      BY <1>1, <1>6, <1>7, <1>10, <2>2, <2>3, MeantContinues
  <1>11. ASSUME AllTyped(stack), stm = NoStatement, stack # <<>>
         PROVE  /\ Elem(code, Top) /\ Given(code, Top.opnd, Top.val)
                /\ OperandFor(Top.real, Top.opnd) /\ IsOperand(Top.opnd)
                /\ Top.real = "bool" => Top.val \in {0, 1}
    <2>1. Elem(code, Top)
      BY <1>6, <1>7, <1>11 DEF Top
    <2> QED
      BY <2>1, Zenon DEF Elem, Given
  <1>12. ASSUME NEW n \in 0..Len(stack), NEW e, NEW instrs, NEW registers \in 0..5,
                stm = NoStatement, Replace(n, e, instrs, registers), e.real = "none"
         PROVE  MeaningInv'
    BY <1>1, <1>12, MeaningReplace
  <1>13. CASE Literal
    <2>1. PICK l \in {<<2, "int">>, <<1, "bool">>, <<0, "nil">>} :
             Open /\ Push(Leaf(l[2], Immediate(l[1], l[2]), l[1], FALSE), <<>>, 0)
      BY <1>13 DEF Literal
    <2> DEFINE o == Immediate(l[1], l[2])
               e == Leaf(l[2], o, l[1], FALSE)
               x == l[1]
    <2>2. stm = NoStatement
      BY <1>5, <2>1
    <2>3. code \o <<>> = code
      BY <1>2, <2>2, JoinNothing
    <2>4. e.real = l[2] /\ e.opnd = o /\ e.val = x /\ e.trap = FALSE
      BY Zenon DEF Leaf, Expr
    <2>5. x \in Int /\ (l[2] = "bool" => x \in {0, 1}) /\ l[2] \in {"int", "bool", "nil"}
      OBVIOUS
    <2>6. OperandFor(l[2], o)
      <3>1. o.kind = "imm" /\ o.ty = l[2]
        BY DEF Immediate
      <3> QED
        BY <2>5, <3>1 DEF OperandFor, Lenient
    <2>7. ASSUME AllTyped(stack) PROVE Meant(code, code, next, o, x)
      BY <1>6, <2>2, <2>5, <2>7, LeadsNowhere, NumbersGiven DEF Meant
    <2>8. Push(e, <<>>, 0)
      BY <2>1
    <2> HIDE DEF o, e, x
    <2>9. AllTyped(stack) => Continues(code, code, stack, 0, e)
      BY <1>9, <2>2, <2>4, <2>5, <2>6, <2>7
    <2>10. 0 \in 0..5
      OBVIOUS
    <2> QED
      BY <1>8, <2>2, <2>3, <2>8, <2>9, <2>10
  <1>14. ASSUME NEW v \in Operands, VariableExpr(v) PROVE MeaningInv'
    <2> DEFINE ty == GetType[v]
               t == Temp(next, ty)
               in == Load(ty, t, Variable(v, ty))
               x == memory.vars[v]
               e == Leaf(ty, t, x, FALSE)
               d == Append(code, in)
    <2>1. Open /\ Push(e, <<in>>, 1)
      BY <1>14 DEF VariableExpr
    <2>2. stm = NoStatement /\ next \in Registered
      BY <1>5, <2>1
    <2>3. v \in Names /\ ty \in {"int", "bool", "S"} /\ (ty = "bool" => v = "b")
      BY DEF Operands, Names, GetType
    <2>4. ASSUME AllTyped(stack) PROVE Meant(code, d, next + 1, t, x)
      BY <1>3, <1>6, <2>2, <2>3, <2>4, VariableMeant
    <2>5. e.real = ty /\ e.opnd = t /\ e.val = x /\ e.trap = FALSE
      BY Zenon DEF Leaf, Expr
    <2>6. OperandFor(ty, t)
      <3>1. t.kind = "temp" /\ t.ty = ty
        BY DEF Temp
      <3> QED
        BY <2>3, <3>1 DEF OperandFor, Lenient
    <2>7. ty = "bool" => x \in {0, 1}
      BY <1>3, <2>3 DEF MemoryInv
    <2> HIDE DEF in, t, e, x, ty
    <2>8. code \o <<in>> = d
      BY <1>2, <2>2, JoinFew
    <2> HIDE DEF d
    <2>9. AllTyped(stack) => Continues(code, d, stack, 0, e)
      BY <1>9, <2>2, <2>4, <2>5, <2>6, <2>7
    <2>10. 1 \in 0..5
      OBVIOUS
    <2> QED
      BY <1>8, <2>1, <2>2, <2>8, <2>9, <2>10
  <1>15. ASSUME NEW path \in Paths, FieldExpr("p", path) PROVE MeaningInv'
    <2> DEFINE ty == FieldType(Last(path))
               m == next + 2 * Len(path)
               t == Temp(m, ty)
               found == Reached("p", path)
               addressed == AddressCode("p", path, next)
               in == Load(ty, t, FieldAddress(path, next))
               e == Leaf(ty, t, found.val, found.trap)
               d == Append(code \o addressed, in)
    <2>1. Open /\ Push(e, Append(addressed, in), 2 * Len(path) + 1)
      BY <1>15 DEF FieldExpr
    <2>2. stm = NoStatement /\ \A k \in 0..4 : next + k \in Registered
      BY <1>5, <2>1
    <2>3. path \in Followed /\ path # <<>> /\ 2 * Len(path) + 1 \in 0..5 /\ ty = "int"
          /\ "p" \in Names
      <3>1. path = <<"f">> \/ path = <<"n", "f">>
        BY DEF Paths
      <3>2. path # <<>> /\ path \in Followed
        BY <3>1 DEF Followed, Fields
      <3>4. 2 * Len(path) + 1 \in 0..5
        <4>1. Len(<<"f">>) = 1 /\ Len(<<"n", "f">>) = 2
          OBVIOUS
        <4>2. Len(path) = 1 \/ Len(path) = 2
          BY <3>1, <4>1
        <4> DEFINE k == Len(path)
        <4> HIDE DEF k
        <4>3. k = 1 \/ k = 2
          BY <4>2 DEF k
        <4>4. 2 * k + 1 \in 0..5
          BY <4>3
        <4> QED
          BY <4>4 DEF k
      <3>3. Last(path) = "f"
        BY <3>1 DEF Last
      <3> QED
        BY <3>2, <3>3, <3>4 DEF FieldType, Names
    <2>4. ASSUME AllTyped(stack)
          PROVE  /\ Leads(code, d, m + 1) /\ (Trapped(d) <=> Trapped(code) \/ found.trap)
                 /\ Given(d, t, found.val) /\ found.trap \in BOOLEAN
      BY <1>1, <1>3, <1>6, <2>2, <2>3, <2>4, FieldMeant
    <2>5. e.real = "int" /\ e.opnd = t /\ e.val = found.val /\ e.trap = found.trap
      BY <2>3, Zenon DEF Leaf, Expr
    <2>6. OperandFor("int", t)
      <3>1. t.ty = "int"
        BY <2>3 DEF Temp
      <3> QED
        BY <3>1 DEF OperandFor
    <2>7. code \o Append(addressed, in) = d
      <3>1. IsCode(addressed)
        BY <1>1, <1>2, <2>2, <2>3, AddressWritten
      <3> HIDE DEF addressed, in
      <3> QED
        BY <1>2, <2>2, <3>1, JoinAppend
    <2> HIDE DEF d, t, in, addressed, found, m, e
    <2>8. ASSUME AllTyped(stack) PROVE Continues(code, d, stack, 0, e)
      <3>1. Elem(d, e) /\ Keeps(code, d) /\ Right(d) /\ (Trapped(d) <=> Trapped(code) \/ e.trap)
        BY <2>4, <2>5, <2>6, <2>8 DEF Elem, Leads
      <3>2. (Len(stack) - 0 + 1)..Len(stack) = {}
        BY <1>1
      <3> QED
        BY <3>1, <3>2 DEF Continues
    <2> QED
      BY <1>8, <2>1, <2>2, <2>3, <2>7, <2>8
  <1>16. CASE New
    <2> DEFINE a == Malloc(Temp(next, "S"))
               t == Temp(next + 1, "S")
               b == Bitcast(t, Temp(next, "i8*"), "S")
               e == Leaf("S", t, NewObject, FALSE)
               d == Append(Append(code, a), b)
    <2>1. Open /\ Push(e, <<a, b>>, 2)
      BY <1>16 DEF New
    <2>2. stm = NoStatement /\ next \in Registered /\ next + 1 \in Registered
      BY <1>5, <2>1
    <2>3. ASSUME AllTyped(stack) PROVE Meant(code, d, next + 2, t, NewObject)
      BY <1>6, <2>2, <2>3, NewMeant
    <2>4. e.real = "S" /\ e.opnd = t /\ e.val = NewObject /\ e.trap = FALSE
      BY Zenon DEF Leaf, Expr
    <2>5. OperandFor("S", t)
      BY DEF OperandFor, Temp
    <2> HIDE DEF a, b, t, e
    <2>6. code \o <<a, b>> = d
      BY <1>2, <2>2, JoinFew
    <2> HIDE DEF d
    <2>7. AllTyped(stack) => Continues(code, d, stack, 0, e)
      BY <1>9, <2>2, <2>3, <2>4, <2>5
    <2>10. 2 \in 0..5
      OBVIOUS
    <2> QED
      BY <1>8, <2>1, <2>2, <2>6, <2>7, <2>10
  <1>17. ASSUME stm = NoStatement, stack # <<>>, NEW e, NEW instrs, NEW registers \in 0..5,
                Replace(1, e, instrs, registers), e.real # "none" => Top.real # "none",
                AllTyped(stack) /\ e.real # "none" => Continues(code, code \o instrs, stack, 1, e)
         PROVE  MeaningInv'
    <2>1. e.real # "none" => \A j \in (Len(stack) - 1 + 1)..Len(stack) : stack[j].real # "none"
      BY <1>7, <1>17 DEF Top
    <2> QED
      BY <1>1, <1>7, <1>17, <2>1, MeaningReplace
  <1>18. 0 \in 0..5 /\ 1 \in 0..5 /\ 2 \in 0..5 /\ 3 \in 0..5
    OBVIOUS
  <1>19. ASSUME NEW fn \in {"g", "h"}, Invocation(fn) PROVE MeaningInv'
    <2> DEFINE typed == Top.real = "int"
               ty == FunctionType(fn)
               t == Temp(next, "unknown")
               x == Called(fn, Top.val)
               e == Expr(ty, TRUE, IF typed THEN ty ELSE "none", t, x, Top.trap,
                         IF typed THEN Top.lax ELSE {"argument"}, Primary)
               in == CallAssign(t, ty, fn, Top.ty, Top.opnd)
               d == Append(code, in)
    <2>1. Open /\ stack # <<>> /\ Replace(1, e, <<in>>, 1)
      BY <1>19 DEF Invocation
    <2>2. stm = NoStatement /\ next \in Registered
      BY <1>5, <2>1
    <2>3. e.real = (IF typed THEN ty ELSE "none") /\ e.opnd = t /\ e.val = x /\ e.trap = Top.trap
      BY Zenon DEF Expr
    <2>4. ty \in {"int", "bool"} /\ (ty = "bool" => x \in {0, 1})
      BY DEF FunctionType, Called, Bit
    <2>5. OperandFor(ty, t)
      <3>1. t.ty = "unknown" /\ t.kind = "temp"
        BY DEF Temp
      <3> QED
        BY <2>4, <3>1 DEF OperandFor, Lenient
    <2>6. code \o <<in>> = d
      <3> HIDE DEF in
      <3> QED
        BY <1>2, <2>2, JoinFew
    <2>7. ASSUME AllTyped(stack), e.real # "none" PROVE Meant(code, d, next + 1, t, x)
      <3>1. typed
        BY <2>3, <2>7
      <3>2. Top.ty = "int"
        BY <1>7, <2>1, <3>1 DEF Sound
      <3>3. Given(code, Top.opnd, Top.val) /\ Suits(Top.opnd, "i64")
        BY <1>11, <2>1, <2>2, <2>7, <3>1, SuitsReal
      <3>4. Meant(code, Append(code, CallAssign(t, ty, fn, "int", Top.opnd)), next + 1, t, x)
        BY <1>6, <2>2, <2>7, <3>3, CallMeant
      <3> QED
        BY <3>2, <3>4
    <2> HIDE DEF in, t, e, d, x, ty
    <2>8. ASSUME AllTyped(stack), e.real # "none" PROVE Continues(code, d, stack, 1, e)
      <3>1. e.real = ty
        BY <2>3, <2>8
      <3> QED
        BY <1>10, <2>1, <2>2, <2>3, <2>4, <2>5, <2>7, <2>8, <3>1
    <2>9. e.real # "none" => Top.real # "none"
      BY <2>3
    <2> QED
      BY <1>17, <1>18, <2>1, <2>2, <2>6, <2>8, <2>9
  <1>20. CASE Parenthesised
    <2> DEFINE e == Expr(Top.ty, Top.ok, Top.real, Top.opnd, Top.val, Top.trap, Top.lax, Primary)
    <2>1. Open /\ stack # <<>> /\ Replace(1, e, <<>>, 0)
      BY <1>20 DEF Parenthesised
    <2>2. stm = NoStatement
      BY <1>5, <2>1
    <2>3. code \o <<>> = code
      BY <1>2, <2>2, JoinNothing
    <2>4. e.real = Top.real /\ e.opnd = Top.opnd /\ e.val = Top.val /\ e.trap = Top.trap
      BY Zenon DEF Expr
    <2> HIDE DEF e
    <2>5. ASSUME AllTyped(stack) PROVE Continues(code, code, stack, 1, e)
      <3>1. Meant(code, code, next, Top.opnd, Top.val)
        BY <1>6, <1>11, <2>1, <2>2, <2>5, LeadsNowhere DEF Meant
      <3> QED
        BY <1>10, <1>11, <2>1, <2>2, <2>4, <2>5, <3>1
    <2> QED
      BY <1>17, <1>18, <2>1, <2>2, <2>3, <2>4, <2>5
  <1>21. ASSUME NEW op \in {"-", "!"}, UnaryExpr(op) PROVE MeaningInv'
    <2> DEFINE in == UnaryCode(op, Top)
               ty == IF op = "-" THEN "int" ELSE "bool"
               typed == Top.real = ty
               x == IF op = "-" THEN -Top.val ELSE 1 - Top.val
               e == Expr(Top.ty, UnaryTypeCheck(Top), IF typed THEN Top.real ELSE "none",
                         in.dest, x, Top.trap, IF typed THEN Top.lax ELSE {"unary"}, Unary)
               d == Append(code, in)
    <2>1. Open /\ stack # <<>> /\ Replace(1, e, <<in>>, 1)
      BY <1>21 DEF UnaryExpr
    <2>2. stm = NoStatement /\ next \in Registered
      BY <1>5, <2>1
    <2>3. e.real = (IF typed THEN Top.real ELSE "none") /\ e.opnd = in.dest /\ e.val = x
          /\ e.trap = Top.trap
      BY Zenon DEF Expr
    <2>4. code \o <<in>> = d
      <3> HIDE DEF in
      <3> QED
        BY <1>2, <2>2, JoinFew
    <2> HIDE DEF e
    <2>5. ASSUME AllTyped(stack), e.real # "none" PROVE Continues(code, d, stack, 1, e)
      <3>1. typed /\ e.real = ty
        BY <2>3, <2>5
      <3>2. Elem(code, Top)
        BY <1>11, <2>1, <2>2, <2>5
      <3>3. /\ Meant(code, d, next + 1, in.dest, x)
            /\ OperandFor(Top.real, in.dest)
            /\ op = "!" => 1 - Top.val \in {0, 1}
        BY <1>6, <2>2, <2>5, <3>1, <3>2, UnaryMeant
      <3>4. ty = "bool" => x \in {0, 1}
        BY <3>3
      <3> HIDE DEF in, x, d, ty
      <3> QED
        BY <1>10, <2>1, <2>2, <2>3, <2>5, <3>1, <3>3, <3>4
    <2>6. e.real # "none" => Top.real # "none"
      BY <2>3
    <2> HIDE DEF in, d
    <2> QED
      BY <1>17, <1>18, <2>1, <2>2, <2>4, <2>5, <2>6
  <1>22. ASSUME NEW op \in Ops, BinaryExpr(op) PROVE MeaningInv'
    <2> DEFINE left == stack[Len(stack) - 1]
               extends == left.level = Level(op)
               typed == Typed(op, left.real, Top.real)
               in == BinaryCode(op, left.opnd, Top.opnd)
               ty == IF extends THEN left.ty ELSE BinaryType(left.ty, op, Top.ty)
               firstTy == IF extends THEN left.first ELSE left.ty
               looseness == (IF extends /\ IsComparison(op) THEN {"chain"} ELSE {})
                            \cup (IF "nil" \in {firstTy, Top.ty} THEN {"nil"} ELSE {})
               o == Last(in).dest
               real == IF ~typed THEN "none" ELSE IF op \in ArithmeticOps THEN "int" ELSE "bool"
               x == Meaning(op, left.val, Top.val)
               e == [Expr(ty, left.ok /\ Top.ok /\ Fits(firstTy, op, Top.ty), real, o, x,
                          left.trap \/ Top.trap,
                          left.lax \cup Top.lax \cup (IF typed THEN {} ELSE looseness),
                          Level(op))
                     EXCEPT !.first = firstTy]
               k == Registers(op, Top.opnd)
               d == code \o in
    <2>1. Replace(2, e, in, k)
      BY <1>22 DEF BinaryExpr
    <2>2. e.real = real /\ e.opnd = o /\ e.val = x
      BY DEF Expr
    <2>3. e.trap = (left.trap \/ Top.trap)
      BY DEF Expr
    <2>4. stm = NoStatement /\ Len(stack) >= 2
      BY <1>22 DEF BinaryExpr
    <2>5. /\ 2 \in 0..Len(stack) /\ Len(stack) - 1 \in DOMAIN stack /\ stack # <<>>
          /\ Len(stack) \in DOMAIN stack
          /\ (Len(stack) - 2 + 1)..Len(stack) = {Len(stack) - 1, Len(stack)}
      BY <1>1, <2>4
    <2>6. op \in AllOps
      BY OpsAssumption
    <2>7. \A j \in 0..4 : next + j \in Registered
      <3>1. nodes < MaxNodes
        BY <1>1, <2>4, MaxNodesAssumption
      <3> QED
        BY <1>4, <3>1
    <2>8. k \in 0..5
      <3>1. k \in 1..3
        BY <1>1, <2>6, BinaryOperand
      <3> HIDE DEF k
      <3> QED
        BY <3>1
    <2> HIDE DEF e
    <2>9. e.real # "none" => typed /\ left.real # "none" /\ Top.real # "none"
      <3>1. e.real # "none" => typed
        BY <2>2
      <3>2. typed => {left.real, Top.real} \subseteq OperandTypes(op)
        BY DEF Typed
      <3>3. "none" \notin OperandTypes(op)
        BY DEF OperandTypes
      <3> QED
        BY <3>1, <3>2, <3>3
    <2>10. ASSUME AllTyped(stack), e.real # "none" PROVE Continues(code, d, stack, 2, e)
      <3>1. typed /\ e.real = Answer(op)
        BY <2>2, <2>9, <2>10 DEF Answer
      <3>2. Elem(code, left) /\ Elem(code, Top)
        BY <1>6, <2>4, <2>5, <2>10 DEF Top
      <3>3. /\ Meant(code, d, next + k, o, x)
            /\ OperandFor(Answer(op), o)
            /\ Answer(op) = "bool" => x \in {0, 1}
        BY <1>1, <1>6, <2>4, <2>6, <2>7, <2>10, <3>1, <3>2, BinaryMeant
      <3>4. e.trap \in BOOLEAN
        BY <2>3
      <3>5. e.trap <=> \E j \in (Len(stack) - 2 + 1)..Len(stack) : stack[j].trap
        BY <2>3, <2>5 DEF Top
      <3> HIDE DEF in, x, d, k, o, typed
      <3> QED
        BY <1>1, <1>6, <2>2, <2>4, <2>5, <2>10, <3>1, <3>3, <3>4, <3>5, MeantContinues
    <2>11. e.real # "none" =>
             \A j \in (Len(stack) - 2 + 1)..Len(stack) : stack[j].real # "none"
      BY <2>5, <2>9 DEF Top
    <2> HIDE DEF in, k
    <2> QED
      BY <1>1, <2>1, <2>4, <2>5, <2>8, <2>10, <2>11, MeaningReplace
  (* A finished statement on the only expression.                          *)
  <1>23. ASSUME stm = NoStatement, Len(stack) = 1, Top.real # "none"
         PROVE  Ready(Top) /\ Top.ty = Top.real
    <2>1. stack # <<>> /\ DOMAIN stack = {1} /\ Top = stack[1]
      BY <1>1, <1>23 DEF Top
    <2>2. AllTyped(stack)
      BY <1>23, <2>1 DEF AllTyped
    <2>3. /\ Meaningful(code, stack) /\ Right(code) /\ Numbered(code, next) /\ Elem(code, Top)
      BY <1>6, <1>11, <1>23, <2>1, <2>2
    <2>4. Trapped(code) <=> Top.trap
      BY <2>1, <2>3 DEF Meaningful
    <2>5. \A k \in 0..3 : next + k \in Registered
      BY <1>1, <1>3, MaxNodesAssumption DEF Registered
    <2>6. Top.ty = Top.real
      BY <1>7, <1>23, <2>1 DEF Sound
    <2> QED
      BY <1>1, <1>3, <2>3, <2>4, <2>5, <2>6 DEF Ready
  <1>24. <<>> \in Followed
    BY DEF Followed
  <1>25. ASSUME NEW t \in Targets, Assignment(t[1], t[2]) PROVE MeaningInv'
    <2> DEFINE v == t[1]
               path == t[2]
               lType == IF path = <<>> THEN GetType[v] ELSE FieldType(Last(path))
               lReg == IF path = <<>> THEN Variable(v, lType) ELSE FieldAddress(path, next)
               instrs == Append(AddressCode(v, path, next), Store(lType, Top.opnd, lReg))
               typed == Assignable(Top.real, lType)
    <2>1. Finish("assignment", Top.ok /\ Assignable(Top.ty, lType), typed, instrs, v, path)
      BY <1>25, Zenon DEF Assignment
    <2>2. stm = NoStatement /\ Len(stack) = 1
      BY <2>1 DEF Finish
    <2>3. path \in Followed /\ v \in Names /\ lType \in {"int", "bool", "S"}
      <3>1. path \in Followed /\ v \in {"x", "b", "p"}
        BY DEF Targets, Followed, Fields
      <3>2. GetType[v] \in {"int", "bool", "S"} /\ v \in Names
        BY <3>1 DEF GetType, Names
      <3>3. FieldType(Last(path)) \in {"int", "bool", "S"}
        BY DEF FieldType
      <3> QED
        BY <3>1, <3>2, <3>3
    <2>4. typed \in BOOLEAN
      BY DEF Assignable
    <2>5. ASSUME typed PROVE Finished("assignment", Top, v, path, code \o instrs)
      <3>1. Top.real # "none"
        BY <2>3, <2>5 DEF Assignable
      <3>2. Ready(Top)
        BY <1>23, <2>2, <3>1
      <3> HIDE DEF v, path, lType
      <3> QED
        BY <2>3, <2>5, <3>2, AssignmentMeant
    <2> HIDE DEF v, path, lType, typed, instrs
    <2> QED
      BY <1>1, <2>1, <2>3, <2>4, <2>5, MeaningFinish
  <1>26. CASE Return
    <2> DEFINE t == Temp(next, "i64")
               r == Variable("_ret_val", RetTy)
               a == Store(Top.ty, Top.opnd, r)
               b == Load(Top.ty, t, r)
               c == Ret(Top.ty, t)
               typed == Top.real = RetTy
    <2>1. Finish("return", Top.ty = RetTy, typed, <<a, b, c>>, "_ret_val", <<>>)
      BY <1>26, Zenon DEF Return
    <2>2. stm = NoStatement /\ Len(stack) = 1
      BY <2>1 DEF Finish
    <2>3. ASSUME typed PROVE Finished("return", Top, "_ret_val", <<>>, code \o <<a, b, c>>)
      <3>1. Top.real = "int" /\ RetTy = "int"
        BY <2>3 DEF RetTy
      <3>2. Ready(Top) /\ Top.ty = "int"
        BY <1>23, <2>2, <3>1
      <3>3. /\ a = Store("int", Top.opnd, Variable("_ret_val", "int"))
            /\ b = Load("int", t, Variable("_ret_val", "int"))
            /\ c = Ret("int", t)
        BY <3>1, <3>2
      <3>4. Finished("return", Top, "_ret_val", <<>>, Append(Append(Append(code, a), b), c))
        BY <3>1, <3>2, <3>3, ReturnMeant
      <3> HIDE DEF a, b, c
      <3>5. code \o <<a, b, c>> = Append(Append(Append(code, a), b), c)
        BY <1>2, <2>2, JoinFew
      <3> QED
        BY <3>4, <3>5
    <2>4. typed \in BOOLEAN
      OBVIOUS
    <2> DEFINE instrs == <<a, b, c>>
    <2> HIDE DEF instrs, typed
    <2>5. Finish("return", Top.ty = RetTy, typed, instrs, "_ret_val", <<>>)
      BY <2>1 DEF instrs
    <2>6. typed => Finished("return", Top, "_ret_val", <<>>, code \o instrs)
      BY <2>3 DEF instrs
    <2> QED
      BY <1>1, <1>24, <2>4, <2>5, <2>6, MeaningFinish
  <1>27. CASE PrintStatement
    <2> DEFINE a == Printf(Top.opnd)
               typed == Top.real = "int"
               instrs == <<a>>
    <2>1. Finish("print", Top.ty = "int", typed, instrs, "", <<>>)
      BY <1>27, Zenon DEF PrintStatement
    <2>2. stm = NoStatement /\ Len(stack) = 1
      BY <2>1 DEF Finish
    <2>3. ASSUME typed PROVE Finished("print", Top, "", <<>>, code \o instrs)
      <3>1. Finished("print", Top, "", <<>>, Append(code, a))
        BY <1>23, <2>2, <2>3, PrintMeant
      <3> HIDE DEF a
      <3>2. code \o <<a>> = Append(code, a)
        BY <1>2, <2>2, JoinFew
      <3> QED
        BY <3>1, <3>2
    <2>4. typed \in BOOLEAN
      OBVIOUS
    <2> HIDE DEF instrs, typed
    <2> QED
      BY <1>1, <1>24, <2>1, <2>3, <2>4, MeaningFinish
  <1>28. CASE Delete
    <2> DEFINE t == Temp(next, Top.ty)
               o == [Top.opnd EXCEPT !.ty = Top.ty]
               a == Bitcast(t, o, "i8*")
               b == Free(t)
               typed == Top.real = "S"
               instrs == <<a, b>>
    <2>1. Finish("delete", Top.ty \notin {"nil", "bool", "int"}, typed, instrs, "", <<>>)
      BY <1>28, Zenon DEF Delete
    <2>2. stm = NoStatement /\ Len(stack) = 1
      BY <2>1 DEF Finish
    <2>3. ASSUME typed PROVE Finished("delete", Top, "", <<>>, code \o instrs)
      <3>1. Ready(Top) /\ Top.ty = "S" /\ Top.real = "S"
        BY <1>23, <2>2, <2>3
      <3>2. Finished("delete", Top, "", <<>>, Append(Append(code, a), b))
        BY <3>1, DeleteMeant
      <3> HIDE DEF a, b
      <3>3. code \o <<a, b>> = Append(Append(code, a), b)
        BY <1>2, <2>2, JoinFew
      <3> QED
        BY <3>2, <3>3
    <2>4. typed \in BOOLEAN
      OBVIOUS
    <2> HIDE DEF instrs, typed
    <2> QED
      BY <1>1, <1>24, <2>1, <2>3, <2>4, MeaningFinish
  <1>29. ASSUME NEW kind \in {"if", "for"}, Condition(kind) PROVE MeaningInv'
    <2> DEFINE cut == Truncated(kind, Top.opnd)
               o == Top.opnd
               typed == Top.real = "bool"
               instrs == ConditionInstrs(cut, o, next, kind)
    <2>1. Finish(kind, Top.ok /\ Top.ty = "bool", typed, instrs, "", <<>>)
      BY <1>29, Zenon DEF Condition, ConditionInstrs
    <2>2. stm = NoStatement /\ Len(stack) = 1
      BY <2>1 DEF Finish
    <2>3. cut \in BOOLEAN
      BY DEF Truncated
    <2>4. code \o instrs = ConditionCode(code, cut, o, next, kind)
      BY <1>2, <2>2, <2>3, ConditionJoined
    <2>5. ASSUME typed PROVE Finished(kind, Top, "", <<>>, code \o instrs)
      <3>1. Finished(kind, Top, "", <<>>, ConditionCode(code, cut, o, next, kind))
        BY <1>23, <2>2, <2>5, ConditionMeant
      <3> QED
        BY <2>4, <3>1
    <2>6. typed \in BOOLEAN
      OBVIOUS
    <2> HIDE DEF instrs, typed
    <2> QED
      BY <1>1, <1>24, <2>1, <2>5, <2>6, MeaningFinish
  <1>30. CASE UNCHANGED vars
    <2>1. stack' = stack /\ code' = code /\ next' = next /\ nodes' = nodes /\ memory' = memory
          /\ stm' = stm
      BY <1>30 DEF vars
    <2>2. AllTyped(stack)' <=> AllTyped(stack)
      BY <2>1 DEF AllTyped
    <2>3. Meaningful(code, stack) => Meaningful(code, stack)'
      BY <2>1, MeaningfulNext
    <2>4. MemoryInv' /\ next' <= 5 * nodes' + 1
      BY <2>1 DEF MeaningInv, MemoryInv
    <2>5. AgreesOnPointersAndInts'
      BY <2>1 DEF MeaningInv, AgreesOnPointersAndInts
    <2>6. ComputesTheStatement'
      <3> DEFINE front == Front(stm.path)
      <3>1. stm.path # <<>> => front \in Followed
        BY FrontFollowed DEF MeaningInv
      <3> HIDE DEF front
      <3>2. stm.path # <<>> => Reached(stm.target, front)' = Reached(stm.target, front)
        <4>1. \A v, path : path \in Followed => Reached(v, path)' = Reached(v, path)
          BY <2>1, ReachedSame
        <4> QED
          BY <2>1, <3>1, <4>1 DEF front
      <3>3. ComputesTheStatement
        BY DEF MeaningInv
      <3> QED
        BY <2>1, <3>2, <3>3 DEF ComputesTheStatement, front
    <2> QED
      BY <2>1, <2>2, <2>3, <2>4, <2>5, <2>6 DEF MeaningInv
  <1> QED
    BY <1>13, <1>14, <1>15, <1>16, <1>19, <1>20, <1>21, <1>22, <1>25, <1>26, <1>27, <1>28,
       <1>29, <1>30 DEF Next

-----------------------------------------------------------------------------
LEMMA MeaningAlways == Spec => [](TypeInv /\ OnceInv /\ MeaningInv)
  <1>1. Init => TypeInv /\ OnceInv /\ MeaningInv
    BY TypeInit, OnceInit, MeaningInit
  <1>2. TypeInv /\ OnceInv /\ MeaningInv /\ [Next]_vars => (TypeInv /\ OnceInv /\ MeaningInv)'
    BY TypeNext, OnceNext, MeaningNext
  <1> QED
    BY <1>1, <1>2, PTL DEF Spec

(* The code of a well-typed statement takes the value the statement means  *)
(* to the place it means and changes nothing else, or fails on nil exactly *)
(* where it has to: for expressions of any size over any of the operators, *)
(* whatever their sides are, constants, registers of one bit or of 64.     *)
THEOREM StatementsAlwaysComputed == Spec => []ComputesTheStatement
  <1>1. MeaningInv => ComputesTheStatement
    BY DEF MeaningInv
  <1> QED
    BY <1>1, MeaningAlways, PTL

(* LLVM agrees with the text of a well-typed statement except about        *)
(* booleans and a nil on the left of a comparison.                         *)
THEOREM TypesAlwaysAgree == Spec => []AgreesOnPointersAndInts
  <1>1. MeaningInv => AgreesOnPointersAndInts
    BY DEF MeaningInv
  <1> QED
    BY <1>1, MeaningAlways, PTL
=============================================================================
