------------------------------ MODULE AstNodes ------------------------------
(***************************************************************************)
(* The nodes the parser builds (ast/*.go).  A node is abstracted to its Go *)
(* type and to the program text its String() method gives back: a sequence *)
(* of tokens, each with the place of the token it was read from, or 0 for  *)
(* a token that has only one spelling.  Layout (blanks, new lines) is left *)
(* out.                                                                    *)
(***************************************************************************)
EXTENDS Naturals, Sequences, SequencesExt

Fixed(words) == [i \in DOMAIN words |-> <<words[i], 0>>]
Text(parts) == FlattenSeq(parts)
Texts(parts) == [i \in DOMAIN parts |-> parts[i].text]

(* parts with the separator between them (a loop that writes ", " while    *)
(* i < len - 1).                                                           *)
Separated(parts, separator) ==
  Text([i \in DOMAIN parts |->
          IF i < Len(parts) THEN parts[i] \o Fixed(<<separator>>)
                            ELSE parts[i]])

(* Every part with the separator in front of it. *)
Prefixed(separator, parts) ==
  Text([i \in DOMAIN parts |-> Fixed(<<separator>>) \o parts[i]])

Node(type, text) == [is |-> type, text |-> text]
NoNode == Node("nil", <<>>)

-----------------------------------------------------------------------------
Variable(id) == Node("Variable", id)
IntLiteral(literal) == Node("IntLiteral", literal)
BoolLiteral(word) == Node("BoolLiteral", Fixed(<<word>>))
Nil == Node("Nil", Fixed(<<"nil">>))
New(id) == Node("New", Fixed(<<"new">>) \o id)
ParenExpr(expr) ==
  Node("ParenExpr", Fixed(<<"(">>) \o expr.text \o Fixed(<<")">>))
FieldExpr(base, ids) ==
  Node("FieldExpr", base.text \o Prefixed(".", ids))
UnaryExpr(op, expr) == Node("UnaryExpr", Fixed(<<op>>) \o expr.text)

(* Mutant: the operator of an operand is looked up one place too far left. *)
BinaryExprShifted(first, rest, ops) ==
  Node("BinaryExpr",
       first.text \o Text([i \in DOMAIN rest |->
         Fixed(<<ops[IF i = 1 THEN 1 ELSE i - 1]>>) \o rest[i].text]))

BinaryExpr(first, rest, ops) ==
  Node("BinaryExpr",
       first.text \o Text([i \in DOMAIN rest |->
                             Fixed(<<ops[i]>>) \o rest[i].text]))

(* The semicolon is written in an expression too. *)
Invocation(id, args) ==
  Node("Invocation", id \o Fixed(<<"(">>) \o Separated(Texts(args), ",")
                        \o Fixed(<<")", ";">>))

-----------------------------------------------------------------------------
LValue(id, fields) == Node("LValue", id \o Prefixed(".", fields))

Assignment(lVal, right) ==
  Node("Assignment",
       lVal.text \o Fixed(<<"=">>) \o right.text \o Fixed(<<";">>))

Read(lVal) ==
  Node("Read", Fixed(<<"scan">>) \o lVal.text \o Fixed(<<";">>))

Delete(expr) ==
  Node("Delete", Fixed(<<"delete">>) \o expr.text \o Fixed(<<";">>))

PrintStatement(stringlit, exprs) ==
  Node("Print", Fixed(<<"printf", "(">>) \o stringlit
                  \o Prefixed(",", Texts(exprs)) \o Fixed(<<")", ";">>))

(* expr is empty for a return without a value. *)
Return(expr) ==
  Node("Return", Fixed(<<"return">>) \o Text(Texts(expr)) \o Fixed(<<";">>))

Block(statements) ==
  Node("Block", Fixed(<<"{">>) \o Text(Texts(statements)) \o Fixed(<<"}">>))

Loop(expr, block) ==
  Node("Loop",
       Fixed(<<"for", "(">>) \o expr.text \o Fixed(<<")">>) \o block.text)

(* elseblock is empty when there is none. *)
Conditional(expr, ifblock, elseblock) ==
  Node("Conditional",
       Fixed(<<"if", "(">>) \o expr.text \o Fixed(<<")">>) \o ifblock.text
         \o Prefixed("else", Texts(elseblock)))

-----------------------------------------------------------------------------
(* int, bool, or the name of a struct behind its asterisk. *)
TypeNode(ty) ==
  Node("TypeNode", IF ty[1][1] = "id" THEN Fixed(<<"*">>) \o ty ELSE ty)

ReturnType(ty) == Node("ReturnType", ty.text)

DeclNode(id, ty) == Node("Decl", id \o ty.text)

Declaration(ids, ty) ==
  Node("Declaration", Fixed(<<"var">>) \o Separated(ids, ",")
                        \o ty.text \o Fixed(<<";">>))

TypeDeclaration(id, fields) ==
  Node("TypeDeclaration",
       Fixed(<<"type">>) \o id \o Fixed(<<"struct", "{">>)
         \o Text([i \in DOMAIN fields |-> fields[i].text \o Fixed(<<";">>)])
         \o Fixed(<<"}", ";">>))

(* returnType is empty when the function returns nothing. *)
Function(id, params, returnType, declarations, stms) ==
  Node("Function",
       Fixed(<<"func">>) \o id \o Fixed(<<"(">>)
         \o Separated(Texts(params), ",") \o Fixed(<<")">>)
         \o Text(Texts(returnType)) \o Fixed(<<"{">>)
         \o Text(Texts(declarations)) \o Text(Texts(stms)) \o Fixed(<<"}">>))

Program(types, declarations, funcs) ==
  Node("Program", Text(Texts(types)) \o Text(Texts(declarations))
                    \o Text(Texts(funcs)) \o Fixed(<<"EOF">>))

-----------------------------------------------------------------------------
(* The types behind the interfaces ast.Expression and ast.Statement. *)
Expressions ==
  {"Variable", "IntLiteral", "BoolLiteral", "Nil", "New", "ParenExpr",
   "FieldExpr", "UnaryExpr", "BinaryExpr", "Invocation"}
Statements ==
  {"Assignment", "Read", "Delete", "Print", "Return", "Loop", "Conditional",
   "Block", "Invocation"}
=============================================================================
