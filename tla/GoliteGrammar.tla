--------------------------- MODULE GoliteGrammar ---------------------------
(***************************************************************************)
(* The rule methods of the generated parser (parser/golite_parser.go), one *)
(* definition per method.  A body is the sequence of what the method does: *)
(* it matches a token, calls the method of another rule, or decides on the *)
(* next token (LA(1)) whether to enter a loop, an option, an alternative.  *)
(* The token sets of the decisions are the bit masks of the methods,       *)
(* written out.                                                            *)
(***************************************************************************)
EXTENDS Sequences, SequencesExt

Tokens ==
  {"+", "-", "=", "*", "/", ";", "int", "bool", "var", "func", "delete",
   "scan", "printf", "if", "else", "for", "return", "||", "&&", "==", "!=",
   "<", ">", "<=", ">=", "!", ".", "new", "true", "false", "{", "}", "(",
   ")", ",", "intlit", "stringlit", "struct", "nil", "type", "id", "EOF"}

(* p.Match(token): consume the token or report a syntax error. *)
Match(token) == [does |-> "match", first |-> {token}]
(* p.Consume() behind a test: any one of the tokens is taken. *)
OneOf(tokens) == [does |-> "match", first |-> tokens]
Call(rule) == [does |-> "call", rule |-> rule]
(* for _la \in first { body } and if _la \in first { body }. *)
While(first, body) == [does |-> "while", first |-> first, body |-> body]
Optional(first, body) == [does |-> "if", first |-> first, body |-> body]
(* switch LA(1): an alternative is taken for the next token, and for the   *)
(* one behind it where one token does not tell (AdaptivePredict).          *)
Choose(alternatives) == [does |-> "switch", alternatives |-> alternatives]
If(first, body) == [first |-> first, second |-> Tokens, body |-> body]
If2(first, second, body) ==
  [first |-> {first}, second |-> second, body |-> body]

StatementFirst == {"delete", "scan", "printf", "if", "for", "return", "id"}
ExpressionFirst ==
  {"-", "!", "new", "true", "false", "(", "intlit", "nil", "id"}
TypeFirst == {"*", "int", "bool"}

(* rule (, rule)* *)
List(rule) == <<Call(rule), While({","}, <<Match(","), Call(rule)>>)>>

-----------------------------------------------------------------------------
Program ==
  <<While({"type"}, <<Call("typeDeclaration")>>),
    While({"var"}, <<Call("declaration")>>),
    While({"func"}, <<Call("function")>>), Match("EOF")>>

TypeDeclaration ==
  <<Match("type"), Match("id"), Match("struct"), Match("{"),
    Call("decl"), Match(";"),
    While({"id"}, <<Call("decl"), Match(";")>>), Match("}"), Match(";")>>

Decl == <<Match("id"), Call("type_")>>

Type ==
  <<Choose({If({"int"}, <<Match("int")>>), If({"bool"}, <<Match("bool")>>),
            If({"*"}, <<Match("*"), Match("id")>>)})>>

Declaration ==
  <<Match("var"), Match("id"), While({","}, <<Match(","), Match("id")>>),
    Call("type_"), Match(";")>>

Function ==
  <<Match("func"), Match("id"), Match("("), Optional({"id"}, List("decl")),
    Match(")"), Optional(TypeFirst, <<Call("returnType")>>), Match("{"),
    While({"var"}, <<Call("declaration")>>),
    While(StatementFirst, <<Call("statement")>>), Match("}")>>

ReturnType == <<Call("type_")>>

(* Only an identifier starts two kinds of statement: the token behind it   *)
(* is "(" in a call and "=" or "." in an assignment.                       *)
Statement ==
  <<Choose({If2("id", {"=", "."}, <<Call("assignment")>>),
            If({"printf"}, <<Call("print_")>>), If({"scan"}, <<Call("read")>>),
            If({"delete"}, <<Call("delete_")>>),
            If({"if"}, <<Call("conditional")>>), If({"for"}, <<Call("loop")>>),
            If({"return"}, <<Call("return_")>>),
            If2("id", {"("}, <<Call("invocation")>>)})>>

Block ==
  <<Match("{"), While(StatementFirst, <<Call("statement")>>), Match("}")>>

Delete == <<Match("delete"), Call("expression"), Match(";")>>

Read == <<Match("scan"), Call("lValue"), Match(";")>>

Assignment ==
  <<Call("lValue"), Match("="), Call("expression"), Match(";")>>

PrintStatement ==
  <<Match("printf"), Match("("), Match("stringlit"),
    While({","}, <<Match(","), Call("expression")>>), Match(")"), Match(";")>>

Conditional ==
  <<Match("if"), Match("("), Call("expression"), Match(")"), Call("block"),
    Optional({"else"}, <<Match("else"), Call("block")>>)>>

Loop ==
  <<Match("for"), Match("("), Call("expression"), Match(")"), Call("block")>>

(* Mutant: the bit of "!" is missing in the mask of the decision. *)
ReturnNoNot ==
  <<Match("return"),
    Optional(ExpressionFirst \ {"!"}, <<Call("expression")>>), Match(";")>>

Return ==
  <<Match("return"), Optional(ExpressionFirst, <<Call("expression")>>),
    Match(";")>>

Arguments == <<Optional(ExpressionFirst, List("expression")), Match(")")>>

Invocation == <<Match("id"), Match("(")>> \o Arguments \o <<Match(";")>>

LValue == <<Match("id"), While({"."}, <<Match("."), Match("id")>>)>>

-----------------------------------------------------------------------------
(* The levels of an expression, from || down to a factor. *)

Expression ==
  <<Call("boolTerm"), While({"||"}, <<Match("||"), Call("boolTerm")>>)>>

BoolTerm ==
  <<Call("equalTerm"), While({"&&"}, <<Match("&&"), Call("equalTerm")>>)>>

EqualTerm ==
  <<Call("relationTerm"),
    While({"==", "!="}, <<Call("eqNeq"), Call("relationTerm")>>)>>

EqNeq == <<OneOf({"==", "!="})>>

RelationTerm ==
  <<Call("simpleTerm"),
    While({"<", ">", "<=", ">="}, <<Call("greaterLess"), Call("simpleTerm")>>)>>

GreaterLess == <<OneOf({"<", ">", "<=", ">="})>>

SimpleTerm ==
  <<Call("term"), While({"+", "-"}, <<Call("plusMinus"), Call("term")>>)>>

PlusMinus == <<OneOf({"+", "-"})>>

Term ==
  <<Call("unaryTerm"),
    While({"*", "/"}, <<Call("asteriskFSlash"), Call("unaryTerm")>>)>>

AsteriskFSlash == <<OneOf({"*", "/"})>>

UnaryTerm ==
  <<Choose({If({"!"}, <<Match("!"), Call("selectorTerm")>>),
            If({"-"}, <<Match("-"), Call("selectorTerm")>>),
            If(ExpressionFirst \ {"!", "-"}, <<Call("selectorTerm")>>)})>>

SelectorTerm ==
  <<Call("factor"), While({"."}, <<Match("."), Match("id")>>)>>

Factor ==
  <<Choose({If({"("}, <<Match("("), Call("expression"), Match(")")>>),
            If({"id"}, <<Match("id"),
                         Optional({"("}, <<Match("(")>> \o Arguments)>>),
            If({"intlit"}, <<Match("intlit")>>),
            If({"new"}, <<Match("new"), Match("id")>>),
            If({"true"}, <<Match("true")>>), If({"false"}, <<Match("false")>>),
            If({"nil"}, <<Match("nil")>>)})>>

-----------------------------------------------------------------------------
Rules ==
  {"program", "typeDeclaration", "decl", "type_", "declaration", "function",
   "returnType", "statement", "block", "delete_", "read", "assignment",
   "print_", "conditional", "loop", "return_", "invocation", "lValue",
   "expression", "boolTerm", "equalTerm", "eqNeq", "relationTerm",
   "greaterLess", "simpleTerm", "plusMinus", "term", "asteriskFSlash",
   "unaryTerm", "selectorTerm", "factor"}

Body(rule) ==
  CASE rule = "program" -> Program
    [] rule = "typeDeclaration" -> TypeDeclaration
    [] rule = "decl" -> Decl
    [] rule = "type_" -> Type
    [] rule = "declaration" -> Declaration
    [] rule = "function" -> Function
    [] rule = "returnType" -> ReturnType
    [] rule = "statement" -> Statement
    [] rule = "block" -> Block
    [] rule = "delete_" -> Delete
    [] rule = "read" -> Read
    [] rule = "assignment" -> Assignment
    [] rule = "print_" -> PrintStatement
    [] rule = "conditional" -> Conditional
    [] rule = "loop" -> Loop
    [] rule = "return_" -> Return
    [] rule = "invocation" -> Invocation
    [] rule = "lValue" -> LValue
    [] rule = "expression" -> Expression
    [] rule = "boolTerm" -> BoolTerm
    [] rule = "equalTerm" -> EqualTerm
    [] rule = "eqNeq" -> EqNeq
    [] rule = "relationTerm" -> RelationTerm
    [] rule = "greaterLess" -> GreaterLess
    [] rule = "simpleTerm" -> SimpleTerm
    [] rule = "plusMinus" -> PlusMinus
    [] rule = "term" -> Term
    [] rule = "asteriskFSlash" -> AsteriskFSlash
    [] rule = "unaryTerm" -> UnaryTerm
    [] rule = "selectorTerm" -> SelectorTerm
    [] rule = "factor" -> Factor
=============================================================================
