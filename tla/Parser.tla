------------------------------- MODULE Parser -------------------------------
(***************************************************************************)
(* parserWrapper.Parse (parser/parser.go): the generated parser reads the  *)
(* token stream with one method per rule, and afterwards, when nothing was *)
(* wrong, a walk over the parse tree calls ExitXxx for every rule from the *)
(* leaves up.  The callbacks hand their nodes to each other through one    *)
(* map whose keys are the line and column of the first token of a rule: a  *)
(* rule and its first child share a key.                                   *)
(***************************************************************************)
EXTENDS AstNodes

Grammar == INSTANCE GoliteGrammar

CONSTANTS
  Beginnings,   \* the beginnings of the token stream that are tried
  Vocabulary,   \* the tokens that may follow such a beginning
  MaxFree,      \* a beginning is followed by at most this many tokens
  Columns       \* tokens on one line

ASSUME VocabularyAssumption ==
  /\ Vocabulary \subseteq Grammar!Tokens
  /\ \A p \in Beginnings : p \in Seq(Grammar!Tokens)
ASSUME BoundsAssumption == MaxFree \in Nat /\ Columns \in Nat \ {0}

VARIABLES
  input,    \* the tokens fetched from the lexer so far
  limit,    \* how many tokens the stream may have (bound)
  pos,      \* the next token
  stack,    \* the rule methods that are running, the innermost last
  tree,     \* the rules that were exited, in that order: the walk's order
  nodes,    \* parser.nodes, each entry with the rule that wrote it last
  walked,   \* how many rules of the tree the walk has exited
  outcome   \* "parsing", "walking", "nil", "program" or "panic"

vars == <<input, limit, pos, stack, tree, nodes, walked, outcome>>

Top == stack[Len(stack)]
Next1 == Head(Top.todo)      \* what the innermost method does next

(* Mutant: the start token is fetched after the first one was consumed. *)
ContextLate(rule, start) ==
  [rule |-> rule, start |-> start + 1, kids |-> <<>>,
   todo |-> Grammar!Body(rule)]

(* A new rule context: where it starts, its children, what it still does. *)
Context(rule, start) ==
  [rule |-> rule, start |-> start, kids |-> <<>>, todo |-> Grammar!Body(rule)]

Kid(is, start) == [is |-> is, start |-> start]

Init ==
  /\ input \in Beginnings
  /\ limit = Len(input) + MaxFree
  /\ pos = 1
  /\ stack = <<Context("program", 1)>>
  /\ tree = <<>> /\ nodes = <<>> /\ walked = 0
  /\ outcome = "parsing"

-----------------------------------------------------------------------------
(* Reading the tokens. *)

LA == input[pos]
Seen(k) == Len(input) >= k

Chosen(alternatives) ==
  {a \in alternatives :
     /\ LA \in a.first
     /\ a.second = Grammar!Tokens \/ input[pos + 1] \in a.second}

(* One token does not tell the alternatives apart. *)
NeedsTwo ==
  /\ Top.todo # <<>> /\ Next1.does = "switch"
  /\ \E a \in Next1.alternatives :
       LA \in a.first /\ a.second # Grammar!Tokens

Parsing == outcome = "parsing" /\ Seen(pos) /\ (NeedsTwo => Seen(pos + 1))

(* The lexer delivers the next token.  At the bound, only the end is left. *)
Fetch ==
  /\ outcome = "parsing"
  /\ ~Seen(pos) \/ (NeedsTwo /\ ~Seen(pos + 1))
  /\ \E t \in Vocabulary \cup {"EOF"} :
       /\ Len(input) >= limit => t = "EOF"
       /\ input' = Append(input, t)
  /\ UNCHANGED <<limit, pos, stack, tree, nodes, walked, outcome>>

(* The innermost method goes on with todo. *)
Continue(todo) ==
  /\ stack' = [stack EXCEPT ![Len(stack)].todo = todo]
  /\ UNCHANGED <<input, limit, pos, tree, nodes, walked, outcome>>

Consume ==
  /\ Parsing /\ Top.todo # <<>> /\ Next1.does = "match" /\ LA \in Next1.first
  /\ stack' = [stack EXCEPT
       ![Len(stack)].todo = Tail(@),
       ![Len(stack)].kids = Append(@, Kid(LA, pos))]
  /\ pos' = IF LA = "EOF" THEN pos ELSE pos + 1
  /\ UNCHANGED <<input, limit, tree, nodes, walked, outcome>>

Iterate ==
  /\ Parsing /\ Top.todo # <<>> /\ Next1.does = "while"
  /\ Continue(IF LA \in Next1.first THEN Next1.body \o Top.todo
                                    ELSE Tail(Top.todo))

Opt ==
  /\ Parsing /\ Top.todo # <<>> /\ Next1.does = "if"
  /\ Continue(IF LA \in Next1.first THEN Next1.body \o Tail(Top.todo)
                                    ELSE Tail(Top.todo))

Alternative ==
  /\ Parsing /\ Top.todo # <<>> /\ Next1.does = "switch"
  /\ \E a \in Chosen(Next1.alternatives) : Continue(a.body \o Tail(Top.todo))

EnterRule ==
  /\ Parsing /\ Top.todo # <<>> /\ Next1.does = "call"
  /\ stack' = Append([stack EXCEPT ![Len(stack)].todo = Tail(@)],
                     Context(Next1.rule, pos))
  /\ UNCHANGED <<input, limit, pos, tree, nodes, walked, outcome>>

(* The method returns: its context is complete, a child of its caller's.   *)
(* After the outermost one the walk starts: no error was reported.         *)
ExitRule ==
  /\ Parsing /\ Top.todo = <<>>
  /\ tree' = Append(tree, [rule |-> Top.rule, start |-> Top.start,
                           kids |-> Top.kids])
  /\ LET callers == SubSeq(stack, 1, Len(stack) - 1) IN
     IF callers = <<>>
       THEN stack' = <<>> /\ outcome' = "walking"
       ELSE /\ stack' = [callers EXCEPT ![Len(callers)].kids =
                           Append(@, Kid(Top.rule, Top.start))]
            /\ UNCHANGED outcome
  /\ UNCHANGED <<input, limit, pos, nodes, walked>>

(* SyntaxError: with an error reported, Parse ends with nil.  (What the    *)
(* runtime does to recover and read on cannot change that.)                *)
SyntaxError ==
  /\ Parsing /\ Top.todo # <<>>
  /\ \/ Next1.does = "match" /\ LA \notin Next1.first
     \/ Next1.does = "switch" /\ Chosen(Next1.alternatives) = {}
  /\ outcome' = "nil"
  /\ UNCHANGED <<input, limit, pos, stack, tree, nodes, walked>>

-----------------------------------------------------------------------------
(* The callbacks. *)

Line(place) == place \div Columns
Column(place) == place % Columns

(* Mutant: the line is left out of the key. *)
KeyOfColumn(c) == <<Column(c.start)>>

(* GetTokenInfo: the key of a rule. *)
Key(c) == <<Line(c.start), Column(c.start)>>

(* The text of a token, with its place where its spelling is free. *)
TokenText(k) ==
  <<IF k.is \in {"id", "intlit", "stringlit"} THEN <<k.is, k.start>>
                                              ELSE <<k.is, 0>> >>

Kids(c, is) == SelectSeq(c.kids, LAMBDA k : k.is = is)
Has(c, token) == Kids(c, token) # <<>>

(* c.AllID(), and the first of them. *)
Ids(c) == LET ids == Kids(c, "id") IN [i \in DOMAIN ids |-> TokenText(ids[i])]
Id(c) == Ids(c)[1]

(* parser.nodes[key], a nil interface when nothing has the key. *)
Found(k) == IF Key(k) \in DOMAIN nodes THEN nodes[Key(k)].node ELSE NoNode

(* The nodes of the children of one rule, and the only one of them. *)
Children(c, rule) ==
  LET ks == Kids(c, rule) IN [i \in DOMAIN ks |-> Found(ks[i])]
Child(c, rule) == Children(c, rule)[1]

ExitFactor(c) ==
  CASE Has(c, "intlit") -> IntLiteral(TokenText(c.kids[1]))
    [] Has(c, "true") -> BoolLiteral("true")
    [] Has(c, "false") -> BoolLiteral("false")
    [] Has(c, "nil") -> Nil
    [] Has(c, "new") -> New(Id(c))
    [] Has(c, "id") /\ Has(c, "(") ->
         Invocation(Id(c), Children(c, "expression"))
    [] Has(c, "id") /\ ~Has(c, "(") -> Variable(Id(c))
    [] OTHER -> ParenExpr(Child(c, "expression"))

ExitSelectorTerm(c) == FieldExpr(Child(c, "factor"), Ids(c))

ExitUnaryTerm(c) ==
  CASE Has(c, "-") -> UnaryExpr("-", Child(c, "selectorTerm"))
    [] Has(c, "!") -> UnaryExpr("!", Child(c, "selectorTerm"))
    [] OTHER -> Child(c, "selectorTerm")

(* The operands of a level of an expression, and the operators, read from  *)
(* the tree: a token of the level or the token of its operator rule.       *)
Operators(c, operators) ==
  LET ks == SelectSeq(c.kids, LAMBDA k : k.is \in operators)
  IN  [i \in DOMAIN ks |-> input[ks[i].start]]

ExitLevel(c, operand, operators) ==
  LET exprs == Children(c, operand)
  IN  BinaryExpr(exprs[1], Tail(exprs), Operators(c, operators))

ExitTerm(c) == ExitLevel(c, "unaryTerm", {"asteriskFSlash"})
ExitSimpleTerm(c) == ExitLevel(c, "term", {"plusMinus"})
ExitRelationTerm(c) == ExitLevel(c, "simpleTerm", {"greaterLess"})
ExitEqualTerm(c) == ExitLevel(c, "relationTerm", {"eqNeq"})
ExitBoolTerm(c) == ExitLevel(c, "equalTerm", {"&&"})
ExitExpression(c) == ExitLevel(c, "boolTerm", {"||"})

ExitLValue(c) == LValue(Id(c), Tail(Ids(c)))
ExitInvocation(c) == Invocation(Id(c), Children(c, "expression"))
ExitReturn(c) == Return(Children(c, "expression"))
ExitLoop(c) == Loop(Child(c, "expression"), Child(c, "block"))
ExitConditional(c) ==
  Conditional(Child(c, "expression"), Child(c, "block"),
              Tail(Children(c, "block")))
ExitPrint(c) ==
  PrintStatement(TokenText(Kids(c, "stringlit")[1]), Children(c, "expression"))
ExitAssignment(c) == Assignment(Child(c, "lValue"), Child(c, "expression"))
ExitRead(c) == Read(Child(c, "lValue"))
ExitDelete(c) == Delete(Child(c, "expression"))
ExitBlock(c) == Block(Children(c, "statement"))

(* Whichever statement it is, its node is the statement's too. *)
ExitStatement(c) == Found(c.kids[1])

ExitFunction(c) ==
  Function(Id(c), Children(c, "decl"), Children(c, "returnType"),
           Children(c, "declaration"), Children(c, "statement"))

ExitDeclaration(c) == Declaration(Ids(c), Child(c, "type_"))
ExitType(c) ==
  TypeNode(IF Has(c, "id") THEN Id(c) ELSE TokenText(c.kids[1]))
ExitDecl(c) == DeclNode(Id(c), Child(c, "type_"))
ExitTypeDeclaration(c) == TypeDeclaration(Id(c), Children(c, "decl"))
ExitProgram(c) ==
  Program(Children(c, "typeDeclaration"), Children(c, "declaration"),
          Children(c, "function"))
ExitReturnType(c) == ReturnType(Child(c, "type_"))

(* The base listener's callbacks are empty: all that enter a rule, and of  *)
(* those that exit one the ones the parser does not define itself.         *)
Silent == {"eqNeq", "greaterLess", "plusMinus", "asteriskFSlash"}

Callback(c) ==
  CASE c.rule = "factor" -> ExitFactor(c)
    [] c.rule = "selectorTerm" -> ExitSelectorTerm(c)
    [] c.rule = "unaryTerm" -> ExitUnaryTerm(c)
    [] c.rule = "term" -> ExitTerm(c)
    [] c.rule = "simpleTerm" -> ExitSimpleTerm(c)
    [] c.rule = "relationTerm" -> ExitRelationTerm(c)
    [] c.rule = "equalTerm" -> ExitEqualTerm(c)
    [] c.rule = "boolTerm" -> ExitBoolTerm(c)
    [] c.rule = "expression" -> ExitExpression(c)
    [] c.rule = "lValue" -> ExitLValue(c)
    [] c.rule = "invocation" -> ExitInvocation(c)
    [] c.rule = "return_" -> ExitReturn(c)
    [] c.rule = "loop" -> ExitLoop(c)
    [] c.rule = "conditional" -> ExitConditional(c)
    [] c.rule = "print_" -> ExitPrint(c)
    [] c.rule = "assignment" -> ExitAssignment(c)
    [] c.rule = "read" -> ExitRead(c)
    [] c.rule = "delete_" -> ExitDelete(c)
    [] c.rule = "block" -> ExitBlock(c)
    [] c.rule = "statement" -> ExitStatement(c)
    [] c.rule = "function" -> ExitFunction(c)
    [] c.rule = "declaration" -> ExitDeclaration(c)
    [] c.rule = "type_" -> ExitType(c)
    [] c.rule = "decl" -> ExitDecl(c)
    [] c.rule = "typeDeclaration" -> ExitTypeDeclaration(c)
    [] c.rule = "program" -> ExitProgram(c)
    [] c.rule = "returnType" -> ExitReturnType(c)

(* The Go types a child's node may have for the type assertion under which *)
(* its parent reads it.                                                    *)
Asserted(rule) ==
  CASE rule = "block" -> {"Block"}
    [] rule = "lValue" -> {"LValue"}
    [] rule = "type_" -> {"TypeNode"}
    [] rule = "decl" -> {"Decl"}
    [] rule = "returnType" -> {"ReturnType"}
    [] rule = "declaration" -> {"Declaration"}
    [] rule = "typeDeclaration" -> {"TypeDeclaration"}
    [] rule = "function" -> {"Function"}
    [] rule = "statement" -> Statements
    [] OTHER -> Expressions

IsRead(k) == k.is \in Grammar!Rules \ Silent

(* Two callbacks copy a child's entry and assert nothing. *)
AssertionsHold(c) ==
  \/ c.rule = "statement"
  \/ c.rule = "unaryTerm" /\ Len(c.kids) = 1
  \/ \A i \in DOMAIN c.kids :
       IsRead(c.kids[i]) => Found(c.kids[i]).is \in Asserted(c.kids[i].is)

(* The walk exits the next rule of the tree. *)
Walk ==
  /\ outcome = "walking" /\ walked < Len(tree)
  /\ LET c == tree[walked + 1] IN
     IF ~AssertionsHold(c)
       THEN outcome' = "panic" /\ UNCHANGED nodes
       ELSE /\ nodes' =
                 IF c.rule \in Silent THEN nodes
                 ELSE [key \in DOMAIN nodes \cup {Key(c)} |->
                         IF key = Key(c)
                           THEN [node |-> Callback(c), by |-> c.rule]
                           ELSE nodes[key]]
            /\ UNCHANGED outcome
  /\ walked' = walked + 1
  /\ UNCHANGED <<input, limit, pos, stack, tree>>

(* Parse returns the node under the key of the whole program. *)
Root == tree[Len(tree)]
ReturnProgram ==
  /\ outcome = "walking" /\ walked = Len(tree)
  /\ outcome' = IF Found(Root).is = "Program" THEN "program" ELSE "panic"
  /\ UNCHANGED <<input, limit, pos, stack, tree, nodes, walked>>

Stopped ==
  /\ outcome \in {"nil", "program", "panic"}
  /\ UNCHANGED vars

Next ==
  \/ Fetch \/ Consume \/ Iterate \/ Opt \/ Alternative \/ EnterRule
  \/ ExitRule \/ SyntaxError \/ Walk \/ ReturnProgram \/ Stopped

Spec == Init /\ [][Next]_vars

-----------------------------------------------------------------------------
(* The language, without any decision: what may follow a token is what     *)
(* some way of entering the loops, options and alternatives makes of it.   *)

(* The ways to go on with todo that wait for a token next, or are done. *)
RECURSIVE Waiting(_)
Waiting(todo) ==
  IF todo = <<>> THEN {<<>>}
  ELSE LET s == Head(todo)
           rest == Tail(todo)
       IN CASE s.does = "match" -> {todo}
            [] s.does = "call" -> Waiting(Grammar!Body(s.rule) \o rest)
            [] s.does = "while" -> Waiting(rest) \cup Waiting(s.body \o todo)
            [] s.does = "if" -> Waiting(rest) \cup Waiting(s.body \o rest)
            [] s.does = "switch" ->
                 UNION {Waiting(a.body \o rest) : a \in s.alternatives}

(* The ways to go on after the tokens seen. *)
Derivations ==
  LET after[k \in 0..Len(input)] ==
        IF k = 0 THEN Waiting(Grammar!Body("program"))
        ELSE UNION {Waiting(Tail(d)) :
               d \in {e \in after[k - 1] :
                        e # <<>> /\ input[k] \in Head(e).first}}
  IN  after[Len(input)]

-----------------------------------------------------------------------------
(* The state is what Parse works with: the contexts that are open cover    *)
(* the tokens read, and every entry of the map was written by a rule whose *)
(* walk is done (golite_parser.go EnterRule/ExitRule; parser.go nodes).    *)
TypeOK ==
  /\ input \in Seq(Grammar!Tokens) /\ Len(input) <= limit + 1
  /\ pos \in 1..Len(input) + 1
  /\ outcome \in {"parsing", "walking", "nil", "program", "panic"}
  /\ \A i \in DOMAIN stack :
       /\ stack[i].rule \in Grammar!Rules
       /\ stack[i].start <= pos
       /\ i > 1 => stack[i - 1].start <= stack[i].start
  /\ walked \in 0..Len(tree)
  /\ \A key \in DOMAIN nodes : \E i \in 1..walked :
       key = Key(tree[i]) /\ nodes[key].by = tree[i].rule

(* A callback finds under its children's keys the nodes that these very    *)
(* children's callbacks built: whatever else was stored under the key of a *)
(* first token is overwritten by then, and nothing later overwrites it     *)
(* (the map of parser.go, keyed by GetTokenInfo).  So no assertion fails.  *)
CallbacksFindTheirNodes ==
  /\ outcome # "panic"
  /\ outcome = "walking" /\ walked < Len(tree) =>
       \A i \in DOMAIN tree[walked + 1].kids :
         LET k == tree[walked + 1].kids[i] IN
         IsRead(k) => Key(k) \in DOMAIN nodes /\ nodes[Key(k)].by = k.is

(* Without its semicolons a text is the same text: no two programs differ  *)
(* only in them.                                                           *)
Unpunctuated(text) == SelectSeq(text, LAMBDA t : t[1] # ";")

(* The program that Parse returns says what the source said: String() of   *)
(* the syntax tree spells the tokens, the same names, operands and         *)
(* operators in the same places.  Semicolons are left out, as String()     *)
(* adds one to a call inside an expression.                                *)
SpellsTheSource ==
  outcome = "program" =>
    Unpunctuated(Found(Root).text) =
      Unpunctuated(Text([i \in DOMAIN input |-> TokenText(Kid(input[i], i))]))

(* The decisions on one or two tokens lose no program: a syntax error is   *)
(* reported only when no program begins with the tokens read, and a        *)
(* program is accepted only when the grammar derives it.                   *)
DecidesTheGrammar ==
  /\ outcome = "nil" => Derivations = {}
  /\ outcome = "walking" /\ walked = 0 => <<>> \in Derivations
=============================================================================
