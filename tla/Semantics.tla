----------------------------- MODULE Semantics -----------------------------
(***************************************************************************)
(* The symbol tables (symboltable/symboltable.go) from their construction  *)
(* to their use: sa.Execute builds them declaration by declaration, checks *)
(* types against them, and the translation of a function looks its         *)
(* variables up in them, after adding names of its own: the storage of the *)
(* result, of the parameters, and the registers it generates.              *)
(*                                                                         *)
(* The type rules of expressions are in Expressions, the check that every  *)
(* path returns is in CfgBuilder.                                          *)
(***************************************************************************)
EXTENDS Naturals, Sequences, Functions

CONSTANTS
  Ids,            \* names of variables, parameters and fields
  StructNames,    \* any name: the lexer has no keyword "string"
  BasicTypes,     \* those of int and bool that are tried
  FunctionNames,  \* without "main"
  Registers,      \* the names RegisterGen gives out, in order
  MaxDeclared,    \* how many names a program declares (bound)
  MaxUses         \* how many variables its functions use (bound)

(* No variable has the name of a generated register: the code does not see *)
(* to it, a variable r0 is lost when the register r0 enters the table.     *)
(* None has that of the result either: an identifier has no underscore.    *)
ASSUME NamesAssumption ==
  /\ Registers \in Seq(STRING)
  /\ Ids \cap {Registers[i] : i \in DOMAIN Registers} = {}
  /\ "_ret_val" \notin Ids
ASSUME BoundsAssumption ==
  BasicTypes \subseteq {"int", "bool"} /\ MaxDeclared \in Nat /\ MaxUses \in Nat

Types == BasicTypes \cup StructNames
Functions == FunctionNames \cup {"main"}
Decls == [id : Ids, ty : Types]
Uses == [is : {"read", "write", "scan"}, id : Ids]
UpTo(n, S) == UNION {[1..k -> S] : k \in 0..n}

VARIABLES
  program,   \* the declarations seen so far: types, globals, funcs, and
             \* how many names they declare and use
  tables,    \* the symbol tables: Globals, Structs, Funcs
  errors,    \* the errors reported
  phase,     \* "build", "check", "translate" or "rejected"
  current,   \* the function that is translated, an index into funcs
  used,      \* how many of its uses are translated
  nextReg,   \* RegisterCounter
  code       \* the storage allocated and accessed so far

vars == <<program, tables, errors, phase, current, used, nextReg, code>>

-----------------------------------------------------------------------------
(* Symbol tables.  A name is a sequence: <<x>> for x of the program,       *)
(* <<"_P_", x>> for the storage of parameter x.                            *)

Entry(name, ty, scope) == [name |-> name, ty |-> ty, scope |-> scope]
Missing == Entry(<<>>, "unknown", "none")
EmptyTable == <<>>

Insert(table, name, entry) ==
  [n \in DOMAIN table \cup {name} |-> IF n = name THEN entry ELSE table[n]]

(* Insert for one entry after the other, each under its name. *)
InsertAll(table, entries) ==
  LET after[i \in 0..Len(entries)] ==
        IF i = 0 THEN table
        ELSE Insert(after[i - 1], entries[i].name, entries[i])
  IN  after[Len(entries)]

LocalContains(table, name) == name \in DOMAIN table

(* The table of a function stands before the globals, its Parent. *)
TableContains(table, parent, name) ==
  CASE name \in DOMAIN table -> table[name]
    [] name \notin DOMAIN table /\ name \in DOMAIN parent -> parent[name]
    [] OTHER -> Missing

Slot(x) == <<"_P_", x>>

ErrorIf(wrong, error) == IF wrong THEN {error} ELSE {}

Init ==
  /\ program = [types |-> <<>>, globals |-> <<>>, funcs |-> <<>>,
                size |-> 0, uses |-> 0]
  /\ tables = [Globals |-> EmptyTable, Structs |-> EmptyTable,
               Funcs |-> EmptyTable]
  /\ errors = {} /\ phase = "build"
  /\ current = 0 /\ used = 0 /\ nextReg = 1 /\ code = <<>>

(* How many more names the program may declare (bound). *)
Room == MaxDeclared - program.size

-----------------------------------------------------------------------------
(* Building the tables: types, then globals, then functions. *)

(* TypeDeclaration.BuildSymbolTable: a name that is there already is an    *)
(* error, and replaced.                                                    *)
DeclareType ==
  /\ phase = "build" /\ program.globals = <<>> /\ program.funcs = <<>>
  /\ Room > 2
  /\ \E name \in StructNames, fields \in UpTo(Room - 2, Decls) \ {<<>>} :
       /\ errors' = errors
            \cup ErrorIf(name \in DOMAIN tables.Structs, <<"struct", name>>)
            \cup {<<"field", fields[i].id>> :
                    i \in {j \in DOMAIN fields :
                             \E k \in 1..j - 1 : fields[k].id = fields[j].id}}
       /\ tables' = [tables EXCEPT !.Structs = Insert(@, name, fields)]
       /\ program' = [program EXCEPT
            !.types = Append(@, [id |-> name, fields |-> fields]),
            !.size = @ + 1 + Len(fields)]
  /\ UNCHANGED <<phase, current, used, nextReg, code>>

(* Mutant: the parent of the table is asked too: no local may have the     *)
(* name of a global.                                                       *)
RedeclaredAnywhere(table, parent, x) ==
  ErrorIf(TableContains(table, parent, <<x>>) # Missing, <<"variable", x>>)

(* Declaration.BuildSymbolTable for one of its names: the table is asked,  *)
(* not its parent.                                                         *)
Redeclared(table, parent, x) ==
  ErrorIf(LocalContains(table, <<x>>), <<"variable", x>>)

DeclareVariable ==
  /\ phase = "build" /\ program.funcs = <<>> /\ Room > 1
  /\ \E d \in Decls :
       /\ errors' = errors
                      \cup Redeclared(tables.Globals, EmptyTable, d.id)
       /\ tables' = [tables EXCEPT
            !.Globals = Insert(@, <<d.id>>, Entry(<<d.id>>, d.ty, "GLOBAL"))]
       /\ program' = [program EXCEPT !.globals = Append(@, d), !.size = @ + 1]
  /\ UNCHANGED <<phase, current, used, nextReg, code>>

(* The table of a function: its parameters, put in without a look, then    *)
(* its declarations, and the errors these give.                            *)
WithParameters(params) ==
  InsertAll(EmptyTable, [i \in DOMAIN params |->
                           Entry(<<params[i].id>>, params[i].ty, "PARAM")])

WithLocals(params, locals) ==
  LET after[i \in 0..Len(locals)] ==
        IF i = 0 THEN [table |-> WithParameters(params), errors |-> {}]
        ELSE LET before == after[i - 1]
                 d == locals[i]
             IN  [table |-> Insert(before.table, <<d.id>>,
                                   Entry(<<d.id>>, d.ty, "LOCAL")),
                  errors |-> before.errors
                    \cup Redeclared(before.table, tables.Globals, d.id)]
  IN  after[Len(locals)]

(* Mutant: the parameters go into the table but not into the list. *)
FunctionEntryNoParameters(retTy, params, table) ==
  [RetTy |-> retTy, Parameters |-> {}, Variables |-> table]

FunctionEntry(retTy, params, table) ==
  [RetTy |-> retTy, Parameters |-> {params[i].id : i \in DOMAIN params},
   Variables |-> table]

(* Function.BuildSymbolTable. *)
DeclareFunction ==
  /\ phase = "build" /\ Room > 0
  /\ \E f \in Functions, retTy \in {"none", "int"},
        params \in UpTo(Room - 1, Decls) :
     \E locals \in UpTo(Room - 1 - Len(params), Decls),
        uses \in UpTo(MaxUses - program.uses, Uses) :
       /\ LET st == WithLocals(params, locals) IN
          /\ errors' = errors \cup st.errors
               \cup ErrorIf(f \in DOMAIN tables.Funcs, <<"function", f>>)
          /\ tables' = [tables EXCEPT
               !.Funcs = Insert(@, f, FunctionEntry(retTy, params, st.table))]
       /\ program' = [program EXCEPT
            !.funcs = Append(@, [id |-> f, retTy |-> retTy, params |-> params,
                                 locals |-> locals, uses |-> uses]),
            !.size = @ + 1 + Len(params) + Len(locals),
            !.uses = @ + Len(uses)]
  /\ UNCHANGED <<phase, current, used, nextReg, code>>

(* sa.Execute: without an error the types are checked, otherwise not. *)
EndBuild ==
  /\ phase = "build" /\ program.funcs # <<>>
  /\ phase' = IF errors = {} THEN "check" ELSE "rejected"
  /\ UNCHANGED <<program, tables, errors, current, used, nextReg, code>>

-----------------------------------------------------------------------------
(* Type checking. *)

(* The type of a variable (Declaration.TypeCheck). *)
KnownType(ty) == ty \in {"int", "bool"} \/ ty \in DOMAIN tables.Structs

(* The type of a field (TypeDeclaration.TypeCheck): "string", which        *)
(* StringToType turns into StringTySig and not into a struct's type, may   *)
(* be any field's.  A variable needs a struct of that name.                *)
KnownFieldType(ty) == ty = "string" \/ KnownType(ty)

MainErrors ==
  ErrorIf(\/ "main" \notin DOMAIN tables.Funcs
          \/ tables.Funcs["main"].Parameters # {}
          \/ tables.Funcs["main"].RetTy # "none", <<"main">>)

UnknownTypes(decls) ==
  {<<"type", d.ty>> : d \in {e \in Range(decls) : ~KnownType(e.ty)}}

UnknownFieldTypes(fields) ==
  {<<"type", d.ty>> : d \in {e \in Range(fields) : ~KnownFieldType(e.ty)}}

(* LValue.TypeCheck and Variable.TypeCheck: the variable is declared;      *)
(* Read.TypeCheck: it is an int.                                           *)
UseErrors(f, use) ==
  LET entry == TableContains(tables.Funcs[f.id].Variables, tables.Globals,
                             <<use.id>>)
  IN  IF use.is = "scan"
        THEN ErrorIf(entry.ty # "int", <<"scan", use.id>>)
        ELSE ErrorIf(entry = Missing, <<"undefined", use.id>>)

(* Function.TypeCheck: the declarations, not the parameters or the result. *)
FunctionErrors(f) ==
  UnknownTypes(f.locals)
    \cup UNION {UseErrors(f, f.uses[i]) : i \in DOMAIN f.uses}

(* Program.TypeCheck. *)
TypeCheck ==
  /\ phase = "check"
  /\ errors' = MainErrors
       \cup (UNION {UnknownFieldTypes(program.types[i].fields) :
                      i \in DOMAIN program.types})
       \cup UnknownTypes(program.globals)
       \cup (UNION {FunctionErrors(program.funcs[i]) :
                      i \in DOMAIN program.funcs})
  /\ phase' = IF errors' = {} THEN "translate" ELSE "rejected"
  /\ UNCHANGED <<program, tables, current, used, nextReg, code>>

-----------------------------------------------------------------------------
(* Translation. *)

(* The register of an entry: @name for a global, %name otherwise. *)
Storage(entry) == [name |-> entry.name, global |-> entry.scope = "GLOBAL"]

Here == program.funcs[current]
Variables == tables.Funcs[Here.id].Variables

Allocate(f, entry) ==
  [op |-> "alloca", func |-> f, id |-> "", at |-> Storage(entry)]
Access(f, id, entry) ==
  [op |-> "access", func |-> f, id |-> id, at |-> Storage(entry)]

(* Function.TranslateToLLVMStack up to the statements: storage for the     *)
(* result, for every parameter under the name _P_x, and for every local.   *)
EnterFunction ==
  /\ phase = "translate" /\ current < Len(program.funcs)
  /\ current > 0 => used = Len(Here.uses)
  /\ LET f == program.funcs[current + 1]
         result == Entry(<<"_ret_val">>, f.retTy, "LOCAL")
         slots == [i \in DOMAIN f.params |->
                     Entry(Slot(f.params[i].id), f.params[i].ty, "PARAM")]
         locals == [i \in DOMAIN f.locals |->
                      Entry(<<f.locals[i].id>>, f.locals[i].ty, "LOCAL")]
         entries == <<result>> \o slots
     IN  /\ tables' = [tables EXCEPT
              !.Funcs[f.id].Variables = InsertAll(@, entries)]
         /\ code' = code \o [i \in DOMAIN (entries \o locals) |->
                               Allocate(f.id, (entries \o locals)[i])]
  /\ current' = current + 1 /\ used' = 0
  /\ UNCHANGED <<program, errors, phase, nextReg>>

(* Mutant: the name is looked up, parameter or not. *)
ResolveNoSlot(x) == TableContains(Variables, tables.Globals, <<x>>)

(* The storage of a variable, as LValue, Variable and Read look for it: a  *)
(* parameter is read and written in its slot.                              *)
Resolve(x) ==
  IF x \in tables.Funcs[Here.id].Parameters
    THEN TableContains(Variables, tables.Globals, Slot(x))
    ELSE TableContains(Variables, tables.Globals, <<x>>)

(* LValue.ExprTranslateToLLVMStack for a plain variable, and               *)
(* Read.TranslateToLLVMStack: no register is needed.                       *)
WriteVariable ==
  /\ phase = "translate" /\ current > 0 /\ used < Len(Here.uses)
  /\ LET use == Here.uses[used + 1] IN
     /\ use.is # "read"
     /\ code' = Append(code, Access(Here.id, use.id, Resolve(use.id)))
  /\ used' = used + 1
  /\ UNCHANGED <<program, tables, errors, phase, current, nextReg>>

(* Variable.ExprTranslateToLLVMStack: the loaded value gets a register,    *)
(* whose name goes into the table of the function.                         *)
ReadVariable ==
  /\ phase = "translate" /\ current > 0 /\ used < Len(Here.uses)
  /\ nextReg <= Len(Registers)
  /\ LET use == Here.uses[used + 1]
         reg == <<Registers[nextReg]>>
     IN  /\ use.is = "read"
         /\ code' = Append(code, Access(Here.id, use.id, Resolve(use.id)))
         /\ tables' = [tables EXCEPT !.Funcs[Here.id].Variables =
              Insert(@, reg, Entry(reg, Resolve(use.id).ty, "LOCAL"))]
  /\ nextReg' = nextReg + 1 /\ used' = used + 1
  /\ UNCHANGED <<program, errors, phase, current>>

Done ==
  /\ \/ phase = "rejected"
     \/ phase = "translate" /\ current = Len(program.funcs)
          /\ used = Len(Here.uses)
  /\ UNCHANGED vars

Next ==
  \/ DeclareType \/ DeclareVariable \/ DeclareFunction \/ EndBuild
  \/ TypeCheck \/ EnterFunction \/ WriteVariable \/ ReadVariable \/ Done

Spec == Init /\ [][Next]_vars

-----------------------------------------------------------------------------
(* What the scopes of the language say, from the program alone. *)

NoRepeats(decls) == \A i, j \in DOMAIN decls : decls[i].id = decls[j].id => i = j
Named(decls) == {decls[i].id : i \in DOMAIN decls}
TypeOf(decls, x) == (CHOOSE d \in Range(decls) : d.id = x).ty
TypesDeclared(decls) ==
  \A d \in Range(decls) : d.ty \in {"int", "bool"} \cup Named(program.types)
FieldTypesDeclared(fields) ==
  \A d \in Range(fields) :
    d.ty \in {"int", "bool", "string"} \cup Named(program.types)

(* The innermost declaration of x that function f sees: its locals and     *)
(* parameters, then the globals.                                           *)
Scope(f, x) ==
  CASE x \in Named(f.locals) -> "LOCAL"
    [] x \in Named(f.params) \ Named(f.locals) -> "PARAM"
    [] x \in Named(program.globals) \ (Named(f.locals) \cup Named(f.params)) ->
         "GLOBAL"
    [] OTHER -> "none"

UseIsLegal(f, use) ==
  LET scope == Scope(f, use.id) IN
  /\ scope # "none"
  /\ use.is = "scan" /\ scope = "LOCAL" => TypeOf(f.locals, use.id) = "int"
  /\ use.is = "scan" /\ scope = "GLOBAL" =>
       TypeOf(program.globals, use.id) = "int"
  /\ use.is = "scan" /\ scope = "PARAM" =>
       f.params[CHOOSE i \in DOMAIN f.params :
                  /\ f.params[i].id = use.id
                  /\ \A j \in DOMAIN f.params :
                       f.params[j].id = use.id => j <= i].ty = "int"

FunctionIsLegal(f) ==
  /\ NoRepeats(f.locals) /\ Named(f.locals) \cap Named(f.params) = {}
  /\ TypesDeclared(f.locals)
  /\ \A i \in DOMAIN f.uses : UseIsLegal(f, f.uses[i])

(* Repeated parameters, parameters and results of a type that was not      *)
(* declared, and fields of type string without a struct of that name, are  *)
(* legal here because the code lets them pass.                             *)
ProgramIsLegal ==
  /\ NoRepeats(program.types) /\ NoRepeats(program.globals)
  /\ NoRepeats(program.funcs)
  /\ \A t \in Range(program.types) :
       NoRepeats(t.fields) /\ FieldTypesDeclared(t.fields)
  /\ TypesDeclared(program.globals)
  /\ \A f \in Range(program.funcs) : FunctionIsLegal(f)
  /\ \E f \in Range(program.funcs) :
       f.id = "main" /\ f.params = <<>> /\ f.retTy = "none"

-----------------------------------------------------------------------------
(* The tables hold what was declared: a function's entry has the           *)
(* parameters of its last declaration, each with an entry in its table     *)
(* (symboltable.go, Function.BuildSymbolTable).                            *)
TypeOK ==
  /\ phase \in {"build", "check", "translate", "rejected"}
  /\ DOMAIN tables.Globals = {<<x>> : x \in Named(program.globals)}
  /\ DOMAIN tables.Structs = Named(program.types)
  /\ DOMAIN tables.Funcs = Named(program.funcs)
  /\ current \in 0..Len(program.funcs) /\ used \in 0..MaxUses
  /\ \A i \in DOMAIN program.funcs :
       LET f == program.funcs[i] IN
       (\A j \in i + 1..Len(program.funcs) : program.funcs[j].id # f.id) =>
         tables.Funcs[f.id].Parameters = Named(f.params)

(* The analysis, which sees the declarations one by one and overwrites     *)
(* what is declared twice, accepts exactly the programs that obey the      *)
(* scope rules and declare their types, with the exceptions that           *)
(* ProgramIsLegal names, fields of type string among them: a program is    *)
(* not rejected for an error that another declaration caused, and none     *)
(* gets through because an entry was overwritten (sa.go Execute).          *)
AcceptsTheLegalPrograms ==
  /\ phase = "translate" => ProgramIsLegal
  /\ phase = "rejected" => ~ProgramIsLegal

(* The translation reaches, at every use of a variable, the storage of the *)
(* innermost declaration of its name, and that storage was allocated in    *)
(* the function before, whatever was put into the table since (the lookups *)
(* of lvalue.go, variable.go and read.go).                                 *)
UsesReachTheirStorage ==
  \A i \in DOMAIN code : code[i].op = "access" =>
    LET access == code[i]
        f == CHOOSE g \in Range(program.funcs) : g.id = access.func
        scope == Scope(f, access.id)
    IN  /\ access.at.name = (IF scope = "PARAM" THEN Slot(access.id)
                                                ELSE <<access.id>>)
        /\ access.at.global = (scope = "GLOBAL")
        /\ ~access.at.global =>
             \E j \in 1..i - 1 : code[j] = [access EXCEPT !.op = "alloca",
                                                          !.id = ""]
=============================================================================
