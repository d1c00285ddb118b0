------------------------------ MODULE CfgExec -------------------------------
(***************************************************************************)
(* Running the ARM code of the blocks CfgBuilder makes, against running    *)
(* the statements they were made from.                                     *)
(*                                                                         *)
(* Once a function is built, the blocks are laid out one after the other   *)
(* with their labels, -O1 removes the branches that fall-through replaces, *)
(* and the result is executed one instruction at a time; a condition may   *)
(* come out either way.  shown is the last thing a user could see: a       *)
(* statement that ran or a condition that was decided.  SourceNext says    *)
(* what the GoLite statements allow to be seen next; it looks at prog      *)
(* alone and knows nothing of blocks.                                      *)
(***************************************************************************)
EXTENDS CfgBuilder

VARIABLES
    body,    \* ARMFunction.Body, empty until TranslateToARM has run
    pc,      \* index of the next instruction
    flag,    \* how the last comparison came out
    shown,   \* what was last seen, and of which statement
    halted   \* "untranslated", "reducing", "no", "returned", "fell" (into the epilogue)

execVars == <<body, pc, flag, shown, halted>>

Event(kind, at) == [kind |-> kind, at |-> at]
Start == Event("start", 0)

-----------------------------------------------------------------------------
(* The source: statements of prog and where control goes between them.     *)
Depth(k) ==
    Cardinality({i \in 1..k : prog[i] \in {"if", "for"}})
    - Cardinality({i \in 1..k : prog[i] \in {"fi", "rof"}})
ClosersOf(k) == {j \in (k + 1)..Len(prog) : prog[j] \in {"fi", "rof"} /\ Depth(j) = Depth(k) - 1}
EndOf(k) == Min(ClosersOf(k))
ElseOf(k) == {j \in (k + 1)..(EndOf(k) - 1) : prog[j] = "else" /\ Depth(j) = Depth(k)}
OpenerOf(k) == Max({i \in 1..k : prog[i] \in {"if", "for"} /\ EndOf(i) = k})

(* The first statement to run when control reaches token k.                *)
Arrive[k \in 1..(MaxTokens + 1)] ==
    IF k > Len(prog) THEN Len(prog) + 1
    ELSE CASE prog[k] = "else" -> Arrive[Min({j \in (k + 1)..Len(prog) :
                                              prog[j] = "fi" /\ Depth(j) = Depth(k) - 1}) + 1]
           [] prog[k] = "fi" -> Arrive[k + 1]
           [] prog[k] = "rof" -> OpenerOf(k)
           [] OTHER -> k

SourceNext(event) ==
    LET k == event.at
        run(next) == {Event("ran", Arrive[next])}
    IN  IF k > Len(prog) THEN {} ELSE
        CASE event.kind = "start" -> run(1)
          [] event.kind = "true" -> run(k + 1)
          [] event.kind = "false" ->
                IF prog[k] = "if" /\ ElseOf(k) # {}
                THEN run(Min(ElseOf(k)) + 1) ELSE run(EndOf(k) + 1)
          [] event.kind = "ran" /\ prog[k] = "ret" -> {}
          [] event.kind = "ran" /\ prog[k] = "stm" -> run(k + 1)
          [] OTHER -> {Event("true", k), Event("false", k)}

-----------------------------------------------------------------------------
(* The ARM code of a block: its label and its instructions.  A return is a *)
(* branch to the epilogue, whose label stands behind the body.             *)
ARM(op, at, dest) == [op |-> op, at |-> at, dest |-> dest]
ExitLabel == -1
Label(b) == ARM("Label", 0, b)
TranslateToAssembly(instr) ==
    CASE instr.op = "Code" -> <<ARM("Code", instr.at, 0)>>
      [] instr.op = "Ret" -> <<ARM("Code", instr.at, 0), ARM("B", instr.at, ExitLabel)>>
      [] instr.op = "Br" -> <<ARM("B", instr.at, instr.dests[1])>>
      [] instr.op = "BrCond" -> <<ARM("Cmp", instr.at, 0), ARM("BEq", instr.at, instr.dests[1]),
                                  ARM("BNe", instr.at, instr.dests[2])>>
Assemble(instrs) ==
    LET upTo[j \in 0..Len(instrs)] ==
            IF j = 0 THEN <<>> ELSE upTo[j - 1] \o TranslateToAssembly(instrs[j])
    IN  upTo[Len(instrs)]
Body ==
    LET printed == InOrderBlocks(blk)
        laid[n \in 0..Len(printed)] ==
            IF n = 0 THEN <<>>
            ELSE Append(laid[n - 1], Label(printed[n])) \o Assemble(blk[printed[n]].instrs)
    IN  laid[Len(printed)]

(* Mutant: a conditional branch goes whatever label is two places on.      *)
RemovableAnyLabel(code, i) ==
    \/ code[i].op = "B" /\ i + 1 \in DOMAIN code /\ code[i + 1] = Label(code[i].dest)
    \/ code[i].op \in {"BEq", "BNe"} /\ \E d \in {1, 2} :
          i + d \in DOMAIN code /\ code[i + d].op = "Label"
(* Branches to what comes next anyway: right behind, or, for a conditional *)
(* branch, behind the one instruction that follows it.                     *)
Removable(code, i) ==
    LET leadsTo(d) == i + d \in DOMAIN code /\ code[i + d] = Label(code[i].dest)
    IN  \/ code[i].op = "B" /\ leadsTo(1)
        \/ code[i].op \in {"BEq", "BNe"} /\ (leadsTo(1) \/ leadsTo(2))
(* What to remove is decided on the whole body before anything is removed. *)
RemoveInstrs(code) ==
    LET kept[i \in 0..Len(code)] ==
            IF i = 0 THEN <<>>
            ELSE IF Removable(code, i) THEN kept[i - 1] ELSE Append(kept[i - 1], code[i])
    IN  kept[Len(code)]

ExecInit ==
    /\ Init
    /\ body = <<>> /\ pc = 1 /\ flag = FALSE
    /\ shown = Start
    /\ halted = "untranslated"

TranslateToARM ==
    /\ phase = "done"
    /\ body' = Body
    /\ phase' = "translated"
    /\ halted' = IF optimize THEN "reducing" ELSE "no"
    /\ UNCHANGED <<source, blk, blocks, cur, open, check, prune, pc, flag, shown>>

Reduce ==
    /\ halted = "reducing"
    /\ body' = RemoveInstrs(body)
    /\ halted' = "no"
    /\ UNCHANGED <<vars, pc, flag, shown>>

-----------------------------------------------------------------------------
Running == halted = "no"
Current == body[pc]
AtInstr(ops) == Running /\ pc <= Len(body) /\ Current.op \in ops

Through == pc' = pc + 1 /\ UNCHANGED halted
Jump(label) ==
    IF label = ExitLabel THEN halted' = "returned" /\ UNCHANGED pc
    ELSE (\E i \in DOMAIN body : body[i] = Label(label) /\ pc' = i) /\ UNCHANGED halted

RunLabel == AtInstr({"Label"}) /\ Through /\ UNCHANGED <<flag, shown>>

RunCode == /\ AtInstr({"Code"}) /\ Through
           /\ shown' = Event("ran", Current.at)
           /\ UNCHANGED flag

RunCmp(holds) == /\ AtInstr({"Cmp"}) /\ Through
                 /\ flag' = holds
                 /\ shown' = Event(IF holds THEN "true" ELSE "false", Current.at)

RunB == AtInstr({"B"}) /\ Jump(Current.dest) /\ UNCHANGED <<flag, shown>>

RunBCond == /\ AtInstr({"BEq", "BNe"})
            /\ IF flag = (Current.op = "BEq") THEN Jump(Current.dest) ELSE Through
            /\ UNCHANGED <<flag, shown>>

(* Nothing keeps control from running into the epilogue.                   *)
FallOff ==
    /\ Running /\ pc > Len(body)
    /\ halted' = "fell"
    /\ UNCHANGED <<pc, flag, shown>>

Step ==
    /\ \/ RunLabel \/ RunCode \/ RunB \/ RunBCond \/ FallOff
       \/ \E holds \in BOOLEAN : RunCmp(holds)
    /\ UNCHANGED <<vars, body>>

ExecNext == (Next /\ UNCHANGED execVars) \/ TranslateToARM \/ Reduce \/ Step

(* A processor goes on executing.  The compiler need not finish, and       *)
(* nothing is assumed of how conditions come out.                          *)
ExecSpec == ExecInit /\ [][ExecNext]_<<vars, execVars>> /\ WF_<<vars, execVars>>(Step)

-----------------------------------------------------------------------------
(* The code does what the statements say, in the order they say it: every  *)
(* change of what is seen is one the source allows, whatever was nested,   *)
(* left early, pruned or removed on the way.  Where ReturnCheck relied on  *)
(* a loop, control can run off a block into whatever is printed next.      *)
FollowsSource == [][trusted \/ shown' \in SourceNext(shown)]_shown

(* Execution never stops short: it halts only at a return statement, or at *)
(* the end of a function without a result, if ReturnCheck did not rely on  *)
(* a loop.                                                                 *)
StopsWhereSourceDoes ==
    halted \in {"returned", "fell"} /\ ~trusted =>
        /\ halted = "returned"
        /\ SourceNext(shown) = {}

(* The code never branches around for ever without anything to be seen:    *)
(* execution returns or keeps coming to a statement or a condition.        *)
Visible == AtInstr({"Code", "Cmp"})
KeepsMoving == []<>(halted # "no" \/ trusted \/ Visible)
=============================================================================
