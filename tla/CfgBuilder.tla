----------------------------- MODULE CfgBuilder -----------------------------
(***************************************************************************)
(* How one function body becomes basic blocks: the TranslateToLLVMStack    *)
(* methods of ast/conditional.go, ast/loop.go, ast/return.go and           *)
(* ast/function.go over the blocks of cfg/blockcfg.go, then the -O1        *)
(* dead-code pass (ast/function.go:174-205) or the filler branches of a    *)
(* plain build (206-212).                                                  *)
(*                                                                         *)
(* The environment hands over one statement at a time, so that every       *)
(* function of at most MaxTokens statements and nesting MaxDepth is built. *)
(* prog records them; an instruction remembers the statement it was made   *)
(* from.  Straight-line code is one instruction, Code.                     *)
(*                                                                         *)
(* ReturnCheck runs over the same statements before the translation does;  *)
(* its verdict is carried along and a function it refuses is Rejected.     *)
(***************************************************************************)
EXTENDS Integers, Sequences, SequencesExt

CONSTANTS
    MaxTokens,  \* bound on the statements of the function
    MaxDepth,   \* bound on nesting
    MaxRun,     \* bound on simple statements in a row
    Passes      \* the code's 5 rounds of dead-block removal

ASSUME BoundsAssumption ==
    MaxTokens \in Nat /\ MaxDepth \in Nat /\ MaxRun \in Nat /\ Passes \in Nat

VARIABLES
    prog,       \* statements so far: "stm" "ret" "if" "else" "fi" "for" "rof"
    void,       \* the function has no return type
    optimize,   \* -O1
    phase,      \* "build", "rejected", "prune", "done" (and "translated", CfgExec)
    blk,        \* label -> Block; labels count up from 0, the entry
    blocks,     \* keys of LLVMFuncDef.Blocks
    cur,        \* block the next statement is translated into
    open,       \* conditionals and loops whose body is being translated
    returns,    \* ReturnCheck of the statements of the innermost body
    trusted,    \* some loop passed ReturnCheck on its body alone
    pass,       \* rounds of dead-block removal started
    unseen,     \* blocks the current round has still to remove
    pruned      \* blk as it was before the first round (history)

source == <<prog, void, optimize>>
check == <<returns, trusted>>
prune == <<pass, unseen, pruned>>
vars == <<source, phase, blk, blocks, cur, open, check, prune>>

Entry == 0
NoBlock == -1

(* Block of cfg/blockcfg.go.  forExit is ToForExit.                        *)
NewBlock(preds, succs, forExit) ==
    [instrs |-> <<>>, preds |-> preds, succs |-> succs, forExit |-> forExit]

Code(at) == [op |-> "Code", at |-> at, dests |-> <<>>]
Ret(at) == [op |-> "Ret", at |-> at, dests |-> <<>>]
Br(dest) == [op |-> "Br", at |-> 0, dests |-> <<dest>>]

BrCond(at, iftrue, iffalse) == [op |-> "BrCond", at |-> at, dests |-> <<iftrue, iffalse>>]
IsTerminator(instr) == instr.op \in {"Ret", "Br", "BrCond"}

Add(b, instrs) == [blk EXCEPT ![b].instrs = @ \o instrs]

(* Mutant: the branches are added, the edges forgotten.                    *)
EndUnlinked(b, instrs, next) == Add(b, instrs)
(* End block b with a branch to the new blocks next.                       *)
EndInto(b, instrs, next) ==
    [blk EXCEPT ![b].succs = @ \o next, ![b].instrs = @ \o instrs]

(* LLVMFuncDef.AddBlock, for every block of new.                           *)
AddBlocks(bs, new) ==
    [b \in DOMAIN bs \cup DOMAIN new |-> IF b \in DOMAIN bs THEN bs[b] ELSE new[b]]

-----------------------------------------------------------------------------
Init ==
    /\ prog = <<>>
    /\ void \in BOOLEAN
    /\ optimize \in BOOLEAN
    /\ phase = "build"
    /\ blk = [b \in {Entry} |-> NewBlock({}, <<>>, NoBlock)]
    /\ blocks = {Entry}
    /\ cur = Entry
    /\ open = <<>>
    /\ returns = FALSE
    /\ trusted = FALSE
    /\ pass = 0
    /\ unseen = {}
    /\ pruned = <<>>

(* The next token and room to close what is open after it.                 *)
Read(token, closers) ==
    /\ phase = "build"
    /\ Len(prog) + 1 + closers <= MaxTokens
    /\ prog' = Append(prog, token)
    /\ UNCHANGED <<void, optimize, phase, prune>>
At == Len(prog) + 1

(* Assignments, calls, reads, prints, deletes: no block is ended.          *)
Statement ==
    /\ Read("stm", Len(open))
    /\ ~IsSuffix([i \in 1..MaxRun |-> "stm"], prog)
    /\ blk' = Add(cur, <<Code(At)>>)
    /\ UNCHANGED <<blocks, cur, open, check>>

(* Return.TranslateToLLVMStack does not end the block either.              *)
Return ==
    /\ Read("ret", Len(open))
    /\ blk' = Add(cur, <<Ret(At)>>)
    /\ returns' = TRUE
    /\ UNCHANGED <<blocks, cur, open, trusted>>

(* cfg.NewIfBlock, the condition and its branch.  The branch ends cur, the *)
(* edge cur -> exit goes through the first true and false blocks even when *)
(* the bodies end in other blocks.                                         *)
OpenIf ==
    LET t == Cardinality(DOMAIN blk)
        f == t + 1
        exit == t + 2
        inherited == blk[cur].forExit
        new == [b \in {t, f, exit} |->
                   IF b = exit THEN NewBlock({t, f}, <<>>, inherited)
                   ELSE NewBlock({cur}, <<exit>>, inherited)]
        linked == EndInto(cur, <<Code(At), BrCond(At, t, f)>>, <<t, f>>)
    IN  /\ Read("if", Len(open) + 1)
        /\ Len(open) < MaxDepth
        /\ blk' = AddBlocks(linked, new)
        /\ blocks' = blocks \cup {t, f, exit}
        /\ cur' = t
        /\ open' = Append(open, [kind |-> "then", exit |-> exit, other |-> f,
                                 outer |-> returns, then |-> FALSE])
        /\ returns' = FALSE
        /\ UNCHANGED trusted

Else ==
    /\ Read("else", Len(open))
    /\ open # <<>> /\ Last(open).kind = "then"
    /\ blk' = Add(cur, <<Br(Last(open).exit)>>)
    /\ cur' = Last(open).other
    /\ open' = [open EXCEPT ![Len(open)].kind = "else", ![Len(open)].then = returns]
    /\ returns' = FALSE
    /\ UNCHANGED <<blocks, trusted>>

(* Mutant: one body that returns is taken for both.                        *)
EitherReturns(frame) == frame.then \/ returns
(* Conditional.ReturnCheck: both bodies return.                            *)
BothReturn(frame) == frame.kind = "else" /\ frame.then /\ returns

(* Without an else the untouched false block gets its branch now.          *)
EndIf ==
    LET frame == Last(open)
        noElse == frame.kind = "then"
        joined == Add(cur, <<Br(frame.exit)>>)
    IN  /\ Read("fi", Len(open) - 1)
        /\ open # <<>> /\ frame.kind \in {"then", "else"}
        /\ blk' = IF noElse THEN [joined EXCEPT ![frame.other].instrs = <<Br(frame.exit)>>]
                            ELSE joined
        /\ cur' = frame.exit
        /\ open' = Front(open)
        /\ returns' = (frame.outer \/ BothReturn(frame))
        /\ UNCHANGED <<blocks, trusted>>

(* cfg.NewForBlock.  The new entry has no Preds, and the new exit forgets  *)
(* the exit of a loop around it.                                           *)
OpenLoop ==
    LET e == Cardinality(DOMAIN blk)
        body == e + 1
        exit == e + 2
        new == [b \in {e, body, exit} |->
                   CASE b = e -> [NewBlock({}, <<body, exit>>, exit)
                                    EXCEPT !.instrs = <<Code(At), BrCond(At, body, exit)>>]
                     [] b = body -> NewBlock({e}, <<e>>, exit)
                     [] b = exit -> NewBlock({e}, <<>>, NoBlock)]
        linked == EndInto(cur, <<Br(e)>>, <<e>>)
    IN  /\ Read("for", Len(open) + 1)
        /\ Len(open) < MaxDepth
        /\ blk' = AddBlocks(linked, new)
        /\ blocks' = blocks \cup {e, body, exit}
        /\ cur' = body
        /\ open' = Append(open, [kind |-> "loop", exit |-> exit, other |-> e,
                                 outer |-> returns, then |-> FALSE])
        /\ returns' = FALSE
        /\ UNCHANGED trusted

(* Loop.ReturnCheck answers for the body, as if it always ran.             *)
EndLoop ==
    LET frame == Last(open)
    IN  /\ Read("rof", Len(open) - 1)
        /\ open # <<>> /\ frame.kind = "loop"
        /\ blk' = Add(cur, <<Br(frame.other)>>)
        /\ cur' = frame.exit
        /\ open' = Front(open)
        /\ returns' = (frame.outer \/ returns)
        /\ trusted' = (trusted \/ returns)
        /\ UNCHANGED blocks

-----------------------------------------------------------------------------
(* sa.Execute: a function with a result that ReturnCheck refuses stops the *)
(* compilation before any translation.                                     *)
Accepted == void \/ returns

Reject ==
    /\ phase = "build" /\ open = <<>>
    /\ ~Accepted
    /\ phase' = "rejected"
    /\ UNCHANGED <<source, blk, blocks, cur, open, check, prune>>

(* Mutant: the return of a function without a result is forgotten.         *)
NoFinalReturn == blk
(* A function without a result ends in return 0.                           *)
WithFinalReturn == IF void THEN Add(cur, <<Ret(At)>>) ELSE blk

(* -O1: everything behind the first terminator of a block goes.            *)
FirstTerminator(instrs) ==
    {i \in DOMAIN instrs : IsTerminator(instrs[i])
                           /\ \A j \in 1..(i - 1) : ~IsTerminator(instrs[j])}
Truncate(instrs) ==
    IF FirstTerminator(instrs) = {} THEN instrs
    ELSE SubSeq(instrs, 1, CHOOSE i \in FirstTerminator(instrs) : TRUE)

FinishOptimized ==
    /\ phase = "build" /\ open = <<>> /\ Accepted /\ optimize
    /\ blk' = [b \in DOMAIN blk |->
                  [WithFinalReturn[b] EXCEPT !.instrs = Truncate(@)]]
    /\ pruned' = blk'
    /\ phase' = "prune"
    /\ UNCHANGED <<source, blocks, cur, open, check, pass, unseen>>

(* A plain build gives every empty block a branch to itself.               *)
FinishPlain ==
    /\ phase = "build" /\ open = <<>> /\ Accepted /\ ~optimize
    /\ blk' = [b \in DOMAIN blk |->
                  IF WithFinalReturn[b].instrs = <<>>
                  THEN [WithFinalReturn[b] EXCEPT !.instrs = <<Br(b)>>]
                  ELSE WithFinalReturn[b]]
    /\ phase' = "done"
    /\ UNCHANGED <<source, blocks, cur, open, check, prune>>

(* Mutant: the targets of conditional branches are overlooked.             *)
BrTargets(b, bs) ==
    UNION {{d \in ToSet(bs[b].instrs[i].dests) : bs[b].instrs[i].op = "Br" /\ d # b} :
              i \in DOMAIN bs[b].instrs}
(* seenBlocks: the entry and everything a block of the map branches to,    *)
(* except a branch from a block to itself.                                 *)
Targets(b, bs) ==
    UNION {{d \in ToSet(bs[b].instrs[i].dests) : bs[b].instrs[i].op = "BrCond" \/ d # b} :
              i \in DOMAIN bs[b].instrs}
Seen(keys, bs) == {Entry} \cup UNION {Targets(b, bs) : b \in keys}

(* Mutant: one round too many.                                             *)
RoundsLeftOffByOne == pass <= Passes
RoundsLeft == pass < Passes

StartPass ==
    /\ phase = "prune" /\ unseen = {} /\ RoundsLeft
    /\ pass' = pass + 1
    /\ unseen' = blocks \ Seen(blocks, blk)
    /\ UNCHANGED <<source, phase, blk, blocks, cur, open, check, pruned>>

(* Mutant: the last edge takes the place of the one removed.               *)
SwapRemove(s, b) ==
    IF b \in ToSet(s) THEN Front([s EXCEPT ![CHOOSE i \in DOMAIN s : s[i] = b] = Last(s)]) ELSE s
(* s without its b: Succs hold a block once.                               *)
Without(s, b) ==
    IF b \in ToSet(s) THEN RemoveAt(s, CHOOSE i \in DOMAIN s : s[i] = b) ELSE s
(* LLVMFuncDef.RemoveBlock: unlink b from the blocks it knows as Preds and *)
(* from the Preds of its Succs, and drop it from the map.                  *)
Unlink(b, bs) ==
    [c \in DOMAIN bs |->
        [bs[c] EXCEPT !.succs = IF c \in bs[b].preds THEN Without(@, b) ELSE @,
                      !.preds = IF c \in ToSet(bs[b].succs) THEN @ \ {b} ELSE @]]

(* The loop runs over a Go map, so the blocks of a round go in any order.  *)
RemoveBlock(b) ==
    /\ phase = "prune" /\ b \in unseen
    /\ blk' = Unlink(b, blk)
    /\ blocks' = blocks \ {b}
    /\ unseen' = unseen \ {b}
    /\ UNCHANGED <<source, phase, cur, open, check, pass, pruned>>

FinishPrune ==
    /\ phase = "prune" /\ unseen = {} /\ pass = Passes
    /\ phase' = "done"
    /\ UNCHANGED <<source, blk, blocks, cur, open, check, prune>>

Next ==
    \/ Statement \/ Return
    \/ OpenIf \/ Else \/ EndIf
    \/ OpenLoop \/ EndLoop
    \/ Reject \/ FinishPlain \/ FinishOptimized
    \/ StartPass \/ FinishPrune
    \/ \E b \in unseen : RemoveBlock(b)

Spec == Init /\ [][Next]_vars

-----------------------------------------------------------------------------
(* The queue with the blocks of one list of Succs that were never in it.   *)
Enqueue(seen, succs) ==
    LET upTo[j \in 0..Len(succs)] ==
            IF j = 0 THEN seen
            ELSE LET queue == upTo[j - 1]
                 IN  IF succs[j] \in ToSet(queue) THEN queue ELSE Append(queue, succs[j])
    IN  upTo[Len(succs)]
(* Block.InOrderBlocks: breadth first over Succs, in the order the String  *)
(* and TranslateToARM methods print the blocks.  allSeen, the list of all  *)
(* blocks ever queued, is the result; no block is in it twice.             *)
InOrderBlocks(bs) ==
    LET afterVisits[n \in 0..Cardinality(DOMAIN bs)] ==
            IF n = 0 THEN <<Entry>>
            ELSE LET allSeen == afterVisits[n - 1]
                 IN  IF n > Len(allSeen) THEN allSeen
                     ELSE Enqueue(allSeen, bs[allSeen[n]].succs)
    IN  afterVisits[Cardinality(DOMAIN bs)]
Emitted == ToSet(InOrderBlocks(blk))

(* What running the blocks reaches: control leaves a block by its first    *)
(* terminator, whatever is behind it.                                      *)
Exits(b) == ToSet(LET instrs == Truncate(blk[b].instrs)
                  IN  IF instrs = <<>> THEN <<>> ELSE Last(instrs).dests)
LiveWithin[n \in Nat] ==
    IF n = 0 THEN {Entry}
    ELSE LET reached == LiveWithin[n - 1]
         IN  reached \cup UNION {Exits(b) : b \in reached}
Live == LiveWithin[Cardinality(DOMAIN blk)]

-----------------------------------------------------------------------------
Labels == DOMAIN blk
Instr == [op : {"Code", "Ret", "Br", "BrCond"}, at : 0..(MaxTokens + 1), dests : Seq(Labels)]

TypeOK ==
    /\ prog \in Seq({"stm", "ret", "if", "else", "fi", "for", "rof"})
    /\ void \in BOOLEAN /\ optimize \in BOOLEAN
    /\ phase \in {"build", "rejected", "prune", "done", "translated"}
    /\ Labels = 0..(Cardinality(Labels) - 1)
    /\ \A b \in Labels :
          /\ blk[b].instrs \in Seq(Instr)
          /\ blk[b].preds \subseteq Labels
          /\ blk[b].succs \in Seq(Labels)
          /\ blk[b].forExit \in Labels \cup {NoBlock}
    /\ blocks \subseteq Labels
    /\ cur \in Labels
    /\ \A i \in DOMAIN open : open[i].exit \in Labels /\ open[i].other \in Labels
    /\ returns \in BOOLEAN /\ trusted \in BOOLEAN
    /\ pass \in 0..Passes
    /\ unseen \subseteq blocks

(* In a plain build every branch printed, dead code included, goes to a    *)
(* label that is printed; otherwise the output does not assemble.  The     *)
(* Succs edges that InOrderBlocks follows are not kept in step with the    *)
(* branch instructions (blockcfg.go:51-71), yet never miss a target.       *)
PlainTargetsEmitted ==
    phase = "done" /\ ~optimize =>
        \A b \in Emitted : \A i \in DOMAIN blk[b].instrs :
            ToSet(blk[b].instrs[i].dests) \subseteq Emitted

(* Control that starts at the entry leaves the function by a return: no    *)
(* reachable block runs off its end, and no filler branch (function.go:207) *)
(* is reachable.  Loops that ReturnCheck took at their word are excepted.  *)
LeavesByReturn ==
    \A b \in Live : FirstTerminator(blk[b].instrs) # {} /\ b \notin Exits(b)
ReturnsWhenChecked == phase = "done" /\ ~trusted => LeavesByReturn

(* Nothing that can run is removed: pruning keeps every reachable block in *)
(* the map and in print.                                                   *)
LiveKept == phase \in {"prune", "done"} => Live \subseteq blocks \cap Emitted

(* What is left in the map, and where live code is printed, does not       *)
(* depend on the order in which the map hands the blocks out: the keys are *)
(* those that take no removal into account but the keys', and the blocks   *)
(* that can run stand in the order they have without a dead-code pass.     *)
(* (Which dead blocks are printed beside them does depend on it.)          *)
KeysAfter(rounds, bs) ==
    LET keys[i \in 0..Passes] ==
            IF i = 0 THEN DOMAIN bs ELSE keys[i - 1] \cap Seen(keys[i - 1], bs)
    IN  keys[rounds]
Before(bs, b, c) ==
    LET printed == InOrderBlocks(bs)
    IN  \E i, j \in DOMAIN printed : i < j /\ printed[i] = b /\ printed[j] = c
OrderIrrelevant ==
    phase = "done" /\ optimize =>
        /\ blocks = KeysAfter(Passes, pruned)
        /\ \A b, c \in Live : Before(blk, b, c) <=> Before(pruned, b, c)
=============================================================================
