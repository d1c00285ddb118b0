----------------------------- MODULE LiveRanges -----------------------------
(***************************************************************************)
(* The live ranges the register allocator works from:                      *)
(* LLVMFuncDef.CalculateLiveRanges (llvm/llvmFunction.go:92-119) over the  *)
(* blocks CfgBuilder makes, against the liveness those blocks really have. *)
(*                                                                         *)
(* The code lays the blocks end to end in printing order, repeats the      *)
(* blocks of a loop behind the loop's exit, and takes for every variable   *)
(* the stretch between its first and last position.                        *)
(*                                                                         *)
(* Every statement is an assignment dst = src and every condition a test   *)
(* of src, in the instructions the translation gives them: a load into a   *)
(* fresh register and an instruction that uses it.                         *)
(***************************************************************************)
EXTENDS CfgBuilder

CONSTANT Name     \* the GoLite variables of the function

VARIABLE access   \* for every token of prog: the variables it names

lrVars == <<vars, access>>

(* The fresh register RegisterGen makes for the load of token k.           *)
Temp(k) == <<"r", k>>

AccessOf(token) ==
    CASE token = "stm" -> [dst : Name, src : Name]
      [] token \in {"if", "for"} -> [dst : {"none"}, src : Name]
      [] OTHER -> [dst : {"none"}, src : {"none"}]

(* A plain build of a function without a result.                           *)
LRInit ==
    /\ Init /\ void /\ ~optimize
    /\ access = <<>>

LRNext ==
    /\ Next
    /\ IF prog' = prog THEN UNCHANGED access
       ELSE \E a \in AccessOf(Last(prog')) : access' = Append(access, a)

LRSpec == LRInit /\ [][LRNext]_lrVars

-----------------------------------------------------------------------------
(* The instructions behind one Code, by what they write and read; Vars()   *)
(* lists both.                                                             *)
Op(defs, uses) == [defs |-> defs, uses |-> uses]
OpsOf(instr) ==
    IF instr.op # "Code" THEN <<>>
    ELSE LET k == instr.at
             load == Op({Temp(k)}, {access[k].src})
         IN  IF prog[k] = "stm" THEN <<load, Op({access[k].dst}, {Temp(k)})>>
             ELSE <<load, Op({}, {Temp(k)})>>
Ops(instrs) == FlattenSeq([i \in DOMAIN instrs |-> OpsOf(instrs[i])])
BlockOps == [b \in DOMAIN blk |-> Ops(blk[b].instrs)]

(* Mutant: the body of a loop is not repeated behind its exit.             *)
NoBlocksInLoop(b) == <<>>
(* AllBlocksInLoop: the blocks whose ToForExit is b, in printing order.    *)
AllBlocksInLoop(b) == SelectSeq(InOrderBlocks(blk), LAMBDA c : blk[c].forExit = b)

SuperBlock ==
    LET laid(b) == BlockOps[b] \o
                   FlattenSeq([i \in DOMAIN AllBlocksInLoop(b) |->
                                  BlockOps[AllBlocksInLoop(b)[i]]])
    IN  FlattenSeq([i \in DOMAIN InOrderBlocks(blk) |-> laid(InOrderBlocks(blk)[i])])

(* Positions count from 0.  A later occurrence at i ends the range at      *)
(* i - 1: the register may be reused by what the last reader writes.       *)
Occurrences(super, v) == {i - 1 : i \in {j \in DOMAIN super : v \in super[j].defs \cup super[j].uses}}
StartPoint(super, v) == Min(Occurrences(super, v))
EndPoint(super, v) ==
    IF Cardinality(Occurrences(super, v)) = 1 THEN Min(Occurrences(super, v))
    ELSE Max(Occurrences(super, v)) - 1

RangesOverlap(super, v, w) ==
    /\ StartPoint(super, v) <= EndPoint(super, w)
    /\ StartPoint(super, w) <= EndPoint(super, v)

-----------------------------------------------------------------------------
(* What is really live, by the usual equations over the instructions that  *)
(* run.  A variable nothing was assigned to has no value to lose.          *)
RunOps == [b \in DOMAIN blk |-> Ops(Truncate(blk[b].instrs))]
Rounds == [i \in DOMAIN blk |-> i]
LiveBefore(ops, after) ==
    FoldRight(LAMBDA op, live : (live \ op.defs) \cup op.uses, ops, after)
LiveIn ==
    FoldFunction(LAMBDA i, in : [b \in DOMAIN blk |->
                     LiveBefore(RunOps[b], UNION {in[c] : c \in Exits(b)})],
                 [b \in DOMAIN blk |-> {}], Rounds)
Written(ops) == UNION {ops[i].defs : i \in DOMAIN ops}
AssignedIn ==
    FoldFunction(LAMBDA i, in : [b \in DOMAIN blk |->
                     UNION {in[p] \cup Written(RunOps[p]) : p \in {q \in DOMAIN blk : b \in Exits(q)}}],
                 [b \in DOMAIN blk |-> {}], Rounds)

(* v holds a value that is read later when instruction i of block b writes *)
(* w: the two must not be in one register.                                 *)
Interferes(in, assigned, b, i, v, w) ==
    /\ w \in RunOps[b][i].defs
    /\ v # w
    /\ v \in LiveBefore(SubSeq(RunOps[b], i + 1, Len(RunOps[b])), UNION {in[c] : c \in Exits(b)})
    /\ v \in assigned[b] \cup Written(SubSeq(RunOps[b], 1, i))

InterferenceCovered ==
    LET super == SuperBlock
        in == LiveIn
        assigned == AssignedIn
        all == UNION {super[i].defs \cup super[i].uses : i \in DOMAIN super}
    IN  \A b \in Live : \A i \in DOMAIN RunOps[b] : \A w \in RunOps[b][i].defs :
            \A v \in all :
                Interferes(in, assigned, b, i, v, w) => RangesOverlap(super, v, w)

(* In a function without a conditional or loop inside another, variables   *)
(* that are live together have overlapping ranges, through loops, early    *)
(* returns and uses behind a loop: the allocator keeps them apart.  And in *)
(* every function ranges are as the allocator takes them for granted       *)
(* (LinearScan!Init): none ends before it starts, although the end is one  *)
(* less than the last position.                                            *)
Flat ==
    \A k \in DOMAIN prog :
        Cardinality({i \in 1..k : prog[i] \in {"if", "for"}})
          <= 1 + Cardinality({i \in 1..k : prog[i] \in {"fi", "rof"}})
RangesForward ==
    LET super == SuperBlock
    IN  \A v \in UNION {super[i].defs \cup super[i].uses : i \in DOMAIN super} :
            StartPoint(super, v) <= EndPoint(super, v)
FlatRangesSound == phase = "done" => RangesForward /\ (Flat => InterferenceCovered)

(* The cover in every function.                                            *)
RangesSound == phase = "done" => InterferenceCovered
=============================================================================
