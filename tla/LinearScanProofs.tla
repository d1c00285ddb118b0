--------------------------- MODULE LinearScanProofs -------------------------
(***************************************************************************)
(* Proofs about LinearScan, for every set of variables, every assignment   *)
(* of live ranges and every register interval the assumptions allow.       *)
(*                                                                         *)
(* IInv is the inductive invariant.  What NoSharedRegister needs beyond    *)
(* itself: the registers of active are exactly the ones in use, and a      *)
(* variable that kept a register but left active ended before every        *)
(* variable still to come starts, so that its register may go round again. *)
(***************************************************************************)
EXTENDS LinearScan, FiniteSetTheorems, TLAPS

AllSettled == \A v \in Done : Resident(v) <=> locations[v] = NoSlot

PendingUntouched ==
    \A v \in pending : registers[v] = Unset /\ locations[v] = NoSlot

StartsOrdered ==
    \A v \in Done, p \in pending : startpoint[v] <= startpoint[p]

LeftActiveEnded ==
    \A v \in Done \ active, p \in pending :
        Resident(v) => endpoint[v] < startpoint[p]

ActiveDone == active \subseteq Done

IInv ==
    /\ TypeOK
    /\ ActiveDone
    /\ PendingUntouched
    /\ StartsOrdered
    /\ LeftActiveEnded
    /\ RegistersPartitioned
    /\ AllSettled
    /\ NoSharedRegister
    /\ SlotsDisjoint
    /\ stackSize >= StackHeader

-----------------------------------------------------------------------------
(* An interval of integers is finite, with the number of elements expected. *)
LEMMA IntervalCount ==
    ASSUME NEW a \in Int, NEW b \in Int, a <= b
    PROVE  IsFiniteSet(a..b) /\ Cardinality(a..b) = b - a + 1
<1>1. /\ IsFiniteSet(a..b)
      /\ Cardinality(a..b) = IF a > b THEN 0 ELSE b - a + 1
  BY FS_Interval, Zenon
<1> QED BY <1>1

(* The allocatable registers are a finite set of naturals that extractMin  *)
(* scans completely.                                                       *)
LEMMA RegFacts ==
    /\ Reg \subseteq 8..28
    /\ Spilled \notin Reg
    /\ Unset \notin Reg
    /\ IsFiniteSet(Reg)
<1>1. Reg \subseteq 8..28
  BY RegAssumption DEF Reg
<1>2. Spilled \notin Reg /\ Unset \notin Reg
  BY RegAssumption DEF Reg, Spilled, Unset
<1>3. IsFiniteSet(8..28)
  <2>1. 8 \in Int /\ 28 \in Int /\ 8 <= 28
    OBVIOUS
  <2> QED BY <2>1, IntervalCount, Zenon
<1>4. IsFiniteSet(Reg)
  BY <1>1, <1>3, FS_Subset
<1> QED BY <1>1, <1>2, <1>4

(* R, which the code computes as endReg - startReg - 2, is the number of   *)
(* registers it maps to true.                                              *)
LEMMA RegCount == Cardinality(Reg) = R
<1>1. StartReg \in Int /\ EndReg \in Int /\ StartReg <= EndReg
  BY RegAssumption
<1>2. /\ IsFiniteSet(StartReg..EndReg)
      /\ Cardinality(StartReg..EndReg) = EndReg - StartReg + 1
  BY <1>1, IntervalCount
<1>3. Cardinality(16..18) = 3
  <2>1. 16 \in Int /\ 18 \in Int /\ 16 <= 18
    OBVIOUS
  <2>2. Cardinality(16..18) = 18 - 16 + 1
    BY <2>1, IntervalCount, Zenon
  <2> QED BY <2>2
<1>4. /\ Reg = (StartReg..EndReg) \ (16..18)
      /\ (StartReg..EndReg) \cap (16..18) = 16..18
  BY RegAssumption DEF Reg
<1>5. Cardinality((StartReg..EndReg) \ (16..18))
        = Cardinality(StartReg..EndReg) - Cardinality((StartReg..EndReg) \cap (16..18))
  BY <1>2, FS_Difference, Zenon
<1>6. Cardinality(Reg) = Cardinality(StartReg..EndReg) - Cardinality(16..18)
  BY <1>4, <1>5
<1> QED
  BY <1>1, <1>2, <1>3, <1>6 DEF R

(* extractMin returns a free register whenever there is one.               *)
LEMMA ExtractMinFree ==
    ASSUME NEW free \in SUBSET Reg, free # {}
    PROVE  ExtractMin(free) \in free
<1>1. free \subseteq 8..28
  BY RegFacts
<1>2. PICK i \in free : TRUE
  OBVIOUS
<1>3. \E m \in 8..28 : m \in free /\ \A j \in 8..28 : j \in free => m <= j
  BY <1>1, <1>2, SMTT(60)
<1> QED BY <1>3 DEF ExtractMin

(* While fewer than R of the kept variables hold registers, a register is  *)
(* free: the case the code takes for len(active) # R never meets the -1    *)
(* of extractMin (line 128).                                               *)
LEMMA FreedNotEmpty ==
    ASSUME TypeOK, RegistersPartitioned, NEW v \in Var, Cardinality(Kept(v)) # R
    PROVE  Freed(v) # {}
<1> SUFFICES ASSUME Freed(v) = {} PROVE FALSE
  OBVIOUS
<1> DEFINE holds == [w \in Kept(v) |-> registers[w]]
<1>1. Expired(v) = {} /\ freeRegs = {} /\ Kept(v) = active
  BY DEF Freed, Expired, Kept
<1>2. holds \in Injection(Kept(v), Reg)
  BY <1>1 DEF RegistersPartitioned, Injection, IsInjective, TypeOK
<1>3. holds \in Surjection(Kept(v), Reg)
  BY <1>1, <1>2 DEF RegistersPartitioned, Injection, Surjection
<1>4. Cardinality(Kept(v)) = Cardinality(Reg)
  BY <1>2, <1>3, RegFacts, FS_Injection
<1> QED BY <1>4, RegCount

-----------------------------------------------------------------------------
(* The maps as the allocator finds them.                                   *)
LEMMA InitIInv == Init => IInv
<1> SUFFICES ASSUME Init PROVE IInv
  OBVIOUS
<1> USE DEF Init, Done
<1>1. TypeOK
  BY RegFacts DEF TypeOK, StackHeader
<1>2. /\ ActiveDone /\ PendingUntouched /\ StartsOrdered /\ LeftActiveEnded
      /\ RegistersPartitioned /\ AllSettled /\ NoSharedRegister
      /\ SlotsDisjoint
  BY DEF ActiveDone, PendingUntouched, StartsOrdered, LeftActiveEnded,
         RegistersPartitioned, AllSettled, NoSharedRegister, SlotsDisjoint
<1> QED BY <1>1, <1>2 DEF IInv, StackHeader

(* What the three branches share: v moves from pending to done, the next   *)
(* variables still start no earlier, and whoever v expires ends before     *)
(* every variable still pending starts.                                    *)
LEMMA StepFacts ==
    ASSUME IInv, NEW v \in Var, IsNext(v), pending' = pending \ {v}
    PROVE  /\ Done' = Done \cup {v}
           /\ v \notin Done /\ v \notin active
           /\ registers[v] = Unset /\ locations[v] = NoSlot
           /\ \A w \in active : w \in Var /\ registers[w] \in Reg
           /\ \A w \in Expired(v) : endpoint[w] < startpoint[v]
           /\ \A w \in active \ Kept(v) : w \in Expired(v)
           /\ \A w \in Done \ Kept(v) :
                 registers[w] \in Reg => endpoint[w] < startpoint[v]
<1> USE DEF IInv, IsNext, Done
<1>1. Done' = Done \cup {v}
  BY DEF TypeOK
<1>2. v \notin Done /\ v \notin active
  BY DEF ActiveDone
<1>3. registers[v] = Unset /\ locations[v] = NoSlot
  BY DEF PendingUntouched
<1>4. \A w \in active : w \in Var /\ registers[w] \in Reg
  BY DEF RegistersPartitioned, TypeOK
<1>5. \A w \in active \ Kept(v) : w \in Expired(v)
  BY DEF Kept
<1>6. \A w \in Expired(v) : endpoint[w] < startpoint[v]
  BY DEF Expired
<1>7. \A w \in Done \ Kept(v) : registers[w] \in Reg => endpoint[w] < startpoint[v]
  BY <1>5, <1>6 DEF LeftActiveEnded, Resident
<1> QED BY <1>1, <1>2, <1>3, <1>4, <1>5, <1>6, <1>7

(* A register is free and nobody who still needs it holds it (line 160).   *)
LEMMA AssignPreserves ==
    ASSUME IInv, NEW v \in Var, AssignRegister(v)
    PROVE  IInv'
<1> DEFINE r == ExtractMin(Freed(v))
<1>1. /\ IsNext(v) /\ pending' = pending \ {v}
      /\ registers' = [registers EXCEPT ![v] = r]
      /\ freeRegs' = Freed(v) \ {r}
      /\ active' = Kept(v) \cup {v}
      /\ UNCHANGED <<startpoint, endpoint, locations, stackSize>>
  BY DEF AssignRegister, ranges
<1>2. Freed(v) \subseteq Reg
  BY StepFacts, <1>1 DEF IInv, TypeOK, Freed, Expired
<1>3. r \in Freed(v) /\ r \in Reg
  BY <1>2, FreedNotEmpty, ExtractMinFree DEF IInv, AssignRegister
<1>4. /\ registers'[v] = r
      /\ \A w \in Var \ {v} : registers'[w] = registers[w]
  BY <1>1 DEF IInv, TypeOK
<1>5. \A w \in Kept(v) : registers[w] \in Reg \ Freed(v)
  BY DEF IInv, RegistersPartitioned, Freed, Kept, Expired
<1>6. TypeOK'
  BY <1>1, <1>2, <1>3 DEF IInv, TypeOK, Kept
<1>7. ActiveDone'
  BY <1>1, StepFacts DEF IInv, ActiveDone, Kept
<1>8. PendingUntouched'
  BY <1>1, <1>4 DEF IInv, TypeOK, PendingUntouched
<1>9. StartsOrdered'
  BY <1>1, StepFacts DEF IInv, StartsOrdered, IsNext
<1>10. LeftActiveEnded'
  <2> SUFFICES ASSUME NEW w \in Done' \ active', NEW p \in pending', Resident(w)'
               PROVE  endpoint[w] < startpoint[p]
    BY <1>1 DEF LeftActiveEnded
  <2>1. w \in Done \ Kept(v) /\ registers[w] \in Reg /\ w \in Var
    BY <1>1, <1>4, StepFacts DEF Resident, Done, IInv, TypeOK
  <2>2. endpoint[w] < startpoint[v] /\ startpoint[v] <= startpoint[p]
    BY <1>1, <2>1, StepFacts DEF IsNext
  <2>3. p \in Var /\ endpoint[w] \in Int /\ startpoint[v] \in Int /\ startpoint[p] \in Int
    BY <1>1, <2>1, PointAssumption DEF IInv, TypeOK, Point
  <2> QED BY <2>2, <2>3
<1>11. RegistersPartitioned'
  <2>1. Reg \ freeRegs' \subseteq {registers'[w] : w \in active'}
    <3> SUFFICES ASSUME NEW x \in Reg, x \notin freeRegs', x # r
                 PROVE  \E w \in active' : registers'[w] = x
      BY <1>1, <1>4
    <3>1. x \notin Freed(v)
      BY <1>1
    <3>2. PICK w \in active : registers[w] = x
      BY <3>1 DEF Freed, IInv, RegistersPartitioned
    <3>3. w \in Kept(v)
      BY <3>1, <3>2 DEF Freed, Kept
    <3> QED BY <1>1, <1>4, <3>2, <3>3, StepFacts DEF Kept
  <2>2. \A w \in active' : registers'[w] \in Reg \ freeRegs'
    BY <1>1, <1>3, <1>4, <1>5, StepFacts DEF Kept
  <2>3. \A w, u \in active' : w # u => registers'[w] # registers'[u]
    BY <1>1, <1>3, <1>4, <1>5, StepFacts DEF Kept, IInv, RegistersPartitioned
  <2> QED BY <2>1, <2>2, <2>3 DEF RegistersPartitioned
<1>12. AllSettled'
  BY <1>1, <1>3, <1>4, StepFacts DEF IInv, AllSettled, Resident, Done
<1>13. NoSharedRegister'
  <2>1. \A w \in Done : registers[w] = r => endpoint[w] < startpoint[v]
    BY <1>1, <1>3, <1>5, StepFacts
  <2>2. \A w \in Done : w \in Var /\ w # v
    BY <1>1, StepFacts DEF Done
  <2>3. \A w \in Done : registers'[w] = r => ~Overlap(v, w) /\ ~Overlap(w, v)
    BY <1>4, <2>1, <2>2, PointAssumption DEF Overlap, IInv, TypeOK, Point
  <2> QED
    BY <1>1, <1>4, <2>2, <2>3, StepFacts
    DEF IInv, NoSharedRegister, Overlap, Resident
<1>14. SlotsDisjoint'
  BY <1>1, StepFacts DEF IInv, SlotsDisjoint, OnStack
<1> QED
  BY <1>1, <1>6, <1>7, <1>8, <1>9, <1>10, <1>11, <1>12, <1>13, <1>14 DEF IInv

(* The branch that moves the longest active range to the stack: s is a     *)
(* kept variable, so v inherits a register that nobody else holds and that *)
(* everyone who had it before gave up before v starts.                     *)
LEMMA SpillActivePreserves ==
    ASSUME IInv, NEW v \in Var, NEW s \in Var, SpillActive(v, s)
    PROVE  IInv'
<1> DEFINE r == registers[s]
<1>1. /\ IsNext(v) /\ pending' = pending \ {v}
      /\ registers' = [registers EXCEPT ![v] = r, ![s] = Spilled]
      /\ locations' = [locations EXCEPT ![s] = stackSize]
      /\ stackSize' = stackSize + SlotSize
      /\ freeRegs' = Freed(v)
      /\ active' = (Kept(v) \ {s}) \cup {v}
      /\ UNCHANGED <<startpoint, endpoint>>
  BY DEF SpillActive, Replace, StackSizeAfterSpill, ranges
<1>2. s \in Kept(v) /\ s \in active /\ s \in Done /\ s # v /\ r \in Reg
  BY <1>1, StepFacts DEF SpillActive, IsLast, Kept, IInv, ActiveDone
<1>3. Freed(v) \subseteq Reg
  BY StepFacts, <1>1 DEF IInv, TypeOK, Freed, Expired
<1>4. /\ registers'[v] = r /\ registers'[s] = Spilled
      /\ \A w \in Var \ {v, s} : registers'[w] = registers[w]
      /\ locations'[s] = stackSize
      /\ \A w \in Var \ {s} : locations'[w] = locations[w]
  BY <1>1, <1>2 DEF IInv, TypeOK
<1>5. \A w \in Kept(v) : registers[w] \in Reg \ Freed(v)
  BY DEF IInv, RegistersPartitioned, Freed, Kept, Expired
<1>6. stackSize \in Nat /\ stackSize # NoSlot /\ stackSize' \in Nat /\ stackSize' >= StackHeader
  BY <1>1 DEF IInv, TypeOK, NoSlot, SlotSize, StackHeader
<1>7. TypeOK'
  BY <1>1, <1>2, <1>3, <1>6 DEF IInv, TypeOK, Kept
<1>8. ActiveDone'
  BY <1>1, StepFacts DEF IInv, ActiveDone, Kept
<1>9. PendingUntouched'
  BY <1>1, <1>2, <1>4 DEF IInv, TypeOK, PendingUntouched, Done
<1>10. StartsOrdered'
  BY <1>1, StepFacts DEF IInv, StartsOrdered, IsNext
<1>11. LeftActiveEnded'
  <2> SUFFICES ASSUME NEW w \in Done' \ active', NEW p \in pending', Resident(w)'
               PROVE  endpoint[w] < startpoint[p]
    BY <1>1 DEF LeftActiveEnded
  <2>1. w # s
    BY <1>4, RegFacts DEF Resident, Reg
  <2>2. w \in Done \ Kept(v) /\ registers[w] \in Reg /\ w \in Var
    BY <1>1, <1>4, <2>1, StepFacts DEF Resident, Done, IInv, TypeOK
  <2>3. endpoint[w] < startpoint[v] /\ startpoint[v] <= startpoint[p]
    BY <1>1, <2>2, StepFacts DEF IsNext
  <2>4. p \in Var /\ endpoint[w] \in Int /\ startpoint[v] \in Int /\ startpoint[p] \in Int
    BY <1>1, <2>2, PointAssumption DEF IInv, TypeOK, Point
  <2> QED BY <2>3, <2>4
<1>12. RegistersPartitioned'
  <2>1. Reg \ freeRegs' \subseteq {registers'[w] : w \in active'}
    <3> SUFFICES ASSUME NEW x \in Reg, x \notin freeRegs', x # r
                 PROVE  \E w \in active' : registers'[w] = x
      BY <1>1, <1>4
    <3>1. x \notin Freed(v)
      BY <1>1
    <3>2. PICK w \in active : registers[w] = x
      BY <3>1 DEF Freed, IInv, RegistersPartitioned
    <3>3. w \in Kept(v) /\ w # s
      BY <3>1, <3>2 DEF Freed, Kept
    <3> QED BY <1>1, <1>4, <3>2, <3>3, StepFacts DEF Kept
  <2>2. \A w \in active' : registers'[w] \in Reg \ freeRegs'
    BY <1>1, <1>2, <1>4, <1>5, StepFacts DEF Kept
  <2>3. \A w \in active' \ {v} :
            w \in active /\ w \in Var /\ w # s /\ registers'[w] = registers[w]
    BY <1>1, <1>4, StepFacts DEF Kept
  <2>4. \A w, u \in active' : w # u => registers'[w] # registers'[u]
    BY <1>2, <1>4, <2>3 DEF IInv, RegistersPartitioned
  <2> QED BY <2>1, <2>2, <2>4 DEF RegistersPartitioned
<1>13. AllSettled'
  <2>1. ~Resident(s)' /\ locations'[s] # NoSlot
    BY <1>4, <1>6, RegFacts DEF Resident, Reg
  <2>2. Resident(v)' /\ locations'[v] = NoSlot
    BY <1>1, <1>2, <1>4, StepFacts DEF Resident, Reg
  <2>3. \A w \in Done \ {s} : Resident(w)' <=> locations'[w] = NoSlot
    BY <1>1, <1>4, StepFacts DEF IInv, AllSettled, Resident, Done, Reg
  <2> QED BY <1>1, <2>1, <2>2, <2>3, StepFacts DEF AllSettled
<1>14. NoSharedRegister'
  <2>1. \A w \in Done \ {s} : registers[w] = r => endpoint[w] < startpoint[v]
    BY <1>1, <1>2, StepFacts DEF IInv, RegistersPartitioned, Kept
  <2>2. \A w \in Done : w \in Var /\ w # v
    BY <1>1, StepFacts DEF Done
  <2>3. \A w \in Done \ {s} : registers'[w] = r => ~Overlap(v, w) /\ ~Overlap(w, v)
    BY <1>4, <2>1, <2>2, PointAssumption DEF Overlap, IInv, TypeOK, Point
  <2>4. \A w \in Done' \ {v, s} : w \in Done /\ registers'[w] = registers[w]
    BY <1>1, <1>4, <2>2, StepFacts
  <2>5. \A w, u \in Done' :
            w # u /\ registers'[w] \in Reg /\ registers'[w] = registers'[u] => ~Overlap(w, u)
    <3> SUFFICES ASSUME NEW w \in Done', NEW u \in Done', w # u,
                        registers'[w] \in Reg, registers'[w] = registers'[u]
                 PROVE  ~Overlap(w, u)
      OBVIOUS
    <3>1. w # s /\ u # s
      BY <1>4, RegFacts
    <3>2. CASE w = v \/ u = v
      BY <1>4, <2>3, <2>4, <3>1, <3>2
    <3>3. CASE w # v /\ u # v
      BY <2>4, <3>1, <3>3 DEF IInv, NoSharedRegister, Resident
    <3> QED BY <3>2, <3>3
  <2> QED BY <1>1, <2>5 DEF NoSharedRegister, Overlap, Resident, Reg
<1>15. SlotsDisjoint'
  <2>1. \A w \in Done : OnStack(w) => /\ StackHeader <= locations[w]
                                      /\ locations[w] + SlotSize <= stackSize
                                      /\ locations[w] \in Nat
    BY StepFacts DEF IInv, SlotsDisjoint, OnStack, TypeOK, Done
  <2>2. \A w \in Done' \ {s} : OnStack(w)' => w \in Done /\ OnStack(w) /\ locations'[w] = locations[w]
    BY <1>1, <1>4, StepFacts DEF OnStack, Done
  <2>3. \A w \in Done' : OnStack(w)' => StackHeader <= locations'[w] /\ locations'[w] + SlotSize <= stackSize'
    BY <1>1, <1>4, <1>6, <2>1, <2>2 DEF SlotSize, StackHeader, IInv
  <2>4. \A w, u \in Done' : OnStack(w)' /\ OnStack(u)' /\ w # u =>
            \/ locations'[w] + SlotSize <= locations'[u]
            \/ locations'[u] + SlotSize <= locations'[w]
    BY <1>4, <2>1, <2>2 DEF IInv, SlotsDisjoint
  <2> QED BY <2>3, <2>4 DEF SlotsDisjoint
<1> QED
  BY <1>1, <1>6, <1>7, <1>8, <1>9, <1>10, <1>11, <1>12, <1>13, <1>14, <1>15 DEF IInv

(* The branch that sends v itself to the stack.                            *)
LEMMA SpillNewPreserves ==
    ASSUME IInv, NEW v \in Var, SpillNew(v)
    PROVE  IInv'
<1>1. /\ IsNext(v) /\ pending' = pending \ {v}
      /\ locations' = [locations EXCEPT ![v] = stackSize]
      /\ stackSize' = stackSize + SlotSize
      /\ freeRegs' = Freed(v)
      /\ active' = Kept(v)
      /\ UNCHANGED <<startpoint, endpoint, registers>>
  BY DEF SpillNew, StackSizeAfterSpill, ranges
<1>2. Freed(v) \subseteq Reg
  BY StepFacts, <1>1 DEF IInv, TypeOK, Freed, Expired
<1>3. /\ locations'[v] = stackSize
      /\ \A w \in Var \ {v} : locations'[w] = locations[w]
  BY <1>1 DEF IInv, TypeOK
<1>4. stackSize \in Nat /\ stackSize # NoSlot /\ stackSize' \in Nat /\ stackSize' >= StackHeader
  BY <1>1 DEF IInv, TypeOK, NoSlot, SlotSize, StackHeader
<1>5. ~Resident(v)
  BY <1>1, StepFacts, RegFacts DEF Resident
<1>6. TypeOK'
  BY <1>1, <1>2, <1>4 DEF IInv, TypeOK, Kept
<1>7. ActiveDone'
  BY <1>1, StepFacts DEF IInv, ActiveDone, Kept
<1>8. PendingUntouched'
  BY <1>1, <1>3 DEF IInv, TypeOK, PendingUntouched
<1>9. StartsOrdered'
  BY <1>1, StepFacts DEF IInv, StartsOrdered, IsNext
<1>10. LeftActiveEnded'
  <2> SUFFICES ASSUME NEW w \in Done' \ active', NEW p \in pending', Resident(w)'
               PROVE  endpoint[w] < startpoint[p]
    BY <1>1 DEF LeftActiveEnded
  <2>1. w \in Done \ Kept(v) /\ registers[w] \in Reg /\ w \in Var
    BY <1>1, <1>5, StepFacts DEF Resident, Done, Reg
  <2>2. endpoint[w] < startpoint[v] /\ startpoint[v] <= startpoint[p]
    BY <1>1, <2>1, StepFacts DEF IsNext
  <2>3. p \in Var /\ endpoint[w] \in Int /\ startpoint[v] \in Int /\ startpoint[p] \in Int
    BY <1>1, <2>1, PointAssumption DEF IInv, TypeOK, Point
  <2> QED BY <2>2, <2>3
<1>11. RegistersPartitioned'
  <2>1. Reg \ freeRegs' \subseteq {registers'[w] : w \in active'}
    <3> SUFFICES ASSUME NEW x \in Reg, x \notin freeRegs'
                 PROVE  \E w \in active' : registers'[w] = x
      OBVIOUS
    <3>1. PICK w \in active : registers[w] = x
      BY <1>1 DEF Freed, IInv, RegistersPartitioned
    <3>2. w \in Kept(v)
      BY <1>1, <3>1 DEF Freed, Kept
    <3> QED BY <1>1, <3>1, <3>2
  <2>2. \A w \in active' : registers'[w] \in Reg \ freeRegs'
    BY <1>1 DEF IInv, RegistersPartitioned, Freed, Kept, Expired
  <2>3. \A w, u \in active' : w # u => registers'[w] # registers'[u]
    BY <1>1 DEF Kept, IInv, RegistersPartitioned
  <2> QED BY <2>1, <2>2, <2>3 DEF RegistersPartitioned
<1>12. AllSettled'
  BY <1>1, <1>3, <1>4, <1>5, StepFacts DEF IInv, AllSettled, Resident, Done, Reg
<1>13. NoSharedRegister'
  BY <1>1, <1>5, StepFacts DEF IInv, NoSharedRegister, Overlap, Resident, Reg
<1>14. SlotsDisjoint'
  <2>1. \A w \in Done : OnStack(w) => /\ StackHeader <= locations[w]
                                      /\ locations[w] + SlotSize <= stackSize
                                      /\ locations[w] \in Nat
    BY StepFacts DEF IInv, SlotsDisjoint, OnStack, TypeOK, Done
  <2>2. \A w \in Done' \ {v} : OnStack(w)' => w \in Done /\ OnStack(w) /\ locations'[w] = locations[w]
    BY <1>1, <1>3, StepFacts DEF OnStack, Done
  <2>3. \A w \in Done' : OnStack(w)' => StackHeader <= locations'[w] /\ locations'[w] + SlotSize <= stackSize'
    BY <1>1, <1>3, <1>4, <2>1, <2>2 DEF SlotSize, StackHeader, IInv
  <2>4. \A w, u \in Done' : OnStack(w)' /\ OnStack(u)' /\ w # u =>
            \/ locations'[w] + SlotSize <= locations'[u]
            \/ locations'[u] + SlotSize <= locations'[w]
    BY <1>3, <2>1, <2>2 DEF IInv, SlotsDisjoint
  <2> QED BY <2>3, <2>4 DEF SlotsDisjoint
<1> QED
  BY <1>4, <1>6, <1>7, <1>8, <1>9, <1>10, <1>11, <1>12, <1>13, <1>14 DEF IInv

(* One iteration of the allocator's loop.                                  *)
LEMMA NextPreserves == IInv /\ [Next]_vars => IInv'
<1> SUFFICES ASSUME IInv, [Next]_vars PROVE IInv'
  OBVIOUS
<1>1. ASSUME NEW v \in Var, Allocate(v) PROVE IInv'
  BY <1>1, AssignPreserves, SpillActivePreserves, SpillNewPreserves DEF Allocate
<1>2. CASE UNCHANGED vars
  BY <1>2
  DEF vars, IInv, TypeOK, Done, ActiveDone, PendingUntouched, StartsOrdered,
      LeftActiveEnded, RegistersPartitioned, AllSettled, NoSharedRegister,
      SlotsDisjoint, Overlap, Resident, OnStack
<1> QED BY <1>1, <1>2 DEF Next

(* The allocator never leaves the inductive invariant.                     *)
THEOREM SpecIInv == Spec => []IInv
  BY InitIInv, NextPreserves, PTL DEF Spec

-----------------------------------------------------------------------------
(* The allocator's maps keep their types, and every register it hands out  *)
(* is one of x8..x15 and x19..x25 (GenerateVarLocationsLinearScan).        *)
THEOREM TypeCorrect == Spec => []TypeOK
<1>1. IInv => TypeOK
  BY DEF IInv
<1> QED BY <1>1, SpecIInv, PTL

(* No two variables with overlapping live ranges share a register, for any *)
(* number of variables, ranges and allocatable registers.                  *)
THEOREM RegistersNotShared == Spec => []NoSharedRegister
<1>1. IInv => NoSharedRegister
  BY DEF IInv
<1> QED BY <1>1, SpecIInv, PTL

(* Every variable the loop has passed has a register or a slot, not both:  *)
(* extractMin is never asked for a register when none is free.             *)
THEOREM HomesUnique == Spec => []OneHome
<1>1. IInv => OneHome
  BY DEF IInv, AllSettled, OneHome, OnStack
<1> QED BY <1>1, SpecIInv, PTL

(* The spill slots of a function never overlap each other or the saved     *)
(* frame record, and fit in the frame size handed on.                      *)
THEOREM SpillSlotsDisjoint == Spec => []SlotsDisjoint
<1>1. IInv => SlotsDisjoint
  BY DEF IInv
<1> QED BY <1>1, SpecIInv, PTL

(* No register leaks and none is handed out while in use.                  *)
THEOREM NoRegisterLeak == Spec => []RegistersPartitioned
<1>1. IInv => RegistersPartitioned
  BY DEF IInv
<1> QED BY <1>1, SpecIInv, PTL

(* A stack home is final, and losing a register means moving to the slot   *)
(* at the top of the frame.                                                *)
THEOREM HomesStay == Spec => HomesAreStable
<1> DEFINE Stable ==
        \A v \in Done :
          /\ OnStack(v) => locations'[v] = locations[v]
          /\ registers'[v] # registers[v] => ~OnStack(v) /\ locations'[v] = stackSize
<1>1. ASSUME IInv, NEW v \in Var, Allocate(v) PROVE Stable
  <2>1. v \notin Done
    BY <1>1 DEF Allocate, AssignRegister, SpillActive, SpillNew, IsNext, Done
  <2>2. CASE AssignRegister(v)
    BY <2>1, <2>2 DEF AssignRegister, IInv, TypeOK, Done
  <2>3. CASE SpillNew(v)
    BY <2>1, <2>3 DEF SpillNew, IInv, TypeOK, Done
  <2>4. ASSUME NEW s \in Var, SpillActive(v, s) PROVE Stable
    <3>1. s \in Done /\ ~OnStack(s)
      BY <1>1, <2>4 DEF SpillActive, IsLast, Kept, IInv, ActiveDone,
                        RegistersPartitioned, AllSettled, Resident, OnStack
    <3> QED
      BY <1>1, <2>1, <2>4, <3>1 DEF SpillActive, IInv, TypeOK, Done, OnStack
  <2> QED BY <1>1, <2>2, <2>3, <2>4 DEF Allocate
<1>2. IInv /\ [Next]_vars => [Stable]_vars
  BY <1>1 DEF Next
<1> QED BY <1>2, SpecIInv, PTL DEF Spec, HomesAreStable

-----------------------------------------------------------------------------
(* That no spill is needless rests on two more facts: ranges do not end    *)
(* before they start, and a position crossed by too many ranges stays so.  *)
RangesForward == \A v \in Var : startpoint[v] <= endpoint[v]

(* When active is full, v and the kept variables all cross v's start.      *)
LEMMA FullAtStart ==
    ASSUME IInv, RangesForward, NEW v \in Var, IsNext(v), Cardinality(Kept(v)) = R
    PROVE  \E p \in Point : Cardinality(Pressure(p)) > R
<1> DEFINE p == startpoint[v]
<1>1. p \in Point /\ v \in Pressure(p)
  BY DEF IInv, TypeOK, Point, Pressure, RangesForward
<1>2. v \notin Kept(v)
  BY DEF IInv, ActiveDone, Kept, IsNext, Done
<1>3. Kept(v) \subseteq Pressure(p)
  <2> SUFFICES ASSUME NEW w \in Kept(v) PROVE w \in Pressure(p)
    OBVIOUS
  <2>1. w \in Var /\ w \in Done /\ ~(endpoint[w] < startpoint[v])
    BY DEF IInv, TypeOK, ActiveDone, Kept, Expired
  <2>2. startpoint[w] <= startpoint[v]
    BY <2>1 DEF IInv, StartsOrdered, IsNext
  <2> QED BY <2>1, <2>2 DEF Pressure, IInv, TypeOK, Point
<1>4. IsFiniteSet(Pressure(p)) /\ IsFiniteSet(Kept(v))
  <2>1. Pressure(p) \subseteq Var /\ Kept(v) \subseteq Var
    BY DEF Pressure, Kept, IInv, TypeOK
  <2> QED BY <2>1, VarAssumption, FS_Subset
<1>5. Cardinality(Kept(v) \cup {v}) = R + 1
  BY <1>2, <1>4, FS_AddElement
<1>6. /\ Cardinality(Kept(v) \cup {v}) <= Cardinality(Pressure(p))
      /\ Cardinality(Pressure(p)) \in Nat
  BY <1>1, <1>3, <1>4, FS_Subset, FS_CardinalityType
<1>7. R \in Int
  BY RegAssumption DEF R
<1> QED BY <1>1, <1>5, <1>6, <1>7

(* A step that does not spill adds nobody to the stack; one that does has  *)
(* found the registers full.                                               *)
LEMMA SpillsStayNeeded ==
    ASSUME IInv, RangesForward, NoNeedlessSpill, [Next]_vars
    PROVE  RangesForward' /\ NoNeedlessSpill'
<1> DEFINE Crowded == \E p \in Point : Cardinality(Pressure(p)) > R
<1>1. ASSUME UNCHANGED ranges PROVE (Crowded' <=> Crowded) /\ RangesForward'
  BY <1>1 DEF ranges, Pressure, RangesForward
<1>2. ASSUME NEW v \in Var, AssignRegister(v) PROVE RangesForward' /\ NoNeedlessSpill'
  <2>1. UNCHANGED <<ranges, locations>> /\ pending' = pending \ {v} /\ IsNext(v)
    BY <1>2 DEF AssignRegister
  <2>2. locations[v] = NoSlot /\ Done' = Done \cup {v}
    BY <2>1, StepFacts
  <2>3. (\E w \in Done' : OnStack(w)') => \E w \in Done : OnStack(w)
    BY <2>1, <2>2 DEF OnStack
  <2> QED BY <1>1, <2>1, <2>3 DEF NoNeedlessSpill
<1>3. ASSUME NEW v \in Var, IsNext(v), Cardinality(Kept(v)) = R, UNCHANGED ranges
      PROVE  RangesForward' /\ NoNeedlessSpill'
  BY <1>1, <1>3, FullAtStart DEF NoNeedlessSpill
<1>4. ASSUME NEW v \in Var, Allocate(v) PROVE RangesForward' /\ NoNeedlessSpill'
  BY <1>2, <1>3, <1>4 DEF Allocate, SpillActive, SpillNew
<1>5. ASSUME UNCHANGED vars PROVE RangesForward' /\ NoNeedlessSpill'
  BY <1>1, <1>5 DEF vars, ranges, NoNeedlessSpill, Done, OnStack
<1> QED BY <1>4, <1>5 DEF Next

(* A variable goes to the stack only if more ranges than registers cross   *)
(* some position, for any number of variables and registers.               *)
THEOREM SpillsOnlyUnderPressure == Spec => []NoNeedlessSpill
<1>1. Init => RangesForward /\ NoNeedlessSpill
  BY DEF Init, RangesForward, NoNeedlessSpill, Done
<1>2. IInv /\ RangesForward /\ NoNeedlessSpill /\ [Next]_vars
        => RangesForward' /\ NoNeedlessSpill'
  BY SpillsStayNeeded
<1> QED BY <1>1, <1>2, SpecIInv, PTL DEF Spec

-----------------------------------------------------------------------------
(* That the allocator spills as few variables as possible is an exchange   *)
(* argument: a set of variables that fits in the registers never needs one *)
(* that was sent to the stack, for a set as large does without.            *)
Serves(T, S) ==
    /\ FitsInRegisters(T) /\ Cardinality(T) >= Cardinality(S)
    /\ \A w \in T \cap Done : Resident(w)
NoneMissed ==
    \A S \in SUBSET Var : FitsInRegisters(S) => \E T \in SUBSET Var : Serves(T, S)

(* v and the kept variables cross v's start; what else crosses an earlier  *)
(* position is done.                                                       *)
Candidates(v) == Kept(v) \cup {v}

LEMMA CandidatesCross ==
    ASSUME IInv, RangesForward, NEW v \in Var, IsNext(v)
    PROVE  /\ v \notin Kept(v) /\ Candidates(v) \subseteq Var
           /\ \A w \in Candidates(v) :
                startpoint[w] <= startpoint[v] /\ startpoint[v] <= endpoint[w]
<1>1. Kept(v) \subseteq Done /\ v \notin Done
  BY DEF IInv, ActiveDone, Kept, IsNext, Done
<1>2. \A w \in Kept(v) : startpoint[w] <= startpoint[v]
  BY <1>1 DEF IInv, StartsOrdered, IsNext
<1>3. \A w \in Kept(v) : ~(endpoint[w] < startpoint[v])
  BY DEF Kept, Expired
<1>4. startpoint \in [Var -> Int] /\ endpoint \in [Var -> Int]
  BY DEF IInv, TypeOK, Point
<1>5. Candidates(v) \subseteq Var
  BY <1>1 DEF Candidates, Done
<1>6. ASSUME NEW w \in Candidates(v)
      PROVE  startpoint[w] <= startpoint[v] /\ startpoint[v] <= endpoint[w]
  BY <1>2, <1>3, <1>4, <1>5, <1>6 DEF Candidates, RangesForward
<1> QED BY <1>1, <1>5, <1>6

(* Residents that cross one position hold registers of their own, so there *)
(* are no more of them than registers.                                     *)
LEMMA ResidentsFit ==
    ASSUME IInv, NEW p \in Point, NEW W \in SUBSET (Pressure(p) \cap Done),
           \A w \in W : Resident(w)
    PROVE  IsFiniteSet(W) /\ Cardinality(W) <= R
<1> DEFINE holds == [w \in W |-> registers[w]]
<1>1. IsFiniteSet(W)
  BY VarAssumption, FS_Subset DEF Pressure
<1>2. holds \in [W -> Reg]
  BY DEF Resident
<1>3. ASSUME NEW w \in W, NEW u \in W, holds[w] = holds[u] PROVE w = u
  <2>1. Overlap(w, u)
    BY DEF Pressure, Overlap, IInv, TypeOK, Point
  <2>2. registers[w] = registers[u] /\ Resident(w) /\ w \in Done /\ u \in Done
    BY <1>3
  <2> QED BY <2>1, <2>2 DEF IInv, NoSharedRegister
<1>4. holds \in Injection(W, Reg)
  BY <1>2, <1>3 DEF Injection, IsInjective
<1> QED BY <1>1, <1>4, RegFacts, RegCount, FS_Injection

(* Putting one element in the place of another.                            *)
LEMMA Exchange ==
    ASSUME NEW T, IsFiniteSet(T), NEW a \in T, NEW b, b \notin T
    PROVE  /\ IsFiniteSet((T \ {a}) \cup {b})
           /\ Cardinality((T \ {a}) \cup {b}) = Cardinality(T)
<1>1. /\ IsFiniteSet(T \ {a})
      /\ Cardinality(T \ {a}) = Cardinality(T) - 1
  BY FS_RemoveElement
<1>2. Cardinality(T) \in Nat
  BY FS_CardinalityType
<1>3. b \notin T \ {a}
  OBVIOUS
<1>4. /\ IsFiniteSet((T \ {a}) \cup {b})
      /\ Cardinality((T \ {a}) \cup {b}) = Cardinality(T \ {a}) + 1
  BY <1>1, <1>3, FS_AddElement
<1> QED BY <1>1, <1>2, <1>4

(* If the set T has a candidate that goes to the stack, the one that ends  *)
(* last, another candidate is not in T, and may take its place.            *)
LEMMA ExchangeFits ==
    ASSUME IInv, RangesForward, NEW v \in Var, IsNext(v), Cardinality(Kept(v)) = R,
           NEW T \in SUBSET Var, FitsInRegisters(T),
           \A w \in T \cap Done : Resident(w),
           NEW s \in T \cap Candidates(v),
           \A w \in Candidates(v) : endpoint[w] <= endpoint[s]
    PROVE  \E w \in Candidates(v) \ T :
             FitsInRegisters((T \ {s}) \cup {w})
<1> DEFINE p == startpoint[v]
<1>1. p \in Point /\ IsFiniteSet(T) /\ IsFiniteSet(Candidates(v))
  BY VarAssumption, CandidatesCross, FS_Subset DEF IInv, TypeOK
<1>2. Candidates(v) \subseteq Pressure(p)
  BY CandidatesCross DEF Pressure
<1>3. Cardinality(Candidates(v)) = R + 1
  <2>1. IsFiniteSet(Kept(v))
    BY <1>1, FS_Subset DEF Candidates
  <2> QED BY <2>1, CandidatesCross, FS_AddElement DEF Candidates
<1>4. PICK w \in Candidates(v) : w \notin T
  <2> SUFFICES ASSUME Candidates(v) \subseteq T PROVE FALSE
    OBVIOUS
  <2>1. Candidates(v) \subseteq Pressure(p) \cap T
    BY <1>2
  <2>2. /\ IsFiniteSet(Pressure(p) \cap T)
    BY <1>1, FS_Subset
  <2>3. Cardinality(Candidates(v)) <= Cardinality(Pressure(p) \cap T)
    BY <2>1, <2>2, FS_Subset
  <2>4. Cardinality(Pressure(p) \cap T) <= R /\ Cardinality(Pressure(p) \cap T) \in Nat
    BY <1>1, <2>2, FS_CardinalityType DEF FitsInRegisters
  <2>5. R \in Int
    BY RegAssumption DEF R
  <2> QED BY <1>3, <2>3, <2>4, <2>5
<1> DEFINE U == (T \ {s}) \cup {w}
<1>5. startpoint \in [Var -> Int] /\ endpoint \in [Var -> Int] /\ Point \subseteq Int
  BY DEF IInv, TypeOK, Point
<1>6. s \in Var /\ w \in Var
  BY CandidatesCross
<1>7. ASSUME NEW q \in Point PROVE Cardinality(Pressure(q) \cap U) <= R
  <2>1. CASE q < startpoint[v]
    (* Only what is done starts before v, and what is not in T is kept. *)
    <3>1. ASSUME NEW u \in Pressure(q) \cap U PROVE u \in Done /\ Resident(u)
      <4>1. u \in Var /\ startpoint[u] < startpoint[v]
        BY <1>5, <2>1, <3>1 DEF Pressure
      <4>2. u \notin pending
        BY <1>5, <4>1 DEF IsNext
      <4>3. u \in Done
        BY <4>1, <4>2 DEF Done
      <4>4. CASE u \in T
        BY <4>3, <4>4
      <4>5. CASE u \notin T
        <5>1. u \in Candidates(v) /\ u # v
          BY <3>1, <4>1, <4>5, <1>5
        <5>2. u \in active
          BY <5>1 DEF Candidates, Kept
        <5> QED BY <4>3, <5>2 DEF IInv, RegistersPartitioned, Resident
      <4> QED BY <4>4, <4>5
    <3>2. Pressure(q) \cap U \in SUBSET (Pressure(q) \cap Done)
      BY <3>1
    <3> QED BY <3>1, <3>2, ResidentsFit
  <2>2. CASE q >= startpoint[v]
    <3> DEFINE A == Pressure(q) \cap T
               B == Pressure(q) \cap U
    <3>1. IsFiniteSet(A) /\ Cardinality(A) <= R
      BY <1>1, FS_Subset DEF FitsInRegisters
    <3>2. CASE w \notin Pressure(q)
      <4>1. B \subseteq A
        BY <3>2
      <4>2. Cardinality(B) <= Cardinality(A) /\ IsFiniteSet(B)
        BY <3>1, <4>1, FS_Subset
      <4>3. Cardinality(B) \in Nat /\ Cardinality(A) \in Nat /\ R \in Int
        BY <3>1, <4>2, FS_CardinalityType, RegAssumption DEF R
      <4> QED BY <3>1, <4>2, <4>3
    <3>3. CASE w \in Pressure(q)
      <4>1. /\ startpoint[s] <= startpoint[v]
            /\ q <= endpoint[w] /\ endpoint[w] <= endpoint[s]
        BY <3>3, CandidatesCross DEF Pressure
      <4>2. s \in A
        BY <1>5, <1>6, <2>2, <4>1 DEF Pressure
      <4>3. B = (A \ {s}) \cup {w} /\ w \notin A
        BY <1>4, <3>3
      <4> HIDE DEF A, B
      <4>4. Cardinality(B) = Cardinality(A)
        BY <3>1, <4>2, <4>3, Exchange
      <4>5. Cardinality(B) <= R
        BY <3>1, <4>4
      <4> QED BY <4>5 DEF B
    <3> QED BY <3>2, <3>3
  <2> QED BY <1>5, <2>1, <2>2
<1> QED BY <1>4, <1>7 DEF FitsInRegisters

(* The two ways of spilling send to the stack a candidate that ends last.  *)
LEMMA SpillKeepsServing ==
    ASSUME IInv, RangesForward, NoneMissed, NEW v \in Var, IsNext(v),
           Cardinality(Kept(v)) = R, UNCHANGED ranges,
           NEW s \in Candidates(v), \A w \in Candidates(v) : endpoint[w] <= endpoint[s],
           Done' = Done \cup {v},
           \A w \in Done' \ {s} : (w \in Done /\ Resident(w)) \/ w = v => Resident(w)'
    PROVE  NoneMissed'
<1>1. \A S : FitsInRegisters(S)' <=> FitsInRegisters(S)
  BY DEF ranges, FitsInRegisters, Pressure
<1>2. SUFFICES ASSUME NEW S \in SUBSET Var, FitsInRegisters(S)
               PROVE  \E T \in SUBSET Var : Serves(T, S)'
  BY <1>1 DEF NoneMissed
<1>3. PICK T \in SUBSET Var : Serves(T, S)
  BY <1>2 DEF NoneMissed
<1>4. CASE s \notin T
  <2>1. Serves(T, S)'
    BY <1>1, <1>3, <1>4 DEF Serves
  <2> QED BY <2>1
<1>5. CASE s \in T
  <2>1. PICK w \in Candidates(v) \ T : FitsInRegisters((T \ {s}) \cup {w})
    BY <1>3, <1>5, ExchangeFits DEF Serves
  <2> DEFINE U == (T \ {s}) \cup {w}
  <2>2. Cardinality(U) = Cardinality(T)
    BY <1>5, <2>1, VarAssumption, FS_Subset, Exchange
  <2>3. U \in SUBSET Var /\ s \notin U
    BY <1>5, <2>1, CandidatesCross
  <2>4. ASSUME NEW u \in U, u \in Done' PROVE Resident(u)'
    <3>1. (u \in Done /\ Resident(u)) \/ u = v
      <4>1. CASE u \in T
        BY <1>3, <2>4, <4>1 DEF Serves
      <4>2. CASE u = w
        <5>1. w = v \/ w \in active
          BY <2>1 DEF Candidates, Kept
        <5> QED BY <4>2, <5>1 DEF IInv, ActiveDone, RegistersPartitioned, Resident
      <4> QED BY <2>4, <4>1, <4>2
    <3> QED BY <2>3, <2>4, <3>1
  <2>5. Serves(U, S)'
    BY <1>1, <1>3, <2>1, <2>2, <2>4 DEF Serves
  <2> QED BY <2>3, <2>5
<1> QED BY <1>4, <1>5

LEMMA NoneMissedStep ==
    ASSUME IInv, RangesForward, NoneMissed, [Next]_vars
    PROVE  NoneMissed'
<1>1. ASSUME UNCHANGED ranges PROVE \A S : FitsInRegisters(S)' <=> FitsInRegisters(S)
  BY <1>1 DEF ranges, FitsInRegisters, Pressure
<1>2. ASSUME NEW v \in Var, AssignRegister(v) PROVE NoneMissed'
  <2>1. IsNext(v) /\ pending' = pending \ {v} /\ UNCHANGED ranges
    BY <1>2 DEF AssignRegister
  <2>2. Done' = Done \cup {v}
    BY <2>1, StepFacts
  <2>3. Resident(v)'
    <3>1. ExtractMin(Freed(v)) \in Reg
      <4>1. Freed(v) \subseteq Reg
        BY <2>1, StepFacts DEF IInv, TypeOK, Freed, Expired
      <4> QED BY <1>2, <4>1, FreedNotEmpty, ExtractMinFree DEF IInv, AssignRegister
    <3> QED BY <1>2, <3>1 DEF AssignRegister, IInv, TypeOK, Resident
  <2>4. \A w \in Done : Resident(w) => Resident(w)'
    BY <1>2, <2>3 DEF AssignRegister, IInv, TypeOK, Resident
  <2>5. ASSUME NEW T, NEW S, Serves(T, S) PROVE Serves(T, S)'
    BY <1>1, <2>1, <2>2, <2>3, <2>4, <2>5 DEF Serves
  <2> QED BY <1>1, <2>1, <2>5 DEF NoneMissed
<1>3. ASSUME NEW v \in Var, NEW s \in Var, SpillActive(v, s) PROVE NoneMissed'
  <2>1. /\ IsNext(v) /\ pending' = pending \ {v} /\ UNCHANGED ranges
        /\ Cardinality(Kept(v)) = R /\ IsLast(s, v) /\ endpoint[s] > endpoint[v]
        /\ registers' = [registers EXCEPT ![v] = registers[s], ![s] = Spilled]
    BY <1>3 DEF SpillActive
  <2>2. Done' = Done \cup {v}
    BY <2>1, StepFacts
  <2>3. s \in Kept(v) /\ s \in Candidates(v) /\ s # v
    BY <2>1, CandidatesCross DEF IsLast, Candidates
  <2>4. \A w \in Candidates(v) : endpoint[w] <= endpoint[s]
    BY <2>1, <2>3 DEF IsLast, Candidates, IInv, TypeOK, Point
  <2>5. Resident(s)
    BY <2>3 DEF Kept, IInv, RegistersPartitioned, Resident
  <2>6. \A w \in Done' \ {s} : (w \in Done /\ Resident(w)) \/ w = v => Resident(w)'
    BY <2>1, <2>2, <2>3, <2>5 DEF IInv, TypeOK, Resident, Done
  <2> QED BY <2>1, <2>2, <2>3, <2>4, <2>6, SpillKeepsServing
<1>4. ASSUME NEW v \in Var, SpillNew(v) PROVE NoneMissed'
  <2>1. /\ IsNext(v) /\ pending' = pending \ {v} /\ UNCHANGED <<ranges, registers>>
        /\ Cardinality(Kept(v)) = R
    BY <1>4 DEF SpillNew
  <2>2. PICK s \in Kept(v) : IsLast(s, v) /\ endpoint[s] <= endpoint[v]
    BY <1>4 DEF SpillNew
  <2>3. Done' = Done \cup {v}
    BY <2>1, StepFacts
  <2>4. v \in Candidates(v) /\ \A w \in Candidates(v) : endpoint[w] <= endpoint[v]
    <3>1. endpoint \in [Var -> Int] /\ Candidates(v) \subseteq Var
      BY <2>1, CandidatesCross DEF IInv, TypeOK, Point
    <3>2. \A w \in Kept(v) : endpoint[w] <= endpoint[s]
      BY <2>2 DEF IsLast
    <3> QED BY <2>2, <3>1, <3>2 DEF Candidates
  <2>5. \A w \in Done' \ {v} : (w \in Done /\ Resident(w)) \/ w = v => Resident(w)'
    BY <2>1, <2>3 DEF Resident
  <2> QED BY <2>1, <2>3, <2>4, <2>5, SpillKeepsServing
<1>5. ASSUME UNCHANGED vars PROVE NoneMissed'
  <2>1. ASSUME NEW T, NEW S, Serves(T, S) PROVE Serves(T, S)'
    BY <1>1, <1>5, <2>1 DEF vars, ranges, Serves, Done, Resident
  <2> QED BY <1>1, <1>5, <2>1 DEF vars, ranges, NoneMissed
<1> QED BY <1>2, <1>3, <1>4, <1>5 DEF Next, Allocate

(* Spilling the range that ends last is optimal: no set of variables that  *)
(* fits in the registers is larger than the set that gets one, whatever    *)
(* the live ranges, for any number of variables and registers              *)
(* (SpillAtInterval).                                                      *)
THEOREM SpillsAreFewest == Spec => []FewestSpills
<1>1. Init => RangesForward /\ NoneMissed
  <2> SUFFICES ASSUME Init PROVE RangesForward /\ NoneMissed
    OBVIOUS
  <2>1. RangesForward /\ Done = {}
    BY DEF Init, RangesForward, Done
  <2>2. ASSUME NEW S \in SUBSET Var, FitsInRegisters(S) PROVE Serves(S, S)
    <3>1. Cardinality(S) \in Nat
      BY VarAssumption, FS_Subset, FS_CardinalityType
    <3> QED BY <2>1, <2>2, <3>1 DEF Serves
  <2> QED BY <2>1, <2>2 DEF NoneMissed
<1>2. IInv /\ RangesForward /\ NoneMissed /\ [Next]_vars
        => RangesForward' /\ NoneMissed'
  <2>1. RangesForward /\ [Next]_vars => RangesForward'
    BY DEF RangesForward, Next, Allocate, AssignRegister, SpillActive, SpillNew,
           vars, ranges
  <2> QED BY <2>1, NoneMissedStep
<1>3. NoneMissed => FewestSpills
  <2> SUFFICES ASSUME NoneMissed, pending = {},
                      NEW S \in SUBSET Var, FitsInRegisters(S)
               PROVE  Cardinality(S) <= Cardinality({v \in Var : Resident(v)})
    BY DEF FewestSpills
  <2> DEFINE K == {v \in Var : Resident(v)}
  <2>1. PICK T \in SUBSET Var : Serves(T, S)
    BY DEF NoneMissed
  <2>2. T \subseteq K
    BY <2>1 DEF Serves, Done
  <2>3. IsFiniteSet(K) /\ IsFiniteSet(S) /\ IsFiniteSet(T)
    BY VarAssumption, FS_Subset
  <2>4. Cardinality(T) <= Cardinality(K)
    BY <2>2, <2>3, FS_Subset
  <2>5. /\ Cardinality(T) \in Nat /\ Cardinality(S) \in Nat /\ Cardinality(K) \in Nat
    BY <2>3, FS_CardinalityType
  <2> HIDE DEF K
  <2>6. Cardinality(T) >= Cardinality(S)
    BY <2>1 DEF Serves
  <2>7. Cardinality(S) <= Cardinality(K)
    BY <2>4, <2>5, <2>6
  <2> QED BY <2>7 DEF K
<1> QED BY <1>1, <1>2, <1>3, SpecIInv, PTL DEF Spec
=============================================================================
