---------------------------- MODULE ArmCallProofs ---------------------------
(***************************************************************************)
(* For any number of spills, parameters and arguments: the frame layout    *)
(* has no overlaps and is aligned, sp is balanced round every call, the    *)
(* registers and slots of the variables survive it, and arguments and      *)
(* result arrive.                                                          *)
(***************************************************************************)
EXTENDS ArmCall, TLAPS

-----------------------------------------------------------------------------
(* Layout.                                                                 *)

LEMMA RoundUp16 ==
    ASSUME NEW n \in Nat
    PROVE  (n + (16 - (n % 16))) % 16 = 0 /\ n + (16 - (n % 16)) > n
  OBVIOUS

LEMMA ExtraType ==
    ASSUME NEW n \in Nat
    PROVE  Extra(n) \in Nat
  BY DEF Extra

(* The size the prologue subtracts from sp is a multiple of 16, whatever   *)
(* the function spills and however many parameters it has                  *)
(* (armFunction.go:84-85).                                                 *)
THEOREM FrameAligned ==
    ASSUME NEW spills \in Nat, NEW params \in Nat
    PROVE  FrameSize(spills, params) % 16 = 0
  <1> DEFINE used == ScanSize(spills) + 26 * 8 + 8 * Extra(params)
  <1>1. used \in Nat
    BY ExtraType DEF ScanSize
  <1> HIDE DEF used
  <1>2. (used + (16 - (used % 16))) % 16 = 0
    BY <1>1, RoundUp16
  <1> QED
    BY <1>2 DEF FrameSize, used

(* Frame record, spill slots, save area and stack parameters follow each   *)
(* other without overlap and end inside the frame: no save of a register   *)
(* can hit a spilled variable, and no two registers are saved in one place *)
(* (armFunction.go:67-82).                                                 *)
THEOREM LayoutDisjoint ==
    ASSUME NEW spills \in Nat, NEW params \in Nat
    PROVE  /\ \A j \in 0..(spills - 1) :
                 SpillSlot(j) >= 16 /\ SpillSlot(j) + 8 <= ScanSize(spills)
           /\ \A r, s \in Saved :
                 /\ SavedAddress(spills, r) >= ScanSize(spills)
                 /\ SavedAddress(spills, r) + 8 <= ParamSlot(spills, 8)
                 /\ SavedAddress(spills, r) = SavedAddress(spills, s) => r = s
           /\ \A i \in 8..(params - 1) :
                 /\ ParamSlot(spills, i) >= ParamSlot(spills, 8)
                 /\ ParamSlot(spills, i) + 8 <= FrameSize(spills, params)
  <1>1. \A j \in 0..(spills - 1) :
           SpillSlot(j) >= 16 /\ SpillSlot(j) + 8 <= ScanSize(spills)
    BY DEF SpillSlot, ScanSize
  <1>2. \A r, s \in Saved :
           /\ SavedAddress(spills, r) >= ScanSize(spills)
           /\ SavedAddress(spills, r) + 8 <= ParamSlot(spills, 8)
           /\ SavedAddress(spills, r) = SavedAddress(spills, s) => r = s
    BY DEF Saved, SavedAddress, ParamSlot, ScanSize
  <1>3. ASSUME NEW i \in 8..(params - 1)
        PROVE  /\ ParamSlot(spills, i) >= ParamSlot(spills, 8)
               /\ ParamSlot(spills, i) + 8 <= FrameSize(spills, params)
    <2> DEFINE used == ScanSize(spills) + 26 * 8 + 8 * Extra(params)
    <2>1. used \in Nat /\ ParamSlot(spills, i) + 8 <= used
      BY <1>3, ExtraType DEF ScanSize, ParamSlot, Extra
    <2>2. used < used + (16 - (used % 16)) /\ used + (16 - (used % 16)) \in Int
      <3> HIDE DEF used
      <3> QED
        BY <2>1, RoundUp16
    <2>3. FrameSize(spills, params) = used + (16 - (used % 16))
      BY DEF FrameSize
    <2>4. ParamSlot(spills, i) \in Int /\ ParamSlot(spills, i) >= ParamSlot(spills, 8)
      BY DEF ParamSlot, ScanSize
    <2> HIDE DEF used
    <2> QED
      BY <2>1, <2>2, <2>3, <2>4
  <1> QED
    BY <1>1, <1>2, <1>3

-----------------------------------------------------------------------------
(* The stack pointer.                                                      *)

Kinds == {"Call", "CallAssign", "Printf", "Scanf", "Malloc", "Free"}

(* Where sp stands before each phase.                                      *)
Shift ==
    CASE site.kind \in Compiled /\ pc \in 4..6 -> 0 - StackOffset(site.args)
      [] site.kind = "Scanf" /\ site.dest # OnStack /\ pc \in 2..5 -> 0 - 16
      [] OTHER -> 0

SiteOK ==
    /\ site.kind \in Kinds
    /\ site.spills \in Nat /\ site.params \in Nat /\ site.args \in Nat
    /\ site.kind \in {"Call", "Printf", "Free"} => site.dest = 8

IInv == SiteOK /\ pc \in Nat /\ pc > 0 /\ sp = Shift

LEMMA OffsetAligned ==
    ASSUME NEW n \in Nat
    PROVE  StackOffset(n) \in Nat /\ StackOffset(n) % 16 = 0
  <1>1. Extra(n) \in Nat
    BY ExtraType
  <1> QED
    BY <1>1 DEF StackOffset

(* Which phase comes when.                                                 *)
LEMMA PhaseOrder ==
    ASSUME site.kind \in Kinds, pc \in Nat, pc > 0
    PROVE  /\ At("save") => pc \in 1..2 /\ (site.kind = "Scanf" => pc = 2)
           /\ At("pass") => pc \in 1..2 /\ (site.kind = "Scanf" => pc = 1)
           /\ At("lower") => site.kind \in Compiled /\ pc = 3
           /\ At("extra") => site.kind \in Compiled /\ pc = 4
           /\ At("call") => /\ site.kind \in Compiled => pc = 5
                            /\ site.kind = "Scanf" => pc = 3
           /\ At("raise") => site.kind \in Compiled /\ pc = 6
           /\ At("take") => site.kind = "CallAssign" /\ pc = 7
           /\ At("restore") => /\ site.kind \in Compiled => pc > 6
                               /\ site.kind = "Scanf" => pc = 4
           /\ At("put") => /\ site.kind \in Compiled => pc > 6
                           /\ site.kind = "Scanf" => pc = 5
           /\ Done => /\ site.kind \in Compiled => pc > 6
                      /\ site.kind = "Scanf" => pc > 5
  <1> USE DEF At, Done, Phases, Compiled, Kinds
  <1>1. CASE site.kind = "Call"
    BY <1>1
  <1>2. CASE site.kind = "CallAssign"
    BY <1>2
  <1>3. CASE site.kind = "Printf"
    BY <1>3
  <1>4. CASE site.kind = "Scanf"
    BY <1>4
  <1>5. CASE site.kind = "Malloc"
    BY <1>5
  <1>6. CASE site.kind = "Free"
    BY <1>6
  <1> QED
    BY <1>1, <1>2, <1>3, <1>4, <1>5, <1>6

LEMMA SitesOK ==
    ASSUME site \in Sites
    PROVE  SiteOK
  BY CountAssumption DEF Sites, SiteOK, Kinds, Phases, Compiled

LEMMA InitIInv ==
    ASSUME Init
    PROVE  IInv
  BY SitesOK DEF Init, IInv, Shift

LEMMA NextIInv ==
    ASSUME IInv, [Next]_vars
    PROVE  IInv'
  <1> USE DEF IInv, Advance
  <1>1. CASE Save
    BY <1>1, PhaseOrder DEF Save, Shift, SiteOK, Kinds, Compiled
  <1>2. CASE Restore
    BY <1>2, PhaseOrder DEF Restore, Shift, SiteOK, Kinds, Compiled
  <1>3. CASE PassArguments
    BY <1>3, PhaseOrder DEF PassArguments, Shift, SiteOK, Kinds, Compiled
  <1>4. CASE PassFlags
    BY <1>4, PhaseOrder DEF PassFlags, Shift, SiteOK, Kinds, Compiled
  <1>5. CASE PassAddress
    BY <1>5, PhaseOrder DEF PassAddress, Shift, SiteOK, Kinds, Compiled
  <1>6. CASE PassToRuntime
    BY <1>6, PhaseOrder DEF PassToRuntime, Shift, SiteOK, Kinds, Compiled
  <1>7. CASE LowerSp
    BY <1>7, PhaseOrder, OffsetAligned DEF LowerSp, Shift, SiteOK, Kinds, Compiled
  <1>8. CASE RaiseSp
    BY <1>8, PhaseOrder, OffsetAligned DEF RaiseSp, Shift, SiteOK, Kinds, Compiled
  <1>9. CASE StoreExtra
    BY <1>9 DEF StoreExtra, Shift, SiteOK
  <1>10. CASE ExtraStored
    BY <1>10, PhaseOrder DEF ExtraStored, Shift, SiteOK, Kinds, Compiled
  <1>11. CASE CallFunction
    BY <1>11, PhaseOrder DEF CallFunction, Shift, SiteOK, Kinds, Compiled
  <1>12. CASE CallRuntime
    BY <1>12, PhaseOrder DEF CallRuntime, Shift, SiteOK, Kinds, Compiled
  <1>13. CASE TakeResult
    BY <1>13, PhaseOrder DEF TakeResult, Shift, SiteOK, Kinds, Compiled
  <1>14. CASE PutResult
    BY <1>14, PhaseOrder DEF PutResult, Shift, SiteOK, Kinds, Compiled
  <1>15. CASE PutInput
    BY <1>15, PhaseOrder DEF PutInput, Shift, SiteOK, Kinds, Compiled
  <1>16. CASE PutAllocated
    BY <1>16, PhaseOrder DEF PutAllocated, Shift, SiteOK, Kinds, Compiled
  <1>17. CASE UNCHANGED vars
    BY <1>17 DEF vars, Shift, SiteOK
  <1> QED
    BY <1>1, <1>2, <1>3, <1>4, <1>5, <1>6, <1>7, <1>8, <1>9, <1>10, <1>11,
       <1>12, <1>13, <1>14, <1>15, <1>16, <1>17 DEF Next

LEMMA IInvBalanced ==
    ASSUME IInv
    PROVE  StackBalanced
  <1>1. ASSUME At("call")
        PROVE  sp % 16 = 0 /\ FrameSize(site.spills, site.params) % 16 = 0
    <2>1. StackOffset(site.args) \in Nat /\ StackOffset(site.args) % 16 = 0
      BY OffsetAligned DEF IInv, SiteOK
    <2>2. sp % 16 = 0
      BY <2>1 DEF IInv, Shift
    <2> QED
      BY <2>2, FrameAligned DEF IInv, SiteOK
  <1>2. ASSUME Done
        PROVE  sp = 0
    BY <1>2, PhaseOrder DEF IInv, SiteOK, Shift
  <1> QED
    BY <1>1, <1>2 DEF StackBalanced

(* However many arguments a call has, sp is 16-byte aligned when somebody  *)
(* else runs and is back where it was when the call is over: the two       *)
(* adjustments of Call and CallAssign (instructions.go:974-979, 1010) and  *)
(* of Scanf into a register cancel out.                                    *)
THEOREM StackAlwaysBalanced == Spec => []StackBalanced
  <1>1. Init => IInv
    BY InitIInv
  <1>2. IInv /\ [Next]_vars => IInv'
    BY NextIInv
  <1>3. IInv => StackBalanced
    BY IInvBalanced
  <1> QED
    BY <1>1, <1>2, <1>3, PTL DEF Spec

-----------------------------------------------------------------------------
(* What the caller keeps.                                                  *)

Saving == {"Call", "CallAssign", "Printf", "Scanf"}
(* The phase that saves the registers, and the one that restores them.     *)
SavePc == IF site.kind \in Compiled THEN 1 ELSE 2
RestorePc == IF site.kind = "Call" THEN 7 ELSE IF site.kind = "CallAssign" THEN 8 ELSE 4
(* sp when they are saved and restored.                                    *)
Base == IF site.kind = "Scanf" /\ site.dest # OnStack THEN 0 - 16 ELSE 0
SavedAt(r) == Base + SavedAddress(site.spills, r)
Input == IF site.dest = OnStack THEN 16 ELSE 0 - 16

LEMMA SavingPhases ==
    ASSUME site.kind \in Saving, pc \in Nat, pc > 0
    PROVE  /\ At("save") => pc = SavePc
           /\ At("restore") => pc = RestorePc
           /\ At("pass") => pc = IF site.kind \in Compiled THEN 2 ELSE 1
           /\ At("lower") => site.kind \in Compiled /\ pc = 3
           /\ At("extra") => site.kind \in Compiled /\ pc = 4
           /\ At("call") => pc = IF site.kind \in Compiled THEN 5 ELSE 3
           /\ At("raise") => site.kind \in Compiled /\ pc = 6
           /\ At("take") => site.kind = "CallAssign" /\ pc = 7
           /\ At("put") => site.kind \in {"CallAssign", "Scanf"} /\ pc = RestorePc + 1
           /\ Done => pc > RestorePc
  <1> USE DEF At, Done, Phases, Compiled, Saving, SavePc, RestorePc
  <1>1. CASE site.kind = "Call"
    BY <1>1
  <1>2. CASE site.kind = "CallAssign"
    BY <1>2
  <1>3. CASE site.kind = "Printf"
    BY <1>3
  <1>4. CASE site.kind = "Scanf"
    BY <1>4
  <1> QED
    BY <1>1, <1>2, <1>3, <1>4

(* The frame ends at least one word behind the save area.                  *)
LEMMA FrameEnd ==
    ASSUME NEW spills \in Nat, NEW params \in Nat
    PROVE  /\ FrameSize(spills, params) \in Int
           /\ FrameSize(spills, params) >= ScanSize(spills) + 26 * 8 + 8 * Extra(params) + 8
  <1> DEFINE words == 2 + spills + 26 + Extra(params)
             used == ScanSize(spills) + 26 * 8 + 8 * Extra(params)
  <1>1. words \in Nat /\ used = 8 * words
    BY ExtraType DEF ScanSize
  <1> HIDE DEF words, used
  <1>2. (8 * words) % 16 \in {0, 8}
    BY <1>1
  <1>3. FrameSize(spills, params) = used + (16 - (used % 16))
    BY DEF FrameSize, used
  <1>4. FrameSize(spills, params) >= used + 8 /\ FrameSize(spills, params) \in Int
    BY <1>1, <1>2, <1>3
  <1> QED
    BY <1>4 DEF used

LEMMA SaveAreaInMemory ==
    ASSUME site \in Sites, NEW r \in Saved
    PROVE  /\ SavedAt(r) \in Address /\ SavedAt(r) >= 0
           /\ site.dest = OnStack => SavedAt(r) # Input
           /\ \A q \in Saved : SavedAt(q) = SavedAt(r) => q = r
  <1>1. /\ site.spills \in SpillCounts /\ site.params \in ParamCounts
        /\ site.spills \in Nat /\ site.params \in Nat
        /\ site.dest = OnStack => site.spills > 0
        /\ site.dest \in {8, 25, OnStack}
    BY CountAssumption DEF Sites
  <1> DEFINE i == 2 + site.spills + (IF r <= 15 THEN r ELSE r - 3)
             shift == IF Base = 0 THEN 0 ELSE 2
  <1>2. r \in Int /\ i \in Nat /\ i >= 2 + site.spills /\ i <= 2 + site.spills + 25
    BY <1>1 DEF Saved
  <1>3. SavedAt(r) = 8 * (i - shift) /\ shift \in {0, 2}
    BY <1>1, <1>2 DEF SavedAt, SavedAddress, ScanSize, Base
  <1>4. 8 * (i + 1) <= 8 * Words /\ Words \in Nat
    <2>1. Extra(site.params) \in Nat /\ ScanSize(site.spills) = 16 + 8 * site.spills
      BY <1>1, ExtraType DEF ScanSize
    <2>2. FrameSize(site.spills, site.params) <= 8 * Words /\ Words \in Nat
      BY <1>1, MemoryAssumption
    <2>3. /\ FrameSize(site.spills, site.params) \in Int
          /\ FrameSize(site.spills, site.params)
                >= ScanSize(site.spills) + 26 * 8 + 8 * Extra(site.params) + 8
      BY <1>1, FrameEnd
    <2> HIDE DEF i
    <2> QED
      BY <1>1, <1>2, <2>1, <2>2, <2>3
  <1>5. i - shift \in -Words..Words
    BY <1>1, <1>2, <1>3, <1>4
  <1>6. SavedAt(r) \in Address
    BY <1>3, <1>5 DEF Address
  <1>7. SavedAt(r) >= 0 /\ (site.dest = OnStack => SavedAt(r) # Input)
    BY <1>1, <1>2, <1>3 DEF Input, Base
  <1>8. ASSUME NEW q \in Saved, SavedAt(q) = SavedAt(r) PROVE q = r
    <2> DEFINE a == SavedAddress(site.spills, q)
               b == SavedAddress(site.spills, r)
    <2>1. Base \in Int /\ a \in Int /\ b \in Int
      BY <1>1 DEF Base, SavedAddress, ScanSize, Saved
    <2>2. Base + a = Base + b
      BY <1>8 DEF SavedAt
    <2> HIDE DEF a, b
    <2>3. a = b
      BY <2>1, <2>2
    <2> QED
      BY <1>1, <2>3, LayoutDisjoint DEF a, b
  <1> QED
    BY <1>6, <1>7, <1>8

(* An argument stored by a call with at most ten of them misses the places *)
(* of all registers that variables live in.                                *)
LEMMA ExtraMissesHomes ==
    ASSUME IInv, site.kind \in Compiled, site.args <= 10, pc = 4,
           stored \in Nat, stored < Extra(site.args), NEW r \in Homes
    PROVE  ExtraAddress(stored) # SavedAt(r)
  <1>1. site.spills \in Nat /\ site.params \in Nat /\ site.args \in Nat
    BY DEF IInv, SiteOK
  <1>2. Extra(site.args) \in {1, 2} /\ stored \in Nat
    BY <1>1 DEF Extra
  <1>3. StackOffset(site.args) = 16
    BY <1>2 DEF StackOffset
  <1>4. sp = 0 - 16
    BY <1>3 DEF IInv, Shift
  <1>5. /\ ExtraAddress(stored) \in Int
        /\ ExtraAddress(stored) >= ScanSize(site.spills) + 23 * 8
    <2>1. Extra(site.params) \in Nat /\ ScanSize(site.spills) \in Nat
      BY <1>1, ExtraType DEF ScanSize
    <2>2. /\ FrameSize(site.spills, site.params) \in Int
          /\ FrameSize(site.spills, site.params)
                >= ScanSize(site.spills) + 26 * 8 + 8 * Extra(site.params) + 8
      BY <1>1, FrameEnd
    <2> QED
      BY <1>2, <1>4, <2>1, <2>2 DEF ExtraAddress
  <1>6. SavedAt(r) \in Int /\ SavedAt(r) <= ScanSize(site.spills) + 8 * 22
    BY <1>1 DEF SavedAt, SavedAddress, Base, Homes, Compiled, ScanSize
  <1> QED
    BY <1>1, <1>5, <1>6 DEF ScanSize

(* From the saving to the restoring the registers of the variables are in  *)
(* the save area, before and after it in themselves.                       *)
InHomes(except) == \A r \in Homes \ except : reg[r] = <<"reg", r>>
InSaveArea == \A r \in Homes : mem[SavedAt(r)] = <<"reg", r>>
KeptInv ==
    /\ IInv /\ site \in Sites
    /\ DOMAIN reg = Registers /\ DOMAIN mem = Address
    /\ stored \in Nat
    /\ site.kind = "Scanf" /\ pc \in 2..3 => reg[1] = <<"addr", Input>>
    /\ Ordinary =>
          /\ pc <= SavePc => InHomes({})
          /\ pc > SavePc /\ pc <= RestorePc => InSaveArea
          /\ pc > RestorePc => InHomes(Results)

LEMMA KeptInit == Init => KeptInv
  <1> SUFFICES ASSUME Init PROVE KeptInv
    OBVIOUS
  <1>1. IInv /\ site \in Sites /\ pc = 1 /\ stored = 0
    BY InitIInv DEF Init
  <1>2. DOMAIN reg = Registers /\ DOMAIN mem = Address
    BY DEF Init
  <1>3. InHomes({})
    <2> SUFFICES ASSUME NEW r \in Homes PROVE reg[r] = <<"reg", r>>
      BY DEF InHomes
    <2>1. r \in Registers
      BY DEF Homes, Registers
    <2> QED
      BY <2>1 DEF Init
  <1> QED
    BY <1>1, <1>2, <1>3 DEF KeptInv, SavePc, RestorePc

LEMMA KeptNext == KeptInv /\ [Next]_vars => KeptInv'
  <1> SUFFICES ASSUME KeptInv, [Next]_vars PROVE KeptInv'
    OBVIOUS
  <1>1. IInv /\ IInv' /\ pc \in Nat /\ pc > 0
    BY NextIInv DEF KeptInv, IInv
  <1>2. /\ site \in Sites /\ site.spills \in Nat /\ site.params \in Nat /\ site.args \in Nat
        /\ site.kind \in Kinds
    BY <1>1 DEF KeptInv, IInv, SiteOK
  <1>3. Homes \subseteq Saved /\ Homes \subseteq Registers
    BY DEF Homes, Saved, Registers
  <1>4. \A r \in Homes : SavedAt(r) \in Address /\ SavedAt(r) >= 0
    BY <1>2, <1>3, SaveAreaInMemory
  <1>5. /\ DOMAIN reg = Registers /\ DOMAIN mem = Address /\ stored \in Nat
        /\ site.kind = "Scanf" /\ pc \in 2..3 => reg[1] = <<"addr", Input>>
    BY DEF KeptInv
  <1>6. /\ Ordinary /\ pc <= SavePc => InHomes({})
        /\ Ordinary /\ pc > SavePc /\ pc <= RestorePc => InSaveArea
        /\ Ordinary /\ pc > RestorePc => InHomes(Results)
    BY Zenon DEF KeptInv
  <1>7. Ordinary => site.kind \in Saving
    BY <1>2 DEF Ordinary, Compiled, Saving, Kinds
  <1>8. /\ SavePc \in 1..2 /\ RestorePc \in {4, 7, 8} /\ SavePc < RestorePc
    BY DEF SavePc, RestorePc
  (* What is to be shown of an action.                                     *)
  <1>9. ASSUME site' = site,
               DOMAIN reg' = Registers, DOMAIN mem' = Address, stored' \in Nat,
               site.kind = "Scanf" /\ pc' \in 2..3 => reg'[1] = <<"addr", Input>>,
               Ordinary /\ pc' <= SavePc => \A r \in Homes : reg'[r] = <<"reg", r>>,
               Ordinary /\ pc' > SavePc /\ pc' <= RestorePc =>
                  \A r \in Homes : mem'[SavedAt(r)] = <<"reg", r>>,
               Ordinary /\ pc' > RestorePc =>
                  \A r \in Homes \ Results : reg'[r] = <<"reg", r>>
        PROVE  KeptInv'
    <2>1. /\ SavePc' = SavePc /\ RestorePc' = RestorePc /\ Ordinary' = Ordinary
          /\ Input' = Input /\ Results' = Results
          /\ \A r \in Homes : SavedAt(r)' = SavedAt(r)
      BY <1>9 DEF SavePc, RestorePc, Ordinary, Input, Results, SavedAt, Base
    <2>2. Ordinary' /\ pc' <= SavePc' => InHomes({})'
      BY <1>9, <2>1 DEF InHomes
    <2>3. Ordinary' /\ pc' > SavePc' /\ pc' <= RestorePc' => InSaveArea'
      BY <1>9, <2>1 DEF InSaveArea
    <2>4. Ordinary' /\ pc' > RestorePc' => InHomes(Results)'
      BY <1>9, <2>1 DEF InHomes
    <2>5. IInv' /\ site' \in Sites
      BY <1>1, <1>2, <1>9
    <2>6. site'.kind = "Scanf" /\ pc' \in 2..3 => reg'[1] = <<"addr", Input'>>
      BY <1>9, <2>1
    <2> QED
      BY <1>9, <2>2, <2>3, <2>4, <2>5, <2>6, Zenon DEF KeptInv
  (* An action between the two phases that leaves the save area alone.     *)
  <1>10. ASSUME site' = site, pc' \in {pc, pc + 1},
                DOMAIN reg' = Registers, DOMAIN mem' = Address, stored' \in Nat,
                site.kind = "Scanf" /\ pc' \in 2..3 => reg'[1] = <<"addr", Input>>,
                Ordinary => /\ pc > SavePc /\ pc' <= RestorePc
                            /\ \A r \in Homes : mem'[SavedAt(r)] = mem[SavedAt(r)]
         PROVE  KeptInv'
    <2>1. Ordinary => InSaveArea /\ pc' > SavePc /\ ~(pc' <= SavePc) /\ ~(pc' > RestorePc)
      BY <1>1, <1>6, <1>8, <1>10
    <2>2. Ordinary => \A r \in Homes : mem'[SavedAt(r)] = <<"reg", r>>
      BY <1>10, <2>1 DEF InSaveArea
    <2> QED
      BY <1>9, <1>10, <2>1, <2>2
  <1>11. CASE Save
    <2>1. /\ site' = site /\ pc' = pc + 1 /\ reg' = reg /\ stored' = stored
          /\ At("save") /\ DOMAIN mem' = Address
      BY <1>11 DEF Save, Advance
    <2>2. Ordinary => pc = SavePc /\ InHomes({}) /\ pc' > SavePc /\ pc' <= RestorePc
      BY <1>1, <1>6, <1>7, <1>8, <2>1, SavingPhases
    <2>3. site.kind = "Scanf" /\ pc' \in 2..3 => pc \in 2..3
      BY <1>1, <2>1, SavingPhases DEF SavePc, Saving, Compiled
    <2>4. Ordinary => sp = Base
      BY <1>1, <1>7, <2>2 DEF IInv, Shift, Base, SavePc, Saving, Compiled
    <2>5. ASSUME Ordinary, NEW r \in Homes PROVE mem'[SavedAt(r)] = <<"reg", r>>
      <3>1. r \in SavedHere /\ SavedHere \subseteq Saved
        BY <1>3 DEF SavedHere, Homes
      <3>2. SavedAt(r) \in SaveArea
        BY <2>4, <2>5, <3>1 DEF SaveArea, SavedAt
      <3>3. \A q \in SavedHere : sp + SavedAddress(site.spills, q) = SavedAt(r) => q = r
        BY <1>2, <1>3, <2>4, <2>5, <3>1, SaveAreaInMemory DEF SavedAt
      <3>4. (CHOOSE q \in SavedHere : sp + SavedAddress(site.spills, q) = SavedAt(r)) = r
        BY <2>4, <2>5, <3>1, <3>3 DEF SavedAt
      <3>5. mem'[SavedAt(r)] = reg[r]
        BY <1>4, <1>11, <3>2, <3>4 DEF Save
      <3>6. reg[r] = <<"reg", r>>
        BY <2>2, <2>5 DEF InHomes
      <3> QED
        BY <3>5, <3>6
    <2>6. ~(Ordinary /\ pc' <= SavePc) /\ ~(Ordinary /\ pc' > RestorePc)
      BY <1>1, <1>8, <2>1, <2>2
    <2> QED
      BY <1>5, <1>9, <2>1, <2>3, <2>5, <2>6
  <1>12. CASE Restore
    <2>1. /\ site' = site /\ pc' = pc + 1 /\ mem' = mem /\ stored' = stored
          /\ At("restore") /\ DOMAIN reg' = Registers
      BY <1>12 DEF Restore, Advance
    <2>2. Ordinary => pc = RestorePc /\ InSaveArea /\ pc' > RestorePc
      BY <1>1, <1>6, <1>7, <1>8, <2>1, SavingPhases
    <2>3. ~(site.kind = "Scanf" /\ pc' \in 2..3)
      BY <1>1, <2>1, SavingPhases DEF RestorePc, Saving, Compiled
    <2>4. Ordinary => sp = Base
      BY <1>1, <1>7, <2>2 DEF IInv, Shift, Base, RestorePc, Saving, Compiled
    <2>5. ASSUME Ordinary, NEW r \in Homes PROVE reg'[r] = <<"reg", r>>
      <3>1. r \in SavedHere /\ r \in Registers
        BY <1>3 DEF SavedHere, Homes
      <3>2. reg'[r] = mem[SavedAt(r)]
        BY <1>12, <2>4, <2>5, <3>1 DEF Restore, SavedAt
      <3> QED
        BY <2>2, <2>5, <3>2 DEF InSaveArea
    <2>6. ~(Ordinary /\ pc' <= SavePc) /\ ~(Ordinary /\ pc' > SavePc /\ pc' <= RestorePc)
      BY <1>1, <1>8, <2>1, <2>2
    <2> QED
      BY <1>5, <1>9, <2>1, <2>3, <2>5, <2>6
  <1>13. CASE PassArguments
    <2>1. /\ site' = site /\ pc' = pc + 1 /\ mem' = mem /\ stored' = stored
          /\ At("pass") /\ site.kind \in Compiled /\ DOMAIN reg' = Registers
      BY <1>13 DEF PassArguments, Advance
    <2>2. site.kind # "Scanf" /\ (Ordinary => pc > SavePc /\ pc' <= RestorePc)
      BY <1>1, <1>7, <2>1, SavingPhases DEF SavePc, RestorePc, Compiled
    <2> QED
      BY <1>5, <1>10, <2>1, <2>2
  <1>14. CASE PassFlags
    <2>1. /\ site' = site /\ pc' = pc + 1 /\ mem' = mem /\ stored' = stored
          /\ At("pass") /\ site.kind = "Printf" /\ DOMAIN reg' = Registers
      BY <1>14 DEF PassFlags, Advance
    <2>2. Ordinary => pc = 1 /\ site.args <= 7 /\ SavePc = 2 /\ InHomes({})
      BY <1>1, <1>6, <1>7, <2>1, SavingPhases DEF SavePc, Compiled, Ordinary
    <2>3. ASSUME Ordinary, NEW r \in Homes PROVE reg'[r] = <<"reg", r>>
      <3>1. r \in Registers /\ r \notin {0, Scratch} /\ r \notin 1..site.args
        BY <1>2, <1>3, <2>2, <2>3 DEF Homes, Scratch
      <3> QED
        BY <1>14, <2>2, <2>3, <3>1 DEF PassFlags, InHomes
    <2>4. Ordinary => pc' = 2 /\ SavePc = 2
      BY <2>1, <2>2
    <2>5. /\ ~(Ordinary /\ pc' > SavePc /\ pc' <= RestorePc)
          /\ ~(Ordinary /\ pc' > RestorePc)
      BY <1>8, <2>4
    <2> QED
      BY <1>5, <1>9, <2>1, <2>3, <2>5
  <1>15. CASE PassAddress
    <2>1. /\ site' = site /\ pc' = pc + 1 /\ mem' = mem /\ stored' = stored
          /\ At("pass") /\ site.kind = "Scanf" /\ DOMAIN reg' = Registers
      BY <1>5, <1>15 DEF PassAddress, Advance
    <2>2. pc = 1 /\ SavePc = 2 /\ sp = 0 /\ Ordinary
      BY <1>1, <2>1, SavingPhases DEF SavePc, Compiled, Saving, IInv, Shift, Ordinary
    <2>3. reg'[1] = <<"addr", Input>>
      <3>1. reg'[1] = <<"addr", IF site.dest = OnStack THEN SpillSlot(0) ELSE sp'>>
        BY <1>5, <1>15 DEF PassAddress, Registers, Scratch
      <3>2. sp' = IF site.dest = OnStack THEN sp ELSE sp - 16
        BY <1>15 DEF PassAddress
      <3> QED
        BY <2>2, <3>1, <3>2 DEF Input, SpillSlot
    <2>4. ASSUME NEW r \in Homes PROVE reg'[r] = <<"reg", r>>
      <3>1. r \in Registers /\ r \notin {0, 1, Scratch}
        BY <1>3 DEF Homes, Scratch
      <3>2. reg'[r] = reg[r]
        BY <1>5, <1>15, <3>1 DEF PassAddress
      <3> QED
        BY <1>6, <2>2, <3>2 DEF InHomes
    <2>5. ~(pc' > SavePc) /\ ~(pc' > RestorePc)
      BY <1>8, <2>1, <2>2
    <2> QED
      BY <1>5, <1>9, <2>1, <2>3, <2>4, <2>5
  <1>16. CASE PassToRuntime
    <2>1. /\ site' = site /\ pc' = pc + 1 /\ mem' = mem /\ stored' = stored
          /\ site.kind \in {"Malloc", "Free"} /\ DOMAIN reg' = Registers
      BY <1>16 DEF PassToRuntime, Advance
    <2>2. ~Ordinary
      BY <1>7, <2>1 DEF Saving
    <2> QED
      BY <1>5, <1>10, <2>1, <2>2
  <1>17. CASE LowerSp
    <2>1. /\ site' = site /\ pc' = pc + 1 /\ mem' = mem /\ stored' = stored /\ reg' = reg
          /\ At("lower")
      BY <1>17 DEF LowerSp, Advance
    <2>2. site.kind # "Scanf" /\ (Ordinary => pc > SavePc /\ pc' <= RestorePc)
      BY <1>1, <1>2, <1>7, <2>1, PhaseOrder DEF SavePc, RestorePc, Compiled
    <2> QED
      BY <1>5, <1>10, <2>1, <2>2
  <1>18. CASE RaiseSp
    <2>1. /\ site' = site /\ pc' = pc + 1 /\ mem' = mem /\ stored' = stored /\ reg' = reg
          /\ At("raise")
      BY <1>18 DEF RaiseSp, Advance
    <2>2. site.kind # "Scanf" /\ (Ordinary => pc > SavePc /\ pc' <= RestorePc)
      BY <1>1, <1>2, <1>7, <2>1, PhaseOrder DEF SavePc, RestorePc, Compiled
    <2> QED
      BY <1>5, <1>10, <2>1, <2>2
  <1>19. CASE StoreExtra
    <2>1. /\ site' = site /\ pc' = pc /\ stored' = stored + 1
          /\ At("extra") /\ stored < Extra(site.args)
          /\ mem' = [mem EXCEPT ![ExtraAddress(stored)] = Operand(8 + stored)]
      BY <1>19 DEF StoreExtra
    <2>2. DOMAIN mem' = Address /\ DOMAIN reg' = Registers /\ stored' \in Nat
      BY <1>5, <1>19, <2>1 DEF StoreExtra
    <2>3. site.kind \in Compiled /\ pc = 4
      BY <1>1, <1>2, <2>1, PhaseOrder
    <2>4. site.kind # "Scanf" /\ pc > SavePc /\ pc' <= RestorePc
      BY <2>1, <2>3 DEF SavePc, RestorePc, Compiled
    <2>5. ASSUME Ordinary, NEW r \in Homes PROVE mem'[SavedAt(r)] = mem[SavedAt(r)]
      <3>1. site.args <= 10
        BY <2>3, <2>5 DEF Ordinary, Compiled
      <3>2. ExtraAddress(stored) # SavedAt(r)
        BY <1>1, <1>5, <2>1, <2>3, <3>1, ExtraMissesHomes
      <3> QED
        BY <1>4, <1>5, <2>1, <3>2
    <2> QED
      BY <1>10, <2>1, <2>2, <2>4, <2>5
  <1>20. CASE ExtraStored
    <2>1. /\ site' = site /\ pc' = pc + 1 /\ mem' = mem /\ stored' = stored /\ reg' = reg
          /\ At("extra")
      BY <1>20 DEF ExtraStored, Advance
    <2>2. site.kind # "Scanf" /\ (Ordinary => pc > SavePc /\ pc' <= RestorePc)
      BY <1>1, <1>2, <1>7, <2>1, PhaseOrder DEF SavePc, RestorePc, Compiled
    <2> QED
      BY <1>5, <1>10, <2>1, <2>2
  <1>21. sp \in Int /\ sp <= 0
    <2>1. StackOffset(site.args) \in Nat
      BY <1>2, OffsetAligned
    <2> QED
      BY <1>1, <2>1 DEF IInv, Shift
  <1>22. CASE CallFunction
    <2>1. /\ site' = site /\ pc' = pc + 1 /\ stored' = stored
          /\ mem' = [a \in Address |-> IF a < sp THEN Unknown ELSE mem[a]]
          /\ DOMAIN reg' = Registers /\ DOMAIN mem' = Address
          /\ At("call") /\ site.kind \in Compiled
      BY <1>22 DEF CallFunction, Advance
    <2>2. site.kind # "Scanf" /\ (Ordinary => pc > SavePc /\ pc' <= RestorePc)
      BY <1>1, <1>7, <2>1, SavingPhases DEF SavePc, RestorePc, Compiled
    <2>3. \A r \in Homes : mem'[SavedAt(r)] = mem[SavedAt(r)]
      <3>1. \A r \in Homes : SavedAt(r) \in Address /\ SavedAt(r) \in Int /\ ~(SavedAt(r) < sp)
        BY <1>4, <1>21 DEF Address
      <3> QED
        BY <2>1, <3>1
    <2> QED
      BY <1>5, <1>10, <2>1, <2>2, <2>3
  <1>23. CASE CallRuntime
    <2>1. /\ site' = site /\ pc' = pc + 1 /\ stored' = stored
          /\ mem' = [a \in Address |->
                       IF site.kind = "Scanf" /\ reg[1] = <<"addr", a>> THEN <<"result", 0>>
                       ELSE IF a < sp THEN Unknown ELSE mem[a]]
          /\ DOMAIN reg' = Registers /\ DOMAIN mem' = Address
          /\ At("call") /\ site.kind \notin Compiled
      BY <1>23 DEF CallRuntime, Advance
    <2>2. /\ Ordinary => pc > SavePc /\ pc' <= RestorePc
          /\ site.kind = "Scanf" => pc = 3
      BY <1>1, <1>7, <2>1, SavingPhases DEF SavePc, RestorePc, Compiled, Saving
    <2>3. ASSUME NEW r \in Homes PROVE mem'[SavedAt(r)] = mem[SavedAt(r)]
      <3>1. SavedAt(r) \in Address /\ SavedAt(r) \in Int /\ ~(SavedAt(r) < sp)
        BY <1>4, <1>21 DEF Address
      <3>2. Input # SavedAt(r)
        BY <1>2, <1>3, <1>4, SaveAreaInMemory DEF Input
      <3>3. site.kind = "Scanf" => reg[1] # <<"addr", SavedAt(r)>>
        BY <1>5, <2>2, <3>2
      <3> QED
        BY <2>1, <3>1, <3>3
    <2>4. ~(site.kind = "Scanf" /\ pc' \in 2..3)
      BY <2>1, <2>2
    <2> QED
      BY <1>5, <1>10, <2>1, <2>2, <2>3, <2>4
  <1>24. CASE TakeResult
    <2>1. /\ site' = site /\ pc' = pc + 1 /\ mem' = mem /\ stored' = stored
          /\ At("take") /\ DOMAIN reg' = Registers
      BY <1>24 DEF TakeResult, Advance
    <2>2. site.kind # "Scanf" /\ (Ordinary => pc > SavePc /\ pc' <= RestorePc)
      BY <1>1, <1>2, <1>7, <2>1, PhaseOrder, SavingPhases DEF SavePc, RestorePc, Compiled
    <2> QED
      BY <1>5, <1>10, <2>1, <2>2
  (* A result may be put anywhere but into another variable.               *)
  <1>25. ASSUME site' = site, pc' = pc + 1, At("put"),
                site.kind \in {"CallAssign", "Scanf"},
                DOMAIN reg' = Registers, DOMAIN mem' = Address, stored' = stored,
                \A r \in Homes \ {site.dest} : reg'[r] = reg[r]
         PROVE  KeptInv'
    <2>1. pc = RestorePc + 1 /\ Results = {site.dest}
      BY <1>1, <1>25, SavingPhases DEF Saving, Results
    <2>2. Ordinary => InHomes(Results)
      BY <1>6, <1>8, <2>1
    <2>3. Ordinary => \A r \in Homes \ Results : reg'[r] = <<"reg", r>>
      BY <1>25, <2>1, <2>2 DEF InHomes
    <2>4. ~(pc' <= SavePc) /\ ~(pc' <= RestorePc) /\ ~(pc' \in 2..3)
      BY <1>1, <1>8, <1>25, <2>1
    <2> QED
      BY <1>5, <1>9, <1>25, <2>3, <2>4
  <1>26. CASE PutResult
    <2>1. /\ site' = site /\ pc' = pc + 1 /\ mem' = mem /\ stored' = stored
          /\ At("put") /\ site.kind = "CallAssign" /\ DOMAIN reg' = Registers
      BY <1>5, <1>26 DEF PutResult, Advance
    <2>2. \A r \in Homes \ {site.dest} : r # Scratch /\ r \in Registers
      BY <1>3 DEF Homes, Scratch
    <2>3. \A r \in Homes \ {site.dest} : reg'[r] = reg[r]
      BY <1>5, <1>26, <2>2 DEF PutResult
    <2> QED
      BY <1>5, <1>25, <2>1, <2>3
  <1>27. CASE PutInput
    <2>1. /\ site' = site /\ pc' = pc + 1 /\ mem' = mem /\ stored' = stored
          /\ At("put") /\ site.kind = "Scanf"
      BY <1>27 DEF PutInput, Advance
    <2>2. DOMAIN reg' = Registers /\ \A r \in Homes \ {site.dest} : reg'[r] = reg[r]
      BY <1>3, <1>5, <1>27 DEF PutInput
    <2> QED
      BY <1>5, <1>25, <2>1, <2>2
  <1>28. CASE PutAllocated
    <2>1. /\ site' = site /\ pc' = pc + 1 /\ stored' = stored /\ site.kind = "Malloc"
          /\ DOMAIN mem' = Address /\ DOMAIN reg' = Registers
      BY <1>5, <1>28 DEF PutAllocated, Advance
    <2>2. ~Ordinary
      BY <1>7, <2>1 DEF Saving
    <2> QED
      BY <1>5, <1>10, <2>1, <2>2
  <1>29. CASE UNCHANGED vars
    <2>1. /\ site' = site /\ pc' = pc /\ mem' = mem /\ stored' = stored /\ reg' = reg
      BY <1>29 DEF vars
    <2> QED
      BY <1>5, <1>6, <1>9, <2>1 DEF InHomes, InSaveArea
  <1> QED
    BY <1>11, <1>12, <1>13, <1>14, <1>15, <1>16, <1>17, <1>18, <1>19, <1>20, <1>22,
       <1>23, <1>24, <1>26, <1>27, <1>28, <1>29 DEF Next

(* However many variables the caller spills and parameters it has, a call  *)
(* with at most ten arguments, a printf with at most seven flags and a     *)
(* scanf bring back every register that holds a variable (SaveRegs and     *)
(* RestoreRegs, instructions.go), although a compiled callee keeps none.   *)
THEOREM RegistersAlwaysSurvive == Spec => []RegistersSurvive
  <1>1. KeptInv => RegistersSurvive
    <2> SUFFICES ASSUME KeptInv, Done, Ordinary PROVE KeepsRegisters
      BY DEF RegistersSurvive
    <2>1. site.kind \in Saving /\ pc \in Nat /\ pc > 0
      BY DEF KeptInv, IInv, SiteOK, Kinds, Ordinary, Compiled, Saving
    <2>2. pc > RestorePc
      BY <2>1, SavingPhases
    <2>3. InHomes(Results)
      BY <2>2, Zenon DEF KeptInv
    <2> QED
      BY <2>3 DEF InHomes, KeepsRegisters
  <1> QED
    BY <1>1, KeptInit, KeptNext, PTL DEF Spec

-----------------------------------------------------------------------------
(* What the caller gets.                                                   *)

Result == <<"result", 0>>
(* Where the result is before each phase that follows the call.            *)
ResultInv ==
    /\ KeptInv
    /\ site.kind = "CallAssign" =>
          /\ pc \in 6..7 => reg[0] = Result
          /\ pc \in 8..9 => reg[16] = Result
          /\ pc > 9 /\ site.dest # OnStack => reg[site.dest] = Result
    /\ site.kind = "Scanf" =>
          /\ pc > 3 => mem[Input] = Result
          /\ pc > 5 /\ site.dest # OnStack => reg[site.dest] = Result
    /\ site.kind = "Malloc" =>
          /\ pc = 3 => reg[0] = Result
          /\ pc > 3 => Arrived

LEMMA MallocPhases ==
    ASSUME site.kind = "Malloc", pc \in Nat, pc > 0
    PROVE  /\ ~At("save") /\ ~At("restore") /\ ~At("lower") /\ ~At("extra") /\ ~At("raise")
           /\ ~At("take")
           /\ At("pass") => pc = 1
           /\ At("call") => pc = 2
           /\ At("put") => pc = 3
           /\ Done => pc > 3
  BY DEF At, Done, Phases

LEMMA DestInReach ==
    ASSUME site \in Sites
    PROVE  /\ site.dest # OnStack => site.dest \in Registers
           /\ Input \in Address
           /\ site.dest = OnStack => Input = SpillSlot(0)
           /\ site.dest # OnStack => Input = 0 - 16
  <1>1. /\ site.spills \in SpillCounts /\ site.params \in ParamCounts
        /\ site.spills \in Nat /\ site.params \in Nat /\ site.dest \in {8, 25, OnStack}
    BY CountAssumption DEF Sites
  <1>2. Words \in Nat /\ FrameSize(site.spills, site.params) <= 8 * Words
    BY <1>1, MemoryAssumption
  <1>3. Words >= 2
    <2>1. Extra(site.params) \in Nat /\ ScanSize(site.spills) \in Nat
      BY <1>1, ExtraType DEF ScanSize
    <2>2. /\ FrameSize(site.spills, site.params) \in Int
          /\ FrameSize(site.spills, site.params)
                >= ScanSize(site.spills) + 26 * 8 + 8 * Extra(site.params) + 8
      BY <1>1, FrameEnd
    <2> QED
      BY <1>2, <2>1, <2>2
  <1>4. 16 = 8 * 2 /\ 0 - 16 = 8 * (0 - 2) /\ 2 \in -Words..Words /\ 0 - 2 \in -Words..Words
    BY <1>2, <1>3
  <1>5. 16 \in Address /\ 0 - 16 \in Address
    BY <1>4 DEF Address
  <1> QED
    BY <1>1, <1>5 DEF Input, SpillSlot, Registers, OnStack

LEMMA ResultNext == ResultInv /\ [Next]_vars => ResultInv'
  <1> SUFFICES ASSUME ResultInv, [Next]_vars PROVE ResultInv'
    OBVIOUS
  <1>1. KeptInv /\ KeptInv' /\ IInv /\ pc \in Nat /\ pc > 0 /\ site \in Sites
    BY KeptNext DEF ResultInv, KeptInv, IInv
  <1>2. /\ DOMAIN reg = Registers /\ DOMAIN mem = Address
        /\ site.kind = "Scanf" /\ pc \in 2..3 => reg[1] = <<"addr", Input>>
    BY <1>1 DEF KeptInv
  <1>3. /\ site.dest # OnStack => site.dest \in Registers
        /\ Input \in Address
        /\ site.dest = OnStack => Input = SpillSlot(0)
        /\ site.dest # OnStack => Input = 0 - 16
    BY <1>1, DestInReach
  <1>4. site.kind \in Kinds
    BY <1>1 DEF IInv, SiteOK
  (* What is to be shown of an action.                                     *)
  <1>5. ASSUME site' = site,
               site.kind = "CallAssign" =>
                  /\ pc' \in 6..7 => reg'[0] = Result
                  /\ pc' \in 8..9 => reg'[16] = Result
                  /\ pc' > 9 /\ site.dest # OnStack => reg'[site.dest] = Result,
               site.kind = "Scanf" =>
                  /\ pc' > 3 => mem'[Input] = Result
                  /\ pc' > 5 /\ site.dest # OnStack => reg'[site.dest] = Result,
               site.kind = "Malloc" =>
                  /\ pc' = 3 => reg'[0] = Result
                  /\ pc' > 3 => Arrived'
        PROVE  ResultInv'
    <2>1. Input' = Input
      BY <1>5 DEF Input
    <2> QED
      BY <1>1, <1>5, <2>1 DEF ResultInv
  (* Before the call there is nothing to show.                             *)
  <1>6. ASSUME site' = site, pc' \in {pc, pc + 1},
               site.kind = "CallAssign" => pc' < 6,
               site.kind = "Scanf" => pc' < 4,
               site.kind = "Malloc" => pc' < 3
        PROVE  ResultInv'
    <2>1. /\ site.kind = "CallAssign" => ~(pc' \in 6..7) /\ ~(pc' \in 8..9) /\ ~(pc' > 9)
          /\ site.kind = "Scanf" => ~(pc' > 3) /\ ~(pc' > 5)
          /\ site.kind = "Malloc" => ~(pc' = 3) /\ ~(pc' > 3)
      BY <1>1, <1>6
    <2> QED
      BY <1>5, <1>6, <2>1
  <1>7. CASE Save
    BY <1>1, <1>6, <1>7, SavingPhases, MallocPhases
       DEF Save, Advance, Saving, SavePc, Compiled
  <1>8. CASE PassArguments
    BY <1>1, <1>6, <1>8, SavingPhases, MallocPhases
       DEF PassArguments, Advance, Saving, Compiled
  <1>9. CASE PassFlags
    BY <1>1, <1>6, <1>9, SavingPhases, MallocPhases DEF PassFlags, Advance, Saving, Compiled
  <1>10. CASE PassAddress
    BY <1>1, <1>6, <1>10, SavingPhases, MallocPhases DEF PassAddress, Advance, Saving, Compiled
  <1>11. CASE PassToRuntime
    BY <1>1, <1>6, <1>11, SavingPhases, MallocPhases DEF PassToRuntime, Advance, Saving, Compiled
  <1>12. CASE LowerSp
    BY <1>1, <1>6, <1>12, SavingPhases, MallocPhases DEF LowerSp, Advance, Saving, Compiled
  <1>13. CASE StoreExtra
    BY <1>1, <1>6, <1>13, SavingPhases, MallocPhases DEF StoreExtra, Saving, Compiled
  <1>14. CASE ExtraStored
    BY <1>1, <1>6, <1>14, SavingPhases, MallocPhases DEF ExtraStored, Advance, Saving, Compiled
  <1>15. 0 \in Registers /\ 16 \in Registers /\ Scratch \in Registers /\ Scratch # 16
    BY DEF Registers, Scratch
  <1>16. CASE CallFunction
    <2>1. /\ site' = site /\ pc' = pc + 1 /\ At("call") /\ site.kind \in Compiled
          /\ reg'[0] = Result
      BY <1>15, <1>16 DEF CallFunction, Advance, Result
    <2>2. pc' = 6 /\ site.kind \notin {"Scanf", "Malloc"}
      BY <1>1, <2>1, SavingPhases DEF Saving, Compiled
    <2> QED
      BY <1>5, <2>1, <2>2
  <1>17. CASE CallRuntime
    <2>1. /\ site' = site /\ pc' = pc + 1 /\ At("call") /\ site.kind \notin Compiled
          /\ reg'[0] = Result
      BY <1>15, <1>17 DEF CallRuntime, Advance, Result
    <2>2. /\ site.kind = "Scanf" => pc = 3
          /\ site.kind = "Malloc" => pc = 2
          /\ site.kind # "CallAssign"
      BY <1>1, <2>1, SavingPhases, MallocPhases DEF Saving, Compiled
    <2>3. ASSUME site.kind = "Scanf" PROVE mem'[Input] = Result
      <3>1. reg[1] = <<"addr", Input>>
        BY <1>2, <2>2, <2>3
      <3> QED
        BY <1>3, <1>17, <2>3, <3>1 DEF CallRuntime, Result
    <2> QED
      BY <1>5, <2>1, <2>2, <2>3
  <1>18. CASE RaiseSp
    <2>1. /\ site' = site /\ pc' = pc + 1 /\ At("raise") /\ reg' = reg
      BY <1>18 DEF RaiseSp, Advance
    <2>2. site.kind \in Compiled /\ pc = 6
      BY <1>1, <1>4, <2>1, PhaseOrder
    <2> QED
      BY <1>5, <2>1, <2>2 DEF ResultInv, Compiled
  <1>19. CASE TakeResult
    <2>1. /\ site' = site /\ pc' = pc + 1 /\ At("take") /\ reg'[16] = reg[0]
      BY <1>15, <1>19 DEF TakeResult, Advance
    <2>2. site.kind = "CallAssign" /\ pc = 7
      BY <1>1, <1>4, <2>1, PhaseOrder
    <2> QED
      BY <1>5, <2>1, <2>2 DEF ResultInv
  <1>20. CASE Restore
    <2>1. /\ site' = site /\ pc' = pc + 1 /\ At("restore") /\ mem' = mem
      BY <1>20 DEF Restore, Advance
    <2>2. /\ site.kind = "CallAssign" => pc = 8
          /\ site.kind = "Scanf" => pc = 4
          /\ site.kind # "Malloc"
      BY <1>1, <2>1, SavingPhases, MallocPhases DEF Saving, RestorePc
    <2>3. reg'[16] = reg[16]
      BY <1>15, <1>20 DEF Restore, SavedHere, Saved
    <2> QED
      BY <1>5, <2>1, <2>2, <2>3 DEF ResultInv
  <1>21. CASE PutResult
    <2>1. /\ site' = site /\ pc' = pc + 1 /\ At("put") /\ site.kind = "CallAssign"
      BY <1>21 DEF PutResult, Advance
    <2>2. pc = 9
      BY <1>1, <2>1, SavingPhases DEF Saving, RestorePc
    <2>3. site.dest # OnStack => reg'[site.dest] = reg[16]
      BY <1>2, <1>3, <1>21 DEF PutResult
    <2>4. reg[16] = Result
      BY <2>1, <2>2 DEF ResultInv
    <2> QED
      BY <1>5, <2>1, <2>2, <2>3, <2>4
  <1>22. CASE PutInput
    <2>1. /\ site' = site /\ pc' = pc + 1 /\ At("put") /\ site.kind = "Scanf" /\ mem' = mem
      BY <1>22 DEF PutInput, Advance
    <2>2. pc = 5
      BY <1>1, <2>1, SavingPhases DEF Saving, RestorePc
    <2>3. mem[Input] = Result
      BY <2>1, <2>2 DEF ResultInv
    <2>4. site.dest # OnStack => reg'[site.dest] = Result
      <3>1. site.dest # OnStack => sp = Input
        BY <1>1, <1>3, <2>1, <2>2 DEF IInv, Shift, Compiled
      <3> QED
        BY <1>2, <1>3, <1>22, <2>3, <3>1 DEF PutInput
    <2> QED
      BY <1>5, <2>1, <2>2, <2>3, <2>4
  <1>23. CASE PutAllocated
    <2>1. /\ site' = site /\ pc' = pc + 1 /\ At("put") /\ site.kind = "Malloc"
      BY <1>23 DEF PutAllocated, Advance
    <2>2. pc = 3 /\ sp = 0 /\ reg[0] = Result
      BY <1>1, <2>1, MallocPhases DEF IInv, Shift, Compiled, ResultInv
    <2>3. CASE site.dest = OnStack
      <3>1. SpillSlot(0) \in Address /\ sp + SpillSlot(0) = SpillSlot(0)
        BY <1>3, <2>2, <2>3 DEF SpillSlot
      <3>2. mem'[SpillSlot(0)] = Result
        BY <1>2, <1>23, <2>2, <2>3, <3>1 DEF PutAllocated
      <3>3. Arrived'
        BY <2>1, <2>3, <3>2 DEF Arrived, Result
      <3> QED
        BY <1>5, <2>1, <2>2, <3>3
    <2>4. CASE site.dest # OnStack
      <3>1. reg'[site.dest] = Result
        BY <1>2, <1>3, <1>23, <2>2, <2>4 DEF PutAllocated
      <3>2. Arrived'
        BY <2>1, <2>4, <3>1 DEF Arrived, Result
      <3> QED
        BY <1>5, <2>1, <2>2, <3>2
    <2> QED
      BY <2>3, <2>4
  <1>24. CASE UNCHANGED vars
    <2>1. site' = site /\ pc' = pc /\ mem' = mem /\ reg' = reg
      BY <1>24 DEF vars
    <2>2. Arrived' = Arrived
      BY <2>1 DEF Arrived
    <2> QED
      BY <1>5, <2>1, <2>2 DEF ResultInv
  <1> QED
    BY <1>7, <1>8, <1>9, <1>10, <1>11, <1>12, <1>13, <1>14, <1>16, <1>17, <1>18, <1>19,
       <1>20, <1>21, <1>22, <1>23, <1>24 DEF Next

(* The result of a call gets into its register past the restoring of all   *)
(* registers, that of malloc and the number scanf reads into a slot as     *)
(* well, whatever the frame looks like (CallAssign, Malloc and Scanf of    *)
(* instructions.go).                                                       *)
THEOREM ResultsAlwaysArrive == Spec => []ResultArrives
  <1>1. Init => ResultInv
    BY KeptInit DEF Init, ResultInv
  <1>2. ResultInv => ResultArrives
    <2> SUFFICES ASSUME ResultInv, Done, Results # {},
                        ~(site.kind = "CallAssign" /\ site.dest = OnStack)
                 PROVE  Arrived
      BY DEF ResultArrives
    <2>1. /\ site.kind \in {"CallAssign", "Scanf", "Malloc"} /\ pc \in Nat /\ pc > 0
          /\ site \in Sites
      BY DEF Results, ResultInv, KeptInv, IInv
    <2>2. /\ site.kind = "CallAssign" => pc > 9
          /\ site.kind = "Scanf" => pc > 5
          /\ site.kind = "Malloc" => pc > 3
      <3>1. CASE site.kind = "CallAssign"
        <4>1. Len(Phases["CallAssign"]) = 9
          BY DEF Phases
        <4> QED
          BY <2>1, <3>1, <4>1 DEF Done
      <3>2. CASE site.kind = "Scanf"
        <4>1. Len(Phases["Scanf"]) = 5
          BY DEF Phases
        <4> QED
          BY <2>1, <3>2, <4>1 DEF Done
      <3>3. CASE site.kind = "Malloc"
        <4>1. Len(Phases["Malloc"]) = 3
          BY DEF Phases
        <4> QED
          BY <2>1, <3>3, <4>1 DEF Done
      <3> QED
        BY <2>1, <3>1, <3>2, <3>3
    <2>3. site.dest = OnStack => Input = SpillSlot(0)
      BY <2>1, DestInReach
    <2> QED
      BY <2>1, <2>2, <2>3 DEF ResultInv, Arrived, Result
  <1> QED
    BY <1>1, <1>2, ResultNext, PTL DEF Spec

-----------------------------------------------------------------------------
(* What of the frame stays.                                                *)

(* The words no phase writes: the frame record and the spill slots, apart  *)
(* from the one a result is put into, and whatever lies above the frame.   *)
Kept(a) ==
    /\ a >= FrameSize(site.spills, site.params) \/ (site.args <= 32 /\ a < ScanSize(site.spills))
    /\ a >= 0
    /\ OnStack \in Results => a # Input
SlotInv == KeptInv /\ \A a \in Address : Kept(a) => Untouched(a)

LEMMA FrameBounds ==
    ASSUME site \in Sites
    PROVE  /\ site.spills \in Nat /\ site.params \in Nat /\ site.args \in Nat
           /\ site.dest \in {8, 25, OnStack} /\ (site.dest = OnStack => site.spills > 0)
           /\ ScanSize(site.spills) = 16 + 8 * site.spills
           /\ FrameSize(site.spills, site.params) \in Int
           /\ FrameSize(site.spills, site.params) >= ScanSize(site.spills) + 26 * 8 + 8
           /\ Words \in Nat /\ FrameSize(site.spills, site.params) <= 8 * Words
  <1>1. /\ site.spills \in SpillCounts /\ site.params \in ParamCounts /\ site.args \in Nat
        /\ site.spills \in Nat /\ site.params \in Nat
        /\ site.dest \in {8, 25, OnStack} /\ (site.dest = OnStack => site.spills > 0)
    BY CountAssumption DEF Sites
  <1>2. Words \in Nat /\ FrameSize(site.spills, site.params) <= 8 * Words
    BY <1>1, MemoryAssumption
  <1>3. Extra(site.params) \in Nat /\ ScanSize(site.spills) = 16 + 8 * site.spills
    BY <1>1, ExtraType DEF ScanSize
  <1>4. /\ FrameSize(site.spills, site.params) \in Int
        /\ FrameSize(site.spills, site.params)
              >= ScanSize(site.spills) + 26 * 8 + 8 * Extra(site.params) + 8
    BY <1>1, FrameEnd
  <1> QED
    BY <1>1, <1>2, <1>3, <1>4

(* Registers are saved between the slots and the end of the frame...       *)
LEMMA SaveAreaInFrame ==
    ASSUME KeptInv, At("save"), NEW a \in SaveArea
    PROVE  a \in Int /\ a >= ScanSize(site.spills) /\ a < FrameSize(site.spills, site.params)
  <1>1. IInv /\ site \in Sites /\ pc \in Nat /\ pc > 0 /\ site.kind \in Kinds
    BY DEF KeptInv, IInv, SiteOK
  <1>2. site.kind \in Saving
    BY <1>1, MallocPhases DEF Saving, Kinds, At, Done, Phases
  <1>3. sp = Base
    BY <1>1, <1>2, SavingPhases DEF IInv, Shift, Base, SavePc, Saving, Compiled
  <1>4. PICK r \in SavedHere : a = sp + SavedAddress(site.spills, r)
    BY DEF SaveArea
  <1>5. r \in Saved /\ (site.kind = "Scanf" => r >= 8)
    BY DEF SavedHere, Compiled
  <1> DEFINE i == IF r <= 15 THEN r ELSE r - 3
  <1>6. i \in 0..25 /\ (site.kind = "Scanf" => i >= 8)
    BY <1>5 DEF Saved
  <1>7. a = Base + (ScanSize(site.spills) + 8 * i)
    BY <1>3, <1>4 DEF SavedAddress
  <1>8. Base = 0 \/ (Base = -16 /\ site.kind = "Scanf")
    BY DEF Base
  <1> HIDE DEF i
  <1> QED
    BY <1>1, <1>6, <1>7, <1>8, FrameBounds

(* ... and up to 24 arguments are stored there, too.                       *)
LEMMA ExtrasMissKept ==
    ASSUME KeptInv, At("extra"), stored < Extra(site.args), NEW a \in Address, Kept(a)
    PROVE  ExtraAddress(stored) # a
  <1>1. IInv /\ site \in Sites /\ pc \in Nat /\ pc > 0 /\ site.kind \in Kinds /\ stored \in Nat
    BY DEF KeptInv, IInv, SiteOK
  <1>2. site.kind \in Compiled /\ pc = 4
    BY <1>1, PhaseOrder
  <1>3. sp = 0 - StackOffset(site.args)
    BY <1>1, <1>2 DEF IInv, Shift, Compiled
  <1>4. Extra(site.args) \in Nat /\ (site.args <= 32 => Extra(site.args) <= 24)
    BY <1>1, FrameBounds DEF Extra
  <1>5. /\ StackOffset(site.args) \in Nat
        /\ StackOffset(site.args) >= 8 * Extra(site.args)
        /\ site.args <= 32 => StackOffset(site.args) <= 192
    BY <1>4 DEF StackOffset
  <1>6. ExtraAddress(stored) =
           (FrameSize(site.spills, site.params) - StackOffset(site.args)) + 8 * stored - 16
    BY <1>1, <1>3, <1>5, FrameBounds DEF ExtraAddress
  <1>7. /\ ExtraAddress(stored) \in Int
        /\ ExtraAddress(stored) < FrameSize(site.spills, site.params)
        /\ site.args <= 32 => ExtraAddress(stored) >= ScanSize(site.spills)
    BY <1>1, <1>4, <1>5, <1>6, FrameBounds
  <1> QED
    BY <1>1, <1>7, FrameBounds DEF Kept

LEMMA SlotNext == SlotInv /\ [Next]_vars => SlotInv'
  <1> SUFFICES ASSUME SlotInv, [Next]_vars PROVE SlotInv'
    OBVIOUS
  <1>1. KeptInv /\ KeptInv' /\ IInv /\ pc \in Nat /\ pc > 0 /\ site \in Sites
    BY KeptNext DEF SlotInv, KeptInv, IInv
  <1>2. /\ DOMAIN mem = Address
        /\ site.kind = "Scanf" /\ pc \in 2..3 => reg[1] = <<"addr", Input>>
    BY <1>1 DEF KeptInv
  <1>3. site.kind \in Kinds /\ site.args \in Nat
    BY <1>1 DEF IInv, SiteOK
  (* What is to be shown of an action.                                     *)
  <1>4. ASSUME site' = site, \A a \in Address : Kept(a) => mem'[a] = mem[a]
        PROVE  SlotInv'
    <2>1. \A a \in Address : Kept(a)' <=> Kept(a)
      BY <1>4 DEF Kept, Results, Input
    <2>2. \A a \in Address : Kept(a)' => mem'[a] = Before(a)
      BY <1>4, <2>1 DEF SlotInv, Untouched
    <2> QED
      BY <1>1, <2>2 DEF SlotInv, Untouched
  <1>5. sp \in Int /\ sp <= 0
    <2>1. StackOffset(site.args) \in Nat
      BY <1>3, OffsetAligned
    <2> QED
      BY <1>1, <2>1 DEF IInv, Shift
  <1>6. \A a \in Address : Kept(a) => a \in Int /\ ~(a < sp)
    BY <1>5 DEF Kept, Address
  <1>7. CASE Save
    <2>1. \A a \in Address : Kept(a) => a \notin SaveArea
      BY <1>1, <1>7, SaveAreaInFrame, FrameBounds DEF Save, Kept
    <2> QED
      BY <1>4, <1>7, <2>1 DEF Save, Advance
  <1>8. CASE StoreExtra
    BY <1>1, <1>2, <1>4, <1>8, ExtrasMissKept DEF StoreExtra
  <1>9. CASE CallFunction
    BY <1>4, <1>6, <1>9 DEF CallFunction, Advance
  <1>10. CASE CallRuntime
    <2>1. site.kind = "Scanf" => reg[1] = <<"addr", Input>>
      BY <1>1, <1>2, <1>10, SavingPhases DEF CallRuntime, Saving, Compiled
    <2>2. ASSUME NEW a \in Address, Kept(a), site.kind = "Scanf" PROVE a # Input
      BY <1>1, <2>2, FrameBounds DEF Kept, Results, Input
    <2>3. ASSUME NEW a \in Address, Kept(a) PROVE mem'[a] = mem[a]
      <3>1. ~(site.kind = "Scanf" /\ reg[1] = <<"addr", a>>)
        BY <2>1, <2>2, <2>3
      <3> QED
        BY <1>6, <1>10, <2>3, <3>1 DEF CallRuntime
    <2> QED
      BY <1>4, <1>10, <2>3 DEF CallRuntime, Advance
  <1>11. CASE PutAllocated
    <2>1. site' = site /\ site.kind = "Malloc" /\ At("put")
      BY <1>11 DEF PutAllocated, Advance
    <2>2. pc = 3 /\ sp = 0
      BY <1>1, <2>1, MallocPhases DEF IInv, Shift, Compiled
    <2>3. site.dest = OnStack => OnStack \in Results /\ sp + SpillSlot(0) = Input
      BY <2>1, <2>2 DEF Results, Input, SpillSlot
    <2>4. ASSUME NEW a \in Address, Kept(a) PROVE mem'[a] = mem[a]
      BY <1>2, <1>11, <2>3, <2>4 DEF PutAllocated, Kept
    <2> QED
      BY <1>4, <2>1, <2>4
  <1>12. CASE site' = site /\ mem' = mem
    BY <1>4, <1>12
  <1> QED
    BY <1>7, <1>8, <1>9, <1>10, <1>11, <1>12
       DEF Next, Advance, vars, Restore, PassArguments, PassFlags, PassAddress, PassToRuntime,
           LowerSp, RaiseSp, ExtraStored, TakeResult, PutResult, PutInput

(* Wherever a call stores what it saves and passes, it leaves the frame    *)
(* record and the spilled variables alone if it has at most 32 arguments,  *)
(* and everything above the frame always (instructions.go:988, SaveRegs of *)
(* llvmToArmOps.go).                                                       *)
THEOREM SlotsAlwaysSurvive == Spec => []SlotsSurvive
  <1>1. Init => SlotInv
    BY KeptInit DEF Init, SlotInv, Untouched
  <1>2. SlotInv => SlotsSurvive
    <2> SUFFICES ASSUME SlotInv, Done PROVE SlotsSurvive
      BY DEF SlotsSurvive
    <2>1. site \in Sites
      BY DEF SlotInv, KeptInv
    <2>2. OnStack \in Results => site.dest = OnStack /\ Input = 16
      BY DEF Results, Input
    <2>3. ASSUME site.args <= 32, NEW i \in Nat, i < 2 + site.spills,
                 OnStack \in Results => i # 2
          PROVE  Untouched(8 * i)
      <3>1. 8 * i \in Address
        <4>1. i \in -Words..Words
          BY <2>1, <2>3, FrameBounds
        <4> QED
          BY <4>1 DEF Address
      <3>2. Kept(8 * i)
        BY <2>1, <2>2, <2>3, FrameBounds DEF Kept
      <3> QED
        BY <3>1, <3>2 DEF SlotInv
    <2>4. site.args <= 32 => Untouched(0) /\ Untouched(8)
      <3>1. site.args <= 32 => Untouched(8 * 0) /\ Untouched(8 * 1)
        BY <2>1, <2>3, FrameBounds
      <3>2. 8 * 0 = 0 /\ 8 * 1 = 8
        OBVIOUS
      <3> QED
        BY <3>1, <3>2
    <2>5. ASSUME site.args <= 32, NEW j \in 0..(site.spills - 1), ~(j = 0 /\ OnStack \in Results)
          PROVE  Untouched(SpillSlot(j))
      <3>1. SpillSlot(j) = 8 * (2 + j) /\ 2 + j \in Nat /\ 2 + j < 2 + site.spills
        BY <2>1, <2>5, FrameBounds DEF SpillSlot
      <3> QED
        BY <2>3, <2>5, <3>1
    <2>6. ASSUME NEW a \in Address, a >= FrameSize(site.spills, site.params)
          PROVE  Untouched(a)
      <3>1. a \in Int /\ a > 16
        BY <2>1, <2>6, FrameBounds DEF Address
      <3>2. Kept(a)
        BY <2>2, <2>6, <3>1 DEF Kept
      <3> QED
        BY <3>2 DEF SlotInv
    <2> QED
      BY <2>4, <2>5, <2>6 DEF SlotsSurvive
  <1> QED
    BY <1>1, <1>2, SlotNext, PTL DEF Spec

-----------------------------------------------------------------------------
(* What memory and registers hold.                                         *)

TypeInv == KeptInv /\ TypeOK

LEMMA PhaseCount ==
    ASSUME site.kind \in Kinds
    PROVE  Len(Phases[site.kind]) \in Nat /\ Len(Phases[site.kind]) >= 1
  <1>1. CASE site.kind = "Call"
    BY <1>1 DEF Phases
  <1>2. CASE site.kind = "CallAssign"
    BY <1>2 DEF Phases
  <1>3. CASE site.kind = "Printf"
    BY <1>3 DEF Phases
  <1>4. CASE site.kind = "Scanf"
    BY <1>4 DEF Phases
  <1>5. CASE site.kind = "Malloc"
    BY <1>5 DEF Phases
  <1>6. CASE site.kind = "Free"
    BY <1>6 DEF Phases
  <1> QED
    BY <1>1, <1>2, <1>3, <1>4, <1>5, <1>6 DEF Kinds

(* sp never leaves the memory.                                             *)
LEMMA SpInMemory ==
    ASSUME IInv, site \in Sites
    PROVE  \E k \in 0..Words : sp = 0 - 8 * k
  <1>1. site.args \in Nat /\ site.args <= Words /\ Words \in Nat /\ Words >= 2
    <2>1. site.args <= Words
      BY MemoryAssumption DEF Sites
    <2> QED
      BY <2>1, FrameBounds
  <1>2. CASE sp = 0 - StackOffset(site.args)
    <2> DEFINE e == Extra(site.args)
    <2>1. e \in Nat /\ (e = 0 \/ e + 1 <= site.args)
      BY <1>1 DEF Extra
    <2>2. StackOffset(site.args) = IF (8 * e) % 16 # 0 THEN 8 * e + 8 ELSE 8 * e
      BY DEF StackOffset
    <2> HIDE DEF e
    <2>3. \E k \in 0..Words : StackOffset(site.args) = 8 * k
      <3>1. CASE (8 * e) % 16 # 0
        <4>1. e # 0
          BY <3>1
        <4>2. e + 1 \in 0..Words /\ StackOffset(site.args) = 8 * (e + 1)
          BY <1>1, <2>1, <2>2, <3>1, <4>1
        <4> QED
          BY <4>2
      <3>2. CASE (8 * e) % 16 = 0
        BY <1>1, <2>1, <2>2, <3>2
      <3> QED
        BY <3>1, <3>2
    <2> QED
      BY <1>2, <2>3
  <1>3. CASE sp = 0 - 16
    <2>1. 2 \in 0..Words /\ sp = 0 - 8 * 2
      BY <1>1, <1>3
    <2> QED
      BY <2>1
  <1>4. CASE sp = 0
    <2>1. 0 \in 0..Words /\ sp = 0 - 8 * 0
      BY <1>1, <1>4
    <2> QED
      BY <2>1
  <1>5. sp = 0 - StackOffset(site.args) \/ sp = 0 - 16 \/ sp = 0
    BY DEF IInv, Shift
  <1> QED
    BY <1>2, <1>3, <1>4, <1>5

LEMMA HomeOfTypes ==
    ASSUME NEW i \in Nat
    PROVE  HomeOf(i) \in Homes
  BY DEF HomeOf, Homes

LEMMA SlotOfTypes ==
    ASSUME site \in Sites, site.home = "slot", NEW i \in Nat
    PROVE  /\ i % site.spills \in 0..(site.spills - 1)
           /\ SlotOf(i) = 8 * (2 + (i % site.spills))
  <1>1. site.spills \in Nat /\ site.spills > 0
    BY CountAssumption DEF Sites
  <1>2. i % site.spills \in 0..(site.spills - 1)
    BY <1>1
  <1> QED
    BY <1>1, <1>2 DEF SlotOf, SpillSlot

LEMMA OperandTypes ==
    ASSUME KeptInv, TypeOK, NEW i \in Nat
    PROVE  Operand(i) \in Value
  <1>1. IInv /\ site \in Sites
    BY DEF KeptInv
  <1>2. CASE site.home = "register"
    <2>1. HomeOf(i) \in Registers
      BY HomeOfTypes DEF Homes, Registers
    <2>2. reg \in [Registers -> Value]
      BY DEF TypeOK
    <2>3. Operand(i) = reg[HomeOf(i)]
      BY <1>2 DEF Operand
    <2> QED
      BY <2>1, <2>2, <2>3
  <1>3. CASE site.home = "slot"
    <2>1. PICK k \in 0..Words : sp = 0 - 8 * k
      BY <1>1, SpInMemory
    <2> DEFINE j == i % site.spills
    <2>2. j \in 0..(site.spills - 1) /\ SlotOf(i) = 8 * (2 + j)
      BY <1>1, <1>3, SlotOfTypes
    <2> HIDE DEF j
    <2>3. (2 + j) - k \in -Words..Words /\ sp + SlotOf(i) = 8 * ((2 + j) - k)
      BY <1>1, <2>1, <2>2, FrameBounds
    <2>4. sp + SlotOf(i) \in Address
      BY <2>3 DEF Address
    <2> QED
      BY <1>3, <2>4 DEF Operand, TypeOK
  <1>4. CASE site.home \notin {"register", "slot"}
    BY <1>4 DEF Operand, Value
  <1> QED
    BY <1>2, <1>3, <1>4

(* Saved registers lie in memory whether or not the call has to save.      *)
LEMMA SavedInMemory ==
    ASSUME KeptInv, At("save") \/ At("restore"), NEW r \in Saved
    PROVE  sp + SavedAddress(site.spills, r) \in Address
  <1>1. IInv /\ site \in Sites /\ pc \in Nat /\ pc > 0 /\ site.kind \in Kinds
    BY DEF KeptInv, IInv, SiteOK
  <1>2. site.kind \in Saving
    BY <1>1, MallocPhases DEF Saving, Kinds, At, Done, Phases
  <1>3. sp = Base
    BY <1>1, <1>2, SavingPhases DEF IInv, Shift, Base, SavePc, RestorePc, Saving, Compiled
  <1> QED
    BY <1>1, <1>3, SaveAreaInMemory DEF SavedAt

LEMMA TypeNext == TypeInv /\ [Next]_vars => TypeInv'
  <1> SUFFICES ASSUME TypeInv, [Next]_vars PROVE TypeInv'
    OBVIOUS
  <1>1. KeptInv /\ KeptInv' /\ TypeOK /\ IInv /\ pc \in Nat /\ pc > 0 /\ site \in Sites
    BY KeptNext DEF TypeInv, KeptInv, IInv
  <1>2. site.kind \in Kinds /\ site.args \in Nat /\ Len(Phases[site.kind]) \in Nat
    BY <1>1, PhaseCount DEF IInv, SiteOK
  <1>3. Extra(site.args) \in Nat /\ StackOffset(site.args) \in Nat
    BY <1>2, ExtraType, OffsetAligned
  <1>4. /\ pc \in 1..(Len(Phases[site.kind]) + 1) /\ stored \in 0..Extra(site.args) /\ sp \in Int
        /\ reg \in [Registers -> Value] /\ mem \in [Address -> Value] /\ got \in Seq(Value)
    BY <1>1 DEF TypeOK
  <1>5. /\ \A v \in {"format", "addr", "size", "result", "unknown"} : \A n \in Int : <<v, n>> \in Value
        /\ Unknown \in Value
    BY DEF Value, Unknown
  <1>6. \A i \in Nat : Operand(i) \in Value
    BY <1>1, OperandTypes
  <1>7. 0 \in Registers /\ 1 \in Registers /\ 16 \in Registers /\ Scratch \in Registers
    BY DEF Registers, Scratch
  <1>8. site.dest # OnStack => site.dest \in Registers
    BY <1>1, DestInReach
  (* What is to be shown of an action.                                     *)
  <1>9. ASSUME site' = site, pc' = pc \/ (pc' = pc + 1 /\ ~Done),
               stored' \in 0..Extra(site.args), sp' \in Int,
               reg' \in [Registers -> Value], mem' \in [Address -> Value], got' \in Seq(Value)
        PROVE  TypeInv'
    <2>1. pc' \in 1..(Len(Phases[site.kind]) + 1)
      BY <1>2, <1>4, <1>9 DEF Done
    <2> QED
      BY <1>1, <1>9, <2>1 DEF TypeInv, TypeOK
  <1>10. CASE Save
    <2>1. /\ site' = site /\ pc' = pc + 1 /\ ~Done /\ stored' = stored /\ sp' = sp
          /\ reg' = reg /\ got' = got
      BY <1>10 DEF Save, Advance, At
    <2>2. ASSUME NEW a \in SaveArea
          PROVE  reg[CHOOSE r \in SavedHere : sp + SavedAddress(site.spills, r) = a] \in Value
      <3>1. (CHOOSE r \in SavedHere : sp + SavedAddress(site.spills, r) = a) \in SavedHere
        BY <2>2 DEF SaveArea
      <3>2. SavedHere \subseteq Registers
        BY DEF SavedHere, Saved, Registers
      <3> QED
        BY <1>4, <3>1, <3>2
    <2>3. mem' \in [Address -> Value]
      BY <1>4, <1>10, <2>2 DEF Save
    <2> QED
      BY <1>4, <1>9, <2>1, <2>3
  <1>11. CASE Restore
    <2>1. /\ site' = site /\ pc' = pc + 1 /\ ~Done /\ At("restore") /\ stored' = stored
          /\ sp' = sp /\ mem' = mem /\ got' = got
      BY <1>11 DEF Restore, Advance, At
    <2>2. \A r \in SavedHere : sp + SavedAddress(site.spills, r) \in Address
      BY <1>1, <2>1, SavedInMemory DEF SavedHere
    <2>3. reg' \in [Registers -> Value]
      BY <1>4, <1>11, <2>2 DEF Restore
    <2> QED
      BY <1>4, <1>9, <2>1, <2>3
  <1>12. CASE PassArguments
    <2>1. reg' \in [Registers -> Value]
      <3>1. \A r \in Registers : r \in Nat
        BY DEF Registers
      <3> QED
        BY <1>4, <1>6, <1>12, <3>1 DEF PassArguments
    <2> QED
      BY <1>4, <1>9, <1>12, <2>1 DEF PassArguments, Advance, At
  <1>13. CASE PassFlags
    <2>1. reg' \in [Registers -> Value]
      <3>1. \A r \in 1..site.args : r - 1 \in Nat
        BY <1>2
      <3> QED
        BY <1>4, <1>5, <1>6, <1>13, <3>1 DEF PassFlags
    <2> QED
      BY <1>4, <1>9, <1>13, <2>1 DEF PassFlags, Advance, At
  <1>14. CASE PassAddress
    <2>1. sp' \in Int /\ SpillSlot(0) \in Int
      BY <1>4, <1>14 DEF PassAddress, SpillSlot
    <2>2. reg' \in [Registers -> Value]
      <3>1. <<"addr", IF site.dest = OnStack THEN SpillSlot(0) ELSE sp'>> \in Value
        BY <1>5, <2>1
      <3>2. <<"format", 0>> \in Value
        BY <1>5
      <3> DEFINE w == <<"addr", IF site.dest = OnStack THEN SpillSlot(0) ELSE sp'>>
      <3>3. reg' = [reg EXCEPT ![0] = <<"format", 0>>, ![Scratch] = <<"format", 0>>, ![1] = w]
        BY <1>14 DEF PassAddress
      <3>4. w \in Value
        BY <3>1
      <3> HIDE DEF w
      <3> QED
        BY <1>4, <1>7, <3>2, <3>3, <3>4
    <2> QED
      BY <1>4, <1>9, <1>14, <2>1, <2>2 DEF PassAddress, Advance, At
  <1>15. CASE PassToRuntime
    <2>1. reg' \in [Registers -> Value]
      <3>1. ASSUME NEW r \in Registers
            PROVE  (CASE site.kind = "Malloc" /\ r = 0 -> <<"size", 0>>
                      [] site.kind = "Free" /\ (r = 0 \/ (r = Scratch /\ site.home = "slot")) -> Operand(0)
                      [] OTHER -> reg[r]) \in Value
        BY <1>4, <1>5, <1>6
      <3> QED
        BY <1>15, <3>1 DEF PassToRuntime
    <2> QED
      BY <1>4, <1>9, <1>15, <2>1 DEF PassToRuntime, Advance, At
  <1>16. CASE LowerSp
    BY <1>3, <1>4, <1>9, <1>16 DEF LowerSp, Advance, At
  <1>17. CASE RaiseSp
    BY <1>3, <1>4, <1>9, <1>17 DEF RaiseSp, Advance, At
  <1>18. CASE StoreExtra
    <2>1. Operand(8 + stored) \in Value /\ stored + 1 \in 0..Extra(site.args)
      BY <1>3, <1>4, <1>6, <1>18 DEF StoreExtra
    <2>2. reg' \in [Registers -> Value] /\ mem' \in [Address -> Value]
      BY <1>4, <1>18, <2>1 DEF StoreExtra
    <2> QED
      BY <1>4, <1>9, <1>18, <2>1, <2>2 DEF StoreExtra
  <1>19. CASE ExtraStored
    BY <1>4, <1>9, <1>19 DEF ExtraStored, Advance, At
  <1>20. CASE CallFunction
    <2>1. ASSUME NEW i \in 1..site.args PROVE Received(i - 1) \in Value
      <3>1. i - 1 < 8 => i - 1 \in Registers
        BY <1>2 DEF Registers
      <3> QED
        BY <1>4, <1>5, <3>1 DEF Received
    <2>2. got' \in Seq(Value)
      <3>1. got' = [i \in 1..site.args |-> Received(i - 1)]
        BY <1>20 DEF CallFunction
      <3>2. got' \in [1..site.args -> Value]
        BY <2>1, <3>1
      <3> QED
        BY <1>2, <3>2
    <2>3. reg' \in [Registers -> Value] /\ mem' \in [Address -> Value]
      BY <1>4, <1>5, <1>20 DEF CallFunction
    <2> QED
      BY <1>4, <1>9, <1>20, <2>2, <2>3 DEF CallFunction, Advance, At
  <1>21. CASE CallRuntime
    <2>1. site.kind \in {"Printf", "Free"} \/ site.args = 0
      BY <1>1, <1>2, <1>21 DEF CallRuntime, Sites, Kinds, Compiled
    <2>2. site.args <= 15
      <3>1. site.kind = "Printf" => site.args <= MaxFlags
        BY <1>1 DEF Sites
      <3>2. site.kind = "Free" => site.args = 1
        BY <1>1 DEF Sites
      <3>3. MaxFlags \in 0..15
        BY CountAssumption
      <3> QED
        BY <1>2, <2>1, <3>1, <3>2, <3>3
    <2>3. \A i \in 1..site.args : reg[IF site.kind = "Printf" THEN i ELSE i - 1] \in Value
      <3>1. \A i \in 1..site.args : i \in Registers /\ i - 1 \in Registers
        BY <1>2, <2>2 DEF Registers
      <3> QED
        BY <1>4, <3>1
    <2>4. got' \in Seq(Value)
      <3>1. got' = [i \in 1..site.args |-> reg[IF site.kind = "Printf" THEN i ELSE i - 1]]
        BY <1>21 DEF CallRuntime
      <3>2. got' \in [1..site.args -> Value]
        BY <2>3, <3>1
      <3> QED
        BY <1>2, <3>2
    <2>5. reg' \in [Registers -> Value] /\ mem' \in [Address -> Value]
      BY <1>4, <1>5, <1>21 DEF CallRuntime
    <2> QED
      BY <1>4, <1>9, <1>21, <2>4, <2>5 DEF CallRuntime, Advance, At
  <1>22. CASE TakeResult
    <2>1. site.dest = OnStack => sp + SpillSlot(0) \in Address
      <3>1. pc = 7 /\ site.kind = "CallAssign"
        BY <1>1, <1>2, <1>22, PhaseOrder DEF TakeResult
      <3>2. sp = 0
        BY <1>1, <3>1 DEF IInv, Shift, Compiled
      <3> QED
        BY <1>1, <3>2, DestInReach DEF SpillSlot
    <2>2. reg' \in [Registers -> Value]
      <3>1. ASSUME NEW r \in Registers
            PROVE  (CASE r = 16 -> reg[0]
                      [] r = Scratch /\ site.dest = OnStack -> mem[sp + SpillSlot(0)]
                      [] OTHER -> reg[r]) \in Value
        BY <1>4, <1>7, <2>1 DEF Scratch
      <3> QED
        BY <1>22, <3>1 DEF TakeResult
    <2> QED
      BY <1>4, <1>9, <1>22, <2>2 DEF TakeResult, Advance, At
  <1>23. CASE PutResult
    <2>1. reg' \in [Registers -> Value]
      BY <1>4, <1>7, <1>8, <1>23 DEF PutResult
    <2> QED
      BY <1>4, <1>9, <1>23, <2>1 DEF PutResult, Advance, At
  <1>24. CASE PutInput
    <2>1. site.dest # OnStack => sp \in Address
      <3>1. pc = 5 /\ site.kind = "Scanf"
        BY <1>1, <1>2, <1>24, PhaseOrder DEF PutInput
      <3>2. site.dest # OnStack => sp = Input
        BY <1>1, <3>1 DEF IInv, Shift, Compiled, Input
      <3> QED
        BY <1>1, <3>2, DestInReach
    <2>2. sp' \in Int /\ reg' \in [Registers -> Value]
      BY <1>4, <1>8, <1>24, <2>1 DEF PutInput
    <2> QED
      BY <1>4, <1>9, <1>24, <2>2 DEF PutInput, Advance, At
  <1>25. CASE PutAllocated
    <2>1. reg' \in [Registers -> Value] /\ mem' \in [Address -> Value]
      BY <1>4, <1>7, <1>8, <1>25 DEF PutAllocated
    <2> QED
      BY <1>4, <1>9, <1>25, <2>1 DEF PutAllocated, Advance, At
  <1>26. CASE UNCHANGED vars
    BY <1>4, <1>9, <1>26 DEF vars
  <1> QED
    BY <1>10, <1>11, <1>12, <1>13, <1>14, <1>15, <1>16, <1>17, <1>18, <1>19, <1>20,
       <1>21, <1>22, <1>23, <1>24, <1>25, <1>26 DEF Next

LEMMA InitTypes == Init => TypeInv
  <1> SUFFICES ASSUME Init PROVE TypeInv
    OBVIOUS
  <1>1. KeptInv /\ site.kind \in Kinds /\ site.args \in Nat
    BY KeptInit DEF KeptInv, IInv, SiteOK
  <1>2. Extra(site.args) \in Nat
    BY <1>1, ExtraType
  <1>3. \A a \in Address : Before(a) \in Value
    BY MemoryAssumption DEF Before, Value, Address
  <1>4. \A r \in Registers : <<"reg", r>> \in Value
    BY DEF Registers, Value
  <1>5. pc \in 1..(Len(Phases[site.kind]) + 1) /\ stored \in 0..Extra(site.args) /\ sp \in Int
    BY <1>1, <1>2, PhaseCount DEF Init
  <1> QED
    BY <1>1, <1>3, <1>4, <1>5 DEF Init, TypeInv, TypeOK

(* No phase reads or writes outside the memory or a register that does not *)
(* exist, and as many arguments are stored as do not fit in registers.     *)
THEOREM CallTypes == Spec => []TypeOK
  <1>1. TypeInv => TypeOK
    BY DEF TypeInv
  <1> QED
    BY <1>1, InitTypes, TypeNext, PTL DEF Spec

-----------------------------------------------------------------------------
(* What the callee gets.                                                   *)

PassPc == IF site.kind \in Compiled THEN 2 ELSE 1
SlotsInPlace ==
    site.home = "slot" => \A j \in 0..(site.spills - 1) : mem[SpillSlot(j)] = Before(SpillSlot(j))
(* Operands are where they were until they are passed, and once passed     *)
(* they stay until the call.                                               *)
ArgumentInv ==
    /\ KeptInv /\ TypeOK
    /\ pc <= PassPc => InHomes({}) /\ SlotsInPlace
    /\ site.kind \in Compiled =>
          /\ pc \in 3..5 => /\ InHomes({})
                            /\ \A r \in 0..7 : r < site.args => reg[r] = ArgValue(r)
          /\ pc < 4 => stored = 0
          /\ pc = 5 => stored = Extra(site.args)
          /\ pc \in 4..5 /\ FramesAgree =>
                \A i \in 0..(stored - 1) : mem[ExtraAddress(i)] = ArgValue(8 + i)
    /\ site.kind = "Printf" /\ pc \in 2..3 => \A r \in 1..site.args : reg[r] = ArgValue(r - 1)
    /\ site.kind = "Free" /\ pc = 2 => reg[0] = ArgValue(0)
    /\ ArgumentsArrive

(* An operand is found where it was; one in a slot as long as sp has not   *)
(* moved.                                                                  *)
LEMMA OperandFound ==
    ASSUME site \in Sites, InHomes({}), SlotsInPlace, sp = 0 \/ site.home # "slot", NEW i \in Nat
    PROVE  Operand(i) = ArgValue(i)
  <1>1. CASE site.home = "register"
    BY <1>1, HomeOfTypes DEF Operand, ArgValue, InHomes
  <1>2. CASE site.home = "slot"
    <2> DEFINE j == i % site.spills
    <2>1. j \in 0..(site.spills - 1) /\ SlotOf(i) = SpillSlot(j) /\ SlotOf(i) = 8 * (2 + j)
      BY <1>2, SlotOfTypes DEF SlotOf
    <2> HIDE DEF j
    <2>2. mem[SpillSlot(j)] = Before(SpillSlot(j)) /\ sp + SlotOf(i) = SpillSlot(j)
      <3>1. mem[SpillSlot(j)] = Before(SpillSlot(j))
        BY <1>2, <2>1 DEF SlotsInPlace
      <3>2. sp = 0 /\ SlotOf(i) \in Int
        BY <1>2, <2>1, FrameBounds
      <3> QED
        BY <2>1, <3>1, <3>2
    <2> QED
      BY <1>2, <2>1, <2>2 DEF Operand, ArgValue
  <1>3. CASE site.home \notin {"register", "slot"}
    BY <1>3 DEF Operand, ArgValue
  <1> QED
    BY <1>1, <1>2, <1>3

(* Where the caller of a small frame stores an argument is where a callee  *)
(* of the right frame reads it.                                            *)
LEMMA FramesMeet ==
    ASSUME site \in Sites, FramesAgree, NEW i \in Nat, sp \in Int
    PROVE  ExtraAddress(i) = sp + (224 + 8 * i) /\ ReadAt(8 + i) = ExtraAddress(i)
  <1>1. /\ site.spills \in Nat /\ site.params \in Nat /\ site.args \in Nat
        /\ site.spills <= 1 /\ site.params <= 8
    BY FrameBounds DEF FramesAgree
  <1>2. FrameSize(site.spills, site.params) = 240
    <2>1. Extra(site.params) = 0 /\ site.spills \in {0, 1}
      BY <1>1 DEF Extra
    <2> QED
      BY <2>1 DEF FrameSize, ScanSize
  <1>3. ExtraAddress(i) = sp + (224 + 8 * i)
    BY <1>2 DEF ExtraAddress
  <1> DEFINE late == IF site.args > 14 THEN site.args - 14 ELSE 0
  <1>4. late \in Nat /\ site.calleeSpills = late
    BY <1>1 DEF FramesAgree
  <1>5. CalleeFrame \in Int
    BY <1>1, <1>4, FrameEnd DEF CalleeFrame
  <1>6. ParamSlot(site.calleeSpills, 8 + i) = 224 + 8 * late + 8 * i
    BY <1>4 DEF ParamSlot, ScanSize
  <1>7. ReadAt(8 + i) = sp - CalleeFrame + ParamSlot(site.calleeSpills, 8 + i) + CalleeFrame - 8 * late
    BY DEF ReadAt
  <1> HIDE DEF late
  <1> QED
    BY <1>3, <1>4, <1>5, <1>6, <1>7

(* Stored arguments lie in memory.                                         *)
LEMMA ExtraInMemory ==
    ASSUME site \in Sites, FramesAgree, IInv, site.kind \in Compiled, pc \in 4..5,
           NEW i \in Nat, i < Extra(site.args)
    PROVE  ExtraAddress(i) \in Address
  <1>1. PICK k \in 0..Words : sp = 0 - 8 * k
    BY SpInMemory
  <1>2. sp = 0 - StackOffset(site.args) /\ site.args \in Nat
    BY FrameBounds DEF IInv, Shift, Compiled
  <1>3. Extra(site.args) \in Nat /\ StackOffset(site.args) >= 8 * Extra(site.args)
        /\ StackOffset(site.args) \in Nat
    BY <1>2, ExtraType DEF StackOffset
  <1>4. k >= Extra(site.args)
    BY <1>1, <1>2, <1>3
  <1>5. ExtraAddress(i) = sp + (224 + 8 * i)
    BY <1>1, FramesMeet
  <1>6. (28 + i) - k \in -Words..Words /\ ExtraAddress(i) = 8 * ((28 + i) - k)
    BY <1>1, <1>3, <1>4, <1>5, FrameBounds
  <1> QED
    BY <1>6 DEF Address

LEMMA ArgumentNext == ArgumentInv /\ [Next]_vars => ArgumentInv'
  <1> SUFFICES ASSUME ArgumentInv, [Next]_vars PROVE ArgumentInv'
    OBVIOUS
  <1>1. KeptInv /\ TypeOK /\ KeptInv' /\ TypeOK'
    BY KeptNext, TypeNext DEF ArgumentInv, TypeInv
  <1>2. IInv /\ pc \in Nat /\ pc > 0 /\ site \in Sites /\ site.kind \in Kinds /\ site.args \in Nat
    BY <1>1 DEF KeptInv, IInv, SiteOK
  <1>3. /\ sp \in Int /\ stored \in Nat
        /\ DOMAIN reg = Registers /\ DOMAIN mem = Address
    BY <1>1 DEF TypeOK, KeptInv
  <1>4. Homes \subseteq Registers /\ 0..7 \subseteq Registers /\ Scratch \notin Homes /\ Scratch \notin 0..7
        /\ \A r \in Homes : r >= 8 /\ r # 0
    BY DEF Homes, Registers, Scratch
  (* What is to be shown of an action.                                     *)
  <1>5. ASSUME site' = site,
               pc' <= PassPc => (\A r \in Homes : reg'[r] = <<"reg", r>>) /\ SlotsInPlace',
               site.kind \in Compiled /\ pc' \in 3..5 => \A r \in Homes : reg'[r] = <<"reg", r>>,
               site.kind \in Compiled /\ pc' \in 3..5 =>
                  \A r \in 0..7 : r < site.args => reg'[r] = ArgValue(r),
               site.kind \in Compiled /\ pc' < 4 => stored' = 0,
               site.kind \in Compiled /\ pc' = 5 => stored' = Extra(site.args),
               site.kind \in Compiled /\ pc' \in 4..5 /\ FramesAgree =>
                  \A i \in 0..(stored' - 1) : mem'[ExtraAddress(i)'] = ArgValue(8 + i),
               site.kind = "Printf" /\ pc' \in 2..3 =>
                  \A r \in 1..site.args : reg'[r] = ArgValue(r - 1),
               site.kind = "Free" /\ pc' = 2 => reg'[0] = ArgValue(0),
               \A i \in DOMAIN got' : (i <= 8 \/ FramesAgree) => got'[i] = ArgValue(i - 1)
        PROVE  ArgumentInv'
    <2>1. PassPc' = PassPc /\ FramesAgree' = FramesAgree
      BY <1>5 DEF PassPc, FramesAgree
    <2>2. \A r : ArgValue(r)' = ArgValue(r)
      BY <1>5 DEF ArgValue, SlotOf
    <2>3. /\ pc' <= PassPc' => InHomes({})' /\ SlotsInPlace'
          /\ site'.kind \in Compiled /\ pc' \in 3..5 => InHomes({})'
      BY <1>5, <2>1 DEF InHomes
    <2>4. /\ site'.kind \in Compiled /\ pc' \in 3..5 =>
                \A r \in 0..7 : r < site'.args => reg'[r] = ArgValue(r)'
          /\ site'.kind = "Printf" /\ pc' \in 2..3 =>
                \A r \in 1..site'.args : reg'[r] = ArgValue(r - 1)'
          /\ site'.kind = "Free" /\ pc' = 2 => reg'[0] = ArgValue(0)'
      BY <1>5, <2>2
    <2>5. ArgumentsArrive'
      BY <1>5, <2>1, <2>2 DEF ArgumentsArrive
    <2>6. /\ site'.kind \in Compiled /\ pc' < 4 => stored' = 0
          /\ site'.kind \in Compiled /\ pc' = 5 => stored' = Extra(site.args)'
          /\ site'.kind \in Compiled /\ pc' \in 4..5 /\ FramesAgree' =>
                  \A i \in 0..(stored' - 1) : mem'[ExtraAddress(i)'] = ArgValue(8 + i)'
      BY <1>5, <2>1, <2>2
    <2> QED
      BY <1>1, <2>3, <2>4, <2>5, <2>6 DEF ArgumentInv
  (* After the call there is nothing to show but that got stays.           *)
  <1>6. ASSUME site' = site, got' = got, pc' \in Nat, pc' > PassPc,
               site.kind \in Compiled => pc' > 5,
               site.kind = "Printf" => pc' > 3,
               site.kind = "Free" => pc' > 2
        PROVE  ArgumentInv'
    <2>1. /\ ~(pc' <= PassPc)
          /\ site.kind \in Compiled => ~(pc' \in 3..5) /\ ~(pc' < 4) /\ ~(pc' = 5) /\ ~(pc' \in 4..5)
          /\ site.kind = "Printf" => ~(pc' \in 2..3)
          /\ site.kind = "Free" => ~(pc' = 2)
      BY <1>6 DEF PassPc
    <2>2. \A i \in DOMAIN got' : (i <= 8 \/ FramesAgree) => got'[i] = ArgValue(i - 1)
      BY <1>6 DEF ArgumentInv, ArgumentsArrive
    <2> QED
      BY <1>5, <1>6, <2>1, <2>2
  <1>7. \A i \in DOMAIN got : (i <= 8 \/ FramesAgree) => got[i] = ArgValue(i - 1)
    BY DEF ArgumentInv, ArgumentsArrive
  (* What a site says before its operands are passed.                      *)
  <1>8. ASSUME At("pass"), site.kind # "Scanf", site.kind # "Malloc"
        PROVE  /\ pc = PassPc /\ sp = 0 /\ (site.kind \in Compiled => stored = 0)
               /\ InHomes({}) /\ \A i \in Nat : Operand(i) = ArgValue(i)
    <2>1. pc = PassPc
      <3>1. CASE site.kind = "Free"
        BY <1>2, <1>8, <3>1 DEF At, Done, Phases, PassPc, Compiled
      <3>2. CASE site.kind # "Free"
        BY <1>2, <1>8, <3>2, SavingPhases DEF Saving, Kinds, PassPc
      <3> QED
        BY <3>1, <3>2
    <2>2. InHomes({}) /\ SlotsInPlace /\ (site.kind \in Compiled => stored = 0)
      BY <1>2, <2>1 DEF ArgumentInv, PassPc
    <2>3. sp = 0
      BY <1>2, <1>8, <2>1 DEF IInv, Shift, PassPc, Compiled
    <2> QED
      BY <1>2, <2>1, <2>2, <2>3, OperandFound
  <1>9. CASE Save
    <2>1. /\ site' = site /\ pc' = pc + 1 /\ reg' = reg /\ stored' = stored /\ sp' = sp
          /\ got' = got /\ At("save")
      BY <1>9 DEF Save, Advance
    <2>2. pc = SavePc /\ site.kind \in Saving
      BY <1>2, <2>1, SavingPhases, MallocPhases DEF Saving, Kinds, At, Done, Phases
    <2>3. CASE site.kind \in Compiled
      <3>1. pc = 1 /\ PassPc = 2 /\ InHomes({}) /\ SlotsInPlace /\ stored = 0
        BY <2>2, <2>3 DEF ArgumentInv, SavePc, PassPc
      <3>2. ASSUME NEW j \in 0..(site.spills - 1)
            PROVE  mem'[SpillSlot(j)] = mem[SpillSlot(j)]
        <4>1. SpillSlot(j) = 8 * (2 + j) /\ 2 + j \in -Words..Words
          BY <1>2, <3>2, FrameBounds DEF SpillSlot
        <4>2. SpillSlot(j) \in Address /\ SpillSlot(j) \in Int /\ SpillSlot(j) < ScanSize(site.spills)
          BY <1>2, <3>2, <4>1, FrameBounds DEF Address
        <4>3. SpillSlot(j) \notin SaveArea
          BY <1>1, <1>2, <2>1, <4>2, SaveAreaInFrame, FrameBounds
        <4> QED
          BY <1>9, <4>2, <4>3 DEF Save
      <3>3. SlotsInPlace'
        BY <2>1, <3>1, <3>2 DEF SlotsInPlace
      <3>4. /\ \A r \in Homes : reg'[r] = <<"reg", r>>
            /\ pc' = 2 /\ stored' = 0 /\ site.kind \notin {"Printf", "Free"}
        BY <2>1, <2>3, <3>1 DEF InHomes, Compiled
      <3> QED
        BY <1>5, <1>7, <2>1, <3>3, <3>4
    <2>4. CASE site.kind = "Printf"
      <3>1. pc = 2 /\ PassPc = 1 /\ site.kind \notin Compiled
        BY <2>2, <2>4 DEF SavePc, PassPc, Compiled
      <3>2. \A r \in 1..site.args : reg'[r] = ArgValue(r - 1)
        BY <2>1, <2>4, <3>1 DEF ArgumentInv
      <3>3. ~(pc' <= PassPc)
        BY <2>1, <3>1
      <3> QED
        BY <1>5, <1>7, <2>1, <2>4, <3>1, <3>2, <3>3
    <2>5. CASE site.kind = "Scanf"
      BY <1>2, <1>6, <2>1, <2>2, <2>5 DEF SavePc, PassPc, Compiled
    <2> QED
      BY <2>2, <2>3, <2>4, <2>5 DEF Saving, Compiled
  <1>10. CASE PassArguments
    <2>1. /\ site' = site /\ pc' = pc + 1 /\ stored' = stored /\ got' = got /\ At("pass")
          /\ site.kind \in Compiled
          /\ reg' = [r \in Registers |-> IF r < 8 /\ r < site.args THEN Operand(r) ELSE reg[r]]
      BY <1>10 DEF PassArguments, Advance
    <2>2. site.kind \notin {"Scanf", "Malloc", "Printf", "Free"} /\ PassPc = 2
      BY <2>1 DEF Compiled, PassPc
    <2>3. /\ pc = 2 /\ stored = 0 /\ InHomes({}) /\ \A i \in Nat : Operand(i) = ArgValue(i)
      BY <1>8, <2>1, <2>2
    <2>4. \A r \in Homes : reg'[r] = <<"reg", r>>
      <3>1. \A r \in Homes : r \in Registers /\ ~(r < 8)
        BY DEF Homes, Registers
      <3>2. \A r \in Homes : reg'[r] = reg[r]
        BY <2>1, <3>1
      <3> QED
        BY <2>3, <3>2 DEF InHomes
    <2>5. \A r \in 0..7 : r < site.args => reg'[r] = ArgValue(r)
      BY <1>4, <2>1, <2>3
    <2>6. pc' = 3 /\ stored' = 0 /\ ~(pc' <= PassPc) /\ ~(pc' = 5) /\ ~(pc' \in 4..5)
      BY <2>1, <2>2, <2>3
    <2> QED
      BY <1>5, <1>7, <2>1, <2>2, <2>4, <2>5, <2>6
  <1>11. CASE PassFlags
    <2>1. /\ site' = site /\ pc' = pc + 1 /\ got' = got /\ At("pass") /\ site.kind = "Printf"
          /\ reg' = [r \in Registers |->
                       IF r \in {0, Scratch} THEN <<"format", 0>>
                       ELSE IF r \in 1..site.args THEN Operand(r - 1) ELSE reg[r]]
      BY <1>11 DEF PassFlags, Advance
    <2>2. site.kind \notin Compiled /\ PassPc = 1
      BY <2>1 DEF Compiled, PassPc
    <2>3. pc = 1 /\ \A i \in Nat : Operand(i) = ArgValue(i)
      BY <1>8, <2>1, <2>2
    <2>4. site.args <= 15
      <3>1. site.args <= MaxFlags
        BY <1>2, <2>1 DEF Sites
      <3>2. MaxFlags \in 0..15
        BY CountAssumption
      <3> QED
        BY <1>2, <3>1, <3>2
    <2>5. ASSUME NEW r \in 1..site.args PROVE reg'[r] = ArgValue(r - 1)
      <3>1. r \in Registers /\ r \notin {0, Scratch} /\ r - 1 \in Nat
        BY <1>2, <2>4, <2>5 DEF Registers, Scratch
      <3> QED
        BY <2>1, <2>3, <3>1
    <2>6. ~(pc' <= PassPc)
      BY <2>1, <2>2, <2>3
    <2> QED
      BY <1>5, <1>7, <2>1, <2>2, <2>5, <2>6
  <1>12. CASE PassAddress
    <2>1. site' = site /\ pc' = pc + 1 /\ got' = got /\ site.kind = "Scanf"
      BY <1>12 DEF PassAddress, Advance
    <2> QED
      BY <1>2, <1>6, <2>1 DEF PassPc, Compiled
  <1>13. CASE PassToRuntime
    <2>1. /\ site' = site /\ pc' = pc + 1 /\ got' = got /\ At("pass")
          /\ site.kind \in {"Malloc", "Free"}
      BY <1>13 DEF PassToRuntime, Advance
    <2>2. PassPc = 1 /\ site.kind \notin Compiled
      BY <2>1 DEF PassPc, Compiled
    <2>3. CASE site.kind = "Malloc"
      BY <1>2, <1>6, <2>1, <2>2, <2>3
    <2>4. CASE site.kind = "Free"
      <3>1. pc = 1 /\ Operand(0) = ArgValue(0)
        BY <1>8, <2>1, <2>2, <2>4
      <3>2. reg'[0] = Operand(0)
        BY <1>4, <1>13, <2>4 DEF PassToRuntime
      <3>3. ~(pc' <= PassPc)
        BY <2>1, <2>2, <3>1
      <3> QED
        BY <1>5, <1>7, <2>1, <2>2, <2>4, <3>1, <3>2, <3>3
    <2> QED
      BY <2>1, <2>3, <2>4
  <1>14. CASE LowerSp
    <2>1. site' = site /\ pc' = pc + 1 /\ got' = got /\ reg' = reg /\ stored' = stored
      BY <1>14 DEF LowerSp, Advance
    <2>2. site.kind \in Compiled /\ pc = 3
      BY <1>2, <1>14, PhaseOrder DEF LowerSp
    <2>3. /\ \A r \in Homes : reg'[r] = <<"reg", r>>
          /\ \A r \in 0..7 : r < site.args => reg'[r] = ArgValue(r)
          /\ stored = 0
      BY <2>1, <2>2 DEF ArgumentInv, InHomes
    <2>4. /\ pc' = 4 /\ ~(pc' <= PassPc) /\ ~(pc' < 4) /\ ~(pc' = 5)
          /\ site.kind \notin {"Printf", "Free"} /\ \A i \in 0..(stored' - 1) : FALSE
      BY <2>1, <2>2, <2>3 DEF PassPc, Compiled
    <2> QED
      BY <1>5, <1>7, <2>1, <2>3, <2>4
  (* Homes and arguments on the way to the call.                           *)
  <1>15. ASSUME site.kind \in Compiled, pc \in 4..5
         PROVE  /\ InHomes({}) /\ \A r \in 0..7 : r < site.args => reg[r] = ArgValue(r)
                /\ FramesAgree => \A i \in 0..(stored - 1) : mem[ExtraAddress(i)] = ArgValue(8 + i)
                /\ PassPc = 2 /\ site.kind \notin {"Printf", "Free"}
    BY <1>15 DEF ArgumentInv, PassPc, Compiled
  <1>16. CASE StoreExtra
    <2>1. /\ site' = site /\ pc' = pc /\ sp' = sp /\ got' = got /\ stored' = stored + 1
          /\ stored < Extra(site.args)
          /\ mem' = [mem EXCEPT ![ExtraAddress(stored)] = Operand(8 + stored)]
      BY <1>16 DEF StoreExtra
    <2>2. site.kind \in Compiled /\ pc = 4
      BY <1>2, <1>16, PhaseOrder DEF StoreExtra
    <2>3. \A r \in Homes \cup 0..7 : reg'[r] = reg[r]
      BY <1>3, <1>4, <1>16 DEF StoreExtra
    <2>4. /\ \A r \in Homes : reg'[r] = <<"reg", r>>
          /\ \A r \in 0..7 : r < site.args => reg'[r] = ArgValue(r)
      BY <1>15, <2>2, <2>3 DEF InHomes
    <2>5. ASSUME FramesAgree, NEW i \in 0..(stored' - 1)
          PROVE  mem'[ExtraAddress(i)'] = ArgValue(8 + i)
      <3>1. ExtraAddress(i)' = ExtraAddress(i) /\ i \in Nat /\ (i = stored \/ i \in 0..(stored - 1))
        BY <1>3, <2>1 DEF ExtraAddress
      <3>2. ExtraAddress(i) = sp + (224 + 8 * i) /\ ExtraAddress(stored) = sp + (224 + 8 * stored)
        BY <1>2, <1>3, <2>5, <3>1, FramesMeet
      <3>3. CASE i = stored
        <4>1. ExtraAddress(stored) \in Address
          BY <1>2, <1>3, <2>1, <2>2, <2>5, ExtraInMemory
        <4>2. site.home # "slot" /\ SlotsInPlace /\ InHomes({})
          BY <1>15, <2>2, <2>5 DEF FramesAgree, SlotsInPlace
        <4>3. Operand(8 + stored) = ArgValue(8 + stored)
          BY <1>2, <1>3, <4>2, OperandFound
        <4> QED
          BY <1>3, <2>1, <3>1, <3>3, <4>1, <4>3
      <3>4. CASE i \in 0..(stored - 1)
        <4>1. ExtraAddress(i) # ExtraAddress(stored)
          BY <1>3, <3>2, <3>4
        <4>2. mem'[ExtraAddress(i)] = mem[ExtraAddress(i)]
          BY <2>1, <4>1
        <4> QED
          BY <1>15, <2>2, <2>5, <3>1, <3>4, <4>2
      <3> QED
        BY <3>1, <3>3, <3>4
    <2>6. ~(pc' <= PassPc) /\ ~(pc' < 4) /\ ~(pc' = 5) /\ site.kind \notin {"Printf", "Free"}
      BY <1>15, <2>1, <2>2
    <2> QED
      BY <1>5, <1>7, <2>1, <2>4, <2>5, <2>6
  <1>17. CASE ExtraStored
    <2>1. /\ site' = site /\ pc' = pc + 1 /\ sp' = sp /\ got' = got /\ stored' = stored
          /\ stored = Extra(site.args) /\ mem' = mem /\ reg' = reg
      BY <1>17 DEF ExtraStored, Advance
    <2>2. site.kind \in Compiled /\ pc = 4
      BY <1>2, <1>17, PhaseOrder DEF ExtraStored
    <2>3. /\ \A r \in Homes : reg'[r] = <<"reg", r>>
          /\ \A r \in 0..7 : r < site.args => reg'[r] = ArgValue(r)
          /\ FramesAgree => \A i \in 0..(stored' - 1) : mem'[ExtraAddress(i)] = ArgValue(8 + i)
      BY <1>15, <2>1, <2>2 DEF InHomes
    <2>4. \A i : ExtraAddress(i)' = ExtraAddress(i)
      BY <2>1 DEF ExtraAddress
    <2>5. ~(pc' <= PassPc) /\ ~(pc' < 4) /\ site.kind \notin {"Printf", "Free"}
      BY <1>15, <2>1, <2>2
    <2> QED
      BY <1>5, <1>7, <2>1, <2>3, <2>4, <2>5
  <1>18. CASE CallFunction
    <2>1. /\ site' = site /\ pc' = pc + 1 /\ site.kind \in Compiled /\ At("call")
          /\ got' = [i \in 1..site.args |-> Received(i - 1)]
      BY <1>18 DEF CallFunction, Advance
    <2>2. pc = 5
      BY <1>2, <2>1, PhaseOrder
    <2>3. stored = Extra(site.args)
      BY <2>1, <2>2 DEF ArgumentInv
    <2>4. ASSUME NEW i \in 1..site.args, i <= 8 \/ FramesAgree
          PROVE  got'[i] = ArgValue(i - 1)
      <3>1. got'[i] = Received(i - 1)
        BY <2>1
      <3>2. CASE i <= 8
        <4>1. i - 1 \in 0..7 /\ i - 1 < site.args /\ i - 1 < 8
          BY <1>2, <3>2
        <4>2. Received(i - 1) = reg[i - 1]
          BY <4>1 DEF Received
        <4> QED
          BY <1>15, <2>1, <2>2, <3>1, <4>1, <4>2
      <3>3. CASE i > 8
        <4> DEFINE n == i - 9
        <4>1. n \in Nat /\ i - 1 = 8 + n /\ n < Extra(site.args) /\ FramesAgree
          BY <1>2, <2>4, <3>3 DEF Extra
        <4> HIDE DEF n
        <4>2. ReadAt(8 + n) = ExtraAddress(n) /\ ExtraAddress(n) \in Address
          <5>1. ReadAt(8 + n) = ExtraAddress(n)
            BY <1>2, <1>3, <4>1, FramesMeet
          <5>2. pc \in 4..5
            BY <2>2
          <5>3. ExtraAddress(n) \in Address
            BY <1>2, <2>1, <4>1, <5>2, ExtraInMemory
          <5> QED
            BY <5>1, <5>3
        <4>3. Received(8 + n) = mem[ExtraAddress(n)]
          BY <4>1, <4>2 DEF Received
        <4>4. n \in 0..(stored - 1)
          BY <1>3, <2>3, <4>1
        <4>5. mem[ExtraAddress(n)] = ArgValue(8 + n)
          BY <1>15, <2>1, <2>2, <4>1, <4>4
        <4> QED
          BY <3>1, <4>1, <4>3, <4>5
      <3> QED
        BY <3>2, <3>3
    <2>5. DOMAIN got' = 1..site.args
      BY <2>1
    <2>6. /\ ~(pc' <= PassPc) /\ ~(pc' \in 3..5) /\ ~(pc' < 4) /\ ~(pc' = 5) /\ ~(pc' \in 4..5)
          /\ site.kind \notin {"Printf", "Free"}
      BY <1>15, <2>1, <2>2
    <2> QED
      BY <1>5, <2>1, <2>4, <2>5, <2>6
  <1>19. CASE CallRuntime
    <2>1. /\ site' = site /\ pc' = pc + 1 /\ site.kind \notin Compiled /\ At("call")
          /\ got' = [i \in 1..site.args |-> reg[IF site.kind = "Printf" THEN i ELSE i - 1]]
      BY <1>19 DEF CallRuntime, Advance
    <2>2. /\ site.kind = "Printf" => pc = 3
          /\ site.kind = "Free" => pc = 2
          /\ site.kind \in {"Scanf", "Malloc"} => pc > 1
      <3>1. CASE site.kind = "Free"
        BY <1>2, <2>1, <3>1 DEF At, Done, Phases
      <3>2. CASE site.kind = "Malloc"
        BY <1>2, <2>1, <3>2, MallocPhases
      <3>3. CASE site.kind \notin {"Free", "Malloc"}
        BY <1>2, <2>1, <3>3, SavingPhases DEF Saving, Kinds, Compiled
      <3> QED
        BY <3>1, <3>2, <3>3
    <2>3. ASSUME NEW i \in 1..site.args PROVE got'[i] = ArgValue(i - 1)
      <3>1. CASE site.kind = "Printf"
        <4>1. reg[i] = ArgValue(i - 1)
          BY <2>2, <2>3, <3>1 DEF ArgumentInv
        <4> QED
          BY <2>1, <3>1, <4>1
      <3>2. CASE site.kind = "Free"
        <4>1. site.args = 1
          BY <1>2, <3>2 DEF Sites
        <4>2. i = 1 /\ i - 1 = 0 /\ reg[0] = ArgValue(0)
          BY <2>2, <3>2, <4>1 DEF ArgumentInv
        <4> QED
          BY <2>1, <3>2, <4>2
      <3>3. CASE site.kind \in {"Scanf", "Malloc"}
        <4>1. site.args = 0
          BY <1>2, <3>3 DEF Sites
        <4> QED
          BY <2>3, <4>1
      <3> QED
        BY <1>2, <2>1, <3>1, <3>2, <3>3 DEF Kinds, Compiled
    <2>4. DOMAIN got' = 1..site.args
      BY <2>1
    <2>5. ~(pc' <= PassPc) /\ (site.kind = "Printf" => ~(pc' \in 2..3)) /\ (site.kind = "Free" => ~(pc' = 2))
      BY <1>2, <2>1, <2>2 DEF PassPc, Kinds, Compiled
    <2> QED
      BY <1>5, <2>1, <2>3, <2>4, <2>5
  <1>20. CASE Restore \/ RaiseSp \/ TakeResult \/ PutResult \/ PutInput \/ PutAllocated
    <2>1. /\ site' = site /\ pc' = pc + 1 /\ got' = got
          /\ At("restore") \/ At("raise") \/ At("take") \/ At("put")
      BY <1>20 DEF Restore, RaiseSp, TakeResult, PutResult, PutInput, PutAllocated, Advance
    <2>2. /\ site.kind \in Compiled => pc > 5
          /\ site.kind = "Printf" => pc > 3
          /\ site.kind = "Scanf" => pc > 3
          /\ site.kind = "Malloc" => pc > 2
          /\ site.kind # "Free"
      <3>1. CASE site.kind = "Free"
        BY <1>2, <2>1, <3>1 DEF At, Done, Phases
      <3>2. CASE site.kind = "Malloc"
        BY <1>2, <2>1, <3>2, MallocPhases DEF Compiled
      <3>3. CASE site.kind \notin {"Free", "Malloc"}
        BY <1>2, <2>1, <3>3, SavingPhases DEF Saving, Kinds, Compiled, RestorePc
      <3> QED
        BY <3>1, <3>2, <3>3
    <2>3. pc' > PassPc /\ pc' \in Nat
      BY <1>2, <2>1, <2>2 DEF PassPc, Kinds, Compiled
    <2> QED
      BY <1>2, <1>6, <2>1, <2>2, <2>3
  <1>21. CASE UNCHANGED vars
    <2>1. /\ site' = site /\ pc' = pc /\ got' = got /\ reg' = reg /\ mem' = mem /\ sp' = sp
          /\ stored' = stored
      BY <1>21 DEF vars
    <2>2. PassPc' = PassPc /\ FramesAgree' = FramesAgree /\ \A r : ArgValue(r)' = ArgValue(r)
      BY <2>1 DEF PassPc, FramesAgree, ArgValue, SlotOf
    <2>3. /\ InHomes({})' = InHomes({}) /\ SlotsInPlace' = SlotsInPlace
          /\ \A i : ExtraAddress(i)' = ExtraAddress(i)
      BY <2>1 DEF InHomes, SlotsInPlace, ExtraAddress
    <2>4. ArgumentsArrive'
      BY <1>7, <2>1, <2>2 DEF ArgumentsArrive
    <2> QED
      BY <1>1, <2>1, <2>2, <2>3, <2>4 DEF ArgumentInv
  <1> QED
    BY <1>9, <1>10, <1>11, <1>12, <1>13, <1>14, <1>16, <1>17, <1>18, <1>19, <1>20, <1>21 DEF Next

(* The first eight arguments of any call arrive, and all of them where the *)
(* two frames agree: x0 to x7 are not touched between the mov that fills   *)
(* them and the call (instructions.go:948-1008), and what is stored for    *)
(* the others is not overwritten.                                          *)
THEOREM ArgumentsAlwaysArrive == Spec => []ArgumentsArrive
  <1>1. Init => ArgumentInv
    <2> SUFFICES ASSUME Init PROVE ArgumentInv
      OBVIOUS
    <2>1. KeptInv /\ site \in Sites /\ pc = 1 /\ stored = 0 /\ got = <<>>
      BY KeptInit DEF Init
    <2>2. TypeOK
      BY InitTypes DEF TypeInv
    <2>3. InHomes({})
      <3>1. Homes \subseteq Registers
        BY DEF Homes, Registers
      <3> QED
        BY <3>1 DEF Init, InHomes
    <2>4. SlotsInPlace
      <3>1. ASSUME NEW j \in 0..(site.spills - 1) PROVE SpillSlot(j) \in Address
        <4>1. SpillSlot(j) = 8 * (2 + j) /\ 2 + j \in -Words..Words
          BY <2>1, <3>1, FrameBounds DEF SpillSlot
        <4> QED
          BY <4>1 DEF Address
      <3> QED
        BY <3>1 DEF Init, SlotsInPlace
    <2>5. ArgumentsArrive
      BY <2>1 DEF ArgumentsArrive
    <2> QED
      BY <2>1, <2>2, <2>3, <2>4, <2>5 DEF ArgumentInv
  <1>2. ArgumentInv => ArgumentsArrive
    BY DEF ArgumentInv
  <1> QED
    BY <1>1, <1>2, ArgumentNext, PTL DEF Spec
=============================================================================
