-------------------------- MODULE ArmTranslateProofs --------------------------
(***************************************************************************)
(* The translation of straight-line code, for any number of locals, any    *)
(* homes and runs of any length: the ARM code of what Covered names does   *)
(* what the LLVM code does, and no code names a register that is not there. *)
(***************************************************************************)
EXTENDS ArmTranslate, WellFoundedInduction, SequenceTheorems, TLAPS

-----------------------------------------------------------------------------
(* Every non-empty set of naturals has a least element.                    *)
LEMMA LeastNat ==
    ASSUME NEW T, T \subseteq Nat, T # {}
    PROVE  \E m \in T : \A n \in T : m <= n
  <1>1. PICK m \in T : \A n \in T : ~ (<<n, m>> \in OpToRel(<, Nat))
    BY NatLessThanWellFounded, WFMin
  <1>2. \A n \in T : <<n, m>> \in OpToRel(<, Nat) <=> n < m
    BY DEF OpToRel
  <1>3. \A n \in T : ~ (n < m)
    BY <1>1, <1>2
  <1>4. \A n \in T : m <= n
    BY <1>3
  <1> QED
    BY <1>4

(* Induction over the numbers, stated of a set: one that holds 0 and the   *)
(* successor of what it holds has all naturals.                            *)
LEMMA AllNats ==
    ASSUME NEW S, 0 \in S, \A n \in Nat : n \in S => n + 1 \in S
    PROVE  \A n \in Nat : n \in S
  <1> SUFFICES ASSUME Nat \ S # {} PROVE FALSE
    OBVIOUS
  <1>1. PICK m \in Nat \ S : \A n \in Nat \ S : m <= n
    BY LeastNat
  <1>2. m # 0 /\ m - 1 \in Nat
    BY <1>1
  <1>3. m - 1 \in S
    BY <1>1, <1>2
  <1>4. (m - 1) + 1 = m
    BY <1>2
  <1> QED
    BY <1>1, <1>2, <1>3, <1>4

-----------------------------------------------------------------------------
(* Running code: f holds the machines after the first n instructions of c. *)
Computes(f, a, c, n) ==
    f = [k \in 0..n |-> IF k = 0 THEN a ELSE ArmExec(f[k - 1], c[k])]

LEMMA ComputesExists ==
    ASSUME NEW a, NEW c
    PROVE  \A n \in Nat : \E f : Computes(f, a, c, n)
  <1> DEFINE S == {n \in Nat : \E f : Computes(f, a, c, n)}
  <1>1. 0 \in S
    <2>1. Computes([k \in 0..0 |-> a], a, c, 0)
      BY DEF Computes
    <2> QED
      BY <2>1
  <1>2. ASSUME NEW n \in Nat, n \in S PROVE n + 1 \in S
    <2>1. PICK f : Computes(f, a, c, n)
      BY <1>2
    <2> DEFINE g == [k \in 0..(n + 1) |-> IF k <= n THEN f[k] ELSE ArmExec(f[n], c[n + 1])]
               h == [k \in 0..(n + 1) |-> IF k = 0 THEN a ELSE ArmExec(g[k - 1], c[k])]
    <2>2. ASSUME NEW k \in 0..(n + 1) PROVE g[k] = h[k]
      <3>1. CASE k = n + 1
        <4>1. k - 1 \in 0..(n + 1) /\ k - 1 = n /\ k # 0
          BY <3>1
        <4>2. g[k - 1] = f[n] /\ g[k] = ArmExec(f[n], c[k])
          BY <3>1, <4>1
        <4> QED
          BY <4>1, <4>2
      <3>2. CASE k # n + 1 /\ k # 0
        <4>1. k \in 0..n /\ k - 1 \in 0..n
          BY <3>2
        <4>2. g[k] = f[k] /\ g[k - 1] = f[k - 1] /\ h[k] = ArmExec(g[k - 1], c[k])
          BY <3>2, <4>1
        <4> HIDE DEF g, h
        <4>3. f[k] = ArmExec(f[k - 1], c[k])
          BY <2>1, <3>2, <4>1 DEF Computes
        <4> QED
          BY <4>2, <4>3
      <3>3. CASE k = 0
        <4>1. 0 \in 0..n
          OBVIOUS
        <4>2. f[0] = a
          BY <2>1, <4>1 DEF Computes
        <4> QED
          BY <3>3, <4>2
      <3> QED
        BY <3>1, <3>2, <3>3
    <2>3. g = h
      BY <2>2
    <2>4. Computes(g, a, c, n + 1)
      BY <2>3 DEF Computes
    <2> QED
      BY <2>4
  <1> HIDE DEF S
  <1>3. \A n \in Nat : n \in S
    BY <1>1, <1>2, AllNats
  <1> QED
    BY <1>3 DEF S

(* The machines after common beginnings are the same.                      *)
LEMMA ComputesSame ==
    ASSUME NEW a, NEW c, NEW d, NEW n \in Nat, NEW p \in Nat, n <= p,
           \A k \in 1..n : c[k] = d[k],
           NEW f, NEW g, Computes(f, a, c, n), Computes(g, a, d, p)
    PROVE  f[n] = g[n]
  <1> DEFINE S == {k \in Nat : k <= n => f[k] = g[k]}
  <1>1. 0 \in S
    <2>1. 0 \in 0..n /\ 0 \in 0..p
      OBVIOUS
    <2>2. f[0] = a /\ g[0] = a
      BY <2>1 DEF Computes
    <2> QED
      BY <2>2
  <1>2. ASSUME NEW k \in Nat, k \in S PROVE k + 1 \in S
    <2> SUFFICES ASSUME k + 1 <= n PROVE f[k + 1] = g[k + 1]
      OBVIOUS
    <2>1. /\ k + 1 \in 0..n /\ k + 1 \in 0..p /\ k + 1 \in 1..n
          /\ (k + 1) - 1 = k /\ k + 1 # 0
      OBVIOUS
    <2>2. f[k + 1] = ArmExec(f[k], c[k + 1]) /\ g[k + 1] = ArmExec(g[k], d[k + 1])
      BY <2>1 DEF Computes
    <2>3. f[k] = g[k] /\ c[k + 1] = d[k + 1]
      BY <1>2, <2>1
    <2> QED
      BY <2>2, <2>3
  <1> HIDE DEF S
  <1>3. \A k \in Nat : k \in S
    BY <1>1, <1>2, AllNats
  <1> QED
    BY <1>3 DEF S

LEMMA RunComputes ==
    ASSUME NEW a, NEW c, Len(c) \in Nat
    PROVE  \E f : Computes(f, a, c, Len(c)) /\ ArmRun(a, c) = f[Len(c)]
  <1> DEFINE f == CHOOSE f : f = [k \in 0..Len(c) |-> IF k = 0 THEN a ELSE ArmExec(f[k - 1], c[k])]
  <1>1. \E g : g = [k \in 0..Len(c) |-> IF k = 0 THEN a ELSE ArmExec(g[k - 1], c[k])]
    <2>1. PICK g : Computes(g, a, c, Len(c))
      BY ComputesExists
    <2> QED
      BY <2>1 DEF Computes
  <1>2. f = [k \in 0..Len(c) |-> IF k = 0 THEN a ELSE ArmExec(f[k - 1], c[k])]
    BY <1>1
  <1>3. ArmRun(a, c) = f[Len(c)]
    BY DEF ArmRun
  <1> HIDE DEF f
  <1> QED
    BY <1>2, <1>3 DEF Computes

IsCode(c) == \E S : c \in Seq(S)

(* What Append does to code.                                               *)
LEMMA Appended ==
    ASSUME NEW c, IsCode(c), NEW in
    PROVE  /\ IsCode(Append(c, in)) /\ Len(c) \in Nat
           /\ Len(Append(c, in)) = Len(c) + 1
           /\ DOMAIN c = 1..Len(c) /\ DOMAIN Append(c, in) = 1..(Len(c) + 1)
           /\ \A k \in 1..Len(c) : Append(c, in)[k] = c[k]
           /\ Append(c, in)[Len(c) + 1] = in
  <1>1. PICK S : c \in Seq(S)
    BY DEF IsCode
  <1>2. c \in Seq(S \cup {in})
    BY <1>1
  <1>3. Append(c, in) \in Seq(S \cup {in})
    BY <1>2
  <1> QED
    BY <1>2, <1>3, AppendProperties DEF IsCode

LEMMA RunAppend ==
    ASSUME NEW a, NEW c, IsCode(c), NEW in
    PROVE  ArmRun(a, Append(c, in)) = ArmExec(ArmRun(a, c), in)
  <1> DEFINE d == Append(c, in)
             n == Len(c)
  <1>1. /\ n \in Nat /\ Len(d) = n + 1 /\ d[n + 1] = in
        /\ \A k \in 1..n : c[k] = d[k]
    BY Appended
  <1> HIDE DEF d
  <1>2. PICK f : Computes(f, a, c, n) /\ ArmRun(a, c) = f[n]
    BY <1>1, RunComputes
  <1>3. PICK g : Computes(g, a, d, n + 1) /\ ArmRun(a, d) = g[n + 1]
    BY <1>1, RunComputes
  <1> HIDE DEF n
  <1>4. f[n] = g[n]
    BY <1>1, <1>2, <1>3, ComputesSame
  <1>5. g[n + 1] = ArmExec(g[n], in)
    <2>1. n + 1 \in 0..(n + 1) /\ n + 1 # 0 /\ (n + 1) - 1 = n
      BY <1>1
    <2> QED
      BY <1>1, <1>3, <2>1 DEF Computes
  <1> QED
    BY <1>2, <1>3, <1>4, <1>5 DEF d

LEMMA RunNothing ==
    ASSUME NEW a
    PROVE  ArmRun(a, <<>>) = a
  <1>1. Len(<<>>) = 0
    OBVIOUS
  <1>2. PICK f : Computes(f, a, <<>>, 0) /\ ArmRun(a, <<>>) = f[0]
    BY <1>1, RunComputes
  <1>3. 0 \in 0..0
    OBVIOUS
  <1>4. f[0] = a
    BY <1>2, <1>3 DEF Computes
  <1> QED
    BY <1>2, <1>4

LEMMA JoinAppend ==
    ASSUME NEW c, NEW s, IsCode(c), IsCode(s), NEW in
    PROVE  c \o Append(s, in) = Append(c \o s, in) /\ IsCode(c \o s)
  <1>1. PICK S : c \in Seq(S)
    BY DEF IsCode
  <1>2. PICK U : s \in Seq(U)
    BY DEF IsCode
  <1> DEFINE T == S \cup U \cup {in}
  <1>3. c \in Seq(T)
    BY <1>1
  <1>4. s \in Seq(T) /\ in \in T
    BY <1>2
  <1> HIDE DEF T
  <1>5. c \o Append(s, in) = Append(c \o s, in) /\ c \o s \in Seq(T)
    BY <1>3, <1>4
  <1> QED
    BY <1>5 DEF IsCode

(* Running two pieces of code is running the first and then the second.    *)
LEMMA RunJoin ==
    ASSUME NEW a, NEW c, IsCode(c)
    PROVE  \A d : IsCode(d) => ArmRun(a, c \o d) = ArmRun(ArmRun(a, c), d)
  <1> DEFINE Same(d) == ArmRun(a, c \o d) = ArmRun(ArmRun(a, c), d)
             S == {n \in Nat : \A d : IsCode(d) /\ Len(d) = n => Same(d)}
  <1>1. 0 \in S
    <2> SUFFICES ASSUME NEW d, IsCode(d), Len(d) = 0 PROVE Same(d)
      OBVIOUS
    <2>1. d = <<>>
      BY EmptySeq DEF IsCode
    <2>2. c \o <<>> = c
      BY DEF IsCode
    <2> QED
      BY <2>1, <2>2, RunNothing
  <1>2. ASSUME NEW n \in Nat, n \in S PROVE n + 1 \in S
    <2> SUFFICES ASSUME NEW d, IsCode(d), Len(d) = n + 1 PROVE Same(d)
      OBVIOUS
    <2>1. PICK T : d \in Seq(T)
      BY DEF IsCode
    <2>2. PICK s \in Seq(T), in \in T : Len(s) = n /\ d = Append(s, in)
      <3> DEFINE s == SubSeq(d, 1, n)
                 in == d[n + 1]
      <3>1. s \in Seq(T) /\ Len(s) = n /\ \A i \in 1..n : s[i] = d[i]
        BY <2>1
      <3> HIDE DEF s
      <3>2. in \in T
        BY <2>1
      <3>3. Append(s, in) \in Seq(T) /\ Len(Append(s, in)) = n + 1
        BY <3>1, <3>2
      <3>4. \A i \in 1..(n + 1) : Append(s, in)[i] = d[i]
        BY <3>1, <3>2
      <3> HIDE DEF in
      <3>5. Append(s, in) = d
        BY <2>1, <3>3, <3>4, SeqEqual
      <3> QED
        BY <3>1, <3>2, <3>5
    <2>3. IsCode(s)
      BY DEF IsCode
    <2>4. Same(s)
      BY <1>2, <2>2, <2>3
    <2>5. c \o d = Append(c \o s, in) /\ IsCode(c \o s)
      <3>1. c \o Append(s, in) = Append(c \o s, in) /\ IsCode(c \o s)
        <4>1. IsCode(c)
          OBVIOUS
        <4>2. IsCode(s)
          BY <2>3
        <4>3. c \o Append(s, in) = Append(c \o s, in)
          BY <4>1, <4>2, JoinAppend
        <4>4. IsCode(c \o s)
          BY <4>1, <4>2, JoinAppend
        <4> QED
          BY <4>3, <4>4
      <3> QED
        BY <2>2, <3>1, Zenon
    <2>6. ArmRun(a, c \o d) = ArmExec(ArmRun(a, c \o s), in)
      BY <2>5, RunAppend
    <2>7. ArmRun(ArmRun(a, c), d) = ArmExec(ArmRun(ArmRun(a, c), s), in)
      BY <2>2, <2>3, RunAppend
    <2> QED
      BY <2>4, <2>6, <2>7
  <1> HIDE DEF S, Same
  <1>3. \A n \in Nat : n \in S
    BY <1>1, <1>2, AllNats
  <1>4. ASSUME NEW d, IsCode(d) PROVE Same(d)
    <2>1. Len(d) \in Nat
      BY DEF IsCode
    <2> QED
      BY <1>3, <1>4, <2>1 DEF S
  <1> QED
    BY <1>4 DEF Same
-----------------------------------------------------------------------------
(* Code that names no register beyond x29, and takes a to b.               *)
Ok(in) == in.reg \in 0..29 /\ (in.x.kind = "reg" => in.x.n \in 0..29)
Fine(c) == IsCode(c) /\ \A i \in DOMAIN c : Ok(c[i])
Runs(a, c, b) == Fine(c) /\ ArmRun(a, c) = b

LEMMA FineFew ==
    /\ Fine(<<>>)
    /\ \A in : Ok(in) => Fine(<<in>>)
  <1>1. <<>> \in Seq({}) /\ DOMAIN <<>> = {}
    OBVIOUS
  <1>2. \A in : <<in>> \in Seq({in}) /\ DOMAIN <<in>> = {1} /\ <<in>>[1] = in
    OBVIOUS
  <1> QED
    BY <1>1, <1>2 DEF Fine, IsCode

LEMMA FineJoin ==
    ASSUME NEW c, NEW d, Fine(c), Fine(d)
    PROVE  Fine(c \o d)
  <1>1. PICK S : c \in Seq(S)
    BY DEF Fine, IsCode
  <1>2. PICK U : d \in Seq(U)
    BY DEF Fine, IsCode
  <1> DEFINE T == S \cup U
  <1>3. c \in Seq(T)
    BY <1>1
  <1>4. d \in Seq(T)
    BY <1>2
  <1> HIDE DEF T
  <1>5. /\ c \o d \in Seq(T)
        /\ \A i \in DOMAIN (c \o d) : \/ i \in DOMAIN c /\ (c \o d)[i] = c[i]
                                     \/ \E j \in DOMAIN d : (c \o d)[i] = d[j]
    <2>1. /\ c \o d \in Seq(T) /\ Len(c \o d) = Len(c) + Len(d)
          /\ \A i \in 1..(Len(c) + Len(d)) :
               (c \o d)[i] = IF i <= Len(c) THEN c[i] ELSE d[i - Len(c)]
      BY <1>3, <1>4, ConcatProperties
    <2>2. /\ Len(c) \in Nat /\ Len(d) \in Nat /\ DOMAIN c = 1..Len(c) /\ DOMAIN d = 1..Len(d)
          /\ DOMAIN (c \o d) = 1..(Len(c) + Len(d))
      BY <1>3, <1>4, <2>1
    <2>3. ASSUME NEW i \in 1..(Len(c) + Len(d)), ~(i <= Len(c)) PROVE i - Len(c) \in 1..Len(d)
      BY <2>2, <2>3
    <2>4. ASSUME NEW i \in 1..(Len(c) + Len(d)), i <= Len(c) PROVE i \in 1..Len(c)
      BY <2>2, <2>4
    <2> QED
      BY <2>1, <2>2, <2>3, <2>4
  <1> QED
    BY <1>5 DEF Fine, IsCode

LEMMA RunsNothing ==
    ASSUME NEW a
    PROVE  Runs(a, <<>>, a)
  BY FineFew, RunNothing DEF Runs

LEMMA RunsOne ==
    ASSUME NEW a, NEW in, Ok(in)
    PROVE  Runs(a, <<in>>, ArmExec(a, in))
  <1>1. IsCode(<<>>) /\ <<in>> = Append(<<>>, in)
    BY FineFew DEF Fine
  <1>2. ArmRun(a, Append(<<>>, in)) = ArmExec(ArmRun(a, <<>>), in)
    BY <1>1, RunAppend, Zenon
  <1>3. ArmRun(a, <<in>>) = ArmExec(a, in)
    BY <1>1, <1>2, RunNothing, Zenon
  <1> QED
    BY <1>3, FineFew DEF Runs

LEMMA RunsOn ==
    ASSUME NEW a, NEW c, NEW b, Runs(a, c, b), NEW d, NEW e, Runs(b, d, e)
    PROVE  Runs(a, c \o d, e)
  BY RunJoin, FineJoin DEF Runs, Fine

LEMMA RunsTwo ==
    ASSUME NEW a, NEW i, NEW j, Ok(i), Ok(j)
    PROVE  Runs(a, <<i, j>>, ArmExec(ArmExec(a, i), j))
  <1>1. <<i, j>> = <<i>> \o <<j>>
    <2>1. <<i>> \in Seq({i, j}) /\ <<j>> \in Seq({i, j})
      OBVIOUS
    <2>3. Len(<<i, j>>) = 2 /\ Len(<<i>> \o <<j>>) = 2
      BY <2>1
    <2>4. \A k \in 1..2 : <<i, j>>[k] = (<<i>> \o <<j>>)[k]
      BY <2>1
    <2>5. <<i, j>> \in Seq({i, j}) /\ <<i>> \o <<j>> \in Seq({i, j})
      BY <2>1
    <2> QED
      BY <2>3, <2>4, <2>5, SeqEqual
  <1>2. Runs(a, <<i>>, ArmExec(a, i)) /\ Runs(ArmExec(a, i), <<j>>, ArmExec(ArmExec(a, i), j))
    BY RunsOne
  <1>3. Runs(a, <<i>> \o <<j>>, ArmExec(ArmExec(a, i), j))
    BY <1>2, RunsOn
  <1> QED
    BY <1>1, <1>3
-----------------------------------------------------------------------------
(* ARM machines, and what single instructions do to them.                  *)
Places == {Slot(l) : l \in Local} \cup {Place(g) : g \in Global} \cup Fields
ArmMachines == [reg : [Registers -> Int], mem : [Places -> Int],
                flags : Int \X Int, out : Int]
ValueIn(a, x) == IF x.kind = "reg" THEN a.reg[x.n] ELSE x.n
PutReg(a, r, x) == [a EXCEPT !.reg = [@ EXCEPT ![r] = x]]
PutMem(a, p, x) == [a EXCEPT !.mem = [@ EXCEPT ![p] = x]]

LEMMA OperandKinds ==
    ASSUME NEW n
    PROVE  /\ Reg(n).kind = "reg" /\ Reg(n).n = n
           /\ Imm(n).kind = "imm" /\ Imm(n).n = n
           /\ Addr(n).kind = "addr" /\ Addr(n).n = n
  BY DEF Reg, Imm, Addr

LEMMA OkShape ==
    ASSUME NEW op, NEW code, NEW r \in 0..29, NEW x, NEW y,
           x.kind = "reg" => x.n \in 0..29
    PROVE  Ok(ARM(op, code, r, x, y))
  BY DEF Ok, ARM

LEMMA MovDoes ==
    ASSUME NEW a, NEW r, NEW x
    PROVE  ArmExec(a, Mov(r, x)) = PutReg(a, r, ValueIn(a, x))
  BY DEF ArmExec, Mov, ARM, PutReg, ValueIn

LEMMA LdrDoes ==
    ASSUME NEW a, NEW r, NEW x, ValueIn(a, x) \in DOMAIN a.mem
    PROVE  ArmExec(a, Ldr(r, x)) = PutReg(a, r, a.mem[ValueIn(a, x)])
  BY DEF ArmExec, Ldr, ARM, PutReg, ValueIn

LEMMA StrDoes ==
    ASSUME NEW a, NEW r, NEW x, ValueIn(a, x) \in DOMAIN a.mem
    PROVE  ArmExec(a, Str(r, x)) = PutMem(a, ValueIn(a, x), a.reg[r])
  BY DEF ArmExec, Str, ARM, PutMem, ValueIn

LEMMA BinOpDoes ==
    ASSUME NEW a, NEW r, NEW m1, NEW m2,
           NEW code \in {"add", "sub", "mul", "sdiv", "and", "or"}
    PROVE  ArmExec(a, ARMBinOp(ToARM(code), r, m1, m2))
             = PutReg(a, r, Arithmetic(code, a.reg[m1], a.reg[m2]))
  <1> DEFINE in == ARMBinOp(ToARM(code), r, m1, m2)
  <1>1. in.op = "binop" /\ in.reg = r /\ in.x = Reg(m1) /\ in.y = Reg(m2) /\ in.code = ToARM(code)
    BY DEF ARMBinOp, ARM
  <1>2. (IF in.code = "orr" THEN "or" ELSE in.code) = code
    BY <1>1 DEF ToARM
  <1> HIDE DEF in
  <1>3. ValueIn(a, in.x) = a.reg[m1] /\ ValueIn(a, in.y) = a.reg[m2]
    BY <1>1, OperandKinds DEF ValueIn
  <1>4. ArmExec(a, in) = PutReg(a, in.reg,
            Arithmetic(IF in.code = "orr" THEN "or" ELSE in.code, ValueIn(a, in.x), ValueIn(a, in.y)))
    BY <1>1 DEF ArmExec, PutReg, ValueIn
  <1>5. ArmExec(a, in) = PutReg(a, r, Arithmetic(code, a.reg[m1], a.reg[m2]))
    BY <1>1, <1>2, <1>3, <1>4
  <1> QED
    BY <1>5 DEF in

LEMMA AddImmDoes ==
    ASSUME NEW a, NEW r, NEW p, NEW n
    PROVE  ArmExec(a, AddImm(r, p, n)) = PutReg(a, r, a.reg[p] + n)
  BY DEF ArmExec, AddImm, ARM, Reg, Imm, PutReg, Arithmetic

LEMMA CmpDoes ==
    ASSUME NEW a, NEW x, NEW y
    PROVE  ArmExec(a, Cmp(x, y)) = [a EXCEPT !.flags = <<ValueIn(a, x), ValueIn(a, y)>>]
  BY DEF ArmExec, Cmp, ARM, ValueIn

LEMMA CsetDoes ==
    ASSUME NEW a, NEW r, NEW cc
    PROVE  ArmExec(a, Cset(r, cc)) = PutReg(a, r, Bit(ArmCond(cc, a.flags[1], a.flags[2])))
  BY DEF ArmExec, Cset, ARM, PutReg

LEMMA AdrpDoes ==
    ASSUME NEW a, NEW r, NEW g
    PROVE  /\ ArmExec(a, Adrp(r, g)) = PutReg(a, r, Page(g))
           /\ ArmExec(a, AddLo12(r, g)) = PutReg(a, r, a.reg[r] + Lo12)
  BY DEF ArmExec, Adrp, AddLo12, ARM, Imm, PutReg

LEMMA BlDoes ==
    ASSUME NEW a
    PROVE  /\ ArmExec(a, Bl("malloc")) = PutReg(a, 0, NewObject)
           /\ ArmExec(a, Bl("g")) = PutReg(a, 0, Called("g", a.reg[0]))
  BY DEF ArmExec, Bl, ARM, PutReg

LEMMA ExitDoes ==
    ASSUME NEW a
    PROVE  ArmExec(a, Exit) = [a EXCEPT !.out = a.reg[0]]
  BY DEF ArmExec, Exit, ARM

(* The conditions of the two machines are the same.                        *)
LEMMA SameConditions ==
    ASSUME NEW cc \in {"eq", "ne", "sgt", "sge", "slt", "sle"}, NEW x, NEW y
    PROVE  ArmCond(ToARM(cc), x, y) = Holds(cc, x, y)
  BY DEF ArmCond, ToARM, Holds

-----------------------------------------------------------------------------
(* b differs from a in the registers of S and the flags at most.           *)
Apart(a, b, S) ==
    /\ a \in ArmMachines /\ b \in ArmMachines
    /\ b.mem = a.mem /\ b.out = a.out
    /\ \A n \in Registers \ S : b.reg[n] = a.reg[n]

Scratch == {0, 16} \cup 26..30

LEMMA RegisterFacts ==
    /\ HomeRegisters \subseteq Registers \ Scratch /\ Scratch \subseteq Registers
    /\ HomeRegisters \subseteq 0..29 /\ HomeRegisters \subseteq Int
    /\ Registers \subseteq 0..30
  BY DEF HomeRegisters, Registers, Scratch

LEMMA ArmShape ==
    ASSUME NEW a \in ArmMachines
    PROVE  /\ a.reg \in [Registers -> Int] /\ a.mem \in [Places -> Int] /\ DOMAIN a.mem = Places
           /\ a.flags \in Int \X Int /\ a.out \in Int
           /\ a = [reg |-> a.reg, mem |-> a.mem, flags |-> a.flags, out |-> a.out]
  BY DEF ArmMachines

LEMMA PutRegDoes ==
    ASSUME NEW a \in ArmMachines, NEW r \in Registers, NEW x \in Int
    PROVE  /\ Apart(a, PutReg(a, r, x), {r}) /\ PutReg(a, r, x).reg[r] = x
           /\ PutReg(a, r, x).flags = a.flags
  <1> DEFINE b == PutReg(a, r, x)
  <1>1. b = [a EXCEPT !.reg = [a.reg EXCEPT ![r] = x]]
    BY DEF PutReg
  <1>2. b.reg = [a.reg EXCEPT ![r] = x] /\ b.mem = a.mem /\ b.flags = a.flags /\ b.out = a.out
    BY <1>1, ArmShape
  <1>3. b.reg \in [Registers -> Int] /\ b.reg[r] = x /\ \A n \in Registers \ {r} : b.reg[n] = a.reg[n]
    BY <1>2, ArmShape
  <1>4. b \in ArmMachines
    BY <1>1, <1>2, <1>3, ArmShape DEF ArmMachines
  <1> QED
    BY <1>2, <1>3, <1>4 DEF Apart

LEMMA FlagsDo ==
    ASSUME NEW a \in ArmMachines, NEW f \in Int \X Int
    PROVE  LET b == [a EXCEPT !.flags = f]
           IN  Apart(a, b, {}) /\ b.flags = f /\ b.reg = a.reg
  BY DEF Apart, ArmMachines

LEMMA ApartOn ==
    ASSUME NEW a, NEW b, NEW c, NEW S, NEW T, NEW U, Apart(a, b, S), Apart(b, c, T),
           S \cup T \subseteq U
    PROVE  Apart(a, c, U)
  BY DEF Apart

LEMMA ApartFrom ==
    ASSUME NEW a, NEW b, NEW S, NEW T, Apart(a, b, S), S \subseteq T
    PROVE  Apart(a, b, T)
  BY DEF Apart

LEMMA ApartNot ==
    ASSUME NEW a \in ArmMachines
    PROVE  Apart(a, a, {})
  BY DEF Apart

-----------------------------------------------------------------------------
(* Homes, and what a machine has in them.                                  *)
HomeInv ==
    \A l \in Local : home[l] = Addr(Slot(l)) \/ \E n \in HomeRegisters : home[l] = Reg(n)

Content(a, l) == IF InRegister(l) THEN a.reg[home[l].n] ELSE a.mem[home[l].n]
Held(a, o) == IF o.kind = "imm" THEN o.val ELSE Content(a, LocalOf(o))
Readable(o) == IF o.kind = "imm" THEN o.val \in Int ELSE LocalOf(o) \in Local /\ ~IsGlobal(o)

LEMMA HomeFacts ==
    ASSUME HomeInv, NEW l \in Local
    PROVE  /\ InRegister(l) =>
                home[l] = Reg(home[l].n) /\ home[l].kind = "reg" /\ home[l].n \in HomeRegisters
           /\ ~InRegister(l) =>
                /\ home[l] = Addr(Slot(l)) /\ home[l].kind = "addr" /\ home[l].n = Slot(l)
                /\ Slot(l) \in Places
  <1>1. CASE home[l] = Addr(Slot(l))
    <2>1. home[l].kind = "addr" /\ home[l].n = Slot(l)
      BY <1>1, OperandKinds
    <2> QED
      BY <1>1, <2>1 DEF InRegister, Places
  <1>2. CASE \E n \in HomeRegisters : home[l] = Reg(n)
    <2>1. PICK n \in HomeRegisters : home[l] = Reg(n)
      BY <1>2
    <2>2. home[l].kind = "reg" /\ home[l].n = n
      BY <2>1, OperandKinds
    <2> QED
      BY <2>1, <2>2 DEF InRegister
  <1> QED
    BY <1>1, <1>2 DEF HomeInv

LEMMA ContentTyped ==
    ASSUME HomeInv, NEW l \in Local, NEW a \in ArmMachines
    PROVE  Content(a, l) \in Int
  BY HomeFacts, ArmShape, RegisterFacts DEF Content

(* A helper has left the value x in a register, taking the scratch         *)
(* register n at most.                                                     *)
Takes(G, n) ==
    /\ Fine(G.code) /\ G.opnd = Reg(G.opnd.n) /\ G.opnd.kind = "reg"
    /\ G.opnd.n \in HomeRegisters \cup {n}
    /\ G.n \in {n, n + 1} /\ (G.opnd.n = n => G.n = n + 1)
Fetched(a, G, n, x) ==
    /\ Takes(G, n)
    /\ \E b : Runs(a, G.code, b) /\ Apart(a, b, {n}) /\ b.reg[G.opnd.n] = x

LEMMA ScratchFacts ==
    ASSUME NEW n \in 26..29
    PROVE  /\ n \in Registers /\ n \in Scratch /\ n \in 0..29 /\ n \in Int /\ n \notin HomeRegisters
           /\ {n} \subseteq Scratch
  BY DEF HomeRegisters, Registers, Scratch

LEMMA TakenFacts ==
    ASSUME NEW G, NEW n \in 26..29, Takes(G, n)
    PROVE  /\ G.opnd.n \in 0..29 /\ G.opnd.n \in Registers /\ G.opnd.n \in Int
           /\ G.opnd = Reg(G.opnd.n) /\ G.opnd.kind = "reg" /\ Fine(G.code)
           /\ G.n \in n..(n + 1)
  <1>1. G.opnd.n \in HomeRegisters \/ G.opnd.n = n
    BY DEF Takes
  <1>2. CASE G.opnd.n \in HomeRegisters
    BY <1>2, RegisterFacts DEF Takes
  <1>3. CASE G.opnd.n = n
    BY <1>3, ScratchFacts DEF Takes
  <1> QED
    BY <1>1, <1>2, <1>3

LEMMA RegOfFetches ==
    ASSUME HomeInv, NEW l \in Local, NEW n \in 26..29, NEW a \in ArmMachines
    PROVE  Fetched(a, RegOf(l, n), n, Content(a, l))
  <1> DEFINE G == RegOf(l, n)
  <1>1. CASE InRegister(l)
    <2>1. G.code = <<>> /\ G.opnd = home[l] /\ G.n = n
      BY <1>1 DEF RegOf, Got
    <2>2. home[l] = Reg(home[l].n) /\ home[l].kind = "reg" /\ home[l].n \in HomeRegisters
      BY <1>1, HomeFacts
    <2> HIDE DEF G
    <2>3. Takes(G, n)
      BY <2>1, <2>2, FineFew, ScratchFacts DEF Takes
    <2>4. Runs(a, G.code, a) /\ Apart(a, a, {n}) /\ a.reg[G.opnd.n] = Content(a, l)
      BY <1>1, <2>1, RunsNothing, ApartNot, ApartFrom DEF Content
    <2>5. Fetched(a, G, n, Content(a, l))
      BY <2>3, <2>4 DEF Fetched
    <2> QED
      BY <2>5 DEF G
  <1>2. CASE ~InRegister(l)
    <2> DEFINE in == Ldr(n, home[l])
               b == PutReg(a, n, Content(a, l))
    <2>1. G.code = <<in>> /\ G.opnd = Reg(n) /\ G.n = n + 1
      BY <1>2 DEF RegOf, Got
    <2>2. home[l].kind = "addr" /\ home[l].n = Slot(l) /\ Slot(l) \in Places
      BY <1>2, HomeFacts
    <2>3. Ok(in)
      BY <2>2, OkShape, ScratchFacts DEF Ldr
    <2>4. ArmExec(a, in) = b
      <3>1. ValueIn(a, home[l]) = Slot(l) /\ Slot(l) \in DOMAIN a.mem
        BY <2>2, ArmShape DEF ValueIn
      <3>2. Content(a, l) = a.mem[Slot(l)]
        BY <1>2, <2>2 DEF Content
      <3> QED
        BY <3>1, <3>2, LdrDoes
    <2> HIDE DEF G, in
    <2>5. Reg(n).n = n /\ Reg(n).kind = "reg"
      BY OperandKinds
    <2>6. Takes(G, n)
      BY <2>1, <2>3, <2>5, FineFew DEF Takes
    <2>7. Apart(a, b, {n}) /\ b.reg[n] = Content(a, l)
      BY PutRegDoes, ScratchFacts, ContentTyped
    <2>8. Runs(a, G.code, b)
      BY <2>1, <2>3, <2>4, RunsOne
    <2> HIDE DEF b
    <2>9. Fetched(a, G, n, Content(a, l))
      BY <2>1, <2>5, <2>6, <2>7, <2>8 DEF Fetched
    <2> QED
      BY <2>9 DEF G
  <1> QED
    BY <1>1, <1>2

LEMMA NumberFetched ==
    ASSUME NEW x \in Int, NEW n \in 26..29, NEW a \in ArmMachines
    PROVE  Fetched(a, Got(<<Mov(n, Imm(x))>>, Reg(n), n + 1), n, x)
  <1> DEFINE G == Got(<<Mov(n, Imm(x))>>, Reg(n), n + 1)
             in == Mov(n, Imm(x))
             b == PutReg(a, n, x)
  <1>1. G.code = <<in>> /\ G.opnd = Reg(n) /\ G.n = n + 1
    BY DEF Got
  <1>2. Imm(x).kind = "imm" /\ Imm(x).n = x /\ Reg(n).n = n /\ Reg(n).kind = "reg"
    BY OperandKinds
  <1>3. Ok(in)
    BY <1>2, OkShape, ScratchFacts DEF Mov
  <1>4. ArmExec(a, in) = b
    BY <1>2, MovDoes DEF ValueIn
  <1> HIDE DEF G, in
  <1>5. Takes(G, n)
    BY <1>1, <1>2, <1>3, FineFew DEF Takes
  <1>6. Apart(a, b, {n}) /\ b.reg[n] = x
    BY PutRegDoes, ScratchFacts
  <1>7. Runs(a, G.code, b)
    BY <1>1, <1>3, <1>4, RunsOne
  <1> HIDE DEF b
  <1>8. Fetched(a, G, n, x)
    BY <1>1, <1>2, <1>5, <1>6, <1>7 DEF Fetched
  <1> QED
    BY <1>8 DEF G

LEMMA OpFetched ==
    ASSUME HomeInv, NEW o, Readable(o), NEW n \in 26..29, NEW a \in ArmMachines
    PROVE  Fetched(a, GetARMRegFromLLVMOp(o, n), n, Held(a, o)) /\ Held(a, o) \in Int
  <1>1. CASE o.kind = "imm"
    BY <1>1, NumberFetched DEF Readable, Held, GetARMRegFromLLVMOp
  <1>2. CASE o.kind # "imm"
    BY <1>2, RegOfFetches, ContentTyped DEF Readable, Held, GetARMRegFromLLVMOp
  <1> QED
    BY <1>1, <1>2

(* Two operands, one after the other.                                      *)
LEMMA BothFetched ==
    ASSUME HomeInv, NEW o, NEW p, Readable(o), Readable(p), NEW a \in ArmMachines
    PROVE  LET G == GetARMRegFromLLVMOp(o, 26)
               H == GetARMRegFromLLVMOp(p, G.n)
           IN  /\ Takes(G, 26) /\ Takes(H, G.n) /\ G.n \in 26..27 /\ H.n \in 26..28
               /\ \E b : /\ Runs(a, G.code \o H.code, b) /\ Apart(a, b, Scratch)
                         /\ b.reg[G.opnd.n] = Held(a, o) /\ b.reg[H.opnd.n] = Held(a, p)
  <1> DEFINE G == GetARMRegFromLLVMOp(o, 26)
             H == GetARMRegFromLLVMOp(p, G.n)
  <1>1. Fetched(a, G, 26, Held(a, o))
    BY OpFetched
  <1> HIDE DEF G
  <1>2. PICK b : Runs(a, G.code, b) /\ Apart(a, b, {26}) /\ b.reg[G.opnd.n] = Held(a, o)
    BY <1>1 DEF Fetched
  <1>3. Takes(G, 26) /\ G.n \in 26..27 /\ G.n \in 26..29 /\ G.opnd.n \in HomeRegisters \cup {26}
    BY <1>1 DEF Fetched, Takes
  <1>4. b \in ArmMachines
    BY <1>2 DEF Apart
  <1>5. Fetched(b, H, G.n, Held(b, p))
    BY <1>3, <1>4, OpFetched
  <1> HIDE DEF H
  <1>6. PICK e : Runs(b, H.code, e) /\ Apart(b, e, {G.n}) /\ e.reg[H.opnd.n] = Held(b, p)
    BY <1>5 DEF Fetched
  <1>7. Takes(H, G.n) /\ H.n \in 26..28
    BY <1>3, <1>5 DEF Fetched, Takes
  <1>8. Held(b, p) = Held(a, p)
    <2>1. CASE p.kind = "imm"
      BY <2>1 DEF Held
    <2>2. CASE p.kind # "imm"
      <3>1. LocalOf(p) \in Local
        BY <2>2 DEF Readable
      <3>2. InRegister(LocalOf(p)) => home[LocalOf(p)].n \in HomeRegisters
        BY <3>1, HomeFacts
      <3>3. \A n \in HomeRegisters : n \in Registers \ {26}
        BY RegisterFacts DEF Scratch
      <3>4. Content(b, LocalOf(p)) = Content(a, LocalOf(p))
        BY <1>2, <3>2, <3>3 DEF Content, Apart
      <3> QED
        BY <2>2, <3>4 DEF Held
    <2> QED
      BY <2>1, <2>2
  <1>9. e.reg[G.opnd.n] = Held(a, o)
    <2>1. G.opnd.n \in Registers \ {G.n}
      <3>1. \A n \in HomeRegisters : n \in Registers \ {26, 27}
        BY RegisterFacts DEF Scratch
      <3>2. G.opnd.n = 26 => G.n = 27 /\ 26 \in Registers
        BY <1>3, ScratchFacts DEF Takes
      <3> QED
        BY <1>3, <3>1, <3>2
    <2> QED
      BY <1>2, <1>6, <2>1 DEF Apart
  <1>10. Apart(a, e, Scratch)
    <2>1. {26} \cup {G.n} \subseteq Scratch
      BY <1>3, ScratchFacts
    <2> QED
      BY <1>2, <1>6, <2>1, ApartOn
  <1>11. Runs(a, G.code \o H.code, e)
    BY <1>2, <1>6, RunsOn
  <1>12. e.reg[H.opnd.n] = Held(a, p)
    BY <1>6, <1>8
  <1> QED
    BY <1>3, <1>7, <1>9, <1>10, <1>11, <1>12 DEF G, H

-----------------------------------------------------------------------------
(* From a to b the home of local d gets the value x, and no other changes. *)
Assigned(a, b, d, x) ==
    /\ b \in ArmMachines /\ b.out = a.out
    /\ InRegister(d) => /\ b.mem = a.mem /\ b.reg[home[d].n] = x
                        /\ \A n \in HomeRegisters \ {home[d].n} : b.reg[n] = a.reg[n]
    /\ ~InRegister(d) => /\ b.mem = [a.mem EXCEPT ![home[d].n] = x]
                         /\ \A n \in HomeRegisters : b.reg[n] = a.reg[n]

LEMMA MovedHome ==
    ASSUME HomeInv, NEW d \in Local, NEW a, NEW b, Apart(a, b, Scratch), InRegister(d),
           NEW x \in Int
    PROVE  Assigned(a, PutReg(b, home[d].n, x), d, x)
  <1> DEFINE r == home[d].n
             c == PutReg(b, r, x)
  <1>1. r \in HomeRegisters /\ r \in Registers /\ b \in ArmMachines
    BY HomeFacts, RegisterFacts DEF Apart
  <1>2. Apart(b, c, {r}) /\ c.reg[r] = x
    BY <1>1, PutRegDoes
  <1> HIDE DEF c
  <1>3. \A n \in HomeRegisters \ {r} : c.reg[n] = a.reg[n]
    BY <1>2, RegisterFacts DEF Apart
  <1>4. c \in ArmMachines /\ c.out = a.out /\ c.mem = a.mem
    BY <1>2 DEF Apart
  <1>5. Assigned(a, c, d, x)
    BY <1>2, <1>3, <1>4 DEF Assigned
  <1> QED
    BY <1>5 DEF c

LEMMA StoredHome ==
    ASSUME HomeInv, NEW d \in Local, NEW a, NEW b, Apart(a, b, Scratch), ~InRegister(d),
           NEW x \in Int
    PROVE  Assigned(a, PutMem(b, home[d].n, x), d, x)
  <1> DEFINE p == home[d].n
             c == PutMem(b, p, x)
  <1>1. p \in Places /\ b \in ArmMachines
    BY HomeFacts DEF Apart
  <1>2. c = [b EXCEPT !.mem = [b.mem EXCEPT ![p] = x]]
    BY DEF PutMem
  <1>3. c.reg = b.reg /\ c.mem = [b.mem EXCEPT ![p] = x] /\ c.flags = b.flags /\ c.out = b.out
    BY <1>1, <1>2, ArmShape
  <1>4. c.mem \in [Places -> Int]
    BY <1>1, <1>3, ArmShape
  <1>5. c \in ArmMachines
    BY <1>1, <1>2, <1>3, <1>4, ArmShape DEF ArmMachines
  <1> HIDE DEF c
  <1>6. c.mem = [a.mem EXCEPT ![p] = x] /\ c.out = a.out
    BY <1>3 DEF Apart
  <1>7. \A n \in HomeRegisters : c.reg[n] = a.reg[n]
    BY <1>3, RegisterFacts DEF Apart
  <1>8. Assigned(a, c, d, x)
    BY <1>5, <1>6, <1>7 DEF Assigned
  <1> QED
    BY <1>8 DEF c

LEMMA FlagsKept ==
    ASSUME NEW a \in ArmMachines, NEW r, NEW x
    PROVE  PutReg(a, r, x).flags = a.flags /\ PutMem(a, r, x).flags = a.flags
  BY DEF ArmMachines, PutReg, PutMem

LEMMA ResultStored ==
    ASSUME HomeInv, NEW dest, dest.kind = "temp", dest.id \in Local,
           NEW a, NEW b, Apart(a, b, Scratch), NEW n \in 0..29, n \in Registers
    PROVE  /\ Fine(StoreResult(dest, n))
           /\ \E c : Runs(b, StoreResult(dest, n), c) /\ Assigned(a, c, dest.id, b.reg[n])
                 /\ c.flags = b.flags
  <1> DEFINE d == dest.id
             s == StoreResult(dest, n)
  <1>0. LocalOf(dest) = d /\ b \in ArmMachines /\ b.reg[n] \in Int
    BY ArmShape DEF LocalOf, Apart
  <1>1. CASE InRegister(d)
    <2> DEFINE in == Mov(home[d].n, Reg(n))
               c == PutReg(b, home[d].n, b.reg[n])
    <2>1. s = <<in>>
      BY <1>0, <1>1 DEF StoreResult
    <2>2. home[d].n \in 0..29
      BY <1>1, HomeFacts, RegisterFacts
    <2>3. Ok(in)
      <3>1. Reg(n).kind = "reg" => Reg(n).n \in 0..29
        BY OperandKinds
      <3> QED
        BY <2>2, <3>1, OkShape DEF Mov
    <2>4. ArmExec(b, in) = c
      BY MovDoes, OperandKinds DEF ValueIn
    <2>5. Assigned(a, c, d, b.reg[n])
      BY <1>0, <1>1, MovedHome
    <2>6. c.flags = b.flags
      BY <1>0, FlagsKept
    <2> QED
      BY <2>1, <2>3, <2>4, <2>5, <2>6, FineFew, RunsOne
  <1>2. CASE ~InRegister(d)
    <2> DEFINE in == Str(n, home[d])
               c == PutMem(b, home[d].n, b.reg[n])
    <2>1. s = <<in>>
      BY <1>0, <1>2 DEF StoreResult
    <2>2. home[d].kind = "addr" /\ home[d].n \in Places
      BY <1>2, HomeFacts
    <2>3. Ok(in)
      BY <2>2, OkShape DEF Str
    <2>4. ArmExec(b, in) = c
      <3>1. ValueIn(b, home[d]) = home[d].n /\ home[d].n \in DOMAIN b.mem
        BY <1>0, <2>2, ArmShape DEF ValueIn
      <3> QED
        BY <3>1, StrDoes
    <2>5. Assigned(a, c, d, b.reg[n])
      BY <1>0, <1>2, StoredHome
    <2>6. c.flags = b.flags
      BY <1>0, FlagsKept
    <2> QED
      BY <2>1, <2>3, <2>4, <2>5, <2>6, FineFew, RunsOne
  <1> QED
    BY <1>1, <1>2

-----------------------------------------------------------------------------
(* What the code of each instruction does, from x26 on.                    *)
Gives(a, code, d, x) == Fine(code) /\ \E b : Runs(a, code, b) /\ Assigned(a, b, d, x)

LEMMA TailStored ==
    ASSUME HomeInv, NEW dest, dest.kind = "temp", dest.id \in Local,
           NEW a, NEW b, NEW c, NEW C, NEW T, Runs(a, C, b), Apart(a, b, Scratch),
           Runs(b, T, c), Apart(b, c, Scratch), NEW n \in 0..29, n \in Registers
    PROVE  /\ Gives(a, C \o T \o StoreResult(dest, n), dest.id, c.reg[n])
           /\ \E e : /\ Runs(a, C \o T \o StoreResult(dest, n), e)
                     /\ Assigned(a, e, dest.id, c.reg[n]) /\ e.flags = c.flags
  <1>1. Runs(a, C \o T, c) /\ Apart(a, c, Scratch)
    BY RunsOn, ApartOn
  <1>2. PICK e : /\ Runs(c, StoreResult(dest, n), e) /\ Assigned(a, e, dest.id, c.reg[n])
                 /\ e.flags = c.flags
    BY <1>1, ResultStored
  <1>3. Runs(a, (C \o T) \o StoreResult(dest, n), e)
    BY <1>1, <1>2, RunsOn
  <1> QED
    BY <1>2, <1>3 DEF Gives, Runs

LEMMA ArithmeticInt ==
    ASSUME NEW x \in Int, NEW y \in Int, NEW op \in {"add", "sub", "mul", "sdiv", "and", "or"}
    PROVE  Arithmetic(op, x, y) \in Int
  <1>1. Quotient(x, y) \in Int
    <2>1. CASE y = 0
      BY <2>1 DEF Quotient
    <2>2. CASE y # 0
      <3>1. Abs(x) \in Nat /\ Abs(y) \in Nat \ {0}
        BY <2>2 DEF Abs
      <3>2. Abs(x) \div Abs(y) \in Int
        BY <3>1
      <3>3. 1 * (Abs(x) \div Abs(y)) \in Int /\ (-1) * (Abs(x) \div Abs(y)) \in Int
        BY <3>2
      <3> QED
        BY <2>2, <3>3 DEF Quotient
    <2> QED
      BY <2>1, <2>2
  <1>2. Both(x, y) \in Int /\ Either(x, y) \in Int
    BY DEF Both, Either, Bit
  <1>3. x + y \in Int /\ x - y \in Int /\ x * y \in Int
    OBVIOUS
  <1> QED
    BY <1>1, <1>2, <1>3 DEF Arithmetic

(* An instruction that leaves x in the scratch register n.                 *)
LEMMA ScratchWritten ==
    ASSUME NEW a \in ArmMachines, NEW n \in {0, 16} \cup 26..29, NEW x \in Int, NEW in, Ok(in),
           ArmExec(a, in) = PutReg(a, n, x)
    PROVE  \E b : /\ Runs(a, <<in>>, b) /\ Apart(a, b, Scratch) /\ Apart(a, b, {n})
                  /\ b.reg[n] = x /\ b.flags = a.flags
  <1>1. n \in Registers /\ n \in Scratch /\ {n} \subseteq Scratch
    BY DEF Registers, Scratch
  <1>2. /\ Apart(a, PutReg(a, n, x), {n}) /\ PutReg(a, n, x).reg[n] = x
        /\ PutReg(a, n, x).flags = a.flags
    BY <1>1, PutRegDoes
  <1>3. Runs(a, <<in>>, PutReg(a, n, x))
    BY RunsOne
  <1> QED
    BY <1>1, <1>2, <1>3, ApartFrom

LEMMA BinOpGives ==
    ASSUME HomeInv, next = 26, NEW d \in Local, NEW ty, NEW a \in ArmMachines,
           NEW o, NEW p, Readable(o), Readable(p),
           NEW op \in {"add", "sub", "mul", "sdiv", "and", "or"}
    PROVE  Gives(a, BinOpCode(BinOp(Temp(d, ty), op, o, p)), d,
                 Arithmetic(op, Held(a, o), Held(a, p)))
  <1> DEFINE in == BinOp(Temp(d, ty), op, o, p)
             G == GetARMRegFromLLVMOp(o, 26)
             H == GetARMRegFromLLVMOp(p, G.n)
             i == ARMBinOp(ToARM(op), H.n, G.opnd.n, H.opnd.n)
             x == Arithmetic(op, Held(a, o), Held(a, p))
  <1>1. in.args[1] = o /\ in.args[2] = p /\ in.code = op /\ in.dest = Temp(d, ty)
    BY DEF BinOp, Instr
  <1>2. BinOpCode(in) = (G.code \o H.code) \o <<i>> \o StoreResult(Temp(d, ty), H.n)
    BY <1>1 DEF BinOpCode
  <1>3. Temp(d, ty).kind = "temp" /\ Temp(d, ty).id = d
    BY DEF Temp
  <1>4. PICK b : /\ Runs(a, G.code \o H.code, b) /\ Apart(a, b, Scratch)
                 /\ b.reg[G.opnd.n] = Held(a, o) /\ b.reg[H.opnd.n] = Held(a, p)
    BY BothFetched
  <1>5. Takes(G, 26) /\ G.n \in 26..27 /\ H.n \in 26..28
    BY BothFetched
  <1>6. x \in Int /\ b \in ArmMachines
    BY <1>4, OpFetched, ArithmeticInt DEF Apart
  <1> HIDE DEF in, G, H
  <1>7. ArmExec(b, i) = PutReg(b, H.n, x)
    BY <1>4, BinOpDoes
  <1>8. Ok(i)
    <2>1. G.opnd.n \in 0..29
      BY <1>5, TakenFacts
    <2>2. Reg(G.opnd.n).kind = "reg" => Reg(G.opnd.n).n \in 0..29
      BY <2>1, OperandKinds
    <2> QED
      BY <1>5, <2>2, OkShape DEF ARMBinOp
  <1> HIDE DEF i, x
  <1>9. H.n \in 26..29 /\ H.n \in 0..29 /\ H.n \in Registers /\ H.n \in {0, 16} \cup 26..29
    BY <1>5, ScratchFacts
  <1>10. PICK c : Runs(b, <<i>>, c) /\ Apart(b, c, Scratch) /\ c.reg[H.n] = x
    BY <1>6, <1>7, <1>8, <1>9, ScratchWritten
  <1>11. Gives(a, (G.code \o H.code) \o <<i>> \o StoreResult(Temp(d, ty), H.n), d, x)
    BY <1>3, <1>4, <1>9, <1>10, TailStored
  <1>12. Gives(a, BinOpCode(in), d, x)
    BY <1>2, <1>11
  <1> QED
    BY <1>12 DEF in, x

(* Comparing, and keeping what comes out in the scratch register n.        *)
LEMMA CompareSets ==
    ASSUME NEW a \in ArmMachines, NEW u, NEW v, NEW n \in 26..29, NEW cc,
           u.kind = "reg" => u.n \in 0..29, ValueIn(a, u) \in Int, ValueIn(a, v) \in Int
    PROVE  LET T == <<Cmp(u, v), Cset(n, cc)>>
           IN  \E b : /\ Runs(a, T, b) /\ Apart(a, b, Scratch)
                      /\ b.flags = <<ValueIn(a, u), ValueIn(a, v)>>
                      /\ b.reg[n] = Bit(ArmCond(cc, ValueIn(a, u), ValueIn(a, v)))
  <1> DEFINE f == <<ValueIn(a, u), ValueIn(a, v)>>
             b == [a EXCEPT !.flags = f]
             x == Bit(ArmCond(cc, ValueIn(a, u), ValueIn(a, v)))
             c == PutReg(b, n, x)
  <1>1. ArmExec(a, Cmp(u, v)) = b
    BY CmpDoes
  <1>2. f \in Int \X Int /\ f[1] = ValueIn(a, u) /\ f[2] = ValueIn(a, v)
    OBVIOUS
  <1>3. Apart(a, b, {}) /\ b.flags = f
    BY <1>2, FlagsDo
  <1> HIDE DEF b, f
  <1>4. ArmExec(b, Cset(n, cc)) = c
    BY <1>2, <1>3, CsetDoes
  <1>5. x \in Int
    BY DEF Bit
  <1>6. Imm(0).kind # "reg"
    BY OperandKinds
  <1>7. Ok(Cmp(u, v)) /\ Ok(Cset(n, cc))
    <2>1. 0 \in 0..29 /\ n \in 0..29
      BY ScratchFacts
    <2>2. Ok(ARM("cmp", "", 0, u, v))
      BY <2>1, OkShape
    <2>3. Ok(ARM("cset", cc, n, Imm(0), Imm(0)))
      BY <1>6, <2>1, OkShape
    <2> QED
      BY <2>2, <2>3 DEF Cmp, Cset
  <1> HIDE DEF x
  <1>8. Apart(b, c, {n}) /\ c.reg[n] = x /\ c.flags = b.flags
    <2>1. b \in ArmMachines /\ n \in Registers
      BY <1>3, ScratchFacts DEF Apart
    <2> QED
      BY <1>5, <2>1, PutRegDoes
  <1>9. Apart(a, c, Scratch)
    BY <1>3, <1>8, ApartOn, ScratchFacts
  <1>10. Runs(a, <<Cmp(u, v), Cset(n, cc)>>, c)
    BY <1>1, <1>4, <1>7, RunsTwo
  <1>11. c.flags = <<ValueIn(a, u), ValueIn(a, v)>>
    BY <1>3, <1>8 DEF f
  <1> QED
    BY <1>8, <1>9, <1>10, <1>11 DEF x

LEMMA ICMPGives ==
    ASSUME HomeInv, next = 26, NEW d \in Local, NEW ty, NEW ty2, NEW a \in ArmMachines,
           NEW o, NEW p, Readable(o), Readable(p),
           NEW cc \in {"eq", "ne", "sgt", "sge", "slt", "sle"}
    PROVE  Gives(a, ICMPCode(ICMP(Temp(d, ty), cc, ty2, o, p)), d,
                 Bit(Holds(cc, Held(a, o), Held(a, p))))
  <1> DEFINE in == ICMP(Temp(d, ty), cc, ty2, o, p)
             G == GetARMRegFromLLVMOp(o, 26)
             H == GetARMRegFromLLVMOp(p, G.n)
             n == H.n + 1
             T == <<Cmp(G.opnd, H.opnd), Cset(n, ToARM(cc))>>
             x == Bit(Holds(cc, Held(a, o), Held(a, p)))
  <1>1. in.args[1] = o /\ in.args[2] = p /\ in.code = cc /\ in.dest = Temp(d, ty)
    BY DEF ICMP, Instr
  <1>2. ICMPCode(in) = (G.code \o H.code) \o T \o StoreResult(Temp(d, ty), n)
    BY <1>1 DEF ICMPCode, ICMPResult
  <1>3. Temp(d, ty).kind = "temp" /\ Temp(d, ty).id = d
    BY DEF Temp
  <1>4. PICK b : /\ Runs(a, G.code \o H.code, b) /\ Apart(a, b, Scratch)
                 /\ b.reg[G.opnd.n] = Held(a, o) /\ b.reg[H.opnd.n] = Held(a, p)
    BY BothFetched
  <1>5. Takes(G, 26) /\ Takes(H, G.n) /\ G.n \in 26..27 /\ H.n \in 26..28
    BY BothFetched
  <1>6. Held(a, o) \in Int /\ Held(a, p) \in Int /\ b \in ArmMachines
    BY <1>4, OpFetched DEF Apart
  <1> HIDE DEF in, G, H
  <1>7. ValueIn(b, G.opnd) = Held(a, o) /\ ValueIn(b, H.opnd) = Held(a, p)
    BY <1>4, <1>5 DEF Takes, ValueIn
  <1>8. n \in 26..29 /\ n \in 0..29 /\ n \in Registers
    BY <1>5, ScratchFacts
  <1>9. G.opnd.kind = "reg" => G.opnd.n \in 0..29
    BY <1>5, TakenFacts
  <1> HIDE DEF n
  <1>10. PICK c : /\ Runs(b, T, c) /\ Apart(b, c, Scratch)
                  /\ c.reg[n] = Bit(ArmCond(ToARM(cc), ValueIn(b, G.opnd), ValueIn(b, H.opnd)))
    BY <1>6, <1>7, <1>8, <1>9, CompareSets
  <1>11. c.reg[n] = x
    BY <1>7, <1>10, SameConditions
  <1> HIDE DEF T, x
  <1>12. Gives(a, (G.code \o H.code) \o T \o StoreResult(Temp(d, ty), n), d, x)
    BY <1>3, <1>4, <1>8, <1>10, <1>11, TailStored
  <1>13. Gives(a, ICMPCode(in), d, x)
    BY <1>2, <1>12
  <1> QED
    BY <1>13 DEF in, x

(* The flags of the selection are there for the branch.                    *)
Leaves(a, code, d, x, f) == \E e : Runs(a, code, e) /\ Assigned(a, e, d, x) /\ e.flags = f

LEMMA SelectGives ==
    ASSUME HomeInv, next = 26, NEW d \in Local, NEW ty, NEW ty2, NEW a \in ArmMachines,
           NEW o, Readable(o)
    PROVE  LET code == SelectCode(Select(Temp(d, ty), o, ty2))
               x == IF Held(a, o) = 1 THEN 1 ELSE 0
           IN  /\ Gives(a, code, d, x)
               /\ Leaves(a, code, d, x, <<Held(a, o), 1>>)
  <1> DEFINE in == Select(Temp(d, ty), o, ty2)
             G == GetARMRegFromLLVMOp(o, 26)
             T == <<Cmp(G.opnd, Imm(1)), Cset(G.n, "eq")>>
             x == IF Held(a, o) = 1 THEN 1 ELSE 0
  <1>1. in.args[1] = o /\ in.dest = Temp(d, ty)
    BY DEF Select, Instr
  <1>2. SelectCode(in) = G.code \o T \o StoreResult(Temp(d, ty), G.n)
    BY <1>1 DEF SelectCode
  <1>3. Temp(d, ty).kind = "temp" /\ Temp(d, ty).id = d
    BY DEF Temp
  <1>4. Fetched(a, G, 26, Held(a, o)) /\ Held(a, o) \in Int
    BY OpFetched
  <1> HIDE DEF in, G
  <1>5. Takes(G, 26) /\ G.n \in 26..29 /\ G.n \in 0..29 /\ G.n \in Registers
    BY <1>4, ScratchFacts DEF Fetched, Takes
  <1>6. PICK b : Runs(a, G.code, b) /\ Apart(a, b, {26}) /\ b.reg[G.opnd.n] = Held(a, o)
    BY <1>4 DEF Fetched
  <1>7. Apart(a, b, Scratch) /\ b \in ArmMachines
    BY <1>6, ApartFrom, ScratchFacts DEF Apart
  <1>8. ValueIn(b, G.opnd) = Held(a, o) /\ ValueIn(b, Imm(1)) = 1
    BY <1>5, <1>6, OperandKinds DEF Takes, ValueIn
  <1>9. G.opnd.kind = "reg" => G.opnd.n \in 0..29
    BY <1>5, TakenFacts
  <1>10. PICK c : /\ Runs(b, T, c) /\ Apart(b, c, Scratch)
                  /\ c.flags = <<ValueIn(b, G.opnd), ValueIn(b, Imm(1))>>
                  /\ c.reg[G.n] = Bit(ArmCond("eq", ValueIn(b, G.opnd), ValueIn(b, Imm(1))))
    <2>1. ValueIn(b, G.opnd) \in Int /\ ValueIn(b, Imm(1)) \in Int /\ b \in ArmMachines
      BY <1>4, <1>7, <1>8
    <2> DEFINE u == G.opnd
               v == Imm(1)
               n == G.n
    <2>2. /\ u.kind = "reg" => u.n \in 0..29
          /\ ValueIn(b, u) \in Int /\ ValueIn(b, v) \in Int /\ n \in 26..29 /\ b \in ArmMachines
      BY <1>5, <1>9, <2>1
    <2> HIDE DEF u, v, n
    <2>3. \E c : /\ Runs(b, <<Cmp(u, v), Cset(n, "eq")>>, c) /\ Apart(b, c, Scratch)
                 /\ c.flags = <<ValueIn(b, u), ValueIn(b, v)>>
                 /\ c.reg[n] = Bit(ArmCond("eq", ValueIn(b, u), ValueIn(b, v)))
      BY <2>2, CompareSets
    <2> QED
      BY <2>3 DEF u, v, n
  <1>11. c.reg[G.n] = x
    BY <1>8, <1>10 DEF ArmCond, Bit
  <1> HIDE DEF T, x
  <1>12. Gives(a, G.code \o T \o StoreResult(Temp(d, ty), G.n), d, x)
    BY <1>3, <1>5, <1>6, <1>7, <1>10, <1>11, TailStored
  <1>13. PICK e : /\ Runs(a, G.code \o T \o StoreResult(Temp(d, ty), G.n), e)
                  /\ Assigned(a, e, d, x) /\ e.flags = c.flags
    BY <1>3, <1>5, <1>6, <1>7, <1>10, <1>11, TailStored
  <1>14. c.flags = <<Held(a, o), 1>>
    BY <1>8, <1>10
  <1>15. Gives(a, SelectCode(in), d, x) /\ Runs(a, SelectCode(in), e)
    BY <1>2, <1>12, <1>13
  <1>16. Leaves(a, SelectCode(in), d, x, <<Held(a, o), 1>>)
    BY <1>13, <1>14, <1>15 DEF Leaves
  <1> QED
    BY <1>15, <1>16 DEF in, x

LEMMA CopyGives ==
    ASSUME HomeInv, next = 26, NEW d \in Local, NEW ty, NEW ty2, NEW a \in ArmMachines,
           NEW o, Readable(o)
    PROVE  Gives(a, CopyCode(Bitcast(Temp(d, ty), o, ty2)), d, Held(a, o))
  <1> DEFINE in == Bitcast(Temp(d, ty), o, ty2)
             G == GetARMRegFromLLVMOp(o, 26)
  <1>1. in.args[1] = o /\ in.dest = Temp(d, ty)
    BY DEF Bitcast, Instr
  <1>2. CopyCode(in) = G.code \o StoreResult(Temp(d, ty), G.opnd.n)
    BY <1>1 DEF CopyCode
  <1>3. Temp(d, ty).kind = "temp" /\ Temp(d, ty).id = d
    BY DEF Temp
  <1>4. Fetched(a, G, 26, Held(a, o))
    BY OpFetched
  <1> HIDE DEF in, G
  <1>5. Takes(G, 26) /\ G.opnd.n \in 0..29 /\ G.opnd.n \in Registers
    BY <1>4, TakenFacts DEF Fetched
  <1>6. PICK b : Runs(a, G.code, b) /\ Apart(a, b, {26}) /\ b.reg[G.opnd.n] = Held(a, o)
    BY <1>4 DEF Fetched
  <1>7. Apart(a, b, Scratch)
    BY <1>6, ApartFrom, ScratchFacts
  <1>8. PICK c : Runs(b, StoreResult(Temp(d, ty), G.opnd.n), c) /\ Assigned(a, c, d, Held(a, o))
    BY <1>3, <1>5, <1>6, <1>7, ResultStored
  <1>9. Runs(a, CopyCode(in), c)
    BY <1>2, <1>6, <1>8, RunsOn
  <1>10. Gives(a, CopyCode(in), d, Held(a, o))
    BY <1>8, <1>9 DEF Gives, Runs
  <1> QED
    BY <1>10 DEF in

-----------------------------------------------------------------------------
(* Instructions whose results go straight to a register.                   *)
LEMMA OperandFacts ==
    ASSUME NEW d, NEW ty
    PROVE  /\ Temp(d, ty).kind = "temp" /\ Temp(d, ty).id = d /\ LocalOf(Temp(d, ty)) = d
           /\ ~IsGlobal(Temp(d, ty))
           /\ Variable(d, ty).kind = "var" /\ Variable(d, ty).name = d
           /\ LocalOf(Variable(d, ty)) = d /\ (IsGlobal(Variable(d, ty)) <=> d \in Global)
  BY DEF Temp, Variable, LocalOf, IsGlobal

LEMMA LocalNotGlobal ==
    ASSUME NEW d \in Local
    PROVE  d \notin Global /\ d # 0
  BY BoundsAssumption DEF Local, Global, Count, Struct

LEMMA RegOfRegister ==
    ASSUME NEW d, InRegister(d), NEW n
    PROVE  /\ RegOf(d, n).code = <<>> /\ RegOf(d, n).opnd = home[d] /\ RegOf(d, n).n = n
  BY DEF RegOf, Got

LEMMA RegOfFine ==
    ASSUME HomeInv, NEW d \in Local, NEW n \in 26..29, NEW a \in ArmMachines
    PROVE  LET G == RegOf(d, n)
           IN  /\ Fine(G.code) /\ G.opnd.n \in 0..29 /\ G.n \in n..(n + 1)
               /\ Reg(G.opnd.n).kind = "reg" /\ Reg(G.opnd.n).n \in 0..29
  <1> DEFINE G == RegOf(d, n)
  <1>1. Takes(G, n)
    BY RegOfFetches DEF Fetched
  <1> HIDE DEF G
  <1>2. Fine(G.code) /\ G.opnd.n \in 0..29 /\ G.n \in n..(n + 1)
    BY <1>1, TakenFacts
  <1> QED
    BY <1>2, OperandKinds DEF G

LEMMA FineOn ==
    ASSUME NEW c, Fine(c), NEW in, Ok(in)
    PROVE  Fine(c \o <<in>>)
  BY FineFew, FineJoin

LEMMA EndsInHome ==
    ASSUME HomeInv, NEW d \in Local, InRegister(d), NEW a, NEW b, NEW C,
           Runs(a, C, b), Apart(a, b, Scratch), NEW in, Ok(in), NEW x \in Int,
           ArmExec(b, in) = PutReg(b, home[d].n, x)
    PROVE  Gives(a, C \o <<in>>, d, x)
  <1>1. Runs(b, <<in>>, PutReg(b, home[d].n, x))
    BY RunsOne
  <1>2. Runs(a, C \o <<in>>, PutReg(b, home[d].n, x))
    BY <1>1, RunsOn
  <1>3. Assigned(a, PutReg(b, home[d].n, x), d, x)
    BY MovedHome
  <1> QED
    BY <1>2, <1>3 DEF Gives, Runs

LEMMA GEPGives ==
    ASSUME HomeInv, next = 26, NEW d \in Local, NEW s \in Local, NEW ty, NEW ty2,
           NEW a \in ArmMachines, NEW field
    PROVE  LET code == GEPCode(GetElementPtr(Temp(d, ty), Temp(s, ty2), field))
           IN  /\ Fine(code)
               /\ InRegister(d) => Gives(a, code, d, Content(a, s) + Offset(field))
  <1> DEFINE in == GetElementPtr(Temp(d, ty), Temp(s, ty2), field)
             G == RegOf(d, 26)
             H == RegOf(s, G.n)
             i == AddImm(G.opnd.n, H.opnd.n, Offset(field))
             x == Content(a, s) + Offset(field)
  <1>1. in.args[1] = Temp(s, ty2) /\ in.dest = Temp(d, ty) /\ in.code = field
    BY DEF GetElementPtr, Instr
  <1>2. GEPCode(in) = G.code \o H.code \o <<i>>
    <2>1. GetARMRegFromLLVMReg(in.dest, next) = G
      BY <1>1, OperandFacts DEF GetARMRegFromLLVMReg
    <2>2. GetARMRegFromLLVMReg(in.args[1], G.n) = H
      BY <1>1, OperandFacts DEF GetARMRegFromLLVMReg
    <2> QED
      BY <1>1, <2>1, <2>2, Zenon DEF GEPCode
  <1>3. Fine(G.code) /\ G.opnd.n \in 0..29 /\ G.n \in 26..27
    BY RegOfFine
  <1>4. G.n \in 26..29
    BY <1>3
  <1>5. Fetched(a, H, G.n, Content(a, s))
    BY <1>4, RegOfFetches
  <1>6. Fine(H.code) /\ H.opnd.n \in 0..29 /\ Reg(H.opnd.n).n \in 0..29
    BY <1>4, RegOfFine
  <1>7. Ok(i)
    BY <1>3, <1>6, OkShape DEF AddImm
  <1>8. Fine(G.code \o H.code \o <<i>>)
    BY <1>3, <1>6, <1>7, FineOn, FineJoin
  <1>9. ASSUME InRegister(d) PROVE Gives(a, G.code \o H.code \o <<i>>, d, x)
    <2>1. G.code = <<>> /\ G.opnd = home[d]
      BY <1>9, RegOfRegister
    <2> HIDE DEF G
    <2>2. Runs(a, G.code, a)
      BY <2>1, RunsNothing
    <2> HIDE DEF H
    <2>3. PICK b : Runs(a, H.code, b) /\ Apart(a, b, {G.n}) /\ b.reg[H.opnd.n] = Content(a, s)
      BY <1>5 DEF Fetched
    <2>4. Runs(a, G.code \o H.code, b)
      BY <2>2, <2>3, RunsOn
    <2>5. Apart(a, b, Scratch)
      BY <1>4, <2>3, ApartFrom, ScratchFacts
    <2>6. ArmExec(b, i) = PutReg(b, home[d].n, x)
      BY <2>1, <2>3, AddImmDoes
    <2>7. x \in Int
      BY ContentTyped DEF Offset
    <2> HIDE DEF i, x
    <2> QED
      BY <1>7, <1>9, <2>4, <2>5, <2>6, <2>7, EndsInHome
  <1> HIDE DEF in, G, H, i, x
  <1>10. Fine(GEPCode(in)) /\ (InRegister(d) => Gives(a, GEPCode(in), d, x))
    BY <1>2, <1>8, <1>9
  <1> QED
    BY <1>10 DEF in, x

LEMMA MallocGives ==
    ASSUME HomeInv, NEW d \in Local, NEW ty, NEW a \in ArmMachines
    PROVE  Gives(a, MallocCode(Malloc(Temp(d, ty))), d, NewObject)
  <1> DEFINE in == Malloc(Temp(d, ty))
             T == <<Mov(0, Imm(16)), Bl("malloc")>>
             b == PutReg(a, 0, 16)
             c == PutReg(b, 0, NewObject)
  <1>1. in.dest = Temp(d, ty)
    BY DEF Malloc, Instr
  <1>2. MallocCode(in) = T \o StoreResult(Temp(d, ty), 0)
    BY <1>1 DEF MallocCode
  <1>3. ArmExec(a, Mov(0, Imm(16))) = b /\ ArmExec(b, Bl("malloc")) = c
    BY MovDoes, BlDoes, OperandKinds DEF ValueIn
  <1>4. Ok(Mov(0, Imm(16))) /\ Ok(Bl("malloc"))
    <2>1. 0 \in 0..29 /\ Imm(16).kind # "reg" /\ Imm(0).kind # "reg"
      BY OperandKinds
    <2> QED
      BY <2>1, OkShape DEF Mov, Bl
  <1>5. 0 \in Registers /\ 0 \in Scratch /\ {0} \cup {0} \subseteq Scratch /\ 0 \in 0..29
    BY DEF Registers, Scratch
  <1>6. NewObject \in Int /\ 16 \in Int
    BY DEF NewObject
  <1>7. Apart(a, b, {0})
    BY <1>5, <1>6, PutRegDoes
  <1>8. b \in ArmMachines
    BY <1>7 DEF Apart
  <1> HIDE DEF b
  <1>9. Apart(b, c, {0}) /\ c.reg[0] = NewObject
    BY <1>5, <1>6, <1>8, PutRegDoes
  <1> HIDE DEF c
  <1>10. Runs(a, T, c) /\ Apart(a, c, Scratch)
    BY <1>3, <1>4, <1>5, <1>7, <1>9, RunsTwo, ApartOn
  <1> HIDE DEF T
  <1>11. PICK e : Runs(c, StoreResult(Temp(d, ty), 0), e) /\ Assigned(a, e, d, c.reg[0])
    BY <1>5, <1>10, OperandFacts, ResultStored
  <1>12. Runs(a, MallocCode(in), e) /\ Assigned(a, e, d, NewObject)
    BY <1>2, <1>9, <1>10, <1>11, RunsOn
  <1> QED
    BY <1>12 DEF Gives, Runs, in

(* An argument or a result is moved to x0.                                 *)
Argument(v) ==
    CASE v.kind = "imm" -> Mov(0, Imm(v.val))
      [] v.kind = "temp" -> IF InRegister(v.id) THEN Mov(0, home[v.id]) ELSE Ldr(0, home[v.id])
Plain(o) == o.kind \in {"imm", "temp"}

LEMMA ArgumentMoved ==
    ASSUME HomeInv, NEW o, Readable(o), Plain(o), NEW a \in ArmMachines
    PROVE  /\ Ok(Argument(o)) /\ ArmExec(a, Argument(o)) = PutReg(a, 0, Held(a, o))
           /\ Held(a, o) \in Int
  <1>1. 0 \in 0..29
    OBVIOUS
  <1>2. CASE o.kind = "imm"
    <2>1. Argument(o) = Mov(0, Imm(o.val)) /\ Held(a, o) = o.val /\ o.val \in Int
      BY <1>2 DEF Argument, Held, Readable
    <2>2. Imm(o.val).kind # "reg" /\ ValueIn(a, Imm(o.val)) = o.val
      BY OperandKinds DEF ValueIn
    <2>3. Ok(Mov(0, Imm(o.val)))
      BY <1>1, <2>2, OkShape DEF Mov
    <2> QED
      BY <2>1, <2>2, <2>3, MovDoes
  <1>3. CASE o.kind = "temp"
    <2> DEFINE l == o.id
    <2>1. l \in Local /\ Held(a, o) = Content(a, l)
      BY <1>3 DEF Readable, Held, LocalOf
    <2>2. CASE InRegister(l)
      <3>1. Argument(o) = Mov(0, home[l])
        BY <1>3, <2>2 DEF Argument
      <3>2. home[l].kind = "reg" /\ home[l].n \in 0..29
        BY <2>1, <2>2, HomeFacts, RegisterFacts
      <3>3. ValueIn(a, home[l]) = Content(a, l)
        BY <2>2, <3>2 DEF ValueIn, Content
      <3>4. Ok(Mov(0, home[l]))
        BY <1>1, <3>2, OkShape DEF Mov
      <3> QED
        BY <2>1, <3>1, <3>3, <3>4, MovDoes, ContentTyped
    <2>3. CASE ~InRegister(l)
      <3>1. Argument(o) = Ldr(0, home[l])
        BY <1>3, <2>3 DEF Argument
      <3>2. home[l].kind = "addr" /\ home[l].n \in Places
        BY <2>1, <2>3, HomeFacts
      <3>3. ValueIn(a, home[l]) = home[l].n /\ home[l].n \in DOMAIN a.mem
        BY <3>2, ArmShape DEF ValueIn
      <3>4. a.mem[home[l].n] = Content(a, l)
        BY <2>3 DEF Content
      <3>5. Ok(Ldr(0, home[l]))
        BY <1>1, <3>2, OkShape DEF Ldr
      <3>6. ArmExec(a, Ldr(0, home[l])) = PutReg(a, 0, Content(a, l))
        BY <3>3, <3>4, LdrDoes
      <3> QED
        BY <2>1, <3>1, <3>5, <3>6, ContentTyped
    <2> QED
      BY <2>2, <2>3
  <1> QED
    BY <1>2, <1>3 DEF Plain

(* A call: the argument, the call, and the result through x16.             *)
LEMMA CallAssignGives ==
    ASSUME HomeInv, next = 26, NEW d \in Local, NEW ty, NEW rty, NEW pty,
           NEW o, Readable(o), Plain(o), NEW a \in ArmMachines
    PROVE  LET code == CallAssignCode(CallAssign(Temp(d, ty), rty, "g", pty, o))
           IN  /\ Fine(code)
               /\ InRegister(d) => Gives(a, code, d, Called("g", Held(a, o)))
  <1> DEFINE in == CallAssign(Temp(d, ty), rty, "g", pty, o)
             T == <<Argument(o), Bl("g")>>
             G == RegOf(d, 26)
             m == Mov(16, Reg(0))
             i == Mov(G.opnd.n, Reg(16))
             x == Called("g", Held(a, o))
             b == PutReg(a, 0, Held(a, o))
             c == PutReg(b, 0, x)
  <1>1. in.args[1] = o /\ in.dest = Temp(d, ty) /\ in.code[1] = "g"
    BY DEF CallAssign, Instr
  <1>2. CallAssignCode(in) = T \o G.code \o <<m, i>>
    <2>1. GetARMRegFromLLVMReg(in.dest, next) = G
      BY <1>1, OperandFacts DEF GetARMRegFromLLVMReg
    <2> QED
      BY <1>1, <2>1, Zenon DEF CallAssignCode, Argument
  <1>3. /\ Ok(Argument(o)) /\ ArmExec(a, Argument(o)) = b /\ Held(a, o) \in Int
    BY ArgumentMoved
  <1>4. Ok(Bl("g")) /\ Ok(m)
    <2>1. 0 \in 0..29 /\ 16 \in 0..29 /\ Imm(0).kind # "reg" /\ Reg(0).n = 0
      BY OperandKinds
    <2> QED
      BY <2>1, OkShape DEF Mov, Bl
  <1>5. Fine(G.code) /\ G.opnd.n \in 0..29
    BY RegOfFine
  <1>6. Ok(i)
    <2>1. 16 \in 0..29 /\ Reg(16).n = 16
      BY OperandKinds
    <2> QED
      BY <1>5, <2>1, OkShape DEF Mov
  <1>7. /\ 0 \in Registers /\ 16 \in Registers /\ 0 \in Scratch /\ 16 \in Scratch
    BY DEF Registers, Scratch
  <1>8. x \in Int
    BY <1>3 DEF Called
  <1>9. Apart(a, b, {0}) /\ b.reg[0] = Held(a, o)
    BY <1>3, <1>7, PutRegDoes
  <1>10. b \in ArmMachines
    BY <1>9 DEF Apart
  <1> HIDE DEF b, x
  <1>11. Apart(b, c, {0}) /\ c.reg[0] = x
    BY <1>7, <1>8, <1>10, PutRegDoes
  <1>12. ArmExec(b, Bl("g")) = c
    BY <1>9, BlDoes DEF x
  <1> HIDE DEF c
  <1>13. Runs(a, T, c)
    BY <1>3, <1>4, <1>12, RunsTwo
  <1>14. Apart(a, c, Scratch)
    BY <1>7, <1>9, <1>11, ApartOn
  <1>15. c \in ArmMachines
    BY <1>14 DEF Apart
  <1> DEFINE e == PutReg(c, 16, x)
             f == PutReg(e, G.opnd.n, x)
  <1>16. Runs(c, <<m, i>>, f)
    <2>1. ArmExec(c, m) = e
      BY <1>11, MovDoes, OperandKinds DEF ValueIn
    <2>2. e.reg[16] = x
      BY <1>7, <1>8, <1>15, PutRegDoes
    <2>3. ArmExec(e, i) = f
      BY <2>2, MovDoes, OperandKinds DEF ValueIn
    <2> HIDE DEF e, f, m, i
    <2> QED
      BY <1>4, <1>6, <2>1, <2>3, RunsTwo
  <1>17. Fine(T \o G.code \o <<m, i>>)
    <2> HIDE DEF T, G, m, i
    <2>1. Fine(T) /\ Fine(<<m, i>>)
      BY <1>13, <1>16 DEF Runs
    <2> QED
      BY <1>5, <2>1, FineJoin
  <1>18. ASSUME InRegister(d) PROVE Gives(a, T \o G.code \o <<m, i>>, d, x)
    <2>1. G.code = <<>> /\ G.opnd = home[d]
      BY <1>18, RegOfRegister
    <2> HIDE DEF T, G
    <2>2. Runs(c, G.code, c)
      BY <2>1, RunsNothing
    <2> HIDE DEF m, i
    <2>3. Runs(a, T \o G.code \o <<m, i>>, f)
      BY <1>13, <1>16, <2>2, RunsOn
    <2>4. Apart(a, e, Scratch)
      <3>1. Apart(c, e, {16})
        BY <1>7, <1>8, <1>15, PutRegDoes
      <3>2. Scratch \cup {16} \subseteq Scratch
        BY <1>7
      <3> HIDE DEF e
      <3> QED
        BY <1>14, <3>1, <3>2, ApartOn
    <2>5. f = PutReg(e, home[d].n, x)
      BY <2>1
    <2> HIDE DEF e, f
    <2>6. Assigned(a, f, d, x)
      BY <1>8, <1>18, <2>4, <2>5, MovedHome
    <2> QED
      BY <2>3, <2>6 DEF Gives, Runs
  <1> HIDE DEF in, T, G, m, i
  <1>19. Fine(CallAssignCode(in)) /\ (InRegister(d) => Gives(a, CallAssignCode(in), d, x))
    BY <1>2, <1>17, <1>18
  <1> QED
    BY <1>19 DEF in, x

-----------------------------------------------------------------------------
(* Loads.                                                                  *)
LEMMA GlobalPlaces ==
    ASSUME NEW g \in Global
    PROVE  Page(g) \in Int /\ Page(g) + Lo12 = Place(g) /\ Place(g) \in Places /\ Place(g) \in Int
  BY DEF Global, Count, Struct, Page, Lo12, Place, Places

LEMMA AddressTaken ==
    ASSUME NEW g \in Global, NEW n \in 26..29, NEW a \in ArmMachines
    PROVE  /\ Fine(AddressOf(g, n))
           /\ \E b : Runs(a, AddressOf(g, n), b) /\ Apart(a, b, {n}) /\ b.reg[n] = Place(g)
  <1> DEFINE i == Adrp(n, g)
             j == AddLo12(n, g)
             b == PutReg(a, n, Page(g))
             c == PutReg(b, n, Place(g))
  <1>1. n \in Registers /\ n \in 0..29 /\ {n} \cup {n} \subseteq {n}
    BY ScratchFacts
  <1>2. Ok(i) /\ Ok(j)
    <2>1. Imm(g).kind # "reg"
      BY OperandKinds
    <2> QED
      BY <1>1, <2>1, OkShape DEF Adrp, AddLo12
  <1>3. Apart(a, b, {n}) /\ b.reg[n] = Page(g)
    BY <1>1, GlobalPlaces, PutRegDoes
  <1>4. b \in ArmMachines
    BY <1>3 DEF Apart
  <1>5. ArmExec(a, i) = b
    BY AdrpDoes
  <1> HIDE DEF b
  <1>6. ArmExec(b, j) = c
    BY <1>3, AdrpDoes, GlobalPlaces
  <1>7. Apart(b, c, {n}) /\ c.reg[n] = Place(g)
    BY <1>1, <1>4, GlobalPlaces, PutRegDoes
  <1> HIDE DEF c, i, j
  <1>8. Apart(a, c, {n}) /\ Runs(a, <<i, j>>, c)
    BY <1>1, <1>2, <1>3, <1>5, <1>6, <1>7, ApartOn, RunsTwo
  <1>9. AddressOf(g, n) = <<i, j>>
    BY DEF AddressOf, i, j
  <1> QED
    BY <1>7, <1>8, <1>9 DEF Runs

LEMMA LoadGlobalGives ==
    ASSUME HomeInv, next = 26, NEW d \in Local, NEW g \in Global, NEW ty, NEW ty1, NEW ty2,
           NEW a \in ArmMachines
    PROVE  LET code == LoadCode(Load(ty, Temp(d, ty1), Variable(g, ty2)))
           IN  Fine(code) /\ (InRegister(d) => Gives(a, code, d, a.mem[Place(g)]))
  <1> DEFINE in == Load(ty, Temp(d, ty1), Variable(g, ty2))
             G == RegOf(d, 26)
             A == AddressOf(g, G.n)
             i == Ldr(G.opnd.n, Reg(G.n))
  <1>1. in.args[1] = Variable(g, ty2) /\ in.dest = Temp(d, ty1)
    BY DEF Load, Instr
  <1>2. LoadCode(in) = <<>> \o G.code \o A \o <<i>>
    <2>1. GetARMRegFromLLVMReg(in.dest, next) = G
      BY <1>1, OperandFacts DEF GetARMRegFromLLVMReg
    <2>2. /\ IsGlobal(in.args[1])
          /\ GetARMOpFromLLVMReg(in.args[1], G.n) = Got(A, Reg(G.n), G.n)
      BY <1>1, OperandFacts DEF GetARMOpFromLLVMReg
    <2>3. Got(A, Reg(G.n), G.n).code = A /\ Got(A, Reg(G.n), G.n).opnd = Reg(G.n)
      BY DEF Got
    <2> QED
      BY <2>1, <2>2, <2>3, Zenon DEF LoadCode
  <1>3. Fine(G.code) /\ G.opnd.n \in 0..29 /\ G.n \in 26..27
    BY RegOfFine
  <1>4. G.n \in 26..29 /\ G.n \in 0..29
    BY <1>3
  <1>5. Ok(i)
    <2>1. Reg(G.n).n \in 0..29
      BY <1>4, OperandKinds
    <2> QED
      BY <1>3, <2>1, OkShape DEF Ldr
  <1> HIDE DEF A
  <1>6. Fine(A)
    BY <1>4, AddressTaken DEF A
  <1>7. Fine(<<>> \o G.code \o A \o <<i>>)
    BY <1>3, <1>5, <1>6, FineFew, FineJoin
  <1>8. ASSUME InRegister(d)
        PROVE  Gives(a, <<>> \o G.code \o A \o <<i>>, d, a.mem[Place(g)])
    <2>1. G.code = <<>> /\ G.opnd = home[d]
      BY <1>8, RegOfRegister
    <2> HIDE DEF G
    <2>2. Runs(a, <<>>, a) /\ Runs(a, G.code, a)
      BY <2>1, RunsNothing
    <2>3. PICK b : Runs(a, A, b) /\ Apart(a, b, {G.n}) /\ b.reg[G.n] = Place(g)
      BY <1>4, AddressTaken DEF A
    <2>4. Runs(a, <<>> \o G.code \o A, b)
      BY <2>2, <2>3, RunsOn
    <2>5. Apart(a, b, Scratch) /\ b.mem = a.mem /\ b \in ArmMachines
      BY <1>4, <2>3, ApartFrom, ScratchFacts DEF Apart
    <2>6. a.mem[Place(g)] \in Int
      BY ArmShape, GlobalPlaces
    <2>7. ArmExec(b, i) = PutReg(b, home[d].n, a.mem[Place(g)])
      <3>1. ValueIn(b, Reg(G.n)) = Place(g)
        BY <2>3, OperandKinds DEF ValueIn
      <3>2. Place(g) \in DOMAIN b.mem
        BY <2>5, ArmShape, GlobalPlaces
      <3> QED
        BY <2>1, <2>5, <3>1, <3>2, LdrDoes
    <2> HIDE DEF i
    <2> QED
      BY <1>5, <1>8, <2>4, <2>5, <2>6, <2>7, EndsInHome
  <1> HIDE DEF in, G, i
  <1>9. Fine(LoadCode(in)) /\ (InRegister(d) => Gives(a, LoadCode(in), d, a.mem[Place(g)]))
    BY <1>2, <1>7, <1>8
  <1> QED
    BY <1>9 DEF in

LEMMA LoadLocalGives ==
    ASSUME HomeInv, next = 26, NEW d \in Local, NEW v \in Local, ~IsPtr(v),
           NEW ty, NEW ty1, NEW ty2, NEW a \in ArmMachines
    PROVE  LET code == LoadCode(Load(ty, Temp(d, ty1), Variable(v, ty2)))
           IN  Fine(code) /\ (InRegister(d) => Gives(a, code, d, Content(a, v)))
  <1> DEFINE in == Load(ty, Temp(d, ty1), Variable(v, ty2))
             G == RegOf(d, 26)
             i == IF InRegister(v) THEN Mov(G.opnd.n, home[v]) ELSE Ldr(G.opnd.n, home[v])
  <1>1. in.args[1] = Variable(v, ty2) /\ in.dest = Temp(d, ty1)
    BY DEF Load, Instr
  <1>2. LoadCode(in) = <<>> \o G.code \o <<>> \o <<i>>
    <2>1. GetARMRegFromLLVMReg(in.dest, next) = G
      BY <1>1, OperandFacts DEF GetARMRegFromLLVMReg
    <2>2. /\ ~IsGlobal(in.args[1]) /\ LocalOf(in.args[1]) = v
          /\ GetARMOpFromLLVMReg(in.args[1], G.n) = Got(<<>>, home[v], G.n)
      BY <1>1, OperandFacts, LocalNotGlobal DEF GetARMOpFromLLVMReg
    <2>3. Got(<<>>, home[v], G.n).code = <<>> /\ Got(<<>>, home[v], G.n).opnd = home[v]
      BY DEF Got
    <2> QED
      BY <2>1, <2>2, <2>3, Zenon DEF LoadCode, InRegister
  <1>3. Fine(G.code) /\ G.opnd.n \in 0..29
    BY RegOfFine
  <1>4. /\ Ok(i)
        /\ ArmExec(a, i) = PutReg(a, G.opnd.n, Content(a, v))
    <2>1. CASE InRegister(v)
      <3>1. home[v].kind = "reg" /\ home[v].n \in 0..29
        BY <2>1, HomeFacts, RegisterFacts
      <3>2. ValueIn(a, home[v]) = Content(a, v)
        BY <2>1, <3>1 DEF ValueIn, Content
      <3>3. Ok(Mov(G.opnd.n, home[v]))
        BY <1>3, <3>1, OkShape DEF Mov
      <3> QED
        BY <2>1, <3>2, <3>3, MovDoes
    <2>2. CASE ~InRegister(v)
      <3>1. home[v].kind = "addr" /\ home[v].n \in Places
        BY <2>2, HomeFacts
      <3>2. ValueIn(a, home[v]) = home[v].n /\ home[v].n \in DOMAIN a.mem
        BY <3>1, ArmShape DEF ValueIn
      <3>3. a.mem[home[v].n] = Content(a, v)
        BY <2>2 DEF Content
      <3>4. Ok(Ldr(G.opnd.n, home[v]))
        BY <1>3, <3>1, OkShape DEF Ldr
      <3>5. ArmExec(a, Ldr(G.opnd.n, home[v])) = PutReg(a, G.opnd.n, Content(a, v))
        BY <3>2, <3>3, LdrDoes
      <3> QED
        BY <2>2, <3>4, <3>5
    <2> QED
      BY <2>1, <2>2
  <1> HIDE DEF i
  <1>5. Fine(<<>> \o G.code \o <<>> \o <<i>>)
    BY <1>3, <1>4, FineFew, FineJoin
  <1>6. ASSUME InRegister(d)
        PROVE  Gives(a, <<>> \o G.code \o <<>> \o <<i>>, d, Content(a, v))
    <2>1. G.code = <<>> /\ G.opnd = home[d]
      BY <1>6, RegOfRegister
    <2> HIDE DEF G
    <2>2. Runs(a, <<>>, a) /\ Runs(a, G.code, a)
      BY <2>1, RunsNothing
    <2>3. Runs(a, <<>> \o G.code \o <<>>, a)
      BY <2>2, RunsOn
    <2>4. Apart(a, a, Scratch)
      BY ApartNot, ApartFrom
    <2>5. ArmExec(a, i) = PutReg(a, home[d].n, Content(a, v)) /\ Content(a, v) \in Int
      BY <1>4, <2>1, ContentTyped
    <2> QED
      BY <1>4, <1>6, <2>3, <2>4, <2>5, EndsInHome
  <1> HIDE DEF in, G
  <1>7. Fine(LoadCode(in)) /\ (InRegister(d) => Gives(a, LoadCode(in), d, Content(a, v)))
    BY <1>2, <1>5, <1>6
  <1> QED
    BY <1>7 DEF in

(* Through a pointer to a field; both instructions write the register of   *)
(* the result.                                                             *)
LEMMA LoadFieldGives ==
    ASSUME HomeInv, next = 26, NEW d \in Local, NEW p \in Local, IsPtr(p), InRegister(d),
           NEW ty, NEW ty1, NEW ty2, NEW a \in ArmMachines
    PROVE  LET code == LoadCode(Load(ty, Temp(d, ty1), Temp(p, ty2)))
           IN  /\ Fine(code)
               /\ home[p] = home[d] /\ Content(a, p) \in Places =>
                      Gives(a, code, d, a.mem[Content(a, p)])
  <1> DEFINE in == Load(ty, Temp(d, ty1), Temp(p, ty2))
             G == RegOf(d, 26)
             h == home[d].n
             i == Ldr(h, home[p])
             j == IF InRegister(p) THEN Mov(h, home[p]) ELSE Ldr(h, home[p])
  <1>1. in.args[1] = Temp(p, ty2) /\ in.dest = Temp(d, ty1)
    BY DEF Load, Instr
  <1>2. G.code = <<>> /\ G.opnd = home[d]
    BY RegOfRegister
  <1>3. LoadCode(in) = <<i>> \o G.code \o <<>> \o <<j>>
    <2>1. GetARMRegFromLLVMReg(in.dest, next) = G /\ LocalOf(in.dest) = d
      BY <1>1, OperandFacts DEF GetARMRegFromLLVMReg
    <2>2. /\ ~IsGlobal(in.args[1]) /\ LocalOf(in.args[1]) = p
          /\ GetARMOpFromLLVMReg(in.args[1], G.n) = Got(<<>>, home[p], G.n)
      BY <1>1, OperandFacts DEF GetARMOpFromLLVMReg
    <2>3. Got(<<>>, home[p], G.n).code = <<>> /\ Got(<<>>, home[p], G.n).opnd = home[p]
      BY DEF Got
    <2> QED
      BY <1>2, <2>1, <2>2, <2>3, Zenon DEF LoadCode, InRegister
  <1> HIDE DEF G
  <1>4. h \in HomeRegisters /\ h \in 0..29 /\ home[d] = Reg(h) /\ home[d].kind = "reg"
    BY HomeFacts, RegisterFacts
  <1> HIDE DEF h
  <1>5. home[p].kind = "reg" => home[p].n \in 0..29
    BY HomeFacts, RegisterFacts DEF InRegister
  <1>6. Ok(i) /\ Ok(j)
    BY <1>4, <1>5, OkShape DEF Ldr, Mov
  <1>7. Fine(<<i>> \o G.code \o <<>> \o <<j>>)
    BY <1>2, <1>6, FineFew, FineJoin
  <1>8. ASSUME home[p] = home[d], Content(a, p) \in Places
        PROVE  Gives(a, <<i>> \o G.code \o <<>> \o <<j>>, d, a.mem[Content(a, p)])
    <2> DEFINE x == a.mem[Content(a, p)]
               b == PutReg(a, h, x)
    <2>1. InRegister(p) /\ home[p] = Reg(h) /\ home[p].n = h /\ home[p].kind = "reg"
      BY <1>4, <1>8, OperandKinds DEF InRegister
    <2>2. ValueIn(a, home[p]) = Content(a, p) /\ Content(a, p) \in DOMAIN a.mem /\ x \in Int
      BY <1>8, <2>1, ArmShape DEF ValueIn, Content
    <2>3. ArmExec(a, i) = b
      BY <2>2, LdrDoes
    <2>4. Apart(a, b, {h}) /\ b.reg[h] = x
      BY <1>4, <2>2, PutRegDoes, RegisterFacts
    <2>5. b \in ArmMachines
      BY <2>4 DEF Apart
    <2>6. ArmExec(b, j) = PutReg(b, h, x)
      <3>1. ValueIn(b, home[p]) = x
        BY <2>1, <2>4 DEF ValueIn
      <3> QED
        BY <2>1, <3>1, MovDoes
    <2>7. PutReg(b, h, x) = PutReg(a, h, x)
      <3>1. b.reg = [a.reg EXCEPT ![h] = x] /\ a.reg \in [Registers -> Int] /\ h \in Registers
        BY <1>4, ArmShape, RegisterFacts DEF PutReg
      <3>2. [b.reg EXCEPT ![h] = x] = b.reg
        BY <3>1
      <3>3. PutReg(b, h, x) = [b EXCEPT !.reg = b.reg]
        BY <3>2 DEF PutReg
      <3>4. [b EXCEPT !.reg = b.reg] = b
        BY <2>5 DEF ArmMachines
      <3> QED
        BY <3>3, <3>4
    <2> HIDE DEF b, x
    <2>8. Runs(a, <<i>>, b) /\ Runs(b, <<j>>, b)
      <3>1. Runs(a, <<i>>, b)
        BY <1>6, <2>3, RunsOne
      <3>2. PutReg(b, h, x) = b
        BY <2>7 DEF b, x
      <3> QED
        BY <1>6, <2>6, <3>1, <3>2, RunsOne
    <2> HIDE DEF i, j
    <2>9. Runs(b, G.code, b) /\ Runs(b, <<>>, b)
      BY <1>2, RunsNothing
    <2>10. Runs(a, <<i>> \o G.code \o <<>> \o <<j>>, b)
      BY <2>8, <2>9, RunsOn
    <2>11. Assigned(a, b, d, x)
      <3>1. Apart(a, a, Scratch)
        BY ApartNot, ApartFrom
      <3>2. Assigned(a, PutReg(a, home[d].n, x), d, x)
        BY <2>2, <3>1, MovedHome DEF x
      <3> QED
        BY <3>2 DEF b, h, x
    <2>12. Gives(a, <<i>> \o G.code \o <<>> \o <<j>>, d, x)
      BY <2>10, <2>11 DEF Gives, Runs
    <2> QED
      BY <2>12 DEF x
  <1> HIDE DEF in, i, j
  <1>9. /\ Fine(LoadCode(in))
        /\ home[p] = home[d] /\ Content(a, p) \in Places =>
               Gives(a, LoadCode(in), d, a.mem[Content(a, p)])
    BY <1>3, <1>7, <1>8
  <1> QED
    BY <1>9 DEF in

-----------------------------------------------------------------------------
(* Stores.  From a to b the place q gets the value x, and no home changes  *)
(* that is not that place.                                                 *)
Written(a, b, q, x) ==
    /\ b \in ArmMachines /\ b.out = a.out
    /\ b.mem = [a.mem EXCEPT ![q] = x]
    /\ \A n \in HomeRegisters : b.reg[n] = a.reg[n]
Writes(a, code, q, x) == \E b : Runs(a, code, b) /\ Written(a, b, q, x)

LEMMA PlaceWritten ==
    ASSUME NEW a, NEW b, Apart(a, b, Scratch), NEW q \in Places, NEW x \in Int
    PROVE  Written(a, PutMem(b, q, x), q, x)
  <1> DEFINE c == PutMem(b, q, x)
  <1>1. b \in ArmMachines
    BY DEF Apart
  <1>2. c = [b EXCEPT !.mem = [b.mem EXCEPT ![q] = x]]
    BY DEF PutMem
  <1>3. c.reg = b.reg /\ c.mem = [b.mem EXCEPT ![q] = x] /\ c.flags = b.flags /\ c.out = b.out
    BY <1>1, <1>2, ArmShape
  <1>4. c.mem \in [Places -> Int]
    BY <1>1, <1>3, ArmShape
  <1>5. c \in ArmMachines
    BY <1>1, <1>2, <1>3, <1>4, ArmShape DEF ArmMachines
  <1> HIDE DEF c
  <1>6. c.mem = [a.mem EXCEPT ![q] = x] /\ c.out = a.out
    BY <1>3 DEF Apart
  <1>7. \A n \in HomeRegisters : c.reg[n] = a.reg[n]
    BY <1>3, RegisterFacts DEF Apart
  <1>8. Written(a, c, q, x)
    BY <1>5, <1>6, <1>7 DEF Written
  <1> QED
    BY <1>8 DEF c

(* The operand that is stored: a number in the scratch register n, or the  *)
(* home of a temporary.                                                    *)
Stored(a, o, n, V) ==
    /\ Fine(V.code)
    /\ V.opnd.kind = "reg" => V.opnd.n \in 0..29
    /\ V.opnd.kind = "addr" <=> (o.kind # "imm" /\ ~InRegister(o.id))
    /\ V.opnd.kind = "addr" => V.opnd = home[o.id] /\ V.code = <<>>
    /\ o.kind = "imm" => V.opnd.n = n
    /\ V.opnd.kind # "addr" =>
          /\ V.opnd.kind = "reg" /\ V.opnd.n \in Registers
          /\ \E b : Runs(a, V.code, b) /\ Apart(a, b, {n}) /\ b.reg[V.opnd.n] = Held(a, o)
    /\ Held(a, o) \in Int

LEMMA StoredOperand ==
    ASSUME HomeInv, NEW o, Readable(o), Plain(o), NEW n \in 26..29, NEW a \in ArmMachines
    PROVE  Stored(a, o, n, GetARMOpFromLLVMOp(o, n))
  <1> DEFINE V == GetARMOpFromLLVMOp(o, n)
  <1>1. CASE o.kind = "imm"
    <2> DEFINE x == o.val
               G == Got(<<Mov(n, Imm(x))>>, Reg(n), n + 1)
    <2>1. V = G /\ x \in Int /\ Held(a, o) = x
      BY <1>1 DEF GetARMOpFromLLVMOp, Held, Readable
    <2>2. G.opnd = Reg(n)
      BY DEF Got
    <2>3. G.opnd.kind = "reg" /\ G.opnd.n = n
      BY <2>2, OperandKinds
    <2>4. Fetched(a, G, n, x)
      BY <2>1, NumberFetched
    <2> HIDE DEF V, G, x
    <2>5. PICK b : Runs(a, G.code, b) /\ Apart(a, b, {n}) /\ b.reg[G.opnd.n] = x
      BY <2>4 DEF Fetched
    <2>6. Fine(G.code)
      BY <2>5 DEF Runs
    <2>7. n \in 0..29 /\ n \in Registers /\ "reg" # "addr"
      BY ScratchFacts
    <2>8. Fine(V.code) /\ V.opnd.kind = "reg" /\ V.opnd.n \in 0..29 /\ V.opnd.n \in Registers
      BY <2>1, <2>3, <2>6, <2>7
    <2>9. Runs(a, V.code, b) /\ Apart(a, b, {n}) /\ b.reg[V.opnd.n] = Held(a, o)
      BY <2>1, <2>5
    <2>10. Held(a, o) \in Int
      BY <2>1
    <2>11. V.opnd.n = n /\ V.opnd.kind # "addr"
      BY <2>1, <2>3, <2>7
    <2>12. \E e : Runs(a, V.code, e) /\ Apart(a, e, {n}) /\ e.reg[V.opnd.n] = Held(a, o)
      BY <2>9
    <2>13. V.opnd.kind = "addr" <=> (o.kind # "imm" /\ ~InRegister(o.id))
      BY <1>1, <2>11
    <2>14. Stored(a, o, n, V)
      BY <2>8, <2>10, <2>11, <2>12, <2>13 DEF Stored
    <2> QED
      BY <2>14 DEF V
  <1>2. CASE o.kind = "temp"
    <2> DEFINE l == o.id
    <2>1. ~IsGlobal(o) /\ LocalOf(o) = l /\ l \in Local
      BY <1>2 DEF IsGlobal, LocalOf, Readable
    <2>2. V = Got(<<>>, home[l], n) /\ Held(a, o) = Content(a, l)
      BY <1>2, <2>1 DEF GetARMOpFromLLVMOp, GetARMOpFromLLVMReg, Held
    <2>3. V.code = <<>> /\ V.opnd = home[l]
      BY <2>2 DEF Got
    <2> HIDE DEF V
    <2>4. Fine(V.code) /\ Runs(a, V.code, a) /\ Apart(a, a, {n})
      BY <2>3, FineFew, RunsNothing, ApartNot, ApartFrom
    <2>5. Held(a, o) \in Int
      BY <2>1, <2>2, ContentTyped
    <2>6. CASE InRegister(l)
      <3>1. home[l].kind = "reg" /\ home[l].n \in 0..29 /\ home[l].n \in Registers
        BY <2>1, <2>6, HomeFacts, RegisterFacts
      <3>2. a.reg[home[l].n] = Held(a, o)
        BY <2>2, <2>6 DEF Content
      <3>3. /\ V.opnd.kind = "reg" /\ V.opnd.n \in 0..29 /\ V.opnd.n \in Registers
            /\ a.reg[V.opnd.n] = Held(a, o)
        BY <2>3, <3>1, <3>2
      <3>4. Stored(a, o, n, V)
        BY <1>2, <2>4, <2>5, <2>6, <3>3 DEF Stored
      <3> QED
        BY <3>4 DEF V
    <2>7. CASE ~InRegister(l)
      <3>1. home[l].kind = "addr"
        BY <2>1, <2>7, HomeFacts
      <3>2. Stored(a, o, n, V)
        BY <1>2, <2>3, <2>4, <2>5, <2>7, <3>1 DEF Stored
      <3> QED
        BY <3>2 DEF V
    <2> QED
      BY <2>6, <2>7
  <1> QED
    BY <1>1, <1>2 DEF Plain

LEMMA StoreLocalGives ==
    ASSUME HomeInv, next = 26, NEW v \in Local, ~IsPtr(v), NEW ty, NEW ty2,
           NEW o, Readable(o), Plain(o), NEW a \in ArmMachines
    PROVE  LET code == StoreCode(Store(ty, o, Variable(v, ty2)))
           IN  /\ Fine(code)
               /\ InRegister(v) \/ o.kind = "imm" => Gives(a, code, v, Held(a, o))
  <1> DEFINE in == Store(ty, o, Variable(v, ty2))
             op == in.args[2]
             V == GetARMOpFromLLVMOp(o, 26)
             h == home[v].n
             x == Held(a, o)
  <1>1. in.args[1] = o /\ op = Variable(v, ty2)
    BY DEF Store, Instr
  <1>2. LocalOf(op) = v /\ ~IsGlobal(op) /\ ~StoreThrough(op)
    BY <1>1, OperandFacts, LocalNotGlobal DEF StoreThrough
  <1> HIDE DEF in, op, V, x
  <1>3. 26 \in 26..29
    OBVIOUS
  <1>4. /\ Fine(V.code) /\ (V.opnd.kind = "reg" => V.opnd.n \in 0..29)
        /\ V.opnd.kind = "addr" <=> (o.kind # "imm" /\ ~InRegister(o.id))
        /\ V.opnd.kind = "addr" => V.opnd = home[o.id] /\ V.code = <<>>
        /\ o.kind = "imm" => V.opnd.n = 26
        /\ x \in Int
    BY <1>3, StoredOperand DEF Stored, V, x
  <1>5. V.opnd.kind # "addr" =>
          /\ V.opnd.kind = "reg"
          /\ \E b : Runs(a, V.code, b) /\ Apart(a, b, {26}) /\ b.reg[V.opnd.n] = x
    BY <1>3, StoredOperand DEF Stored, V, x
  <1>6. Runs(a, <<>>, a) /\ Fine(<<>>)
    BY RunsNothing, FineFew
  <1>7. CASE ~InRegister(v)
    <2> DEFINE i == Str(26, home[v])
    <2>1. StoreCode(in) = <<>> \o V.code \o <<i>>
      <3>1. /\ Got(<<>>, Reg(26), 26).code = <<>> /\ Got(<<>>, Reg(26), 26).n = 26
            /\ Got(<<>>, Reg(26), 26).opnd = Reg(26) /\ Reg(26).n = 26
        BY OperandKinds DEF Got
      <3>2. StoreCode(in) =
              LET p == Got(<<>>, Reg(26), 26)
                  u == GetARMOpFromLLVMOp(o, p.n)
              IN  p.code \o u.code \o <<Str(p.opnd.n, home[v])>>
        BY <1>1, <1>2, <1>7 DEF StoreCode, op
      <3> QED
        BY <3>1, <3>2, Zenon DEF V
    <2>2. home[v].kind = "addr" /\ h \in Places
      BY <1>7, HomeFacts
    <2>3. Ok(i)
      BY <1>3, <2>2, OkShape, ScratchFacts DEF Str
    <2>4. Fine(<<>> \o V.code \o <<i>>)
      BY <1>4, <1>6, <2>3, FineOn, FineJoin
    <2>5. ASSUME o.kind = "imm" PROVE Gives(a, <<>> \o V.code \o <<i>>, v, x)
      <3>1. PICK b : Runs(a, V.code, b) /\ Apart(a, b, {26}) /\ b.reg[26] = x
        BY <1>4, <1>5, <2>5
      <3>2. Apart(a, b, Scratch) /\ b \in ArmMachines
        BY <1>3, <3>1, ApartFrom, ScratchFacts DEF Apart
      <3>3. ArmExec(b, i) = PutMem(b, h, x)
        <4>1. ValueIn(b, home[v]) = h /\ h \in DOMAIN b.mem
          BY <2>2, <3>2, ArmShape DEF ValueIn
        <4> QED
          BY <3>1, <4>1, StrDoes
      <3> HIDE DEF i
      <3>4. Runs(b, <<i>>, PutMem(b, h, x))
        BY <2>3, <3>3, RunsOne
      <3>5. Assigned(a, PutMem(b, h, x), v, x)
        BY <1>4, <1>7, <3>2, StoredHome
      <3> DEFINE c == PutMem(b, h, x)
      <3> HIDE DEF c
      <3>6. Runs(a, <<>> \o V.code \o <<i>>, c)
        BY <1>6, <3>1, <3>4, RunsOn DEF c
      <3> QED
        BY <3>5, <3>6 DEF Gives, Runs, c
    <2> HIDE DEF i
    <2>6. Fine(StoreCode(in)) /\ (o.kind = "imm" => Gives(a, StoreCode(in), v, x))
      BY <2>1, <2>4, <2>5
    <2> QED
      BY <1>7, <2>6 DEF in, x
  <1>8. CASE InRegister(v)
    <2> DEFINE i == IF V.opnd.kind = "addr" THEN Ldr(h, V.opnd) ELSE Mov(h, V.opnd)
    <2>1. StoreCode(in) = <<>> \o V.code \o <<i>>
      <3>1. GetARMRegFromLLVMReg(op, next) = Got(<<>>, home[v], 26)
        BY <1>2, <1>8 DEF GetARMRegFromLLVMReg, RegOf
      <3>2. /\ Got(<<>>, home[v], 26).code = <<>> /\ Got(<<>>, home[v], 26).n = 26
            /\ Got(<<>>, home[v], 26).opnd = home[v]
        BY DEF Got
      <3>3. StoreCode(in) =
              LET p == Got(<<>>, home[v], 26)
                  u == GetARMOpFromLLVMOp(o, p.n)
              IN  p.code \o u.code
                  \o <<IF u.opnd.kind = "addr" THEN Ldr(p.opnd.n, u.opnd) ELSE Mov(p.opnd.n, u.opnd)>>
        BY <1>1, <1>2, <1>8, <3>1 DEF StoreCode, op
      <3> QED
        BY <3>2, <3>3, Zenon DEF V
    <2>2. h \in 0..29
      BY <1>8, HomeFacts, RegisterFacts
    <2> HIDE DEF h
    <2>3. Ok(i)
      BY <1>4, <2>2, OkShape DEF Ldr, Mov
    <2>4. Fine(<<>> \o V.code \o <<i>>)
      BY <1>4, <1>6, <2>3, FineOn, FineJoin
    <2>5. PICK b : Runs(a, V.code, b) /\ Apart(a, b, Scratch) /\ ArmExec(b, i) = PutReg(b, h, x)
      <3>1. CASE V.opnd.kind # "addr"
        <4>1. PICK b : Runs(a, V.code, b) /\ Apart(a, b, {26}) /\ b.reg[V.opnd.n] = x
          BY <1>5, <3>1
        <4>2. Apart(a, b, Scratch)
          BY <1>3, <4>1, ApartFrom, ScratchFacts
        <4>3. ValueIn(b, V.opnd) = x
          BY <1>5, <3>1, <4>1 DEF ValueIn
        <4>4. ArmExec(b, i) = PutReg(b, h, x)
          BY <3>1, <4>3, MovDoes
        <4> QED
          BY <4>1, <4>2, <4>4
      <3>2. CASE V.opnd.kind = "addr"
        <4> DEFINE l == o.id
        <4>1. o.kind = "temp" /\ ~InRegister(l) /\ V.opnd = home[l] /\ V.code = <<>>
          BY <1>4, <3>2 DEF Plain
        <4>2. l \in Local /\ x = Content(a, l)
          BY <4>1 DEF Readable, LocalOf, Held, x
        <4>3. home[l].kind = "addr" /\ home[l].n \in Places
          BY <4>1, <4>2, HomeFacts
        <4>4. ValueIn(a, V.opnd) = home[l].n /\ home[l].n \in DOMAIN a.mem
          BY <4>1, <4>3, ArmShape DEF ValueIn
        <4>5. a.mem[home[l].n] = x
          BY <4>1, <4>2 DEF Content
        <4>6. ArmExec(a, i) = PutReg(a, h, x)
          BY <3>2, <4>4, <4>5, LdrDoes
        <4>7. Runs(a, V.code, a) /\ Apart(a, a, Scratch)
          BY <1>6, <4>1, ApartNot, ApartFrom
        <4> QED
          BY <4>6, <4>7
      <3> QED
        BY <3>1, <3>2
    <2> HIDE DEF i
    <2>6. Runs(a, <<>> \o V.code, b)
      BY <1>6, <2>5, RunsOn
    <2>7. Gives(a, <<>> \o V.code \o <<i>>, v, x)
      BY <1>4, <1>8, <2>3, <2>5, <2>6, EndsInHome DEF h
    <2>8. Fine(StoreCode(in)) /\ Gives(a, StoreCode(in), v, x)
      BY <2>1, <2>4, <2>7
    <2> QED
      BY <2>8 DEF in, x
  <1> QED
    BY <1>7, <1>8

LEMMA StoreGlobalWrites ==
    ASSUME HomeInv, next = 26, NEW g \in Global, NEW ty, NEW ty2,
           NEW o, Readable(o), Plain(o), NEW a \in ArmMachines
    PROVE  LET code == StoreCode(Store(ty, o, Variable(g, ty2)))
           IN  /\ Fine(code)
               /\ o.kind = "imm" \/ InRegister(o.id) => Writes(a, code, Place(g), Held(a, o))
  <1> DEFINE in == Store(ty, o, Variable(g, ty2))
             op == in.args[2]
             A == AddressOf(g, 26)
             V == GetARMOpFromLLVMOp(o, 27)
             x == Held(a, o)
             q == Place(g)
             i == IF V.opnd.kind = "addr" THEN Ldr(26, V.opnd) ELSE Str(V.opnd.n, Reg(26))
  <1>1. in.args[1] = o /\ op = Variable(g, ty2)
    BY DEF Store, Instr
  <1>2. LocalOf(op) = g /\ IsGlobal(op) /\ StoreThrough(op) /\ op.name = g
    BY <1>1, OperandFacts DEF StoreThrough
  <1> HIDE DEF in, op, A, V, x
  <1>3. /\ 26 \in 26..29 /\ 27 \in 26..29 /\ 26 \in 0..29 /\ 26 \in Scratch /\ 27 \in Scratch
        /\ 26 \in Registers /\ 26 # 27
    BY ScratchFacts
  <1>4. StoreCode(in) = A \o V.code \o <<i>>
    <2>1. GetARMRegFromLLVMReg(op, next) = Got(A, Reg(26), 27)
      BY <1>2 DEF GetARMRegFromLLVMReg, A
    <2>2. /\ Got(A, Reg(26), 27).code = A /\ Got(A, Reg(26), 27).n = 27
          /\ Got(A, Reg(26), 27).opnd = Reg(26) /\ Reg(26).n = 26
      BY OperandKinds DEF Got
    <2>3. StoreCode(in) =
            LET p == Got(A, Reg(26), 27)
                u == GetARMOpFromLLVMOp(o, p.n)
            IN  p.code \o u.code
                \o <<IF u.opnd.kind = "addr" THEN Ldr(p.opnd.n, u.opnd) ELSE Str(u.opnd.n, p.opnd)>>
      BY <1>1, <1>2, <2>1 DEF StoreCode, op
    <2> QED
      BY <2>2, <2>3, Zenon DEF V
  <1>5. /\ Fine(V.code) /\ (V.opnd.kind = "reg" => V.opnd.n \in 0..29)
        /\ V.opnd.kind = "addr" <=> (o.kind # "imm" /\ ~InRegister(o.id))
        /\ V.opnd.kind # "addr" => V.opnd.kind = "reg" /\ V.opnd.n \in Registers
        /\ x \in Int
    BY <1>3, StoredOperand DEF Stored, V, x
  <1>6. Reg(26).kind = "reg" /\ Reg(26).n = 26
    BY OperandKinds
  <1>7. Ok(i)
    <2>1. CASE V.opnd.kind = "addr"
      <3>1. Ok(Ldr(26, V.opnd))
        BY <1>3, <2>1, OkShape DEF Ldr
      <3> QED
        BY <2>1, <3>1
    <2>2. CASE V.opnd.kind # "addr"
      <3>1. Ok(Str(V.opnd.n, Reg(26)))
        BY <1>3, <1>5, <1>6, <2>2, OkShape DEF Str
      <3> QED
        BY <2>2, <3>1
    <2> QED
      BY <2>1, <2>2
  <1>8. Fine(A)
    BY <1>3, AddressTaken DEF A
  <1>9. Fine(A \o V.code \o <<i>>)
    BY <1>5, <1>7, <1>8, FineOn, FineJoin
  <1>10. ASSUME o.kind = "imm" \/ InRegister(o.id) PROVE Writes(a, A \o V.code \o <<i>>, q, x)
    <2>1. V.opnd.kind # "addr"
      BY <1>5, <1>10
    <2>2. PICK b : Runs(a, A, b) /\ Apart(a, b, {26}) /\ b.reg[26] = q
      BY <1>3, AddressTaken DEF A
    <2>3. b \in ArmMachines
      BY <2>2 DEF Apart
    <2>4. Held(b, o) = x
      <3>1. CASE o.kind = "imm"
        BY <3>1 DEF Held, x
      <3>2. CASE o.kind = "temp"
        <4>1. o.id \in Local /\ LocalOf(o) = o.id
          BY <3>2 DEF Readable, LocalOf
        <4>2. home[o.id].n \in Registers \ {26}
          BY <1>3, <1>10, <3>2, <4>1, HomeFacts, RegisterFacts
        <4>3. Content(b, o.id) = Content(a, o.id)
          BY <1>10, <2>2, <3>2, <4>2 DEF Content, Apart
        <4> QED
          BY <3>2, <4>1, <4>3 DEF Held, x
      <3> QED
        BY <3>1, <3>2 DEF Plain
    <2>5. PICK c : Runs(b, V.code, c) /\ Apart(b, c, {27}) /\ c.reg[V.opnd.n] = x
      BY <1>3, <2>1, <2>3, <2>4, StoredOperand DEF Stored, V
    <2>6. c.reg[26] = q
      BY <1>3, <2>2, <2>5 DEF Apart
    <2>7. Apart(a, c, Scratch) /\ c \in ArmMachines
      <3>1. {26} \cup {27} \subseteq Scratch
        BY <1>3
      <3>2. Apart(a, c, Scratch)
        BY <2>2, <2>5, <3>1, ApartOn
      <3> QED
        BY <3>2 DEF Apart
    <2>8. q \in Places
      BY GlobalPlaces
    <2>9. ArmExec(c, i) = PutMem(c, q, x)
      <3>1. ValueIn(c, Reg(26)) = q /\ q \in DOMAIN c.mem
        BY <1>6, <2>6, <2>7, <2>8, ArmShape DEF ValueIn
      <3> QED
        BY <2>1, <2>5, <3>1, StrDoes
    <2> HIDE DEF i, q
    <2> DEFINE e == PutMem(c, q, x)
    <2>10. Written(a, e, q, x)
      BY <1>5, <2>7, <2>8, PlaceWritten
    <2>11. Runs(c, <<i>>, e)
      BY <1>7, <2>9, RunsOne
    <2> HIDE DEF e
    <2>12. Runs(a, A \o V.code \o <<i>>, e)
      BY <2>2, <2>5, <2>11, RunsOn
    <2> QED
      BY <2>10, <2>12 DEF Writes
  <1> HIDE DEF i
  <1>11. /\ Fine(StoreCode(in))
         /\ o.kind = "imm" \/ InRegister(o.id) => Writes(a, StoreCode(in), q, x)
    BY <1>4, <1>9, <1>10
  <1> QED
    BY <1>11 DEF in, x

LEMMA StoreFieldWrites ==
    ASSUME HomeInv, next = 26, NEW p \in Local, IsPtr(p), NEW ty, NEW ty2,
           NEW o, Readable(o), Plain(o), NEW a \in ArmMachines, Content(a, p) \in Places
    PROVE  LET code == StoreCode(Store(ty, o, Temp(p, ty2)))
           IN  /\ Fine(code)
               /\ InRegister(p) /\ (o.kind = "imm" \/ InRegister(o.id)) =>
                      Writes(a, code, Content(a, p), Held(a, o))
  <1> DEFINE in == Store(ty, o, Temp(p, ty2))
             op == in.args[2]
             V == GetARMOpFromLLVMOp(o, 26)
             h == home[p].n
             x == Held(a, o)
             q == Content(a, p)
  <1>1. in.args[1] = o /\ op = Temp(p, ty2)
    BY DEF Store, Instr
  <1>2. LocalOf(op) = p /\ ~IsGlobal(op) /\ StoreThrough(op)
    BY <1>1, OperandFacts DEF StoreThrough
  <1> HIDE DEF in, op, V, x
  <1>3. 26 \in 26..29
    OBVIOUS
  <1>4. /\ Fine(V.code) /\ (V.opnd.kind = "reg" => V.opnd.n \in 0..29)
        /\ V.opnd.kind = "addr" <=> (o.kind # "imm" /\ ~InRegister(o.id))
        /\ V.opnd.kind # "addr" => V.opnd.kind = "reg" /\ V.opnd.n \in Registers
        /\ x \in Int
    BY <1>3, StoredOperand DEF Stored, V, x
  <1>5. Runs(a, <<>>, a) /\ Fine(<<>>)
    BY RunsNothing, FineFew
  <1>6. CASE ~InRegister(p)
    <2> DEFINE i == Str(26, home[p])
    <2>1. StoreCode(in) = <<>> \o V.code \o <<i>>
      <3>1. /\ Got(<<>>, Reg(26), 26).code = <<>> /\ Got(<<>>, Reg(26), 26).n = 26
            /\ Got(<<>>, Reg(26), 26).opnd = Reg(26) /\ Reg(26).n = 26
        BY OperandKinds DEF Got
      <3>2. StoreCode(in) =
              LET g == Got(<<>>, Reg(26), 26)
                  u == GetARMOpFromLLVMOp(o, g.n)
              IN  g.code \o u.code \o <<Str(g.opnd.n, home[p])>>
        BY <1>1, <1>2, <1>6 DEF StoreCode, op
      <3> QED
        BY <3>1, <3>2, Zenon DEF V
    <2>2. home[p].kind = "addr"
      BY <1>6, HomeFacts
    <2>3. Ok(i)
      BY <1>3, <2>2, OkShape, ScratchFacts DEF Str
    <2>4. Fine(<<>> \o V.code \o <<i>>)
      BY <1>4, <1>5, <2>3, FineOn, FineJoin
    <2>5. Fine(StoreCode(in))
      BY <2>1, <2>4
    <2> QED
      BY <1>6, <2>5 DEF in
  <1>7. CASE InRegister(p)
    <2> DEFINE i == IF V.opnd.kind = "addr" THEN Ldr(h, V.opnd) ELSE Str(V.opnd.n, home[p])
    <2>1. StoreCode(in) = <<>> \o V.code \o <<i>>
      <3>1. GetARMRegFromLLVMReg(op, next) = Got(<<>>, home[p], 26)
        BY <1>2, <1>7 DEF GetARMRegFromLLVMReg, RegOf
      <3>2. /\ Got(<<>>, home[p], 26).code = <<>> /\ Got(<<>>, home[p], 26).n = 26
            /\ Got(<<>>, home[p], 26).opnd = home[p]
        BY DEF Got
      <3>3. StoreCode(in) =
              LET g == Got(<<>>, home[p], 26)
                  u == GetARMOpFromLLVMOp(o, g.n)
              IN  g.code \o u.code
                  \o <<IF u.opnd.kind = "addr" THEN Ldr(g.opnd.n, u.opnd) ELSE Str(u.opnd.n, g.opnd)>>
        BY <1>1, <1>2, <1>7, <3>1 DEF StoreCode, op
      <3> QED
        BY <3>2, <3>3, Zenon DEF V
    <2>2. h \in HomeRegisters /\ h \in 0..29 /\ home[p].kind = "reg" /\ home[p].n \in 0..29
      BY <1>7, HomeFacts, RegisterFacts
    <2>3. Ok(i)
      <3>1. CASE V.opnd.kind = "addr"
        <4>1. Ok(Ldr(h, V.opnd))
          BY <2>2, <3>1, OkShape DEF Ldr
        <4> QED
          BY <3>1, <4>1
      <3>2. CASE V.opnd.kind # "addr"
        <4>1. V.opnd.n \in 0..29
          BY <1>4, <3>2
        <4>2. Ok(Str(V.opnd.n, home[p]))
          BY <2>2, <4>1, OkShape DEF Str
        <4> QED
          BY <3>2, <4>2
      <3> QED
        BY <3>1, <3>2
    <2>4. Fine(<<>> \o V.code \o <<i>>)
      BY <1>4, <1>5, <2>3, FineOn, FineJoin
    <2>5. ASSUME o.kind = "imm" \/ InRegister(o.id) PROVE Writes(a, <<>> \o V.code \o <<i>>, q, x)
      <3>1. V.opnd.kind # "addr"
        BY <1>4, <2>5
      <3>2. PICK c : Runs(a, V.code, c) /\ Apart(a, c, {26}) /\ c.reg[V.opnd.n] = x
        BY <1>3, <3>1, StoredOperand DEF Stored, V, x
      <3>3. h \in Registers \ {26} /\ 26 \notin HomeRegisters
        BY <1>3, <2>2, RegisterFacts, ScratchFacts
      <3>4. c.reg[h] = q
        BY <1>7, <3>2, <3>3 DEF Apart, Content
      <3>5. Apart(a, c, Scratch) /\ c \in ArmMachines
        BY <1>3, <3>2, ApartFrom, ScratchFacts DEF Apart
      <3>6. ArmExec(c, i) = PutMem(c, q, x)
        <4>1. ValueIn(c, home[p]) = q
          BY <2>2, <3>4 DEF ValueIn
        <4>2. q \in DOMAIN c.mem
          BY <3>5, ArmShape
        <4>3. i = Str(V.opnd.n, home[p])
          BY <3>1
        <4> HIDE DEF i, q
        <4> QED
          BY <3>2, <4>1, <4>2, <4>3, StrDoes
      <3> HIDE DEF i
      <3> DEFINE e == PutMem(c, q, x)
      <3>7. Written(a, e, q, x)
        BY <1>4, <3>5, PlaceWritten
      <3>8. Runs(c, <<i>>, e)
        BY <2>3, <3>6, RunsOne
      <3> HIDE DEF e
      <3>9. Runs(a, <<>> \o V.code \o <<i>>, e)
        BY <1>5, <3>2, <3>8, RunsOn
      <3> QED
        BY <3>7, <3>9 DEF Writes
    <2> HIDE DEF i
    <2>6. /\ Fine(StoreCode(in))
          /\ o.kind = "imm" \/ InRegister(o.id) => Writes(a, StoreCode(in), q, x)
      BY <2>1, <2>4, <2>5
    <2> QED
      BY <2>6 DEF in, x
  <1> QED
    BY <1>6, <1>7

-----------------------------------------------------------------------------
(* What a return or a branch shows.                                        *)
Shows(a, code, x) ==
    \E b : /\ Runs(a, code, b) /\ b \in ArmMachines /\ b.out = x /\ b.mem = a.mem
           /\ \A n \in HomeRegisters : b.reg[n] = a.reg[n]

LEMMA OutDoes ==
    ASSUME NEW a \in ArmMachines, NEW x \in Int
    PROVE  LET b == [a EXCEPT !.out = x]
           IN  /\ b \in ArmMachines /\ b.out = x /\ b.reg = a.reg /\ b.mem = a.mem
               /\ b.flags = a.flags
  BY DEF ArmMachines

LEMMA RetShows ==
    ASSUME HomeInv, NEW ty, NEW o, Readable(o), Plain(o), NEW a \in ArmMachines
    PROVE  Shows(a, RetCode(Ret(ty, o)), Held(a, o))
  <1> DEFINE in == Ret(ty, o)
             x == Held(a, o)
             b == PutReg(a, 0, x)
             c == [b EXCEPT !.out = x]
  <1>1. in.args[1] = o
    BY DEF Ret, Instr
  <1>2. RetCode(in) = <<Argument(o), Exit>>
    BY <1>1 DEF RetCode, Argument
  <1>3. Ok(Argument(o)) /\ ArmExec(a, Argument(o)) = b /\ x \in Int
    BY ArgumentMoved
  <1> HIDE DEF x
  <1>4. Ok(Exit)
    <2>1. 0 \in 0..29 /\ Imm(0).kind # "reg"
      BY OperandKinds
    <2> QED
      BY <2>1, OkShape DEF Exit
  <1>5. 0 \in Registers /\ {0} \subseteq Scratch
    BY DEF Registers, Scratch
  <1>6. Apart(a, b, {0}) /\ b.reg[0] = x
    BY <1>3, <1>5, PutRegDoes
  <1>7. b \in ArmMachines /\ Apart(a, b, Scratch)
    BY <1>5, <1>6, ApartFrom DEF Apart
  <1> HIDE DEF b
  <1>8. ArmExec(b, Exit) = c
    BY <1>6, ExitDoes
  <1>9. c \in ArmMachines /\ c.out = x /\ c.reg = b.reg /\ c.mem = b.mem
    BY <1>3, <1>7, OutDoes
  <1> HIDE DEF c
  <1>10. Runs(a, <<Argument(o), Exit>>, c)
    BY <1>3, <1>4, <1>8, RunsTwo
  <1>11. c.mem = a.mem /\ \A n \in HomeRegisters : c.reg[n] = a.reg[n]
    BY <1>7, <1>9, RegisterFacts DEF Apart
  <1>12. Shows(a, RetCode(in), x)
    BY <1>2, <1>9, <1>10, <1>11 DEF Shows
  <1> QED
    BY <1>12 DEF in, x

(* A selection and the branch on it.                                       *)
LEMMA BranchGives ==
    ASSUME HomeInv, next = 26, NEW d \in Local, NEW ty, NEW ty2, NEW ty3, NEW o, Readable(o),
           NEW a \in ArmMachines, a.out = Undefined
    PROVE  LET code == SelectCode(Select(Temp(d, ty), o, ty2)) \o BrCondCode(BrCond(Temp(d, ty3)))
               x == IF Held(a, o) = 1 THEN 1 ELSE 0
           IN  /\ Fine(code)
               /\ \E e : Assigned(a, e, d, x) /\ Runs(a, code, [e EXCEPT !.out = x])
  <1> DEFINE C == SelectCode(Select(Temp(d, ty), o, ty2))
             D == BrCondCode(BrCond(Temp(d, ty3)))
             y == Held(a, o)
             x == IF y = 1 THEN 1 ELSE 0
             i == BCond("eq")
             j == BCond("ne")
  <1>1. D = <<i, j>>
    BY DEF BrCondCode, BrCond, Instr, ToARM, Negate
  <1>2. PICK e : Runs(a, C, e) /\ Assigned(a, e, d, x) /\ e.flags = <<y, 1>>
    <2>1. HomeInv /\ next = 26 /\ Readable(o)
      OBVIOUS
    <2>2. Leaves(a, SelectCode(Select(Temp(d, ty), o, ty2)), d,
                 IF Held(a, o) = 1 THEN 1 ELSE 0, <<Held(a, o), 1>>)
      BY <2>1, SelectGives
    <2> QED
      BY <2>2 DEF Leaves
  <1>3. e \in ArmMachines /\ e.out = Undefined
    BY <1>2 DEF Assigned
  <1>4. Ok(i) /\ Ok(j)
    <2>1. 0 \in 0..29 /\ Imm(0).kind # "reg"
      BY OperandKinds
    <2> QED
      BY <2>1, OkShape DEF BCond
  <1> DEFINE b == [e EXCEPT !.out = x]
  <1>5. e.flags[1] = y /\ e.flags[2] = 1
    BY <1>2
  <1>6. /\ i.op = "bcond" /\ i.code = "eq" /\ j.op = "bcond" /\ j.code = "ne"
    BY DEF BCond, ARM
  <1> HIDE DEF C, D, y
  <1>7. ArmExec(ArmExec(e, i), j) = b
    <2>1. CASE y = 1
      <3>1. ArmExec(e, i) = [e EXCEPT !.out = 1]
        BY <1>3, <1>5, <1>6, <2>1 DEF ArmExec, ArmCond, Bit
      <3>2. b = [e EXCEPT !.out = 1] /\ b.out = 1 /\ 1 # Undefined
        BY <1>3, <2>1, OutDoes DEF Undefined
      <3>3. ArmExec(b, j) = b
        BY <1>6, <3>2 DEF ArmExec
      <3> QED
        BY <3>1, <3>2, <3>3
    <2>2. CASE y # 1
      <3>1. ArmExec(e, i) = e
        BY <1>3, <1>5, <1>6, <2>2 DEF ArmExec, ArmCond
      <3>2. ArmExec(e, j) = [e EXCEPT !.out = 0]
        BY <1>3, <1>5, <1>6, <2>2 DEF ArmExec, ArmCond, Bit
      <3> QED
        BY <2>2, <3>1, <3>2
    <2> QED
      BY <2>1, <2>2
  <1> HIDE DEF b, i, j
  <1>8. Runs(e, <<i, j>>, b)
    BY <1>4, <1>7, RunsTwo
  <1>9. Runs(a, C \o D, b)
    BY <1>1, <1>2, <1>8, RunsOn
  <1>10. Fine(C \o D)
    BY <1>9 DEF Runs
  <1> QED
    BY <1>2, <1>9, <1>10 DEF C, D, b, y

-----------------------------------------------------------------------------
(* The LLVM machine, and what single instructions do to it.                *)
Roles == {"dead", "temp", "ptr", "var"}
LlvmMachines == [temps : [Local -> Int], vars : [Local \cup Global -> Int],
                 heap : [Fields -> Int], out : Int, trap : BOOLEAN]
Value(m, o) == IF o.kind = "imm" THEN o.val ELSE m.temps[o.id]
Defining(m, d, x) == [m EXCEPT !.temps = [@ EXCEPT ![d] = x]]

LEMMA ExecBinOp ==
    ASSUME NEW m, ~m.trap, NEW d, NEW ty, NEW op, NEW a, NEW b
    PROVE  Exec(m, BinOp(Temp(d, ty), op, a, b))
             = Defining(m, d, Arithmetic(op, Value(m, a), Value(m, b)))
  <1> DEFINE dest == Temp(d, ty)
  <1>1. dest.id = d
    BY DEF Temp
  <1> HIDE DEF dest
  <1>2. Exec(m, BinOp(dest, op, a, b)) = Defining(m, dest.id, Arithmetic(op, Value(m, a), Value(m, b)))
    BY DEF Exec, BinOp, Instr, Value, Defining, ValueOperands
  <1> QED
    BY <1>1, <1>2 DEF dest

LEMMA ExecICMP ==
    ASSUME NEW m, ~m.trap, NEW d, NEW ty, NEW cc, NEW ty2, NEW a, NEW b
    PROVE  Exec(m, ICMP(Temp(d, ty), cc, ty2, a, b))
             = Defining(m, d, Bit(Holds(cc, Value(m, a), Value(m, b))))
  <1> DEFINE dest == Temp(d, ty)
  <1>1. dest.id = d
    BY DEF Temp
  <1> HIDE DEF dest
  <1>2. Exec(m, ICMP(dest, cc, ty2, a, b)) = Defining(m, dest.id, Bit(Holds(cc, Value(m, a), Value(m, b))))
    BY DEF Exec, ICMP, Instr, Value, Defining, ValueOperands
  <1> QED
    BY <1>1, <1>2 DEF dest

LEMMA ExecSelect ==
    ASSUME NEW m, ~m.trap, NEW d, NEW ty, NEW a, NEW ty2
    PROVE  Exec(m, Select(Temp(d, ty), a, ty2))
             = Defining(m, d, IF Value(m, a) = 1 THEN 1 ELSE 0)
  <1> DEFINE in == Select(Temp(d, ty), a, ty2)
  <1>1. /\ in.op = "Select" /\ in.dest.id = d
        /\ in.args = <<a, One(ty2), Zero(ty2)>>
    BY DEF Select, Instr, Temp
  <1> HIDE DEF in
  <1>2. /\ DOMAIN in.args = 1..3 /\ in.args[1] = a
        /\ in.args[2] = One(ty2) /\ in.args[3] = Zero(ty2)
    BY <1>1
  <1>3. ValueOperands(in) = 1..3
    BY <1>1, <1>2 DEF ValueOperands
  <1>4. Value(m, in.args[2]) = 1 /\ Value(m, in.args[3]) = 0
    <2>1. One(ty2).kind = "imm" /\ One(ty2).val = 1
      BY DEF One, Immediate
    <2>2. Zero(ty2).kind = "imm" /\ Zero(ty2).val = 0
      BY DEF Zero, Immediate
    <2> QED
      BY <1>2, <2>1, <2>2 DEF Value
  <1>5. Exec(m, in) = Defining(m, d, IF Value(m, a) = 1 THEN 1 ELSE 0)
    BY <1>1, <1>2, <1>3, <1>4 DEF Exec, Value, Defining
  <1> QED
    BY <1>5 DEF in

LEMMA ExecBitcast ==
    ASSUME NEW m, ~m.trap, NEW d, NEW ty, NEW a, NEW ty2
    PROVE  Exec(m, Bitcast(Temp(d, ty), a, ty2))
             = Defining(m, d, Value(m, a))
  <1> DEFINE dest == Temp(d, ty)
  <1>1. dest.id = d
    BY DEF Temp
  <1> HIDE DEF dest
  <1>2. Exec(m, Bitcast(dest, a, ty2)) = Defining(m, dest.id, Value(m, a))
    BY DEF Exec, Bitcast, Instr, Value, Defining, ValueOperands
  <1> QED
    BY <1>1, <1>2 DEF dest

LEMMA ExecGetElementPtr ==
    ASSUME NEW m, ~m.trap, NEW d, NEW ty, NEW s, NEW ty2, NEW field
    PROVE  Exec(m, GetElementPtr(Temp(d, ty), Temp(s, ty2), field))
             = Defining(m, d, m.temps[s] + Offset(field))
  BY DEF Exec, GetElementPtr, Instr, Temp, Defining

LEMMA ExecMalloc ==
    ASSUME NEW m, ~m.trap, NEW d, NEW ty
    PROVE  Exec(m, Malloc(Temp(d, ty))) = Defining(m, d, NewObject)
  BY DEF Exec, Malloc, Instr, Temp, Defining

LEMMA ExecCallAssign ==
    ASSUME NEW m, ~m.trap, NEW d, NEW ty, NEW rty, NEW fn, NEW pty, NEW a
    PROVE  Exec(m, CallAssign(Temp(d, ty), rty, fn, pty, a))
             = Defining(m, d, Called(fn, Value(m, a)))
  <1> DEFINE dest == Temp(d, ty)
  <1>1. dest.id = d
    BY DEF Temp
  <1> HIDE DEF dest
  <1>2. Exec(m, CallAssign(dest, rty, fn, pty, a)) = Defining(m, dest.id, Called(fn, Value(m, a)))
    BY DEF Exec, CallAssign, Instr, Value, Defining, ValueOperands
  <1> QED
    BY <1>1, <1>2 DEF dest

LEMMA ExecLoadVariable ==
    ASSUME NEW m, ~m.trap, NEW d, NEW ty, NEW ty1, NEW ty2, NEW v
    PROVE  Exec(m, Load(ty, Temp(d, ty1), Variable(v, ty2))) = Defining(m, d, m.vars[v])
  <1> DEFINE dest == Temp(d, ty1)
             o == Variable(v, ty2)
  <1>1. dest.id = d /\ o.kind = "var" /\ o.name = v
    BY DEF Temp, Variable
  <1> HIDE DEF dest, o
  <1>2. Exec(m, Load(ty, dest, o)) = Defining(m, dest.id, m.vars[o.name])
    BY <1>1 DEF Exec, Load, Instr, Defining
  <1> QED
    BY <1>1, <1>2 DEF dest, o

LEMMA ExecLoadField ==
    ASSUME NEW m, ~m.trap, NEW d, NEW ty, NEW ty1, NEW ty2, NEW p, m.temps[p] \in DOMAIN m.heap
    PROVE  Exec(m, Load(ty, Temp(d, ty1), Temp(p, ty2))) = Defining(m, d, m.heap[m.temps[p]])
  <1> DEFINE dest == Temp(d, ty1)
             o == Temp(p, ty2)
  <1>1. dest.id = d /\ o.kind = "temp" /\ o.id = p
    BY DEF Temp
  <1> HIDE DEF dest, o
  <1>2. Exec(m, Load(ty, dest, o)) = Defining(m, dest.id, m.heap[m.temps[o.id]])
    BY <1>1 DEF Exec, Load, Instr, Defining
  <1> QED
    BY <1>1, <1>2 DEF dest, o

LEMMA ExecStoreVariable ==
    ASSUME NEW m, ~m.trap, NEW ty, NEW a, NEW ty2, NEW v
    PROVE  Exec(m, Store(ty, a, Variable(v, ty2))) = [m EXCEPT !.vars = [@ EXCEPT ![v] = Value(m, a)]]
  <1> DEFINE o == Variable(v, ty2)
  <1>1. o.kind = "var" /\ o.name = v
    BY DEF Variable
  <1> HIDE DEF o
  <1>2. Exec(m, Store(ty, a, o)) = [m EXCEPT !.vars = [@ EXCEPT ![o.name] = Value(m, a)]]
    BY <1>1 DEF Exec, Store, Instr, Value, ValueOperands
  <1> QED
    BY <1>1, <1>2 DEF o

LEMMA ExecStoreField ==
    ASSUME NEW m, ~m.trap, NEW ty, NEW a, NEW ty2, NEW p, m.temps[p] \in DOMAIN m.heap
    PROVE  Exec(m, Store(ty, a, Temp(p, ty2)))
             = [m EXCEPT !.heap = [@ EXCEPT ![m.temps[p]] = Value(m, a)]]
  <1> DEFINE o == Temp(p, ty2)
  <1>1. o.kind = "temp" /\ o.id = p
    BY DEF Temp
  <1> HIDE DEF o
  <1>2. Exec(m, Store(ty, a, o)) = [m EXCEPT !.heap = [@ EXCEPT ![m.temps[o.id]] = Value(m, a)]]
    BY <1>1 DEF Exec, Store, Instr, Value, ValueOperands
  <1> QED
    BY <1>1, <1>2 DEF o

LEMMA ExecSeen ==
    ASSUME NEW m, ~m.trap, NEW ty, NEW a
    PROVE  /\ Exec(m, Ret(ty, a)) = [m EXCEPT !.out = Value(m, a)]
           /\ Exec(m, BrCond(a)) = [m EXCEPT !.out = Value(m, a)]
  BY DEF Exec, Ret, BrCond, Instr, Value, ValueOperands

LEMMA LlvmShape ==
    ASSUME NEW m \in LlvmMachines
    PROVE  /\ m.temps \in [Local -> Int] /\ m.vars \in [Local \cup Global -> Int]
           /\ m.heap \in [Fields -> Int] /\ m.out \in Int /\ m.trap \in BOOLEAN
           /\ DOMAIN m.heap = Fields /\ DOMAIN m.vars = Local \cup Global
  BY DEF LlvmMachines

-----------------------------------------------------------------------------
(* What the two machines have to do with each other.                       *)
Alone ==
    \A l, k \in Local : l # k /\ role[l] # "dead" /\ role[k] # "dead" => home[l] # home[k]
Pointers == \A l \in Local : role[l] = "ptr" => llvm.temps[l] \in Fields
Together ==
    /\ llvm \in LlvmMachines /\ ~llvm.trap /\ arm \in ArmMachines
    /\ Simulates /\ Alone /\ Pointers

(* The inductive invariant.  Only the homes of live locals are known, so   *)
(* live locals must have different homes; a load or a store through a      *)
(* pointer must find a field; and as long as the comparison lasts no       *)
(* scratch register has been lost.                                         *)
TranslateInv ==
    /\ HomeInv /\ role \in [Local -> Roles] /\ highest \in 0..29
    /\ sound => next = 26 /\ Together

-----------------------------------------------------------------------------
(* A step of the two machines.                                             *)
Cleared(m) == [m EXCEPT !.out = Undefined]
Become(d, r) ==
    [l \in Local |-> IF l = d THEN r
                     ELSE IF d \in Local /\ home[l] = home[d] THEN "dead" ELSE role[l]]
Trimmed(m, become) ==
    [m EXCEPT !.temps = [l \in Local |-> IF become[l] \in {"temp", "ptr"} THEN @[l] ELSE Undefined],
              !.vars = [v \in DOMAIN @ |-> IF v \in Local /\ become[v] # "var" THEN Undefined
                                           ELSE @[v]]]
Step(code, after, d, r) ==
    /\ role' = Become(d, r) /\ llvm' = Trimmed(after, Become(d, r))
    /\ arm' = Forget(ArmRun(Cleared(arm), code)) /\ home' = home

LEMMA ClearedFacts ==
    /\ \A m \in LlvmMachines :
          /\ Cleared(m) \in LlvmMachines /\ Cleared(m).temps = m.temps /\ Cleared(m).vars = m.vars
          /\ Cleared(m).heap = m.heap /\ Cleared(m).out = Undefined /\ Cleared(m).trap = m.trap
    /\ \A a \in ArmMachines :
          /\ Cleared(a) \in ArmMachines /\ Cleared(a).reg = a.reg /\ Cleared(a).mem = a.mem
          /\ Cleared(a).out = Undefined
  <1>1. Undefined \in Int
    BY DEF Undefined
  <1> QED
    BY <1>1 DEF Cleared, LlvmMachines, ArmMachines

LEMMA ForgetFacts ==
    ASSUME NEW a \in ArmMachines
    PROVE  /\ Forget(a) \in ArmMachines /\ Forget(a).mem = a.mem /\ Forget(a).out = a.out
           /\ \A n \in HomeRegisters : Forget(a).reg[n] = a.reg[n]
  <1> DEFINE R == [n \in Registers |-> IF n \in HomeRegisters THEN a.reg[n] ELSE Undefined]
             b == [a EXCEPT !.reg = R, !.flags = <<0, 0>>]
  <1>1. Forget(a) = b
    BY DEF Forget
  <1>2. R \in [Registers -> Int] /\ \A n \in HomeRegisters : R[n] = a.reg[n]
    BY ArmShape, RegisterFacts DEF Undefined
  <1>3. <<0, 0>> \in Int \X Int
    OBVIOUS
  <1> HIDE DEF R
  <1>4. b \in ArmMachines /\ b.reg = R /\ b.mem = a.mem /\ b.out = a.out
    BY <1>2, <1>3 DEF ArmMachines
  <1> QED
    BY <1>1, <1>2, <1>4

LEMMA TrimmedFacts ==
    ASSUME NEW m \in LlvmMachines, NEW become
    PROVE  LET t == Trimmed(m, become)
           IN  /\ t \in LlvmMachines /\ t.heap = m.heap /\ t.out = m.out /\ t.trap = m.trap
               /\ \A l \in Local : become[l] \in {"temp", "ptr"} => t.temps[l] = m.temps[l]
               /\ \A l \in Local : become[l] = "var" => t.vars[l] = m.vars[l]
               /\ \A g \in Global : t.vars[g] = m.vars[g]
  <1> DEFINE T == [l \in Local |-> IF become[l] \in {"temp", "ptr"} THEN m.temps[l] ELSE Undefined]
             V == [v \in DOMAIN m.vars |-> IF v \in Local /\ become[v] # "var" THEN Undefined
                                           ELSE m.vars[v]]
             t == [m EXCEPT !.temps = T, !.vars = V]
  <1>1. Trimmed(m, become) = t
    BY DEF Trimmed
  <1>2. T \in [Local -> Int] /\ \A l \in Local : become[l] \in {"temp", "ptr"} => T[l] = m.temps[l]
    BY LlvmShape DEF Undefined
  <1>3. /\ V \in [Local \cup Global -> Int]
        /\ \A l \in Local : become[l] = "var" => V[l] = m.vars[l]
    BY LlvmShape DEF Undefined
  <1>4. \A g \in Global : V[g] = m.vars[g]
    BY LlvmShape, LocalNotGlobal
  <1> HIDE DEF T, V
  <1>5. /\ t \in LlvmMachines /\ t.temps = T /\ t.vars = V /\ t.heap = m.heap /\ t.out = m.out
        /\ t.trap = m.trap
    BY <1>2, <1>3 DEF LlvmMachines
  <1> QED
    BY <1>1, <1>2, <1>3, <1>4, <1>5

LEMMA BecomeFacts ==
    ASSUME role \in [Local -> Roles], Alone, NEW d, NEW r \in Roles
    PROVE  LET become == Become(d, r)
           IN  /\ become \in [Local -> Roles]
               /\ \A l, k \in Local :
                     l # k /\ become[l] # "dead" /\ become[k] # "dead" => home[l] # home[k]
               /\ d \in Local => become[d] = r
               /\ \A l \in Local : l # d /\ become[l] # "dead" =>
                     become[l] = role[l] /\ (d \in Local => home[l] # home[d])
  BY DEF Become, Alone, Roles

(* If every home that matters has what it should have, the machines agree. *)
LEMMA Kept ==
    ASSUME HomeInv, NEW after \in LlvmMachines, ~after.trap, NEW b \in ArmMachines,
           NEW become \in [Local -> Roles],
           role' = become, llvm' = Trimmed(after, become), arm' = Forget(b), home' = home,
           \A l, k \in Local : l # k /\ become[l] # "dead" /\ become[k] # "dead" => home[l] # home[k],
           \A l \in Local : become[l] = "ptr" => after.temps[l] \in Fields,
           \A l \in Local : become[l] # "dead" =>
               Content(b, l) = IF become[l] = "var" THEN after.vars[l] ELSE after.temps[l],
           \A g \in Global : b.mem[Place(g)] = after.vars[g],
           \A f \in Fields : b.mem[f] = after.heap[f],
           b.out = after.out
    PROVE  Together'
  <1> DEFINE t == Trimmed(after, become)
             c == Forget(b)
  <1>1. /\ t \in LlvmMachines /\ t.heap = after.heap /\ t.out = after.out /\ t.trap = after.trap
        /\ \A l \in Local : become[l] \in {"temp", "ptr"} => t.temps[l] = after.temps[l]
        /\ \A l \in Local : become[l] = "var" => t.vars[l] = after.vars[l]
        /\ \A g \in Global : t.vars[g] = after.vars[g]
    BY TrimmedFacts
  <1>2. /\ c \in ArmMachines /\ c.mem = b.mem /\ c.out = b.out
        /\ \A n \in HomeRegisters : c.reg[n] = b.reg[n]
    BY ForgetFacts
  <1> HIDE DEF t, c
  <1>3. llvm' = t /\ arm' = c
    BY DEF t, c
  <1>4. Alone'
    BY DEF Alone
  <1>5. Pointers'
    BY <1>1, <1>3 DEF Pointers
  <1>6. Simulates'
    <2>1. ASSUME NEW l \in Local, role'[l] # "dead" PROVE ContentOf(l)' = Meant(l)'
      <3>1. ContentOf(l)' = IF InRegister(l) THEN c.reg[home[l].n] ELSE c.mem[home[l].n]
        BY <1>3 DEF ContentOf, InRegister
      <3>2. ContentOf(l)' = Content(b, l)
        BY <1>2, <3>1, HomeFacts DEF Content
      <3>3. become[l] \in Roles /\ become[l] # "dead"
        BY <2>1
      <3>4. Meant(l)' = IF become[l] = "var" THEN t.vars[l] ELSE t.temps[l]
        BY <1>3 DEF Meant
      <3>5. Meant(l)' = IF become[l] = "var" THEN after.vars[l] ELSE after.temps[l]
        BY <1>1, <3>3, <3>4 DEF Roles
      <3> QED
        BY <3>2, <3>3, <3>5
    <2>2. \A g \in Global : arm'.mem[Place(g)] = llvm'.vars[g]
      BY <1>1, <1>2, <1>3
    <2>3. \A f \in Fields : arm'.mem[f] = llvm'.heap[f]
      BY <1>1, <1>2, <1>3
    <2>4. DOMAIN llvm'.heap = Fields
      BY <1>1, <1>3, LlvmShape
    <2>5. arm'.out = llvm'.out
      BY <1>1, <1>2, <1>3
    <2> QED
      BY <2>1, <2>2, <2>3, <2>4, <2>5 DEF Simulates
  <1> QED
    BY <1>1, <1>2, <1>3, <1>4, <1>5, <1>6 DEF Together

LEMMA PlacesApart ==
    ASSUME NEW l \in Local
    PROVE  /\ Slot(l) \notin Fields
           /\ \A g \in Global : Slot(l) # Place(g) /\ Place(g) \notin Fields
           /\ \A k \in Local : Slot(k) = Slot(l) => k = l
  <1>1. l \in Int /\ l >= 1 /\ \A k \in Local : k \in Int
    BY BoundsAssumption DEF Local
  <1> QED
    BY <1>1 DEF Slot, Fields, NewObject, Global, Count, Struct, Place, Page, Lo12

LEMMA GlobalsApart ==
    /\ Place(Count) # Place(Struct)
    /\ \A g \in Global : Place(g) \notin Fields
  BY DEF Fields, NewObject, Global, Count, Struct, Place, Page, Lo12

LEMMA AssignedMeans ==
    ASSUME HomeInv, NEW a \in ArmMachines, NEW b, NEW d \in Local, NEW x, Assigned(a, b, d, x)
    PROVE  /\ Content(b, d) = x
           /\ \A l \in Local : home[l] # home[d] => Content(b, l) = Content(a, l)
           /\ \A g \in Global : b.mem[Place(g)] = a.mem[Place(g)]
           /\ \A f \in Fields : b.mem[f] = a.mem[f]
  <1>1. CASE InRegister(d)
    <2>1. ASSUME NEW l \in Local, home[l] # home[d] PROVE Content(b, l) = Content(a, l)
      <3>1. CASE InRegister(l)
        <4>1. home[l] = Reg(home[l].n) /\ home[d] = Reg(home[d].n) /\ home[l].n \in HomeRegisters
          BY <1>1, <3>1, HomeFacts
        <4>2. home[l].n \in HomeRegisters \ {home[d].n}
          BY <2>1, <4>1
        <4> QED
          BY <1>1, <3>1, <4>2 DEF Assigned, Content
      <3>2. CASE ~InRegister(l)
        BY <1>1, <3>2 DEF Assigned, Content
      <3> QED
        BY <3>1, <3>2
    <2> QED
      BY <1>1, <2>1 DEF Assigned, Content
  <1>2. CASE ~InRegister(d)
    <2>1. home[d] = Addr(Slot(d)) /\ home[d].n = Slot(d) /\ Slot(d) \in Places
      BY <1>2, HomeFacts
    <2>2. b.mem = [a.mem EXCEPT ![Slot(d)] = x] /\ \A n \in HomeRegisters : b.reg[n] = a.reg[n]
      BY <1>2, <2>1 DEF Assigned
    <2>3. b.mem[Slot(d)] = x /\ \A p \in Places : p # Slot(d) => b.mem[p] = a.mem[p]
      BY <2>1, <2>2, ArmShape
    <2>4. ASSUME NEW l \in Local, home[l] # home[d] PROVE Content(b, l) = Content(a, l)
      <3>1. CASE InRegister(l)
        BY <2>2, <3>1, HomeFacts DEF Content
      <3>2. CASE ~InRegister(l)
        <4>1. home[l] = Addr(Slot(l)) /\ home[l].n = Slot(l) /\ Slot(l) \in Places
          BY <3>2, HomeFacts
        <4>2. Slot(l) # Slot(d)
          BY <2>1, <2>4, <4>1
        <4> QED
          BY <2>3, <3>2, <4>1, <4>2 DEF Content
      <3> QED
        BY <3>1, <3>2
    <2>5. \A g \in Global : b.mem[Place(g)] = a.mem[Place(g)]
      BY <2>3, GlobalPlaces, PlacesApart
    <2>6. \A f \in Fields : b.mem[f] = a.mem[f]
      BY <2>3, PlacesApart DEF Places
    <2> QED
      BY <1>2, <2>1, <2>3, <2>4, <2>5, <2>6 DEF Content
  <1> QED
    BY <1>1, <1>2

LEMMA WrittenMeans ==
    ASSUME HomeInv, NEW a \in ArmMachines, NEW b, NEW q \in Places, NEW x, Written(a, b, q, x),
           \A l \in Local : q # Slot(l)
    PROVE  /\ \A l \in Local : Content(b, l) = Content(a, l)
           /\ b.mem[q] = x /\ \A p \in Places : p # q => b.mem[p] = a.mem[p]
  <1>1. b.mem = [a.mem EXCEPT ![q] = x] /\ \A n \in HomeRegisters : b.reg[n] = a.reg[n]
    BY DEF Written
  <1>2. b.mem[q] = x /\ \A p \in Places : p # q => b.mem[p] = a.mem[p]
    BY <1>1, ArmShape
  <1>3. ASSUME NEW l \in Local PROVE Content(b, l) = Content(a, l)
    <2>1. CASE InRegister(l)
      BY <1>1, <2>1, HomeFacts DEF Content
    <2>2. CASE ~InRegister(l)
      BY <1>2, <2>2, HomeFacts DEF Content
    <2> QED
      BY <2>1, <2>2
  <1> QED
    BY <1>2, <1>3

-----------------------------------------------------------------------------
LEMMA LiveFacts ==
    ASSUME TranslateInv, sound
    PROVE  LET a == Cleared(arm) m == Cleared(llvm)
           IN  /\ HomeInv /\ next = 26 /\ a \in ArmMachines /\ m \in LlvmMachines /\ ~m.trap
               /\ a.out = Undefined /\ m.out = Undefined
               /\ m.temps = llvm.temps /\ m.vars = llvm.vars /\ m.heap = llvm.heap
               /\ \A l \in Local : role[l] # "dead" => Content(a, l) = Meant(l)
               /\ \A g \in Global : a.mem[Place(g)] = llvm.vars[g]
               /\ \A f \in Fields : a.mem[f] = llvm.heap[f]
               /\ \A l \in Local : role[l] = "ptr" => llvm.temps[l] \in Fields
               /\ Alone /\ role \in [Local -> Roles]
  <1> DEFINE a == Cleared(arm)
             m == Cleared(llvm)
  <1>1. HomeInv /\ next = 26 /\ role \in [Local -> Roles] /\ Together
    BY DEF TranslateInv
  <1>2. /\ llvm \in LlvmMachines /\ ~llvm.trap /\ arm \in ArmMachines
        /\ Simulates /\ Alone /\ Pointers
    BY <1>1 DEF Together
  <1>3. /\ a \in ArmMachines /\ a.reg = arm.reg /\ a.mem = arm.mem /\ a.out = Undefined
        /\ m \in LlvmMachines /\ m.temps = llvm.temps /\ m.vars = llvm.vars
        /\ m.heap = llvm.heap /\ m.out = Undefined /\ m.trap = llvm.trap
    BY <1>2, ClearedFacts
  <1> HIDE DEF a, m
  <1>4. \A l \in Local : role[l] # "dead" => Content(a, l) = Meant(l)
    BY <1>2, <1>3 DEF Simulates, ContentOf, Content
  <1>5. /\ \A g \in Global : a.mem[Place(g)] = llvm.vars[g]
        /\ \A f \in Fields : a.mem[f] = llvm.heap[f]
    BY <1>2, <1>3, LlvmShape DEF Simulates
  <1>6. \A l \in Local : role[l] = "ptr" => llvm.temps[l] \in Fields
    BY <1>2 DEF Pointers
  <1> QED
    BY <1>1, <1>2, <1>3, <1>4, <1>5, <1>6 DEF a, m

(* A local gets the value x in both machines: after and b, which differs   *)
(* from e in what it shows at most.                                        *)
LocalGets(d, r, x, after, e, b) ==
    /\ r \in {"temp", "ptr", "var"} /\ (r = "ptr" => x \in Fields)
    /\ after \in LlvmMachines /\ ~after.trap /\ b \in ArmMachines
    /\ Assigned(Cleared(arm), e, d, x)
    /\ b.reg = e.reg /\ b.mem = e.mem /\ b.out = after.out
    /\ (IF r = "var" THEN after.vars[d] ELSE after.temps[d]) = x
    /\ \A l \in Local \ {d} : after.temps[l] = llvm.temps[l] /\ after.vars[l] = llvm.vars[l]
    /\ \A g \in Global : after.vars[g] = llvm.vars[g]
    /\ after.heap = llvm.heap

LEMMA LocalStep ==
    ASSUME TranslateInv, sound, NEW d \in Local, NEW r, NEW x, NEW code, NEW after, NEW e, NEW b,
           LocalGets(d, r, x, after, e, b), ArmRun(Cleared(arm), code) = b, Step(code, after, d, r)
    PROVE  Together'
  <1> DEFINE a == Cleared(arm)
             become == Become(d, r)
  <1>1. /\ HomeInv /\ a \in ArmMachines
        /\ \A l \in Local : role[l] # "dead" => Content(a, l) = Meant(l)
        /\ \A g \in Global : a.mem[Place(g)] = llvm.vars[g]
        /\ \A f \in Fields : a.mem[f] = llvm.heap[f]
        /\ \A l \in Local : role[l] = "ptr" => llvm.temps[l] \in Fields
        /\ Alone /\ role \in [Local -> Roles]
    BY LiveFacts
  <1>0. /\ r \in {"temp", "ptr", "var"} /\ (r = "ptr" => x \in Fields)
        /\ after \in LlvmMachines /\ ~after.trap /\ b \in ArmMachines
        /\ Assigned(a, e, d, x)
        /\ b.reg = e.reg /\ b.mem = e.mem /\ b.out = after.out
        /\ (IF r = "var" THEN after.vars[d] ELSE after.temps[d]) = x
        /\ \A l \in Local \ {d} : after.temps[l] = llvm.temps[l] /\ after.vars[l] = llvm.vars[l]
        /\ \A g \in Global : after.vars[g] = llvm.vars[g]
        /\ after.heap = llvm.heap
    BY DEF LocalGets
  <1>2. /\ Content(e, d) = x
        /\ \A l \in Local : home[l] # home[d] => Content(e, l) = Content(a, l)
        /\ \A g \in Global : e.mem[Place(g)] = a.mem[Place(g)]
        /\ \A f \in Fields : e.mem[f] = a.mem[f]
    <2> HIDE DEF a
    <2> QED
      BY <1>0, <1>1, AssignedMeans
  <1>3. r \in Roles /\ r # "dead"
    BY <1>0 DEF Roles
  <1>4. /\ become \in [Local -> Roles]
        /\ \A l, k \in Local : l # k /\ become[l] # "dead" /\ become[k] # "dead" => home[l] # home[k]
        /\ become[d] = r
        /\ \A l \in Local : l # d /\ become[l] # "dead" => become[l] = role[l] /\ home[l] # home[d]
    BY <1>1, <1>3, BecomeFacts
  <1>5. /\ role' = become /\ llvm' = Trimmed(after, become) /\ arm' = Forget(b) /\ home' = home
    BY DEF Step
  <1> HIDE DEF a, become
  <1>6. \A l \in Local : Content(b, l) = Content(e, l)
    BY <1>0 DEF Content
  <1>7. ASSUME NEW l \in Local, become[l] # "dead"
        PROVE  Content(b, l) = IF become[l] = "var" THEN after.vars[l] ELSE after.temps[l]
    <2>1. CASE l = d
      BY <1>0, <1>2, <1>4, <1>6, <2>1
    <2>2. CASE l # d
      <3>1. become[l] = role[l] /\ home[l] # home[d]
        BY <1>4, <1>7, <2>2
      <3>2. Content(b, l) = Meant(l)
        BY <1>1, <1>2, <1>6, <1>7, <3>1
      <3> QED
        BY <1>0, <2>2, <3>1, <3>2 DEF Meant
    <2> QED
      BY <2>1, <2>2
  <1>8. \A l \in Local : become[l] = "ptr" => after.temps[l] \in Fields
    <2> SUFFICES ASSUME NEW l \in Local, become[l] = "ptr" PROVE after.temps[l] \in Fields
      OBVIOUS
    <2>1. CASE l = d
      BY <1>0, <1>4, <2>1
    <2>2. CASE l # d
      BY <1>0, <1>1, <1>4, <2>2
    <2> QED
      BY <2>1, <2>2
  <1>9. /\ \A g \in Global : b.mem[Place(g)] = after.vars[g]
        /\ \A f \in Fields : b.mem[f] = after.heap[f]
    BY <1>0, <1>1, <1>2
  <1> QED
    BY <1>0, <1>1, <1>4, <1>5, <1>7, <1>8, <1>9, Kept

(* No local changes.                                                       *)
OtherGets(after, b) ==
    /\ after \in LlvmMachines /\ ~after.trap /\ b \in ArmMachines /\ b.out = after.out
    /\ \A l \in Local : Content(b, l) = Content(Cleared(arm), l)
    /\ \A l \in Local : after.temps[l] = llvm.temps[l] /\ after.vars[l] = llvm.vars[l]
    /\ \A g \in Global : b.mem[Place(g)] = after.vars[g]
    /\ \A f \in Fields : b.mem[f] = after.heap[f]

LEMMA OtherStep ==
    ASSUME TranslateInv, sound, NEW d, d \notin Local, NEW r \in Roles, NEW code, NEW after, NEW b,
           OtherGets(after, b), ArmRun(Cleared(arm), code) = b, Step(code, after, d, r)
    PROVE  Together'
  <1> DEFINE a == Cleared(arm)
             become == Become(d, r)
  <1>1. /\ HomeInv /\ a \in ArmMachines
        /\ \A l \in Local : role[l] # "dead" => Content(a, l) = Meant(l)
        /\ \A l \in Local : role[l] = "ptr" => llvm.temps[l] \in Fields
        /\ Alone /\ role \in [Local -> Roles]
    BY LiveFacts
  <1>0. /\ after \in LlvmMachines /\ ~after.trap /\ b \in ArmMachines /\ b.out = after.out
        /\ \A l \in Local : Content(b, l) = Content(a, l)
        /\ \A l \in Local : after.temps[l] = llvm.temps[l] /\ after.vars[l] = llvm.vars[l]
        /\ \A g \in Global : b.mem[Place(g)] = after.vars[g]
        /\ \A f \in Fields : b.mem[f] = after.heap[f]
    BY DEF OtherGets
  <1>2. /\ become \in [Local -> Roles]
        /\ \A l, k \in Local : l # k /\ become[l] # "dead" /\ become[k] # "dead" => home[l] # home[k]
        /\ \A l \in Local : l # d /\ become[l] # "dead" => become[l] = role[l]
    BY <1>1, BecomeFacts
  <1>3. /\ role' = become /\ llvm' = Trimmed(after, become) /\ arm' = Forget(b) /\ home' = home
    BY DEF Step
  <1> HIDE DEF a, become
  <1>4. ASSUME NEW l \in Local, become[l] # "dead"
        PROVE  Content(b, l) = IF become[l] = "var" THEN after.vars[l] ELSE after.temps[l]
    <2>1. become[l] = role[l]
      BY <1>2, <1>4
    <2>2. Content(b, l) = Meant(l)
      BY <1>0, <1>1, <1>4, <2>1
    <2> QED
      BY <1>0, <2>1, <2>2 DEF Meant
  <1>5. \A l \in Local : become[l] = "ptr" => after.temps[l] \in Fields
    BY <1>0, <1>1, <1>2
  <1> QED
    BY <1>0, <1>1, <1>2, <1>3, <1>4, <1>5, Kept

LEMMA DefiningFacts ==
    ASSUME NEW m \in LlvmMachines, NEW d \in Local, NEW x \in Int
    PROVE  LET t == Defining(m, d, x)
           IN  /\ t \in LlvmMachines /\ t.temps = [m.temps EXCEPT ![d] = x] /\ t.vars = m.vars
               /\ t.heap = m.heap /\ t.out = m.out /\ t.trap = m.trap
  BY DEF Defining, LlvmMachines

LEMMA DefineStep ==
    ASSUME TranslateInv, sound, NEW d \in Local, NEW r \in {"temp", "ptr"}, NEW x \in Int,
           r = "ptr" => x \in Fields, NEW code, Gives(Cleared(arm), code, d, x),
           Step(code, Defining(Cleared(llvm), d, x), d, r)
    PROVE  Together'
  <1> DEFINE a == Cleared(arm)
             m == Cleared(llvm)
             t == Defining(m, d, x)
  <1>1. /\ a.out = Undefined /\ m.out = Undefined /\ m \in LlvmMachines /\ ~m.trap
        /\ m.temps = llvm.temps /\ m.vars = llvm.vars /\ m.heap = llvm.heap
    BY LiveFacts
  <1> HIDE DEF m
  <1>2. /\ t \in LlvmMachines /\ t.temps = [m.temps EXCEPT ![d] = x] /\ t.vars = m.vars
        /\ t.heap = m.heap /\ t.out = m.out /\ t.trap = m.trap
    BY <1>1, DefiningFacts
  <1>3. PICK b : Runs(a, code, b) /\ Assigned(a, b, d, x)
    BY DEF Gives
  <1> HIDE DEF t
  <1>4. b \in ArmMachines /\ b.out = t.out /\ ArmRun(a, code) = b
    BY <1>1, <1>2, <1>3 DEF Assigned, Runs
  <1> HIDE DEF a
  <1>5. /\ t.temps[d] = x /\ \A l \in Local \ {d} : t.temps[l] = llvm.temps[l]
    BY <1>1, <1>2, LlvmShape
  <1>6. Step(code, t, d, r)
    BY DEF t, m
  <1>7. /\ r \in {"temp", "ptr", "var"} /\ r # "var" /\ TranslateInv /\ sound
        /\ r = "ptr" => x \in Fields
    OBVIOUS
  <1>8. /\ (IF r = "var" THEN t.vars[d] ELSE t.temps[d]) = x
        /\ \A l \in Local \ {d} : t.temps[l] = llvm.temps[l] /\ t.vars[l] = llvm.vars[l]
        /\ \A g \in Global : t.vars[g] = llvm.vars[g]
        /\ t.heap = llvm.heap /\ ~t.trap /\ b.reg = b.reg /\ b.mem = b.mem
    BY <1>1, <1>2, <1>5, <1>7
  <1>9. LocalGets(d, r, x, t, b, b)
    BY <1>2, <1>3, <1>4, <1>7, <1>8 DEF LocalGets, a
  <1> HIDE DEF t, m
  <1> QED
    BY <1>4, <1>6, <1>7, <1>9, LocalStep DEF a

LEMMA AssignStep ==
    ASSUME TranslateInv, sound, NEW d \in Local, NEW x \in Int,
           NEW code, Gives(Cleared(arm), code, d, x),
           Step(code, [Cleared(llvm) EXCEPT !.vars = [@ EXCEPT ![d] = x]], d, "var")
    PROVE  Together'
  <1> DEFINE a == Cleared(arm)
             m == Cleared(llvm)
             t == [m EXCEPT !.vars = [@ EXCEPT ![d] = x]]
  <1>1. /\ a.out = Undefined /\ m.out = Undefined /\ m \in LlvmMachines /\ ~m.trap
        /\ m.temps = llvm.temps /\ m.vars = llvm.vars /\ m.heap = llvm.heap
    BY LiveFacts
  <1> HIDE DEF m
  <1>2. /\ t \in LlvmMachines /\ t.temps = m.temps /\ t.vars = [m.vars EXCEPT ![d] = x]
        /\ t.heap = m.heap /\ t.out = m.out /\ t.trap = m.trap
    BY <1>1 DEF LlvmMachines
  <1>3. PICK b : Runs(a, code, b) /\ Assigned(a, b, d, x)
    BY DEF Gives
  <1>4. Step(code, t, d, "var")
    BY DEF m
  <1> HIDE DEF t
  <1>5. b \in ArmMachines /\ b.out = t.out /\ ArmRun(a, code) = b
    BY <1>1, <1>2, <1>3 DEF Assigned, Runs
  <1> HIDE DEF a
  <1>6. /\ t.vars[d] = x /\ \A l \in Local \ {d} : t.vars[l] = llvm.vars[l]
        /\ \A g \in Global : t.vars[g] = llvm.vars[g]
    BY <1>1, <1>2, LlvmShape, LocalNotGlobal
  <1> DEFINE r == "var"
  <1>7. /\ r \in {"temp", "ptr", "var"} /\ TranslateInv /\ sound
        /\ r = "ptr" => x \in Fields
    OBVIOUS
  <1>8. /\ (IF r = "var" THEN t.vars[d] ELSE t.temps[d]) = x
        /\ \A l \in Local \ {d} : t.temps[l] = llvm.temps[l] /\ t.vars[l] = llvm.vars[l]
        /\ \A g \in Global : t.vars[g] = llvm.vars[g]
        /\ t.heap = llvm.heap /\ ~t.trap
    BY <1>1, <1>2, <1>6
  <1>9. Step(code, t, d, r)
    BY <1>4
  <1>10. LocalGets(d, r, x, t, b, b)
    BY <1>2, <1>3, <1>5, <1>7, <1>8 DEF LocalGets, a
  <1> HIDE DEF r
  <1> QED
    BY <1>5, <1>7, <1>9, <1>10, LocalStep DEF a

-----------------------------------------------------------------------------
(* The operands an instruction may have.                                   *)
LEMMA ValuesRight ==
    ASSUME TranslateInv, sound, NEW o \in Values
    PROVE  /\ Readable(o) /\ Plain(o)
           /\ Held(Cleared(arm), o) = Value(Cleared(llvm), o) /\ Value(Cleared(llvm), o) \in Int
  <1>1. CASE o = Number(1)
    <2>1. o.kind = "imm" /\ o.val = 1
      BY <1>1 DEF Number, Immediate
    <2> QED
      BY <2>1 DEF Readable, Plain, Held, Value
  <1>2. CASE o # Number(1)
    <2>1. PICK l \in Local : role[l] = "temp" /\ o = Temp(l, "i64")
      BY <1>2 DEF Values, Of
    <2>2. o.kind = "temp" /\ o.id = l /\ LocalOf(o) = l /\ ~IsGlobal(o)
      BY <2>1, OperandFacts
    <2>3. Readable(o) /\ Plain(o)
      BY <2>2 DEF Readable, Plain
    <2>4. Held(Cleared(arm), o) = Content(Cleared(arm), l) /\ Value(Cleared(llvm), o) = Cleared(llvm).temps[l]
      BY <2>2 DEF Held, Value
    <2>5. Content(Cleared(arm), l) = llvm.temps[l] /\ Cleared(llvm).temps = llvm.temps
      BY <2>1, LiveFacts DEF Meant
    <2>6. Cleared(llvm).temps[l] \in Int
      BY LiveFacts, LlvmShape
    <2> QED
      BY <2>3, <2>4, <2>5, <2>6
  <1> QED
    BY <1>1, <1>2

LEMMA OperandsAreValues ==
    Operands \subseteq Values
  BY DEF Operands, Values

LEMMA MaxBounded ==
    ASSUME NEW S \in SUBSET (0..29), S # {}
    PROVE  Max(S) \in 0..29
  <1>1. \E x \in S : \A y \in S : x >= y
    <2> DEFINE U == {n \in Nat : \A y \in S : y <= n}
    <2>1. 29 \in U /\ U \in SUBSET Nat
      OBVIOUS
    <2>2. PICK n \in U : \A k \in U : n <= k
      BY <2>1, LeastNat
    <2>3. n \in S
      <3> SUFFICES ASSUME n \notin S PROVE FALSE
        OBVIOUS
      <3>1. \A y \in S : y < n /\ y \in Nat
        BY <2>2
      <3>2. n \in Nat /\ n - 1 \in Nat
        <4>1. PICK y \in S : TRUE
          OBVIOUS
        <4>2. n \in Nat /\ y < n /\ y \in Nat
          BY <2>2, <3>1
        <4> QED
          BY <4>2
      <3>3. n - 1 \in U
        BY <3>1, <3>2
      <3> QED
        BY <2>2, <3>2, <3>3
    <2> QED
      BY <2>2, <2>3
  <1> QED
    BY <1>1 DEF Max

LEMMA HighestStays ==
    ASSUME highest \in 0..29, NEW code, Fine(code)
    PROVE  Max(Named(code) \cup {highest}) \in 0..29
  <1>1. Named(code) \subseteq 0..29
    BY DEF Named, Fine, Ok
  <1> QED
    BY <1>1, MaxBounded

LEMMA OneStep ==
    ASSUME TranslateInv, NEW in, NEW d, NEW r \in Roles, Run(<<in>>, d, r),
           Fine(TranslateToAssembly(in)),
           Covered(in) => Lost(in) = 0,
           sound /\ Covered(in) /\ Step(TranslateToAssembly(in), Exec(Cleared(llvm), in), d, r)
               => Together'
    PROVE  TranslateInv'
  <1> DEFINE code == TranslateToAssembly(in)
             after == Exec(Cleared(llvm), in)
  <1>1. Len(<<in>>) = 1 /\ <<in>>[1] = in /\ DOMAIN <<in>> = {1}
    OBVIOUS
  <1>2. /\ sound /\ Step(code, after, d, r) /\ next' = next + Lost(in)
        /\ highest' = Max(Named(code) \cup {highest})
        /\ sound' = (sound /\ Covered(in))
    BY <1>1, Zenon DEF Run, Step, Become, Trimmed, Cleared
  <1>3. home' = home /\ role' = Become(d, r)
    BY <1>2 DEF Step
  <1>4. role' \in [Local -> Roles]
    BY <1>3 DEF TranslateInv, Become, Roles
  <1>5. HomeInv'
    BY <1>3 DEF TranslateInv, HomeInv
  <1>6. highest' \in 0..29
    BY <1>2, HighestStays DEF TranslateInv
  <1>7. sound' => next' = 26 /\ Together'
    <2> SUFFICES ASSUME sound' PROVE next' = 26 /\ Together'
      OBVIOUS
    <2>1. Covered(in) /\ next = 26 /\ Lost(in) = 0
      BY <1>2 DEF TranslateInv
    <2> QED
      BY <1>2, <2>1
  <1> QED
    BY <1>4, <1>5, <1>6, <1>7 DEF TranslateInv

LEMMA DefineKeeps ==
    ASSUME TranslateInv, sound, NEW in, NEW d \in Local, NEW r \in {"temp", "ptr"}, NEW x \in Int,
           r = "ptr" => x \in Fields, Run(<<in>>, d, r), Fine(TranslateToAssembly(in)),
           Covered(in) => Lost(in) = 0 /\ Gives(Cleared(arm), TranslateToAssembly(in), d, x),
           Exec(Cleared(llvm), in) = Defining(Cleared(llvm), d, x)
    PROVE  TranslateInv'
  <1> DEFINE code == TranslateToAssembly(in)
  <1>1. r \in Roles
    BY DEF Roles
  <1> HIDE DEF code
  <1>2. ASSUME sound, Covered(in), Step(code, Exec(Cleared(llvm), in), d, r) PROVE Together'
    <2>1. Gives(Cleared(arm), code, d, x) /\ Step(code, Defining(Cleared(llvm), d, x), d, r)
      BY <1>2 DEF code
    <2> QED
      BY <2>1, DefineStep
  <1>3. /\ Covered(in) => Lost(in) = 0
        /\ TranslateInv /\ Run(<<in>>, d, r) /\ Fine(TranslateToAssembly(in))
    OBVIOUS
  <1>4. sound /\ Covered(in) /\ Step(TranslateToAssembly(in), Exec(Cleared(llvm), in), d, r)
          => Together'
    BY <1>2 DEF code
  <1> QED
    BY <1>1, <1>3, <1>4, OneStep

(* Which code an instruction has, whether it is covered and what it loses. *)
LEMMA Plainly ==
    ASSUME NEW in, in.op \in {"BinOp", "ICMP", "Select", "Bitcast", "Ret", "Malloc"}
    PROVE  /\ Covered(in) /\ Lost(in) = 0
           /\ in.op = "BinOp" => TranslateToAssembly(in) = BinOpCode(in)
           /\ in.op = "ICMP" => TranslateToAssembly(in) = ICMPCode(in)
           /\ in.op = "Select" => TranslateToAssembly(in) = SelectCode(in)
           /\ in.op = "Bitcast" => TranslateToAssembly(in) = CopyCode(in)
           /\ in.op = "Ret" => TranslateToAssembly(in) = RetCode(in)
           /\ in.op = "Malloc" => TranslateToAssembly(in) = MallocCode(in)
  BY DEF Covered, Lost, TranslateToAssembly, Bit

LEMMA ComputeKeeps ==
    ASSUME TranslateInv, NEW d \in Local, NEW binTy \in BinOps, NEW a \in Operands, NEW b \in Operands,
           Compute(d, binTy, a, b)
    PROVE  TranslateInv'
  <1> DEFINE in == BinOp(Temp(d, "i64"), binTy, a, b)
             m == Cleared(llvm)
             x == Arithmetic(binTy, Value(m, a), Value(m, b))
  <1>1. Run(<<in>>, d, "temp") /\ sound
    BY DEF Compute, Define, Run
  <1>2. /\ HomeInv /\ next = 26 /\ Cleared(arm) \in ArmMachines /\ ~m.trap
    BY <1>1, LiveFacts
  <1>3. /\ Readable(a) /\ Held(Cleared(arm), a) = Value(m, a) /\ Value(m, a) \in Int
        /\ Readable(b) /\ Held(Cleared(arm), b) = Value(m, b) /\ Value(m, b) \in Int
    BY <1>1, ValuesRight, OperandsAreValues
  <1>4. binTy \in {"add", "sub", "mul", "sdiv", "and", "or"}
    BY OpsAssumption
  <1>5. x \in Int
    BY <1>3, <1>4, ArithmeticInt
  <1>6. Gives(Cleared(arm), BinOpCode(in), d, x)
    BY <1>2, <1>3, <1>4, BinOpGives
  <1>7. Exec(m, in) = Defining(m, d, x)
    BY <1>2, ExecBinOp
  <1>8. in.op = "BinOp"
    BY DEF BinOp, Instr
  <1> HIDE DEF in, m, x
  <1>9. TranslateToAssembly(in) = BinOpCode(in) /\ Covered(in) /\ Lost(in) = 0
    BY <1>8, Plainly
  <1>10. Fine(TranslateToAssembly(in)) /\ Gives(Cleared(arm), TranslateToAssembly(in), d, x)
    BY <1>6, <1>9 DEF Gives
  <1> QED
    BY <1>1, <1>5, <1>7, <1>9, <1>10, DefineKeeps DEF m

LEMMA CompareKeeps ==
    ASSUME TranslateInv, NEW d \in Local, NEW cc \in Conds, NEW a \in Operands, NEW b \in Operands,
           Compare(d, cc, a, b)
    PROVE  TranslateInv'
  <1> DEFINE in == ICMP(Temp(d, "i1"), cc, "i64", a, b)
             m == Cleared(llvm)
             x == Bit(Holds(cc, Value(m, a), Value(m, b)))
  <1>1. Run(<<in>>, d, "temp") /\ sound
    BY DEF Compare, Define, Run
  <1>2. /\ HomeInv /\ next = 26 /\ Cleared(arm) \in ArmMachines /\ ~m.trap
    BY <1>1, LiveFacts
  <1>3. /\ Readable(a) /\ Held(Cleared(arm), a) = Value(m, a)
        /\ Readable(b) /\ Held(Cleared(arm), b) = Value(m, b)
    BY <1>1, ValuesRight, OperandsAreValues
  <1>4. cc \in {"eq", "ne", "sgt", "sge", "slt", "sle"}
    BY OpsAssumption
  <1>5. x \in Int
    BY DEF Bit
  <1>6. Gives(Cleared(arm), ICMPCode(in), d, x)
    BY <1>2, <1>3, <1>4, ICMPGives
  <1>7. Exec(m, in) = Defining(m, d, x)
    BY <1>2, ExecICMP
  <1>8. in.op = "ICMP"
    BY DEF ICMP, Instr
  <1> HIDE DEF in, m, x
  <1>9. TranslateToAssembly(in) = ICMPCode(in) /\ Covered(in) /\ Lost(in) = 0
    BY <1>8, Plainly
  <1>10. Fine(TranslateToAssembly(in)) /\ Gives(Cleared(arm), TranslateToAssembly(in), d, x)
    BY <1>6, <1>9 DEF Gives
  <1> QED
    BY <1>1, <1>5, <1>7, <1>9, <1>10, DefineKeeps DEF m

LEMMA SelectOneKeeps ==
    ASSUME TranslateInv, NEW d \in Local, NEW a \in Operands, SelectOne(d, a)
    PROVE  TranslateInv'
  <1> DEFINE in == Select(Temp(d, "i64"), a, "i64")
             m == Cleared(llvm)
             x == IF Value(m, a) = 1 THEN 1 ELSE 0
  <1>1. Run(<<in>>, d, "temp") /\ sound
    BY DEF SelectOne, Define, Run
  <1>2. /\ HomeInv /\ next = 26 /\ Cleared(arm) \in ArmMachines /\ ~m.trap
    BY <1>1, LiveFacts
  <1>3. /\ Readable(a) /\ Held(Cleared(arm), a) = Value(m, a)
    BY <1>1, ValuesRight, OperandsAreValues
  <1>4. x \in Int
    OBVIOUS
  <1>5. Gives(Cleared(arm), SelectCode(in), d, x)
    BY <1>2, <1>3, SelectGives
  <1>6. Exec(m, in) = Defining(m, d, x)
    BY <1>2, ExecSelect
  <1>7. in.op = "Select"
    BY DEF Select, Instr
  <1> HIDE DEF in, m, x
  <1>8. TranslateToAssembly(in) = SelectCode(in) /\ Covered(in) /\ Lost(in) = 0
    BY <1>7, Plainly
  <1>9. Fine(TranslateToAssembly(in)) /\ Gives(Cleared(arm), TranslateToAssembly(in), d, x)
    BY <1>5, <1>8 DEF Gives
  <1> QED
    BY <1>1, <1>4, <1>6, <1>8, <1>9, DefineKeeps DEF m

LEMMA CopyKeeps ==
    ASSUME TranslateInv, NEW d \in Local, NEW a \in Values, Copy(d, a)
    PROVE  TranslateInv'
  <1> DEFINE in == Bitcast(Temp(d, "i8*"), a, "i8*")
             m == Cleared(llvm)
             x == Value(m, a)
  <1>1. Run(<<in>>, d, "temp") /\ sound
    BY DEF Copy, Define, Run
  <1>2. /\ HomeInv /\ next = 26 /\ Cleared(arm) \in ArmMachines /\ ~m.trap
    BY <1>1, LiveFacts
  <1>3. /\ Readable(a) /\ Held(Cleared(arm), a) = x /\ x \in Int
    BY <1>1, ValuesRight
  <1>4. Gives(Cleared(arm), CopyCode(in), d, x)
    BY <1>2, <1>3, CopyGives
  <1>5. Exec(m, in) = Defining(m, d, x)
    BY <1>2, ExecBitcast
  <1>6. in.op = "Bitcast"
    BY DEF Bitcast, Instr
  <1> HIDE DEF in, m, x
  <1>7. TranslateToAssembly(in) = CopyCode(in) /\ Covered(in) /\ Lost(in) = 0
    BY <1>6, Plainly
  <1>8. Fine(TranslateToAssembly(in)) /\ Gives(Cleared(arm), TranslateToAssembly(in), d, x)
    BY <1>4, <1>7 DEF Gives
  <1> QED
    BY <1>1, <1>3, <1>5, <1>7, <1>8, DefineKeeps DEF m

LEMMA AllocateKeeps ==
    ASSUME TranslateInv, NEW d \in Local, Allocate(d)
    PROVE  TranslateInv'
  <1> DEFINE in == Malloc(Temp(d, "i8*"))
             m == Cleared(llvm)
  <1>1. Run(<<in>>, d, "temp") /\ sound
    BY DEF Allocate, Define, Run
  <1>2. /\ HomeInv /\ Cleared(arm) \in ArmMachines /\ ~m.trap
    BY <1>1, LiveFacts
  <1>3. Gives(Cleared(arm), MallocCode(in), d, NewObject)
    BY <1>2, MallocGives
  <1>4. Exec(m, in) = Defining(m, d, NewObject)
    BY <1>2, ExecMalloc
  <1>5. in.op = "Malloc"
    BY DEF Malloc, Instr
  <1> HIDE DEF in, m
  <1>6. TranslateToAssembly(in) = MallocCode(in) /\ Covered(in) /\ Lost(in) = 0
    BY <1>5, Plainly
  <1>7. Fine(TranslateToAssembly(in)) /\ Gives(Cleared(arm), TranslateToAssembly(in), d, NewObject)
    BY <1>3, <1>6 DEF Gives
  <1>8. NewObject \in Int
    BY DEF NewObject
  <1> QED
    BY <1>1, <1>4, <1>6, <1>7, <1>8, DefineKeeps DEF m

LEMMA Specially ==
    ASSUME NEW in, in.op \in {"GetElementPtr", "Load", "Store", "CallAssign"}
    PROVE  /\ in.op # "CallAssign" => Lost(in) = 0
           /\ in.op = "CallAssign" =>
                 /\ TranslateToAssembly(in) = CallAssignCode(in)
                 /\ Covered(in) => InRegister(LocalOf(in.dest))
                 /\ InRegister(LocalOf(in.dest)) => Lost(in) = 0
           /\ in.op = "GetElementPtr" =>
                 /\ TranslateToAssembly(in) = GEPCode(in)
                 /\ Covered(in) => InRegister(LocalOf(in.dest))
           /\ in.op = "Load" =>
                 /\ TranslateToAssembly(in) = LoadCode(in)
                 /\ Covered(in) => InRegister(LocalOf(in.dest))
                 /\ Covered(in) /\ ~IsGlobal(in.args[1]) /\ IsPtr(LocalOf(in.args[1])) =>
                       home[LocalOf(in.args[1])] = home[LocalOf(in.dest)]
           /\ in.op = "Store" =>
                 /\ TranslateToAssembly(in) = StoreCode(in)
                 /\ Covered(in) /\ (IsGlobal(in.args[2]) \/ IsPtr(LocalOf(in.args[2]))) =>
                       in.args[1].kind = "imm" \/ InRegister(LocalOf(in.args[1]))
                 /\ Covered(in) /\ ~IsGlobal(in.args[2]) /\ IsPtr(LocalOf(in.args[2])) =>
                       InRegister(LocalOf(in.args[2]))
                 /\ Covered(in) /\ ~IsGlobal(in.args[2]) /\ ~IsPtr(LocalOf(in.args[2])) =>
                       InRegister(LocalOf(in.args[2])) \/ in.args[1].kind = "imm"
  BY DEF Covered, Lost, TranslateToAssembly, Bit

LEMMA CallFunctionKeeps ==
    ASSUME TranslateInv, NEW d \in Local, NEW a \in Operands, CallFunction(d, a)
    PROVE  TranslateInv'
  <1> DEFINE in == CallAssign(Temp(d, "i64"), "int", "g", "int", a)
             m == Cleared(llvm)
             x == Called("g", Value(m, a))
  <1>1. Run(<<in>>, d, "temp") /\ sound
    BY DEF CallFunction, Define, Run
  <1>2. /\ HomeInv /\ next = 26 /\ Cleared(arm) \in ArmMachines /\ ~m.trap
    BY <1>1, LiveFacts
  <1>3. /\ Readable(a) /\ Plain(a) /\ Held(Cleared(arm), a) = Value(m, a) /\ Value(m, a) \in Int
    BY <1>1, ValuesRight, OperandsAreValues
  <1>4. x \in Int
    BY <1>3 DEF Called
  <1>5. /\ Fine(CallAssignCode(in))
        /\ InRegister(d) => Gives(Cleared(arm), CallAssignCode(in), d, x)
    BY <1>2, <1>3, CallAssignGives
  <1>6. Exec(m, in) = Defining(m, d, x)
    BY <1>2, ExecCallAssign
  <1>7. in.op = "CallAssign" /\ LocalOf(in.dest) = d
    BY OperandFacts DEF CallAssign, Instr
  <1> HIDE DEF in, m, x
  <1>8. /\ TranslateToAssembly(in) = CallAssignCode(in)
        /\ Covered(in) => InRegister(d) /\ Lost(in) = 0
    BY <1>7, Specially
  <1>9. /\ Fine(TranslateToAssembly(in))
        /\ Covered(in) => Lost(in) = 0 /\ Gives(Cleared(arm), TranslateToAssembly(in), d, x)
    BY <1>5, <1>8
  <1> QED
    BY <1>1, <1>4, <1>6, <1>9, DefineKeeps DEF m

LEMMA FieldAddressKeeps ==
    ASSUME TranslateInv, NEW d \in Local, NEW s \in Of("temp"), NEW field \in {"f", "n"},
           FieldAddress(d, s, field)
    PROVE  TranslateInv'
  <1> DEFINE in == GetElementPtr(Temp(d, "i64"), Temp(s, "S"), field)
             m == Cleared(llvm)
             x == llvm.temps[s] + Offset(field)
  <1>1. Run(<<in>>, d, "ptr") /\ sound /\ llvm.temps[s] = NewObject
    BY DEF FieldAddress, Define, Run
  <1>2. /\ HomeInv /\ next = 26 /\ Cleared(arm) \in ArmMachines /\ ~m.trap /\ m.temps = llvm.temps
    BY <1>1, LiveFacts
  <1>3. s \in Local /\ role[s] = "temp"
    BY DEF Of
  <1>4. Content(Cleared(arm), s) = llvm.temps[s]
    BY <1>1, <1>3, LiveFacts DEF Meant
  <1>5. x \in Int /\ x \in Fields
    BY <1>1 DEF Offset, NewObject, Fields
  <1>6. /\ Fine(GEPCode(in))
        /\ InRegister(d) => Gives(Cleared(arm), GEPCode(in), d, x)
    BY <1>2, <1>3, <1>4, GEPGives
  <1>7. Exec(m, in) = Defining(m, d, x)
    BY <1>2, ExecGetElementPtr
  <1>8. in.op = "GetElementPtr" /\ LocalOf(in.dest) = d
    BY OperandFacts DEF GetElementPtr, Instr
  <1> HIDE DEF in, m, x
  <1>9. /\ TranslateToAssembly(in) = GEPCode(in) /\ Lost(in) = 0
        /\ Covered(in) => InRegister(d)
    BY <1>8, Specially
  <1>10. /\ Fine(TranslateToAssembly(in))
         /\ Covered(in) => Lost(in) = 0 /\ Gives(Cleared(arm), TranslateToAssembly(in), d, x)
    BY <1>6, <1>9
  <1> QED
    BY <1>1, <1>5, <1>7, <1>10, DefineKeeps DEF m

LEMMA LoadVariableKeeps ==
    ASSUME TranslateInv, NEW d \in Local, NEW v \in Of("var") \cup Global, LoadVariable(d, v)
    PROVE  TranslateInv'
  <1> DEFINE in == Load("i64", Temp(d, "i64"), Variable(v, "i64"))
             m == Cleared(llvm)
             x == llvm.vars[v]
  <1>1. Run(<<in>>, d, "temp") /\ sound
    BY DEF LoadVariable, Define, Run
  <1>2. /\ HomeInv /\ next = 26 /\ Cleared(arm) \in ArmMachines /\ ~m.trap /\ m.vars = llvm.vars
        /\ m \in LlvmMachines
    BY <1>1, LiveFacts
  <1>3. x \in Int
    BY <1>2, LlvmShape DEF Of
  <1>4. /\ Fine(LoadCode(in))
        /\ InRegister(d) => Gives(Cleared(arm), LoadCode(in), d, x)
    <2>1. CASE v \in Global
      <3>1. Cleared(arm).mem[Place(v)] = x
        BY <1>1, <2>1, LiveFacts
      <3> QED
        BY <1>2, <2>1, <3>1, LoadGlobalGives
    <2>2. CASE v \in Of("var")
      <3>1. v \in Local /\ role[v] = "var" /\ ~IsPtr(v)
        BY <2>2 DEF Of, IsPtr
      <3>2. Content(Cleared(arm), v) = x
        BY <1>1, <3>1, LiveFacts DEF Meant
      <3> QED
        BY <1>2, <3>1, <3>2, LoadLocalGives
    <2> QED
      BY <2>1, <2>2
  <1>5. Exec(m, in) = Defining(m, d, x)
    <2>1. Exec(m, in) = Defining(m, d, m.vars[v])
      BY <1>2, ExecLoadVariable
    <2> QED
      BY <1>2, <2>1
  <1>6. in.op = "Load" /\ LocalOf(in.dest) = d
    BY OperandFacts DEF Load, Instr
  <1> HIDE DEF in, m, x
  <1>7. /\ TranslateToAssembly(in) = LoadCode(in) /\ Lost(in) = 0
        /\ Covered(in) => InRegister(d)
    BY <1>6, Specially
  <1>8. /\ Fine(TranslateToAssembly(in))
        /\ Covered(in) => Lost(in) = 0 /\ Gives(Cleared(arm), TranslateToAssembly(in), d, x)
    BY <1>4, <1>7
  <1> QED
    BY <1>1, <1>3, <1>5, <1>8, DefineKeeps DEF m

LEMMA LoadFieldKeeps ==
    ASSUME TranslateInv, NEW d \in Local, NEW p \in Of("ptr"), LoadField(d, p)
    PROVE  TranslateInv'
  <1> DEFINE in == Load("i64", Temp(d, "i64"), Temp(p, "i64"))
             m == Cleared(llvm)
             f == llvm.temps[p]
             x == llvm.heap[f]
  <1>1. Run(<<in>>, d, "temp") /\ sound /\ InRegister(d)
    BY DEF LoadField, Define, Run
  <1>2. /\ HomeInv /\ next = 26 /\ Cleared(arm) \in ArmMachines /\ ~m.trap /\ m.temps = llvm.temps
        /\ m.heap = llvm.heap /\ m \in LlvmMachines
    BY <1>1, LiveFacts
  <1>3. p \in Local /\ role[p] = "ptr" /\ IsPtr(p)
    BY DEF Of, IsPtr
  <1>4. /\ f \in Fields /\ f \in Places /\ Content(Cleared(arm), p) = f
        /\ Cleared(arm).mem[f] = x
    BY <1>1, <1>3, LiveFacts DEF Meant, Places
  <1>5. x \in Int /\ DOMAIN m.heap = Fields
    BY <1>2, <1>4, LlvmShape
  <1>6. /\ Fine(LoadCode(in))
        /\ home[p] = home[d] => Gives(Cleared(arm), LoadCode(in), d, x)
    BY <1>1, <1>2, <1>3, <1>4, LoadFieldGives
  <1>7. Exec(m, in) = Defining(m, d, x)
    <2>1. m.temps[p] \in DOMAIN m.heap
      BY <1>2, <1>4, <1>5
    <2>2. Exec(m, in) = Defining(m, d, m.heap[m.temps[p]])
      BY <1>2, <2>1, ExecLoadField
    <2> QED
      BY <1>2, <2>2
  <1>8. /\ in.op = "Load" /\ LocalOf(in.dest) = d /\ LocalOf(in.args[1]) = p
        /\ ~IsGlobal(in.args[1])
    BY OperandFacts DEF Load, Instr
  <1> HIDE DEF in, m, x, f
  <1>9. /\ TranslateToAssembly(in) = LoadCode(in) /\ Lost(in) = 0
        /\ Covered(in) => home[p] = home[d]
    BY <1>3, <1>8, Specially
  <1>10. /\ Fine(TranslateToAssembly(in))
         /\ Covered(in) => Lost(in) = 0 /\ Gives(Cleared(arm), TranslateToAssembly(in), d, x)
    BY <1>6, <1>9
  <1> QED
    BY <1>1, <1>5, <1>7, <1>10, DefineKeeps DEF m

LEMMA StoreLocalKeeps ==
    ASSUME TranslateInv, NEW v \in Local, NEW a \in Values, StoreVariable(v, a)
    PROVE  TranslateInv'
  <1> DEFINE in == Store("i64", a, Variable(v, "i64"))
             m == Cleared(llvm)
             x == Value(m, a)
             after == [m EXCEPT !.vars = [@ EXCEPT ![v] = x]]
  <1>1. Run(<<in>>, v, "var") /\ sound /\ ~IsPtr(v)
    BY DEF StoreVariable, Run, IsPtr
  <1>2. /\ HomeInv /\ next = 26 /\ Cleared(arm) \in ArmMachines /\ ~m.trap
    BY <1>1, LiveFacts
  <1>3. /\ Readable(a) /\ Plain(a) /\ Held(Cleared(arm), a) = x /\ x \in Int
    BY <1>1, ValuesRight
  <1>4. /\ Fine(StoreCode(in))
        /\ InRegister(v) \/ a.kind = "imm" => Gives(Cleared(arm), StoreCode(in), v, x)
    BY <1>1, <1>2, <1>3, StoreLocalGives
  <1>5. Exec(m, in) = after
    BY <1>2, ExecStoreVariable
  <1>6. /\ in.op = "Store" /\ LocalOf(in.args[2]) = v /\ ~IsGlobal(in.args[2]) /\ in.args[1] = a
    BY OperandFacts, LocalNotGlobal DEF Store, Instr
  <1> HIDE DEF in, x
  <1>7. /\ TranslateToAssembly(in) = StoreCode(in) /\ Lost(in) = 0
        /\ Covered(in) => InRegister(v) \/ a.kind = "imm"
    BY <1>1, <1>6, Specially
  <1>8. Fine(TranslateToAssembly(in))
    BY <1>4, <1>7
  <1>9. sound /\ Covered(in) /\ Step(TranslateToAssembly(in), Exec(Cleared(llvm), in), v, "var")
          => Together'
    <2> SUFFICES ASSUME sound, Covered(in),
                        Step(TranslateToAssembly(in), Exec(Cleared(llvm), in), v, "var")
                 PROVE  Together'
      OBVIOUS
    <2>1. Gives(Cleared(arm), StoreCode(in), v, x)
      BY <1>4, <1>7
    <2>2. Step(StoreCode(in), after, v, "var")
      BY <1>5, <1>7
    <2> QED
      BY <1>3, <2>1, <2>2, AssignStep
  <1>10. "var" \in Roles
    BY DEF Roles
  <1> QED
    BY <1>1, <1>7, <1>8, <1>9, <1>10, OneStep

LEMMA StoreGlobalKeeps ==
    ASSUME TranslateInv, NEW a \in Operands, StoreVariable(Count, a)
    PROVE  TranslateInv'
  <1> DEFINE in == Store("i64", a, Variable(Count, "i64"))
             m == Cleared(llvm)
             x == Value(m, a)
             q == Place(Count)
             after == [m EXCEPT !.vars = [@ EXCEPT ![Count] = x]]
  <1>1. Run(<<in>>, Count, "var") /\ sound
    BY DEF StoreVariable, Run
  <1>2. /\ HomeInv /\ next = 26 /\ Cleared(arm) \in ArmMachines /\ ~m.trap
        /\ m \in LlvmMachines /\ m.out = Undefined /\ Cleared(arm).out = Undefined
        /\ m.temps = llvm.temps /\ m.vars = llvm.vars /\ m.heap = llvm.heap
        /\ \A g \in Global : Cleared(arm).mem[Place(g)] = llvm.vars[g]
        /\ \A f \in Fields : Cleared(arm).mem[f] = llvm.heap[f]
    BY <1>1, LiveFacts
  <1>3. /\ Readable(a) /\ Plain(a) /\ Held(Cleared(arm), a) = x /\ x \in Int
    BY <1>1, ValuesRight, OperandsAreValues
  <1>4. Count \in Global /\ Count \notin Local /\ q \in Places
    BY LocalNotGlobal, GlobalPlaces DEF Global
  <1>5. /\ Fine(StoreCode(in))
        /\ a.kind = "imm" \/ InRegister(a.id) => Writes(Cleared(arm), StoreCode(in), q, x)
    BY <1>2, <1>3, <1>4, StoreGlobalWrites
  <1>6. Exec(m, in) = after
    BY <1>2, ExecStoreVariable
  <1>7. /\ in.op = "Store" /\ IsGlobal(in.args[2]) /\ in.args[1] = a
    BY <1>4, OperandFacts DEF Store, Instr
  <1> HIDE DEF in, x
  <1>8. /\ TranslateToAssembly(in) = StoreCode(in) /\ Lost(in) = 0
        /\ Covered(in) => a.kind = "imm" \/ InRegister(LocalOf(a))
    BY <1>7, Specially
  <1>9. a.kind # "imm" => LocalOf(a) = a.id
    BY <1>3 DEF Plain, LocalOf
  <1>10. Fine(TranslateToAssembly(in))
    BY <1>5, <1>8
  <1>11. sound /\ Covered(in) /\ Step(TranslateToAssembly(in), Exec(Cleared(llvm), in), Count, "var")
           => Together'
    <2> SUFFICES ASSUME sound, Covered(in),
                        Step(TranslateToAssembly(in), Exec(Cleared(llvm), in), Count, "var")
                 PROVE  Together'
      OBVIOUS
    <2>1. PICK b : Runs(Cleared(arm), StoreCode(in), b) /\ Written(Cleared(arm), b, q, x)
      BY <1>5, <1>8, <1>9 DEF Writes
    <2>2. Step(StoreCode(in), after, Count, "var")
      BY <1>6, <1>8
    <2>3. /\ after \in LlvmMachines /\ after.temps = m.temps /\ after.heap = m.heap
          /\ after.vars = [m.vars EXCEPT ![Count] = x] /\ after.out = m.out /\ after.trap = m.trap
      BY <1>2, <1>3 DEF LlvmMachines
    <2> HIDE DEF after, m
    <2>4. /\ b \in ArmMachines /\ b.out = Undefined
      BY <1>2, <2>1 DEF Written
    <2>5. \A l \in Local : q # Slot(l)
      BY <1>4, PlacesApart
    <2>6. /\ \A l \in Local : Content(b, l) = Content(Cleared(arm), l)
          /\ b.mem[q] = x /\ \A p \in Places : p # q => b.mem[p] = Cleared(arm).mem[p]
      BY <1>2, <1>4, <2>1, <2>5, WrittenMeans
    <2>7. /\ after.vars[Count] = x /\ after.vars[Struct] = llvm.vars[Struct]
          /\ \A l \in Local : after.vars[l] = llvm.vars[l]
      BY <1>2, <1>4, <2>3, LlvmShape DEF Global, Count, Struct
    <2>8. b.mem[Place(Struct)] = llvm.vars[Struct]
      BY <1>2, <2>6, GlobalsApart, GlobalPlaces DEF Global
    <2>9. \A g \in Global : b.mem[Place(g)] = after.vars[g]
      BY <2>6, <2>7, <2>8 DEF Global
    <2>10. \A f \in Fields : b.mem[f] = after.heap[f]
      <3>1. \A f \in Fields : f \in Places /\ f # q
        BY <1>4, GlobalsApart DEF Places
      <3> QED
        BY <1>2, <2>3, <2>6, <3>1
    <2>11. OtherGets(after, b)
      BY <1>2, <2>3, <2>4, <2>6, <2>7, <2>9, <2>10 DEF OtherGets
    <2>12. ArmRun(Cleared(arm), StoreCode(in)) = b /\ "var" \in Roles
      BY <2>1 DEF Runs, Roles
    <2> QED
      BY <1>4, <2>2, <2>11, <2>12, OtherStep
  <1>12. "var" \in Roles
    BY DEF Roles
  <1> QED
    BY <1>1, <1>8, <1>10, <1>11, <1>12, OneStep

LEMMA StoreFieldKeeps ==
    ASSUME TranslateInv, NEW p \in Of("ptr"), NEW a \in Operands, StoreField(p, a)
    PROVE  TranslateInv'
  <1> DEFINE in == Store("i64", a, Temp(p, "i64"))
             m == Cleared(llvm)
             x == Value(m, a)
             q == llvm.temps[p]
             after == [m EXCEPT !.heap = [@ EXCEPT ![q] = x]]
  <1>1. Run(<<in>>, 0, "ptr") /\ sound
    BY DEF StoreField, Run
  <1>2. /\ HomeInv /\ next = 26 /\ Cleared(arm) \in ArmMachines /\ ~m.trap
        /\ m \in LlvmMachines /\ m.out = Undefined /\ Cleared(arm).out = Undefined
        /\ m.temps = llvm.temps /\ m.vars = llvm.vars /\ m.heap = llvm.heap
        /\ \A g \in Global : Cleared(arm).mem[Place(g)] = llvm.vars[g]
        /\ \A f \in Fields : Cleared(arm).mem[f] = llvm.heap[f]
    BY <1>1, LiveFacts
  <1>3. /\ Readable(a) /\ Plain(a) /\ Held(Cleared(arm), a) = x /\ x \in Int
    BY <1>1, ValuesRight, OperandsAreValues
  <1>4. p \in Local /\ role[p] = "ptr" /\ IsPtr(p) /\ 0 \notin Local
    BY LocalNotGlobal DEF Of, IsPtr
  <1>5. q \in Fields /\ q \in Places /\ Content(Cleared(arm), p) = q /\ DOMAIN m.heap = Fields
    BY <1>1, <1>2, <1>4, LiveFacts, LlvmShape DEF Meant, Places
  <1>6. /\ Fine(StoreCode(in))
        /\ InRegister(p) /\ (a.kind = "imm" \/ InRegister(a.id)) =>
               Writes(Cleared(arm), StoreCode(in), q, x)
    BY <1>2, <1>3, <1>4, <1>5, StoreFieldWrites
  <1>7. Exec(m, in) = after
    <2>1. m.temps[p] \in DOMAIN m.heap
      BY <1>2, <1>5
    <2>2. Exec(m, in) = [m EXCEPT !.heap = [@ EXCEPT ![m.temps[p]] = Value(m, a)]]
      BY <1>2, <2>1, ExecStoreField
    <2> QED
      BY <1>2, <2>2
  <1>8. /\ in.op = "Store" /\ ~IsGlobal(in.args[2]) /\ LocalOf(in.args[2]) = p /\ in.args[1] = a
    BY OperandFacts DEF Store, Instr
  <1> HIDE DEF in, x
  <1>9. /\ TranslateToAssembly(in) = StoreCode(in) /\ Lost(in) = 0
        /\ Covered(in) => InRegister(p) /\ (a.kind = "imm" \/ InRegister(LocalOf(a)))
    BY <1>4, <1>8, Specially
  <1>10. a.kind # "imm" => LocalOf(a) = a.id
    BY <1>3 DEF Plain, LocalOf
  <1>11. Fine(TranslateToAssembly(in))
    BY <1>6, <1>9
  <1>12. sound /\ Covered(in) /\ Step(TranslateToAssembly(in), Exec(Cleared(llvm), in), 0, "ptr")
           => Together'
    <2> SUFFICES ASSUME sound, Covered(in),
                        Step(TranslateToAssembly(in), Exec(Cleared(llvm), in), 0, "ptr")
                 PROVE  Together'
      OBVIOUS
    <2>1. PICK b : Runs(Cleared(arm), StoreCode(in), b) /\ Written(Cleared(arm), b, q, x)
      BY <1>6, <1>9, <1>10 DEF Writes
    <2>2. Step(StoreCode(in), after, 0, "ptr")
      BY <1>7, <1>9
    <2>3. /\ after \in LlvmMachines /\ after.temps = m.temps /\ after.vars = m.vars
          /\ after.heap = [m.heap EXCEPT ![q] = x] /\ after.out = m.out /\ after.trap = m.trap
      BY <1>2, <1>3 DEF LlvmMachines
    <2> HIDE DEF after, m, q
    <2>4. /\ b \in ArmMachines /\ b.out = Undefined
      BY <1>2, <2>1 DEF Written
    <2>5. \A l \in Local : q # Slot(l)
      BY <1>5, PlacesApart
    <2>6. /\ \A l \in Local : Content(b, l) = Content(Cleared(arm), l)
          /\ b.mem[q] = x /\ \A s \in Places : s # q => b.mem[s] = Cleared(arm).mem[s]
      BY <1>2, <1>5, <2>1, <2>5, WrittenMeans
    <2>7. \A g \in Global : b.mem[Place(g)] = after.vars[g]
      BY <1>2, <1>5, <2>3, <2>6, GlobalsApart, GlobalPlaces
    <2>8. \A f \in Fields : b.mem[f] = after.heap[f]
      <3>1. /\ after.heap[q] = x /\ \A f \in Fields : f # q => after.heap[f] = llvm.heap[f]
        BY <1>2, <1>5, <2>3, LlvmShape
      <3>2. \A f \in Fields : f \in Places
        BY DEF Places
      <3> QED
        BY <1>2, <2>6, <3>1, <3>2
    <2>9. OtherGets(after, b)
      BY <1>2, <2>3, <2>4, <2>6, <2>7, <2>8 DEF OtherGets
    <2>10. ArmRun(Cleared(arm), StoreCode(in)) = b /\ "ptr" \in Roles
      BY <2>1 DEF Runs, Roles
    <2> QED
      BY <1>4, <2>2, <2>9, <2>10, OtherStep
  <1>13. "ptr" \in Roles
    BY DEF Roles
  <1> QED
    BY <1>1, <1>9, <1>11, <1>12, <1>13, OneStep

LEMMA ReturnValueKeeps ==
    ASSUME TranslateInv, NEW a \in Operands, ReturnValue(a)
    PROVE  TranslateInv'
  <1> DEFINE in == Ret("i64", a)
             m == Cleared(llvm)
             x == Value(m, a)
             after == [m EXCEPT !.out = x]
  <1>1. Run(<<in>>, 0, "dead") /\ sound
    BY DEF ReturnValue, Run
  <1>2. /\ HomeInv /\ next = 26 /\ Cleared(arm) \in ArmMachines /\ ~m.trap /\ m \in LlvmMachines
        /\ m.temps = llvm.temps /\ m.vars = llvm.vars /\ m.heap = llvm.heap
        /\ \A g \in Global : Cleared(arm).mem[Place(g)] = llvm.vars[g]
        /\ \A f \in Fields : Cleared(arm).mem[f] = llvm.heap[f]
    BY <1>1, LiveFacts
  <1>3. /\ Readable(a) /\ Plain(a) /\ Held(Cleared(arm), a) = x /\ x \in Int
    BY <1>1, ValuesRight, OperandsAreValues
  <1>4. Shows(Cleared(arm), RetCode(in), x)
    BY <1>2, <1>3, RetShows
  <1>5. Exec(m, in) = after
    BY <1>2, ExecSeen
  <1>6. in.op = "Ret"
    BY DEF Ret, Instr
  <1>7. 0 \notin Local /\ "dead" \in Roles
    BY LocalNotGlobal DEF Roles
  <1> HIDE DEF in, x
  <1>8. TranslateToAssembly(in) = RetCode(in) /\ Covered(in) /\ Lost(in) = 0
    BY <1>6, Plainly
  <1>9. PICK b : /\ Runs(Cleared(arm), RetCode(in), b) /\ b \in ArmMachines
                 /\ b.out = x /\ b.mem = Cleared(arm).mem
                 /\ \A n \in HomeRegisters : b.reg[n] = Cleared(arm).reg[n]
    BY <1>4 DEF Shows
  <1>10. Fine(TranslateToAssembly(in)) /\ ArmRun(Cleared(arm), RetCode(in)) = b
    BY <1>8, <1>9 DEF Runs
  <1>11. sound /\ Covered(in) /\ Step(TranslateToAssembly(in), Exec(Cleared(llvm), in), 0, "dead")
           => Together'
    <2> SUFFICES ASSUME sound, Step(TranslateToAssembly(in), Exec(Cleared(llvm), in), 0, "dead")
                 PROVE  Together'
      OBVIOUS
    <2>1. Step(RetCode(in), after, 0, "dead")
      BY <1>5, <1>8
    <2>2. /\ after \in LlvmMachines /\ after.temps = m.temps /\ after.vars = m.vars
          /\ after.heap = m.heap /\ after.out = x /\ after.trap = m.trap
      BY <1>2, <1>3 DEF LlvmMachines
    <2> HIDE DEF after, m
    <2>3. \A l \in Local : Content(b, l) = Content(Cleared(arm), l)
      BY <1>2, <1>9, HomeFacts DEF Content
    <2>4. OtherGets(after, b)
      BY <1>2, <1>9, <2>2, <2>3 DEF OtherGets
    <2> QED
      BY <1>7, <1>10, <2>1, <2>4, OtherStep
  <1> QED
    BY <1>1, <1>7, <1>8, <1>10, <1>11, OneStep

(* A selection is followed by the branch on it.                            *)
LEMMA TwoStep ==
    ASSUME TranslateInv, NEW in1, NEW in2, NEW d, NEW r \in Roles, Run(<<in1, in2>>, d, r),
           Fine(TranslateToAssembly(in1) \o TranslateToAssembly(in2)), Lost(in1) = 0,
           sound /\ Step(TranslateToAssembly(in1) \o TranslateToAssembly(in2),
                         Exec(Exec(Cleared(llvm), in1), in2), d, r) => Together'
    PROVE  TranslateInv'
  <1> DEFINE code == TranslateToAssembly(in1) \o TranslateToAssembly(in2)
             after == Exec(Exec(Cleared(llvm), in1), in2)
  <1>1. /\ Len(<<in1, in2>>) # 1 /\ <<in1, in2>>[1] = in1 /\ <<in1, in2>>[2] = in2
    OBVIOUS
  <1>2. /\ sound /\ Step(code, after, d, r) /\ next' = next + Lost(in1)
        /\ highest' = Max(Named(code) \cup {highest})
    BY <1>1, Zenon DEF Run, Step, Become, Trimmed, Cleared
  <1>3. home' = home /\ role' = Become(d, r)
    BY <1>2 DEF Step
  <1>4. role' \in [Local -> Roles]
    BY <1>3 DEF TranslateInv, Become, Roles
  <1>5. HomeInv'
    BY <1>3 DEF TranslateInv, HomeInv
  <1>6. highest' \in 0..29
    BY <1>2, HighestStays DEF TranslateInv
  <1>7. next' = 26 /\ Together'
    BY <1>2 DEF TranslateInv
  <1> QED
    BY <1>4, <1>5, <1>6, <1>7 DEF TranslateInv

LEMMA BranchKeeps ==
    ASSUME TranslateInv, NEW d \in Local, NEW o \in Operands, Branch(d, o)
    PROVE  TranslateInv'
  <1> DEFINE in1 == Select(Temp(d, "i1"), o, "i1")
             in2 == BrCond(Temp(d, "i1"))
             m == Cleared(llvm)
             a == Cleared(arm)
             x == IF Value(m, o) = 1 THEN 1 ELSE 0
             t == Defining(m, d, x)
             after == [t EXCEPT !.out = x]
             code == SelectCode(in1) \o BrCondCode(in2)
  <1>1. Run(<<in1, in2>>, d, "temp") /\ sound
    BY DEF Branch, Define, Run
  <1>2. /\ HomeInv /\ next = 26 /\ a \in ArmMachines /\ a.out = Undefined
        /\ ~m.trap /\ m \in LlvmMachines
        /\ m.temps = llvm.temps /\ m.vars = llvm.vars /\ m.heap = llvm.heap
    BY <1>1, LiveFacts
  <1>3. Readable(o) /\ Held(a, o) = Value(m, o)
    BY <1>1, ValuesRight, OperandsAreValues
  <1>4. x \in Int
    OBVIOUS
  <1>5. Fine(code) /\ \E e : Assigned(a, e, d, x) /\ Runs(a, code, [e EXCEPT !.out = x])
    <2> HIDE DEF a, m
    <2> QED
      BY <1>2, <1>3, BranchGives
  <1>6. Exec(m, in1) = t
    BY <1>2, ExecSelect
  <1>7. Temp(d, "i1").kind = "temp" /\ Temp(d, "i1").id = d
    BY DEF Temp
  <1>8. in1.op = "Select" /\ in2.op = "BrCond"
    BY DEF Select, BrCond, Instr
  <1> HIDE DEF m, x
  <1>9. /\ t \in LlvmMachines /\ t.temps = [m.temps EXCEPT ![d] = x] /\ t.vars = m.vars
        /\ t.heap = m.heap /\ t.out = m.out /\ t.trap = m.trap
    BY <1>2, <1>4, DefiningFacts
  <1> HIDE DEF t
  <1>10. t.temps[d] = x /\ \A l \in Local \ {d} : t.temps[l] = llvm.temps[l]
    BY <1>2, <1>9, LlvmShape
  <1>11. Exec(t, in2) = after
    <2>1. Value(t, Temp(d, "i1")) = x
      BY <1>7, <1>10 DEF Value
    <2>2. ~t.trap
      BY <1>2, <1>9
    <2>3. Exec(t, in2) = [t EXCEPT !.out = Value(t, Temp(d, "i1"))]
      BY <2>2, ExecSeen
    <2> QED
      BY <2>1, <2>3
  <1>12. /\ after \in LlvmMachines /\ after.temps = t.temps /\ after.vars = t.vars
         /\ after.heap = t.heap /\ after.out = x /\ after.trap = t.trap
    BY <1>4, <1>9 DEF LlvmMachines
  <1> HIDE DEF after, in1, in2
  <1>13. TranslateToAssembly(in1) \o TranslateToAssembly(in2) = code /\ Lost(in1) = 0
    <2>1. TranslateToAssembly(in1) = SelectCode(in1) /\ Lost(in1) = 0
      BY <1>8, Plainly
    <2>2. TranslateToAssembly(in2) = BrCondCode(in2)
      BY <1>8 DEF TranslateToAssembly
    <2> QED
      BY <2>1, <2>2
  <1> HIDE DEF code
  <1>14. Fine(TranslateToAssembly(in1) \o TranslateToAssembly(in2))
    BY <1>5, <1>13
  <1>15. ASSUME Step(TranslateToAssembly(in1) \o TranslateToAssembly(in2),
                     Exec(Exec(Cleared(llvm), in1), in2), d, "temp")
         PROVE  Together'
    <2>1. Step(code, after, d, "temp")
      BY <1>6, <1>11, <1>13, <1>15 DEF m
    <2>2. PICK e : Assigned(a, e, d, x) /\ Runs(a, code, [e EXCEPT !.out = x])
      BY <1>5
    <2> DEFINE b == [e EXCEPT !.out = x]
    <2>3. /\ b \in ArmMachines /\ b.reg = e.reg /\ b.mem = e.mem /\ b.out = x
          /\ ArmRun(a, code) = b
      BY <1>4, <2>2, OutDoes DEF Assigned, Runs
    <2> HIDE DEF b, a
    <2> DEFINE r == "temp"
    <2>4. /\ r \in {"temp", "ptr", "var"} /\ (r = "ptr" => x \in Fields)
          /\ (IF r = "var" THEN after.vars[d] ELSE after.temps[d]) = x
          /\ \A l \in Local \ {d} : after.temps[l] = llvm.temps[l] /\ after.vars[l] = llvm.vars[l]
          /\ \A g \in Global : after.vars[g] = llvm.vars[g]
          /\ after.heap = llvm.heap /\ ~after.trap
      BY <1>2, <1>9, <1>10, <1>12
    <2>5. LocalGets(d, r, x, after, e, b)
      BY <1>12, <2>2, <2>3, <2>4 DEF LocalGets, a
    <2>6. Step(code, after, d, r)
      BY <2>1
    <2> HIDE DEF r
    <2> QED
      BY <1>1, <2>3, <2>5, <2>6, LocalStep DEF a
  <1>16. "temp" \in Roles
    BY DEF Roles
  <1> QED
    BY <1>1, <1>13, <1>14, <1>15, <1>16, TwoStep

LEMMA ReadGlobalKeeps ==
    ASSUME TranslateInv, ReadGlobal
    PROVE  TranslateInv'
  <1>1. /\ sound /\ highest' = Max({next, highest}) /\ sound' = FALSE
        /\ home' = home /\ role' = role
    BY DEF ReadGlobal
  <1>2. next = 26 /\ highest \in 0..29
    BY <1>1 DEF TranslateInv
  <1>3. highest' \in 0..29
    BY <1>1, <1>2, MaxBounded
  <1>4. HomeInv'
    BY <1>1 DEF TranslateInv, HomeInv
  <1> QED
    BY <1>1, <1>3, <1>4 DEF TranslateInv

-----------------------------------------------------------------------------
(* Before the first instruction nothing is live.                           *)
LEMMA InitTranslates ==
    ASSUME Init PROVE TranslateInv
  <1>1. HomeInv
    <2>1. PICK c \in [Local -> 0..15] :
                home = [l \in Local |-> IF c[l] = 0 THEN Addr(Slot(l)) ELSE Reg(HomeRegister(c[l]))]
      BY DEF Init, Homes
    <2> SUFFICES ASSUME NEW l \in Local
                 PROVE  home[l] = Addr(Slot(l)) \/ \E n \in HomeRegisters : home[l] = Reg(n)
      BY DEF HomeInv
    <2>2. CASE c[l] = 0
      BY <2>1, <2>2
    <2>3. CASE c[l] # 0
      <3>1. HomeRegister(c[l]) \in HomeRegisters
        BY <2>1, <2>3 DEF HomeRegisters, HomeRegister
      <3> QED
        BY <2>1, <2>3, <3>1
    <2> QED
      BY <2>2, <2>3
  <1>2. role \in [Local -> Roles] /\ \A l \in Local : role[l] = "dead"
    BY DEF Init, Roles
  <1>3. highest \in 0..29 /\ next = 26
    BY DEF Init
  <1>4. /\ llvm \in LlvmMachines /\ ~llvm.trap /\ llvm.out = Undefined
        /\ llvm.vars[Count] = 1 /\ llvm.vars[Struct] = NewObject
        /\ \A f \in Fields : llvm.heap[f] = 0
    <2> DEFINE V == [v \in Local \cup Global |->
                        CASE v = Count -> 1 [] v = Struct -> NewObject [] OTHER -> Undefined]
               T == [l \in Local |-> Undefined]
               H == [f \in Fields |-> 0]
    <2>1. llvm = [temps |-> T, vars |-> V, heap |-> H, out |-> Undefined, trap |-> FALSE]
      BY DEF Init
    <2>2. V \in [Local \cup Global -> Int] /\ V[Count] = 1 /\ V[Struct] = NewObject
      BY DEF Global, Count, Struct, NewObject, Undefined
    <2>3. T \in [Local -> Int] /\ H \in [Fields -> Int] /\ \A f \in Fields : H[f] = 0
      BY DEF Undefined
    <2>4. Undefined \in Int
      BY DEF Undefined
    <2> HIDE DEF V, T, H
    <2> QED
      BY <2>1, <2>2, <2>3, <2>4 DEF LlvmMachines
  <1>5. /\ arm \in ArmMachines /\ arm.out = Undefined
        /\ arm.mem[Place(Count)] = 1 /\ arm.mem[Place(Struct)] = NewObject
        /\ \A f \in Fields : arm.mem[f] = 0
    <2> DEFINE M == [p \in Places |->
                        CASE p = Place(Count) -> 1 [] p = Place(Struct) -> NewObject
                          [] p \in Fields -> 0 [] OTHER -> Undefined]
               R == [n \in Registers |-> Undefined]
    <2>1. arm = [reg |-> R, mem |-> M, flags |-> <<0, 0>>, out |-> Undefined]
      BY DEF Init, Places
    <2>2. /\ Place(Count) \in Places /\ Place(Struct) \in Places /\ Fields \subseteq Places
          /\ Place(Count) # Place(Struct)
          /\ Place(Count) \notin Fields /\ Place(Struct) \notin Fields
      BY GlobalPlaces, GlobalsApart DEF Places, Global
    <2>3. /\ \A p \in Places : M[p] \in Int
          /\ M[Place(Count)] = 1 /\ M[Place(Struct)] = NewObject /\ \A f \in Fields : M[f] = 0
      <3> HIDE DEF Places, Fields, Place
      <3> QED
        BY <2>2 DEF NewObject, Undefined
    <2>4. R \in [Registers -> Int] /\ Undefined \in Int
      BY DEF Undefined
    <2>5. M \in [Places -> Int]
      BY <2>3
    <2>6. <<0, 0>> \in Int \X Int
      OBVIOUS
    <2> HIDE DEF M, R
    <2> QED
      BY <2>1, <2>3, <2>4, <2>5, <2>6 DEF ArmMachines
  <1>6. Simulates
    <2>1. \A g \in Global : arm.mem[Place(g)] = llvm.vars[g]
      BY <1>4, <1>5 DEF Global
    <2> QED
      BY <1>2, <1>4, <1>5, <2>1, LlvmShape DEF Simulates
  <1>7. Alone /\ Pointers
    BY <1>2 DEF Alone, Pointers
  <1> QED
    BY <1>1, <1>2, <1>3, <1>4, <1>5, <1>6, <1>7 DEF TranslateInv, Together

LEMMA StutterTranslates ==
    ASSUME TranslateInv, UNCHANGED vars PROVE TranslateInv'
  <1>1. /\ home' = home /\ role' = role /\ llvm' = llvm /\ arm' = arm
        /\ next' = next /\ highest' = highest /\ sound' = sound
    BY DEF vars
  <1>2. HomeInv'
    BY <1>1 DEF TranslateInv, HomeInv
  <1>3. Together => Together'
    BY <1>1 DEF Together, Simulates, Alone, Pointers, ContentOf, Meant, InRegister
  <1> QED
    BY <1>1, <1>2, <1>3 DEF TranslateInv

LEMMA NextTranslates ==
    ASSUME TranslateInv, Next PROVE TranslateInv'
  <1>1. CASE \E d \in Local, a, b \in Operands :
                 \/ \E binTy \in BinOps : Compute(d, binTy, a, b)
                 \/ \E cc \in Conds : Compare(d, cc, a, b)
    BY <1>1, ComputeKeeps, CompareKeeps
  <1>2. CASE \E d \in Local, a \in Operands : SelectOne(d, a) \/ Branch(d, a) \/ CallFunction(d, a)
    BY <1>2, SelectOneKeeps, BranchKeeps, CallFunctionKeeps
  <1>3. CASE \E d \in Local, a \in Values : Copy(d, a) \/ StoreVariable(d, a)
    BY <1>3, CopyKeeps, StoreLocalKeeps
  <1>4. CASE \E d \in Local : Allocate(d)
    BY <1>4, AllocateKeeps
  <1>5. CASE \E d \in Local, v \in Of("var") \cup Global : LoadVariable(d, v)
    BY <1>5, LoadVariableKeeps
  <1>6. CASE \E d \in Local, p \in Of("ptr") : LoadField(d, p)
    BY <1>6, LoadFieldKeeps
  <1>7. CASE \E d \in Local, s \in Of("temp"), field \in {"f", "n"} : FieldAddress(d, s, field)
    BY <1>7, FieldAddressKeeps
  <1>8. CASE \E p \in Of("ptr"), a \in Operands : StoreField(p, a)
    BY <1>8, StoreFieldKeeps
  <1>9. CASE \E a \in Operands : StoreVariable(Count, a) \/ ReturnValue(a)
    BY <1>9, StoreGlobalKeeps, ReturnValueKeeps
  <1>10. CASE ReadGlobal
    BY <1>10, ReadGlobalKeeps
  <1> QED
    BY <1>1, <1>2, <1>3, <1>4, <1>5, <1>6, <1>7, <1>8, <1>9, <1>10 DEF Next

-----------------------------------------------------------------------------
(* The ARM code of the instructions Covered names does what they do: as    *)
(* long as no other has been run, every live local has at home the value   *)
(* the LLVM code gave it, globals and fields are equal, and a return or a  *)
(* branch has come out the same (TranslateToAssembly in                    *)
(* llvm/instructions.go).                                                  *)
THEOREM CoveredAlwaysSimulates == Spec => []CoveredSimulates
  <1>1. Init => TranslateInv
    BY InitTranslates
  <1>2. TranslateInv /\ [Next]_vars => TranslateInv'
    BY NextTranslates, StutterTranslates
  <1>3. TranslateInv => CoveredSimulates
    BY DEF TranslateInv, Together, CoveredSimulates
  <1> QED
    BY <1>1, <1>2, <1>3, PTL DEF Spec

(* No code ever names a register above x29: an instruction starts at x26,  *)
(* takes four at most and, as long as the comparison lasts, gives them all *)
(* back (NextAvailableRegister and ReleaseRegister).                       *)
THEOREM RegistersAlwaysExist == Spec => []RegistersExist
  <1>1. Init => TranslateInv
    BY InitTranslates
  <1>2. TranslateInv /\ [Next]_vars => TranslateInv'
    BY NextTranslates, StutterTranslates
  <1>3. TranslateInv => RegistersExist
    BY DEF TranslateInv, RegistersExist
  <1> QED
    BY <1>1, <1>2, <1>3, PTL DEF Spec
=============================================================================
