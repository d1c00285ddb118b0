-------------------------- MODULE CfgBuilderProofs --------------------------
(***************************************************************************)
(* However long a function is and however deep it nests: every label a     *)
(* block, an edge or an open statement mentions is that of a block, and    *)
(* the dead-code pass, in whatever order it meets the blocks, keeps every  *)
(* block that a kept one branches to, and prints what can run in the one   *)
(* order.                                                                  *)
(***************************************************************************)
EXTENDS CfgBuilder, WellFoundedInduction, FiniteSetTheorems, SequenceTheorems, TLAPS

-----------------------------------------------------------------------------
(* Induction and recursion over the natural numbers, stated about sets and *)
(* functions instead of predicates.                                        *)

(* Every non-empty set of naturals has a least element.                    *)
LEMMA LeastNat ==
    ASSUME NEW T, T \subseteq Nat, T # {}
    PROVE  \E m \in T : \A n \in T : m <= n
  <1>1. PICK m \in T : \A n \in T : ~ (<<n, m>> \in OpToRel(<, Nat))
    BY NatLessThanWellFounded, WFMin
  <1>2. \A n \in T : <<n, m>> \in OpToRel(<, Nat) <=> n < m
    BY DEF OpToRel
  <1>3. \A n \in T : ~ (n < m)
    BY <1>1, <1>2
  <1>4. \A n \in T : m <= n
    BY <1>3
  <1> QED
    BY <1>4

(* Induction over the numbers, stated of a set: one that holds 0 and the   *)
(* successor of what it holds has all naturals.                            *)
LEMMA AllNats ==
    ASSUME NEW S, 0 \in S, \A n \in Nat : n \in S => n + 1 \in S
    PROVE  \A n \in Nat : n \in S
  <1> SUFFICES ASSUME Nat \ S # {} PROVE FALSE
    OBVIOUS
  <1>1. PICK m \in Nat \ S : \A n \in Nat \ S : m <= n
    BY LeastNat
  <1>2. m # 0 /\ m - 1 \in Nat
    BY <1>1
  <1>3. m - 1 \in S
    BY <1>1, <1>2
  <1>4. (m - 1) + 1 = m
    BY <1>2
  <1> QED
    BY <1>1, <1>2, <1>3, <1>4

(* A function on the numbers up to N may be defined by recursion, its step *)
(* depending on the number.                                                *)
Steps(N, X, x, g) == N \in Nat /\ x \in X /\ g \in [(1..N) \X X -> X]

LEMMA BoundedRecursion ==
    ASSUME NEW N, NEW X, NEW x, NEW g, Steps(N, X, x, g)
    PROVE  \E f \in [0..N -> X] : f[0] = x /\ \A n \in 1..N : f[n] = g[<<n, f[n - 1]>>]
  <1> USE DEF Steps
  <1> DEFINE Upto(n) ==
                 {f \in [0..n -> X] : f[0] = x /\ \A i \in 1..n : f[i] = g[<<i, f[i - 1]>>]}
             S == {n \in Nat : n <= N => Upto(n) # {}}
  <1>1. 0 \in S
    <2>1. [i \in 0..0 |-> x] \in Upto(0)
      OBVIOUS
    <2> QED
      BY <2>1
  <1>2. ASSUME NEW n \in Nat, n \in S PROVE n + 1 \in S
    <2> SUFFICES ASSUME n + 1 <= N PROVE Upto(n + 1) # {}
      OBVIOUS
    <2>1. PICK f : f \in Upto(n)
      BY <1>2
    <2> DEFINE h == [i \in 0..(n + 1) |-> IF i = n + 1 THEN g[<<n + 1, f[n]>>] ELSE f[i]]
    <2>2. f[n] \in X /\ \A i \in 0..n : f[i] \in X
      BY <2>1
    <2>3. g[<<n + 1, f[n]>>] \in X
      BY <2>2
    <2>4. h \in [0..(n + 1) -> X] /\ h[0] = x
      BY <2>1, <2>2, <2>3
    <2>5. ASSUME NEW i \in 1..(n + 1) PROVE h[i] = g[<<i, h[i - 1]>>]
      <3>1. CASE i = n + 1
        <4>1. h[n + 1] = g[<<n + 1, f[n]>>] /\ h[n] = f[n] /\ (n + 1) - 1 = n
          OBVIOUS
        <4> HIDE DEF h
        <4> QED
          BY <3>1, <4>1
      <3>2. CASE i # n + 1
        <4>1. i \in 1..n /\ h[i] = f[i] /\ h[i - 1] = f[i - 1]
          BY <2>5, <3>2
        <4> QED
          BY <2>1, <4>1
      <3> QED
        BY <3>1, <3>2
    <2> HIDE DEF h
    <2> QED
      BY <2>4, <2>5
  <1> HIDE DEF S
  <1>3. \A n \in Nat : n \in S
    BY <1>1, <1>2, AllNats
  <1>4. Upto(N) # {}
    BY <1>3 DEF S
  <1> QED
    BY <1>4

(* h is the first n + 1 iterates of g from x.                              *)
Iterates(h, n, g, x, X) ==
    /\ h \in [0..n -> X]
    /\ h[0] = x
    /\ \A i \in 0..(n - 1) : h[i + 1] = g[h[i]]

LEMMA IteratesExist ==
    ASSUME NEW X, NEW x \in X, NEW g \in [X -> X]
    PROVE  \A n \in Nat : \E h : Iterates(h, n, g, x, X)
  <1> DEFINE S == {n \in Nat : \E h : Iterates(h, n, g, x, X)}
  <1>1. 0 \in S
    <2>1. Iterates([i \in 0..0 |-> x], 0, g, x, X)
      BY DEF Iterates
    <2> QED
      BY <2>1
  <1>2. ASSUME NEW n \in Nat, n \in S PROVE n + 1 \in S
    <2>1. PICK h : Iterates(h, n, g, x, X)
      BY <1>2
    <2> DEFINE k == [i \in 0..(n + 1) |-> IF i = n + 1 THEN g[h[n]] ELSE h[i]]
    <2>2. h[n] \in X /\ \A i \in 0..n : h[i] \in X
      BY <2>1 DEF Iterates
    <2>3. k \in [0..(n + 1) -> X]
      BY <2>2
    <2>4. k[0] = x
      BY <2>1 DEF Iterates
    <2>5. ASSUME NEW i \in 0..((n + 1) - 1) PROVE k[i + 1] = g[k[i]]
      <3>1. CASE i = n
        BY <3>1
      <3>2. CASE i # n
        <4>1. i \in 0..(n - 1) /\ i + 1 \in 0..n
          BY <2>5, <3>2
        <4> QED
          BY <2>1, <4>1 DEF Iterates
      <3> QED
        BY <3>1, <3>2
    <2> HIDE DEF k
    <2>6. Iterates(k, n + 1, g, x, X)
      BY <2>3, <2>4, <2>5 DEF Iterates
    <2> QED
      BY <2>6
  <1> HIDE DEF S
  <1>3. \A n \in Nat : n \in S
    BY <1>1, <1>2, AllNats
  <1> QED
    BY <1>3 DEF S

LEMMA IteratesAgree ==
    ASSUME NEW X, NEW x \in X, NEW g \in [X -> X], NEW n \in Nat, NEW m \in Nat,
           NEW h, NEW k, Iterates(h, n, g, x, X), Iterates(k, m, g, x, X)
    PROVE  \A i \in Nat : i <= n /\ i <= m => h[i] = k[i]
  <1> DEFINE S == {i \in Nat : i <= n /\ i <= m => h[i] = k[i]}
  <1>1. 0 \in S
    BY DEF Iterates
  <1>2. ASSUME NEW i \in Nat, i \in S PROVE i + 1 \in S
    <2> SUFFICES ASSUME i + 1 <= n, i + 1 <= m PROVE h[i + 1] = k[i + 1]
      OBVIOUS
    <2>1. i \in 0..(n - 1) /\ i \in 0..(m - 1) /\ i <= n /\ i <= m
      OBVIOUS
    <2>2. h[i + 1] = g[h[i]] /\ k[i + 1] = g[k[i]]
      BY <2>1 DEF Iterates
    <2> QED
      BY <1>2, <2>1, <2>2
  <1> HIDE DEF S
  <1>3. \A i \in Nat : i \in S
    BY <1>1, <1>2, AllNats
  <1> QED
    BY <1>3 DEF S

(* A function on the naturals may be defined by recursion.                 *)
LEMMA Recursion ==
    ASSUME NEW X, NEW x \in X, NEW g \in [X -> X]
    PROVE  \E f \in [Nat -> X] : f[0] = x /\ \A n \in Nat : f[n + 1] = g[f[n]]
  <1> DEFINE H(n) == CHOOSE h : Iterates(h, n, g, x, X)
             f == [n \in Nat |-> H(n)[n]]
  <1>1. \A n \in Nat : Iterates(H(n), n, g, x, X)
    BY IteratesExist
  <1> HIDE DEF H
  <1>2. f \in [Nat -> X]
    <2>1. \A n \in Nat : H(n)[n] \in X
      BY <1>1 DEF Iterates
    <2> QED
      BY <2>1
  <1>3. f[0] = x
    BY <1>1 DEF Iterates
  <1>4. ASSUME NEW n \in Nat PROVE f[n + 1] = g[f[n]]
    <2>1. n \in 0..((n + 1) - 1) /\ n + 1 \in Nat /\ n <= n + 1 /\ n <= n
      OBVIOUS
    <2>2. H(n + 1)[n + 1] = g[H(n + 1)[n]]
      BY <1>1, <2>1 DEF Iterates
    <2>3. Iterates(H(n + 1), n + 1, g, x, X) /\ Iterates(H(n), n, g, x, X)
      BY <1>1
    <2>4. H(n + 1)[n] = H(n)[n]
      BY <2>1, <2>3, IteratesAgree
    <2> QED
      BY <2>1, <2>2, <2>4
  <1> HIDE DEF f
  <1> QED
    BY <1>2, <1>3, <1>4

-----------------------------------------------------------------------------
(* Types of blocks.                                                        *)

Ops == {"Code", "Ret", "Br", "BrCond"}
InstrOf(n) == [op : Ops, at : 0..(MaxTokens + 1), dests : Seq(0..(n - 1))]
BlockOf(n) ==
    [instrs : Seq(InstrOf(n)), preds : SUBSET (0..(n - 1)), succs : Seq(0..(n - 1)),
     forExit : 0..(n - 1) \cup {NoBlock}]
FrameOf(n) ==
    [kind : {"then", "else", "loop"}, exit : 0..(n - 1), other : 0..(n - 1),
     outer : BOOLEAN, then : BOOLEAN]
Count == Cardinality(DOMAIN blk)
Tokens == {"stm", "ret", "if", "else", "fi", "for", "rof"}

LEMMA CountIs ==
    ASSUME NEW n \in Nat, NEW f, DOMAIN f = 0..(n - 1)
    PROVE  Cardinality(DOMAIN f) = n
  BY FS_Interval

LEMMA InstrGrows ==
    ASSUME NEW m \in Nat, NEW n \in Nat, m <= n
    PROVE  InstrOf(m) \subseteq InstrOf(n)
  <1>1. 0..(m - 1) \subseteq 0..(n - 1)
    OBVIOUS
  <1>2. Seq(0..(m - 1)) \subseteq Seq(0..(n - 1))
    BY <1>1, SeqMonotonic
  <1> QED
    BY <1>2 DEF InstrOf

LEMMA BlockGrows ==
    ASSUME NEW m \in Nat, NEW n \in Nat, m <= n
    PROVE  BlockOf(m) \subseteq BlockOf(n)
  <1>1. 0..(m - 1) \subseteq 0..(n - 1)
    OBVIOUS
  <1>2. Seq(0..(m - 1)) \subseteq Seq(0..(n - 1))
    BY <1>1, SeqMonotonic
  <1>3. Seq(InstrOf(m)) \subseteq Seq(InstrOf(n))
    BY InstrGrows, SeqMonotonic
  <1>4. SUFFICES ASSUME NEW b \in BlockOf(m) PROVE b \in BlockOf(n)
    OBVIOUS
  <1>5. /\ b.instrs \in Seq(InstrOf(n)) /\ b.preds \in SUBSET (0..(n - 1))
        /\ b.succs \in Seq(0..(n - 1)) /\ b.forExit \in 0..(n - 1) \cup {NoBlock}
    BY <1>1, <1>2, <1>3, <1>4 DEF BlockOf
  <1>6. b = [instrs |-> b.instrs, preds |-> b.preds, succs |-> b.succs, forExit |-> b.forExit]
    BY DEF BlockOf
  <1> QED
    BY <1>5, <1>6 DEF BlockOf

LEMMA FramesGrow ==
    ASSUME NEW m \in Nat, NEW n \in Nat, m <= n
    PROVE  Seq(FrameOf(m)) \subseteq Seq(FrameOf(n))
  <1>1. 0..(m - 1) \subseteq 0..(n - 1)
    OBVIOUS
  <1>2. FrameOf(m) \subseteq FrameOf(n)
    BY <1>1 DEF FrameOf
  <1> QED
    BY <1>2, SeqMonotonic

LEMMA InstrTypes ==
    ASSUME NEW n \in Nat, NEW at \in 0..(MaxTokens + 1), NEW d \in 0..(n - 1), NEW e \in 0..(n - 1)
    PROVE  /\ Code(at) \in InstrOf(n) /\ Ret(at) \in InstrOf(n)
           /\ Br(d) \in InstrOf(n) /\ BrCond(at, d, e) \in InstrOf(n)
  <1>1. <<>> \in Seq(0..(n - 1)) /\ <<d>> \in Seq(0..(n - 1)) /\ <<d, e>> \in Seq(0..(n - 1))
    OBVIOUS
  <1>2. 0 \in 0..(MaxTokens + 1)
    BY BoundsAssumption
  <1> QED
    BY <1>1, <1>2 DEF Code, Ret, Br, BrCond, InstrOf, Ops

LEMMA NewBlockTypes ==
    ASSUME NEW n \in Nat, NEW p \in SUBSET (0..(n - 1)), NEW s \in Seq(0..(n - 1)),
           NEW x \in 0..(n - 1) \cup {NoBlock}
    PROVE  /\ NewBlock(p, s, x) \in BlockOf(n)
           /\ \A code \in Seq(InstrOf(n)) :
                 [NewBlock(p, s, x) EXCEPT !.instrs = code] \in BlockOf(n)
  <1>1. <<>> \in Seq(InstrOf(n))
    OBVIOUS
  <1> QED
    BY <1>1 DEF NewBlock, BlockOf

(* Ending a block with instructions and edges keeps the types of all.      *)
LEMMA EndTypes ==
    ASSUME NEW n \in Nat, NEW m \in Nat, blk \in [0..(m - 1) -> BlockOf(n)],
           NEW b \in 0..(m - 1), NEW code \in Seq(InstrOf(n)), NEW next \in Seq(0..(n - 1))
    PROVE  /\ EndInto(b, code, next) \in [0..(m - 1) -> BlockOf(n)]
           /\ Add(b, code) \in [0..(m - 1) -> BlockOf(n)]
  <1>1. blk[b] \in BlockOf(n)
    OBVIOUS
  <1>2. blk[b].instrs \o code \in Seq(InstrOf(n)) /\ blk[b].succs \o next \in Seq(0..(n - 1))
    BY <1>1, ConcatProperties DEF BlockOf
  <1> DEFINE c == [blk[b] EXCEPT !.instrs = blk[b].instrs \o code]
             d == [[blk[b] EXCEPT !.succs = blk[b].succs \o next]
                      EXCEPT !.instrs = blk[b].instrs \o code]
  <1>3. c \in BlockOf(n) /\ d \in BlockOf(n)
    BY <1>1, <1>2 DEF BlockOf
  <1>4. Add(b, code) = [blk EXCEPT ![b] = c]
    BY <1>1 DEF Add
  <1>5. EndInto(b, code, next) = [blk EXCEPT ![b] = d]
    BY <1>1 DEF EndInto, BlockOf
  <1> HIDE DEF c, d
  <1> QED
    BY <1>3, <1>4, <1>5

LEMMA AddBlocksTypes ==
    ASSUME NEW n \in Nat, NEW m \in Nat, m <= n, NEW bs \in [0..(m - 1) -> BlockOf(n)],
           NEW new, DOMAIN new = m..(n - 1), \A b \in DOMAIN new : new[b] \in BlockOf(n)
    PROVE  AddBlocks(bs, new) \in [0..(n - 1) -> BlockOf(n)]
  <1>1. DOMAIN bs \cup DOMAIN new = 0..(n - 1)
    OBVIOUS
  <1> QED
    BY <1>1 DEF AddBlocks

-----------------------------------------------------------------------------
(* Every label mentioned is that of a block.                               *)

BuildInv ==
    /\ Count \in Nat \ {0}
    /\ blk \in [0..(Count - 1) -> BlockOf(Count)]
    /\ prog \in Seq(Tokens) /\ Len(prog) <= MaxTokens
    /\ void \in BOOLEAN /\ optimize \in BOOLEAN
    /\ phase \in {"build", "rejected", "prune", "done"}
    /\ blocks \subseteq 0..(Count - 1)
    /\ cur \in 0..(Count - 1)
    /\ open \in Seq(FrameOf(Count))
    /\ returns \in BOOLEAN /\ trusted \in BOOLEAN
    /\ pass \in 0..Passes
    /\ unseen \subseteq blocks
    /\ phase = "build" => blocks = 0..(Count - 1) /\ unseen = {}

(* What every translated statement shares.                                 *)
LEMMA BuildStep ==
    ASSUME BuildInv, NEW token \in Tokens, NEW closers \in Nat, Read(token, closers),
           NEW m \in Nat \ {0}, blk' \in [0..(m - 1) -> BlockOf(m)], blocks' = 0..(m - 1),
           cur' \in 0..(m - 1), open' \in Seq(FrameOf(m)),
           returns' \in BOOLEAN, trusted' \in BOOLEAN
    PROVE  BuildInv'
  <1>1. Count' = m
    BY CountIs DEF Count
  <1>2. prog' \in Seq(Tokens) /\ Len(prog') <= MaxTokens
    BY BoundsAssumption DEF BuildInv, Read
  <1>3. /\ void' \in BOOLEAN /\ optimize' \in BOOLEAN /\ phase' = "build"
        /\ pass' \in 0..Passes /\ unseen' = {}
    BY DEF BuildInv, Read, prune
  <1> QED
    BY <1>1, <1>2, <1>3 DEF BuildInv

LEMMA BuildFacts ==
    ASSUME BuildInv, NEW token, NEW closers \in Nat, Read(token, closers)
    PROVE  /\ Count \in Nat \ {0} /\ blk \in [0..(Count - 1) -> BlockOf(Count)]
           /\ At \in 0..(MaxTokens + 1) /\ blocks = 0..(Count - 1)
           /\ cur \in 0..(Count - 1) /\ open \in Seq(FrameOf(Count))
           /\ returns \in BOOLEAN /\ trusted \in BOOLEAN
  <1>1. Len(prog) \in Nat /\ Len(prog) <= MaxTokens
    BY DEF BuildInv
  <1>2. At \in 0..(MaxTokens + 1)
    BY <1>1, BoundsAssumption DEF At
  <1> QED
    BY <1>2 DEF BuildInv, Read

LEMMA LastFrame ==
    ASSUME NEW n \in Nat, NEW s \in Seq(FrameOf(n)), s # <<>>
    PROVE  /\ Len(s) - 1 \in Nat /\ Last(s) \in FrameOf(n)
           /\ Front(s) \in Seq(FrameOf(n))
  <1>1. Len(s) \in Nat /\ Len(s) # 0 /\ Len(s) \in DOMAIN s
    BY EmptySeq, LenProperties
  <1>2. Last(s) \in FrameOf(n)
    BY <1>1 DEF Last
  <1>3. Front(s) \in Seq(FrameOf(n))
    BY <1>1, SubSeqProperties DEF Front
  <1> QED
    BY <1>1, <1>2, <1>3

LEMMA CodeTypes ==
    ASSUME NEW n \in Nat, NEW at \in 0..(MaxTokens + 1), NEW d \in 0..(n - 1), NEW e \in 0..(n - 1)
    PROVE  /\ <<Code(at)>> \in Seq(InstrOf(n)) /\ <<Ret(at)>> \in Seq(InstrOf(n))
           /\ <<Br(d)>> \in Seq(InstrOf(n))
           /\ <<Code(at), BrCond(at, d, e)>> \in Seq(InstrOf(n))
  <1> DEFINE c == Code(at) r == Ret(at) b == Br(d) x == BrCond(at, d, e)
  <1>1. c \in InstrOf(n) /\ r \in InstrOf(n) /\ b \in InstrOf(n) /\ x \in InstrOf(n)
    BY InstrTypes
  <1> HIDE DEF c, r, b, x
  <1>2. <<c>> \in Seq(InstrOf(n)) /\ <<r>> \in Seq(InstrOf(n)) /\ <<b>> \in Seq(InstrOf(n))
        /\ <<c, x>> \in Seq(InstrOf(n))
    BY <1>1
  <1> QED
    BY <1>2 DEF c, r, b, x

LEMMA SimpleTyped ==
    ASSUME BuildInv, Statement \/ Return
    PROVE  BuildInv'
  <1>1. "stm" \in Tokens /\ "ret" \in Tokens
    BY DEF Tokens
  <1>2. Len(open) \in Nat
    BY DEF BuildInv
  <1>3. PICK token \in Tokens : Read(token, Len(open))
    BY <1>1 DEF Statement, Return
  <1>4. /\ Count \in Nat \ {0} /\ blk \in [0..(Count - 1) -> BlockOf(Count)]
        /\ At \in 0..(MaxTokens + 1) /\ blocks = 0..(Count - 1)
        /\ cur \in 0..(Count - 1) /\ open \in Seq(FrameOf(Count))
        /\ returns \in BOOLEAN /\ trusted \in BOOLEAN
    BY <1>2, <1>3, BuildFacts
  <1>5. <<Code(At)>> \in Seq(InstrOf(Count)) /\ <<Ret(At)>> \in Seq(InstrOf(Count))
    BY <1>4, CodeTypes
  <1>6. <<>> \in Seq(0..(Count - 1))
    OBVIOUS
  <1>7. \A code \in Seq(InstrOf(Count)) : Add(cur, code) \in [0..(Count - 1) -> BlockOf(Count)]
    BY <1>4, <1>6, EndTypes
  <1>8. blk' \in [0..(Count - 1) -> BlockOf(Count)]
    BY <1>5, <1>7 DEF Statement, Return
  <1>9. blocks' = blocks /\ cur' = cur /\ open' = open /\ returns' \in BOOLEAN /\ trusted' = trusted
    BY <1>4 DEF Statement, Return, check
  <1> QED
    BY <1>2, <1>3, <1>4, <1>8, <1>9, BuildStep

LEMMA ElseTyped ==
    ASSUME BuildInv, Else
    PROVE  BuildInv'
  <1>1. "else" \in Tokens
    BY DEF Tokens
  <1>2. Len(open) \in Nat /\ Read("else", Len(open))
    BY DEF BuildInv, Else
  <1>4. /\ Count \in Nat \ {0} /\ blk \in [0..(Count - 1) -> BlockOf(Count)]
        /\ At \in 0..(MaxTokens + 1) /\ blocks = 0..(Count - 1)
        /\ cur \in 0..(Count - 1) /\ open \in Seq(FrameOf(Count))
        /\ returns \in BOOLEAN /\ trusted \in BOOLEAN
    BY <1>2, BuildFacts
  <1>5. Last(open) \in FrameOf(Count)
    BY <1>4, LastFrame DEF Else
  <1>6. Last(open).exit \in 0..(Count - 1) /\ Last(open).other \in 0..(Count - 1)
    BY <1>5 DEF FrameOf
  <1>7. <<Br(Last(open).exit)>> \in Seq(InstrOf(Count)) /\ <<>> \in Seq(0..(Count - 1))
    BY <1>4, <1>6, CodeTypes
  <1>8. Add(cur, <<Br(Last(open).exit)>>) \in [0..(Count - 1) -> BlockOf(Count)]
    BY <1>4, <1>7, EndTypes
  <1>9. open' \in Seq(FrameOf(Count))
    <2>1. Len(open) \in DOMAIN open
      BY <1>4, EmptySeq, LenProperties DEF Else
    <2> DEFINE frame == [[open[Len(open)] EXCEPT !.kind = "else"] EXCEPT !.then = returns]
    <2>2. open[Len(open)] \in FrameOf(Count)
      BY <1>5 DEF Last
    <2>3. frame \in FrameOf(Count)
      BY <2>2, <1>4 DEF FrameOf
    <2>4. open' = [open EXCEPT ![Len(open)] = frame]
      BY <2>1, <1>4 DEF Else
    <2> HIDE DEF frame
    <2> QED
      BY <2>1, <2>3, <2>4, <1>4, ExceptSeq
  <1>10. cur' \in 0..(Count - 1) /\ blocks' = blocks /\ returns' \in BOOLEAN /\ trusted' = trusted
    BY <1>6 DEF Else
  <1>11. blk' \in [0..(Count - 1) -> BlockOf(Count)]
    BY <1>8 DEF Else
  <1> QED
    BY <1>1, <1>2, <1>4, <1>9, <1>10, <1>11, BuildStep

LEMMA ClosingTyped ==
    ASSUME BuildInv, EndIf \/ EndLoop
    PROVE  BuildInv'
  <1>1. "fi" \in Tokens /\ "rof" \in Tokens
    BY DEF Tokens
  <1>2. open # <<>> /\ open \in Seq(FrameOf(Count)) /\ Count \in Nat
    BY DEF BuildInv, EndIf, EndLoop
  <1> DEFINE frame == Last(open)
  <1>3. Len(open) - 1 \in Nat /\ frame \in FrameOf(Count) /\ Front(open) \in Seq(FrameOf(Count))
    BY <1>2, LastFrame
  <1>4. PICK token \in Tokens : Read(token, Len(open) - 1)
    BY <1>1 DEF EndIf, EndLoop
  <1>5. /\ Count \in Nat \ {0} /\ blk \in [0..(Count - 1) -> BlockOf(Count)]
        /\ At \in 0..(MaxTokens + 1) /\ blocks = 0..(Count - 1)
        /\ cur \in 0..(Count - 1) /\ open \in Seq(FrameOf(Count))
        /\ returns \in BOOLEAN /\ trusted \in BOOLEAN
    BY <1>3, <1>4, BuildFacts
  <1>6. /\ frame.exit \in 0..(Count - 1) /\ frame.other \in 0..(Count - 1)
        /\ frame.outer \in BOOLEAN /\ frame.then \in BOOLEAN
    BY <1>3 DEF FrameOf
  <1>7. /\ <<Br(frame.exit)>> \in Seq(InstrOf(Count)) /\ <<Br(frame.other)>> \in Seq(InstrOf(Count))
        /\ <<>> \in Seq(0..(Count - 1))
    BY <1>5, <1>6, CodeTypes
  <1>8. /\ Add(cur, <<Br(frame.exit)>>) \in [0..(Count - 1) -> BlockOf(Count)]
        /\ Add(cur, <<Br(frame.other)>>) \in [0..(Count - 1) -> BlockOf(Count)]
    BY <1>5, <1>7, EndTypes
  <1>9. blk' \in [0..(Count - 1) -> BlockOf(Count)]
    <2>1. CASE EndLoop
      BY <2>1, <1>8 DEF EndLoop
    <2>2. CASE EndIf
      <3> DEFINE joined == Add(cur, <<Br(frame.exit)>>)
                 code == <<Br(frame.exit)>>
                 c == [joined[frame.other] EXCEPT !.instrs = code]
      <3>1. blk' = IF frame.kind = "then" THEN [joined EXCEPT ![frame.other].instrs = code] ELSE joined
        BY <2>2 DEF EndIf
      <3>2. joined \in [0..(Count - 1) -> BlockOf(Count)] /\ code \in Seq(InstrOf(Count))
        BY <1>7, <1>8
      <3> HIDE DEF joined, code, frame
      <3>3. c \in BlockOf(Count)
        <4>1. joined[frame.other] \in BlockOf(Count)
          BY <3>2, <1>6
        <4> QED
          BY <3>2, <4>1 DEF BlockOf
      <3>4. [joined EXCEPT ![frame.other].instrs = code] = [joined EXCEPT ![frame.other] = c]
        BY <3>2, <1>6
      <3> HIDE DEF c
      <3>5. [joined EXCEPT ![frame.other] = c] \in [0..(Count - 1) -> BlockOf(Count)]
        BY <3>2, <3>3, <1>6
      <3> QED
        BY <3>1, <3>2, <3>4, <3>5
    <2> QED
      BY <2>1, <2>2
  <1>10. /\ cur' = frame.exit /\ blocks' = blocks /\ open' = Front(open)
    BY DEF EndIf, EndLoop
  <1>11. returns' \in BOOLEAN /\ trusted' \in BOOLEAN
    BY <1>5, <1>6 DEF EndIf, EndLoop, BothReturn
  <1> QED
    BY <1>3, <1>4, <1>5, <1>6, <1>9, <1>10, <1>11, BuildStep

LEMMA OpenIfTyped ==
    ASSUME BuildInv, OpenIf
    PROVE  BuildInv'
  <1>1. "if" \in Tokens /\ Len(open) + 1 \in Nat /\ Read("if", Len(open) + 1)
    BY DEF Tokens, BuildInv, OpenIf
  <1>2. /\ Count \in Nat \ {0} /\ blk \in [0..(Count - 1) -> BlockOf(Count)]
        /\ At \in 0..(MaxTokens + 1) /\ blocks = 0..(Count - 1)
        /\ cur \in 0..(Count - 1) /\ open \in Seq(FrameOf(Count))
        /\ returns \in BOOLEAN /\ trusted \in BOOLEAN
    BY <1>1, BuildFacts
  <1> DEFINE t == Count
             f == t + 1
             exit == t + 2
             n == t + 3
             inherited == blk[cur].forExit
             code == <<Code(At), BrCond(At, t, f)>>
             new == [b \in {t, f, exit} |->
                        IF b = exit THEN NewBlock({t, f}, <<>>, inherited)
                        ELSE NewBlock({cur}, <<exit>>, inherited)]
             linked == EndInto(cur, code, <<t, f>>)
             frame == [kind |-> "then", exit |-> exit, other |-> f,
                       outer |-> returns, then |-> FALSE]
  <1>3. /\ n \in Nat \ {0} /\ t <= n /\ t..(n - 1) = {t, f, exit}
        /\ t \in 0..(n - 1) /\ f \in 0..(n - 1) /\ exit \in 0..(n - 1) /\ cur \in 0..(n - 1)
        /\ 0..(t - 1) \cup {t, f, exit} = 0..(n - 1)
    BY <1>2
  <1>4. blk \in [0..(t - 1) -> BlockOf(n)]
    BY <1>2, <1>3, BlockGrows
  <1>5. inherited \in 0..(n - 1) \cup {NoBlock}
    BY <1>2, <1>4 DEF BlockOf
  <1>6. code \in Seq(InstrOf(n))
    BY <1>2, <1>3, CodeTypes
  <1>7. /\ blk' = AddBlocks(linked, new) /\ blocks' = blocks \cup {t, f, exit}
        /\ cur' = t /\ open' = Append(open, frame)
        /\ returns' = FALSE /\ trusted' = trusted
    BY DEF OpenIf, Count
  <1>8. <<t, f>> \in Seq(0..(n - 1)) /\ <<exit>> \in Seq(0..(n - 1)) /\ <<>> \in Seq(0..(n - 1))
    BY <1>3
  <1>9. \A b \in {t, f, exit} : new[b] \in BlockOf(n)
    <2>1. {t, f} \in SUBSET (0..(n - 1)) /\ {cur} \in SUBSET (0..(n - 1))
      BY <1>3
    <2>2. NewBlock({t, f}, <<>>, inherited) \in BlockOf(n)
      BY <1>3, <1>5, <1>8, <2>1, NewBlockTypes
    <2>3. NewBlock({cur}, <<exit>>, inherited) \in BlockOf(n)
      BY <1>3, <1>5, <1>8, <2>1, NewBlockTypes
    <2> QED
      BY <2>2, <2>3
  <1>10. DOMAIN new = {t, f, exit}
    OBVIOUS
  <1> HIDE DEF code, inherited, t, f, exit, n
  <1>11. linked \in [0..(t - 1) -> BlockOf(n)]
    BY <1>2, <1>3, <1>4, <1>6, <1>8, EndTypes DEF t
  <1> HIDE DEF linked, new
  <1>12. blk' \in [0..(n - 1) -> BlockOf(n)]
    BY <1>2, <1>3, <1>7, <1>9, <1>10, <1>11, AddBlocksTypes DEF t
  <1>13. open' \in Seq(FrameOf(n))
    <2>1. open \in Seq(FrameOf(n))
      BY <1>2, <1>3, FramesGrow DEF t
    <2>2. frame \in FrameOf(n)
      BY <1>2, <1>3 DEF FrameOf
    <2> HIDE DEF frame
    <2> QED
      BY <1>7, <2>1, <2>2, AppendProperties
  <1>14. blocks' = 0..(n - 1)
    BY <1>2, <1>3, <1>7 DEF t
  <1> QED
    BY <1>1, <1>2, <1>3, <1>7, <1>12, <1>13, <1>14, BuildStep

LEMMA OpenLoopTyped ==
    ASSUME BuildInv, OpenLoop
    PROVE  BuildInv'
  <1>1. "for" \in Tokens /\ Len(open) + 1 \in Nat /\ Read("for", Len(open) + 1)
    BY DEF Tokens, BuildInv, OpenLoop
  <1>2. /\ Count \in Nat \ {0} /\ blk \in [0..(Count - 1) -> BlockOf(Count)]
        /\ At \in 0..(MaxTokens + 1) /\ blocks = 0..(Count - 1)
        /\ cur \in 0..(Count - 1) /\ open \in Seq(FrameOf(Count))
        /\ returns \in BOOLEAN /\ trusted \in BOOLEAN
    BY <1>1, BuildFacts
  <1> DEFINE e == Count
             inner == e + 1
             exit == e + 2
             n == e + 3
             code == <<Code(At), BrCond(At, inner, exit)>>
             entry == [NewBlock({}, <<inner, exit>>, exit) EXCEPT !.instrs = code]
             new == [b \in {e, inner, exit} |->
                        CASE b = e -> entry
                          [] b = inner -> NewBlock({e}, <<e>>, exit)
                          [] b = exit -> NewBlock({e}, <<>>, NoBlock)]
             linked == EndInto(cur, <<Br(e)>>, <<e>>)
             frame == [kind |-> "loop", exit |-> exit, other |-> e,
                       outer |-> returns, then |-> FALSE]
  <1>3. /\ n \in Nat \ {0} /\ e <= n /\ e..(n - 1) = {e, inner, exit}
        /\ e \in 0..(n - 1) /\ inner \in 0..(n - 1) /\ exit \in 0..(n - 1) /\ cur \in 0..(n - 1)
        /\ 0..(e - 1) \cup {e, inner, exit} = 0..(n - 1)
        /\ e # inner /\ e # exit /\ inner # exit
    BY <1>2
  <1>4. blk \in [0..(e - 1) -> BlockOf(n)]
    BY <1>2, <1>3, BlockGrows
  <1>5. code \in Seq(InstrOf(n)) /\ <<Br(e)>> \in Seq(InstrOf(n))
    BY <1>2, <1>3, CodeTypes
  <1>6. /\ blk' = AddBlocks(linked, new) /\ blocks' = blocks \cup {e, inner, exit}
        /\ cur' = inner /\ open' = Append(open, frame)
        /\ returns' = FALSE /\ trusted' = trusted
    BY DEF OpenLoop, Count
  <1>7. /\ <<inner, exit>> \in Seq(0..(n - 1)) /\ <<e>> \in Seq(0..(n - 1))
        /\ <<>> \in Seq(0..(n - 1))
    BY <1>3
  <1>8. /\ {} \in SUBSET (0..(n - 1)) /\ {e} \in SUBSET (0..(n - 1))
        /\ exit \in 0..(n - 1) \cup {NoBlock} /\ NoBlock \in 0..(n - 1) \cup {NoBlock}
    BY <1>3
  <1> HIDE DEF code
  <1>9. /\ entry \in BlockOf(n)
        /\ NewBlock({e}, <<e>>, exit) \in BlockOf(n)
        /\ NewBlock({e}, <<>>, NoBlock) \in BlockOf(n)
    <2>1. entry \in BlockOf(n)
      BY <1>3, <1>5, <1>7, <1>8, NewBlockTypes
    <2>2. NewBlock({e}, <<e>>, exit) \in BlockOf(n)
      BY <1>3, <1>7, <1>8, NewBlockTypes
    <2>3. NewBlock({e}, <<>>, NoBlock) \in BlockOf(n)
      BY <1>3, <1>7, <1>8, NewBlockTypes
    <2> QED
      BY <2>1, <2>2, <2>3
  <1>10. DOMAIN new = {e, inner, exit} /\ \A b \in {e, inner, exit} : new[b] \in BlockOf(n)
    <2> HIDE DEF entry
    <2>1. new[e] = entry /\ new[inner] = NewBlock({e}, <<e>>, exit)
          /\ new[exit] = NewBlock({e}, <<>>, NoBlock)
      BY <1>3
    <2> QED
      BY <1>9, <2>1
  <1> HIDE DEF e, inner, exit, n, entry
  <1>11. linked \in [0..(e - 1) -> BlockOf(n)]
    BY <1>2, <1>3, <1>4, <1>5, <1>7, EndTypes DEF e
  <1> HIDE DEF linked, new
  <1>12. blk' \in [0..(n - 1) -> BlockOf(n)]
    BY <1>2, <1>3, <1>6, <1>10, <1>11, AddBlocksTypes DEF e
  <1>13. open' \in Seq(FrameOf(n))
    <2>1. open \in Seq(FrameOf(n))
      BY <1>2, <1>3, FramesGrow DEF e
    <2>2. frame \in FrameOf(n)
      BY <1>2, <1>3 DEF FrameOf
    <2> HIDE DEF frame
    <2> QED
      BY <1>6, <2>1, <2>2, AppendProperties
  <1>14. blocks' = 0..(n - 1)
    BY <1>2, <1>3, <1>6 DEF e
  <1> QED
    BY <1>1, <1>2, <1>3, <1>6, <1>12, <1>13, <1>14, BuildStep

LEMMA InitTyped ==
    ASSUME Init
    PROVE  BuildInv
  <1> DEFINE first == NewBlock({}, <<>>, NoBlock)
  <1>1. {0} = 0..(1 - 1) /\ 1 \in Nat /\ 1 \in Nat \ {0}
    OBVIOUS
  <1>2. first \in BlockOf(1)
    <2>1. {} \in SUBSET (0..(1 - 1)) /\ <<>> \in Seq(0..(1 - 1)) /\ NoBlock \in 0..(1 - 1) \cup {NoBlock}
      OBVIOUS
    <2> QED
      BY <1>1, <2>1, NewBlockTypes
  <1>3. blk = [b \in {0} |-> first]
    BY DEF Init, Entry
  <1> HIDE DEF first
  <1>4. Count = 1
    BY <1>1, <1>3, CountIs DEF Count
  <1>5. blk \in [0..(1 - 1) -> BlockOf(1)]
    BY <1>1, <1>2, <1>3
  <1>6. prog \in Seq(Tokens) /\ Len(prog) <= MaxTokens /\ open \in Seq(FrameOf(1))
    BY BoundsAssumption DEF Init
  <1> QED
    BY <1>1, <1>4, <1>5, <1>6, BoundsAssumption DEF Init, BuildInv, Entry

(* Steps that only rewrite the blocks there are.                           *)
LEMMA RewriteStep ==
    ASSUME BuildInv, blk' \in [0..(Count - 1) -> BlockOf(Count)], UNCHANGED <<source, cur, open, check>>,
           phase' \in {"rejected", "prune", "done"}, blocks' \subseteq blocks,
           unseen' \subseteq blocks', pass' \in 0..Passes
    PROVE  BuildInv'
  <1>1. Count' = Count
    BY CountIs DEF Count, BuildInv
  <1> QED
    BY <1>1 DEF BuildInv, source, check

LEMMA SliceTypes ==
    ASSUME NEW S, NEW s \in Seq(S), NEW i \in 1..Len(s)
    PROVE  /\ SubSeq(s, 1, i) \in Seq(S) /\ SubSeq(s, 1, i - 1) \in Seq(S)
           /\ SubSeq(s, i + 1, Len(s)) \in Seq(S)
  <1>1. Len(s) \in Nat /\ \A j \in 1..Len(s) : s[j] \in S
    BY LenProperties
  <1>2. /\ \A j \in 1..i : s[j] \in S
        /\ \A j \in 1..(i - 1) : s[j] \in S
        /\ \A j \in (i + 1)..Len(s) : s[j] \in S
    BY <1>1
  <1>3. i \in Int /\ i - 1 \in Int /\ i + 1 \in Int /\ 1 \in Int /\ Len(s) \in Int
    BY <1>1
  <1>4. SubSeq(s, 1, i) \in Seq(S)
    BY <1>2, <1>3, SubSeqProperties
  <1>5. SubSeq(s, 1, i - 1) \in Seq(S)
    BY <1>2, <1>3, SubSeqProperties
  <1>6. SubSeq(s, i + 1, Len(s)) \in Seq(S)
    BY <1>2, <1>3, SubSeqProperties
  <1> QED
    BY <1>4, <1>5, <1>6

LEMMA FirstTerminatorIn ==
    ASSUME NEW n \in Nat, NEW code \in Seq(InstrOf(n))
    PROVE  Truncate(code) \in Seq(InstrOf(n))
  <1>1. CASE FirstTerminator(code) = {}
    BY <1>1 DEF Truncate
  <1>2. CASE FirstTerminator(code) # {}
    <2> DEFINE i == CHOOSE j \in FirstTerminator(code) : TRUE
    <2>1. i \in 1..Len(code)
      BY <1>2, LenProperties DEF FirstTerminator
    <2>2. SubSeq(code, 1, i) \in Seq(InstrOf(n))
      BY <2>1, SliceTypes
    <2> QED
      BY <1>2, <2>2 DEF Truncate
  <1> QED
    BY <1>1, <1>2

(* Whatever replaces the instructions of the blocks, the rest stays.       *)
LEMMA NewInstrs ==
    ASSUME NEW n \in Nat, NEW bs \in [0..(n - 1) -> BlockOf(n)], NEW b \in 0..(n - 1),
           NEW code \in Seq(InstrOf(n))
    PROVE  [bs[b] EXCEPT !.instrs = code] \in BlockOf(n)
  <1>1. bs[b] \in BlockOf(n)
    OBVIOUS
  <1> QED
    BY <1>1 DEF BlockOf

LEMMA FinalReturnTypes ==
    ASSUME BuildInv
    PROVE  WithFinalReturn \in [0..(Count - 1) -> BlockOf(Count)]
  <1>1. At \in 0..(MaxTokens + 1)
    BY BoundsAssumption DEF At, BuildInv
  <1>2. /\ Count \in Nat /\ blk \in [0..(Count - 1) -> BlockOf(Count)]
        /\ cur \in 0..(Count - 1) /\ <<>> \in Seq(0..(Count - 1))
    BY DEF BuildInv
  <1>3. <<Ret(At)>> \in Seq(InstrOf(Count))
    BY <1>1, <1>2, CodeTypes
  <1>4. Add(cur, <<Ret(At)>>) \in [0..(Count - 1) -> BlockOf(Count)]
    BY <1>2, <1>3, EndTypes
  <1> QED
    BY <1>2, <1>4 DEF WithFinalReturn

LEMMA FinishTyped ==
    ASSUME BuildInv, FinishOptimized \/ FinishPlain
    PROVE  BuildInv' /\ blocks' = DOMAIN blk' /\ unseen' = {}
  <1> DEFINE n == Count
             final == WithFinalReturn
  <1>1. /\ n \in Nat \ {0} /\ DOMAIN blk = 0..(n - 1)
        /\ blocks = 0..(n - 1) /\ unseen = {} /\ pass \in 0..Passes
    BY DEF BuildInv, FinishOptimized, FinishPlain
  <1>2. final \in [0..(n - 1) -> BlockOf(n)]
    BY FinalReturnTypes
  <1>3. blk' \in [0..(n - 1) -> BlockOf(n)]
    <2>1. CASE FinishOptimized
      <3>1. blk' = [b \in 0..(n - 1) |-> [final[b] EXCEPT !.instrs = Truncate(final[b].instrs)]]
        BY <1>1, <1>2, <2>1 DEF FinishOptimized, BlockOf
      <3> HIDE DEF n, final
      <3>2. \A b \in 0..(n - 1) : [final[b] EXCEPT !.instrs = Truncate(final[b].instrs)] \in BlockOf(n)
        <4> TAKE b \in 0..(n - 1)
        <4>1. final[b].instrs \in Seq(InstrOf(n))
          BY <1>2 DEF BlockOf
        <4>2. Truncate(final[b].instrs) \in Seq(InstrOf(n))
          BY <1>1, <4>1, FirstTerminatorIn
        <4> QED
          BY <1>1, <1>2, <4>2, NewInstrs
      <3> QED
        BY <3>1, <3>2
    <2>2. CASE FinishPlain
      <3>1. blk' = [b \in 0..(n - 1) |->
                      IF final[b].instrs = <<>> THEN [final[b] EXCEPT !.instrs = <<Br(b)>>]
                      ELSE final[b]]
        BY <1>1, <2>2 DEF FinishPlain
      <3> HIDE DEF n, final
      <3>2. \A b \in 0..(n - 1) : [final[b] EXCEPT !.instrs = <<Br(b)>>] \in BlockOf(n)
        <4> TAKE b \in 0..(n - 1)
        <4>1. 0 \in 0..(MaxTokens + 1)
          BY BoundsAssumption
        <4>2. <<Br(b)>> \in Seq(InstrOf(n))
          BY <1>1, <4>1, CodeTypes
        <4> QED
          BY <1>1, <1>2, <4>2, NewInstrs
      <3> QED
        BY <1>2, <3>1, <3>2
    <2> QED
      BY <2>1, <2>2
  <1>4. /\ UNCHANGED <<source, cur, open, check>> /\ phase' \in {"prune", "done"}
        /\ blocks' = blocks /\ unseen' = unseen /\ pass' = pass
    BY DEF FinishOptimized, FinishPlain, prune
  <1>5. blocks' = DOMAIN blk' /\ unseen' = {}
    BY <1>1, <1>3, <1>4
  <1>6. BuildInv'
    BY <1>1, <1>3, <1>4, RewriteStep
  <1> QED
    BY <1>5, <1>6

LEMMA WithoutTypes ==
    ASSUME NEW S, NEW s \in Seq(S), NEW b
    PROVE  Without(s, b) \in Seq(S)
  <1>1. CASE b \in ToSet(s)
    <2> DEFINE i == CHOOSE j \in DOMAIN s : s[j] = b
    <2>1. i \in 1..Len(s) /\ Len(s) \in Nat
      BY <1>1, LenProperties DEF ToSet
    <2>2. SubSeq(s, 1, i - 1) \in Seq(S) /\ SubSeq(s, i + 1, Len(s)) \in Seq(S)
      BY <2>1, SliceTypes
    <2> HIDE DEF i
    <2>3. SubSeq(s, 1, i - 1) \o SubSeq(s, i + 1, Len(s)) \in Seq(S)
      BY <2>2, ConcatProperties
    <2> QED
      BY <1>1, <2>3 DEF Without, RemoveAt, i
  <1>2. CASE b \notin ToSet(s)
    BY <1>2 DEF Without
  <1> QED
    BY <1>1, <1>2

LEMMA UnlinkTypes ==
    ASSUME NEW n \in Nat, NEW bs \in [0..(n - 1) -> BlockOf(n)], NEW b
    PROVE  /\ Unlink(b, bs) \in [0..(n - 1) -> BlockOf(n)]
           /\ \A c \in 0..(n - 1) : Unlink(b, bs)[c].instrs = bs[c].instrs
  <1> DEFINE succs(c) == IF c \in bs[b].preds THEN Without(bs[c].succs, b) ELSE bs[c].succs
             preds(c) == IF c \in ToSet(bs[b].succs) THEN bs[c].preds \ {b} ELSE bs[c].preds
             new(c) == [[bs[c] EXCEPT !.succs = succs(c)] EXCEPT !.preds = preds(c)]
  <1>1. Unlink(b, bs) = [c \in 0..(n - 1) |-> new(c)]
    BY DEF Unlink, BlockOf
  <1>2. \A c \in 0..(n - 1) : new(c) \in BlockOf(n) /\ new(c).instrs = bs[c].instrs
    <2> TAKE c \in 0..(n - 1)
    <2>1. bs[c] \in BlockOf(n) /\ bs[c].succs \in Seq(0..(n - 1)) /\ bs[c].preds \in SUBSET (0..(n - 1))
      BY DEF BlockOf
    <2>2. succs(c) \in Seq(0..(n - 1)) /\ preds(c) \in SUBSET (0..(n - 1))
      BY <2>1, WithoutTypes
    <2> HIDE DEF succs, preds
    <2> QED
      BY <2>1, <2>2 DEF BlockOf
  <1> HIDE DEF new
  <1> QED
    BY <1>1, <1>2

LEMMA RejectTyped ==
    ASSUME BuildInv, Reject
    PROVE  BuildInv'
  <1>1. /\ UNCHANGED <<source, cur, open, check>> /\ phase' = "rejected" /\ blk' = blk
        /\ blocks' = blocks /\ unseen' = unseen /\ pass' = pass
    BY DEF Reject, prune
  <1> QED
    BY <1>1, RewriteStep DEF BuildInv

LEMMA PruneTyped ==
    ASSUME BuildInv, StartPass \/ FinishPrune \/ \E b \in unseen : RemoveBlock(b)
    PROVE  BuildInv'
  <1>1. CASE StartPass
    <2>1. /\ UNCHANGED <<source, cur, open, check>> /\ phase' = "prune" /\ blk' = blk
          /\ blocks' = blocks /\ unseen' \subseteq blocks /\ pass' = pass + 1 /\ pass < Passes
      BY <1>1 DEF StartPass, RoundsLeft
    <2>2. pass' \in 0..Passes
      BY <2>1, BoundsAssumption DEF BuildInv
    <2> QED
      BY <2>1, <2>2, RewriteStep DEF BuildInv
  <1>2. CASE FinishPrune
    <2>1. /\ UNCHANGED <<source, cur, open, check>> /\ phase' = "done" /\ blk' = blk
          /\ blocks' = blocks /\ unseen' = unseen /\ pass' = pass
      BY <1>2 DEF FinishPrune, prune
    <2> QED
      BY <2>1, RewriteStep DEF BuildInv
  <1>3. CASE \E b \in unseen : RemoveBlock(b)
    <2>1. PICK b \in unseen : RemoveBlock(b)
      BY <1>3
    <2>2. /\ UNCHANGED <<source, cur, open, check>> /\ phase' = "prune" /\ blk' = Unlink(b, blk)
          /\ blocks' = blocks \ {b} /\ unseen' = unseen \ {b} /\ pass' = pass
      BY <2>1 DEF RemoveBlock
    <2>3. blk' \in [0..(Count - 1) -> BlockOf(Count)]
      BY <2>2, UnlinkTypes DEF BuildInv
    <2> QED
      BY <2>2, <2>3, RewriteStep DEF BuildInv
  <1> QED
    BY <1>1, <1>2, <1>3

LEMMA NextTyped ==
    ASSUME BuildInv, [Next]_vars
    PROVE  BuildInv'
  <1>1. CASE UNCHANGED vars
    BY <1>1 DEF vars, source, check, prune, BuildInv, Count
  <1> QED
    BY <1>1, SimpleTyped, ElseTyped, ClosingTyped, OpenIfTyped, OpenLoopTyped, RejectTyped,
       FinishTyped, PruneTyped DEF Next

LEMMA InvTyped == Spec => []BuildInv
  <1> QED
    BY InitTyped, NextTyped, PTL DEF Spec

(* The types of a function under translation: an edge, a branch and an     *)
(* open statement only ever name blocks made before, so the labels Next    *)
(* hands out never skip one.                                               *)
THEOREM BlocksTyped == Spec => []TypeOK
  <1>1. BuildInv => TypeOK
    <2> SUFFICES ASSUME BuildInv PROVE TypeOK
      OBVIOUS
    <2> DEFINE n == Count
    <2>1. /\ n \in Nat /\ Labels = 0..(n - 1) /\ Cardinality(Labels) = n
          /\ blk \in [0..(n - 1) -> BlockOf(n)] /\ open \in Seq(FrameOf(n))
      BY DEF BuildInv, Labels, Count
    <2>2. Instr = InstrOf(n)
      BY <2>1 DEF Instr, InstrOf, Ops
    <2>3. \A b \in Labels :
              /\ blk[b].instrs \in Seq(Instr)
              /\ blk[b].preds \subseteq Labels
              /\ blk[b].succs \in Seq(Labels)
              /\ blk[b].forExit \in Labels \cup {NoBlock}
      <3> HIDE DEF n
      <3> TAKE b \in Labels
      <3>1. blk[b] \in BlockOf(n)
        BY <2>1
      <3> QED
        BY <2>1, <2>2, <3>1 DEF BlockOf
    <2>4. \A i \in DOMAIN open : open[i].exit \in Labels /\ open[i].other \in Labels
      <3> HIDE DEF n
      <3> TAKE i \in DOMAIN open
      <3>1. open[i] \in FrameOf(n)
        BY <2>1, LenProperties
      <3> QED
        BY <2>1, <3>1 DEF FrameOf
    <2>5. prog \in Seq({"stm", "ret", "if", "else", "fi", "for", "rof"})
      BY DEF BuildInv, Tokens
    <2>6. /\ void \in BOOLEAN /\ optimize \in BOOLEAN /\ returns \in BOOLEAN /\ trusted \in BOOLEAN
          /\ phase \in {"build", "rejected", "prune", "done", "translated"}
          /\ pass \in 0..Passes /\ unseen \subseteq blocks
      BY DEF BuildInv
    <2>7. blocks \subseteq Labels /\ cur \in Labels
      BY <2>1 DEF BuildInv
    <2>8. Labels = 0..(Cardinality(Labels) - 1)
      BY <2>1
    <2> QED
      BY <2>3, <2>4, <2>5, <2>6, <2>7, <2>8 DEF TypeOK
  <1> QED
    BY <1>1, InvTyped, PTL

-----------------------------------------------------------------------------
(* The dead-code pass.                                                     *)

Dests(b, bs) == UNION {ToSet(bs[b].instrs[i].dests) : i \in DOMAIN bs[b].instrs}

(* Between two removals of a round: what a kept block branches to is not   *)
(* waiting to be removed, the block itself excepted.                       *)
KeptInv ==
    phase \in {"prune", "done"} =>
        /\ Entry \in blocks \ unseen
        /\ \A b \in blocks : Dests(b, blk) \subseteq (blocks \ unseen) \cup {b}

LEMMA DestsAreLabels ==
    ASSUME NEW n \in Nat, NEW bs \in [0..(n - 1) -> BlockOf(n)], NEW b \in 0..(n - 1)
    PROVE  Dests(b, bs) \subseteq 0..(n - 1)
  <1>1. bs[b].instrs \in Seq(InstrOf(n))
    BY DEF BlockOf
  <1>2. ASSUME NEW i \in DOMAIN bs[b].instrs PROVE ToSet(bs[b].instrs[i].dests) \subseteq 0..(n - 1)
    <2>1. bs[b].instrs[i] \in InstrOf(n)
      BY <1>1, LenProperties
    <2>2. bs[b].instrs[i].dests \in Seq(0..(n - 1))
      BY <2>1 DEF InstrOf
    <2> QED
      BY <2>2, LenProperties DEF ToSet
  <1> QED
    BY <1>2 DEF Dests

LEMMA SeenCoversTargets ==
    ASSUME NEW b \in blocks, NEW d \in Dests(b, blk), d # b
    PROVE  d \in Seen(blocks, blk)
  <1>1. PICK i \in DOMAIN blk[b].instrs : d \in ToSet(blk[b].instrs[i].dests)
    BY DEF Dests
  <1>2. d \in Targets(b, blk)
    BY <1>1 DEF Targets
  <1> QED
    BY <1>2 DEF Seen

LEMMA KeptStep ==
    ASSUME BuildInv, BuildInv', KeptInv, [Next]_vars
    PROVE  KeptInv'
  <1> USE DEF KeptInv
  <1>1. CASE UNCHANGED vars
    BY <1>1 DEF vars, source, check, prune, Dests
  <1>2. ASSUME Statement \/ Return \/ OpenIf \/ Else \/ EndIf \/ OpenLoop \/ EndLoop \/ Reject
        PROVE  KeptInv'
    <2>1. phase' \in {"build", "rejected"}
      BY <1>2 DEF Statement, Return, OpenIf, Else, EndIf, OpenLoop, EndLoop, Read, Reject
    <2> QED
      BY <2>1
  <1>3. ASSUME FinishOptimized \/ FinishPlain
        PROVE  KeptInv'
    <2>1. blocks' = DOMAIN blk' /\ unseen' = {}
      BY <1>3, FinishTyped
    <2>2. /\ Count' \in Nat \ {0} /\ blk' \in [0..(Count' - 1) -> BlockOf(Count')]
          /\ DOMAIN blk' = 0..(Count' - 1)
      BY DEF BuildInv
    <2>3. Entry \in blocks' \ unseen'
      <3>1. \A n \in Nat \ {0} : 0 \in 0..(n - 1)
        OBVIOUS
      <3> QED
        BY <2>1, <2>2, <3>1 DEF Entry
    <2>4. \A b \in blocks' : Dests(b, blk') \subseteq blocks' \ unseen'
      BY <2>1, <2>2, DestsAreLabels
    <2> QED
      BY <2>3, <2>4 DEF Dests
  <1>4. ASSUME StartPass
        PROVE  KeptInv'
    <2>1. /\ Entry \in blocks /\ unseen = {} /\ blk' = blk /\ blocks' = blocks
          /\ unseen' = blocks \ Seen(blocks, blk)
          /\ \A b \in blocks : Dests(b, blk) \subseteq blocks \cup {b}
      BY <1>4 DEF StartPass
    <2>2. Entry \in Seen(blocks, blk)
      BY DEF Seen
    <2>3. \A b \in blocks : Dests(b, blk) \subseteq (blocks \ unseen') \cup {b}
      BY <2>1, SeenCoversTargets
    <2>4. \A b \in blocks : Dests(b, blk)' = Dests(b, blk)
      BY <2>1 DEF Dests
    <2> QED
      BY <2>1, <2>2, <2>3, <2>4
  <1>5. ASSUME FinishPrune
        PROVE  KeptInv'
    BY <1>5 DEF FinishPrune, prune, Dests
  <1>6. ASSUME NEW b \in unseen, RemoveBlock(b)
        PROVE  KeptInv'
    <2>1. /\ blk' = Unlink(b, blk) /\ blocks' = blocks \ {b} /\ unseen' = unseen \ {b}
          /\ phase = "prune"
      BY <1>6 DEF RemoveBlock
    <2>2. \A c \in blocks : blk'[c].instrs = blk[c].instrs
      <3>1. /\ Count \in Nat /\ blk \in [0..(Count - 1) -> BlockOf(Count)]
            /\ blocks \subseteq 0..(Count - 1)
        BY DEF BuildInv
      <3>2. \A c \in 0..(Count - 1) : Unlink(b, blk)[c].instrs = blk[c].instrs
        BY <3>1, UnlinkTypes
      <3> QED
        BY <2>1, <3>1, <3>2
    <2>3. \A c \in blocks : Dests(c, blk)' = Dests(c, blk)
      BY <2>2 DEF Dests
    <2>4. blocks' \ unseen' = blocks \ unseen
      BY <2>1
    <2> QED
      BY <2>1, <2>3, <2>4
  <1> QED
    BY <1>1, <1>2, <1>3, <1>4, <1>5, <1>6 DEF Next

LEMMA KeptAlways == Spec => []KeptInv
  <1>1. Init => KeptInv
    BY DEF Init, KeptInv
  <1> QED
    BY <1>1, InvTyped, KeptStep, PTL DEF Spec

(* RemoveBlock never leaves a kept block with a branch to one it deleted,  *)
(* although a round deletes block by block from lists made before it.      *)
TargetsKept ==
    phase \in {"prune", "done"} =>
        Entry \in blocks /\ \A b \in blocks : Dests(b, blk) \subseteq blocks

(* In every function, after every removal in every order, all branches of  *)
(* the blocks left in LLVMFuncDef.Blocks go to blocks left in it.          *)
THEOREM TargetsAlwaysKept == Spec => []TargetsKept
  <1>1. KeptInv => TargetsKept
    BY DEF KeptInv, TargetsKept
  <1> QED
    BY <1>1, KeptAlways, PTL

-----------------------------------------------------------------------------
(***************************************************************************)
(* The finished function: what ReturnCheck accepts leaves its blocks by a  *)
(* return; the dead-code pass keeps every block that can run; and          *)
(* Block.InOrderBlocks prints all of those, in a plain build every block.  *)
(*                                                                         *)
(* The first argument is about a set of blocks that holds the entry and    *)
(* what its blocks branch to.  Statement by statement such a set can be    *)
(* chosen so that only the current block and the blocks waiting for the    *)
(* end of an open statement may be run off.  The last is about the blocks  *)
(* that edges lead to from the entry, upwards from label to label.         *)
(***************************************************************************)

(* Where control leaves a list of instructions.                            *)

Leaves(s) == ToSet(LET instrs == Truncate(s)
                   IN  IF instrs = <<>> THEN <<>> ELSE Last(instrs).dests)

(* Only terminators name blocks.                                           *)
Plain(s) == \A i \in DOMAIN s : ~IsTerminator(s[i]) => s[i].dests = <<>>

LEMMA OneFirstTerminator ==
    ASSUME NEW S, NEW s \in Seq(S), NEW i \in FirstTerminator(s), NEW j \in FirstTerminator(s)
    PROVE  i = j
  <1>1. i \in 1..Len(s) /\ j \in 1..Len(s) /\ Len(s) \in Nat
    BY LenProperties DEF FirstTerminator
  <1>2. ~(i < j)
    BY <1>1 DEF FirstTerminator
  <1>3. ~(j < i)
    BY <1>1 DEF FirstTerminator
  <1> QED
    BY <1>1, <1>2, <1>3

LEMMA NoneTerminates ==
    ASSUME NEW S, NEW s \in Seq(S), FirstTerminator(s) = {}
    PROVE  \A i \in DOMAIN s : ~IsTerminator(s[i])
  <1> DEFINE T == {i \in DOMAIN s : IsTerminator(s[i])}
  <1>1. DOMAIN s = 1..Len(s) /\ Len(s) \in Nat
    BY LenProperties
  <1>2. CASE T # {}
    <2>1. T \subseteq Nat
      BY <1>1
    <2>2. PICK m \in T : \A i \in T : m <= i
      BY <1>2, <2>1, LeastNat
    <2>3. \A j \in 1..(m - 1) : j \notin T /\ j \in DOMAIN s
      BY <1>1, <2>2
    <2>4. m \in FirstTerminator(s)
      BY <2>2, <2>3 DEF FirstTerminator
    <2> QED
      BY <2>4
  <1> QED
    BY <1>2

LEMMA SomeTerminates ==
    ASSUME NEW S, NEW s \in Seq(S), NEW i \in DOMAIN s, IsTerminator(s[i])
    PROVE  FirstTerminator(s) # {}
  BY NoneTerminates

(* Truncated code ends in its first terminator.                            *)
LEMMA TruncateEnds ==
    ASSUME NEW S, NEW s \in Seq(S), NEW i \in FirstTerminator(s)
    PROVE  /\ i \in 1..Len(s)
           /\ Truncate(s) = SubSeq(s, 1, i)
           /\ Truncate(s) \in Seq(S)
           /\ Len(Truncate(s)) = i
           /\ \A j \in 1..i : Truncate(s)[j] = s[j]
  <1>1. i \in 1..Len(s) /\ Len(s) \in Nat
    BY LenProperties DEF FirstTerminator
  <1>2. (CHOOSE j \in FirstTerminator(s) : TRUE) = i
    BY OneFirstTerminator
  <1>3. Truncate(s) = SubSeq(s, 1, i)
    BY <1>2 DEF Truncate
  <1>4. \A j \in 1..i : s[j] \in S
    BY <1>1, ElementOfSeq
  <1>5. 1 \in Int /\ i \in Int /\ 1 <= i /\ i - 1 + 1 = i /\ \A j \in 1..i : 1 + j - 1 = j
    BY <1>1
  <1>6. /\ SubSeq(s, 1, i) \in Seq(S)
        /\ Len(SubSeq(s, 1, i)) = i
        /\ \A j \in 1..i : SubSeq(s, 1, i)[j] = s[j]
    BY <1>4, <1>5, SubSeqProperties
  <1> QED
    BY <1>1, <1>3, <1>6

LEMMA LeavesByTerminator ==
    ASSUME NEW S, NEW s \in Seq(S), NEW i \in FirstTerminator(s)
    PROVE  Leaves(s) = ToSet(s[i].dests)
  <1>1. /\ i \in 1..Len(s) /\ Len(Truncate(s)) = i
        /\ Truncate(s) \in Seq(S)
        /\ \A j \in 1..i : Truncate(s)[j] = s[j]
    BY TruncateEnds
  <1>4. i \in 1..i
    BY <1>1, LenProperties
  <1>5. Truncate(s)[i] = s[i]
    BY <1>1, <1>4
  <1>2. Truncate(s) # <<>>
    BY <1>1, <1>4, EmptySeq
  <1>3. Last(Truncate(s)) = s[i]
    BY <1>1, <1>5 DEF Last
  <1> QED
    BY <1>2, <1>3 DEF Leaves

LEMMA OpenLeavesNowhere ==
    ASSUME NEW S, NEW s \in Seq(S), Plain(s), FirstTerminator(s) = {}
    PROVE  Leaves(s) = {}
  <1>1. Truncate(s) = s
    BY DEF Truncate
  <1>2. ToSet(<<>>) = {}
    BY DEF ToSet
  <1>3. CASE s = <<>>
    BY <1>1, <1>2, <1>3 DEF Leaves
  <1>4. CASE s # <<>>
    <2>1. Len(s) \in DOMAIN s
      BY <1>4, EmptySeq, LenProperties
    <2>2. s[Len(s)].dests = <<>>
      BY <2>1, NoneTerminates DEF Plain
    <2> QED
      BY <1>1, <1>2, <1>4, <2>2 DEF Leaves, Last
  <1> QED
    BY <1>3, <1>4

-----------------------------------------------------------------------------
(* Code behind code.                                                       *)

LEMMA Behind ==
    ASSUME NEW S, NEW s \in Seq(S), NEW c \in Seq(S)
    PROVE  /\ s \o c \in Seq(S)
           /\ DOMAIN (s \o c) = 1..(Len(s) + Len(c))
           /\ Len(s) \in Nat /\ Len(c) \in Nat
           /\ \A i \in 1..Len(s) : i \in DOMAIN (s \o c) /\ (s \o c)[i] = s[i]
           /\ \A k \in 1..Len(c) : Len(s) + k \in DOMAIN (s \o c) /\ (s \o c)[Len(s) + k] = c[k]
  <1>1. /\ s \o c \in Seq(S) /\ Len(s \o c) = Len(s) + Len(c)
        /\ \A i \in 1 .. Len(s) + Len(c) :
              (s \o c)[i] = IF i <= Len(s) THEN s[i] ELSE c[i - Len(s)]
    BY ConcatProperties
  <1>2. Len(s) \in Nat /\ Len(c) \in Nat
    BY LenProperties
  <1>3. DOMAIN (s \o c) = 1..(Len(s) + Len(c))
    BY <1>1, LenProperties
  <1>4. ASSUME NEW i \in 1..Len(s) PROVE i \in DOMAIN (s \o c) /\ (s \o c)[i] = s[i]
    <2>1. i \in 1 .. Len(s) + Len(c) /\ i <= Len(s)
      BY <1>2
    <2> QED
      BY <1>1, <1>3, <2>1
  <1>5. ASSUME NEW k \in 1..Len(c) PROVE Len(s) + k \in DOMAIN (s \o c) /\ (s \o c)[Len(s) + k] = c[k]
    <2>1. Len(s) + k \in 1 .. Len(s) + Len(c) /\ ~(Len(s) + k <= Len(s)) /\ (Len(s) + k) - Len(s) = k
      BY <1>2
    <2> QED
      BY <1>1, <1>3, <2>1
  <1> QED
    BY <1>1, <1>2, <1>3, <1>4, <1>5

LEMMA ToSetBehind ==
    ASSUME NEW S, NEW s \in Seq(S), NEW c \in Seq(S)
    PROVE  \A d : d \in ToSet(s \o c) <=> d \in ToSet(s) \/ d \in ToSet(c)
  <1>1. DOMAIN s = 1..Len(s) /\ DOMAIN c = 1..Len(c) /\ Len(s) \in Nat /\ Len(c) \in Nat
    BY LenProperties
  <1>2. ASSUME NEW d, d \in ToSet(s \o c) PROVE d \in ToSet(s) \/ d \in ToSet(c)
    <2>1. PICK i \in DOMAIN (s \o c) : d = (s \o c)[i]
      BY <1>2 DEF ToSet
    <2>2. CASE i \in 1..Len(s)
      BY <1>1, <2>1, <2>2, Behind DEF ToSet
    <2>3. CASE i \notin 1..Len(s)
      <3>1. i \in 1..(Len(s) + Len(c))
        BY <2>1, Behind
      <3>2. i - Len(s) \in 1..Len(c) /\ Len(s) + (i - Len(s)) = i
        BY <1>1, <2>3, <3>1
      <3>3. d = c[i - Len(s)]
        BY <2>1, <3>2, Behind
      <3> QED
        BY <1>1, <3>2, <3>3 DEF ToSet
    <2> QED
      BY <2>2, <2>3
  <1>3. ASSUME NEW d, d \in ToSet(s) \/ d \in ToSet(c) PROVE d \in ToSet(s \o c)
    <2>1. CASE d \in ToSet(s)
      <3>1. PICK i \in 1..Len(s) : d = s[i]
        BY <1>1, <2>1 DEF ToSet
      <3>2. i \in DOMAIN (s \o c) /\ (s \o c)[i] = d
        BY <1>1, <3>1, Behind
      <3> QED
        BY <3>2 DEF ToSet
    <2>2. CASE d \in ToSet(c)
      <3>1. PICK k \in 1..Len(c) : d = c[k]
        BY <1>1, <2>2 DEF ToSet
      <3>2. Len(s) + k \in DOMAIN (s \o c) /\ (s \o c)[Len(s) + k] = d
        BY <1>1, <3>1, Behind
      <3> QED
        BY <3>2 DEF ToSet
    <2> QED
      BY <1>3, <2>1, <2>2
  <1> QED
    BY <1>2, <1>3

LEMMA PlainBehind ==
    ASSUME NEW S, NEW s \in Seq(S), NEW c \in Seq(S), Plain(s), Plain(c)
    PROVE  Plain(s \o c)
  <1> SUFFICES ASSUME NEW i \in DOMAIN (s \o c), ~IsTerminator((s \o c)[i])
               PROVE  (s \o c)[i].dests = <<>>
    BY DEF Plain
  <1>1. i \in 1..(Len(s) + Len(c)) /\ Len(s) \in Nat /\ Len(c) \in Nat
    BY Behind
  <1>2. CASE i \in 1..Len(s)
    <2>1. (s \o c)[i] = s[i] /\ i \in DOMAIN s
      BY <1>2, Behind, LenProperties
    <2> QED
      BY <2>1 DEF Plain
  <1>3. CASE i \notin 1..Len(s)
    <2>1. i - Len(s) \in 1..Len(c) /\ Len(s) + (i - Len(s)) = i
      BY <1>1, <1>3
    <2>2. (s \o c)[i] = c[i - Len(s)] /\ i - Len(s) \in DOMAIN c
      BY <2>1, Behind, LenProperties
    <2> QED
      BY <2>2 DEF Plain
  <1> QED
    BY <1>2, <1>3

(* Behind a terminator nothing matters any more.                           *)
LEMMA DeadBehind ==
    ASSUME NEW S, NEW s \in Seq(S), NEW c \in Seq(S), FirstTerminator(s) # {}
    PROVE  FirstTerminator(s \o c) # {} /\ Leaves(s \o c) = Leaves(s)
  <1>1. PICK i \in FirstTerminator(s) : TRUE
    OBVIOUS
  <1>2. i \in 1..Len(s) /\ Len(s) \in Nat
    BY LenProperties DEF FirstTerminator
  <1>3. \A j \in 1..i : j \in DOMAIN (s \o c) /\ (s \o c)[j] = s[j]
    BY <1>2, Behind
  <1>4. i \in FirstTerminator(s \o c)
    BY <1>2, <1>3 DEF FirstTerminator
  <1>5. s \o c \in Seq(S) /\ (s \o c)[i] = s[i]
    BY <1>2, <1>3, Behind
  <1>6. Leaves(s \o c) = ToSet(s[i].dests) /\ Leaves(s) = ToSet(s[i].dests)
    BY <1>4, <1>5, LeavesByTerminator
  <1> QED
    BY <1>4, <1>6

(* A terminator behind code that runs on is the one that counts.           *)
LEMMA TerminatorBehind ==
    ASSUME NEW S, NEW s \in Seq(S), NEW c \in Seq(S), FirstTerminator(s) = {},
           NEW k \in FirstTerminator(c)
    PROVE  FirstTerminator(s \o c) # {} /\ Leaves(s \o c) = ToSet(c[k].dests)
  <1>1. k \in 1..Len(c) /\ Len(s) \in Nat /\ Len(c) \in Nat
    BY LenProperties DEF FirstTerminator
  <1>2. Len(s) + k \in DOMAIN (s \o c) /\ (s \o c)[Len(s) + k] = c[k]
    BY <1>1, Behind
  <1>3. ASSUME NEW j \in 1..((Len(s) + k) - 1) PROVE ~IsTerminator((s \o c)[j])
    <2>1. CASE j \in 1..Len(s)
      <3>1. (s \o c)[j] = s[j] /\ j \in DOMAIN s
        BY <2>1, Behind, LenProperties
      <3> QED
        BY <3>1, NoneTerminates
    <2>2. CASE j \notin 1..Len(s)
      <3>1. j - Len(s) \in 1..Len(c) /\ j - Len(s) \in 1..(k - 1) /\ Len(s) + (j - Len(s)) = j
        BY <1>1, <2>2
      <3>2. (s \o c)[j] = c[j - Len(s)]
        BY <3>1, Behind
      <3> QED
        BY <3>1, <3>2 DEF FirstTerminator
    <2> QED
      BY <2>1, <2>2
  <1>4. Len(s) + k \in FirstTerminator(s \o c)
    BY <1>2, <1>3 DEF FirstTerminator
  <1>5. s \o c \in Seq(S)
    BY Behind
  <1>6. Leaves(s \o c) = ToSet(c[k].dests)
    BY <1>2, <1>4, <1>5, LeavesByTerminator
  <1> QED
    BY <1>4, <1>6

LEMMA OpenBehind ==
    ASSUME NEW S, NEW s \in Seq(S), NEW c \in Seq(S), FirstTerminator(s) = {},
           FirstTerminator(c) = {}
    PROVE  FirstTerminator(s \o c) = {}
  <1> SUFFICES ASSUME NEW i \in FirstTerminator(s \o c) PROVE FALSE
    OBVIOUS
  <1>1. i \in 1..(Len(s) + Len(c)) /\ Len(s) \in Nat /\ Len(c) \in Nat /\ IsTerminator((s \o c)[i])
    BY Behind DEF FirstTerminator
  <1>2. CASE i \in 1..Len(s)
    <2>1. (s \o c)[i] = s[i] /\ i \in DOMAIN s
      BY <1>2, Behind, LenProperties
    <2> QED
      BY <1>1, <2>1, NoneTerminates
  <1>3. CASE i \notin 1..Len(s)
    <2>1. i - Len(s) \in 1..Len(c) /\ Len(s) + (i - Len(s)) = i
      BY <1>1, <1>3
    <2>2. (s \o c)[i] = c[i - Len(s)] /\ i - Len(s) \in DOMAIN c
      BY <2>1, Behind, LenProperties
    <2> QED
      BY <1>1, <2>2, NoneTerminates
  <1> QED
    BY <1>2, <1>3

(* What -O1 cuts off a block never ran.                                    *)
LEMMA TruncateHarmless ==
    ASSUME NEW S, NEW s \in Seq(S)
    PROVE  /\ FirstTerminator(s) # {} => FirstTerminator(Truncate(s)) # {}
           /\ Leaves(Truncate(s)) = Leaves(s)
           /\ Plain(s) => Plain(Truncate(s))
  <1>1. CASE FirstTerminator(s) = {}
    <2>1. Truncate(s) = s
      BY <1>1 DEF Truncate
    <2> QED
      BY <1>1, <2>1
  <1>2. CASE FirstTerminator(s) # {}
    <2>1. PICK i \in FirstTerminator(s) : TRUE
      BY <1>2
    <2> DEFINE t == Truncate(s)
    <2>2. /\ i \in 1..Len(s) /\ t \in Seq(S) /\ Len(t) = i
          /\ \A j \in 1..i : t[j] = s[j]
      BY TruncateEnds
    <2> HIDE DEF t
    <2>3. DOMAIN t = 1..i /\ DOMAIN s = 1..Len(s) /\ Len(s) \in Nat /\ i \in Nat /\ i \in 1..i
      BY <2>2, LenProperties
    <2>4. \A j \in 1..i : j \in DOMAIN s
      BY <2>3, <2>2
    <2>5. i \in FirstTerminator(t)
      <3>1. IsTerminator(t[i]) /\ \A j \in 1..(i - 1) : ~IsTerminator(s[j])
        BY <2>2, <2>3 DEF FirstTerminator
      <3>2. \A j \in 1..(i - 1) : j \in 1..i
        BY <2>3
      <3> QED
        BY <2>2, <2>3, <3>1, <3>2 DEF FirstTerminator
    <2>6. Leaves(t) = ToSet(t[i].dests) /\ Leaves(s) = ToSet(s[i].dests)
      BY <2>2, <2>5, LeavesByTerminator
    <2>7. Plain(s) => Plain(t)
      BY <2>2, <2>3, <2>4 DEF Plain
    <2> QED
      BY <2>2, <2>3, <2>5, <2>6, <2>7 DEF t
  <1> QED
    BY <1>1, <1>2

-----------------------------------------------------------------------------
(* The state as the argument sees it.                                      *)

Term(bs, b) == FirstTerminator(bs[b].instrs) # {}
Out(bs, b) == Leaves(bs[b].instrs)

CodeInv == \A b \in DOMAIN blk : Plain(blk[b].instrs)

Exit(i) == open[i].exit
Other(i) == open[i].other
Then(i) == open[i].kind = "then"

(* Made, but not yet translated into.                                      *)
Waits(b) == \E i \in DOMAIN open : b = Exit(i) \/ (Then(i) /\ b = Other(i))

(* Every waiting block waits for one thing, and is empty until then.       *)
Fresh(i) ==
    /\ blk[Exit(i)].instrs = <<>> /\ Exit(i) # cur /\ Exit(i) # Entry
    /\ Then(i) => blk[Other(i)].instrs = <<>> /\ Other(i) # Entry
    /\ open[i].kind # "else" => Other(i) # cur
Apart(i, j) ==
    /\ i # j => Exit(i) # Exit(j)
    /\ Other(i) # Exit(j)
    /\ i # j /\ Then(i) => Other(i) # Other(j)
FreshInv ==
    phase = "build" =>
        /\ \A i \in DOMAIN open : Fresh(i)
        /\ \A i \in DOMAIN open : \A j \in DOMAIN open : Apart(i, j)

(* S has every block control can reach.                                    *)
Reaches(S) ==
    /\ S \subseteq DOMAIN blk
    /\ Entry \in S
    /\ \A b \in S : Out(blk, b) \subseteq S /\ b \notin Out(blk, b)

(* While a function is built, the blocks of S that can be run off are the  *)
(* current one and the waiting ones; after a return, not even the current  *)
(* one.                                                                    *)
RunsOff(S) ==
    /\ \A b \in S : Term(blk, b) \/ b = cur \/ Waits(b)
    /\ returns => cur \notin S \/ Term(blk, cur)

(* Behind an open statement that follows a return nothing runs, and behind *)
(* a conditional only what one of its bodies runs into; a statement inside *)
(* one behind which nothing runs has nothing behind it either.             *)
Around(S, i) ==
    /\ open[i].outer => Exit(i) \notin S
    /\ Then(i) \/ (open[i].kind = "else" /\ open[i].then) =>
          \A b \in S : Exit(i) \notin Out(blk, b)
    /\ Exit(i) \in S <=> Other(i) \in S
    /\ Exit(i) \notin S => cur \notin S
    /\ \A j \in DOMAIN open : j >= i /\ Exit(i) \notin S => Exit(j) \notin S

Covers(S) ==
    /\ Reaches(S)
    /\ RunsOff(S)
    /\ \A i \in DOMAIN open : Around(S, i)

LeaveInv ==
    ~trusted =>
        /\ phase = "build" => \E S \in SUBSET (DOMAIN blk) : Covers(S)
        /\ phase \in {"prune", "done"} =>
              \E S \in SUBSET (DOMAIN blk) : Reaches(S) /\ \A b \in S : Term(blk, b)

-----------------------------------------------------------------------------
(* The code of one statement.                                              *)

RunsOn(c) == Plain(c) /\ FirstTerminator(c) = {}
Jumps(c, D) == Plain(c) /\ \E k \in FirstTerminator(c) : ToSet(c[k].dests) = D

LEMMA CodeRunsOn ==
    ASSUME NEW at
    PROVE  RunsOn(<<Code(at)>>)
  <1> DEFINE c == <<Code(at)>>
  <1>1. DOMAIN c = {1} /\ c[1] = Code(at)
    OBVIOUS
  <1>2. ~IsTerminator(Code(at)) /\ Code(at).dests = <<>>
    BY DEF IsTerminator, Code
  <1> HIDE DEF c
  <1>3. Plain(c) /\ FirstTerminator(c) = {}
    BY <1>1, <1>2 DEF Plain, FirstTerminator
  <1> QED
    BY <1>3 DEF RunsOn, c

LEMMA RetJumps ==
    ASSUME NEW at
    PROVE  Jumps(<<Ret(at)>>, {})
  <1> DEFINE c == <<Ret(at)>>
  <1>1. DOMAIN c = {1} /\ c[1] = Ret(at) /\ 1..(1 - 1) = {}
    OBVIOUS
  <1>2. IsTerminator(Ret(at)) /\ ToSet(Ret(at).dests) = {}
    BY DEF IsTerminator, Ret, ToSet
  <1> HIDE DEF c
  <1>3. Plain(c) /\ 1 \in FirstTerminator(c)
    BY <1>1, <1>2 DEF Plain, FirstTerminator
  <1> QED
    BY <1>1, <1>2, <1>3 DEF Jumps, c

LEMMA BrJumps ==
    ASSUME NEW d
    PROVE  Jumps(<<Br(d)>>, {d})
  <1> DEFINE c == <<Br(d)>>
  <1>1. DOMAIN c = {1} /\ c[1] = Br(d) /\ 1..(1 - 1) = {}
    OBVIOUS
  <1>2. IsTerminator(Br(d)) /\ ToSet(Br(d).dests) = {d}
    BY DEF IsTerminator, Br, ToSet
  <1> HIDE DEF c
  <1>3. Plain(c) /\ 1 \in FirstTerminator(c)
    BY <1>1, <1>2 DEF Plain, FirstTerminator
  <1> QED
    BY <1>1, <1>2, <1>3 DEF Jumps, c

LEMMA BrCondJumps ==
    ASSUME NEW at, NEW d, NEW e
    PROVE  Jumps(<<Code(at), BrCond(at, d, e)>>, {d, e})
  <1> DEFINE c == <<Code(at), BrCond(at, d, e)>>
  <1>1. DOMAIN c = {1, 2} /\ c[1] = Code(at) /\ c[2] = BrCond(at, d, e) /\ 1..(2 - 1) = {1}
    OBVIOUS
  <1>2. /\ ~IsTerminator(Code(at)) /\ Code(at).dests = <<>>
        /\ IsTerminator(BrCond(at, d, e)) /\ ToSet(BrCond(at, d, e).dests) = {d, e}
    BY DEF IsTerminator, Code, BrCond, ToSet
  <1> HIDE DEF c
  <1>3. Plain(c) /\ 2 \in FirstTerminator(c)
    BY <1>1, <1>2 DEF Plain, FirstTerminator
  <1> QED
    BY <1>1, <1>2, <1>3 DEF Jumps, c

(* bs is blk with code added to the current block that runs on, or that    *)
(* leaves it for the blocks of D.                                          *)
SameFlow(bs) ==
    \A b \in DOMAIN blk : /\ Plain(bs[b].instrs)
                          /\ Term(bs, b) <=> Term(blk, b)
                          /\ Out(bs, b) = Out(blk, b)
                          /\ b # cur => bs[b].instrs = blk[b].instrs
NewFlow(bs, D) ==
    \A b \in DOMAIN blk : /\ Plain(bs[b].instrs)
                          /\ Term(bs, b) <=> (b = cur \/ Term(blk, b))
                          /\ Out(bs, b) = IF b = cur /\ ~Term(blk, b) THEN D ELSE Out(blk, b)
                          /\ b # cur => bs[b].instrs = blk[b].instrs

Edge(bs, a, c) == c \in ToSet(bs[a].succs)
SameEdges(bs) == \A a \in DOMAIN blk : bs[a].succs = blk[a].succs

(* What the types say of labels.                                           *)
LEMMA LabelFacts ==
    ASSUME BuildInv
    PROVE  /\ Count \in Nat \ {0} /\ DOMAIN blk = 0..(Count - 1) /\ Entry \in DOMAIN blk
           /\ cur \in DOMAIN blk
           /\ \A b \in DOMAIN blk : blk[b].instrs \in Seq(InstrOf(Count))
           /\ open \in Seq(FrameOf(Count)) /\ Len(open) \in Nat /\ DOMAIN open = 1..Len(open)
           /\ \A i \in DOMAIN open :
                 /\ Exit(i) \in DOMAIN blk /\ Other(i) \in DOMAIN blk
                 /\ open[i].kind \in {"then", "else", "loop"}
                 /\ open[i].outer \in BOOLEAN /\ open[i].then \in BOOLEAN
           /\ returns \in BOOLEAN /\ trusted \in BOOLEAN
  <1>1. /\ Count \in Nat \ {0} /\ blk \in [0..(Count - 1) -> BlockOf(Count)]
        /\ cur \in 0..(Count - 1) /\ open \in Seq(FrameOf(Count))
        /\ returns \in BOOLEAN /\ trusted \in BOOLEAN
    BY DEF BuildInv
  <1>2. \A n \in Nat \ {0} : 0 \in 0..(n - 1)
    OBVIOUS
  <1>3. DOMAIN blk = 0..(Count - 1) /\ Entry \in DOMAIN blk
    BY <1>1, <1>2 DEF Entry
  <1> DEFINE n == Count
  <1>4. blk \in [0..(n - 1) -> BlockOf(n)] /\ open \in Seq(FrameOf(n))
    BY <1>1
  <1> HIDE DEF n
  <1>5. \A b \in DOMAIN blk : blk[b].instrs \in Seq(InstrOf(n))
    BY <1>4 DEF BlockOf
  <1>6. Len(open) \in Nat /\ DOMAIN open = 1..Len(open) /\ \A i \in DOMAIN open : open[i] \in FrameOf(n)
    BY <1>4, LenProperties
  <1>7. \A i \in DOMAIN open :
            /\ Exit(i) \in 0..(n - 1) /\ Other(i) \in 0..(n - 1)
            /\ open[i].kind \in {"then", "else", "loop"}
            /\ open[i].outer \in BOOLEAN /\ open[i].then \in BOOLEAN
    BY <1>6 DEF FrameOf, Exit, Other
  <1> QED
    BY <1>1, <1>3, <1>5, <1>6, <1>7 DEF n

LEMMA SeqFlow ==
    ASSUME NEW S, NEW s \in Seq(S), NEW c \in Seq(S), Plain(s)
    PROVE  /\ RunsOn(c) =>
                 /\ Plain(s \o c) /\ Leaves(s \o c) = Leaves(s)
                 /\ FirstTerminator(s \o c) # {} <=> FirstTerminator(s) # {}
           /\ \A D : Jumps(c, D) =>
                 /\ Plain(s \o c) /\ FirstTerminator(s \o c) # {}
                 /\ Leaves(s \o c) = IF FirstTerminator(s) = {} THEN D ELSE Leaves(s)
  <1>0. s \o c \in Seq(S)
    BY Behind
  <1>1. ASSUME RunsOn(c)
        PROVE  /\ Plain(s \o c) /\ Leaves(s \o c) = Leaves(s)
               /\ FirstTerminator(s \o c) # {} <=> FirstTerminator(s) # {}
    <2>1. Plain(c) /\ FirstTerminator(c) = {}
      BY <1>1 DEF RunsOn
    <2>2. Plain(s \o c)
      BY <2>1, PlainBehind
    <2>3. CASE FirstTerminator(s) # {}
      BY <2>2, <2>3, DeadBehind
    <2>4. CASE FirstTerminator(s) = {}
      <3>1. FirstTerminator(s \o c) = {}
        BY <2>1, <2>4, OpenBehind
      <3>2. Leaves(s \o c) = {} /\ Leaves(s) = {}
        BY <1>0, <2>2, <2>4, <3>1, OpenLeavesNowhere
      <3> QED
        BY <2>2, <2>4, <3>1, <3>2
    <2> QED
      BY <2>3, <2>4
  <1>2. ASSUME NEW D, Jumps(c, D)
        PROVE  /\ Plain(s \o c) /\ FirstTerminator(s \o c) # {}
               /\ Leaves(s \o c) = IF FirstTerminator(s) = {} THEN D ELSE Leaves(s)
    <2>1. PICK k \in FirstTerminator(c) : Plain(c) /\ ToSet(c[k].dests) = D
      BY <1>2 DEF Jumps
    <2>2. Plain(s \o c)
      BY <2>1, PlainBehind
    <2>3. CASE FirstTerminator(s) # {}
      BY <2>2, <2>3, DeadBehind
    <2>4. CASE FirstTerminator(s) = {}
      BY <2>1, <2>2, <2>4, TerminatorBehind
    <2> QED
      BY <2>3, <2>4
  <1> QED
    BY <1>1, <1>2

LEMMA Flows ==
    ASSUME BuildInv, CodeInv, NEW n \in Nat, Count <= n, NEW c \in Seq(InstrOf(n)), NEW next,
           NEW bs, bs \in {Add(cur, c), EndInto(cur, c, next)}
    PROVE  /\ DOMAIN bs = DOMAIN blk
           /\ RunsOn(c) => SameFlow(bs)
           /\ \A D : Jumps(c, D) => NewFlow(bs, D)
  <1>1. /\ Count \in Nat /\ cur \in DOMAIN blk /\ \A b \in DOMAIN blk : blk[b].instrs \in Seq(InstrOf(Count))
        /\ blk \in [DOMAIN blk -> BlockOf(Count)] /\ \A b \in DOMAIN blk : Plain(blk[b].instrs)
    BY LabelFacts DEF BuildInv, CodeInv
  <1>2. \A b \in DOMAIN blk : blk[b].instrs \in Seq(InstrOf(n))
    BY <1>1, InstrGrows, SeqMonotonic
  <1> DEFINE s == blk[cur].instrs
  <1>3. /\ DOMAIN bs = DOMAIN blk
        /\ \A b \in DOMAIN blk : bs[b].instrs = IF b = cur THEN s \o c ELSE blk[b].instrs
    <2>1. CASE bs = Add(cur, c)
      BY <2>1, <1>1 DEF Add, BlockOf
    <2>2. CASE bs = EndInto(cur, c, next)
      BY <2>2, <1>1 DEF EndInto, BlockOf
    <2> QED
      BY <2>1, <2>2
  <1>4. s \in Seq(InstrOf(n)) /\ Plain(s)
    BY <1>1, <1>2
  <1> HIDE DEF s
  <1>5. /\ RunsOn(c) =>
                 /\ Plain(s \o c) /\ Leaves(s \o c) = Leaves(s)
                 /\ FirstTerminator(s \o c) # {} <=> FirstTerminator(s) # {}
        /\ \A D : Jumps(c, D) =>
                 /\ Plain(s \o c) /\ FirstTerminator(s \o c) # {}
                 /\ Leaves(s \o c) = IF FirstTerminator(s) = {} THEN D ELSE Leaves(s)
    BY <1>4, SeqFlow
  <1>6. RunsOn(c) => SameFlow(bs)
    BY <1>1, <1>3, <1>5 DEF SameFlow, Term, Out, s
  <1>7. ASSUME NEW D, Jumps(c, D) PROVE NewFlow(bs, D)
    BY <1>1, <1>3, <1>5, <1>7 DEF NewFlow, Term, Out, s
  <1> QED
    BY <1>3, <1>6, <1>7

LEMMA AddFlows ==
    ASSUME BuildInv, CodeInv, NEW c \in Seq(InstrOf(Count))
    PROVE  /\ DOMAIN Add(cur, c) = DOMAIN blk
           /\ SameEdges(Add(cur, c))
           /\ RunsOn(c) => SameFlow(Add(cur, c))
           /\ \A D : Jumps(c, D) => NewFlow(Add(cur, c), D)
  <1> DEFINE n == Count
             bs == Add(cur, c)
  <1>1. n \in Nat /\ Count <= n /\ c \in Seq(InstrOf(n)) /\ bs \in {Add(cur, c), EndInto(cur, c, <<>>)}
    BY LabelFacts
  <1> HIDE DEF n, bs
  <1>2. /\ DOMAIN bs = DOMAIN blk
        /\ RunsOn(c) => SameFlow(bs)
        /\ \A D : Jumps(c, D) => NewFlow(bs, D)
    BY <1>1, Flows
  <1>3. \A a \in DOMAIN blk : Add(cur, c)[a].succs = blk[a].succs
    BY DEF BuildInv, BlockOf, Add
  <1> QED
    BY <1>2, <1>3 DEF bs, SameEdges

LEMMA EndEdges ==
    ASSUME BuildInv, NEW c, NEW n \in Nat, NEW next \in Seq(0..(n - 1)), Count <= n
    PROVE  \A a \in DOMAIN blk : \A d :
              Edge(EndInto(cur, c, next), a, d)
                 <=> Edge(blk, a, d) \/ (a = cur /\ d \in ToSet(next))
  <1>1. cur \in DOMAIN blk /\ \A a \in DOMAIN blk : blk[a].succs \in Seq(0..(Count - 1))
    BY LabelFacts DEF BuildInv, BlockOf
  <1> DEFINE bs == EndInto(cur, c, next)
  <1>2. \A a \in DOMAIN blk : bs[a].succs = IF a = cur THEN blk[cur].succs \o next ELSE blk[a].succs
    BY DEF BuildInv, BlockOf, EndInto
  <1>3. blk[cur].succs \in Seq(0..(n - 1))
    <2>1. 0..(Count - 1) \subseteq 0..(n - 1)
      BY LabelFacts
    <2> QED
      BY <1>1, <2>1, SeqMonotonic
  <1>4. \A d : d \in ToSet(blk[cur].succs \o next) <=> d \in ToSet(blk[cur].succs) \/ d \in ToSet(next)
    BY <1>3, ToSetBehind
  <1> HIDE DEF bs
  <1> QED
    BY <1>2, <1>4 DEF Edge, bs

LEMMA EmptyFlow ==
    /\ Plain(<<>>) /\ FirstTerminator(<<>>) = {} /\ Leaves(<<>>) = {}
  <1>1. <<>> \in Seq({})
    BY EmptySeq
  <1>2. DOMAIN <<>> = {}
    OBVIOUS
  <1>3. Plain(<<>>) /\ FirstTerminator(<<>>) = {}
    BY <1>2 DEF Plain, FirstTerminator
  <1> QED
    BY <1>1, <1>3, OpenLeavesNowhere

LEMMA JumpFlow ==
    ASSUME NEW S, NEW c \in Seq(S), NEW D, Jumps(c, D)
    PROVE  Plain(c) /\ FirstTerminator(c) # {} /\ Leaves(c) = D
  BY LeavesByTerminator DEF Jumps

FlowInv == CodeInv /\ FreshInv /\ LeaveInv

(* The innermost open statement, and what a step says of it.               *)
LEMMA Innermost ==
    ASSUME BuildInv, open # <<>>, NEW n, n = Len(open)
    PROVE  /\ n \in DOMAIN open /\ n \in Nat /\ Last(open) = open[n] /\ \A i \in DOMAIN open : i <= n
           /\ DOMAIN Front(open) = 1..(n - 1)
           /\ \A i \in 1..(n - 1) : i \in DOMAIN open /\ i # n /\ Front(open)[i] = open[i]
           /\ \A i \in DOMAIN open : i = n \/ i \in 1..(n - 1)
  <1>1. open \in Seq(FrameOf(Count)) /\ n \in Nat /\ DOMAIN open = 1..n
    BY LabelFacts
  <1>2. n # 0
    BY <1>1, EmptySeq
  <1>3. 1 \in Int /\ n - 1 \in Int /\ \A i \in 1..(n - 1) : i \in 1..n /\ 1 + i - 1 = i
    BY <1>1
  <1>4. \A i \in 1..(n - 1) : open[i] \in FrameOf(Count)
    BY <1>1, <1>3, ElementOfSeq
  <1>5. /\ Front(open) \in Seq(FrameOf(Count))
        /\ Len(Front(open)) = IF 1 <= n - 1 THEN (n - 1) - 1 + 1 ELSE 0
        /\ \A i \in 1..((n - 1) - 1 + 1) : Front(open)[i] = open[1 + i - 1]
    BY <1>3, <1>4, SubSeqProperties DEF Front
  <1>6. Len(Front(open)) = n - 1
    BY <1>1, <1>2, <1>5
  <1>7. DOMAIN Front(open) = 1..(n - 1)
    BY <1>5, <1>6, LenProperties
  <1>8. \A i \in 1..(n - 1) : Front(open)[i] = open[i]
    BY <1>1, <1>3, <1>5
  <1> QED
    BY <1>1, <1>2, <1>3, <1>7, <1>8 DEF Last

LEMMA Opened ==
    ASSUME BuildInv, NEW frame, NEW m, m = Len(open) + 1
    PROVE  /\ DOMAIN Append(open, frame) = DOMAIN open \cup {m} /\ m \notin DOMAIN open
           /\ Append(open, frame)[m] = frame
           /\ \A i \in DOMAIN open : i < m /\ Append(open, frame)[i] = open[i]
  <1> DEFINE X == FrameOf(Count) \cup {frame}
  <1>1. open \in Seq(FrameOf(Count)) /\ Len(open) \in Nat /\ DOMAIN open = 1..Len(open)
    BY LabelFacts
  <1>2. open \in Seq(X) /\ frame \in X
    BY <1>1, SeqMonotonic
  <1> HIDE DEF X
  <1>3. /\ Append(open, frame) \in Seq(X) /\ Len(Append(open, frame)) = m
        /\ \A i \in 1..Len(open) : Append(open, frame)[i] = open[i]
        /\ Append(open, frame)[m] = frame
    BY <1>2, AppendProperties
  <1>4. DOMAIN Append(open, frame) = 1..m
    BY <1>3, LenProperties
  <1> QED
    BY <1>1, <1>3, <1>4

-----------------------------------------------------------------------------
(* No statement breaks the invariant.                                      *)

LEMMA StatementFlow ==
    ASSUME BuildInv, CodeInv, Statement
    PROVE  DOMAIN blk' = DOMAIN blk /\ SameEdges(blk') /\ SameFlow(blk')
  <1>1. blk' = Add(cur, <<Code(At)>>) /\ Len(open) \in Nat /\ Read("stm", Len(open))
    BY LabelFacts DEF Statement
  <1>2. Count \in Nat \ {0} /\ At \in 0..(MaxTokens + 1)
    BY <1>1, BuildFacts
  <1>3. <<Code(At)>> \in Seq(InstrOf(Count))
    <2>1. 0 \in 0..(Count - 1)
      BY <1>2
    <2> QED
      BY <1>2, <2>1, CodeTypes
  <1> QED
    BY <1>1, <1>3, CodeRunsOn, AddFlows

LEMMA StatementLeaves ==
    ASSUME BuildInv, BuildInv', FlowInv, Statement
    PROVE  FlowInv'
  <1>1. /\ phase = "build" /\ phase' = "build" /\ blk' = Add(cur, <<Code(At)>>)
        /\ cur' = cur /\ open' = open /\ returns' = returns /\ trusted' = trusted
    BY DEF Statement, Read, check
  <1>2. DOMAIN blk' = DOMAIN blk /\ SameFlow(blk')
    BY StatementFlow DEF FlowInv
  <1>3. CodeInv'
    BY <1>2 DEF CodeInv, SameFlow
  <1>4. \A i \in DOMAIN open : /\ Exit(i)' = Exit(i) /\ Other(i)' = Other(i) /\ Then(i)' = Then(i)
                               /\ Exit(i) \in DOMAIN blk /\ Other(i) \in DOMAIN blk
    BY <1>1, LabelFacts DEF Exit, Other, Then
  <1>5. FreshInv'
    <2>1. \A i \in DOMAIN open : Fresh(i)'
      <3> TAKE i \in DOMAIN open
      <3>1. Fresh(i)
        BY <1>1 DEF FlowInv, FreshInv
      <3> QED
        BY <1>1, <1>2, <1>4, <3>1 DEF Fresh, SameFlow, Then
    <2>2. \A i \in DOMAIN open : \A j \in DOMAIN open : Apart(i, j)'
      BY <1>1, <1>4 DEF FlowInv, FreshInv, Apart
    <2> QED
      BY <1>1, <2>1, <2>2 DEF FreshInv
  <1>6. LeaveInv'
    <2> SUFFICES ASSUME ~trusted PROVE \E S \in SUBSET (DOMAIN blk') : Covers(S)'
      BY <1>1 DEF LeaveInv
    <2>1. PICK S : Covers(S)
      BY <1>1 DEF FlowInv, LeaveInv
    <2>2. S \subseteq DOMAIN blk
      BY <2>1 DEF Covers, Reaches
    <2>3. \A b \in S : Term(blk, b)' = Term(blk, b) /\ Out(blk, b)' = Out(blk, b)
      BY <1>2, <2>2 DEF SameFlow, Term, Out
    <2>4. Reaches(S)'
      BY <1>2, <2>1, <2>2, <2>3 DEF Covers, Reaches
    <2>5. RunsOff(S)'
      BY <1>1, <1>4, <2>1, <2>2, <2>3 DEF Covers, RunsOff, Waits
    <2>6. \A i \in DOMAIN open : Around(S, i)'
      BY <1>1, <1>4, <2>1, <2>2, <2>3 DEF Covers, Around
    <2> QED
      BY <1>1, <1>2, <2>2, <2>4, <2>5, <2>6 DEF Covers
  <1> QED
    BY <1>3, <1>5, <1>6 DEF FlowInv

LEMMA ReturnFlow ==
    ASSUME BuildInv, CodeInv, Return
    PROVE  DOMAIN blk' = DOMAIN blk /\ SameEdges(blk') /\ NewFlow(blk', {})
  <1>1. blk' = Add(cur, <<Ret(At)>>) /\ Len(open) \in Nat /\ Read("ret", Len(open))
    BY LabelFacts DEF Return
  <1>2. Count \in Nat \ {0} /\ At \in 0..(MaxTokens + 1)
    BY <1>1, BuildFacts
  <1>3. <<Ret(At)>> \in Seq(InstrOf(Count))
    <2>1. 0 \in 0..(Count - 1)
      BY <1>2
    <2> QED
      BY <1>2, <2>1, CodeTypes
  <1> QED
    BY <1>1, <1>3, RetJumps, AddFlows

LEMMA ReturnLeaves ==
    ASSUME BuildInv, BuildInv', FlowInv, Return
    PROVE  FlowInv'
  <1>1. /\ phase = "build" /\ phase' = "build" /\ blk' = Add(cur, <<Ret(At)>>)
        /\ cur' = cur /\ open' = open /\ returns' = TRUE /\ trusted' = trusted
    BY DEF Return, Read
  <1>2. DOMAIN blk' = DOMAIN blk /\ NewFlow(blk', {})
    BY ReturnFlow DEF FlowInv
  <1>3. CodeInv'
    BY <1>2 DEF CodeInv, NewFlow
  <1>4. \A i \in DOMAIN open : /\ Exit(i)' = Exit(i) /\ Other(i)' = Other(i) /\ Then(i)' = Then(i)
                               /\ Exit(i) \in DOMAIN blk /\ Other(i) \in DOMAIN blk
    BY <1>1, LabelFacts DEF Exit, Other, Then
  <1>5. FreshInv'
    <2>1. \A i \in DOMAIN open : Fresh(i)'
      <3> TAKE i \in DOMAIN open
      <3>1. Fresh(i)
        BY <1>1 DEF FlowInv, FreshInv
      <3> QED
        BY <1>1, <1>2, <1>4, <3>1 DEF Fresh, NewFlow, Then
    <2>2. \A i \in DOMAIN open : \A j \in DOMAIN open : Apart(i, j)'
      BY <1>1, <1>4 DEF FlowInv, FreshInv, Apart
    <2> QED
      BY <1>1, <2>1, <2>2 DEF FreshInv
  <1>6. LeaveInv'
    <2> SUFFICES ASSUME ~trusted PROVE \E S \in SUBSET (DOMAIN blk') : Covers(S)'
      BY <1>1 DEF LeaveInv
    <2>1. PICK S : Covers(S)
      BY <1>1 DEF FlowInv, LeaveInv
    <2>2. S \subseteq DOMAIN blk
      BY <2>1 DEF Covers, Reaches
    <2>3. \A b \in S : /\ Term(blk, b)' <=> (b = cur \/ Term(blk, b))
                       /\ Out(blk, b)' = IF b = cur /\ ~Term(blk, b) THEN {} ELSE Out(blk, b)
      BY <1>2, <2>2 DEF NewFlow, Term, Out
    <2>4. Reaches(S)'
      BY <1>2, <2>1, <2>2, <2>3 DEF Covers, Reaches
    <2>5. RunsOff(S)'
      BY <1>1, <1>4, <2>1, <2>2, <2>3 DEF Covers, RunsOff, Waits
    <2>6. \A i \in DOMAIN open : Around(S, i)'
      BY <1>1, <1>4, <2>1, <2>2, <2>3 DEF Covers, Around
    <2> QED
      BY <1>1, <1>2, <2>2, <2>4, <2>5, <2>6 DEF Covers
  <1> QED
    BY <1>3, <1>5, <1>6 DEF FlowInv

LEMMA ElseFlow ==
    ASSUME BuildInv, CodeInv, Else, NEW n, n = Len(open)
    PROVE  DOMAIN blk' = DOMAIN blk /\ SameEdges(blk') /\ NewFlow(blk', {Exit(n)})
  <1>1. n \in DOMAIN open /\ Last(open) = open[n] /\ blk' = Add(cur, <<Br(Last(open).exit)>>)
    BY Innermost DEF Else
  <1>2. Count \in Nat \ {0} /\ Exit(n) \in 0..(Count - 1) /\ 0 \in 0..(MaxTokens + 1)
    BY <1>1, LabelFacts, BoundsAssumption
  <1>3. <<Br(Exit(n))>> \in Seq(InstrOf(Count))
    BY <1>2, CodeTypes
  <1>4. blk' = Add(cur, <<Br(Exit(n))>>)
    BY <1>1 DEF Exit
  <1> QED
    BY <1>3, <1>4, BrJumps, AddFlows

LEMMA ElseLeaves ==
    ASSUME BuildInv, BuildInv', FlowInv, Else
    PROVE  FlowInv'
  <1>0. PICK n : n = Len(open)
    OBVIOUS
  <1>1. /\ open # <<>> /\ Last(open).kind = "then"
        /\ phase = "build" /\ phase' = "build" /\ blk' = Add(cur, <<Br(Last(open).exit)>>)
        /\ cur' = Last(open).other /\ returns' = FALSE /\ trusted' = trusted
        /\ open' = [open EXCEPT ![n].kind = "else", ![n].then = returns]
    BY <1>0 DEF Else, Read
  <1>2. n \in DOMAIN open /\ n \in Nat /\ Last(open) = open[n] /\ \A i \in DOMAIN open : i <= n
    BY <1>0, <1>1, Innermost
  <1>3. \A i \in DOMAIN open : /\ Exit(i) \in DOMAIN blk /\ Other(i) \in DOMAIN blk
    BY LabelFacts
  <1>4. DOMAIN blk' = DOMAIN blk /\ NewFlow(blk', {Exit(n)})
    BY <1>0, <1>1, ElseFlow DEF FlowInv
  <1>5. /\ Then(n) /\ cur' = Other(n)
        /\ DOMAIN open' = DOMAIN open
        /\ \A i \in DOMAIN open : /\ Exit(i)' = Exit(i) /\ Other(i)' = Other(i)
                                  /\ open'[i].outer = open[i].outer
                                  /\ i # n => open'[i] = open[i]
        /\ open'[n].kind = "else" /\ open'[n].then = returns
    <2>1. open[n] \in FrameOf(Count)
      BY <1>2, LabelFacts, ElementOfSeq
    <2>2. /\ DOMAIN open' = DOMAIN open
          /\ \A i \in DOMAIN open :
                open'[i] = IF i = n THEN [[open[n] EXCEPT !.kind = "else"] EXCEPT !.then = returns]
                           ELSE open[i]
      BY <1>1, <1>2
    <2>3. /\ \A i \in DOMAIN open : i # n => open'[i] = open[i]
          /\ open'[n].exit = open[n].exit /\ open'[n].other = open[n].other
          /\ open'[n].outer = open[n].outer
          /\ open'[n].kind = "else" /\ open'[n].then = returns
      BY <1>2, <2>1, <2>2 DEF FrameOf
    <2> QED
      BY <1>1, <1>2, <2>2, <2>3 DEF Exit, Other, Then
  <1>6. CodeInv'
    BY <1>4 DEF CodeInv, NewFlow
  <1>7. /\ \A i \in DOMAIN open : Fresh(i)
        /\ \A i \in DOMAIN open : \A j \in DOMAIN open : Apart(i, j)
    BY <1>1 DEF FlowInv, FreshInv
  <1>8. \A i \in DOMAIN open : i # n => Then(i)' = Then(i)
    BY <1>5 DEF Then
  <1>9. ~Then(n)'
    BY <1>5 DEF Then
  <1>10. FreshInv'
    <2>1. ASSUME NEW i \in DOMAIN open PROVE Fresh(i)'
      <3>1. blk'[Exit(i)].instrs = <<>> /\ Exit(i) # cur' /\ Exit(i) # Entry
        BY <1>2, <1>3, <1>4, <1>5, <1>7 DEF Fresh, Apart, NewFlow
      <3>2. CASE i = n
        BY <1>5, <1>9, <3>1, <3>2 DEF Fresh
      <3>3. CASE i # n
        <4>1. Then(i) => blk'[Other(i)].instrs = <<>> /\ Other(i) # Entry
          BY <1>3, <1>4, <1>7, <3>3 DEF Fresh, NewFlow, Then
        <4>2. Other(i) # cur'
          BY <1>2, <1>5, <1>7, <3>3 DEF Apart
        <4> QED
          BY <1>5, <1>8, <3>1, <3>3, <4>1, <4>2 DEF Fresh
      <3> QED
        BY <3>2, <3>3
    <2>2. \A i \in DOMAIN open : \A j \in DOMAIN open : Apart(i, j)'
      BY <1>5, <1>7, <1>8, <1>9 DEF Apart
    <2> QED
      BY <1>5, <2>1, <2>2 DEF FreshInv
  <1>11. LeaveInv'
    <2> SUFFICES ASSUME ~trusted PROVE \E S \in SUBSET (DOMAIN blk') : Covers(S)'
      BY <1>1 DEF LeaveInv
    <2>1. PICK S : Covers(S)
      BY <1>1 DEF FlowInv, LeaveInv
    <2>2. S \subseteq DOMAIN blk /\ Around(S, n) /\ \A i \in DOMAIN open : Around(S, i)
      BY <1>2, <2>1 DEF Covers, Reaches
    <2>3. \A b \in S : /\ Term(blk, b)' <=> (b = cur \/ Term(blk, b))
                       /\ Out(blk, b)' = IF b = cur /\ ~Term(blk, b) THEN {Exit(n)} ELSE Out(blk, b)
      BY <1>4, <2>2 DEF NewFlow, Term, Out
    <2>4. Reaches(S)'
      <3>1. cur \in S => Exit(n) \in S
        BY <2>2 DEF Around
      <3>2. Exit(n) # cur
        BY <1>2, <1>7 DEF Fresh
      <3>3. Reaches(S)
        BY <2>1 DEF Covers
      <3> QED
        BY <1>4, <2>3, <3>1, <3>2, <3>3 DEF Reaches
    <2>5. RunsOff(S)'
      <3>1. ASSUME NEW b \in S, Waits(b) PROVE Waits(b)' \/ b = cur'
        <4>1. PICK i \in DOMAIN open : b = Exit(i) \/ (Then(i) /\ b = Other(i))
          BY <3>1 DEF Waits
        <4> QED
          BY <1>5, <1>8, <4>1 DEF Waits
      <3>2. \A b \in S : Term(blk, b) \/ b = cur \/ Waits(b)
        BY <2>1 DEF Covers, RunsOff
      <3> QED
        BY <1>1, <2>3, <3>1, <3>2 DEF RunsOff
    <2>6. ASSUME NEW i \in DOMAIN open PROVE Around(S, i)'
      <3>1. open'[i].outer => Exit(i) \notin S
        BY <1>5, <2>2 DEF Around
      <3>2. Then(i)' \/ (open'[i].kind = "else" /\ open'[i].then) => \A b \in S : Exit(i) \notin Out(blk, b)'
        <4>1. CASE i = n
          <5>1. returns => \A b \in S : Out(blk, b)' = Out(blk, b)
            BY <2>1, <2>3 DEF Covers, RunsOff
          <5>2. \A b \in S : Exit(n) \notin Out(blk, b)
            BY <1>5, <2>2 DEF Around
          <5> QED
            BY <1>5, <1>9, <4>1, <5>1, <5>2
        <4>2. CASE i # n
          <5>1. Exit(i) # Exit(n)
            BY <1>2, <1>7, <4>2 DEF Apart
          <5> QED
            BY <1>5, <1>8, <2>2, <2>3, <4>2, <5>1 DEF Around
        <4> QED
          BY <4>1, <4>2
      <3>3. Exit(i) \in S <=> Other(i) \in S
        BY <2>2 DEF Around
      <3>4. Exit(i) \notin S => cur' \notin S
        <4>1. Exit(i) \notin S => Exit(n) \notin S
          BY <1>2, <2>2 DEF Around
        <4> QED
          BY <1>2, <1>5, <2>2, <4>1 DEF Around
      <3>5. \A j \in DOMAIN open : j >= i /\ Exit(i) \notin S => Exit(j) \notin S
        BY <2>2 DEF Around
      <3> QED
        BY <1>5, <3>1, <3>2, <3>3, <3>4, <3>5 DEF Around
    <2> QED
      BY <1>4, <1>5, <2>2, <2>4, <2>5, <2>6 DEF Covers
  <1> QED
    BY <1>6, <1>10, <1>11 DEF FlowInv

(* What EndIf and EndLoop share: the innermost statement is closed and its *)
(* exit is translated into next.                                           *)
LEMMA ClosingFacts ==
    ASSUME BuildInv, FlowInv, phase = "build", open # <<>>, NEW n, n = Len(open),
           open' = Front(open), cur' = Exit(n), phase' = "build", DOMAIN blk' = DOMAIN blk,
           \A b \in DOMAIN blk :
              b # cur /\ ~(Then(n) /\ b = Other(n)) => blk'[b].instrs = blk[b].instrs
    PROVE  /\ FreshInv'
           /\ DOMAIN open' = 1..(n - 1) /\ n \in DOMAIN open /\ n \in Nat
           /\ \A i \in 1..(n - 1) :
                 /\ i \in DOMAIN open /\ i # n /\ i <= n
                 /\ Exit(i)' = Exit(i) /\ Other(i)' = Other(i) /\ Then(i)' = Then(i)
                 /\ open'[i] = open[i]
           /\ \A b : Waits(b) => Waits(b)' \/ b = Exit(n) \/ (Then(n) /\ b = Other(n))
  <1>1. /\ n \in DOMAIN open /\ n \in Nat /\ \A i \in DOMAIN open : i <= n
        /\ DOMAIN open' = 1..(n - 1)
        /\ \A i \in 1..(n - 1) : i \in DOMAIN open /\ i # n /\ open'[i] = open[i]
        /\ \A i \in DOMAIN open : i = n \/ i \in 1..(n - 1)
    BY Innermost
  <1>2. \A i \in 1..(n - 1) : Exit(i)' = Exit(i) /\ Other(i)' = Other(i) /\ Then(i)' = Then(i)
    BY <1>1 DEF Exit, Other, Then
  <1>3. \A i \in DOMAIN open : Exit(i) \in DOMAIN blk /\ Other(i) \in DOMAIN blk
    BY LabelFacts
  <1>4. /\ \A i \in DOMAIN open : Fresh(i)
        /\ \A i \in DOMAIN open : \A j \in DOMAIN open : Apart(i, j)
    BY DEF FlowInv, FreshInv
  <1>5. ASSUME NEW i \in 1..(n - 1) PROVE Fresh(i)'
    <2>1. Fresh(i) /\ Apart(i, n) /\ Apart(n, i) /\ i \in DOMAIN open
      BY <1>1, <1>4
    <2>2. /\ Exit(i) # cur /\ Exit(i) # Exit(n) /\ Other(n) # Exit(i) /\ Other(i) # Exit(n)
          /\ Then(n) => Other(n) # Other(i)
      BY <1>1, <2>1 DEF Fresh, Apart
    <2>3. blk'[Exit(i)].instrs = <<>> /\ Exit(i) # cur' /\ Exit(i) # Entry
      BY <1>3, <2>1, <2>2 DEF Fresh
    <2>4. Then(i) => blk'[Other(i)].instrs = <<>> /\ Other(i) # Entry
      <3>1. Then(i) => Other(i) # cur
        BY <2>1 DEF Fresh, Then
      <3> QED
        BY <1>3, <2>1, <2>2, <3>1 DEF Fresh
    <2> QED
      BY <1>2, <2>2, <2>3, <2>4 DEF Fresh
  <1>6. \A i, j \in 1..(n - 1) : Apart(i, j)'
    <2> TAKE i, j \in 1..(n - 1)
    <2>1. Apart(i, j)
      BY <1>1, <1>4
    <2> QED
      BY <1>2, <2>1 DEF Apart
  <1>7. FreshInv'
    BY <1>1, <1>5, <1>6 DEF FreshInv
  <1>8. ASSUME NEW b, Waits(b) PROVE Waits(b)' \/ b = Exit(n) \/ (Then(n) /\ b = Other(n))
    <2>1. PICK i \in DOMAIN open : b = Exit(i) \/ (Then(i) /\ b = Other(i))
      BY <1>8 DEF Waits
    <2>2. CASE i = n
      BY <2>1, <2>2
    <2>3. CASE i # n
      BY <1>1, <1>2, <2>1, <2>3 DEF Waits
    <2> QED
      BY <2>2, <2>3
  <1> QED
    BY <1>1, <1>2, <1>7, <1>8

LEMMA EndLoopFlow ==
    ASSUME BuildInv, CodeInv, EndLoop, NEW n, n = Len(open)
    PROVE  DOMAIN blk' = DOMAIN blk /\ SameEdges(blk') /\ NewFlow(blk', {Other(n)})
  <1>1. n \in DOMAIN open /\ Last(open) = open[n] /\ blk' = Add(cur, <<Br(Last(open).other)>>)
    BY Innermost DEF EndLoop
  <1>2. Count \in Nat \ {0} /\ Other(n) \in 0..(Count - 1) /\ 0 \in 0..(MaxTokens + 1)
    BY <1>1, LabelFacts, BoundsAssumption
  <1>3. <<Br(Other(n))>> \in Seq(InstrOf(Count))
    BY <1>2, CodeTypes
  <1>4. blk' = Add(cur, <<Br(Other(n))>>)
    BY <1>1 DEF Other
  <1> QED
    BY <1>3, <1>4, BrJumps, AddFlows

LEMMA EndLoopLeaves ==
    ASSUME BuildInv, BuildInv', FlowInv, EndLoop
    PROVE  FlowInv'
  <1>0. PICK n : n = Len(open)
    OBVIOUS
  <1>1. /\ open # <<>> /\ Last(open).kind = "loop"
        /\ phase = "build" /\ phase' = "build" /\ blk' = Add(cur, <<Br(Last(open).other)>>)
        /\ cur' = Last(open).exit /\ open' = Front(open)
        /\ returns' = (Last(open).outer \/ returns) /\ trusted' = (trusted \/ returns)
    BY DEF EndLoop, Read
  <1>2. /\ n \in DOMAIN open /\ n \in Nat /\ Last(open) = open[n]
    BY <1>0, <1>1, Innermost
  <1>3. \A i \in DOMAIN open : /\ Exit(i) \in DOMAIN blk /\ Other(i) \in DOMAIN blk
    BY LabelFacts
  <1>4. DOMAIN blk' = DOMAIN blk /\ NewFlow(blk', {Other(n)})
    BY <1>0, <1>1, EndLoopFlow DEF FlowInv
  <1>5. CodeInv'
    BY <1>4 DEF CodeInv, NewFlow
  <1>6. cur' = Exit(n) /\ ~Then(n)
    BY <1>1, <1>2 DEF Exit, Then
  <1>7. /\ FreshInv'
        /\ DOMAIN open' = 1..(n - 1)
        /\ \A i \in 1..(n - 1) :
              /\ i \in DOMAIN open /\ i # n /\ i <= n
              /\ Exit(i)' = Exit(i) /\ Other(i)' = Other(i) /\ Then(i)' = Then(i)
              /\ open'[i] = open[i]
        /\ \A b : Waits(b) => Waits(b)' \/ b = Exit(n) \/ (Then(n) /\ b = Other(n))
    BY <1>0, <1>1, <1>4, <1>6, ClosingFacts DEF NewFlow
  <1>8. LeaveInv'
    <2> SUFFICES ASSUME ~trusted, ~returns PROVE \E S \in SUBSET (DOMAIN blk') : Covers(S)'
      BY <1>1, LabelFacts DEF LeaveInv
    <2>1. PICK S : Covers(S)
      BY <1>1 DEF FlowInv, LeaveInv
    <2>2. S \subseteq DOMAIN blk /\ Around(S, n) /\ \A i \in DOMAIN open : Around(S, i)
      BY <1>2, <2>1 DEF Covers, Reaches
    <2>3. \A b \in S : /\ Term(blk, b)' <=> (b = cur \/ Term(blk, b))
                       /\ Out(blk, b)' = IF b = cur /\ ~Term(blk, b) THEN {Other(n)} ELSE Out(blk, b)
      BY <1>4, <2>2 DEF NewFlow, Term, Out
    <2>4. \A i \in DOMAIN open : Fresh(i) /\ Apart(n, i) /\ Apart(i, n)
      BY <1>1, <1>2 DEF FlowInv, FreshInv
    <2>5. Reaches(S)'
      <3>1. cur \in S => Other(n) \in S
        BY <2>2 DEF Around
      <3>2. Other(n) # cur
        BY <1>1, <1>2, <2>4 DEF Fresh
      <3>3. Reaches(S)
        BY <2>1 DEF Covers
      <3> QED
        BY <1>4, <2>3, <3>1, <3>2, <3>3 DEF Reaches
    <2>6. RunsOff(S)'
      <3>1. \A b \in S : Term(blk, b) \/ b = cur \/ Waits(b)
        BY <2>1 DEF Covers, RunsOff
      <3>2. returns' => cur' \notin S
        BY <1>1, <1>2, <1>6, <2>2 DEF Around
      <3> QED
        BY <1>6, <1>7, <2>3, <3>1, <3>2 DEF RunsOff
    <2>7. ASSUME NEW i \in 1..(n - 1) PROVE Around(S, i)'
      <3>1. Around(S, i) /\ i \in DOMAIN open
        BY <1>7, <2>2
      <3>2. Exit(i) # Other(n)
        BY <2>4, <3>1 DEF Apart
      <3>3. Then(i) \/ (open[i].kind = "else" /\ open[i].then) => \A b \in S : Exit(i) \notin Out(blk, b)'
        BY <2>3, <3>1, <3>2 DEF Around
      <3>4. Exit(i) \notin S => cur' \notin S
        BY <1>2, <1>6, <1>7, <3>1 DEF Around
      <3>5. \A j \in DOMAIN open' : j >= i /\ Exit(i) \notin S => Exit(j)' \notin S
        BY <1>7, <3>1 DEF Around
      <3> QED
        BY <1>7, <3>1, <3>3, <3>4, <3>5 DEF Around
    <2> QED
      BY <1>4, <1>7, <2>2, <2>5, <2>6, <2>7 DEF Covers
  <1> QED
    BY <1>5, <1>7, <1>8 DEF FlowInv

(* The blocks of EndIf: the one the last body ended in, and without an     *)
(* else the one left for it.                                               *)
LEMMA EndIfFlow ==
    ASSUME BuildInv, CodeInv, EndIf, NEW n, n = Len(open)
    PROVE  /\ DOMAIN blk' = DOMAIN blk /\ SameEdges(blk')
           /\ \A b \in DOMAIN blk :
                 ~(Then(n) /\ b = Other(n)) =>
                    /\ Plain(blk'[b].instrs)
                    /\ Term(blk', b) <=> (b = cur \/ Term(blk, b))
                    /\ Out(blk', b) = IF b = cur /\ ~Term(blk, b) THEN {Exit(n)} ELSE Out(blk, b)
                    /\ b # cur => blk'[b].instrs = blk[b].instrs
           /\ Then(n) => /\ Plain(blk'[Other(n)].instrs) /\ Term(blk', Other(n))
                         /\ Out(blk', Other(n)) = {Exit(n)}
  <1>1. n \in DOMAIN open /\ Last(open) = open[n]
    BY Innermost DEF EndIf
  <1> DEFINE code == <<Br(Exit(n))>>
             joined == Add(cur, code)
  <1>2. Count \in Nat \ {0} /\ DOMAIN blk = 0..(Count - 1) /\ cur \in DOMAIN blk
        /\ Exit(n) \in 0..(Count - 1) /\ 0 \in 0..(MaxTokens + 1) /\ Other(n) \in DOMAIN blk
    BY <1>1, LabelFacts, BoundsAssumption
  <1>3. code \in Seq(InstrOf(Count)) /\ Jumps(code, {Exit(n)})
    BY <1>2, CodeTypes, BrJumps
  <1>4. blk' = IF Then(n) THEN [joined EXCEPT ![Other(n)].instrs = code] ELSE joined
    BY <1>1 DEF EndIf, Exit, Other, Then
  <1> HIDE DEF code
  <1>5. DOMAIN joined = DOMAIN blk /\ SameEdges(joined) /\ NewFlow(joined, {Exit(n)})
    BY <1>3, AddFlows
  <1>6. joined \in [0..(Count - 1) -> BlockOf(Count)]
    <2>1. <<>> \in Seq(0..(Count - 1))
      OBVIOUS
    <2>2. blk \in [0..(Count - 1) -> BlockOf(Count)]
      BY DEF BuildInv
    <2> QED
      BY <1>2, <1>3, <2>1, <2>2, EndTypes
  <1> HIDE DEF joined
  <1>7. /\ DOMAIN blk' = DOMAIN blk
        /\ \A b \in DOMAIN blk : ~(Then(n) /\ b = Other(n)) => blk'[b] = joined[b]
        /\ Then(n) => blk'[Other(n)].instrs = code
        /\ \A b \in DOMAIN blk : blk'[b].succs = joined[b].succs
    <2>1. joined[Other(n)] \in BlockOf(Count)
      BY <1>2, <1>6
    <2>2. LET b == [joined[Other(n)] EXCEPT !.instrs = code]
          IN  b.instrs = code /\ b.succs = joined[Other(n)].succs
      BY <2>1 DEF BlockOf
    <2> QED
      BY <1>2, <1>4, <1>5, <2>2
  <1>8. Plain(code) /\ FirstTerminator(code) # {} /\ Leaves(code) = {Exit(n)}
    BY <1>3, JumpFlow
  <1>9. Then(n) => /\ Plain(blk'[Other(n)].instrs) /\ Term(blk', Other(n))
                   /\ Out(blk', Other(n)) = {Exit(n)}
    BY <1>7, <1>8 DEF Term, Out
  <1> QED
    BY <1>5, <1>7, <1>9 DEF NewFlow, Term, Out, SameEdges

LEMMA EndIfLeaves ==
    ASSUME BuildInv, BuildInv', FlowInv, EndIf
    PROVE  FlowInv'
  <1>0. PICK n : n = Len(open)
    OBVIOUS
  <1>1. /\ open # <<>> /\ Last(open).kind \in {"then", "else"}
        /\ phase = "build" /\ phase' = "build"
        /\ cur' = Last(open).exit /\ open' = Front(open)
        /\ returns' = (Last(open).outer \/ BothReturn(Last(open))) /\ trusted' = trusted
    BY DEF EndIf, Read
  <1>2. /\ n \in DOMAIN open /\ n \in Nat /\ Last(open) = open[n]
    BY <1>0, <1>1, Innermost
  <1>3. /\ \A i \in DOMAIN open : /\ Exit(i) \in DOMAIN blk /\ Other(i) \in DOMAIN blk
        /\ returns \in BOOLEAN /\ open[n].outer \in BOOLEAN /\ open[n].then \in BOOLEAN
    BY <1>2, LabelFacts
  <1>4. /\ DOMAIN blk' = DOMAIN blk
        /\ \A b \in DOMAIN blk :
              ~(Then(n) /\ b = Other(n)) =>
                 /\ Plain(blk'[b].instrs)
                 /\ Term(blk', b) <=> (b = cur \/ Term(blk, b))
                 /\ Out(blk', b) = IF b = cur /\ ~Term(blk, b) THEN {Exit(n)} ELSE Out(blk, b)
                 /\ b # cur => blk'[b].instrs = blk[b].instrs
        /\ Then(n) => /\ Plain(blk'[Other(n)].instrs) /\ Term(blk', Other(n))
                      /\ Out(blk', Other(n)) = {Exit(n)}
    BY <1>0, EndIfFlow DEF FlowInv
  <1>5. CodeInv'
    BY <1>4 DEF CodeInv
  <1>6. cur' = Exit(n)
    BY <1>1, <1>2 DEF Exit
  <1>7. /\ FreshInv'
        /\ DOMAIN open' = 1..(n - 1)
        /\ \A i \in 1..(n - 1) :
              /\ i \in DOMAIN open /\ i # n /\ i <= n
              /\ Exit(i)' = Exit(i) /\ Other(i)' = Other(i) /\ Then(i)' = Then(i)
              /\ open'[i] = open[i]
        /\ \A b : Waits(b) => Waits(b)' \/ b = Exit(n) \/ (Then(n) /\ b = Other(n))
    BY <1>0, <1>1, <1>4, <1>6, ClosingFacts
  <1>8. LeaveInv'
    <2> SUFFICES ASSUME ~trusted PROVE \E S \in SUBSET (DOMAIN blk') : Covers(S)'
      BY <1>1 DEF LeaveInv
    <2>1. PICK S : Covers(S)
      BY <1>1 DEF FlowInv, LeaveInv
    <2> DEFINE both == open[n].kind = "else" /\ open[n].then /\ returns
    <2>0. PICK T : T = IF both THEN S \ {Exit(n)} ELSE S
      OBVIOUS
    <2>2. /\ S \subseteq DOMAIN blk /\ Around(S, n) /\ \A i \in DOMAIN open : Around(S, i)
          /\ T \subseteq S /\ T \subseteq DOMAIN blk
          /\ \A b \in S : b \in T \/ (both /\ b = Exit(n))
          /\ both => Exit(n) \notin T
      BY <1>2, <2>0, <2>1 DEF Covers, Reaches
    <2>3. \A i \in DOMAIN open : Fresh(i) /\ Apart(n, i) /\ Apart(i, n)
      BY <1>1, <1>2 DEF FlowInv, FreshInv
    <2>4. /\ Exit(n) # cur /\ Exit(n) # Entry /\ Other(n) # Exit(n)
          /\ Then(n) => Other(n) # cur
      BY <1>2, <2>3 DEF Fresh, Apart, Then
    <2>5. \A b \in S : /\ Term(blk, b)' <=> (b = cur \/ Term(blk, b) \/ (Then(n) /\ b = Other(n)))
                       /\ Out(blk, b)' \in {Out(blk, b), {Exit(n)}}
                       /\ Term(blk, b) /\ ~(Then(n) /\ b = Other(n)) => Out(blk, b)' = Out(blk, b)
                       /\ Out(blk, b)' # Out(blk, b) => b = cur \/ (Then(n) /\ b = Other(n))
      BY <1>4, <2>2 DEF Term, Out
    <2>6. both => \A b \in S : Exit(n) \notin Out(blk, b)'
      <3>1. both => /\ \A b \in S : Exit(n) \notin Out(blk, b)
                    /\ cur \notin S \/ Term(blk, cur)
                    /\ ~Then(n)
        BY <2>1, <2>2 DEF Covers, RunsOff, Around, Then
      <3> QED
        BY <2>5, <3>1
    <2>7. \A b \in S : Out(blk, b)' \subseteq S /\ b \notin Out(blk, b)'
      <3>1. \A b \in S : Out(blk, b) \subseteq S /\ b \notin Out(blk, b)
        BY <2>1 DEF Covers, Reaches
      <3>2. (cur \in S => Exit(n) \in S) /\ (Other(n) \in S => Exit(n) \in S)
        BY <2>2 DEF Around
      <3> QED
        BY <2>4, <2>5, <3>1, <3>2
    <2>8. Reaches(T)'
      <3>1. Entry \in T
        BY <2>1, <2>2, <2>4 DEF Covers, Reaches
      <3>2. \A b \in T : Out(blk, b)' \subseteq T
        <4> TAKE b \in T
        <4>1. b \in S /\ Out(blk, b)' \subseteq S
          BY <2>2, <2>7
        <4> QED
          BY <2>2, <2>6, <4>1
      <3> QED
        BY <1>4, <2>2, <2>7, <3>1, <3>2 DEF Reaches
    <2>9. RunsOff(T)'
      <3>1. \A b \in S : Term(blk, b) \/ b = cur \/ Waits(b)
        BY <2>1 DEF Covers, RunsOff
      <3>2. \A b \in T : Term(blk, b)' \/ b = cur' \/ Waits(b)'
        <4> HIDE DEF both
        <4> QED
          BY <1>6, <1>7, <2>2, <2>5, <3>1
      <3>3. returns' => cur' \notin T
        BY <1>1, <1>2, <1>6, <2>2 DEF Around, BothReturn
      <3> QED
        BY <3>2, <3>3 DEF RunsOff
    <2>10. ASSUME NEW i \in 1..(n - 1) PROVE Around(T, i)'
      <3>1. Around(S, i) /\ i \in DOMAIN open /\ i # n /\ i <= n
        BY <1>7, <2>2
      <3>2. Exit(i) # Exit(n) /\ Other(i) # Exit(n)
        BY <1>2, <2>3, <3>1 DEF Apart
      <3>3. (Exit(i) \in T <=> Exit(i) \in S) /\ (Other(i) \in T <=> Other(i) \in S)
        BY <2>2, <3>2
      <3> HIDE DEF both
      <3>4. Then(i) \/ (open[i].kind = "else" /\ open[i].then) => \A b \in T : Exit(i) \notin Out(blk, b)'
        BY <2>2, <2>5, <3>1, <3>2 DEF Around
      <3>5. Exit(i) \notin T => cur' \notin T
        BY <1>2, <1>6, <2>2, <3>1, <3>3 DEF Around
      <3>6. \A j \in DOMAIN open' : j >= i /\ Exit(i) \notin T => Exit(j)' \notin T
        BY <1>7, <2>2, <3>1, <3>3 DEF Around
      <3>7. open[i].outer => Exit(i) \notin T
        BY <3>1, <3>3 DEF Around
      <3>8. Exit(i) \in T <=> Other(i) \in T
        BY <3>1, <3>3 DEF Around
      <3> QED
        BY <1>7, <3>4, <3>5, <3>6, <3>7, <3>8 DEF Around
    <2> QED
      BY <1>4, <1>7, <2>2, <2>8, <2>9, <2>10 DEF Covers
  <1> QED
    BY <1>5, <1>7, <1>8 DEF FlowInv

(* What OpenIf and OpenLoop share: three new blocks and a frame that names *)
(* them, entered from the current block by code that leaves it for D.      *)
Opening(m, new, frame, D) ==
    /\ phase = "build" /\ phase' = "build" /\ returns' = FALSE /\ trusted' = trusted
    /\ m = Count /\ new = {m, m + 1, m + 2} /\ D \subseteq new
    /\ frame.exit = m + 2 /\ frame.other \in {m, m + 1} /\ frame.outer = returns
    /\ frame.kind \in {"then", "loop"}
    /\ open' = Append(open, frame) /\ cur' \in {m, m + 1} /\ cur' # frame.other
    /\ DOMAIN blk' = DOMAIN blk \cup new
    /\ NewFlow(blk', D)
    /\ \A b \in new :
          /\ Plain(blk'[b].instrs) /\ Out(blk', b) \subseteq new /\ b \notin Out(blk', b)
          /\ \/ Term(blk', b) \/ b = cur' \/ b = frame.exit
             \/ frame.kind = "then" /\ b = frame.other
    /\ blk'[frame.exit].instrs = <<>>
    /\ frame.kind = "then" =>
          /\ blk'[frame.other].instrs = <<>> /\ frame.exit \notin D
          /\ \A b \in new : frame.exit \notin Out(blk', b)
    /\ \A a \in DOMAIN blk : \A c : Edge(blk', a, c) <=> Edge(blk, a, c) \/ (a = cur /\ c \in D)
    /\ \A a \in new : \A c : Edge(blk', a, c) => c \in new /\ a # frame.exit
    /\ \A a \in new : \A c \in Out(blk', a) : a < c /\ Edge(blk', a, c)
    /\ IF frame.kind = "then"
       THEN /\ frame.other = m + 1 /\ D = {m, m + 1}
            /\ Edge(blk', m, m + 2) /\ Edge(blk', m + 1, m + 2)
       ELSE /\ frame.other = m /\ D = {m}
            /\ Edge(blk', m, m + 1) /\ Edge(blk', m, m + 2)
            /\ Out(blk', m) = {m + 1, m + 2}

LEMMA OpeningLeaves ==
    ASSUME BuildInv, BuildInv', FlowInv, NEW m, NEW new, NEW frame, NEW D,
           Opening(m, new, frame, D)
    PROVE  FlowInv'
  <1> USE DEF Opening
  <1>0. PICK k : k = Len(open) + 1
    OBVIOUS
  <1>1. /\ m \in Nat \ {0} /\ DOMAIN blk = 0..(m - 1) /\ cur \in DOMAIN blk
        /\ \A i \in DOMAIN open : Exit(i) \in DOMAIN blk /\ Other(i) \in DOMAIN blk
        /\ returns \in BOOLEAN
    BY LabelFacts
  <1>2. \A b \in new : b \notin DOMAIN blk /\ b # Entry
    BY <1>1 DEF Entry
  <1>3. /\ DOMAIN open' = DOMAIN open \cup {k} /\ k \notin DOMAIN open
        /\ open'[k] = frame
        /\ \A i \in DOMAIN open : i < k /\ open'[i] = open[i]
    BY <1>0, Opened
  <1>4. /\ \A i \in DOMAIN open : Exit(i)' = Exit(i) /\ Other(i)' = Other(i) /\ Then(i)' = Then(i)
        /\ Exit(k)' = m + 2 /\ Other(k)' = frame.other /\ (Then(k)' <=> frame.kind = "then")
    BY <1>3 DEF Exit, Other, Then
  <1>5. m + 2 \in new /\ frame.other \in new /\ cur' \in new /\ frame.other # m + 2 /\ cur' # m + 2
    BY <1>1
  <1>6. CodeInv'
    BY DEF CodeInv, NewFlow
  <1>7. /\ \A i \in DOMAIN open : Fresh(i)
        /\ \A i \in DOMAIN open : \A j \in DOMAIN open : Apart(i, j)
    BY DEF FlowInv, FreshInv
  <1>8. FreshInv'
    <2>1. ASSUME NEW i \in DOMAIN open PROVE Fresh(i)'
      <3>1. Fresh(i) /\ Exit(i) \notin new /\ Other(i) \notin new
        BY <1>1, <1>2, <1>7
      <3>2. blk'[Exit(i)].instrs = <<>>
        BY <1>1, <3>1 DEF Fresh, NewFlow
      <3>3. Then(i) => blk'[Other(i)].instrs = <<>>
        BY <1>1, <3>1 DEF Fresh, NewFlow, Then
      <3> QED
        BY <1>3, <1>4, <1>5, <3>1, <3>2, <3>3 DEF Fresh
    <2>2. Fresh(k)'
      BY <1>2, <1>3, <1>4, <1>5 DEF Fresh
    <2>3. ASSUME NEW i \in DOMAIN open PROVE Apart(i, k)' /\ Apart(k, i)'
      <3>1. Exit(i) \notin new /\ Other(i) \notin new
        BY <1>1, <1>2
      <3> QED
        BY <1>4, <1>5, <3>1 DEF Apart
    <2>4. Apart(k, k)'
      BY <1>4, <1>5 DEF Apart
    <2>5. ASSUME NEW i \in DOMAIN open, NEW j \in DOMAIN open PROVE Apart(i, j)'
      <3>1. Apart(i, j)
        BY <1>7
      <3> QED
        BY <1>4, <3>1 DEF Apart
    <2> QED
      BY <1>3, <2>1, <2>2, <2>3, <2>4, <2>5 DEF FreshInv
  <1>9. LeaveInv'
    <2> SUFFICES ASSUME ~trusted PROVE \E S \in SUBSET (DOMAIN blk') : Covers(S)'
      BY DEF LeaveInv
    <2>1. PICK S : Covers(S)
      BY DEF FlowInv, LeaveInv
    <2>2. S \subseteq DOMAIN blk /\ Entry \in S /\ \A i \in DOMAIN open : Around(S, i)
      BY <2>1 DEF Covers, Reaches
    <2>3. PICK T : T = IF cur \in S /\ ~Term(blk, cur) THEN S \cup new ELSE S
      OBVIOUS
    <2>4. /\ T \subseteq DOMAIN blk' /\ S \subseteq T
          /\ cur \in S /\ ~Term(blk, cur) => \A b : b \in T <=> b \in S \/ b \in new
          /\ ~(cur \in S /\ ~Term(blk, cur)) => T = S /\ \A b \in new : b \notin T
          /\ \A b \in DOMAIN blk : b \in T <=> b \in S
          /\ \A b \in T : b \in S \/ b \in new
      BY <1>2, <2>2, <2>3
    <2>5. \A b \in S : /\ Term(blk, b)' <=> (b = cur \/ Term(blk, b))
                       /\ Out(blk, b)' = IF b = cur /\ ~Term(blk, b) THEN D ELSE Out(blk, b)
      BY <2>2 DEF NewFlow, Term, Out
    <2>6. \A b \in new : /\ Out(blk, b)' \subseteq new /\ b \notin Out(blk, b)'
                         /\ Term(blk, b)' \/ b = cur' \/ Waits(b)'
      <3>1. TAKE b \in new
      <3>2. b = frame.exit \/ (frame.kind = "then" /\ b = frame.other) => Waits(b)'
        BY <1>3, <1>4 DEF Waits
      <3> QED
        BY <3>2 DEF Term, Out
    <2>7. \A b \in S : Out(blk, b) \subseteq S /\ b \notin Out(blk, b)
      BY <2>1 DEF Covers, Reaches
    <2>8. Reaches(T)'
      <3>1. ASSUME NEW b \in T PROVE Out(blk, b)' \subseteq T /\ b \notin Out(blk, b)'
        <4>1. CASE b \in S
          <5>1. CASE b = cur /\ ~Term(blk, b)
            <6>1. Out(blk, b)' = D /\ b \notin new
              BY <1>1, <1>2, <2>5, <4>1, <5>1
            <6>2. \A c \in new : c \in T
              BY <2>4, <4>1, <5>1
            <6> QED
              BY <6>1, <6>2
          <5>2. CASE ~(b = cur /\ ~Term(blk, b))
            BY <2>4, <2>5, <2>7, <4>1, <5>2
          <5> QED
            BY <5>1, <5>2
        <4>2. CASE b \notin S
          BY <2>4, <2>6, <3>1, <4>2
        <4> QED
          BY <4>1, <4>2
      <3> QED
        BY <2>2, <2>4, <3>1 DEF Reaches
    <2>9. RunsOff(T)'
      <3>1. ASSUME NEW b \in S, Waits(b) PROVE Waits(b)'
        <4>1. PICK i \in DOMAIN open : b = Exit(i) \/ (Then(i) /\ b = Other(i))
          BY <3>1 DEF Waits
        <4> QED
          BY <1>3, <1>4, <4>1 DEF Waits
      <3>2. \A b \in S : Term(blk, b) \/ b = cur \/ Waits(b)
        BY <2>1 DEF Covers, RunsOff
      <3> QED
        BY <2>4, <2>5, <2>6, <3>1, <3>2 DEF RunsOff
    <2>10. ASSUME NEW i \in DOMAIN open PROVE Around(T, i)'
      <3>1. Around(S, i) /\ Exit(i) \in DOMAIN blk /\ Other(i) \in DOMAIN blk /\ Exit(i) \notin new
        BY <1>1, <1>2, <2>2
      <3>2. (Exit(i) \in T <=> Exit(i) \in S) /\ (Other(i) \in T <=> Other(i) \in S)
        BY <2>4, <3>1
      <3>3. Then(i) \/ (open[i].kind = "else" /\ open[i].then) => \A b \in T : Exit(i) \notin Out(blk, b)'
        <4>1. \A b \in new : Exit(i) \notin Out(blk, b)'
          BY <2>6, <3>1
        <4>2. Then(i) \/ (open[i].kind = "else" /\ open[i].then) => \A b \in S : Exit(i) \notin Out(blk, b)'
          BY <2>5, <3>1 DEF Around
        <4> QED
          BY <2>4, <4>1, <4>2
      <3>4. Exit(i) \notin T => /\ cur' \notin T
                                /\ \A j \in DOMAIN open : j >= i => Exit(j) \notin T
                                /\ m + 2 \notin T
        <4>1. Exit(i) \notin S => cur \notin S /\ \A j \in DOMAIN open : j >= i => Exit(j) \notin S
          BY <3>1 DEF Around
        <4>2. \A j \in DOMAIN open : Exit(j) \in T <=> Exit(j) \in S
          BY <1>1, <2>4
        <4> QED
          BY <1>5, <2>4, <3>2, <4>1, <4>2
      <3>5. open[i].outer => Exit(i) \notin T
        BY <3>1, <3>2 DEF Around
      <3>6. Exit(i) \in T <=> Other(i) \in T
        BY <3>1, <3>2 DEF Around
      <3> QED
        BY <1>3, <1>4, <3>3, <3>4, <3>5, <3>6 DEF Around
    <2>11. Around(T, k)'
      <3>1. returns => m + 2 \notin T
        BY <1>5, <2>1, <2>4 DEF Covers, RunsOff
      <3>2. frame.kind = "then" => \A b \in T : m + 2 \notin Out(blk, b)'
        <4>1. \A b \in S : m + 2 \notin Out(blk, b)
          BY <1>2, <1>5, <2>2, <2>7
        <4>2. frame.kind = "then" => \A b \in S : m + 2 \notin Out(blk, b)'
          BY <2>5, <4>1
        <4>3. frame.kind = "then" => \A b \in new : m + 2 \notin Out(blk, b)'
          BY DEF Out
        <4> QED
          BY <2>4, <4>2, <4>3
      <3>3. (m + 2 \in T <=> frame.other \in T) /\ (m + 2 \notin T => cur' \notin T)
        BY <1>5, <2>4
      <3>4. \A j \in DOMAIN open' : j >= k => j = k
        BY <1>0, <1>3, LabelFacts
      <3>5. open'[k].kind # "else"
        BY <1>3
      <3> QED
        BY <1>3, <1>4, <3>1, <3>2, <3>3, <3>4, <3>5 DEF Around
    <2> QED
      BY <1>3, <2>4, <2>8, <2>9, <2>10, <2>11 DEF Covers
  <1> QED
    BY <1>6, <1>8, <1>9 DEF FlowInv

LEMMA OpenIfOpens ==
    ASSUME BuildInv, CodeInv, OpenIf
    PROVE  \E m, new, frame, D : Opening(m, new, frame, D)
  <1>0. PICK t : t = Count
    OBVIOUS
  <1>1. /\ Read("if", Len(open) + 1) /\ Len(open) + 1 \in Nat
        /\ phase = "build" /\ phase' = "build"
    BY LabelFacts DEF OpenIf, Read
  <1>2. At \in 0..(MaxTokens + 1)
    BY <1>1, BuildFacts
  <1> DEFINE f == t + 1
             exit == t + 2
             code == <<Code(At), BrCond(At, t, f)>>
             next == <<t, f>>
             inherited == blk[cur].forExit
             linked == EndInto(cur, code, next)
             new == [b \in {t, f, exit} |->
                        IF b = exit THEN NewBlock({t, f}, <<>>, inherited)
                        ELSE NewBlock({cur}, <<exit>>, inherited)]
             frame == [kind |-> "then", exit |-> exit, other |-> f,
                       outer |-> returns, then |-> FALSE]
  <1>3. /\ blk' = AddBlocks(linked, new) /\ cur' = t /\ open' = Append(open, frame)
        /\ returns' = FALSE /\ trusted' = trusted
    BY <1>0 DEF OpenIf, Count
  <1>4. t \in Nat /\ t \in 0..((t + 3) - 1) /\ f \in 0..((t + 3) - 1) /\ DOMAIN blk = 0..(t - 1)
        /\ t + 3 \in Nat /\ Count <= t + 3
    BY <1>0, LabelFacts
  <1>5. code \in Seq(InstrOf(t + 3)) /\ Jumps(code, {t, f})
    BY <1>2, <1>4, CodeTypes, BrCondJumps
  <1>51. next \in Seq(0..((t + 3) - 1)) /\ ToSet(next) = {t, f}
    BY <1>4 DEF ToSet
  <1> HIDE DEF code, next
  <1>61. \A a \in DOMAIN blk : \A c :
            Edge(linked, a, c) <=> Edge(blk, a, c) \/ (a = cur /\ c \in {t, f})
    BY <1>4, <1>51, EndEdges
  <1>6. DOMAIN linked = DOMAIN blk /\ NewFlow(linked, {t, f})
    BY <1>4, <1>5, Flows
  <1> HIDE DEF linked
  <1>7. /\ \A b \in {t, f, exit} : b \notin DOMAIN blk
        /\ DOMAIN new = {t, f, exit} /\ \A b \in {t, f, exit} : new[b].instrs = <<>>
        /\ new[t].succs = <<exit>> /\ new[f].succs = <<exit>> /\ new[exit].succs = <<>>
    BY <1>4 DEF NewBlock
  <1> HIDE DEF new
  <1>8. /\ DOMAIN blk' = DOMAIN blk \cup {t, f, exit}
        /\ \A b \in DOMAIN blk : blk'[b] = linked[b]
        /\ \A b \in {t, f, exit} : blk'[b].instrs = <<>>
        /\ blk'[t].succs = <<exit>> /\ blk'[f].succs = <<exit>> /\ blk'[exit].succs = <<>>
    BY <1>3, <1>6, <1>7 DEF AddBlocks
  <1>9. NewFlow(blk', {t, f})
    BY <1>6, <1>8 DEF NewFlow, Term, Out
  <1>10. \A b \in {t, f, exit} : Plain(blk'[b].instrs) /\ ~Term(blk', b) /\ Out(blk', b) = {}
    BY <1>8, EmptyFlow DEF Term, Out
  <1>11. /\ frame.exit = t + 2 /\ frame.other = t + 1 /\ frame.outer = returns /\ frame.kind = "then"
    OBVIOUS
  <1> HIDE DEF frame
  <1>12. PICK made, D : made = {t, t + 1, t + 2} /\ D = {t, f}
    OBVIOUS
  <1>13. /\ DOMAIN blk' = DOMAIN blk \cup made /\ D \subseteq made /\ NewFlow(blk', D)
         /\ cur' \in {t, t + 1} /\ frame.other \in {t, t + 1} /\ cur' # frame.other
    BY <1>3, <1>4, <1>8, <1>9, <1>11, <1>12
  <1>14. /\ blk'[frame.exit].instrs = <<>>
         /\ frame.kind = "then" =>
              /\ blk'[frame.other].instrs = <<>> /\ frame.exit \notin D
              /\ \A b \in made : frame.exit \notin Out(blk', b)
    BY <1>4, <1>8, <1>10, <1>11, <1>12
  <1>15. \A b \in made :
           /\ Plain(blk'[b].instrs) /\ Out(blk', b) \subseteq made /\ b \notin Out(blk', b)
           /\ \/ Term(blk', b) \/ b = cur' \/ b = frame.exit
              \/ frame.kind = "then" /\ b = frame.other
    BY <1>3, <1>4, <1>10, <1>11, <1>12
  <1>17. \A c : /\ ~Edge(blk', exit, c)
                /\ Edge(blk', t, c) <=> c = exit
                /\ Edge(blk', f, c) <=> c = exit
    BY <1>8 DEF Edge, ToSet
  <1>18. /\ \A a \in DOMAIN blk : \A c : Edge(blk', a, c) <=> Edge(blk, a, c) \/ (a = cur /\ c \in D)
         /\ \A a \in made : \A c : Edge(blk', a, c) => c \in made /\ a # frame.exit
         /\ \A a \in made : \A c \in Out(blk', a) : a < c /\ Edge(blk', a, c)
    <2>1. \A a \in DOMAIN blk : \A c : Edge(blk', a, c) <=> Edge(linked, a, c)
      BY <1>8 DEF Edge
    <2> QED
      BY <1>4, <1>61, <1>10, <1>11, <1>12, <1>17, <2>1
  <1>16. Opening(t, made, frame, D)
    BY <1>0, <1>1, <1>3, <1>11, <1>12, <1>13, <1>14, <1>15, <1>17, <1>18 DEF Opening
  <1> QED
    BY <1>16

LEMMA OpenLoopOpens ==
    ASSUME BuildInv, CodeInv, OpenLoop
    PROVE  \E m, new, frame, D : Opening(m, new, frame, D)
  <1>0. PICK e : e = Count
    OBVIOUS
  <1>1. /\ Read("for", Len(open) + 1) /\ Len(open) + 1 \in Nat
        /\ phase = "build" /\ phase' = "build"
    BY LabelFacts DEF OpenLoop, Read
  <1>2. At \in 0..(MaxTokens + 1) /\ 0 \in 0..(MaxTokens + 1)
    BY <1>1, BuildFacts, BoundsAssumption
  <1> DEFINE inner == e + 1
             exit == e + 2
             code == <<Code(At), BrCond(At, inner, exit)>>
             jump == <<Br(e)>>
             next == <<e>>
             entry == [NewBlock({}, <<inner, exit>>, exit) EXCEPT !.instrs = code]
             linked == EndInto(cur, jump, next)
             new == [b \in {e, inner, exit} |->
                        CASE b = e -> entry
                          [] b = inner -> NewBlock({e}, <<e>>, exit)
                          [] b = exit -> NewBlock({e}, <<>>, NoBlock)]
             frame == [kind |-> "loop", exit |-> exit, other |-> e,
                       outer |-> returns, then |-> FALSE]
  <1>3. /\ blk' = AddBlocks(linked, new) /\ cur' = inner /\ open' = Append(open, frame)
        /\ returns' = FALSE /\ trusted' = trusted
    BY <1>0 DEF OpenLoop, Count
  <1>4. /\ e \in Nat /\ e \in 0..((e + 3) - 1) /\ inner \in 0..((e + 3) - 1) /\ exit \in 0..((e + 3) - 1)
        /\ DOMAIN blk = 0..(e - 1) /\ e + 3 \in Nat /\ Count <= e + 3
        /\ e # inner /\ e # exit /\ inner # exit
    BY <1>0, LabelFacts
  <1>5. /\ jump \in Seq(InstrOf(e + 3)) /\ Jumps(jump, {e})
        /\ code \in Seq(InstrOf(e + 3)) /\ Jumps(code, {inner, exit})
    BY <1>2, <1>4, CodeTypes, BrJumps, BrCondJumps
  <1>51. next \in Seq(0..((e + 3) - 1)) /\ ToSet(next) = {e}
    BY <1>4 DEF ToSet
  <1> HIDE DEF code, next, jump
  <1>61. \A a \in DOMAIN blk : \A c :
            Edge(linked, a, c) <=> Edge(blk, a, c) \/ (a = cur /\ c \in {e})
    BY <1>4, <1>51, EndEdges
  <1>6. DOMAIN linked = DOMAIN blk /\ NewFlow(linked, {e})
    BY <1>4, <1>5, Flows
  <1> HIDE DEF linked
  <1>7. /\ \A b \in {e, inner, exit} : b \notin DOMAIN blk
        /\ DOMAIN new = {e, inner, exit}
        /\ new[e].instrs = code /\ new[inner].instrs = <<>> /\ new[exit].instrs = <<>>
        /\ new[e].succs = <<inner, exit>> /\ new[inner].succs = <<e>> /\ new[exit].succs = <<>>
    BY <1>4 DEF NewBlock
  <1> HIDE DEF new
  <1>8. /\ DOMAIN blk' = DOMAIN blk \cup {e, inner, exit}
        /\ \A b \in DOMAIN blk : blk'[b] = linked[b]
        /\ blk'[e].instrs = code /\ blk'[inner].instrs = <<>> /\ blk'[exit].instrs = <<>>
        /\ blk'[e].succs = <<inner, exit>> /\ blk'[inner].succs = <<e>> /\ blk'[exit].succs = <<>>
    BY <1>3, <1>6, <1>7 DEF AddBlocks
  <1>9. NewFlow(blk', {e})
    BY <1>6, <1>8 DEF NewFlow, Term, Out
  <1>10. /\ Plain(blk'[e].instrs) /\ Term(blk', e) /\ Out(blk', e) = {inner, exit}
         /\ \A b \in {inner, exit} : Plain(blk'[b].instrs) /\ Out(blk', b) = {}
    BY <1>5, <1>8, EmptyFlow, JumpFlow DEF Term, Out
  <1>11. /\ frame.exit = e + 2 /\ frame.other = e /\ frame.outer = returns /\ frame.kind = "loop"
    OBVIOUS
  <1> HIDE DEF frame
  <1>12. PICK made, D : made = {e, e + 1, e + 2} /\ D = {e}
    OBVIOUS
  <1>13. /\ DOMAIN blk' = DOMAIN blk \cup made /\ D \subseteq made /\ NewFlow(blk', D)
         /\ cur' \in {e, e + 1} /\ frame.other \in {e, e + 1} /\ cur' # frame.other
    BY <1>3, <1>4, <1>8, <1>9, <1>11, <1>12
  <1>14. /\ blk'[frame.exit].instrs = <<>>
         /\ frame.kind = "then" =>
              /\ blk'[frame.other].instrs = <<>> /\ frame.exit \notin D
              /\ \A b \in made : frame.exit \notin Out(blk', b)
    BY <1>4, <1>8, <1>10, <1>11, <1>12
  <1>15. \A b \in made :
           /\ Plain(blk'[b].instrs) /\ Out(blk', b) \subseteq made /\ b \notin Out(blk', b)
           /\ \/ Term(blk', b) \/ b = cur' \/ b = frame.exit
              \/ frame.kind = "then" /\ b = frame.other
    BY <1>3, <1>4, <1>10, <1>11, <1>12
  <1>17. \A c : /\ ~Edge(blk', exit, c)
                /\ Edge(blk', e, c) <=> c \in {inner, exit}
                /\ Edge(blk', inner, c) <=> c = e
    BY <1>8 DEF Edge, ToSet
  <1>18. /\ \A a \in DOMAIN blk : \A c : Edge(blk', a, c) <=> Edge(blk, a, c) \/ (a = cur /\ c \in D)
         /\ \A a \in made : \A c : Edge(blk', a, c) => c \in made /\ a # frame.exit
         /\ \A a \in made : \A c \in Out(blk', a) : a < c /\ Edge(blk', a, c)
    <2>1. \A a \in DOMAIN blk : \A c : Edge(blk', a, c) <=> Edge(linked, a, c)
      BY <1>8 DEF Edge
    <2> QED
      BY <1>4, <1>61, <1>10, <1>11, <1>12, <1>17, <2>1
  <1>16. Opening(e, made, frame, D)
    BY <1>0, <1>1, <1>3, <1>10, <1>11, <1>12, <1>13, <1>14, <1>15, <1>17, <1>18 DEF Opening
  <1> QED
    BY <1>16

LEMMA OpenLeaves ==
    ASSUME BuildInv, BuildInv', FlowInv, OpenIf \/ OpenLoop
    PROVE  FlowInv'
  <1>1. PICK m, new, frame, D : Opening(m, new, frame, D)
    BY OpenIfOpens, OpenLoopOpens DEF FlowInv
  <1> QED
    BY <1>1, OpeningLeaves

(* Steps after the last statement: the blocks of S keep what they do.      *)
LEMMA KeepsLeaving ==
    ASSUME phase' \in {"prune", "done"}, trusted' = trusted, DOMAIN blk' = DOMAIN blk,
           ~trusted => \E S \in SUBSET (DOMAIN blk) :
               /\ Reaches(S)
               /\ \A b \in S : Term(blk', b) /\ Out(blk', b) = Out(blk, b)
    PROVE  LeaveInv'
  <1> SUFFICES ASSUME ~trusted
               PROVE  \E S \in SUBSET (DOMAIN blk') : Reaches(S)' /\ \A b \in S : Term(blk, b)'
    BY DEF LeaveInv
  <1>1. PICK S \in SUBSET (DOMAIN blk) :
            Reaches(S) /\ \A b \in S : Term(blk', b) /\ Out(blk', b) = Out(blk, b)
    OBVIOUS
  <1>2. \A b \in S : Term(blk, b)' /\ Out(blk, b)' = Out(blk, b)
    BY <1>1 DEF Term, Out
  <1> QED
    BY <1>1, <1>2 DEF Reaches

(* The final return, and what -O1 cuts off.                                *)
LEMMA FinalFlow ==
    ASSUME BuildInv, CodeInv
    PROVE  /\ WithFinalReturn \in [DOMAIN blk -> BlockOf(Count)]
           /\ (void => NewFlow(WithFinalReturn, {})) /\ (~void => WithFinalReturn = blk)
           /\ \A b \in DOMAIN blk : Plain(WithFinalReturn[b].instrs)
  <1>1. Count \in Nat \ {0} /\ DOMAIN blk = 0..(Count - 1)
    BY LabelFacts
  <1>2. WithFinalReturn \in [DOMAIN blk -> BlockOf(Count)]
    BY <1>1, FinalReturnTypes
  <1>3. At \in 0..(MaxTokens + 1)
    BY BoundsAssumption DEF At, BuildInv
  <1>4. <<Ret(At)>> \in Seq(InstrOf(Count))
    <2>1. 0 \in 0..(Count - 1)
      BY <1>1
    <2> QED
      BY <1>1, <1>3, <2>1, CodeTypes
  <1>5. (void => NewFlow(WithFinalReturn, {})) /\ (~void => WithFinalReturn = blk)
    BY <1>4, RetJumps, AddFlows DEF WithFinalReturn
  <1>6. \A b \in DOMAIN blk : Plain(WithFinalReturn[b].instrs)
    BY <1>5 DEF NewFlow, CodeInv
  <1> QED
    BY <1>2, <1>5, <1>6

LEMMA OptimizedFlow ==
    ASSUME BuildInv, CodeInv, FinishOptimized
    PROVE  /\ DOMAIN blk' = DOMAIN blk
           /\ \A b \in DOMAIN blk :
                 /\ Plain(blk'[b].instrs)
                 /\ Term(WithFinalReturn, b) => Term(blk', b)
                 /\ Out(blk', b) = Out(WithFinalReturn, b)
  <1> DEFINE final == WithFinalReturn
  <1>1. /\ final \in [DOMAIN blk -> BlockOf(Count)]
        /\ \A b \in DOMAIN blk : Plain(final[b].instrs)
    BY FinalFlow
  <1>2. blk' = [b \in DOMAIN blk |-> [final[b] EXCEPT !.instrs = Truncate(final[b].instrs)]]
    BY <1>1 DEF FinishOptimized, BlockOf
  <1> HIDE DEF final
  <1>3. DOMAIN blk' = DOMAIN blk /\ \A b \in DOMAIN blk : blk'[b].instrs = Truncate(final[b].instrs)
    BY <1>1, <1>2 DEF BlockOf
  <1>4. \A b \in DOMAIN blk : final[b].instrs \in Seq(InstrOf(Count))
    BY <1>1 DEF BlockOf
  <1>5. \A b \in DOMAIN blk :
           LET s == final[b].instrs
           IN  /\ FirstTerminator(s) # {} => FirstTerminator(Truncate(s)) # {}
               /\ Leaves(Truncate(s)) = Leaves(s)
               /\ Plain(s) => Plain(Truncate(s))
    BY <1>4, TruncateHarmless
  <1> QED
    BY <1>1, <1>3, <1>5 DEF Term, Out, final

LEMMA FinishLeaves ==
    ASSUME BuildInv, BuildInv', FlowInv, FinishOptimized \/ FinishPlain
    PROVE  FlowInv'
  <1> DEFINE final == WithFinalReturn
  <1>1. /\ phase = "build" /\ open = <<>> /\ (void \/ returns)
        /\ phase' \in {"prune", "done"} /\ trusted' = trusted
    BY DEF FinishOptimized, FinishPlain, Accepted, check
  <1>2. Count \in Nat /\ DOMAIN blk = 0..(Count - 1)
    BY LabelFacts
  <1>3. final \in [DOMAIN blk -> BlockOf(Count)]
    BY <1>2, FinalReturnTypes
  <1>4. (void => NewFlow(final, {})) /\ (~void => final = blk)
    BY FinalFlow DEF FlowInv
  <1>5. \A b \in DOMAIN blk : Plain(final[b].instrs)
    BY <1>4 DEF NewFlow, FlowInv, CodeInv
  <1>6. ~trusted => \E S \in SUBSET (DOMAIN blk) :
               /\ Reaches(S)
               /\ \A b \in S : Term(final, b) /\ Out(final, b) = Out(blk, b)
    <2> SUFFICES ASSUME ~trusted
                 PROVE  \E S \in SUBSET (DOMAIN blk) :
                           /\ Reaches(S)
                           /\ \A b \in S : Term(final, b) /\ Out(final, b) = Out(blk, b)
      OBVIOUS
    <2>0. phase = "build"
      BY <1>1
    <2>1. PICK S : Covers(S)
      BY <2>0 DEF FlowInv, LeaveInv
    <2>2. S \subseteq DOMAIN blk /\ Reaches(S)
      BY <2>1 DEF Covers, Reaches
    <2>3. \A b : ~Waits(b)
      <3>1. DOMAIN open = {}
        BY <1>1
      <3> QED
        BY <3>1 DEF Waits
    <2>4. \A b \in S : Term(blk, b) \/ b = cur
      BY <2>1, <2>3 DEF Covers, RunsOff
    <2> HIDE DEF final
    <2>5. CASE void
      <3>1. \A b \in S : ~Term(blk, b) => Out(blk, b) = {}
        <4> TAKE b \in S
        <4>1. blk[b].instrs \in Seq(InstrOf(Count)) /\ Plain(blk[b].instrs)
          BY <2>2, LabelFacts DEF FlowInv, CodeInv
        <4> QED
          BY <4>1, OpenLeavesNowhere DEF Term, Out
      <3>2. \A b \in S : Term(final, b) /\ Out(final, b) = Out(blk, b)
        BY <1>4, <2>2, <2>4, <2>5, <3>1 DEF NewFlow
      <3> QED
        BY <2>2, <3>2
    <2>6. CASE ~void
      <3>1. cur \notin S \/ Term(blk, cur)
        BY <1>1, <2>1, <2>6 DEF Covers, RunsOff
      <3> QED
        BY <1>4, <2>2, <2>4, <2>6, <3>1
    <2> QED
      BY <2>5, <2>6
  <1>7. /\ DOMAIN blk' = DOMAIN blk
        /\ \A b \in DOMAIN blk :
              /\ Plain(blk'[b].instrs)
              /\ Term(final, b) => Term(blk', b) /\ Out(blk', b) = Out(final, b)
    <2>1. CASE FinishOptimized
      BY <1>5, <2>1, OptimizedFlow DEF FlowInv
    <2>2. CASE FinishPlain
      <3>1. /\ DOMAIN blk' = DOMAIN blk
            /\ \A b \in DOMAIN blk : blk'[b] = IF final[b].instrs = <<>>
                                               THEN [final[b] EXCEPT !.instrs = <<Br(b)>>]
                                               ELSE final[b]
        BY <2>2 DEF FinishPlain
      <3> HIDE DEF final
      <3> SUFFICES ASSUME NEW b \in DOMAIN blk
                   PROVE  /\ Plain(blk'[b].instrs)
                          /\ Term(final, b) => Term(blk', b) /\ Out(blk', b) = Out(final, b)
        BY <3>1
      <3>2. CASE final[b].instrs = <<>>
        <4>1. ~Term(final, b)
          BY <3>2, EmptyFlow DEF Term
        <4> DEFINE code == <<Br(b)>>
        <4>2. Plain(code)
          BY BrJumps DEF Jumps
        <4> HIDE DEF code
        <4>3. [final[b] EXCEPT !.instrs = code].instrs = code
          BY <1>3 DEF BlockOf
        <4>4. blk'[b].instrs = code
          BY <3>1, <3>2, <4>3 DEF code
        <4> QED
          BY <4>1, <4>2, <4>4
      <3>3. CASE final[b].instrs # <<>>
        BY <1>5, <3>1, <3>3 DEF Term, Out
      <3> QED
        BY <3>2, <3>3
    <2> QED
      BY <2>1, <2>2
  <1> HIDE DEF final
  <1>8. CodeInv'
    BY <1>7 DEF CodeInv
  <1>9. ~trusted => \E S \in SUBSET (DOMAIN blk) :
               /\ Reaches(S)
               /\ \A b \in S : Term(blk', b) /\ Out(blk', b) = Out(blk, b)
    <2> SUFFICES ASSUME ~trusted
                 PROVE  \E S \in SUBSET (DOMAIN blk) :
                           /\ Reaches(S)
                           /\ \A b \in S : Term(blk', b) /\ Out(blk', b) = Out(blk, b)
      OBVIOUS
    <2>1. PICK S \in SUBSET (DOMAIN blk) :
             Reaches(S) /\ \A b \in S : Term(final, b) /\ Out(final, b) = Out(blk, b)
      BY <1>6
    <2>2. \A b \in S : Term(blk', b) /\ Out(blk', b) = Out(blk, b)
      BY <1>7, <2>1
    <2> QED
      BY <2>1, <2>2
  <1>10. LeaveInv'
    BY <1>1, <1>7, <1>9, KeepsLeaving
  <1>11. FreshInv'
    BY <1>1 DEF FreshInv
  <1> QED
    BY <1>8, <1>10, <1>11 DEF FlowInv

(* The pass rewrites no instruction.                                       *)
LEMMA PruneFlow ==
    ASSUME BuildInv, CodeInv, StartPass \/ FinishPrune \/ \E b \in unseen : RemoveBlock(b)
    PROVE  /\ DOMAIN blk' = DOMAIN blk
           /\ \A b \in DOMAIN blk :
                 /\ blk'[b].instrs = blk[b].instrs /\ Plain(blk'[b].instrs)
                 /\ Term(blk', b) = Term(blk, b) /\ Out(blk', b) = Out(blk, b)
  <1>1. blk' = blk \/ \E b \in unseen : blk' = Unlink(b, blk)
    BY DEF StartPass, FinishPrune, RemoveBlock, check
  <1>2. Count \in Nat /\ blk \in [0..(Count - 1) -> BlockOf(Count)]
    BY DEF BuildInv
  <1>3. DOMAIN blk' = DOMAIN blk /\ \A b \in DOMAIN blk : blk'[b].instrs = blk[b].instrs
    <2>1. CASE blk' = blk
      BY <2>1
    <2>2. CASE \E b \in unseen : blk' = Unlink(b, blk)
      <3>1. PICK b \in unseen : blk' = Unlink(b, blk)
        BY <2>2
      <3> QED
        BY <1>2, <3>1, UnlinkTypes
    <2> QED
      BY <1>1, <2>1, <2>2
  <1>4. \A b \in DOMAIN blk : /\ Plain(blk'[b].instrs)
                              /\ Term(blk', b) = Term(blk, b) /\ Out(blk', b) = Out(blk, b)
    BY <1>3 DEF CodeInv, Term, Out
  <1> QED
    BY <1>3, <1>4

LEMMA PruneLeaves ==
    ASSUME BuildInv, BuildInv', FlowInv,
           StartPass \/ FinishPrune \/ \E b \in unseen : RemoveBlock(b)
    PROVE  FlowInv'
  <1>1. phase = "prune" /\ phase' \in {"prune", "done"} /\ trusted' = trusted
    BY DEF StartPass, FinishPrune, RemoveBlock, check
  <1>3. DOMAIN blk' = DOMAIN blk /\ \A b \in DOMAIN blk : blk'[b].instrs = blk[b].instrs
    BY PruneFlow DEF FlowInv
  <1>4. \A b \in DOMAIN blk : /\ Plain(blk'[b].instrs)
                              /\ Term(blk', b) = Term(blk, b) /\ Out(blk', b) = Out(blk, b)
    BY PruneFlow DEF FlowInv
  <1>5. CodeInv'
    BY <1>3, <1>4 DEF CodeInv
  <1>6. ~trusted => \E S \in SUBSET (DOMAIN blk) :
               /\ Reaches(S)
               /\ \A b \in S : Term(blk', b) /\ Out(blk', b) = Out(blk, b)
    <2> SUFFICES ASSUME ~trusted
                 PROVE  \E S \in SUBSET (DOMAIN blk) :
                           /\ Reaches(S)
                           /\ \A b \in S : Term(blk', b) /\ Out(blk', b) = Out(blk, b)
      OBVIOUS
    <2>1. PICK S \in SUBSET (DOMAIN blk) : Reaches(S) /\ \A b \in S : Term(blk, b)
      BY <1>1 DEF FlowInv, LeaveInv
    <2> QED
      BY <1>4, <2>1
  <1>7. LeaveInv'
    BY <1>1, <1>3, <1>6, KeepsLeaving
  <1>8. FreshInv'
    BY <1>1 DEF FreshInv
  <1> QED
    BY <1>5, <1>7, <1>8 DEF FlowInv

LEMMA IdleLeaves ==
    ASSUME FlowInv, Reject \/ UNCHANGED vars
    PROVE  FlowInv'
  <1>1. CASE Reject
    <2>1. blk' = blk /\ phase' = "rejected"
      BY <1>1 DEF Reject
    <2> QED
      BY <2>1 DEF FlowInv, CodeInv, FreshInv, LeaveInv
  <1>2. CASE UNCHANGED vars
    <2>1. /\ blk' = blk /\ phase' = phase /\ cur' = cur /\ open' = open /\ returns' = returns
          /\ trusted' = trusted
      BY <1>2 DEF vars, check
    <2>2. CodeInv'
      BY <2>1 DEF FlowInv, CodeInv
    <2>3. FreshInv'
      BY <2>1 DEF FlowInv, FreshInv, Fresh, Apart, Exit, Other, Then
    <2>4. \A S : (Covers(S)' <=> Covers(S)) /\ (Reaches(S)' <=> Reaches(S))
      BY <2>1 DEF Covers, Reaches, RunsOff, Around, Waits, Exit, Other, Then, Term, Out
    <2>5. LeaveInv'
      BY <2>1, <2>4 DEF FlowInv, LeaveInv, Term
    <2> QED
      BY <2>2, <2>3, <2>5 DEF FlowInv
  <1> QED
    BY <1>1, <1>2

LEMMA InitLeaves ==
    ASSUME Init
    PROVE  FlowInv
  <1>1. /\ DOMAIN blk = {Entry} /\ blk[Entry].instrs = <<>> /\ cur = Entry
        /\ open = <<>> /\ DOMAIN open = {} /\ phase = "build" /\ returns = FALSE
    BY DEF Init, NewBlock
  <1>2. CodeInv
    BY <1>1, EmptyFlow DEF CodeInv
  <1>3. FreshInv
    BY <1>1 DEF FreshInv
  <1>4. Covers({Entry})
    BY <1>1, EmptyFlow DEF Covers, Reaches, RunsOff, Term, Out
  <1>5. LeaveInv
    BY <1>1, <1>4 DEF LeaveInv
  <1> QED
    BY <1>2, <1>3, <1>5 DEF FlowInv

LEMMA FlowStep ==
    ASSUME BuildInv, BuildInv', FlowInv, [Next]_vars
    PROVE  FlowInv'
  BY StatementLeaves, ReturnLeaves, ElseLeaves, EndIfLeaves, EndLoopLeaves, OpenLeaves,
     FinishLeaves, PruneLeaves, IdleLeaves DEF Next

LEMMA FlowAlways == Spec => []FlowInv
  <1> QED
    BY InvTyped, InitLeaves, FlowStep, PTL DEF Spec

-----------------------------------------------------------------------------
(* What is live.                                                           *)

-----------------------------------------------------------------------------
(* What is live.                                                           *)

(* Of the labels ls, and of their blocks' targets that are labels.         *)
Onward(ls) == ls \cup UNION {Exits(b) : b \in ls}

LEMMA ExitsAreOut ==
    \A b : Exits(b) = Out(blk, b)
  BY DEF Exits, Out, Leaves

LEMMA OnwardTypes ==
    ASSUME BuildInv, NEW ls, ls \subseteq DOMAIN blk
    PROVE  Onward(ls) \subseteq DOMAIN blk
  <1> SUFFICES ASSUME NEW b \in ls PROVE Exits(b) \subseteq DOMAIN blk
    BY DEF Onward
  <1> DEFINE n == Count
             s == blk[b].instrs
  <1>1. n \in Nat /\ DOMAIN blk = 0..(n - 1) /\ s \in Seq(InstrOf(n))
    BY LabelFacts
  <1> HIDE DEF n, s
  <1>2. Truncate(s) \in Seq(InstrOf(n))
    BY <1>1, FirstTerminatorIn
  <1> DEFINE t == Truncate(s)
  <1>3. CASE t = <<>>
    BY <1>3 DEF Exits, ToSet, s
  <1>4. CASE t # <<>>
    <2>1. Len(t) \in DOMAIN t /\ DOMAIN t = 1..Len(t)
      BY <1>2, <1>4, EmptySeq, LenProperties
    <2>2. t[Len(t)] \in InstrOf(n)
      BY <1>2, <2>1, ElementOfSeq
    <2>3. Last(t).dests \in Seq(0..(n - 1))
      BY <2>2 DEF InstrOf, Last
    <2> DEFINE d == Last(t).dests
    <2> HIDE DEF d
    <2>4. ToSet(d) \subseteq 0..(n - 1)
      <3>1. d \in [1..Len(d) -> 0..(n - 1)]
        BY <2>3, LenProperties DEF d
      <3> QED
        BY <3>1 DEF ToSet
    <2> QED
      BY <1>1, <1>4, <2>4 DEF Exits, s, d
  <1> QED
    BY <1>3, <1>4

(* The recursion that defines LiveWithin has a solution.                   *)
LEMMA LiveWithinDef ==
    ASSUME BuildInv
    PROVE  /\ LiveWithin[0] = {Entry}
           /\ \A n \in Nat : LiveWithin[n + 1] = Onward(LiveWithin[n])
  <1> DEFINE X == SUBSET (DOMAIN blk)
             g == [ls \in X |-> Onward(ls)]
             F(f) == [n \in Nat |-> IF n = 0 THEN {Entry}
                                    ELSE LET reached == f[n - 1]
                                         IN  reached \cup UNION {Exits(b) : b \in reached}]
  <1>1. {Entry} \in X /\ g \in [X -> X]
    BY LabelFacts, OnwardTypes
  <1>2. PICK f \in [Nat -> X] : f[0] = {Entry} /\ \A n \in Nat : f[n + 1] = g[f[n]]
    <2> HIDE DEF X, g
    <2> QED
      BY <1>1, Recursion
  <1>3. \A n \in Nat : f[n + 1] = Onward(f[n])
    BY <1>2
  <1>4. f = F(f)
    <2>1. f = [n \in Nat |-> f[n]]
      BY <1>2
    <2>2. \A n \in Nat : f[n] = F(f)[n]
      <3> TAKE n \in Nat
      <3>1. CASE n = 0
        BY <1>2, <3>1
      <3>2. CASE n # 0
        <4>1. n - 1 \in Nat /\ (n - 1) + 1 = n
          BY <3>2
        <4>2. f[n] = Onward(f[n - 1])
          BY <1>3, <4>1
        <4> QED
          BY <3>2, <4>2 DEF Onward
      <3> QED
        BY <3>1, <3>2
    <2>3. DOMAIN F(f) = Nat /\ F(f) = [n \in Nat |-> F(f)[n]]
      OBVIOUS
    <2> HIDE DEF F
    <2> QED
      BY <1>2, <2>1, <2>2, <2>3
  <1>5. LiveWithin = CHOOSE h : h = F(h)
    BY DEF LiveWithin
  <1> HIDE DEF F
  <1>6. LiveWithin = F(LiveWithin)
    BY <1>4, <1>5
  <1> USE DEF F
  <1>7. LiveWithin[0] = {Entry}
    BY <1>6
  <1>8. ASSUME NEW n \in Nat PROVE LiveWithin[n + 1] = Onward(LiveWithin[n])
    <2>1. n + 1 \in Nat /\ n + 1 # 0 /\ (n + 1) - 1 = n
      OBVIOUS
    <2>2. LiveWithin[n + 1] = F(LiveWithin)[n + 1]
      BY <1>6
    <2> QED
      BY <2>1, <2>2 DEF Onward
  <1> QED
    BY <1>7, <1>8

(* A set that holds the entry and what its blocks branch to holds Live.    *)
LEMMA ClosedHoldsLive ==
    ASSUME BuildInv, NEW S, Entry \in S, \A b \in S : Exits(b) \subseteq S
    PROVE  Live \subseteq S
  <1> DEFINE N == {n \in Nat : LiveWithin[n] \subseteq S}
  <1>1. 0 \in N
    BY LiveWithinDef
  <1>2. ASSUME NEW n \in Nat, n \in N PROVE n + 1 \in N
    <2>1. Onward(LiveWithin[n]) \subseteq S
      BY <1>2 DEF Onward
    <2> QED
      BY <2>1, LiveWithinDef
  <1> HIDE DEF N
  <1>3. \A n \in Nat : n \in N
    BY <1>1, <1>2, AllNats
  <1>4. Count \in N
    BY <1>3, LabelFacts
  <1> QED
    BY <1>4 DEF N, Live, Count

(* Whatever ReturnCheck accepts leaves the function by a return, for every *)
(* function, nesting and order of statements: no block that can run is run *)
(* off, and none is a filler that branches to itself.  A loop that was     *)
(* taken at its body's word is excepted (trusted).                         *)
THEOREM ReturnsAlwaysChecked == Spec => []ReturnsWhenChecked
  <1>1. BuildInv /\ FlowInv => ReturnsWhenChecked
    <2> SUFFICES ASSUME BuildInv, FlowInv, phase = "done", ~trusted PROVE LeavesByReturn
      BY DEF ReturnsWhenChecked
    <2>1. PICK S : Reaches(S) /\ \A b \in S : Term(blk, b)
      BY DEF FlowInv, LeaveInv
    <2>2. \A b \in S : Term(blk, b) /\ b \notin Exits(b)
      BY <2>1, ExitsAreOut DEF Reaches
    <2>3. Live \subseteq S
      BY <2>1, ExitsAreOut, ClosedHoldsLive DEF Reaches
    <2> QED
      BY <2>2, <2>3 DEF LeavesByReturn, Term
  <1> QED
    BY <1>1, InvTyped, FlowAlways, PTL

LEMMA ExitsAreDests ==
    ASSUME BuildInv, NEW b \in DOMAIN blk
    PROVE  Exits(b) \subseteq Dests(b, blk)
  <1> DEFINE s == blk[b].instrs
  <1>1. s \in Seq(InstrOf(Count))
    BY LabelFacts
  <1>2. ASSUME Truncate(s) # <<>>
        PROVE  \E i \in DOMAIN s : Last(Truncate(s)) = s[i]
    <2> HIDE DEF s
    <2>1. CASE FirstTerminator(s) = {}
      <3>1. Truncate(s) = s /\ Len(s) \in DOMAIN s
        BY <1>1, <1>2, <2>1, EmptySeq, LenProperties DEF Truncate
      <3> QED
        BY <3>1 DEF Last
    <2>2. CASE FirstTerminator(s) # {}
      <3>1. PICK i \in FirstTerminator(s) : TRUE
        BY <2>2
      <3>2. /\ i \in 1..Len(s) /\ Len(Truncate(s)) = i
            /\ \A j \in 1..i : Truncate(s)[j] = s[j]
        BY <1>1, <3>1, TruncateEnds
      <3>3. i \in DOMAIN s /\ i \in 1..i
        BY <1>1, <3>2, LenProperties
      <3> QED
        BY <3>2, <3>3 DEF Last
    <2> QED
      BY <2>1, <2>2
  <1>3. CASE Truncate(s) = <<>>
    BY <1>3 DEF Exits, ToSet
  <1>4. CASE Truncate(s) # <<>>
    <2>1. PICK i \in DOMAIN s : Last(Truncate(s)) = s[i]
      BY <1>2, <1>4
    <2>2. Exits(b) = ToSet(s[i].dests)
      BY <1>4, <2>1 DEF Exits
    <2> QED
      BY <2>2 DEF Dests
  <1> QED
    BY <1>3, <1>4

(* After every removal of the dead-code pass the blocks that can run are   *)
(* still in LLVMFuncDef.Blocks.                                            *)
LiveBlocksKept == phase \in {"prune", "done"} => Live \subseteq blocks

(* RemoveBlock removes nothing that can run, however long the function is, *)
(* in every order and after every number of rounds.                        *)
LEMMA LiveBlocksAlwaysKept == Spec => []LiveBlocksKept
  <1>1. BuildInv /\ TargetsKept => LiveBlocksKept
    <2> SUFFICES ASSUME BuildInv, TargetsKept, phase \in {"prune", "done"}
                 PROVE  Live \subseteq blocks
      BY DEF LiveBlocksKept
    <2>1. Entry \in blocks /\ blocks \subseteq DOMAIN blk /\ \A b \in blocks : Dests(b, blk) \subseteq blocks
      BY LabelFacts DEF TargetsKept, BuildInv
    <2>2. \A b \in blocks : Exits(b) \subseteq Dests(b, blk)
      BY <2>1, ExitsAreDests
    <2> QED
      BY <2>1, <2>2, ClosedHoldsLive
  <1> QED
    BY <1>1, InvTyped, TargetsAlwaysKept, PTL

-----------------------------------------------------------------------------
(* The queue.                                                              *)

(* r is the queue q with new blocks behind it.                             *)
Longer(q, r, L) ==
    /\ r \in Seq(L) /\ IsInjective(r)
    /\ Len(q) <= Len(r) /\ \A i \in 1..Len(q) : r[i] = q[i]

Once(q, d) == IF d \in ToSet(q) THEN q ELSE Append(q, d)

LEMMA OnceFacts ==
    ASSUME NEW L, NEW q \in Seq(L), IsInjective(q), NEW d \in L
    PROVE  /\ Longer(q, Once(q, d), L)
           /\ \A e : e \in ToSet(Once(q, d)) <=> e \in ToSet(q) \/ e = d
  <1>1. Len(q) \in Nat /\ DOMAIN q = 1..Len(q)
    BY LenProperties
  <1>2. CASE d \in ToSet(q)
    BY <1>1, <1>2 DEF Once, Longer
  <1>3. CASE d \notin ToSet(q)
    <2> DEFINE r == Append(q, d)
    <2>1. /\ r \in Seq(L) /\ Len(r) = Len(q) + 1 /\ r[Len(q) + 1] = d
          /\ \A i \in 1..Len(q) : r[i] = q[i]
      BY AppendProperties
    <2>2. DOMAIN r = 1..(Len(q) + 1)
      BY <2>1, LenProperties
    <2> HIDE DEF r
    <2>3. \A i \in 1..Len(q) : q[i] # d
      BY <1>1, <1>3 DEF ToSet
    <2>4. \A i \in 1..(Len(q) + 1) : i \in 1..Len(q) \/ i = Len(q) + 1
      BY <1>1
    <2>5. IsInjective(r)
      BY <1>1, <2>1, <2>2, <2>3, <2>4 DEF IsInjective
    <2>6. \A e : e \in ToSet(r) <=> e \in ToSet(q) \/ e = d
      <3>1. ASSUME NEW e, e \in ToSet(r) PROVE e \in ToSet(q) \/ e = d
        BY <3>1, <1>1, <2>1, <2>2, <2>4 DEF ToSet
      <3>2. ASSUME NEW e, e \in ToSet(q) PROVE e \in ToSet(r)
        <4>1. PICK i \in 1..Len(q) : q[i] = e
          BY <1>1, <3>2 DEF ToSet
        <4>2. i \in DOMAIN r /\ r[i] = e
          BY <1>1, <2>1, <2>2, <4>1
        <4> QED
          BY <4>2 DEF ToSet
      <3>3. d \in ToSet(r)
        <4>1. Len(q) + 1 \in DOMAIN r
          BY <1>1, <2>2
        <4> QED
          BY <2>1, <4>1 DEF ToSet
      <3> QED
        BY <3>1, <3>2, <3>3
    <2>7. Once(q, d) = r
      BY <1>3 DEF Once, r
    <2>8. Len(q) <= Len(r)
      BY <1>1, <2>1
    <2> QED
      BY <2>1, <2>5, <2>6, <2>7, <2>8 DEF Longer
  <1> QED
    BY <1>2, <1>3

LEMMA LongerAgain ==
    ASSUME NEW L, NEW p \in Seq(L), NEW q, NEW r, Longer(p, q, L), Longer(q, r, L)
    PROVE  Longer(p, r, L)
  <1>1. Len(p) \in Nat /\ Len(q) \in Nat /\ Len(r) \in Nat
    BY LenProperties DEF Longer
  <1>2. \A i \in 1..Len(p) : i \in 1..Len(q)
    BY <1>1 DEF Longer
  <1> QED
    BY <1>1, <1>2 DEF Longer

(* The loop of InOrderBlocks over the Succs of one block.                  *)
LEMMA EnqueueDef ==
    ASSUME NEW L, NEW seen \in Seq(L), NEW succs \in Seq(L)
    PROVE  \E f :
              /\ f[0] = seen /\ f[Len(succs)] = Enqueue(seen, succs)
              /\ \A j \in 1..Len(succs) : f[j] = Once(f[j - 1], succs[j])
  <1> DEFINE N == Len(succs)
             X == Seq(L)
             g == [p \in (1..N) \X X |-> Once(p[2], succs[p[1]])]
             F(f) == [j \in 0..N |->
                         IF j = 0 THEN seen
                         ELSE LET queue == f[j - 1]
                              IN  IF succs[j] \in ToSet(queue) THEN queue
                                  ELSE Append(queue, succs[j])]
  <1>1. N \in Nat /\ \A j \in 1..N : succs[j] \in L
    BY LenProperties, ElementOfSeq
  <1>2. \A j \in 1..N : \A q \in X : Once(q, succs[j]) \in X
    BY <1>1, AppendProperties DEF Once
  <1>3. g \in [(1..N) \X X -> X] /\ seen \in X
    <2> HIDE DEF X, N
    <2>1. \A p \in (1..N) \X X : p[1] \in 1..N /\ p[2] \in X
      OBVIOUS
    <2> QED
      BY <1>2, <2>1 DEF X
  <1>4. PICK f \in [0..N -> X] : f[0] = seen /\ \A j \in 1..N : f[j] = g[<<j, f[j - 1]>>]
    <2>1. Steps(N, X, seen, g)
      BY <1>1, <1>3 DEF Steps
    <2> HIDE DEF X, N, g
    <2> QED
      BY <2>1, BoundedRecursion
  <1>5. ASSUME NEW j \in 1..N PROVE f[j] = Once(f[j - 1], succs[j])
    <2> HIDE DEF X, N
    <2>1. j - 1 \in 0..N /\ f[j - 1] \in X
      BY <1>1, <1>4
    <2>2. <<j, f[j - 1]>> \in (1..N) \X X
      BY <2>1
    <2> QED
      BY <1>4, <2>2
  <1>6. f = F(f)
    <2>1. ASSUME NEW j \in 0..N PROVE f[j] = F(f)[j]
      <3>1. CASE j = 0
        BY <1>4, <3>1
      <3>2. CASE j # 0
        <4>1. j \in 1..N
          BY <1>1, <3>2
        <4> QED
          BY <1>5, <3>2, <4>1 DEF Once
      <3> QED
        BY <3>1, <3>2
    <2>2. f = [j \in 0..N |-> f[j]]
      BY <1>4
    <2>3. F(f) = [j \in 0..N |-> F(f)[j]]
      OBVIOUS
    <2> HIDE DEF F, N, X
    <2> QED
      BY <2>1, <2>2, <2>3
  <1>7. Enqueue(seen, succs) = (CHOOSE h : h = F(h))[N]
    BY DEF Enqueue
  <1> DEFINE h == CHOOSE h : h = F(h)
  <1>8. h = F(h)
    <2> HIDE DEF F
    <2> QED
      BY <1>6
  <1>9. N \in 0..N /\ 0 \in 0..N /\ \A j \in 1..N : j \in 0..N /\ j # 0
    BY <1>1
  <1> HIDE DEF h, N
  <1>10. h[0] = seen
    BY <1>8, <1>9
  <1>11. \A j \in 1..N : h[j] = Once(h[j - 1], succs[j])
    BY <1>8, <1>9 DEF Once
  <1> QED
    BY <1>7, <1>10, <1>11 DEF h, N

(* One block's Succs join the queue behind what is in it, each once.       *)
LEMMA EnqueueFacts ==
    ASSUME NEW L, NEW seen \in Seq(L), IsInjective(seen), NEW succs \in Seq(L)
    PROVE  /\ Longer(seen, Enqueue(seen, succs), L)
           /\ ToSet(succs) \subseteq ToSet(Enqueue(seen, succs))
  <1> DEFINE N == Len(succs)
  <1>1. PICK f : /\ f[0] = seen /\ f[N] = Enqueue(seen, succs)
                 /\ \A j \in 1..N : f[j] = Once(f[j - 1], succs[j])
    BY EnqueueDef
  <1>2. N \in Nat /\ DOMAIN succs = 1..N /\ \A j \in 1..N : succs[j] \in L
    BY LenProperties, ElementOfSeq
  <1> HIDE DEF N
  <1> DEFINE Good(j) == /\ Longer(seen, f[j], L)
                        /\ \A i \in 1..j : succs[i] \in ToSet(f[j])
             S == {j \in Nat : j <= N => Good(j)}
  <1>3. 0 \in S
    <2>1. Longer(seen, seen, L)
      BY LenProperties DEF Longer
    <2> QED
      BY <1>1, <2>1
  <1>4. ASSUME NEW j \in Nat, j \in S PROVE j + 1 \in S
    <2> SUFFICES ASSUME j + 1 <= N PROVE Good(j + 1)
      OBVIOUS
    <2>1. Good(j) /\ j + 1 \in 1..N /\ (j + 1) - 1 = j
      BY <1>2, <1>4
    <2>2. f[j] \in Seq(L) /\ IsInjective(f[j]) /\ succs[j + 1] \in L
      BY <1>2, <2>1 DEF Longer
    <2>3. f[j + 1] = Once(f[j], succs[j + 1])
      BY <1>1, <2>1
    <2>4. /\ Longer(f[j], f[j + 1], L)
          /\ \A e : e \in ToSet(f[j + 1]) <=> e \in ToSet(f[j]) \/ e = succs[j + 1]
      BY <2>2, <2>3, OnceFacts
    <2>5. Longer(seen, f[j + 1], L)
      BY <2>1, <2>4, LongerAgain
    <2>6. \A i \in 1..(j + 1) : i \in 1..j \/ i = j + 1
      OBVIOUS
    <2>7. \A i \in 1..(j + 1) : succs[i] \in ToSet(f[j + 1])
      BY <2>1, <2>4, <2>6
    <2> QED
      BY <2>5, <2>7
  <1> HIDE DEF S
  <1>5. \A j \in Nat : j \in S
    BY <1>3, <1>4, AllNats
  <1>6. Good(N)
    BY <1>2, <1>5 DEF S
  <1> QED
    BY <1>1, <1>2, <1>6 DEF ToSet

-----------------------------------------------------------------------------
(* The visits.                                                             *)

(* Blocks whose Succs are blocks.                                          *)
Graph(bs, n) ==
    /\ n \in Nat \ {0} /\ DOMAIN bs = 0..(n - 1)
    /\ \A b \in 0..(n - 1) : bs[b].succs \in Seq(0..(n - 1))

(* q has the entry, each block once, and the Succs of its first k blocks.  *)
Visited(bs, n, k, q) ==
    /\ q \in Seq(0..(n - 1)) /\ IsInjective(q)
    /\ Len(q) >= 1 /\ q[1] = Entry
    /\ \A i \in 1..Len(q) : i <= k => ToSet(bs[q[i]].succs) \subseteq ToSet(q)

Visit(bs, k, q) == IF k > Len(q) THEN q ELSE Enqueue(q, bs[q[k]].succs)

LEMMA VisitFacts ==
    ASSUME NEW bs, NEW n, Graph(bs, n), NEW k \in Nat, NEW q, Visited(bs, n, k, q)
    PROVE  Visited(bs, n, k + 1, Visit(bs, k + 1, q))
  <1>1. q \in Seq(0..(n - 1)) /\ IsInjective(q) /\ Len(q) \in Nat /\ DOMAIN q = 1..Len(q)
    BY LenProperties DEF Visited
  <1>2. CASE k + 1 > Len(q)
    <2>1. \A i \in 1..Len(q) : i <= k
      BY <1>1, <1>2
    <2> QED
      BY <1>2, <2>1 DEF Visited, Visit
  <1>3. CASE ~(k + 1 > Len(q))
    <2> DEFINE r == Enqueue(q, bs[q[k + 1]].succs)
    <2>1. k + 1 \in 1..Len(q)
      BY <1>1, <1>3
    <2>2. q[k + 1] \in 0..(n - 1)
      BY <1>1, <2>1, ElementOfSeq
    <2>3. bs[q[k + 1]].succs \in Seq(0..(n - 1))
      BY <2>2 DEF Graph
    <2>4. /\ Longer(q, r, 0..(n - 1))
          /\ ToSet(bs[q[k + 1]].succs) \subseteq ToSet(r)
      BY <1>1, <2>3, EnqueueFacts
    <2> HIDE DEF r
    <2>5. r \in Seq(0..(n - 1)) /\ Len(r) \in Nat /\ DOMAIN r = 1..Len(r)
      BY <2>4, LenProperties DEF Longer
    <2>6. ToSet(q) \subseteq ToSet(r)
      <3> SUFFICES ASSUME NEW e, e \in ToSet(q) PROVE e \in ToSet(r)
        OBVIOUS
      <3>1. PICK i \in 1..Len(q) : q[i] = e
        BY <1>1 DEF ToSet
      <3>2. i \in DOMAIN r /\ r[i] = e
        BY <1>1, <2>4, <2>5, <3>1 DEF Longer
      <3> QED
        BY <3>2 DEF ToSet
    <2>7. ASSUME NEW i \in 1..Len(r), i <= k + 1 PROVE ToSet(bs[r[i]].succs) \subseteq ToSet(r)
      <3>1. i \in 1..Len(q) /\ (i <= k \/ i = k + 1)
        BY <1>1, <2>1, <2>5, <2>7
      <3>2. r[i] = q[i]
        BY <2>4, <3>1 DEF Longer
      <3>3. CASE i <= k
        BY <2>6, <3>1, <3>2, <3>3 DEF Visited
      <3>4. CASE i = k + 1
        BY <2>4, <3>2, <3>4
      <3> QED
        BY <3>1, <3>3, <3>4
    <2>8. Len(r) >= 1 /\ r[1] = Entry
      <3>1. 1 \in 1..Len(q) /\ q[1] = Entry
        BY <1>1 DEF Visited
      <3> QED
        BY <1>1, <2>4, <2>5, <3>1 DEF Longer
    <2>9. Visit(bs, k + 1, q) = r
      BY <1>3 DEF Visit, r
    <2> QED
      BY <2>4, <2>5, <2>7, <2>8, <2>9 DEF Visited, Longer
  <1> QED
    BY <1>2, <1>3

(* The recursion that defines InOrderBlocks has a solution.                *)
LEMMA InOrderDef ==
    ASSUME NEW bs, NEW n, Graph(bs, n)
    PROVE  \E f : /\ f[0] = <<Entry>> /\ f[n] = InOrderBlocks(bs)
                  /\ \A k \in 1..n : f[k] = Visit(bs, k, f[k - 1])
  <1> DEFINE N == Cardinality(DOMAIN bs)
             X == {q \in Seq(0..(n - 1)) : IsInjective(q)}
             x == <<Entry>>
             g == [p \in (1..N) \X X |-> Visit(bs, p[1], p[2])]
             F(f) == [k \in 0..N |->
                         IF k = 0 THEN <<Entry>>
                         ELSE LET allSeen == f[k - 1]
                              IN  IF k > Len(allSeen) THEN allSeen
                                  ELSE Enqueue(allSeen, bs[allSeen[k]].succs)]
  <1>1. N = n /\ n \in Nat /\ n - 1 >= 0
    BY CountIs DEF Graph
  <1>2. ASSUME NEW k \in 1..N, NEW q \in X PROVE Visit(bs, k, q) \in X
    <2>1. CASE k > Len(q)
      BY <2>1 DEF Visit
    <2>2. CASE ~(k > Len(q))
      <3>1. k \in 1..Len(q) /\ q \in Seq(0..(n - 1)) /\ IsInjective(q)
        BY <1>1, <2>2, LenProperties
      <3>2. q[k] \in 0..(n - 1)
        BY <3>1, ElementOfSeq
      <3>3. bs[q[k]].succs \in Seq(0..(n - 1))
        BY <3>2 DEF Graph
      <3>4. Longer(q, Enqueue(q, bs[q[k]].succs), 0..(n - 1))
        BY <3>1, <3>3, EnqueueFacts
      <3> QED
        BY <2>2, <3>4 DEF Visit, Longer
    <2> QED
      BY <2>1, <2>2
  <1>3. Entry \in 0..(n - 1) /\ x \in X
    <2>1. Entry \in 0..(n - 1)
      BY <1>1 DEF Entry
    <2>2. DOMAIN x = {1}
      OBVIOUS
    <2> QED
      BY <2>1, <2>2 DEF IsInjective
  <1>4. g \in [(1..N) \X X -> X]
    <2> HIDE DEF X, N
    <2>1. \A p \in (1..N) \X X : p[1] \in 1..N /\ p[2] \in X
      OBVIOUS
    <2> QED
      BY <1>2, <2>1
  <1>5. PICK f \in [0..N -> X] : f[0] = x /\ \A k \in 1..N : f[k] = g[<<k, f[k - 1]>>]
    <2>1. Steps(N, X, x, g)
      BY <1>1, <1>3, <1>4 DEF Steps
    <2> HIDE DEF X, N, g, x
    <2> QED
      BY <2>1, BoundedRecursion
  <1>6. ASSUME NEW k \in 1..N PROVE f[k] = Visit(bs, k, f[k - 1])
    <2> HIDE DEF X, N, x
    <2>1. k - 1 \in 0..N /\ f[k - 1] \in X
      BY <1>1, <1>5
    <2>2. <<k, f[k - 1]>> \in (1..N) \X X
      BY <2>1
    <2> QED
      BY <1>5, <2>2
  <1>7. f = F(f)
    <2>1. ASSUME NEW k \in 0..N PROVE f[k] = F(f)[k]
      <3>1. CASE k = 0
        BY <1>5, <3>1
      <3>2. CASE k # 0
        <4>1. k \in 1..N
          BY <1>1, <3>2
        <4> QED
          BY <1>6, <3>2, <4>1 DEF Visit
      <3> QED
        BY <3>1, <3>2
    <2>2. f = [k \in 0..N |-> f[k]]
      BY <1>5
    <2>3. F(f) = [k \in 0..N |-> F(f)[k]]
      OBVIOUS
    <2> HIDE DEF F, N, X
    <2> QED
      BY <2>1, <2>2, <2>3
  <1>8. InOrderBlocks(bs) = (CHOOSE h : h = F(h))[N]
    BY DEF InOrderBlocks
  <1> DEFINE h == CHOOSE h : h = F(h)
  <1>9. h = F(h)
    <2> HIDE DEF F
    <2> QED
      BY <1>7
  <1>10. N \in 0..N /\ 0 \in 0..N /\ \A k \in 1..N : k \in 0..N /\ k # 0
    BY <1>1
  <1> HIDE DEF h, N
  <1>11. h[0] = <<Entry>>
    BY <1>9, <1>10
  <1>12. \A k \in 1..N : h[k] = Visit(bs, k, h[k - 1])
    BY <1>9, <1>10 DEF Visit
  <1> QED
    BY <1>1, <1>8, <1>11, <1>12 DEF h

(* A list that has no number twice is no longer than there are numbers.    *)
LEMMA InjectiveShort ==
    ASSUME NEW n \in Nat \ {0}, NEW q \in Seq(0..(n - 1)), IsInjective(q)
    PROVE  Len(q) <= n
  <1>1. /\ Len(q) \in Nat /\ DOMAIN q = 1..Len(q)
        /\ q \in [1..Len(q) -> 0..(n - 1)]
    BY LenProperties
  <1> SUFFICES ASSUME Len(q) > n PROVE FALSE
    BY <1>1
  <1>2. /\ IsFiniteSet(1..Len(q)) /\ Cardinality(1..Len(q)) = Len(q)
        /\ IsFiniteSet(0..(n - 1)) /\ Cardinality(0..(n - 1)) = n
    <2>1. 1 \in Int /\ Len(q) \in Int /\ 0 \in Int /\ n - 1 \in Int
      BY <1>1
    <2>2. /\ IsFiniteSet(1..Len(q))
          /\ Cardinality(1..Len(q)) = IF 1 > Len(q) THEN 0 ELSE Len(q) - 1 + 1
      BY <2>1, FS_Interval
    <2>3. /\ IsFiniteSet(0..(n - 1))
          /\ Cardinality(0..(n - 1)) = IF 0 > n - 1 THEN 0 ELSE (n - 1) - 0 + 1
      BY <2>1, FS_Interval
    <2> QED
      BY <1>1, <2>2, <2>3
  <1>3. \E i, j \in 1..Len(q) : i # j /\ q[i] = q[j]
    <2> DEFINE S == 1..Len(q)
               T == 0..(n - 1)
    <2>1. IsFiniteSet(S) /\ IsFiniteSet(T) /\ Cardinality(S) > Cardinality(T) /\ q \in [S -> T]
      BY <1>1, <1>2
    <2> HIDE DEF S, T
    <2>2. \E i, j \in S : i # j /\ q[i] = q[j]
      BY <2>1, FS_PigeonHole
    <2> QED
      BY <2>2 DEF S
  <1> QED
    BY <1>1, <1>3 DEF IsInjective

(* The queue after all visits.                                              *)
LEMMA InOrderVisited ==
    ASSUME NEW bs, NEW n, Graph(bs, n)
    PROVE  Visited(bs, n, n, InOrderBlocks(bs))
  <1>1. PICK f : /\ f[0] = <<Entry>> /\ f[n] = InOrderBlocks(bs)
                 /\ \A k \in 1..n : f[k] = Visit(bs, k, f[k - 1])
    BY InOrderDef
  <1>2. n \in Nat \ {0}
    BY DEF Graph
  <1> DEFINE S == {k \in Nat : k <= n => Visited(bs, n, k, f[k])}
  <1>3. 0 \in S
    <2> DEFINE x == <<Entry>>
    <2>1. Entry \in 0..(n - 1)
      BY <1>2 DEF Entry
    <2>2. x \in Seq(0..(n - 1)) /\ Len(x) = 1 /\ x[1] = Entry /\ DOMAIN x = {1}
      BY <2>1
    <2> HIDE DEF x
    <2>3. IsInjective(x)
      BY <2>2 DEF IsInjective
    <2>4. \A i \in 1..1 : ~(i <= 0)
      OBVIOUS
    <2>5. Visited(bs, n, 0, x)
      BY <2>2, <2>3, <2>4 DEF Visited
    <2> QED
      BY <1>1, <2>5 DEF x
  <1>4. ASSUME NEW k \in Nat, k \in S PROVE k + 1 \in S
    <2> SUFFICES ASSUME k + 1 <= n PROVE Visited(bs, n, k + 1, f[k + 1])
      OBVIOUS
    <2>1. Visited(bs, n, k, f[k]) /\ k + 1 \in 1..n /\ (k + 1) - 1 = k
      BY <1>2, <1>4
    <2>2. f[k + 1] = Visit(bs, k + 1, f[k])
      BY <1>1, <2>1
    <2> QED
      BY <2>1, <2>2, VisitFacts
  <1> HIDE DEF S
  <1>5. \A k \in Nat : k \in S
    BY <1>3, <1>4, AllNats
  <1> QED
    BY <1>1, <1>2, <1>5 DEF S

(* What is printed is closed under the edges.                              *)
LEMMA InOrderFacts ==
    ASSUME NEW bs, NEW n, Graph(bs, n)
    PROVE  LET printed == ToSet(InOrderBlocks(bs))
           IN  /\ printed \subseteq 0..(n - 1) /\ Entry \in printed
               /\ \A a \in printed : \A c : Edge(bs, a, c) => c \in printed
  <1> DEFINE q == InOrderBlocks(bs)
  <1>2. n \in Nat \ {0}
    BY DEF Graph
  <1>6. Visited(bs, n, n, q)
    BY InOrderVisited
  <1> HIDE DEF q
  <1>7. /\ q \in Seq(0..(n - 1)) /\ IsInjective(q) /\ Len(q) \in Nat /\ DOMAIN q = 1..Len(q)
        /\ q \in [1..Len(q) -> 0..(n - 1)]
    BY <1>6, LenProperties DEF Visited
  <1>8. Len(q) <= n
    BY <1>2, <1>7, InjectiveShort
  <1>9. ASSUME NEW a \in ToSet(q) PROVE a \in 0..(n - 1) /\ \A c : Edge(bs, a, c) => c \in ToSet(q)
    <2>1. PICK i \in 1..Len(q) : q[i] = a
      BY <1>7 DEF ToSet
    <2>2. i <= n
      BY <1>2, <1>7, <1>8
    <2>3. ToSet(bs[a].succs) \subseteq ToSet(q)
      BY <1>6, <2>1, <2>2 DEF Visited
    <2> QED
      BY <1>7, <2>1, <2>3 DEF Edge
  <1>10. Entry \in ToSet(q)
    <2>1. 1 \in DOMAIN q /\ q[1] = Entry
      BY <1>6, <1>7 DEF Visited
    <2> QED
      BY <2>1 DEF ToSet
  <1> QED
    BY <1>9, <1>10 DEF q

-----------------------------------------------------------------------------
(* Plain builds.                                                           *)

(* Whatever is in R was linked, when it was made, from a block in R.       *)
Rooted(R) == \A c \in R \ {Entry} : \E a \in R : a < c /\ Edge(blk, a, c)

LEMMA BlocksGraph ==
    ASSUME BuildInv
    PROVE  Graph(blk, Count)
  <1> DEFINE n == Count
  <1>1. /\ n \in Nat \ {0} /\ DOMAIN blk = 0..(n - 1)
        /\ blk \in [0..(n - 1) -> BlockOf(n)]
    BY LabelFacts DEF BuildInv
  <1> HIDE DEF n
  <1>2. Graph(blk, n)
    BY <1>1 DEF Graph, BlockOf
  <1> QED
    BY <1>2 DEF n

LEMMA EmittedFacts ==
    ASSUME BuildInv
    PROVE  /\ Emitted \subseteq DOMAIN blk /\ Entry \in Emitted
           /\ \A a \in Emitted : \A c : Edge(blk, a, c) => c \in Emitted
  <1> DEFINE n == Count
  <1>1. DOMAIN blk = 0..(n - 1) /\ Graph(blk, n)
    BY LabelFacts, BlocksGraph
  <1> HIDE DEF n
  <1> QED
    BY <1>1, InOrderFacts DEF Emitted

LEMMA RootedEmitted ==
    ASSUME BuildInv, NEW R, R \subseteq DOMAIN blk, Rooted(R)
    PROVE  R \subseteq Emitted
  <1> SUFFICES ASSUME R \ Emitted # {} PROVE FALSE
    OBVIOUS
  <1>1. R \subseteq Nat
    BY LabelFacts
  <1>2. PICK c \in R \ Emitted : \A a \in R \ Emitted : c <= a
    <2> DEFINE T == R \ Emitted
    <2>1. T \subseteq Nat /\ T # {}
      BY <1>1
    <2> HIDE DEF T
    <2>2. \E c \in T : \A a \in T : c <= a
      BY <2>1, LeastNat
    <2> QED
      BY <2>2 DEF T
  <1>3. c # Entry
    BY <1>2, EmittedFacts
  <1>4. PICK a \in R : a < c /\ Edge(blk, a, c)
    BY <1>2, <1>3 DEF Rooted
  <1>5. a \in Emitted
    BY <1>1, <1>2, <1>4
  <1> QED
    BY <1>2, <1>4, <1>5, EmittedFacts

(* Every block made so far is linked; and the pass runs under -O1 only.    *)
RootInv ==
    /\ phase = "build" \/ (phase = "done" /\ ~optimize) => Rooted(DOMAIN blk)
    /\ phase = "prune" => optimize

LEMMA OpeningRooted ==
    ASSUME BuildInv, Rooted(DOMAIN blk), NEW m, NEW new, NEW frame, NEW D,
           Opening(m, new, frame, D)
    PROVE  Rooted(DOMAIN blk)'
  <1>1. /\ m \in Nat \ {0} /\ DOMAIN blk = 0..(m - 1) /\ cur \in DOMAIN blk
        /\ DOMAIN blk' = DOMAIN blk \cup {m, m + 1, m + 2}
    BY LabelFacts DEF Opening
  <1>2. \A c \in DOMAIN blk : c \in Nat /\ c < m
    BY <1>1
  <1>3. \A a \in DOMAIN blk : \A c : Edge(blk', a, c) <=> Edge(blk, a, c) \/ (a = cur /\ c \in D)
    BY DEF Opening
  <1>4. ASSUME NEW c \in DOMAIN blk' \ {Entry} PROVE \E a \in DOMAIN blk' : a < c /\ Edge(blk', a, c)
    <2>1. CASE c \in DOMAIN blk
      <3>1. PICK a \in DOMAIN blk : a < c /\ Edge(blk, a, c)
        BY <1>4, <2>1 DEF Rooted
      <3> QED
        BY <1>1, <1>3, <3>1
    <2>2. CASE c \in D
      <3>1. Edge(blk', cur, c) /\ cur < m
        BY <1>1, <1>2, <1>3, <2>2
      <3>2. c \in {m, m + 1, m + 2} /\ cur < c
        BY <1>1, <1>2, <2>2, <3>1 DEF Opening
      <3> QED
        BY <1>1, <3>1, <3>2
    <2>3. CASE c \notin DOMAIN blk /\ c \notin D
      <3>1. c \in {m, m + 1, m + 2}
        BY <1>1, <2>3
      <3>2. CASE frame.kind = "then"
        <4>1. c = m + 2 /\ Edge(blk', m, m + 2)
          BY <2>3, <3>1, <3>2 DEF Opening
        <4>2. m < m + 2
          BY <1>1
        <4> QED
          BY <1>1, <4>1, <4>2
      <3>3. CASE frame.kind # "then"
        <4>1. c \in {m + 1, m + 2} /\ Edge(blk', m, c)
          BY <2>3, <3>1, <3>3 DEF Opening
        <4>2. m < c
          BY <1>1, <4>1
        <4> QED
          BY <1>1, <4>1, <4>2
      <3> QED
        BY <3>2, <3>3
    <2> QED
      BY <2>1, <2>2, <2>3
  <1> QED
    BY <1>4 DEF Rooted

(* No other statement touches an edge.                                     *)
LEMMA SimpleEdges ==
    ASSUME BuildInv, CodeInv, Statement \/ Return \/ Else \/ EndIf \/ EndLoop
    PROVE  DOMAIN blk' = DOMAIN blk /\ SameEdges(blk') /\ phase' = "build" /\ phase = "build"
  <1> DEFINE n == Len(open)
  <1> HIDE DEF n
  <1>1. DOMAIN blk' = DOMAIN blk /\ SameEdges(blk')
    BY StatementFlow, ReturnFlow, ElseFlow, EndIfFlow, EndLoopFlow
  <1>2. phase' = "build" /\ phase = "build"
    BY DEF Statement, Return, Else, EndIf, EndLoop, Read
  <1> QED
    BY <1>1, <1>2

LEMMA FinishEdges ==
    ASSUME BuildInv, FinishOptimized \/ FinishPlain
    PROVE  DOMAIN blk' = DOMAIN blk /\ SameEdges(blk')
  <1>1. blk \in [0..(Count - 1) -> BlockOf(Count)] /\ cur \in DOMAIN blk
    BY LabelFacts DEF BuildInv
  <1>2. /\ DOMAIN WithFinalReturn = DOMAIN blk
        /\ \A a \in DOMAIN blk : /\ WithFinalReturn[a].succs = blk[a].succs
    BY <1>1 DEF WithFinalReturn, Add, BlockOf
  <1>3. WithFinalReturn \in [0..(Count - 1) -> BlockOf(Count)]
    BY FinalReturnTypes
  <1>4. \A a \in DOMAIN blk : \A code :
            [WithFinalReturn[a] EXCEPT !.instrs = code].succs = blk[a].succs
    BY <1>1, <1>2, <1>3 DEF BlockOf
  <1>5. CASE FinishOptimized
    BY <1>4, <1>5 DEF FinishOptimized, SameEdges
  <1>6. CASE FinishPlain
    BY <1>2, <1>4, <1>6 DEF FinishPlain, SameEdges
  <1> QED
    BY <1>5, <1>6

LEMMA SameEdgesRooted ==
    ASSUME DOMAIN blk' = DOMAIN blk, SameEdges(blk'), NEW R, R \subseteq DOMAIN blk
    PROVE  Rooted(R)' <=> Rooted(R)
  <1>1. \A a \in DOMAIN blk : \A c : Edge(blk', a, c) <=> Edge(blk, a, c)
    BY DEF SameEdges, Edge
  <1> QED
    BY <1>1 DEF Rooted

LEMMA RootStep ==
    ASSUME BuildInv, CodeInv, RootInv, [Next]_vars
    PROVE  RootInv'
  <1>1. CASE Statement \/ Return \/ Else \/ EndIf \/ EndLoop
    <2>1. DOMAIN blk' = DOMAIN blk /\ SameEdges(blk') /\ phase' = "build" /\ phase = "build"
      BY <1>1, SimpleEdges
    <2> DEFINE R == DOMAIN blk
    <2>2. PICK T : T = R
      OBVIOUS
    <2>3. Rooted(T)' <=> Rooted(T)
      BY <2>1, <2>2, SameEdgesRooted
    <2> QED
      BY <2>1, <2>2, <2>3 DEF RootInv
  <1>2. CASE OpenIf \/ OpenLoop
    <2>1. PICK m, new, frame, D : Opening(m, new, frame, D)
      BY <1>2, OpenIfOpens, OpenLoopOpens
    <2>2. phase = "build" /\ phase' = "build"
      BY <2>1 DEF Opening
    <2> QED
      BY <2>1, <2>2, OpeningRooted DEF RootInv
  <1>3. CASE FinishOptimized \/ FinishPlain
    <2>1. DOMAIN blk' = DOMAIN blk /\ SameEdges(blk')
      BY <1>3, FinishEdges
    <2>2. PICK T : T = DOMAIN blk
      OBVIOUS
    <2>3. Rooted(T)' <=> Rooted(T)
      BY <2>1, <2>2, SameEdgesRooted
    <2>4. /\ phase = "build" /\ phase' \in {"prune", "done"}
          /\ phase' = "prune" => optimize'
      BY <1>3 DEF FinishOptimized, FinishPlain, source
    <2> QED
      BY <2>1, <2>2, <2>3, <2>4 DEF RootInv
  <1>4. CASE StartPass \/ FinishPrune \/ \E b \in unseen : RemoveBlock(b)
    BY <1>4 DEF RootInv, StartPass, FinishPrune, RemoveBlock, source
  <1>5. CASE Reject \/ UNCHANGED vars
    BY <1>5 DEF RootInv, Reject, vars, source, Rooted
  <1> QED
    BY <1>1, <1>2, <1>3, <1>4, <1>5 DEF Next

LEMMA InitRooted ==
    ASSUME Init
    PROVE  RootInv
  <1>1. DOMAIN blk = {Entry} /\ phase = "build"
    BY DEF Init
  <1> QED
    BY <1>1 DEF RootInv, Rooted

LEMMA RootAlways == Spec => []RootInv
  <1>1. BuildInv /\ FlowInv /\ RootInv /\ [Next]_vars => RootInv'
    BY RootStep DEF FlowInv
  <1> QED
    BY <1>1, InitRooted, InvTyped, FlowAlways, PTL DEF Spec

(* In a plain build every branch printed, in dead code too, goes to a      *)
(* block that is printed: Succs, which only NewIfBlock and NewForBlock     *)
(* set, leads InOrderBlocks to every block there is.                       *)
THEOREM PlainAlwaysEmitted == Spec => []PlainTargetsEmitted
  <1>1. BuildInv /\ RootInv => PlainTargetsEmitted
    <2> SUFFICES ASSUME BuildInv, RootInv, phase = "done", ~optimize,
                        NEW b \in Emitted, NEW i \in DOMAIN blk[b].instrs
                 PROVE  ToSet(blk[b].instrs[i].dests) \subseteq Emitted
      BY DEF PlainTargetsEmitted
    <2> DEFINE n == Count
    <2>1. n \in Nat /\ DOMAIN blk = 0..(n - 1) /\ blk \in [0..(n - 1) -> BlockOf(n)]
      BY LabelFacts DEF BuildInv
    <2>2. b \in 0..(n - 1)
      BY <2>1, EmittedFacts
    <2> HIDE DEF n
    <2>3. Dests(b, blk) \subseteq 0..(n - 1)
      BY <2>1, <2>2, DestsAreLabels
    <2>4. ToSet(blk[b].instrs[i].dests) \subseteq Dests(b, blk)
      BY DEF Dests
    <2>5. DOMAIN blk \subseteq Emitted
      BY RootedEmitted DEF RootInv
    <2> QED
      BY <2>1, <2>3, <2>4, <2>5
  <1> QED
    BY <1>1, InvTyped, RootAlways, PTL

-----------------------------------------------------------------------------
(* Optimized builds: while a function is built.                            *)

(* The labels made for open statement i and since, except its exit.  Edges *)
(* from elsewhere enter them at a head only: the entry of a loop, or the   *)
(* two bodies of a conditional.                                            *)
Inside(i, c) == c \in {Exit(i) - 2, Exit(i) - 1} \/ c > Exit(i)
Heads(i) == IF open[i].kind = "loop" THEN {Exit(i) - 2} ELSE {Exit(i) - 2, Exit(i) - 1}
Enclosed(i) ==
    /\ Exit(i) > 2
    /\ Other(i) = IF open[i].kind = "loop" THEN Exit(i) - 2 ELSE Exit(i) - 1
    /\ open[i].kind # "loop" => \A h \in Heads(i) : Edge(blk, h, Exit(i))
    /\ Inside(i, cur)
    /\ \A j \in DOMAIN open : j > i => Exit(j) > Exit(i) + 2
    /\ \A a \in DOMAIN blk : \A c \in DOMAIN blk :
          Edge(blk, a, c) /\ Inside(i, c) => Inside(i, a) \/ c \in Heads(i)

(* A block that control leaves for d is linked only through a block that   *)
(* is linked to d.                                                         *)
Grounded(b, d) ==
    \A R \in SUBSET (DOMAIN blk) :
        Rooted(R) /\ b \in R => \E a \in R : a < d /\ Edge(blk, a, d)

Linked ==
    /\ \A i \in DOMAIN open : Enclosed(i)
    /\ \A b \in DOMAIN blk : \A d \in Out(blk, b) : Grounded(b, d)

(* What is inside an open statement is linked through one of its heads.    *)
LEMMA ThroughAHead ==
    ASSUME BuildInv, NEW i \in DOMAIN open, Enclosed(i),
           NEW R, R \subseteq DOMAIN blk, Rooted(R), NEW b \in R, Inside(i, b)
    PROVE  \E h \in R : h \in Heads(i) /\ \E a \in R : a < h /\ Edge(blk, a, h)
  <1>1. R \subseteq Nat /\ Exit(i) \in Nat /\ DOMAIN blk \subseteq Nat
    BY LabelFacts
  <1> DEFINE T == {c \in R : Inside(i, c)}
  <1>2. T \subseteq Nat /\ T # {}
    BY <1>1
  <1> HIDE DEF T
  <1>3. PICK h \in T : \A c \in T : h <= c
    BY <1>2, LeastNat
  <1>4. h \in R /\ Inside(i, h) /\ h \in DOMAIN blk
    BY <1>3 DEF T
  <1>5. h # Entry
    <2>1. Exit(i) > 2
      BY DEF Enclosed
    <2> QED
      BY <1>1, <1>4, <2>1 DEF Inside, Entry
  <1>6. PICK a \in R : a < h /\ Edge(blk, a, h)
    BY <1>4, <1>5 DEF Rooted
  <1>7. ~Inside(i, a)
    <2>1. a \in Nat /\ h \in Nat /\ ~(h <= a)
      BY <1>1, <1>4, <1>6
    <2> QED
      BY <1>3, <2>1 DEF T
  <1>8. h \in Heads(i)
    <2>1. a \in DOMAIN blk
      OBVIOUS
    <2> QED
      BY <1>4, <1>6, <1>7, <2>1 DEF Enclosed
  <1> QED
    BY <1>4, <1>6, <1>8

(* The branch behind a body of a conditional, and the one behind a loop's. *)
LEMMA BodyGrounded ==
    ASSUME BuildInv, NEW n \in DOMAIN open, Enclosed(n),
           NEW d, d = IF open[n].kind = "loop" THEN Other(n) ELSE Exit(n)
    PROVE  Grounded(cur, d)
  <1> SUFFICES ASSUME NEW R \in SUBSET (DOMAIN blk), Rooted(R), cur \in R
               PROVE  \E a \in R : a < d /\ Edge(blk, a, d)
    BY DEF Grounded
  <1>1. Inside(n, cur) /\ R \subseteq DOMAIN blk
    BY DEF Enclosed
  <1>2. PICK h \in R : h \in Heads(n) /\ \E a \in R : a < h /\ Edge(blk, a, h)
    BY <1>1, ThroughAHead
  <1>3. CASE open[n].kind = "loop"
    <2>1. h = d
      BY <1>2, <1>3 DEF Heads, Enclosed
    <2> QED
      BY <1>2, <2>1
  <1>4. CASE open[n].kind # "loop"
    <2>1. Exit(n) \in Nat /\ h \in {Exit(n) - 2, Exit(n) - 1}
      BY <1>2, <1>4, LabelFacts DEF Heads
    <2>2. h < d
      BY <1>4, <2>1
    <2>3. Edge(blk, h, d)
      BY <1>2, <1>4 DEF Enclosed
    <2> QED
      BY <2>2, <2>3
  <1> QED
    BY <1>3, <1>4

(* Statements that add no block: branches behind what they end.            *)
LEMMA KeepsLinked ==
    ASSUME BuildInv, Linked, DOMAIN blk' = DOMAIN blk, SameEdges(blk'), DOMAIN open' \subseteq DOMAIN open,
           \A i \in DOMAIN open' :
              /\ Exit(i)' = Exit(i) /\ Other(i)' = Other(i)
              /\ open'[i].kind = "loop" <=> open[i].kind = "loop"
              /\ Inside(i, cur'),
           \A b \in DOMAIN blk : \A d \in Out(blk', b) : d \in Out(blk, b) \/ Grounded(b, d)
    PROVE  Linked'
  <1>1. \A a \in DOMAIN blk : \A c : Edge(blk', a, c) <=> Edge(blk, a, c)
    BY DEF SameEdges, Edge
  <1>2. ASSUME NEW i \in DOMAIN open' PROVE Enclosed(i)'
    <2>1. i \in DOMAIN open /\ Enclosed(i)
      BY <1>2 DEF Linked
    <2>2. /\ \A c : Inside(i, c)' <=> Inside(i, c)
          /\ Heads(i)' = Heads(i)
      BY <1>2 DEF Inside, Heads
    <2>3. Inside(i, cur)'
      BY <1>2, <2>2 DEF Inside
    <2>4. Exit(i)' > 2 /\ Other(i)' = IF open'[i].kind = "loop" THEN Exit(i)' - 2 ELSE Exit(i)' - 1
      BY <1>2, <2>1 DEF Enclosed
    <2>5. \A j \in DOMAIN open' : j > i => Exit(j)' > Exit(i)' + 2
      BY <1>2, <2>1 DEF Enclosed
    <2>6. \A a \in DOMAIN blk : \A c \in DOMAIN blk :
             Edge(blk', a, c) /\ Inside(i, c)' => Inside(i, a)' \/ c \in Heads(i)'
      BY <1>1, <2>1, <2>2 DEF Enclosed
    <2>7. open'[i].kind # "loop" => \A h \in Heads(i)' : Edge(blk', h, Exit(i)')
      <3> SUFFICES ASSUME open'[i].kind # "loop", NEW h \in Heads(i)
                   PROVE  blk'[h].succs = blk[h].succs /\ Edge(blk, h, Exit(i))
        BY <1>2, <2>2 DEF Edge
      <3>1. Edge(blk, h, Exit(i))
        BY <1>2, <2>1 DEF Enclosed
      <3>2. Exit(i) > 2 /\ h \in {Exit(i) - 2, Exit(i) - 1}
        BY <2>1 DEF Enclosed, Heads
      <3>3. h \in DOMAIN blk
        BY <2>1, <3>2, LabelFacts
      <3> QED
        BY <3>1, <3>3 DEF SameEdges
    <2> QED
      BY <2>3, <2>4, <2>5, <2>6, <2>7 DEF Enclosed
  <1>3. ASSUME NEW b \in DOMAIN blk, NEW d \in Out(blk', b) PROVE Grounded(b, d)'
    <2>1. Grounded(b, d)
      BY <1>3 DEF Linked
    <2>2. \A R \in SUBSET (DOMAIN blk) : Rooted(R)' <=> Rooted(R)
      BY SameEdgesRooted
    <2>3. ASSUME NEW R \in SUBSET (DOMAIN blk), Rooted(R)', b \in R
          PROVE  \E a \in R : a < d /\ Edge(blk', a, d)
      <3>1. PICK a \in R : a < d /\ Edge(blk, a, d)
        BY <2>1, <2>2, <2>3 DEF Grounded
      <3> QED
        BY <1>1, <3>1
    <2> QED
      BY <2>3 DEF Grounded
  <1> QED
    BY <1>2, <1>3 DEF Linked

LEMMA SimpleLinked ==
    ASSUME BuildInv, CodeInv, Linked, Statement \/ Return
    PROVE  Linked'
  <1>1. /\ DOMAIN blk' = DOMAIN blk /\ SameEdges(blk')
        /\ \A b \in DOMAIN blk : \A d \in Out(blk', b) : d \in Out(blk, b)
    <2>1. CASE Statement
      BY <2>1, StatementFlow DEF SameFlow
    <2>2. CASE Return
      BY <2>2, ReturnFlow DEF NewFlow
    <2> QED
      BY <2>1, <2>2
  <1>2. open' = open /\ cur' = cur
    BY DEF Statement, Return
  <1>3. \A i \in DOMAIN open' :
           /\ Exit(i)' = Exit(i) /\ Other(i)' = Other(i)
           /\ open'[i].kind = "loop" <=> open[i].kind = "loop"
           /\ Inside(i, cur')
    BY <1>2 DEF Exit, Other, Linked, Enclosed
  <1>4. DOMAIN open' \subseteq DOMAIN open
    BY <1>2
  <1> QED
    BY <1>1, <1>3, <1>4, KeepsLinked


LEMMA ElseLinked ==
    ASSUME BuildInv, CodeInv, Linked, Else
    PROVE  Linked'
  <1>1. PICK n : n = Len(open)
    OBVIOUS
  <1>2. n \in DOMAIN open /\ n \in Nat /\ Last(open) = open[n] /\ \A i \in DOMAIN open : i <= n
    BY <1>1, Innermost DEF Else
  <1>3. /\ open[n].kind = "then" /\ cur' = Other(n)
        /\ open' = [open EXCEPT ![n].kind = "else", ![n].then = returns]
    BY <1>1, <1>2 DEF Else, Other
  <1>4. DOMAIN open' = DOMAIN open
    BY <1>3
  <1>5. ASSUME NEW i \in DOMAIN open
        PROVE  /\ Exit(i)' = Exit(i) /\ Other(i)' = Other(i)
               /\ open'[i].kind = "loop" <=> open[i].kind = "loop"
    <2>1. CASE i = n
      <3> DEFINE k == Count
      <3>1. open[n] \in FrameOf(k)
        BY <1>2, LabelFacts, ElementOfSeq
      <3> HIDE DEF k
      <3>2. open'[n] = [open[n] EXCEPT !.kind = "else", !.then = returns]
        BY <1>2, <1>3
      <3> QED
        BY <1>3, <2>1, <3>1, <3>2 DEF Exit, Other, FrameOf
    <2>2. CASE i # n
      BY <1>3, <1>5, <2>2 DEF Exit, Other
    <2> QED
      BY <2>1, <2>2
  <1>6. ASSUME NEW i \in DOMAIN open PROVE Inside(i, cur')
    <2>1. Exit(i) \in Nat /\ Exit(n) \in Nat /\ i \in Nat
      BY <1>2, LabelFacts
    <2>2. cur' = Exit(n) - 1
      BY <1>2, <1>3 DEF Linked, Enclosed
    <2>3. CASE i = n
      BY <2>2, <2>3 DEF Inside
    <2>4. CASE i # n
      <3>1. n > i
        BY <1>2, <2>1, <2>4
      <3>2. Exit(n) > Exit(i) + 2
        BY <1>2, <3>1 DEF Linked, Enclosed
      <3> QED
        BY <2>1, <2>2, <3>2 DEF Inside
    <2> QED
      BY <2>3, <2>4
  <1>7. Grounded(cur, Exit(n))
    BY <1>2, <1>3, BodyGrounded DEF Linked
  <1>8. /\ DOMAIN blk' = DOMAIN blk /\ SameEdges(blk')
        /\ \A b \in DOMAIN blk : \A d \in Out(blk', b) : d \in Out(blk, b) \/ Grounded(b, d)
    BY <1>1, <1>7, ElseFlow DEF NewFlow
  <1> QED
    BY <1>4, <1>5, <1>6, <1>8, KeepsLinked

LEMMA ClosingLinked ==
    ASSUME BuildInv, CodeInv, Linked, EndIf \/ EndLoop
    PROVE  Linked'
  <1>1. PICK n : n = Len(open)
    OBVIOUS
  <1>2. /\ n \in DOMAIN open /\ n \in Nat /\ Last(open) = open[n]
        /\ DOMAIN Front(open) = 1..(n - 1)
        /\ \A i \in 1..(n - 1) : i \in DOMAIN open /\ i # n /\ Front(open)[i] = open[i]
    BY <1>1, Innermost DEF EndIf, EndLoop
  <1>3. open' = Front(open) /\ cur' = Exit(n)
    BY <1>2 DEF EndIf, EndLoop, Exit
  <1>4. DOMAIN open' \subseteq DOMAIN open
    BY <1>2, <1>3
  <1>5. ASSUME NEW i \in DOMAIN open'
        PROVE  /\ Exit(i)' = Exit(i) /\ Other(i)' = Other(i)
               /\ open'[i].kind = "loop" <=> open[i].kind = "loop"
    BY <1>2, <1>3, <1>5 DEF Exit, Other
  <1>6. ASSUME NEW i \in DOMAIN open' PROVE Inside(i, cur')
    <2>1. i \in DOMAIN open /\ n > i
      BY <1>2, <1>3, <1>6
    <2>2. Exit(i) \in Nat /\ Exit(n) \in Nat
      BY <1>2, <2>1, LabelFacts
    <2>3. Exit(n) > Exit(i) + 2
      BY <1>2, <2>1 DEF Linked, Enclosed
    <2> QED
      BY <1>3, <2>2, <2>3 DEF Inside
  <1>7. Enclosed(n)
    BY <1>2 DEF Linked
  <1>8. /\ DOMAIN blk' = DOMAIN blk /\ SameEdges(blk')
        /\ \A b \in DOMAIN blk : \A d \in Out(blk', b) : d \in Out(blk, b) \/ Grounded(b, d)
    <2>1. CASE EndLoop
      <3>1. open[n].kind = "loop"
        BY <1>2, <2>1 DEF EndLoop
      <3>2. Grounded(cur, Other(n))
        BY <1>2, <1>7, <3>1, BodyGrounded
      <3> QED
        BY <1>1, <2>1, <3>2, EndLoopFlow DEF NewFlow
    <2>2. CASE EndIf
      <3>1. open[n].kind # "loop"
        BY <1>2, <2>2 DEF EndIf
      <3>2. Grounded(cur, Exit(n))
        BY <1>2, <1>7, <3>1, BodyGrounded
      <3>3. Grounded(Other(n), Exit(n))
        <4>1. Other(n) = Exit(n) - 1 /\ Exit(n) \in Nat
          BY <1>2, <1>7, <3>1, LabelFacts DEF Enclosed
        <4>2. Edge(blk, Other(n), Exit(n)) /\ Other(n) < Exit(n)
          BY <1>7, <3>1, <4>1 DEF Enclosed, Heads
        <4> QED
          BY <4>2 DEF Grounded
      <3>4. /\ DOMAIN blk' = DOMAIN blk /\ SameEdges(blk')
            /\ \A b \in DOMAIN blk :
                  ~(Then(n) /\ b = Other(n)) =>
                     Out(blk', b) = IF b = cur /\ ~Term(blk, b) THEN {Exit(n)} ELSE Out(blk, b)
            /\ Then(n) => Out(blk', Other(n)) = {Exit(n)}
        BY <1>1, <2>2, EndIfFlow
      <3>5. ASSUME NEW b \in DOMAIN blk, NEW d \in Out(blk', b)
            PROVE  d \in Out(blk, b) \/ Grounded(b, d)
        BY <3>2, <3>3, <3>4, <3>5
      <3> QED
        BY <3>4, <3>5
    <2> QED
      BY <2>1, <2>2
  <1> QED
    BY <1>4, <1>5, <1>6, <1>8, KeepsLinked

LEMMA EdgesAreLabels ==
    ASSUME BuildInv, NEW a \in DOMAIN blk, NEW c, Edge(blk, a, c)
    PROVE  c \in DOMAIN blk
  <1> DEFINE k == Count
             s == blk[a].succs
  <1>1. s \in Seq(0..(k - 1)) /\ DOMAIN blk = 0..(k - 1)
    BY LabelFacts DEF BuildInv, BlockOf
  <1>2. c \in ToSet(s)
    BY DEF Edge
  <1> HIDE DEF k, s
  <1>3. \A i \in DOMAIN s : s[i] \in 0..(k - 1)
    BY <1>1, ElementOfSeq, LenProperties
  <1> QED
    BY <1>1, <1>2, <1>3 DEF ToSet

(* A new statement: its blocks, and its frame.                             *)
LEMMA OpeningLinked ==
    ASSUME BuildInv, BuildInv', Linked, NEW m, NEW new, NEW frame, NEW D,
           Opening(m, new, frame, D)
    PROVE  Linked'
  <1>1. /\ m \in Nat \ {0} /\ DOMAIN blk = 0..(m - 1) /\ cur \in DOMAIN blk
        /\ new = {m, m + 1, m + 2} /\ D \subseteq new
        /\ DOMAIN blk' = DOMAIN blk \cup new
        /\ frame.exit = m + 2 /\ cur' \in {m, m + 1}
        /\ frame.other = IF frame.kind = "loop" THEN m ELSE m + 1
        /\ D = IF frame.kind = "loop" THEN {m} ELSE {m, m + 1}
    BY LabelFacts DEF Opening
  <1>2. \A c \in DOMAIN blk : c \in Nat /\ c < m /\ c \notin new
    BY <1>1
  <1>3. /\ \A a \in DOMAIN blk : \A c : Edge(blk', a, c) <=> Edge(blk, a, c) \/ (a = cur /\ c \in D)
        /\ \A a \in new : \A c : Edge(blk', a, c) => c \in new /\ a # frame.exit
        /\ \A a \in new : \A c \in Out(blk', a) : a < c /\ Edge(blk', a, c)
    BY DEF Opening
  <1>4. \A a \in DOMAIN blk : \A c : Edge(blk, a, c) => c \in DOMAIN blk
    BY EdgesAreLabels
  <1>5. PICK e : e = Len(open) + 1
    OBVIOUS
  <1>6. /\ DOMAIN open' = DOMAIN open \cup {e} /\ open'[e] = frame
        /\ \A i \in DOMAIN open : i < e /\ i \in Nat /\ open'[i] = open[i]
    BY <1>5, Opened, LabelFacts DEF Opening
  <1>7. ASSUME NEW i \in DOMAIN open PROVE Enclosed(i)'
    <2>1. /\ Enclosed(i) /\ Exit(i) \in DOMAIN blk /\ Exit(i) \in Nat /\ Exit(i) < m
          /\ i # e /\ i \in DOMAIN open'
      BY <1>2, <1>6, LabelFacts DEF Linked
    <2>2. /\ Exit(i)' = Exit(i) /\ Other(i)' = Other(i) /\ open'[i].kind = open[i].kind
      BY <1>6 DEF Exit, Other
    <2>3. /\ \A c : Inside(i, c)' <=> Inside(i, c)
          /\ Heads(i)' = Heads(i)
      BY <2>2 DEF Inside, Heads
    <2>4. \A c \in new : Inside(i, c)
      BY <1>1, <2>1 DEF Inside
    <2>5. Inside(i, cur)'
      <3>1. Inside(i, cur')
        BY <1>1, <2>4
      <3> QED
        BY <2>2, <3>1 DEF Inside
    <2>6. Exit(i)' > 2 /\ Other(i)' = IF open'[i].kind = "loop" THEN Exit(i)' - 2 ELSE Exit(i)' - 1
      BY <2>1, <2>2 DEF Enclosed
    <2>7. ASSUME NEW j \in DOMAIN open', j > i PROVE Exit(j)' > Exit(i)' + 2
      <3>1. CASE j \in DOMAIN open
        <4>1. Exit(j)' = Exit(j) /\ Exit(j) > Exit(i) + 2
          BY <1>6, <2>1, <2>7, <3>1 DEF Exit, Enclosed
        <4> QED
          BY <2>2, <4>1
      <3>2. CASE j = e
        <4>1. Exit(j)' = m + 2
          BY <1>1, <1>6, <3>2 DEF Exit
        <4> QED
          BY <1>1, <2>1, <2>2, <4>1
      <3> QED
        BY <1>6, <3>1, <3>2
    <2>8. ASSUME NEW a \in DOMAIN blk', NEW c \in DOMAIN blk', Edge(blk', a, c), Inside(i, c)
          PROVE  Inside(i, a) \/ c \in Heads(i)
      <3>1. CASE a \in new
        BY <2>4, <3>1
      <3>2. CASE a = cur
        BY <2>1, <3>2 DEF Enclosed
      <3>3. CASE a \in DOMAIN blk /\ a # cur
        <4>1. Edge(blk, a, c) /\ c \in DOMAIN blk
          BY <1>3, <1>4, <2>8, <3>3
        <4> QED
          BY <2>1, <2>8, <3>3, <4>1 DEF Enclosed
      <3> QED
        BY <1>1, <3>1, <3>2, <3>3
    <2>9. ASSUME open'[i].kind # "loop", NEW h \in Heads(i)' PROVE Edge(blk', h, Exit(i)')
      <3>1. h \in {Exit(i) - 2, Exit(i) - 1} /\ Exit(i) > 2 /\ Edge(blk, h, Exit(i))
        BY <2>1, <2>2, <2>3, <2>9 DEF Heads, Enclosed
      <3>2. h \in DOMAIN blk
        BY <1>1, <2>1, <3>1
      <3> QED
        BY <1>3, <2>2, <3>1, <3>2
    <2> QED
      BY <2>3, <2>5, <2>6, <2>7, <2>8, <2>9 DEF Enclosed
  <1>8. Enclosed(e)'
    <2>1. Exit(e)' = m + 2 /\ Other(e)' = frame.other /\ open'[e].kind = frame.kind
      BY <1>1, <1>6 DEF Exit, Other
    <2>2. Heads(e)' = D
      <3>1. (m + 2) - 2 = m /\ (m + 2) - 1 = m + 1
        BY <1>1
      <3> QED
        BY <1>1, <2>1, <3>1 DEF Heads
    <2>3. \A c : Inside(e, c)' <=> c \in {m, m + 1} \/ c > m + 2
      <3>1. (m + 2) - 2 = m /\ (m + 2) - 1 = m + 1
        BY <1>1
      <3> QED
        BY <2>1, <3>1 DEF Inside
    <2>4. Inside(e, cur)'
      <3>1. Exit(e)' - 2 = m /\ Exit(e)' - 1 = m + 1
        BY <1>1, <2>1
      <3> QED
        BY <1>1, <3>1 DEF Inside
    <2>5. ASSUME NEW a \in DOMAIN blk', NEW c \in DOMAIN blk', Edge(blk', a, c), Inside(e, c)'
          PROVE  Inside(e, a)' \/ c \in Heads(e)'
      <3>1. c \in {m, m + 1}
        BY <1>1, <1>2, <2>3, <2>5
      <3>2. CASE a \in new
        <4>1. a \in {m, m + 1}
          BY <1>1, <1>3, <2>5, <3>2
        <4> QED
          BY <2>3, <4>1
      <3>3. CASE a \in DOMAIN blk
        <4>1. c \notin DOMAIN blk
          BY <1>1, <1>2, <3>1
        <4>2. c \in D
          BY <1>3, <1>4, <2>5, <3>3, <4>1
        <4> QED
          BY <2>2, <4>2
      <3> QED
        BY <1>1, <3>2, <3>3
    <2>6. ASSUME frame.kind # "loop", NEW h \in D PROVE Edge(blk', h, m + 2)
      <3>1. h \in {m, m + 1} /\ frame.kind = "then"
        BY <1>1, <2>6 DEF Opening
      <3> QED
        BY <3>1 DEF Opening
    <2>7. \A j \in DOMAIN open' : ~(j > e)
      BY <1>5, <1>6, LabelFacts
    <2>8. Exit(e)' > 2 /\ Other(e)' = IF open'[e].kind = "loop" THEN Exit(e)' - 2 ELSE Exit(e)' - 1
      BY <1>1, <2>1
    <2>9. open'[e].kind # "loop" => \A h \in Heads(e)' : Edge(blk', h, Exit(e)')
      BY <2>1, <2>2, <2>6
    <2> QED
      BY <2>4, <2>5, <2>7, <2>8, <2>9 DEF Enclosed
  <1>9. ASSUME NEW b \in DOMAIN blk', NEW d \in Out(blk', b) PROVE Grounded(b, d)'
    <2> SUFFICES ASSUME NEW R \in SUBSET (DOMAIN blk'), Rooted(R)', b \in R
                 PROVE  \E a \in R : a < d /\ Edge(blk', a, d)
      BY DEF Grounded
    <2>1. CASE b \in new
      BY <1>3, <1>9, <2>1
    <2>2. CASE b = cur /\ d \in D
      <3>1. cur < d
        BY <1>1, <1>2, <2>2
      <3> QED
        BY <1>1, <1>3, <2>2, <3>1
    <2>3. CASE b \in DOMAIN blk /\ ~(b = cur /\ d \in D)
      <3>1. d \in Out(blk, b)
        BY <1>9, <2>3 DEF Opening, NewFlow
      <3> DEFINE Q == R \cap DOMAIN blk
      <3>2. ASSUME NEW c \in Q \ {Entry} PROVE \E a \in Q : a < c /\ Edge(blk, a, c)
        <4>1. PICK a \in R : a < c /\ Edge(blk', a, c)
          BY <3>2 DEF Rooted
        <4>2. c \in DOMAIN blk /\ c < m /\ c \notin D
          BY <1>1, <1>2
        <4>3. a \in DOMAIN blk
          BY <1>1, <1>2, <4>1, <4>2
        <4>4. Edge(blk, a, c)
          BY <1>3, <4>1, <4>2, <4>3
        <4> QED
          BY <4>1, <4>3, <4>4
      <3>3. Rooted(Q) /\ b \in Q /\ Q \in SUBSET (DOMAIN blk)
        BY <2>3, <3>2 DEF Rooted
      <3> HIDE DEF Q
      <3>4. PICK a \in Q : a < d /\ Edge(blk, a, d)
        BY <2>3, <3>1, <3>3 DEF Linked, Grounded
      <3> QED
        BY <1>3, <3>3, <3>4 DEF Q
    <2> QED
      BY <1>1, <2>1, <2>2, <2>3
  <1> QED
    BY <1>6, <1>7, <1>8, <1>9 DEF Linked

-----------------------------------------------------------------------------
(* Optimized builds: the dead-code pass.                                   *)

(* The blocks in every set that holds the entry and where its blocks leave *)
(* for.                                                                    *)
Closed(Q) == Entry \in Q /\ \A b \in Q : Out(blk, b) \subseteq Q
Reachable == {c \in DOMAIN blk : \A Q \in SUBSET (DOMAIN blk) : Closed(Q) => c \in Q}

PrintInv ==
    /\ phase = "build" => Linked
    /\ phase \in {"prune", "done"} /\ optimize => Rooted(Reachable)

LEMMA OutAreLabels ==
    ASSUME BuildInv, NEW b \in DOMAIN blk
    PROVE  Out(blk, b) \subseteq DOMAIN blk
  <1> DEFINE ls == {b}
  <1>1. ls \subseteq DOMAIN blk
    OBVIOUS
  <1> HIDE DEF ls
  <1>2. Onward(ls) \subseteq DOMAIN blk
    BY <1>1, OnwardTypes
  <1> QED
    BY <1>2, ExitsAreOut DEF Onward, ls

LEMMA ReachableClosed ==
    ASSUME BuildInv
    PROVE  Closed(Reachable)
  <1>1. Entry \in Reachable
    BY LabelFacts DEF Reachable, Closed
  <1>2. ASSUME NEW b \in Reachable, NEW d \in Out(blk, b) PROVE d \in Reachable
    <2>1. d \in DOMAIN blk
      BY <1>2, OutAreLabels DEF Reachable
    <2> QED
      BY <1>2, <2>1 DEF Reachable, Closed
  <1> QED
    BY <1>1, <1>2 DEF Closed

(* When every block control reaches is linked, those are linked among      *)
(* themselves.                                                             *)
LEMMA GroundedRoots ==
    ASSUME BuildInv, \A b \in DOMAIN blk : \A d \in Out(blk, b) : Grounded(b, d)
    PROVE  Rooted(Reachable)
  <1> DEFINE Q == {c \in Reachable : \E R \in SUBSET Reachable : Rooted(R) /\ c \in R}
  <1>0. Reachable \subseteq DOMAIN blk
    BY DEF Reachable
  <1>1. Entry \in Q
    <2>1. Entry \in Reachable /\ Rooted({Entry})
      BY ReachableClosed DEF Closed, Rooted
    <2> QED
      BY <2>1
  <1>2. ASSUME NEW b \in Q, NEW d \in Out(blk, b) PROVE d \in Q
    <2>1. PICK R \in SUBSET Reachable : Rooted(R) /\ b \in R
      OBVIOUS
    <2>2. d \in Reachable
      BY <1>2, ReachableClosed DEF Closed
    <2>3. PICK a \in R : a < d /\ Edge(blk, a, d)
      <3>1. Grounded(b, d) /\ R \in SUBSET (DOMAIN blk)
        BY <1>0, <1>2
      <3> QED
        BY <2>1, <3>1 DEF Grounded
    <2>4. Rooted(R \cup {d})
      BY <2>1, <2>3 DEF Rooted
    <2>5. R \cup {d} \in SUBSET Reachable
      BY <2>2
    <2> QED
      BY <2>2, <2>4, <2>5
  <1>3. Reachable \subseteq Q
    <2>1. Closed(Q) /\ Q \in SUBSET (DOMAIN blk)
      BY <1>0, <1>1, <1>2 DEF Closed
    <2> HIDE DEF Q
    <2> QED
      BY <2>1 DEF Reachable
  <1>4. ASSUME NEW c \in Reachable \ {Entry} PROVE \E a \in Reachable : a < c /\ Edge(blk, a, c)
    <2>1. PICK R \in SUBSET Reachable : Rooted(R) /\ c \in R
      BY <1>3
    <2> QED
      BY <2>1 DEF Rooted
  <1> QED
    BY <1>4 DEF Rooted

LEMMA SameOutReachable ==
    ASSUME DOMAIN blk' = DOMAIN blk, \A b \in DOMAIN blk : Out(blk', b) = Out(blk, b)
    PROVE  Reachable' = Reachable
  <1>1. \A Q \in SUBSET (DOMAIN blk) : Closed(Q)' <=> Closed(Q)
    BY DEF Closed
  <1> QED
    BY <1>1 DEF Reachable

(* The final return changes nothing control reaches, nor does what -O1     *)
(* cuts off.                                                               *)
LEMMA OptimizedOut ==
    ASSUME BuildInv, CodeInv, FinishOptimized, NEW b \in DOMAIN blk
    PROVE  Out(blk', b) = Out(blk, b)
  <1>1. Out(blk', b) = Out(WithFinalReturn, b)
    BY OptimizedFlow
  <1>2. CASE ~void
    BY <1>1, <1>2, FinalFlow
  <1>3. CASE void /\ (b # cur \/ Term(blk, b))
    BY <1>1, <1>3, FinalFlow DEF NewFlow
  <1>4. CASE void /\ b = cur /\ ~Term(blk, b)
    <2>1. Out(WithFinalReturn, b) = {}
      BY <1>4, FinalFlow DEF NewFlow
    <2>2. blk[b].instrs \in Seq(InstrOf(Count)) /\ Plain(blk[b].instrs)
      BY LabelFacts DEF CodeInv
    <2>3. Out(blk, b) = {}
      BY <1>4, <2>2, OpenLeavesNowhere DEF Term, Out
    <2> QED
      BY <1>1, <2>1, <2>3
  <1>5. BuildInv => void \in BOOLEAN
    BY DEF BuildInv
  <1> QED
    BY <1>2, <1>3, <1>4, <1>5

LEMMA FinishPrints ==
    ASSUME BuildInv, BuildInv', CodeInv, PrintInv, FinishOptimized
    PROVE  PrintInv'
  <1>1. DOMAIN blk' = DOMAIN blk /\ SameEdges(blk')
    BY FinishEdges
  <1>2. phase = "build" /\ phase' = "prune"
    BY DEF FinishOptimized
  <1>3. \A b \in DOMAIN blk : \A d \in Out(blk, b) : Grounded(b, d)
    BY <1>2 DEF PrintInv, Linked
  <1>4. Rooted(Reachable)
    BY <1>3, GroundedRoots
  <1>5. Reachable' = Reachable
    BY <1>1, OptimizedOut, SameOutReachable
  <1>6. PICK R : R = Reachable
    OBVIOUS
  <1>7. R \subseteq DOMAIN blk
    BY <1>6 DEF Reachable
  <1>8. Rooted(R)'
    BY <1>1, <1>4, <1>6, <1>7, SameEdgesRooted
  <1> QED
    BY <1>2, <1>5, <1>6, <1>8 DEF PrintInv

(* Removing b from a list leaves what is not b in it.                      *)
LEMMA WithoutKeeps ==
    ASSUME NEW S, NEW s \in Seq(S), NEW b, NEW d \in ToSet(s), d # b
    PROVE  d \in ToSet(Without(s, b))
  <1>1. CASE b \in ToSet(s)
    <2> DEFINE i == CHOOSE j \in DOMAIN s : s[j] = b
    <2>1. i \in DOMAIN s /\ s[i] = b /\ DOMAIN s = 1..Len(s) /\ Len(s) \in Nat
      BY <1>1, LenProperties DEF ToSet
    <2>2. Without(s, b) = SubSeq(s, 1, i - 1) \o SubSeq(s, i + 1, Len(s))
      BY <1>1 DEF Without, RemoveAt
    <2> HIDE DEF i
    <2> DEFINE t == SubSeq(s, 1, i - 1)
               u == SubSeq(s, i + 1, Len(s))
    <2>3. t \in Seq(S) /\ u \in Seq(S)
      BY <2>1, SliceTypes
    <2>9. ToSet(Without(s, b)) = ToSet(t) \cup ToSet(u)
      <3>1. Without(s, b) = t \o u
        BY <2>2
      <3> HIDE DEF t, u
      <3> QED
        BY <2>3, <3>1, ToSetBehind
    <2>4. PICK k \in 1..Len(s) : s[k] = d
      BY <2>1 DEF ToSet
    <2>5. k # i
      BY <2>1, <2>4
    <2>6. \A j \in 1..Len(s) : s[j] \in S
      BY ElementOfSeq
    <2>7. CASE k < i
      <3>1. /\ 1 \in Int /\ i - 1 \in Int /\ 1 <= i - 1 /\ (i - 1) - 1 + 1 = i - 1
            /\ k \in 1..(i - 1) /\ 1 + k - 1 = k /\ \A j \in 1..(i - 1) : s[j] \in S
        BY <2>1, <2>4, <2>6, <2>7
      <3>2. Len(t) = i - 1 /\ t[k] = s[k]
        BY <3>1, SubSeqProperties
      <3>3. k \in DOMAIN t
        BY <2>3, <3>1, <3>2, LenProperties
      <3> HIDE DEF t
      <3>4. d \in ToSet(t)
        BY <2>4, <3>2, <3>3 DEF ToSet
      <3> HIDE DEF u
      <3> QED
        BY <2>9, <3>4
    <2>8. CASE k > i
      <3> DEFINE a == i + 1
                 n == Len(s)
      <3>1. /\ a \in Int /\ n \in Int /\ a <= n /\ n - a + 1 = n - i
            /\ k - i \in 1..(n - i) /\ a + (k - i) - 1 = k /\ \A j \in a..n : s[j] \in S
        <4>1. i \in Int /\ k \in Int /\ n \in Int /\ 1 <= i /\ i < k /\ k <= n
          BY <2>1, <2>4, <2>8
        <4>2. \A j \in a..n : s[j] \in S
          BY <2>6, <4>1
        <4> QED
          BY <4>1, <4>2
      <3>0. u = SubSeq(s, a, n)
        OBVIOUS
      <3> HIDE DEF a, n, u
      <3>2. Len(u) = n - a + 1 /\ \A j \in 1..(n - a + 1) : u[j] = s[a + j - 1]
        BY <3>0, <3>1, SubSeqProperties
      <3>3. Len(u) = n - i /\ u[k - i] = s[k]
        BY <3>1, <3>2
      <3>4. k - i \in DOMAIN u
        BY <2>3, <3>1, <3>3, LenProperties
      <3>5. d \in ToSet(u)
        BY <2>4, <3>3, <3>4 DEF ToSet
      <3> HIDE DEF t
      <3> QED
        BY <2>9, <3>5
    <2> QED
      BY <2>1, <2>4, <2>5, <2>7, <2>8
  <1>2. CASE b \notin ToSet(s)
    BY <1>2 DEF Without
  <1> QED
    BY <1>1, <1>2

LEMMA UnlinkKeeps ==
    ASSUME BuildInv, NEW b, NEW a \in DOMAIN blk, NEW c, c # b, Edge(blk, a, c)
    PROVE  Edge(Unlink(b, blk), a, c)
  <1> DEFINE s == blk[a].succs
  <1>1. s \in Seq(0..(Count - 1)) /\ blk[a] \in BlockOf(Count)
    BY LabelFacts DEF BuildInv, BlockOf
  <1>2. Unlink(b, blk)[a].succs = IF a \in blk[b].preds THEN Without(s, b) ELSE s
    BY <1>1 DEF Unlink, BlockOf
  <1> HIDE DEF s
  <1>3. c \in ToSet(s)
    BY DEF Edge, s
  <1>4. c \in ToSet(Without(s, b))
    BY <1>1, <1>3, WithoutKeeps
  <1> QED
    BY <1>2, <1>3, <1>4 DEF Edge

(* What waits to be removed is not reached.                                *)
LEMMA ReachableStays ==
    ASSUME BuildInv, KeptInv, phase \in {"prune", "done"}
    PROVE  Reachable \subseteq blocks \ unseen
  <1> DEFINE Q == blocks \ unseen
  <1>1. Entry \in Q /\ Q \subseteq DOMAIN blk
    BY LabelFacts DEF KeptInv, BuildInv
  <1>2. ASSUME NEW b \in Q, NEW d \in Out(blk, b) PROVE d \in Q
    <2>1. b \in blocks /\ b \in DOMAIN blk
      BY <1>1
    <2>2. d \in Dests(b, blk)
      BY <1>2, <2>1, ExitsAreOut, ExitsAreDests
    <2>3. d \in (blocks \ unseen) \cup {b}
      BY <2>1, <2>2 DEF KeptInv
    <2> QED
      BY <1>2, <2>3
  <1>3. Closed(Q) /\ Q \in SUBSET (DOMAIN blk)
    BY <1>1, <1>2 DEF Closed
  <1> HIDE DEF Q
  <1> QED
    BY <1>3 DEF Reachable, Q

LEMMA PrunePrints ==
    ASSUME BuildInv, CodeInv, KeptInv, RootInv, PrintInv,
           StartPass \/ FinishPrune \/ \E b \in unseen : RemoveBlock(b)
    PROVE  PrintInv'
  <1>1. phase = "prune" /\ phase' \in {"prune", "done"} /\ optimize' = optimize
    BY DEF StartPass, FinishPrune, RemoveBlock, source
  <1>2. Rooted(Reachable)
    BY <1>1 DEF PrintInv, RootInv
  <1>3. Reachable' = Reachable
    BY PruneFlow, SameOutReachable
  <1>4. PICK R : R = Reachable
    OBVIOUS
  <1>5. R \subseteq DOMAIN blk /\ R \subseteq blocks \ unseen
    BY <1>1, <1>4, ReachableStays DEF Reachable
  <1>6. \A a \in R : \A c \in R : Edge(blk, a, c) => Edge(blk', a, c)
    <2>1. CASE StartPass \/ FinishPrune
      BY <2>1 DEF StartPass, FinishPrune
    <2>2. CASE \E b \in unseen : RemoveBlock(b)
      <3>1. PICK b \in unseen : blk' = Unlink(b, blk)
        BY <2>2 DEF RemoveBlock
      <3>2. \A c \in R : c # b
        BY <1>5
      <3> QED
        BY <1>5, <3>1, <3>2, UnlinkKeeps
    <2> QED
      BY <2>1, <2>2
  <1>7. Rooted(R)'
    BY <1>2, <1>4, <1>6 DEF Rooted
  <1> QED
    BY <1>1, <1>3, <1>4, <1>7 DEF PrintInv

LEMMA PrintStep ==
    ASSUME BuildInv, BuildInv', CodeInv, KeptInv, RootInv, PrintInv, [Next]_vars
    PROVE  PrintInv'
  <1>1. CASE Statement \/ Return \/ Else \/ EndIf \/ EndLoop
    <2>1. phase' = "build" /\ phase = "build"
      BY <1>1, SimpleEdges
    <2> QED
      BY <1>1, <2>1, SimpleLinked, ElseLinked, ClosingLinked DEF PrintInv
  <1>2. CASE OpenIf \/ OpenLoop
    <2>1. PICK m, new, frame, D : Opening(m, new, frame, D)
      BY <1>2, OpenIfOpens, OpenLoopOpens
    <2>2. phase = "build" /\ phase' = "build"
      BY <2>1 DEF Opening
    <2> QED
      BY <2>1, <2>2, OpeningLinked DEF PrintInv
  <1>3. CASE FinishOptimized
    BY <1>3, FinishPrints
  <1>4. CASE FinishPlain
    BY <1>4 DEF PrintInv, FinishPlain, source
  <1>5. CASE StartPass \/ FinishPrune \/ \E b \in unseen : RemoveBlock(b)
    BY <1>5, PrunePrints
  <1>6. CASE Reject
    BY <1>6 DEF PrintInv, Reject
  <1>7. CASE UNCHANGED vars
    <2>1. blk' = blk /\ open' = open /\ cur' = cur /\ phase' = phase /\ optimize' = optimize
      BY <1>7 DEF vars, source
    <2> QED
      BY <2>1 DEF PrintInv, Linked, Enclosed, Grounded, Rooted, Reachable, Closed,
                  Inside, Heads, Exit, Other
  <1> QED
    BY <1>1, <1>2, <1>3, <1>4, <1>5, <1>6, <1>7 DEF Next

LEMMA InitPrints ==
    ASSUME Init
    PROVE  PrintInv
  <1>1. /\ phase = "build" /\ open = <<>> /\ DOMAIN blk = {Entry}
        /\ blk[Entry] = NewBlock({}, <<>>, NoBlock)
    BY DEF Init
  <1>2. Out(blk, Entry) = {}
    <2>1. blk[Entry].instrs = <<>>
      BY <1>1 DEF NewBlock
    <2> QED
      BY <2>1, EmptyFlow DEF Out
  <1>3. DOMAIN open = {}
    BY <1>1
  <1> QED
    BY <1>1, <1>2, <1>3 DEF PrintInv, Linked

LEMMA PrintAlways == Spec => []PrintInv
  <1>1. BuildInv /\ BuildInv' /\ FlowInv /\ KeptInv /\ RootInv /\ PrintInv /\ [Next]_vars => PrintInv'
    BY PrintStep DEF FlowInv
  <1> QED
    BY <1>1, InitPrints, InvTyped, FlowAlways, KeptAlways, RootAlways, PTL DEF Spec

LEMMA LiveIsReachable ==
    ASSUME BuildInv
    PROVE  Live \subseteq Reachable
  <1> DEFINE Q == Reachable
  <1>1. Entry \in Q /\ \A b \in Q : Exits(b) \subseteq Q
    BY ReachableClosed, ExitsAreOut DEF Closed
  <1> HIDE DEF Q
  <1>2. Live \subseteq Q
    BY <1>1, ClosedHoldsLive
  <1> QED
    BY <1>2 DEF Q

(* Nothing that can run is lost: whatever the order in which a round meets *)
(* the blocks, the reachable ones stay in LLVMFuncDef.Blocks, and the      *)
(* Succs that RemoveBlock rewrites still lead InOrderBlocks to all of them. *)
THEOREM LiveAlwaysKept == Spec => []LiveKept
  <1>1. BuildInv /\ RootInv /\ PrintInv /\ LiveBlocksKept => LiveKept
    <2> SUFFICES ASSUME BuildInv, RootInv, PrintInv, LiveBlocksKept, phase \in {"prune", "done"}
                 PROVE  Live \subseteq blocks /\ Live \subseteq Emitted
      BY DEF LiveKept
    <2>1. Live \subseteq blocks /\ blocks \subseteq DOMAIN blk
      BY LabelFacts DEF LiveBlocksKept, BuildInv
    <2>2. Live \subseteq Reachable
      BY LiveIsReachable
    <2>3. CASE optimize
      <3>1. Rooted(Reachable) /\ Reachable \subseteq DOMAIN blk
        BY <2>3 DEF PrintInv, Reachable
      <3>2. Reachable \subseteq Emitted
        BY <3>1, RootedEmitted
      <3> QED
        BY <2>1, <2>2, <3>2
    <2>4. CASE ~optimize
      <3>1. Rooted(DOMAIN blk)
        BY <2>4 DEF RootInv
      <3>2. DOMAIN blk \subseteq Emitted
        BY <3>1, RootedEmitted
      <3> QED
        BY <2>1, <3>2
    <2> QED
      BY <2>3, <2>4
  <1> QED
    BY <1>1, InvTyped, RootAlways, PrintAlways, LiveBlocksAlwaysKept, PTL

-----------------------------------------------------------------------------
(***************************************************************************)
(* The order of what is printed.  What RemoveBlock does to Succs differs   *)
(* from one order of removal to the next, but only in dead blocks; and no  *)
(* edge leads from a dead block to a live one.  So the live part of the    *)
(* queue of InOrderBlocks grows, in every function and after every         *)
(* removal, as if there were live blocks only.                             *)
(***************************************************************************)

(* b stands before c in s.                                                *)
Bef(s, b, c) == \E i, j \in DOMAIN s : i < j /\ s[i] = b /\ s[j] = c

LEMMA BefAppend ==
    ASSUME NEW L, NEW s \in Seq(L), NEW d \in L, NEW b, NEW c
    PROVE  Bef(Append(s, d), b, c) <=> Bef(s, b, c) \/ (c = d /\ b \in ToSet(s))
  <1> DEFINE r == Append(s, d)
  <1>1. /\ r \in Seq(L) /\ Len(r) = Len(s) + 1 /\ r[Len(s) + 1] = d
        /\ \A i \in 1..Len(s) : r[i] = s[i]
    BY AppendProperties
  <1> HIDE DEF r
  <1>2. DOMAIN s = 1..Len(s) /\ DOMAIN r = 1..(Len(s) + 1) /\ Len(s) \in Nat
    BY <1>1, LenProperties
  <1>3. ASSUME Bef(r, b, c) PROVE Bef(s, b, c) \/ (c = d /\ b \in ToSet(s))
    <2>1. PICK i \in DOMAIN r, j \in DOMAIN r : i < j /\ r[i] = b /\ r[j] = c
      BY <1>3 DEF Bef
    <2>2. i \in 1..Len(s) /\ s[i] = b
      BY <1>1, <1>2, <2>1
    <2>3. CASE j = Len(s) + 1
      BY <1>1, <1>2, <2>1, <2>2, <2>3 DEF ToSet
    <2>4. CASE j # Len(s) + 1
      <3>1. j \in 1..Len(s) /\ s[j] = c
        BY <1>1, <1>2, <2>1, <2>4
      <3> QED
        BY <1>2, <2>1, <2>2, <3>1 DEF Bef
    <2> QED
      BY <2>3, <2>4
  <1>4. ASSUME Bef(s, b, c) PROVE Bef(r, b, c)
    <2>1. PICK i \in DOMAIN s, j \in DOMAIN s : i < j /\ s[i] = b /\ s[j] = c
      BY <1>4 DEF Bef
    <2>2. i \in DOMAIN r /\ j \in DOMAIN r /\ r[i] = b /\ r[j] = c
      BY <1>1, <1>2, <2>1
    <2> QED
      BY <2>1, <2>2 DEF Bef
  <1>5. ASSUME c = d, b \in ToSet(s) PROVE Bef(r, b, c)
    <2>1. PICK i \in DOMAIN s : s[i] = b
      BY <1>5 DEF ToSet
    <2>2. i \in DOMAIN r /\ r[i] = b /\ i < Len(s) + 1 /\ Len(s) + 1 \in DOMAIN r
      BY <1>1, <1>2, <2>1
    <2> QED
      BY <1>1, <1>5, <2>2 DEF Bef
  <1> QED
    BY <1>3, <1>4, <1>5 DEF r

(* p is what is left of the queue q without the blocks that are not in R.  *)
LivePart(p, q, R, L) ==
    /\ p \in Seq(L) /\ q \in Seq(L) /\ IsInjective(p) /\ IsInjective(q)
    /\ \A e : e \in ToSet(p) <=> e \in ToSet(q) /\ e \in R
    /\ \A b, c \in R : Bef(p, b, c) <=> Bef(q, b, c)

LEMMA LiveJoins ==
    ASSUME NEW L, NEW R, NEW p, NEW q, LivePart(p, q, R, L), NEW d \in L, d \in R
    PROVE  LivePart(Once(p, d), Once(q, d), R, L)
  <1>1. /\ p \in Seq(L) /\ q \in Seq(L) /\ IsInjective(p) /\ IsInjective(q)
        /\ \A e : e \in ToSet(p) <=> e \in ToSet(q) /\ e \in R
        /\ \A b, c \in R : Bef(p, b, c) <=> Bef(q, b, c)
    BY DEF LivePart
  <1>2. /\ Once(p, d) \in Seq(L) /\ IsInjective(Once(p, d))
        /\ \A e : e \in ToSet(Once(p, d)) <=> e \in ToSet(p) \/ e = d
    BY <1>1, OnceFacts DEF Longer
  <1>3. /\ Once(q, d) \in Seq(L) /\ IsInjective(Once(q, d))
        /\ \A e : e \in ToSet(Once(q, d)) <=> e \in ToSet(q) \/ e = d
    BY <1>1, OnceFacts DEF Longer
  <1>4. ASSUME NEW b \in R, NEW c \in R PROVE Bef(Once(p, d), b, c) <=> Bef(Once(q, d), b, c)
    <2>1. Bef(p, b, c) <=> Bef(q, b, c)
      BY <1>1, <1>4
    <2>2. d \in ToSet(p) <=> d \in ToSet(q)
      BY <1>1
    <2>3. b \in ToSet(p) <=> b \in ToSet(q)
      BY <1>1, <1>4
    <2>4. Bef(Append(p, d), b, c) <=> Bef(p, b, c) \/ (c = d /\ b \in ToSet(p))
      BY <1>1, BefAppend
    <2>5. Bef(Append(q, d), b, c) <=> Bef(q, b, c) \/ (c = d /\ b \in ToSet(q))
      BY <1>1, BefAppend
    <2> QED
      BY <2>1, <2>2, <2>3, <2>4, <2>5 DEF Once
  <1> QED
    BY <1>1, <1>2, <1>3, <1>4 DEF LivePart

LEMMA DeadJoins ==
    ASSUME NEW L, NEW R, NEW p, NEW q, LivePart(p, q, R, L), NEW d \in L, d \notin R
    PROVE  LivePart(p, Once(q, d), R, L)
  <1>1. /\ p \in Seq(L) /\ q \in Seq(L) /\ IsInjective(p) /\ IsInjective(q)
        /\ \A e : e \in ToSet(p) <=> e \in ToSet(q) /\ e \in R
        /\ \A b, c \in R : Bef(p, b, c) <=> Bef(q, b, c)
    BY DEF LivePart
  <1>3. /\ Once(q, d) \in Seq(L) /\ IsInjective(Once(q, d))
        /\ \A e : e \in ToSet(Once(q, d)) <=> e \in ToSet(q) \/ e = d
    BY <1>1, OnceFacts DEF Longer
  <1>4. ASSUME NEW b \in R, NEW c \in R PROVE Bef(p, b, c) <=> Bef(Once(q, d), b, c)
    <2>1. Bef(p, b, c) <=> Bef(q, b, c)
      BY <1>1, <1>4
    <2>2. Bef(Append(q, d), b, c) <=> Bef(q, b, c) \/ (c = d /\ b \in ToSet(q))
      BY <1>1, BefAppend
    <2> QED
      BY <1>4, <2>1, <2>2 DEF Once
  <1> QED
    BY <1>1, <1>3, <1>4 DEF LivePart

(* The blocks of s that are in R, in the order of s.                       *)
Only(s, R) ==
    LET upTo[j \in 0..Len(s)] ==
            IF j = 0 THEN <<>>
            ELSE IF s[j] \in R THEN Append(upTo[j - 1], s[j]) ELSE upTo[j - 1]
    IN  upTo[Len(s)]

(* f filters s, one element after the other.                               *)
Filters(f, s, R, L) ==
    /\ f \in [0..Len(s) -> Seq(L)] /\ f[0] = <<>> /\ f[Len(s)] = Only(s, R)
    /\ \A j \in 1..Len(s) : f[j] = IF s[j] \in R THEN Append(f[j - 1], s[j]) ELSE f[j - 1]

LEMMA OnlyDef ==
    ASSUME NEW L, NEW s \in Seq(L), NEW R
    PROVE  \E f : Filters(f, s, R, L)
  <1> DEFINE N == Len(s)
             X == Seq(L)
             x == <<>>
             next(j, q) == IF s[j] \in R THEN Append(q, s[j]) ELSE q
             g == [p \in (1..N) \X X |-> next(p[1], p[2])]
             F(f) == [j \in 0..N |->
                         IF j = 0 THEN <<>>
                         ELSE IF s[j] \in R THEN Append(f[j - 1], s[j]) ELSE f[j - 1]]
  <1>1. N \in Nat /\ \A j \in 1..N : s[j] \in L
    BY LenProperties, ElementOfSeq
  <1>2. \A j \in 1..N : \A q \in X : next(j, q) \in X
    BY <1>1, AppendProperties
  <1>3. g \in [(1..N) \X X -> X] /\ x \in X
    <2>0. x \in X
      OBVIOUS
    <2> HIDE DEF X, N, next
    <2>1. \A p \in (1..N) \X X : p[1] \in 1..N /\ p[2] \in X
      OBVIOUS
    <2> QED
      BY <1>2, <2>0, <2>1
  <1>4. PICK f \in [0..N -> X] : f[0] = x /\ \A j \in 1..N : f[j] = g[<<j, f[j - 1]>>]
    <2>1. Steps(N, X, x, g)
      BY <1>1, <1>3 DEF Steps
    <2> HIDE DEF X, N, g, x
    <2> QED
      BY <2>1, BoundedRecursion
  <1>5. ASSUME NEW j \in 1..N PROVE f[j] = next(j, f[j - 1])
    <2> HIDE DEF X, N, next
    <2>1. j - 1 \in 0..N /\ f[j - 1] \in X
      BY <1>1, <1>4
    <2>2. <<j, f[j - 1]>> \in (1..N) \X X
      BY <2>1
    <2> QED
      BY <1>4, <2>2
  <1>6. f = F(f)
    <2>1. ASSUME NEW j \in 0..N PROVE f[j] = F(f)[j]
      <3>1. CASE j = 0
        BY <1>4, <3>1
      <3>2. CASE j # 0
        <4>1. j \in 1..N
          BY <1>1, <3>2
        <4> QED
          BY <1>5, <3>2, <4>1
      <3> QED
        BY <3>1, <3>2
    <2>2. f = [j \in 0..N |-> f[j]]
      BY <1>4
    <2>3. F(f) = [j \in 0..N |-> F(f)[j]]
      OBVIOUS
    <2> HIDE DEF F, N, X
    <2> QED
      BY <2>1, <2>2, <2>3
  <1>7. Only(s, R) = (CHOOSE h : h = F(h))[N]
    BY DEF Only
  <1> DEFINE h == CHOOSE h : h = F(h)
  <1>8. h = F(h)
    <2> HIDE DEF F
    <2> QED
      BY <1>6
  <1>9. N \in 0..N /\ 0 \in 0..N /\ \A j \in 1..N : j \in 0..N /\ j # 0
    BY <1>1
  <1> HIDE DEF h, N
  <1>10. h[0] = <<>> /\ DOMAIN h = 0..N /\ h = [j \in 0..N |-> h[j]]
    BY <1>8, <1>9
  <1>11. \A j \in 1..N : h[j] = next(j, h[j - 1])
    BY <1>8, <1>9
  <1> DEFINE S == {j \in Nat : j <= N => h[j] \in X}
  <1>12. 0 \in S
    <2>1. h[0] \in X
      BY <1>3, <1>10
    <2> HIDE DEF X
    <2> QED
      BY <2>1
  <1>13. ASSUME NEW j \in Nat, j \in S PROVE j + 1 \in S
    <2> HIDE DEF X, next
    <2> SUFFICES ASSUME j + 1 <= N PROVE h[j + 1] \in X
      OBVIOUS
    <2>1. h[j] \in X /\ j + 1 \in 1..N /\ (j + 1) - 1 = j
      BY <1>1, <1>13
    <2> QED
      BY <1>2, <1>11, <2>1
  <1> HIDE DEF S
  <1>14. \A j \in Nat : j \in S
    BY <1>12, <1>13, AllNats
  <1>15. \A j \in 0..N : h[j] \in X
    BY <1>1, <1>14 DEF S
  <1>16. h \in [0..N -> X]
    BY <1>10, <1>15
  <1> QED
    BY <1>7, <1>10, <1>11, <1>16 DEF h, N, Filters

(* f takes the queue q through the Succs s.                                *)
Queues(f, q, s) ==
    /\ f[0] = q /\ f[Len(s)] = Enqueue(q, s)
    /\ \A j \in 1..Len(s) : f[j] = Once(f[j - 1], s[j])

LEMMA QueuesDef ==
    ASSUME NEW L, NEW q \in Seq(L), NEW s \in Seq(L)
    PROVE  \E f : Queues(f, q, s)
  <1>1. PICK f : /\ f[0] = q /\ f[Len(s)] = Enqueue(q, s)
                 /\ \A j \in 1..Len(s) : f[j] = Once(f[j - 1], s[j])
    BY EnqueueDef
  <1>2. Queues(f, q, s)
    BY <1>1 DEF Queues
  <1> QED
    BY <1>2

LEMMA EnqueueNone ==
    ASSUME NEW L, NEW q \in Seq(L)
    PROVE  Enqueue(q, <<>>) = q
  <1> DEFINE none == <<>>
  <1>1. none \in Seq(L) /\ Len(none) = 0
    OBVIOUS
  <1> HIDE DEF none
  <1>2. PICK f : Queues(f, q, none)
    BY <1>1, QueuesDef
  <1> QED
    BY <1>1, <1>2 DEF none, Queues

LEMMA EnqueueOneMore ==
    ASSUME NEW L, NEW q \in Seq(L), NEW s \in Seq(L), NEW d \in L
    PROVE  Enqueue(q, Append(s, d)) = Once(Enqueue(q, s), d)
  <1> DEFINE r == Append(s, d)
             n == Len(s)
  <1>1. /\ r \in Seq(L) /\ Len(r) = n + 1 /\ r[n + 1] = d
        /\ \A i \in 1..n : r[i] = s[i]
    BY AppendProperties
  <1>2. n \in Nat
    BY LenProperties
  <1> HIDE DEF r
  <1>3. PICK f : /\ f[0] = q /\ f[n] = Enqueue(q, s)
                 /\ \A j \in 1..n : f[j] = Once(f[j - 1], s[j])
    BY QueuesDef DEF Queues
  <1>4. PICK h : /\ h[0] = q /\ h[n + 1] = Enqueue(q, r)
                 /\ \A j \in 1..(n + 1) : h[j] = Once(h[j - 1], r[j])
    <2>1. PICK h : Queues(h, q, r)
      BY <1>1, QueuesDef
    <2> QED
      BY <1>1, <2>1 DEF Queues
  <1> HIDE DEF n
  <1> DEFINE S == {j \in Nat : j <= n => f[j] = h[j]}
  <1>5. 0 \in S
    BY <1>3, <1>4
  <1>6. ASSUME NEW j \in Nat, j \in S PROVE j + 1 \in S
    <2> SUFFICES ASSUME j + 1 <= n PROVE f[j + 1] = h[j + 1]
      OBVIOUS
    <2>1. f[j] = h[j] /\ j + 1 \in 1..n /\ j + 1 \in 1..(n + 1) /\ (j + 1) - 1 = j
      BY <1>2, <1>6
    <2>2. f[j + 1] = Once(f[j], s[j + 1]) /\ h[j + 1] = Once(h[j], r[j + 1])
      BY <1>3, <1>4, <2>1
    <2> QED
      BY <1>1, <2>1, <2>2
  <1> HIDE DEF S
  <1>7. \A j \in Nat : j \in S
    BY <1>5, <1>6, AllNats
  <1>8. f[n] = h[n] /\ n + 1 \in 1..(n + 1) /\ (n + 1) - 1 = n
    BY <1>2, <1>7 DEF S
  <1>9. h[n + 1] = Once(h[n], d)
    BY <1>1, <1>4, <1>8
  <1> QED
    BY <1>3, <1>4, <1>8, <1>9 DEF r

(* The live part of the queue grows by what is live among the Succs.       *)
LEMMA LiveEnqueue ==
    ASSUME NEW L, NEW R, NEW p, NEW q, LivePart(p, q, R, L), NEW s \in Seq(L)
    PROVE  LivePart(Enqueue(p, Only(s, R)), Enqueue(q, s), R, L)
  <1> DEFINE n == Len(s)
  <1>1. n \in Nat /\ p \in Seq(L) /\ q \in Seq(L) /\ \A j \in 1..n : s[j] \in L
    BY LenProperties, ElementOfSeq DEF LivePart
  <1>2. PICK f : /\ f[0] = q /\ f[n] = Enqueue(q, s)
                 /\ \A j \in 1..n : f[j] = Once(f[j - 1], s[j])
    BY <1>1, EnqueueDef
  <1>3. PICK g : Filters(g, s, R, L)
    BY OnlyDef
  <1>4. /\ g[0] = <<>> /\ g[n] = Only(s, R) /\ \A j \in 0..n : g[j] \in Seq(L)
        /\ \A j \in 1..n : g[j] = IF s[j] \in R THEN Append(g[j - 1], s[j]) ELSE g[j - 1]
    BY <1>3 DEF Filters
  <1> HIDE DEF n
  <1> DEFINE Good(j) == LivePart(Enqueue(p, g[j]), f[j], R, L)
             S == {j \in Nat : j <= n => Good(j)}
  <1>5. 0 \in S
    <2>1. Enqueue(p, g[0]) = p
      BY <1>1, <1>4, EnqueueNone
    <2> QED
      BY <1>2, <2>1
  <1>6. ASSUME NEW j \in Nat, j \in S PROVE j + 1 \in S
    <2> SUFFICES ASSUME j + 1 <= n PROVE Good(j + 1)
      OBVIOUS
    <2>1. Good(j) /\ j \in 0..n /\ j + 1 \in 1..n /\ (j + 1) - 1 = j
      BY <1>1, <1>6
    <2> DEFINE d == s[j + 1]
    <2>2. d \in L /\ g[j] \in Seq(L) /\ f[j + 1] = Once(f[j], d)
      BY <1>1, <1>2, <1>4, <2>1
    <2>3. g[j + 1] = IF d \in R THEN Append(g[j], d) ELSE g[j]
      BY <1>4, <2>1
    <2> HIDE DEF d
    <2>4. CASE d \in R
      <3>1. Enqueue(p, Append(g[j], d)) = Once(Enqueue(p, g[j]), d)
        BY <1>1, <2>2, EnqueueOneMore
      <3>2. LivePart(Once(Enqueue(p, g[j]), d), Once(f[j], d), R, L)
        BY <2>1, <2>2, <2>4, LiveJoins
      <3> QED
        BY <2>2, <2>3, <2>4, <3>1, <3>2
    <2>5. CASE d \notin R
      <3>1. LivePart(Enqueue(p, g[j]), Once(f[j], d), R, L)
        BY <2>1, <2>2, <2>5, DeadJoins
      <3> QED
        BY <2>2, <2>3, <2>5, <3>1
    <2> QED
      BY <2>4, <2>5
  <1> HIDE DEF S
  <1>7. \A j \in Nat : j \in S
    BY <1>5, <1>6, AllNats
  <1>8. Good(n)
    BY <1>1, <1>7 DEF S
  <1> QED
    BY <1>2, <1>4, <1>8

(* Nothing is live among the Succs of a dead block.                        *)
LEMMA OnlyNone ==
    ASSUME NEW L, NEW s \in Seq(L), NEW R, \A d \in ToSet(s) : d \notin R
    PROVE  Only(s, R) = <<>>
  <1> DEFINE n == Len(s)
  <1>1. n \in Nat /\ \A j \in 1..n : s[j] \in ToSet(s)
    BY LenProperties DEF ToSet
  <1>2. PICK g : Filters(g, s, R, L)
    BY OnlyDef
  <1>3. /\ g[0] = <<>> /\ g[n] = Only(s, R)
        /\ \A j \in 1..n : g[j] = g[j - 1]
    BY <1>1, <1>2 DEF Filters
  <1> HIDE DEF n
  <1> DEFINE S == {j \in Nat : j <= n => g[j] = <<>>}
  <1>4. 0 \in S
    BY <1>3
  <1>5. ASSUME NEW j \in Nat, j \in S PROVE j + 1 \in S
    <2> SUFFICES ASSUME j + 1 <= n PROVE g[j + 1] = <<>>
      OBVIOUS
    <2>1. g[j] = <<>> /\ j + 1 \in 1..n /\ (j + 1) - 1 = j
      BY <1>1, <1>5
    <2> QED
      BY <1>3, <2>1
  <1> HIDE DEF S
  <1>6. \A j \in Nat : j \in S
    BY <1>4, <1>5, AllNats
  <1> QED
    BY <1>1, <1>3, <1>6 DEF S

LEMMA OnlyIn ==
    ASSUME NEW L, NEW s \in Seq(L), NEW R
    PROVE  Only(s, R) \in Seq(L)
  <1>1. PICK g : Filters(g, s, R, L)
    BY OnlyDef
  <1>2. Len(s) \in 0..Len(s)
    BY LenProperties
  <1> QED
    BY <1>1, <1>2 DEF Filters

(* The edges between the blocks of R.                                      *)
LiveGraph(bs, R) ==
    [a \in DOMAIN bs |-> [succs |-> IF a \in R THEN Only(bs[a].succs, R) ELSE <<>>]]

LEMMA LiveGraphIs ==
    ASSUME NEW bs, NEW n, Graph(bs, n), NEW R
    PROVE  /\ Graph(LiveGraph(bs, R), n)
           /\ \A a \in R : a \in 0..(n - 1) => LiveGraph(bs, R)[a].succs = Only(bs[a].succs, R)
  <1> DEFINE L == 0..(n - 1)
             lg == LiveGraph(bs, R)
  <1>1. n \in Nat \ {0} /\ DOMAIN bs = L /\ \A a \in L : bs[a].succs \in Seq(L)
    BY DEF Graph
  <1>2. \A a \in L : Only(bs[a].succs, R) \in Seq(L)
    BY <1>1, OnlyIn
  <1>3. DOMAIN lg = L /\ \A a \in L : lg[a].succs = IF a \in R THEN Only(bs[a].succs, R) ELSE <<>>
    BY <1>1 DEF LiveGraph
  <1>4. <<>> \in Seq(L)
    OBVIOUS
  <1> HIDE DEF lg
  <1>5. \A a \in L : lg[a].succs \in Seq(L)
    BY <1>2, <1>3, <1>4
  <1> QED
    BY <1>1, <1>3, <1>5 DEF Graph, lg

(* No edge leads from outside R into it.                                   *)
NoWayBack(bs, R) ==
    \A a \in DOMAIN bs : a \notin R => \A d \in ToSet(bs[a].succs) : d \notin R

(* Of the blocks visited in q, the first k, those in R are the first m of  *)
(* p.                                                                      *)
Stage(p, q, m, k, R, L) ==
    /\ LivePart(p, q, R, L)
    /\ m \in Nat /\ m <= k /\ m <= Len(p)
    /\ \A i \in 1..Len(p) : i <= m <=> \E j \in 1..Len(q) : j <= k /\ q[j] = p[i]

LEMMA StageTypes ==
    ASSUME NEW L, NEW R, NEW p, NEW q, NEW m, NEW k \in Nat, Stage(p, q, m, k, R, L)
    PROVE  /\ p \in Seq(L) /\ q \in Seq(L) /\ IsInjective(p) /\ IsInjective(q)
           /\ Len(p) \in Nat /\ Len(q) \in Nat /\ m \in Nat /\ m <= k /\ m <= Len(p)
           /\ DOMAIN p = 1..Len(p) /\ DOMAIN q = 1..Len(q)
           /\ \A e : e \in ToSet(p) <=> e \in ToSet(q) /\ e \in R
           /\ \A i \in 1..Len(p) : p[i] \in R /\ p[i] \in ToSet(q)
  <1>1. /\ p \in Seq(L) /\ q \in Seq(L) /\ IsInjective(p) /\ IsInjective(q)
        /\ \A e : e \in ToSet(p) <=> e \in ToSet(q) /\ e \in R
    BY DEF Stage, LivePart
  <1>2. /\ Len(p) \in Nat /\ Len(q) \in Nat /\ DOMAIN p = 1..Len(p) /\ DOMAIN q = 1..Len(q)
    BY <1>1, LenProperties
  <1>3. \A i \in 1..Len(p) : p[i] \in ToSet(p)
    BY <1>2 DEF ToSet
  <1> QED
    BY <1>1, <1>2, <1>3 DEF Stage

(* The next live block the queue q comes to is the one p comes to.         *)
LEMMA SameNext ==
    ASSUME NEW L, NEW R, NEW p, NEW q, NEW m, NEW k \in Nat, Stage(p, q, m, k, R, L),
           k + 1 <= Len(q), q[k + 1] \in R
    PROVE  m + 1 <= Len(p) /\ p[m + 1] = q[k + 1]
  <1> DEFINE a == q[k + 1]
  <1>1. /\ p \in Seq(L) /\ q \in Seq(L) /\ IsInjective(p) /\ IsInjective(q)
        /\ Len(p) \in Nat /\ Len(q) \in Nat /\ m \in Nat /\ m <= k /\ m <= Len(p)
        /\ DOMAIN p = 1..Len(p) /\ DOMAIN q = 1..Len(q)
        /\ \A e : e \in ToSet(p) <=> e \in ToSet(q) /\ e \in R
        /\ \A i \in 1..Len(p) : p[i] \in R /\ p[i] \in ToSet(q)
    BY StageTypes
  <1>2. k + 1 \in DOMAIN q /\ a \in ToSet(q)
    BY <1>1 DEF ToSet
  <1>3. PICK i \in 1..Len(p) : p[i] = a
    BY <1>1, <1>2 DEF ToSet
  <1>4. \A c \in 1..Len(p) : c <= m <=> \E j \in 1..Len(q) : j <= k /\ q[j] = p[c]
    BY DEF Stage
  <1>5. ~(i <= m)
    <2> SUFFICES ASSUME i <= m PROVE FALSE
      OBVIOUS
    <2>1. PICK j \in 1..Len(q) : j <= k /\ q[j] = a
      BY <1>3, <1>4
    <2>2. j = k + 1
      BY <1>1, <1>2, <2>1 DEF IsInjective
    <2> QED
      BY <2>1, <2>2
  <1>6. CASE i > m + 1
    <2> DEFINE c == p[m + 1]
    <2>1. m + 1 \in 1..Len(p)
      BY <1>1, <1>6
    <2>2. Bef(p, c, a)
      BY <1>1, <1>3, <1>6, <2>1 DEF Bef
    <2>3. c \in R
      BY <1>1, <2>1
    <2> HIDE DEF c
    <2>4. Bef(q, c, a)
      BY <2>2, <2>3 DEF Stage, LivePart
    <2>5. PICK j \in DOMAIN q, e \in DOMAIN q : j < e /\ q[j] = c /\ q[e] = a
      BY <2>4 DEF Bef
    <2>6. e = k + 1
      BY <1>1, <1>2, <2>5 DEF IsInjective
    <2>7. j \in 1..Len(q) /\ j <= k
      BY <1>1, <2>5, <2>6
    <2>8. m + 1 <= m
      BY <1>4, <2>1, <2>5, <2>7 DEF c
    <2> QED
      BY <1>1, <2>8
  <1>7. CASE ~(i > m + 1)
    <2>1. i = m + 1
      BY <1>1, <1>3, <1>5, <1>7
    <2> QED
      BY <1>1, <1>3, <2>1
  <1> QED
    BY <1>6, <1>7

LEMMA StageDone ==
    ASSUME NEW L, NEW R, NEW p, NEW q, NEW m, NEW k \in Nat, Stage(p, q, m, k, R, L),
           k + 1 > Len(q)
    PROVE  Stage(p, q, m, k + 1, R, L)
  <1>1. Len(q) \in Nat /\ m \in Nat /\ m <= k /\ m <= Len(p) /\ LivePart(p, q, R, L)
    BY StageTypes DEF Stage
  <1>2. \A j \in 1..Len(q) : j <= k + 1 <=> j <= k
    BY <1>1
  <1>3. \A i \in 1..Len(p) : i <= m <=> \E j \in 1..Len(q) : j <= k + 1 /\ q[j] = p[i]
    BY <1>2 DEF Stage
  <1>4. m <= k + 1
    BY <1>1
  <1> QED
    BY <1>1, <1>3, <1>4 DEF Stage

LEMMA StageDead ==
    ASSUME NEW L, NEW R, NEW p, NEW q, NEW m, NEW k \in Nat, Stage(p, q, m, k, R, L),
           k + 1 <= Len(q), q[k + 1] \notin R,
           NEW s \in Seq(L), \A d \in ToSet(s) : d \notin R
    PROVE  Stage(p, Enqueue(q, s), m, k + 1, R, L)
  <1> DEFINE r == Enqueue(q, s)
  <1>1. /\ p \in Seq(L) /\ q \in Seq(L) /\ IsInjective(q)
        /\ Len(p) \in Nat /\ Len(q) \in Nat /\ m \in Nat /\ m <= k /\ m <= Len(p)
        /\ \A i \in 1..Len(p) : p[i] \in R
    BY StageTypes
  <1>2. LivePart(p, r, R, L)
    <2>1. LivePart(Enqueue(p, Only(s, R)), r, R, L)
      BY LiveEnqueue DEF Stage
    <2>2. Only(s, R) = <<>> /\ Enqueue(p, <<>>) = p
      BY <1>1, OnlyNone, EnqueueNone
    <2> QED
      BY <2>1, <2>2
  <1>3. /\ Len(q) <= Len(r) /\ \A j \in 1..Len(q) : r[j] = q[j]
        /\ Len(r) \in Nat
    <2>1. Longer(q, r, L)
      BY <1>1, EnqueueFacts
    <2> QED
      BY <2>1, LenProperties DEF Longer
  <1> HIDE DEF r
  <1>4. ASSUME NEW i \in 1..Len(p)
        PROVE  i <= m <=> \E j \in 1..Len(r) : j <= k + 1 /\ r[j] = p[i]
    <2>1. i <= m <=> \E j \in 1..Len(q) : j <= k /\ q[j] = p[i]
      BY <1>4 DEF Stage
    <2>2. p[i] # q[k + 1]
      BY <1>1, <1>4
    <2>3. ASSUME NEW j \in 1..Len(q), j <= k, q[j] = p[i]
          PROVE  j \in 1..Len(r) /\ j <= k + 1 /\ r[j] = p[i]
      BY <1>1, <1>3, <2>3
    <2>4. ASSUME NEW j \in 1..Len(r), j <= k + 1, r[j] = p[i]
          PROVE  j \in 1..Len(q) /\ j <= k /\ q[j] = p[i]
      <3>1. j \in 1..Len(q)
        BY <1>1, <1>3, <2>4
      <3>2. q[j] = p[i]
        BY <1>3, <2>4, <3>1
      <3>3. j # k + 1
        BY <2>2, <3>2
      <3> QED
        BY <2>4, <3>1, <3>2, <3>3
    <2> QED
      BY <2>1, <2>3, <2>4
  <1>5. m <= k + 1
    BY <1>1
  <1> QED
    BY <1>1, <1>2, <1>4, <1>5 DEF Stage, r

LEMMA StageLive ==
    ASSUME NEW L, NEW R, NEW p, NEW q, NEW m, NEW k \in Nat, Stage(p, q, m, k, R, L),
           k + 1 <= Len(q), q[k + 1] \in R, NEW s \in Seq(L)
    PROVE  Stage(Enqueue(p, Only(s, R)), Enqueue(q, s), m + 1, k + 1, R, L)
  <1> DEFINE r == Enqueue(q, s)
             t == Enqueue(p, Only(s, R))
  <1>1. /\ p \in Seq(L) /\ q \in Seq(L) /\ IsInjective(p) /\ IsInjective(q)
        /\ Len(p) \in Nat /\ Len(q) \in Nat /\ m \in Nat /\ m <= k /\ m <= Len(p)
        /\ DOMAIN p = 1..Len(p) /\ DOMAIN q = 1..Len(q)
        /\ \A e : e \in ToSet(p) <=> e \in ToSet(q) /\ e \in R
    BY StageTypes
  <1>2. LivePart(t, r, R, L)
    BY LiveEnqueue DEF Stage
  <1>3. /\ Len(q) <= Len(r) /\ \A j \in 1..Len(q) : r[j] = q[j]
        /\ Len(r) \in Nat
    <2>1. Longer(q, r, L)
      BY <1>1, EnqueueFacts
    <2> QED
      BY <2>1, LenProperties DEF Longer
  <1>4. /\ Len(p) <= Len(t) /\ \A j \in 1..Len(p) : t[j] = p[j]
        /\ Len(t) \in Nat /\ IsInjective(t) /\ DOMAIN t = 1..Len(t)
    <2>1. Only(s, R) \in Seq(L)
      BY OnlyIn
    <2>2. Longer(p, t, L)
      BY <1>1, <2>1, EnqueueFacts
    <2> QED
      BY <2>2, LenProperties DEF Longer
  <1> HIDE DEF r, t
  <1>5. m + 1 <= Len(p) /\ p[m + 1] = q[k + 1]
    BY SameNext
  <1>6. /\ m + 1 \in 1..Len(t) /\ k + 1 \in 1..Len(r)
        /\ t[m + 1] = q[k + 1] /\ r[k + 1] = q[k + 1]
    BY <1>1, <1>3, <1>4, <1>5
  <1>7. \A i \in 1..Len(p) : i <= m <=> \E j \in 1..Len(q) : j <= k /\ q[j] = p[i]
    BY DEF Stage
  <1>8. ASSUME NEW i \in 1..Len(t), i <= m + 1
        PROVE  \E j \in 1..Len(r) : j <= k + 1 /\ r[j] = t[i]
    <2>1. CASE i = m + 1
      BY <1>6, <2>1
    <2>2. CASE i # m + 1
      <3>1. i \in 1..Len(p) /\ i <= m
        BY <1>1, <1>4, <1>8, <2>2
      <3>2. PICK j \in 1..Len(q) : j <= k /\ q[j] = p[i]
        BY <1>7, <3>1
      <3>3. j \in 1..Len(r) /\ j <= k + 1 /\ r[j] = q[j] /\ t[i] = p[i]
        BY <1>1, <1>3, <1>4, <3>1, <3>2
      <3> QED
        BY <3>2, <3>3
    <2> QED
      BY <2>1, <2>2
  <1>9. ASSUME NEW i \in 1..Len(t), NEW j \in 1..Len(r), j <= k + 1, r[j] = t[i]
        PROVE  i <= m + 1
    <2>1. j \in 1..Len(q) /\ q[j] = t[i]
      BY <1>1, <1>3, <1>9
    <2>2. CASE j = k + 1
      <3>1. t[m + 1] = t[i] /\ i \in DOMAIN t /\ m + 1 \in DOMAIN t
        BY <1>4, <1>6, <2>1, <2>2
      <3>2. i = m + 1
        BY <1>4, <3>1 DEF IsInjective
      <3> QED
        BY <1>1, <3>2
    <2>3. CASE j # k + 1
      <3>1. j <= k
        BY <1>9, <2>1, <2>3
      <3>2. t[i] \in R /\ t[i] \in ToSet(q)
        <4>1. t[i] \in ToSet(t)
          BY <1>4 DEF ToSet
        <4>2. q[j] \in ToSet(q)
          BY <1>1, <2>1 DEF ToSet
        <4> QED
          BY <1>2, <2>1, <4>1, <4>2 DEF LivePart
      <3>3. PICK c \in 1..Len(p) : p[c] = t[i]
        BY <1>1, <3>2 DEF ToSet
      <3>4. c \in DOMAIN t /\ t[c] = t[i] /\ i \in DOMAIN t
        BY <1>1, <1>4, <3>3
      <3>5. c = i
        BY <1>4, <3>4 DEF IsInjective
      <3>6. c <= m
        BY <1>7, <2>1, <3>1, <3>3
      <3> QED
        BY <1>1, <3>5, <3>6
    <2> QED
      BY <2>2, <2>3
  <1>10. m + 1 \in Nat /\ m + 1 <= k + 1 /\ m + 1 <= Len(t)
    BY <1>1, <1>6
  <1> QED
    BY <1>2, <1>8, <1>9, <1>10 DEF Stage, r, t

(* A run of InOrderBlocks over bs, visit by visit.                         *)
Prints(f, bs, n) ==
    /\ f[0] = <<Entry>> /\ f[n] = InOrderBlocks(bs)
    /\ \A k \in 1..n : f[k] = Visit(bs, k, f[k - 1])

LEMMA PrintsDef ==
    ASSUME NEW bs, NEW n, Graph(bs, n)
    PROVE  \E f : Prints(f, bs, n)
  <1>1. PICK f : /\ f[0] = <<Entry>> /\ f[n] = InOrderBlocks(bs)
                 /\ \A k \in 1..n : f[k] = Visit(bs, k, f[k - 1])
    BY InOrderDef
  <1>2. Prints(f, bs, n)
    BY <1>1 DEF Prints
  <1> QED
    BY <1>2

LEMMA StageStart ==
    ASSUME NEW n \in Nat \ {0}, NEW R, Entry \in R
    PROVE  Stage(<<Entry>>, <<Entry>>, 0, 0, R, 0..(n - 1))
  <1> DEFINE x == <<Entry>>
             L == 0..(n - 1)
  <1>1. Entry \in L
    BY DEF Entry
  <1>2. x \in Seq(L) /\ Len(x) = 1 /\ x[1] = Entry /\ DOMAIN x = {1}
    BY <1>1
  <1> HIDE DEF x, L
  <1>3. IsInjective(x) /\ \A e : e \in ToSet(x) <=> e = Entry
    BY <1>2 DEF IsInjective, ToSet
  <1>4. LivePart(x, x, R, L)
    BY <1>2, <1>3 DEF LivePart
  <1>5. \A i \in 1..Len(x) : ~(i <= 0)
    BY <1>2
  <1> QED
    BY <1>2, <1>4, <1>5 DEF Stage, x, L

(* One visit of q is one visit of p, or none.                              *)
LEMMA StageStep ==
    ASSUME NEW bs, NEW n, Graph(bs, n), NEW R, NoWayBack(bs, R),
           NEW p, NEW q, NEW m, NEW k \in Nat, Stage(p, q, m, k, R, 0..(n - 1))
    PROVE  \/ Stage(p, Visit(bs, k + 1, q), m, k + 1, R, 0..(n - 1))
           \/ Stage(Visit(LiveGraph(bs, R), m + 1, p), Visit(bs, k + 1, q),
                    m + 1, k + 1, R, 0..(n - 1))
  <1> DEFINE L == 0..(n - 1)
             a == q[k + 1]
             s == bs[a].succs
  <1>1. /\ n \in Nat \ {0} /\ DOMAIN bs = L /\ \A b \in L : bs[b].succs \in Seq(L)
    BY DEF Graph
  <1>2. q \in Seq(L) /\ p \in Seq(L) /\ Len(q) \in Nat /\ Len(p) \in Nat /\ m \in Nat
    BY StageTypes
  <1>3. CASE k + 1 > Len(q)
    <2>1. Visit(bs, k + 1, q) = q
      BY <1>3 DEF Visit
    <2> QED
      BY <1>3, <2>1, StageDone
  <1>4. CASE ~(k + 1 > Len(q))
    <2>1. k + 1 \in 1..Len(q) /\ k + 1 <= Len(q)
      BY <1>2, <1>4
    <2>2. a \in L /\ s \in Seq(L)
      BY <1>1, <1>2, <2>1, ElementOfSeq
    <2>3. Visit(bs, k + 1, q) = Enqueue(q, s)
      BY <1>4 DEF Visit
    <2>4. CASE a \notin R
      <3>1. \A d \in ToSet(s) : d \notin R
        BY <1>1, <2>2, <2>4 DEF NoWayBack
      <3> HIDE DEF s, L
      <3>2. Stage(p, Enqueue(q, s), m, k + 1, R, L)
        BY <2>1, <2>2, <2>4, <3>1, StageDead DEF L
      <3> QED
        BY <2>3, <3>2 DEF L
    <2>5. CASE a \in R
      <3>1. m + 1 <= Len(p) /\ p[m + 1] = a
        BY <2>1, <2>5, SameNext
      <3>2. LiveGraph(bs, R)[a].succs = Only(s, R)
        BY <2>2, <2>5, LiveGraphIs
      <3>3. Visit(LiveGraph(bs, R), m + 1, p) = Enqueue(p, Only(s, R))
        <4>1. ~(m + 1 > Len(p))
          BY <1>2, <3>1
        <4> QED
          BY <3>1, <3>2, <4>1 DEF Visit
      <3> HIDE DEF s, L
      <3>4. Stage(Enqueue(p, Only(s, R)), Enqueue(q, s), m + 1, k + 1, R, L)
        BY <2>1, <2>2, <2>5, StageLive DEF L
      <3> QED
        BY <2>3, <3>3, <3>4 DEF L
    <2> QED
      BY <2>4, <2>5
  <1> QED
    BY <1>3, <1>4

(* When everything in q is visited, everything in p is.                    *)
LEMMA StageEnd ==
    ASSUME NEW L, NEW R, NEW p, NEW q, NEW m, NEW k \in Nat, Stage(p, q, m, k, R, L),
           Len(q) <= k
    PROVE  Len(p) = m
  <1>1. /\ Len(p) \in Nat /\ Len(q) \in Nat /\ m \in Nat /\ m <= Len(p) /\ DOMAIN q = 1..Len(q)
        /\ \A i \in 1..Len(p) : p[i] \in ToSet(q)
    BY StageTypes
  <1>2. CASE Len(p) = 0
    BY <1>1, <1>2
  <1>3. CASE Len(p) # 0
    <2> DEFINE i == Len(p)
    <2>1. i \in 1..Len(p)
      BY <1>1, <1>3
    <2>2. PICK j \in 1..Len(q) : q[j] = p[i]
      BY <1>1, <2>1 DEF ToSet
    <2>3. j <= k
      BY <1>1, <2>2
    <2>4. i <= m
      BY <2>1, <2>2, <2>3 DEF Stage
    <2> QED
      BY <1>1, <2>4
  <1> QED
    BY <1>2, <1>3

(* The live blocks are printed as if there were no others.                 *)
LEMMA LivePrint ==
    ASSUME NEW bs, NEW n, Graph(bs, n), NEW R, Entry \in R, NoWayBack(bs, R)
    PROVE  LivePart(InOrderBlocks(LiveGraph(bs, R)), InOrderBlocks(bs), R, 0..(n - 1))
  <1> DEFINE L == 0..(n - 1)
             lg == LiveGraph(bs, R)
  <1>1. n \in Nat \ {0} /\ Graph(lg, n)
    BY LiveGraphIs DEF Graph
  <1> HIDE DEF lg
  <1>2. PICK f : Prints(f, bs, n)
    BY PrintsDef
  <1>3. PICK h : Prints(h, lg, n)
    BY <1>1, PrintsDef
  <1> DEFINE Good(k) == \E m \in Nat : m <= k /\ Stage(h[m], f[k], m, k, R, L)
             S == {k \in Nat : k <= n => Good(k)}
  <1>4. 0 \in S
    <2>1. h[0] = <<Entry>> /\ f[0] = <<Entry>>
      BY <1>2, <1>3 DEF Prints
    <2>2. Stage(h[0], f[0], 0, 0, R, L)
      BY <1>1, <2>1, StageStart
    <2> HIDE DEF L
    <2> QED
      BY <2>2
  <1>5. ASSUME NEW k \in Nat, k \in S PROVE k + 1 \in S
    <2> SUFFICES ASSUME k + 1 <= n PROVE Good(k + 1)
      OBVIOUS
    <2>1. k <= n /\ k + 1 \in 1..n /\ (k + 1) - 1 = k
      BY <1>1
    <2>2. PICK m \in Nat : m <= k /\ Stage(h[m], f[k], m, k, R, L)
      BY <1>5, <2>1
    <2>3. m + 1 \in 1..n /\ (m + 1) - 1 = m /\ m <= k + 1 /\ m + 1 <= k + 1 /\ m + 1 \in Nat
      BY <1>1, <2>1, <2>2
    <2>4. f[k + 1] = Visit(bs, k + 1, f[k]) /\ h[m + 1] = Visit(lg, m + 1, h[m])
      BY <1>2, <1>3, <2>1, <2>3 DEF Prints
    <2>5. \/ Stage(h[m], Visit(bs, k + 1, f[k]), m, k + 1, R, L)
          \/ Stage(Visit(lg, m + 1, h[m]), Visit(bs, k + 1, f[k]), m + 1, k + 1, R, L)
      BY <2>2, StageStep DEF lg
    <2> HIDE DEF L
    <2> QED
      BY <2>2, <2>3, <2>4, <2>5
  <1> HIDE DEF S
  <1>6. \A k \in Nat : k \in S
    BY <1>4, <1>5, AllNats
  <1>7. PICK m \in Nat : m <= n /\ Stage(h[m], f[n], m, n, R, L)
    BY <1>1, <1>6 DEF S
  <1>8. Len(f[n]) <= n
    <2>1. f[n] \in Seq(L) /\ IsInjective(f[n])
      BY <1>1, <1>7, StageTypes
    <2> QED
      BY <1>1, <2>1, InjectiveShort
  <1>9. Len(h[m]) = m
    BY <1>1, <1>7, <1>8, StageEnd
  <1> DEFINE T == {k \in Nat : k >= m /\ k <= n => h[k] = h[m]}
  <1>10. 0 \in T
    BY <1>7
  <1>11. ASSUME NEW k \in Nat, k \in T PROVE k + 1 \in T
    <2> SUFFICES ASSUME k + 1 >= m, k + 1 <= n PROVE h[k + 1] = h[m]
      OBVIOUS
    <2>1. CASE k + 1 = m
      BY <2>1
    <2>2. CASE k + 1 # m
      <3>1. k >= m /\ k <= n /\ k + 1 \in 1..n /\ (k + 1) - 1 = k /\ k + 1 > m
        BY <1>1, <1>7, <2>2
      <3>2. h[k + 1] = Visit(lg, k + 1, h[k]) /\ h[k] = h[m]
        BY <1>3, <1>11, <3>1 DEF Prints
      <3> QED
        BY <1>9, <3>1, <3>2 DEF Visit
    <2> QED
      BY <2>1, <2>2
  <1> HIDE DEF T
  <1>12. \A k \in Nat : k \in T
    BY <1>10, <1>11, AllNats
  <1>13. h[n] = h[m]
    BY <1>1, <1>7, <1>12 DEF T
  <1>14. h[n] = InOrderBlocks(lg) /\ f[n] = InOrderBlocks(bs)
    BY <1>2, <1>3 DEF Prints
  <1> QED
    BY <1>7, <1>13, <1>14 DEF Stage, lg

(* Two sets of blocks that agree on the live ones print them alike.        *)
LEMMA SameLivePrint ==
    ASSUME NEW bs, NEW ds, NEW n, Graph(bs, n), Graph(ds, n), NEW R, Entry \in R,
           NoWayBack(bs, R), NoWayBack(ds, R), LiveGraph(bs, R) = LiveGraph(ds, R),
           NEW b \in R, NEW c \in R
    PROVE  Before(bs, b, c) <=> Before(ds, b, c)
  <1> DEFINE p == InOrderBlocks(LiveGraph(bs, R))
  <1>1. LivePart(p, InOrderBlocks(bs), R, 0..(n - 1))
    BY LivePrint
  <1>2. LivePart(p, InOrderBlocks(ds), R, 0..(n - 1))
    BY LivePrint
  <1> HIDE DEF p
  <1>3. Bef(p, b, c) <=> Bef(InOrderBlocks(bs), b, c)
    BY <1>1 DEF LivePart
  <1>4. Bef(p, b, c) <=> Bef(InOrderBlocks(ds), b, c)
    BY <1>2 DEF LivePart
  <1> QED
    BY <1>3, <1>4 DEF Bef, Before

-----------------------------------------------------------------------------
(* What RemoveBlock does to the list of edges.                             *)

LEMMA SlicesAre ==
    ASSUME NEW L, NEW s \in Seq(L), NEW i \in 1..Len(s)
    PROVE  LET t == SubSeq(s, 1, i - 1)
               u == SubSeq(s, i + 1, Len(s))
           IN  /\ t \in Seq(L) /\ Len(t) = i - 1 /\ \A j \in 1..(i - 1) : t[j] = s[j]
               /\ u \in Seq(L) /\ Len(u) = Len(s) - i
               /\ \A j \in 1..(Len(s) - i) : u[j] = s[i + j]
  <1>1. Len(s) \in Nat /\ i \in Int /\ 1 \in Int /\ i - 1 \in Int /\ i + 1 \in Int /\ Len(s) \in Int
        /\ 1 <= i /\ i <= Len(s)
    BY LenProperties
  <1>2. \A j \in 1..Len(s) : s[j] \in L
    BY ElementOfSeq
  <1> DEFINE t == SubSeq(s, 1, i - 1)
             u == SubSeq(s, i + 1, Len(s))
             a == i - 1
             e == i + 1
             n == Len(s)
  <1>3. /\ t \in Seq(L) /\ Len(t) = IF 1 <= a THEN a - 1 + 1 ELSE 0
        /\ \A j \in 1..(a - 1 + 1) : t[j] = s[1 + j - 1]
    <2>1. a \in Int /\ 1 \in Int /\ \A j \in 1..a : s[j] \in L
      BY <1>1, <1>2
    <2>2. t = SubSeq(s, 1, a)
      OBVIOUS
    <2> HIDE DEF t, a
    <2> QED
      BY <2>1, <2>2, SubSeqProperties
  <1>4. /\ u \in Seq(L) /\ Len(u) = IF e <= n THEN n - e + 1 ELSE 0
        /\ \A j \in 1..(n - e + 1) : u[j] = s[e + j - 1]
    <2>1. e \in Int /\ n \in Int /\ \A j \in e..n : s[j] \in L
      BY <1>1, <1>2
    <2>2. u = SubSeq(s, e, n)
      OBVIOUS
    <2> HIDE DEF u, e, n
    <2> QED
      BY <2>1, <2>2, SubSeqProperties
  <1> HIDE DEF t, u
  <1>5. /\ a - 1 + 1 = i - 1 /\ n - e + 1 = Len(s) - i
        /\ (IF 1 <= a THEN a - 1 + 1 ELSE 0) = i - 1
        /\ (IF e <= n THEN n - e + 1 ELSE 0) = Len(s) - i
        /\ \A j \in Nat : 1 + j - 1 = j /\ e + j - 1 = i + j
    BY <1>1
  <1> HIDE DEF a, e, n
  <1>6. ASSUME NEW j \in 1..(i - 1) PROVE t[j] = s[j]
    <2>1. 1 + j - 1 = j
      BY <1>1
    <2>2. j \in 1..(a - 1 + 1)
      BY <1>5
    <2>3. t[j] = s[1 + j - 1]
      BY <1>3, <2>2
    <2> QED
      BY <2>1, <2>3
  <1>7. ASSUME NEW j \in 1..(Len(s) - i) PROVE u[j] = s[i + j]
    <2>1. e + j - 1 = i + j
      BY <1>1, <1>5
    <2>2. j \in 1..(n - e + 1)
      BY <1>5
    <2>3. u[j] = s[e + j - 1]
      BY <1>4, <2>2
    <2> QED
      BY <2>1, <2>3
  <1> QED
    BY <1>3, <1>4, <1>5, <1>6, <1>7 DEF t, u

(* r is s without its element i.                                           *)
Lacks(r, s, i, L) ==
    /\ r \in Seq(L) /\ Len(r) = Len(s) - 1
    /\ \A j \in 1..(i - 1) : r[j] = s[j]
    /\ \A j \in (i + 1)..Len(s) : r[j - 1] = s[j]

LEMMA RemoveAtLacks ==
    ASSUME NEW L, NEW s \in Seq(L), NEW i \in 1..Len(s)
    PROVE  Lacks(RemoveAt(s, i), s, i, L)
  <1> DEFINE t == SubSeq(s, 1, i - 1)
             u == SubSeq(s, i + 1, Len(s))
             r == t \o u
  <1>1. /\ t \in Seq(L) /\ Len(t) = i - 1 /\ \A j \in 1..(i - 1) : t[j] = s[j]
        /\ u \in Seq(L) /\ Len(u) = Len(s) - i
        /\ \A j \in 1..(Len(s) - i) : u[j] = s[i + j]
    BY SlicesAre
  <1>2. RemoveAt(s, i) = r
    BY DEF RemoveAt
  <1>3. Len(s) \in Nat /\ i \in Nat /\ 1 <= i /\ i <= Len(s)
    BY LenProperties
  <1> HIDE DEF t, u
  <1>4. /\ r \in Seq(L) /\ Len(r) = Len(t) + Len(u)
        /\ \A j \in 1..(Len(t) + Len(u)) : r[j] = IF j <= Len(t) THEN t[j] ELSE u[j - Len(t)]
    BY <1>1, ConcatProperties
  <1> HIDE DEF r
  <1>5. Len(r) = Len(s) - 1
    BY <1>1, <1>3, <1>4
  <1>6. ASSUME NEW j \in 1..(i - 1) PROVE r[j] = s[j]
    <2>1. j \in 1..(Len(t) + Len(u)) /\ j <= Len(t)
      BY <1>1, <1>3
    <2> QED
      BY <1>1, <1>4, <2>1
  <1>7. ASSUME NEW j \in (i + 1)..Len(s) PROVE r[j - 1] = s[j]
    <2>1. /\ j - 1 \in 1..(Len(t) + Len(u)) /\ ~(j - 1 <= Len(t)) /\ (j - 1) - Len(t) = j - i
          /\ j - i \in 1..(Len(s) - i) /\ i + (j - i) = j
      BY <1>1, <1>3
    <2>2. r[j - 1] = u[j - i]
      BY <1>4, <2>1
    <2> QED
      BY <1>1, <2>1, <2>2
  <1> QED
    BY <1>2, <1>4, <1>5, <1>6, <1>7 DEF Lacks

LEMMA WithoutLacks ==
    ASSUME NEW L, NEW s \in Seq(L), NEW b \in ToSet(s)
    PROVE  \E i \in 1..Len(s) : s[i] = b /\ Lacks(Without(s, b), s, i, L)
  <1> DEFINE i == CHOOSE j \in DOMAIN s : s[j] = b
  <1>1. i \in DOMAIN s /\ s[i] = b /\ DOMAIN s = 1..Len(s)
    BY LenProperties DEF ToSet
  <1>2. Without(s, b) = RemoveAt(s, i)
    BY DEF Without
  <1> HIDE DEF i
  <1>3. Lacks(Without(s, b), s, i, L)
    BY <1>1, <1>2, RemoveAtLacks
  <1> QED
    BY <1>1, <1>3

(* Taking a dead block out of a list leaves its live part as it was.       *)
LEMMA OnlyWithout ==
    ASSUME NEW L, NEW s \in Seq(L), NEW R, NEW b, b \notin R
    PROVE  Only(Without(s, b), R) = Only(s, R)
  <1>1. CASE b \notin ToSet(s)
    BY <1>1 DEF Without
  <1>2. CASE b \in ToSet(s)
    <2> DEFINE r == Without(s, b)
               n == Len(s)
    <2>1. PICK i \in 1..Len(s) : s[i] = b /\ Lacks(r, s, i, L)
      BY <1>2, WithoutLacks
    <2> HIDE DEF r
    <2>2. /\ r \in Seq(L) /\ Len(r) = n - 1
          /\ \A j \in 1..(i - 1) : r[j] = s[j]
          /\ \A j \in (i + 1)..n : r[j - 1] = s[j]
      BY <2>1 DEF Lacks
    <2>3. n \in Nat /\ i \in Nat /\ 1 <= i /\ i <= n
      BY LenProperties
    <2>4. PICK f : Filters(f, s, R, L)
      BY OnlyDef
    <2>5. PICK h : Filters(h, r, R, L)
      BY <2>2, OnlyDef
    <2>6. /\ f[0] = <<>> /\ f[n] = Only(s, R)
          /\ \A j \in 1..n : f[j] = IF s[j] \in R THEN Append(f[j - 1], s[j]) ELSE f[j - 1]
      BY <2>4 DEF Filters
    <2>7. /\ h[0] = <<>> /\ h[n - 1] = Only(r, R)
          /\ \A j \in 1..(n - 1) : h[j] = IF r[j] \in R THEN Append(h[j - 1], r[j]) ELSE h[j - 1]
      BY <2>2, <2>5 DEF Filters
    <2> HIDE DEF n
    <2> DEFINE S == {j \in Nat : j <= n => f[j] = h[IF j < i THEN j ELSE j - 1]}
    <2>8. 0 \in S
      BY <2>3, <2>6, <2>7
    <2>9. ASSUME NEW j \in Nat, j \in S PROVE j + 1 \in S
      <3> SUFFICES ASSUME j + 1 <= n PROVE f[j + 1] = h[IF j + 1 < i THEN j + 1 ELSE j]
        BY <2>3
      <3>1. j <= n /\ j + 1 \in 1..n /\ (j + 1) - 1 = j
        BY <2>3
      <3>2. f[j] = h[IF j < i THEN j ELSE j - 1]
        BY <2>9, <3>1
      <3>3. f[j + 1] = IF s[j + 1] \in R THEN Append(f[j], s[j + 1]) ELSE f[j]
        BY <2>6, <3>1
      <3>4. CASE j + 1 < i
        <4>1. j < i /\ j + 1 \in 1..(n - 1) /\ j + 1 \in 1..(i - 1)
          BY <2>3, <3>1, <3>4
        <4>2. h[j + 1] = IF r[j + 1] \in R THEN Append(h[j], r[j + 1]) ELSE h[j]
          BY <2>7, <3>1, <4>1
        <4>3. r[j + 1] = s[j + 1] /\ f[j] = h[j]
          BY <2>2, <3>2, <4>1
        <4> QED
          BY <3>3, <3>4, <4>2, <4>3
      <3>5. CASE j + 1 = i
        <4>1. j < i
          BY <3>5
        <4>2. f[j] = h[j]
          BY <3>2, <4>1
        <4>3. s[j + 1] \notin R
          BY <2>1, <3>5
        <4>4. ~(j + 1 < i)
          BY <2>3, <3>5
        <4> QED
          BY <3>3, <4>2, <4>3, <4>4
      <3>6. CASE j + 1 > i
        <4>1. ~(j < i) /\ ~(j + 1 < i) /\ j \in 1..(n - 1) /\ j + 1 \in (i + 1)..n
          BY <2>3, <3>1, <3>6
        <4>2. h[j] = IF r[j] \in R THEN Append(h[j - 1], r[j]) ELSE h[j - 1]
          BY <2>7, <4>1
        <4>3. r[j] = s[j + 1]
          BY <2>2, <3>1, <4>1
        <4>4. f[j] = h[j - 1]
          BY <3>2, <4>1
        <4> QED
          BY <3>3, <4>1, <4>2, <4>3, <4>4
      <3> QED
        BY <2>3, <3>4, <3>5, <3>6
    <2> HIDE DEF S
    <2>10. \A j \in Nat : j \in S
      BY <2>8, <2>9, AllNats
    <2>11. f[n] = h[n - 1]
      <3>1. ~(n < i)
        BY <2>3
      <3> QED
        BY <2>3, <2>10, <3>1 DEF S
    <2> QED
      BY <2>6, <2>7, <2>11 DEF r
  <1> QED
    BY <1>1, <1>2

LEMMA WithoutIn ==
    ASSUME NEW L, NEW s \in Seq(L), NEW b
    PROVE  ToSet(Without(s, b)) \subseteq ToSet(s)
  <1>1. CASE b \notin ToSet(s)
    BY <1>1 DEF Without
  <1>2. CASE b \in ToSet(s)
    <2> DEFINE r == Without(s, b)
    <2>1. PICK i \in 1..Len(s) : s[i] = b /\ Lacks(r, s, i, L)
      BY <1>2, WithoutLacks
    <2> HIDE DEF r
    <2>2. /\ r \in Seq(L) /\ Len(r) = Len(s) - 1
          /\ \A j \in 1..(i - 1) : r[j] = s[j]
          /\ \A j \in (i + 1)..Len(s) : r[j - 1] = s[j]
      BY <2>1 DEF Lacks
    <2>3. DOMAIN s = 1..Len(s) /\ DOMAIN r = 1..(Len(s) - 1) /\ Len(s) \in Nat /\ i \in Nat
      BY <2>2, LenProperties
    <2>4. ASSUME NEW j \in DOMAIN r PROVE r[j] \in ToSet(s)
      <3>1. CASE j < i
        <4>1. j \in 1..(i - 1) /\ j \in DOMAIN s
          BY <2>3, <3>1
        <4> QED
          BY <2>2, <4>1 DEF ToSet
      <3>2. CASE ~(j < i)
        <4>1. j + 1 \in (i + 1)..Len(s) /\ j + 1 \in DOMAIN s /\ (j + 1) - 1 = j
          BY <2>3, <3>2
        <4>2. r[j] = s[j + 1]
          BY <2>2, <4>1
        <4> QED
          BY <4>1, <4>2 DEF ToSet
      <3> QED
        BY <3>1, <3>2
    <2> QED
      BY <2>4 DEF ToSet, r
  <1> QED
    BY <1>1, <1>2

-----------------------------------------------------------------------------
(* While a function is built.                                              *)

(* Where control gets inside an open statement, it gets to the first block *)
(* of both its bodies, or to those of a loop.                              *)
Entered(i) ==
    \A b \in Reachable : Inside(i, b) => {Exit(i) - 2, Exit(i) - 1} \subseteq Reachable
(* Only these are linked to the exit, wherever the bodies may end.         *)
Gathers(i) ==
    \A a \in DOMAIN blk : Edge(blk, a, Exit(i)) => a \in {Exit(i) - 2, Exit(i) - 1}

LiveInv ==
    phase = "build" =>
        /\ NoWayBack(blk, Reachable)
        /\ \A i \in DOMAIN open : Entered(i) /\ Gathers(i)
        /\ pass = 0

LEMMA BackIsAnEdge ==
    ASSUME NEW bs, NEW R
    PROVE  NoWayBack(bs, R) <=>
               \A a \in DOMAIN bs : a \notin R => \A d : Edge(bs, a, d) => d \notin R
  BY DEF NoWayBack, Edge

(* Code behind a block only adds to where control leaves it for.           *)
LEMMA FlowGrows ==
    ASSUME BuildInv, CodeInv, NEW bs, NEW D, NewFlow(bs, D), NEW b \in DOMAIN blk
    PROVE  /\ Out(blk, b) \subseteq Out(bs, b)
           /\ \A e \in Out(bs, b) : e \in Out(blk, b) \/ (b = cur /\ e \in D)
  <1>1. Out(bs, b) = IF b = cur /\ ~Term(blk, b) THEN D ELSE Out(blk, b)
    BY DEF NewFlow
  <1>2. CASE b = cur /\ ~Term(blk, b)
    <2>1. blk[b].instrs \in Seq(InstrOf(Count)) /\ Plain(blk[b].instrs)
      BY LabelFacts DEF CodeInv
    <2>2. Out(blk, b) = {}
      BY <1>2, <2>1, OpenLeavesNowhere DEF Term, Out
    <2> QED
      BY <1>1, <1>2, <2>2
  <1>3. CASE ~(b = cur /\ ~Term(blk, b))
    BY <1>1, <1>3
  <1> QED
    BY <1>2, <1>3

LEMMA GrowsReachable ==
    ASSUME DOMAIN blk \subseteq DOMAIN blk', BuildInv,
           \A b \in DOMAIN blk : Out(blk, b) \subseteq Out(blk', b)
    PROVE  Reachable \subseteq Reachable'
  <1> SUFFICES ASSUME NEW c \in Reachable, NEW Q \in SUBSET (DOMAIN blk'), Closed(Q)'
               PROVE  c \in Q
    BY DEF Reachable
  <1> DEFINE T == Q \cap DOMAIN blk
  <1>1. Entry \in T
    BY LabelFacts DEF Closed
  <1>2. \A b \in T : Out(blk, b) \subseteq T
    BY OutAreLabels DEF Closed
  <1>3. Closed(T) /\ T \in SUBSET (DOMAIN blk)
    BY <1>1, <1>2 DEF Closed
  <1> HIDE DEF T
  <1>4. c \in T
    BY <1>3 DEF Reachable
  <1> QED
    BY <1>4 DEF T

LEMMA WithinReachable ==
    ASSUME NEW W, W \subseteq DOMAIN blk', Closed(W)'
    PROVE  Reachable' \subseteq W
  BY DEF Reachable

(* What the statements that add no block have in common: edges stay, and   *)
(* code leaves for d from inside the innermost open statement n only.      *)
Joins(n, d) ==
    /\ phase = "build" /\ phase' = "build" /\ pass' = pass
    /\ n \in DOMAIN open /\ \A i \in DOMAIN open : i <= n
    /\ d = IF open[n].kind = "loop" THEN Other(n) ELSE Exit(n)
    /\ DOMAIN blk' = DOMAIN blk /\ SameEdges(blk')
    /\ DOMAIN open' \subseteq DOMAIN open /\ \A i \in DOMAIN open' : Exit(i)' = Exit(i)
    /\ \A b \in DOMAIN blk :
          /\ Out(blk, b) \subseteq Out(blk', b)
          /\ \A e \in Out(blk', b) : e \in Out(blk, b) \/ (e = d /\ Inside(n, b))
    /\ Out(blk', Exit(n)) = {}

LEMMA SameReachableLive ==
    ASSUME LiveInv, phase = "build", phase' = "build", pass' = pass,
           DOMAIN blk' = DOMAIN blk, SameEdges(blk'), Reachable' = Reachable,
           DOMAIN open' \subseteq DOMAIN open, \A i \in DOMAIN open' : Exit(i)' = Exit(i)
    PROVE  LiveInv'
  <1>1. \A a \in DOMAIN blk : \A c : Edge(blk', a, c) <=> Edge(blk, a, c)
    BY DEF SameEdges, Edge
  <1>2. NoWayBack(blk, Reachable)
    BY DEF LiveInv
  <1>3. NoWayBack(blk', Reachable)
    BY <1>1, <1>2, BackIsAnEdge
  <1>4. ASSUME NEW i \in DOMAIN open' PROVE Entered(i)' /\ Gathers(i)'
    <2>1. i \in DOMAIN open /\ Entered(i) /\ Gathers(i) /\ Exit(i)' = Exit(i)
      BY <1>4 DEF LiveInv
    <2>2. Entered(i)'
      BY <2>1 DEF Entered, Inside
    <2>3. Gathers(i)'
      BY <1>1, <2>1 DEF Gathers
    <2> QED
      BY <2>2, <2>3
  <1>5. pass' = 0
    BY DEF LiveInv
  <1> QED
    BY <1>3, <1>4, <1>5 DEF LiveInv

LEMMA JoinsLive ==
    ASSUME BuildInv, Linked, LiveInv, NEW n, NEW d, Joins(n, d)
    PROVE  LiveInv'
  <1> USE DEF Joins
  <1>1. Reachable \subseteq DOMAIN blk /\ Closed(Reachable) /\ Reachable \subseteq Reachable'
    BY ReachableClosed, GrowsReachable DEF Reachable
  <1>2. Exit(n) \in Nat /\ Enclosed(n) /\ Entered(n) /\ Gathers(n) /\ Exit(n) \in DOMAIN blk
    BY LabelFacts DEF Linked, LiveInv
  <1>3. CASE \A b \in Reachable : \A e \in Out(blk', b) : e \in Reachable
    <2>0. PICK W : W = Reachable
      OBVIOUS
    <2>1. Closed(W)' /\ W \subseteq DOMAIN blk'
      BY <1>1, <1>3, <2>0 DEF Closed
    <2>2. Reachable' \subseteq W
      BY <2>1, WithinReachable
    <2>3. Reachable' = Reachable
      BY <1>1, <2>0, <2>2
    <2> QED
      BY <2>3, SameReachableLive
  <1>4. ASSUME NEW b \in Reachable, NEW e \in Out(blk', b), e \notin Reachable PROVE LiveInv'
    <2>1. e = d /\ Inside(n, b) /\ b \in DOMAIN blk
      BY <1>1, <1>4 DEF Closed
    <2>2. {Exit(n) - 2, Exit(n) - 1} \subseteq Reachable
      BY <1>2, <2>1 DEF Entered
    <2>3. open[n].kind # "loop" /\ d = Exit(n)
      BY <1>2, <1>4, <2>1, <2>2 DEF Enclosed
    <2>4. Reachable' \subseteq Reachable \cup {d}
      <3>0. PICK W : W = Reachable \cup {d}
        OBVIOUS
      <3>1. Closed(W)'
        BY <1>1, <2>3, <3>0 DEF Closed
      <3>2. W \subseteq DOMAIN blk'
        BY <1>1, <1>2, <2>3, <3>0
      <3>3. Reachable' \subseteq W
        BY <3>1, <3>2, WithinReachable
      <3> QED
        BY <3>0, <3>3
    <2>5. \A a \in DOMAIN blk : \A c : Edge(blk', a, c) <=> Edge(blk, a, c)
      BY DEF SameEdges, Edge
    <2>6. NoWayBack(blk', Reachable')
      <3> DEFINE R == Reachable
                 T == Reachable'
      <3> SUFFICES ASSUME NEW a \in DOMAIN blk', a \notin T, NEW c, Edge(blk', a, c) PROVE c \notin T
        BY BackIsAnEdge
      <3>1. a \in DOMAIN blk /\ a \notin R /\ Edge(blk, a, c)
        BY <1>1, <2>5
      <3>2. NoWayBack(blk, R)
        BY DEF LiveInv
      <3>3. c \notin R
        BY <3>1, <3>2, BackIsAnEdge
      <3>4. c # d
        BY <1>2, <2>2, <2>3, <3>1 DEF Gathers
      <3> QED
        BY <2>4, <3>3, <3>4
    <2>7. ASSUME NEW i \in DOMAIN open' PROVE Entered(i)' /\ Gathers(i)'
      <3>1. i \in DOMAIN open /\ Entered(i) /\ Gathers(i) /\ Exit(i)' = Exit(i) /\ Enclosed(i)
            /\ Exit(i) \in Nat /\ i \in Nat /\ n \in Nat /\ i <= n
        BY <2>7, LabelFacts DEF LiveInv, Linked
      <3>2. Gathers(i)'
        BY <2>5, <3>1 DEF Gathers
      <3>3. ASSUME NEW x \in Reachable', Inside(i, x)
            PROVE  {Exit(i) - 2, Exit(i) - 1} \subseteq Reachable
        <4>1. CASE x \in Reachable
          BY <3>1, <3>3, <4>1 DEF Entered
        <4>2. CASE x = d
          <5>1. i # n
            BY <1>2, <2>3, <3>3, <4>2 DEF Inside
          <5>2. Exit(n) > Exit(i) + 2
            BY <3>1, <5>1 DEF Enclosed
          <5>3. b \in Nat
            BY <2>1, LabelFacts
          <5>4. Inside(i, b)
            BY <1>2, <2>1, <3>1, <5>2, <5>3 DEF Inside
          <5> QED
            BY <3>1, <5>4 DEF Entered
        <4> QED
          BY <2>4, <3>3, <4>1, <4>2
      <3>4. Entered(i)'
        <4>1. \A x : Inside(i, x)' <=> Inside(i, x)
          BY <3>1 DEF Inside
        <4> QED
          BY <1>1, <3>1, <3>3, <4>1 DEF Entered
      <3> QED
        BY <3>2, <3>4
    <2>8. pass' = 0
      BY DEF LiveInv
    <2> QED
      BY <2>6, <2>7, <2>8 DEF LiveInv
  <1> QED
    BY <1>3, <1>4

LEMMA SimpleLive ==
    ASSUME BuildInv, CodeInv, LiveInv, Statement \/ Return
    PROVE  LiveInv'
  <1>1. /\ DOMAIN blk' = DOMAIN blk /\ SameEdges(blk')
        /\ \A b \in DOMAIN blk : Out(blk', b) = Out(blk, b)
    <2>1. CASE Statement
      BY <2>1, StatementFlow DEF SameFlow
    <2>2. CASE Return
      <3>1. DOMAIN blk' = DOMAIN blk /\ SameEdges(blk') /\ NewFlow(blk', {})
        BY <2>2, ReturnFlow
      <3>2. \A b \in DOMAIN blk : Out(blk, b) \subseteq Out(blk', b) /\ Out(blk', b) \subseteq Out(blk, b)
        BY <3>1, FlowGrows
      <3> QED
        BY <3>1, <3>2
    <2> QED
      BY <2>1, <2>2
  <1>2. Reachable' = Reachable
    BY <1>1, SameOutReachable
  <1>3. /\ phase = "build" /\ phase' = "build" /\ pass' = pass /\ open' = open
    BY DEF Statement, Return, Read, prune
  <1>4. DOMAIN open' \subseteq DOMAIN open /\ \A i \in DOMAIN open' : Exit(i)' = Exit(i)
    BY <1>3 DEF Exit
  <1> QED
    BY <1>1, <1>2, <1>3, <1>4, SameReachableLive

(* No code leaves an exit before its statement is closed.                  *)
LEMMA ExitLeavesNowhere ==
    ASSUME FreshInv, phase = "build", NEW n \in DOMAIN open
    PROVE  Exit(n) # cur /\ Out(blk, Exit(n)) = {}
  <1>1. blk[Exit(n)].instrs = <<>> /\ Exit(n) # cur
    BY DEF FreshInv, Fresh
  <1> QED
    BY <1>1, EmptyFlow DEF Out

LEMMA ElseJoins ==
    ASSUME BuildInv, FlowInv, Linked, Else
    PROVE  \E n, d : Joins(n, d)
  <1>0. PICK n : n = Len(open)
    OBVIOUS
  <1>1. n \in DOMAIN open /\ n \in Nat /\ Last(open) = open[n] /\ \A i \in DOMAIN open : i <= n
    BY <1>0, Innermost DEF Else
  <1>2. /\ phase = "build" /\ phase' = "build" /\ pass' = pass /\ open[n].kind = "then"
        /\ open' = [open EXCEPT ![n].kind = "else", ![n].then = returns]
    BY <1>0, <1>1 DEF Else, Read, prune
  <1>3. DOMAIN blk' = DOMAIN blk /\ SameEdges(blk') /\ NewFlow(blk', {Exit(n)})
    BY <1>0, ElseFlow DEF FlowInv
  <1>4. Inside(n, cur)
    BY <1>1 DEF Linked, Enclosed
  <1>5. \A b \in DOMAIN blk :
           /\ Out(blk, b) \subseteq Out(blk', b)
           /\ \A e \in Out(blk', b) : e \in Out(blk, b) \/ (e = Exit(n) /\ Inside(n, b))
    BY <1>3, <1>4, FlowGrows DEF FlowInv
  <1>6. DOMAIN open' = DOMAIN open
    BY <1>2
  <1>7. ASSUME NEW i \in DOMAIN open PROVE Exit(i)' = Exit(i)
    <2>1. CASE i = n
      <3> DEFINE k == Count
      <3>1. open[n] \in FrameOf(k)
        BY <1>1, LabelFacts, ElementOfSeq
      <3> HIDE DEF k
      <3>2. open'[n] = [open[n] EXCEPT !.kind = "else", !.then = returns]
        BY <1>1, <1>2
      <3> QED
        BY <2>1, <3>1, <3>2 DEF Exit, FrameOf
    <2>2. CASE i # n
      BY <1>2, <1>7, <2>2 DEF Exit
    <2> QED
      BY <2>1, <2>2
  <1>8. Out(blk', Exit(n)) = {}
    <2>1. Exit(n) # cur /\ Out(blk, Exit(n)) = {} /\ Exit(n) \in DOMAIN blk
      BY <1>1, <1>2, ExitLeavesNowhere, LabelFacts DEF FlowInv
    <2> QED
      BY <1>3, <2>1 DEF NewFlow
  <1>9. Joins(n, Exit(n))
    BY <1>1, <1>2, <1>3, <1>5, <1>6, <1>7, <1>8 DEF Joins
  <1> QED
    BY <1>9

LEMMA ClosingJoins ==
    ASSUME BuildInv, FlowInv, Linked, EndIf \/ EndLoop
    PROVE  \E n, d : Joins(n, d)
  <1>0. PICK n : n = Len(open)
    OBVIOUS
  <1>1. /\ n \in DOMAIN open /\ n \in Nat /\ Last(open) = open[n] /\ \A i \in DOMAIN open : i <= n
        /\ DOMAIN Front(open) = 1..(n - 1)
        /\ \A i \in 1..(n - 1) : i \in DOMAIN open /\ Front(open)[i] = open[i]
    BY <1>0, Innermost DEF EndIf, EndLoop
  <1>2. /\ phase = "build" /\ phase' = "build" /\ pass' = pass /\ open' = Front(open)
    BY DEF EndIf, EndLoop, Read, prune
  <1>3. DOMAIN open' \subseteq DOMAIN open /\ \A i \in DOMAIN open' : Exit(i)' = Exit(i)
    BY <1>1, <1>2 DEF Exit
  <1>4. Inside(n, cur) /\ Enclosed(n) /\ Exit(n) \in Nat
    BY <1>1, LabelFacts DEF Linked, Enclosed
  <1>5. Exit(n) # cur /\ Out(blk, Exit(n)) = {} /\ Exit(n) \in DOMAIN blk
    BY <1>1, <1>2, ExitLeavesNowhere, LabelFacts DEF FlowInv
  <1>6. CASE EndLoop
    <2>1. open[n].kind = "loop"
      BY <1>1, <1>6 DEF EndLoop
    <2>2. DOMAIN blk' = DOMAIN blk /\ SameEdges(blk') /\ NewFlow(blk', {Other(n)})
      BY <1>0, <1>6, EndLoopFlow DEF FlowInv
    <2>3. \A b \in DOMAIN blk :
             /\ Out(blk, b) \subseteq Out(blk', b)
             /\ \A e \in Out(blk', b) : e \in Out(blk, b) \/ (e = Other(n) /\ Inside(n, b))
      BY <1>4, <2>2, FlowGrows DEF FlowInv
    <2>4. Out(blk', Exit(n)) = {}
      BY <1>5, <2>2 DEF NewFlow
    <2>5. Joins(n, Other(n))
      BY <1>1, <1>2, <1>3, <2>1, <2>2, <2>3, <2>4 DEF Joins
    <2> QED
      BY <2>5
  <1>7. CASE EndIf
    <2>1. open[n].kind # "loop"
      BY <1>1, <1>7 DEF EndIf
    <2>2. /\ DOMAIN blk' = DOMAIN blk /\ SameEdges(blk')
          /\ \A b \in DOMAIN blk :
                ~(Then(n) /\ b = Other(n)) =>
                   Out(blk', b) = IF b = cur /\ ~Term(blk, b) THEN {Exit(n)} ELSE Out(blk, b)
          /\ Then(n) => Out(blk', Other(n)) = {Exit(n)}
      BY <1>0, <1>7, EndIfFlow DEF FlowInv
    <2>3. Other(n) = Exit(n) - 1 /\ Inside(n, Other(n)) /\ Other(n) # Exit(n)
      BY <1>4, <2>1 DEF Enclosed, Inside
    <2>4. ASSUME NEW b \in DOMAIN blk
          PROVE  /\ Out(blk, b) \subseteq Out(blk', b)
                 /\ \A e \in Out(blk', b) : e \in Out(blk, b) \/ (e = Exit(n) /\ Inside(n, b))
      <3>1. CASE Then(n) /\ b = Other(n)
        <4>1. blk[b].instrs = <<>>
          BY <1>1, <1>2, <3>1 DEF FlowInv, FreshInv, Fresh
        <4>2. Out(blk, b) = {}
          BY <4>1, EmptyFlow DEF Out
        <4> QED
          BY <2>2, <2>3, <3>1, <4>2
      <3>2. CASE ~(Then(n) /\ b = Other(n)) /\ ~(b = cur /\ ~Term(blk, b))
        BY <2>2, <3>2
      <3>3. CASE ~(Then(n) /\ b = Other(n)) /\ b = cur /\ ~Term(blk, b)
        <4>1. blk[b].instrs \in Seq(InstrOf(Count)) /\ Plain(blk[b].instrs)
          BY LabelFacts DEF FlowInv, CodeInv
        <4>2. Out(blk, b) = {}
          BY <3>3, <4>1, OpenLeavesNowhere DEF Term, Out
        <4> QED
          BY <1>4, <2>2, <3>3, <4>2
      <3> QED
        BY <3>1, <3>2, <3>3
    <2>5. Out(blk', Exit(n)) = {}
      BY <1>5, <2>2, <2>3
    <2>6. Joins(n, Exit(n))
      BY <1>1, <1>2, <1>3, <2>1, <2>2, <2>4, <2>5 DEF Joins
    <2> QED
      BY <2>6
  <1> QED
    BY <1>6, <1>7

(* A new statement can be reached if the block in front of it can, and was *)
(* not left before: then control gets to its first two blocks.             *)
LEMMA OpeningReachable ==
    ASSUME BuildInv, BuildInv', CodeInv,
           NEW m, NEW new, NEW frame, NEW D, Opening(m, new, frame, D)
    PROVE  /\ Reachable \subseteq Reachable'
           /\ \/ Reachable' \subseteq Reachable
              \/ /\ cur \in Reachable
                 /\ Reachable' \subseteq Reachable \cup new
                 /\ {m, m + 1} \subseteq Reachable'
  <1>1. /\ m \in Nat \ {0} /\ DOMAIN blk = 0..(m - 1) /\ cur \in DOMAIN blk
        /\ DOMAIN blk' = DOMAIN blk \cup new /\ NewFlow(blk', D) /\ D \subseteq new
        /\ new = {m, m + 1, m + 2}
        /\ \A b \in new : Out(blk', b) \subseteq new
        /\ IF frame.kind = "then" THEN D = {m, m + 1}
           ELSE D = {m} /\ Out(blk', m) = {m + 1, m + 2}
    BY LabelFacts DEF Opening
  <1>2. Reachable \subseteq DOMAIN blk /\ Closed(Reachable)
    BY ReachableClosed DEF Reachable
  <1>3. \A b \in Reachable' : \A c \in Out(blk', b) : c \in DOMAIN blk' => c \in Reachable'
    BY DEF Reachable, Closed
  <1>4. \A b \in DOMAIN blk : Out(blk, b) \subseteq Out(blk', b)
    BY <1>1, FlowGrows
  <1>5. Reachable \subseteq Reachable'
    BY <1>1, <1>4, GrowsReachable
  <1>6. \A b \in DOMAIN blk :
           Out(blk', b) = IF b = cur /\ ~Term(blk, b) THEN D ELSE Out(blk, b)
    BY <1>1 DEF NewFlow
  <1>7. CASE cur \in Reachable /\ ~Term(blk, cur)
    <2>1. PICK W : W = Reachable \cup new
      OBVIOUS
    <2>2. \A b \in DOMAIN blk : Out(blk', b) \subseteq Out(blk, b) \cup new
      BY <1>1, <1>6
    <2>3. Closed(W)' /\ W \subseteq DOMAIN blk'
      BY <1>1, <1>2, <2>1, <2>2 DEF Closed
    <2>4. Reachable' \subseteq W
      BY <2>3, WithinReachable
    <2>5. D \subseteq Reachable'
      BY <1>1, <1>3, <1>5, <1>6, <1>7
    <2>6. {m, m + 1} \subseteq Reachable'
      BY <1>1, <1>3, <2>5
    <2> QED
      BY <1>5, <1>7, <2>1, <2>4, <2>6
  <1>8. CASE ~(cur \in Reachable /\ ~Term(blk, cur))
    <2>1. PICK W : W = Reachable
      OBVIOUS
    <2>2. Closed(W)' /\ W \subseteq DOMAIN blk'
      BY <1>1, <1>2, <1>6, <1>8, <2>1 DEF Closed
    <2>3. Reachable' \subseteq W
      BY <2>2, WithinReachable
    <2> QED
      BY <1>5, <2>1, <2>3
  <1> QED
    BY <1>7, <1>8

LEMMA OpeningLive ==
    ASSUME BuildInv, BuildInv', CodeInv, Linked, LiveInv, pass' = pass,
           NEW m, NEW new, NEW frame, NEW D, Opening(m, new, frame, D)
    PROVE  LiveInv'
  <1>1. /\ m \in Nat \ {0} /\ DOMAIN blk = 0..(m - 1) /\ cur \in DOMAIN blk
        /\ phase = "build" /\ phase' = "build"
        /\ DOMAIN blk' = DOMAIN blk \cup new /\ new = {m, m + 1, m + 2}
        /\ D \subseteq {m, m + 1} /\ frame.exit = m + 2
        /\ \A a \in DOMAIN blk : \A c : Edge(blk', a, c) <=> Edge(blk, a, c) \/ (a = cur /\ c \in D)
        /\ \A a \in new : \A c : Edge(blk', a, c) => c \in new /\ a # m + 2
    BY LabelFacts DEF Opening
  <1>2. \A c \in DOMAIN blk : c \in Nat /\ c < m /\ c \notin new
    BY <1>1
  <1>3. PICK R : R = Reachable
    OBVIOUS
  <1>4. PICK T : T = Reachable'
    OBVIOUS
  <1>5. R \subseteq DOMAIN blk /\ T \subseteq DOMAIN blk'
    BY <1>3, <1>4 DEF Reachable
  <1>6. /\ R \subseteq T
        /\ T \subseteq R \/ (cur \in R /\ T \subseteq R \cup new /\ {m, m + 1} \subseteq T)
    BY <1>3, <1>4, OpeningReachable
  <1>7. NoWayBack(blk', T)
    <2> SUFFICES ASSUME NEW a \in DOMAIN blk', a \notin T, NEW c, Edge(blk', a, c) PROVE c \notin T
      BY BackIsAnEdge
    <2>1. CASE a \in new
      <3>1. c \in new /\ a \in {m, m + 1}
        BY <1>1, <2>1
      <3>2. T \subseteq R
        BY <1>6, <3>1
      <3> QED
        BY <1>2, <1>5, <3>1, <3>2
    <2>2. CASE a \in DOMAIN blk /\ Edge(blk, a, c)
      <3>1. c \in DOMAIN blk
        BY <2>2, EdgesAreLabels
      <3>2. NoWayBack(blk, R)
        BY <1>1, <1>3 DEF LiveInv
      <3>3. c \notin R
        BY <1>6, <2>2, <3>2, BackIsAnEdge
      <3> QED
        BY <1>2, <1>6, <3>1, <3>3
    <2>3. CASE a = cur /\ c \in D
      <3>1. T \subseteq R
        BY <1>6, <2>3
      <3> QED
        BY <1>1, <1>2, <1>5, <2>3, <3>1
    <2> QED
      BY <1>1, <2>1, <2>2, <2>3
  <1>8. PICK e : e = Len(open) + 1
    OBVIOUS
  <1>9. /\ DOMAIN open' = DOMAIN open \cup {e} /\ open'[e] = frame
        /\ \A i \in DOMAIN open : open'[i] = open[i]
    BY <1>8, Opened DEF Opening
  <1>10. ASSUME NEW i \in DOMAIN open PROVE Entered(i)' /\ Gathers(i)'
    <2>1. /\ Entered(i) /\ Gathers(i) /\ Exit(i)' = Exit(i) /\ Inside(i, cur)
          /\ Exit(i) \in DOMAIN blk
      BY <1>1, <1>9, LabelFacts DEF Exit, LiveInv, Linked, Enclosed
    <2>2. \A c : Inside(i, c)' <=> Inside(i, c)
      BY <2>1 DEF Inside
    <2>3. ASSUME NEW b \in T, Inside(i, b) PROVE {Exit(i) - 2, Exit(i) - 1} \subseteq R
      <3>1. CASE b \in R
        BY <1>3, <2>1, <2>3, <3>1 DEF Entered
      <3>2. CASE b \notin R
        <4>1. cur \in R
          BY <1>6, <2>3, <3>2
        <4> QED
          BY <1>3, <2>1, <4>1 DEF Entered
      <3> QED
        BY <3>1, <3>2
    <2>4. Entered(i)'
      BY <1>4, <1>6, <2>1, <2>2, <2>3 DEF Entered
    <2>5. ASSUME NEW a \in DOMAIN blk', Edge(blk', a, Exit(i))
          PROVE  a \in {Exit(i) - 2, Exit(i) - 1}
      <3>1. a \in DOMAIN blk /\ Edge(blk, a, Exit(i))
        BY <1>1, <1>2, <2>1, <2>5
      <3> QED
        BY <2>1, <3>1 DEF Gathers
    <2>6. Gathers(i)'
      BY <2>1, <2>5 DEF Gathers
    <2> QED
      BY <2>4, <2>6
  <1>11. Entered(e)' /\ Gathers(e)'
    <2>1. Exit(e)' = m + 2 /\ (m + 2) - 2 = m /\ (m + 2) - 1 = m + 1
      BY <1>1, <1>9 DEF Exit
    <2>2. ASSUME NEW b \in T, b \in {m, m + 1} \/ b > m + 2 PROVE {m, m + 1} \subseteq T
      <3>1. b \notin R
        BY <1>1, <1>2, <1>5, <2>2
      <3> QED
        BY <1>6, <2>2, <3>1
    <2>3. \A b : Inside(e, b)' <=> b \in {m, m + 1} \/ b > m + 2
      BY <2>1 DEF Inside
    <2>4. Entered(e)'
      BY <1>4, <2>1, <2>2, <2>3 DEF Entered
    <2>5. ASSUME NEW a \in DOMAIN blk', Edge(blk', a, m + 2) PROVE a \in {m, m + 1}
      <3>1. CASE a \in new
        BY <1>1, <2>5, <3>1
      <3>2. CASE a \in DOMAIN blk
        <4>1. ~Edge(blk, a, m + 2)
          BY <1>1, <1>2, <3>2, EdgesAreLabels
        <4>2. m + 2 \in D
          BY <1>1, <2>5, <3>2, <4>1
        <4> QED
          BY <1>1, <4>2
      <3> QED
        BY <1>1, <3>1, <3>2
    <2>6. Gathers(e)'
      BY <2>1, <2>5 DEF Gathers
    <2> QED
      BY <2>4, <2>6
  <1>12. pass' = 0
    BY <1>1 DEF LiveInv
  <1> QED
    BY <1>4, <1>7, <1>9, <1>10, <1>11, <1>12 DEF LiveInv

LEMMA LiveStep ==
    ASSUME BuildInv, BuildInv', FlowInv, PrintInv, LiveInv, [Next]_vars
    PROVE  LiveInv'
  <1>1. CASE Statement \/ Return
    BY <1>1, SimpleLive DEF FlowInv
  <1>2. CASE Else \/ EndIf \/ EndLoop
    <2>1. phase = "build"
      BY <1>2 DEF Else, EndIf, EndLoop, Read
    <2>2. PICK n, d : Joins(n, d)
      BY <1>2, <2>1, ElseJoins, ClosingJoins DEF PrintInv
    <2> QED
      BY <2>1, <2>2, JoinsLive DEF PrintInv
  <1>3. CASE OpenIf \/ OpenLoop
    <2>1. PICK m, new, frame, D : Opening(m, new, frame, D)
      BY <1>3, OpenIfOpens, OpenLoopOpens DEF FlowInv
    <2>2. phase = "build" /\ pass' = pass
      BY <1>3 DEF OpenIf, OpenLoop, Read, prune
    <2> QED
      BY <2>1, <2>2, OpeningLive DEF PrintInv, FlowInv
  <1>4. CASE UNCHANGED vars
    <2>1. blk' = blk /\ open' = open /\ phase' = phase /\ pass' = pass
      BY <1>4 DEF vars, prune
    <2> QED
      BY <2>1 DEF LiveInv, NoWayBack, Entered, Gathers, Edge, Reachable, Closed, Inside, Exit
  <1>5. CASE \/ Reject \/ FinishPlain \/ FinishOptimized \/ StartPass \/ FinishPrune
             \/ \E b \in unseen : RemoveBlock(b)
    <2>1. phase' # "build"
      BY <1>5 DEF Reject, FinishPlain, FinishOptimized, StartPass, FinishPrune, RemoveBlock
    <2> QED
      BY <2>1 DEF LiveInv
  <1> QED
    BY <1>1, <1>2, <1>3, <1>4, <1>5 DEF Next

LEMMA InitLive ==
    ASSUME Init
    PROVE  LiveInv
  <1>1. /\ open = <<>> /\ DOMAIN blk = {Entry} /\ pass = 0
        /\ blk[Entry] = NewBlock({}, <<>>, NoBlock)
    BY DEF Init
  <1>2. Entry \in Reachable
    BY <1>1 DEF Reachable, Closed
  <1>3. DOMAIN open = {}
    BY <1>1
  <1>4. NoWayBack(blk, Reachable)
    BY <1>1, <1>2 DEF NoWayBack
  <1> QED
    BY <1>1, <1>3, <1>4 DEF LiveInv

LEMMA LiveAlways == Spec => []LiveInv
  <1>1. BuildInv /\ BuildInv' /\ FlowInv /\ PrintInv /\ LiveInv /\ [Next]_vars => LiveInv'
    BY LiveStep
  <1> QED
    BY <1>1, InitLive, InvTyped, FlowAlways, PrintAlways, PTL DEF Spec

-----------------------------------------------------------------------------
(* While blocks are removed.                                               *)

LEMMA KeysAfterDef ==
    ASSUME NEW bs
    PROVE  /\ KeysAfter(0, bs) = DOMAIN bs
           /\ \A i \in 1..Passes :
                 KeysAfter(i, bs) = KeysAfter(i - 1, bs) \cap Seen(KeysAfter(i - 1, bs), bs)
  <1> DEFINE N == Passes
             X == SUBSET (DOMAIN bs)
             x == DOMAIN bs
             next(keys) == keys \cap Seen(keys, bs)
             g == [p \in (1..N) \X X |-> next(p[2])]
             F(f) == [i \in 0..N |-> IF i = 0 THEN DOMAIN bs
                                     ELSE f[i - 1] \cap Seen(f[i - 1], bs)]
  <1>1. N \in Nat
    BY BoundsAssumption
  <1>2. \A keys \in X : next(keys) \in X
    OBVIOUS
  <1>3. g \in [(1..N) \X X -> X] /\ x \in X
    <2>0. x \in X
      OBVIOUS
    <2> HIDE DEF X, N, next
    <2>1. \A p \in (1..N) \X X : p[2] \in X
      OBVIOUS
    <2> QED
      BY <1>2, <2>0, <2>1
  <1>4. PICK f \in [0..N -> X] : f[0] = x /\ \A i \in 1..N : f[i] = g[<<i, f[i - 1]>>]
    <2>1. Steps(N, X, x, g)
      BY <1>1, <1>3 DEF Steps
    <2> HIDE DEF X, N, g, x
    <2> QED
      BY <2>1, BoundedRecursion
  <1>5. ASSUME NEW i \in 1..N PROVE f[i] = next(f[i - 1])
    <2> HIDE DEF X, N, next
    <2>1. i - 1 \in 0..N /\ f[i - 1] \in X
      BY <1>1, <1>4
    <2>2. <<i, f[i - 1]>> \in (1..N) \X X
      BY <2>1
    <2> QED
      BY <1>4, <2>2
  <1>6. f = F(f)
    <2>1. ASSUME NEW i \in 0..N PROVE f[i] = F(f)[i]
      <3>1. CASE i = 0
        BY <1>4, <3>1
      <3>2. CASE i # 0
        <4>1. i \in 1..N
          BY <1>1, <3>2
        <4> QED
          BY <1>5, <3>2, <4>1
      <3> QED
        BY <3>1, <3>2
    <2>2. f = [i \in 0..N |-> f[i]]
      BY <1>4
    <2>3. F(f) = [i \in 0..N |-> F(f)[i]]
      OBVIOUS
    <2> HIDE DEF F, N, X
    <2> QED
      BY <2>1, <2>2, <2>3
  <1> DEFINE h == CHOOSE h : h = F(h)
  <1>7. \A i : KeysAfter(i, bs) = h[i]
    BY DEF KeysAfter
  <1>8. h = F(h)
    <2> HIDE DEF F
    <2> QED
      BY <1>6
  <1>9. 0 \in 0..N /\ \A i \in 1..N : i \in 0..N /\ i # 0
    BY <1>1
  <1> HIDE DEF h, N
  <1>10. h[0] = DOMAIN bs /\ \A i \in 1..N : h[i] = h[i - 1] \cap Seen(h[i - 1], bs)
    BY <1>8, <1>9
  <1> QED
    BY <1>7, <1>10 DEF N

(* RemoveBlock leaves the instructions alone, and the blocks of a round    *)
(* are chosen by them: what earlier removals did to the edges is nowhere   *)
(* read.  pruned, the blocks before the pass, stays what blk is to the     *)
(* blocks that can run.                                                    *)
OrderInv ==
    phase \in {"prune", "done"} /\ optimize =>
        /\ NoWayBack(blk, Reachable) /\ NoWayBack(pruned, Reachable)
        /\ DOMAIN pruned = DOMAIN blk /\ Graph(pruned, Count)
        /\ LiveGraph(blk, Reachable) = LiveGraph(pruned, Reachable)
        /\ \A b \in DOMAIN blk : blk[b].instrs = pruned[b].instrs
        /\ blocks \ unseen = KeysAfter(pass, pruned)
        /\ phase = "done" => unseen = {} /\ pass = Passes

LEMMA SameInstrsSeen ==
    ASSUME NEW bs, NEW ds, NEW keys, \A b \in keys : bs[b].instrs = ds[b].instrs
    PROVE  Seen(keys, bs) = Seen(keys, ds)
  <1>1. \A b \in keys : Targets(b, bs) = Targets(b, ds)
    BY DEF Targets
  <1> QED
    BY <1>1 DEF Seen

LEMMA FinishOrder ==
    ASSUME BuildInv, BuildInv', CodeInv, LiveInv, FinishOptimized
    PROVE  OrderInv'
  <1>1. /\ phase = "build" /\ phase' = "prune" /\ pruned' = blk' /\ pass' = pass
        /\ blocks' = blocks /\ unseen' = unseen
    BY DEF FinishOptimized
  <1>2. DOMAIN blk' = DOMAIN blk /\ SameEdges(blk')
    BY FinishEdges
  <1>3. Reachable' = Reachable
    BY <1>2, OptimizedOut, SameOutReachable
  <1>4. \A a \in DOMAIN blk : \A c : Edge(blk', a, c) <=> Edge(blk, a, c)
    BY <1>2 DEF SameEdges, Edge
  <1>5. NoWayBack(blk, Reachable) /\ pass = 0
    BY <1>1 DEF LiveInv
  <1>6. NoWayBack(blk', Reachable)
    BY <1>2, <1>4, <1>5, BackIsAnEdge
  <1>7. blocks = DOMAIN blk /\ unseen = {}
    BY <1>1, LabelFacts DEF BuildInv
  <1>8. KeysAfter(0, blk') = DOMAIN blk'
    BY KeysAfterDef
  <1>9. Graph(blk', Count')
    <2> DEFINE n == Count'
    <2>1. /\ n \in Nat \ {0} /\ DOMAIN blk' = 0..(n - 1)
          /\ blk' \in [0..(n - 1) -> BlockOf(n)]
      BY DEF BuildInv
    <2> HIDE DEF n
    <2>2. Graph(blk', n)
      BY <2>1 DEF Graph, BlockOf
    <2> QED
      BY <2>2 DEF n
  <1> QED
    BY <1>1, <1>2, <1>3, <1>5, <1>6, <1>7, <1>8, <1>9 DEF OrderInv

LEMMA StartOrder ==
    ASSUME BuildInv, OrderInv, StartPass, optimize
    PROVE  OrderInv'
  <1>1. /\ phase = "prune" /\ phase' = "prune" /\ unseen = {} /\ pass < Passes
        /\ pass' = pass + 1 /\ unseen' = blocks \ Seen(blocks, blk)
        /\ blk' = blk /\ blocks' = blocks /\ pruned' = pruned
    BY DEF StartPass, RoundsLeft
  <1>2. /\ blocks = KeysAfter(pass, pruned)
        /\ \A b \in DOMAIN blk : blk[b].instrs = pruned[b].instrs
    BY <1>1 DEF OrderInv
  <1>3. blocks \subseteq DOMAIN blk
    BY LabelFacts DEF BuildInv
  <1>4. Seen(blocks, blk) = Seen(blocks, pruned)
    BY <1>2, <1>3, SameInstrsSeen
  <1>5. pass + 1 \in 1..Passes /\ (pass + 1) - 1 = pass
    BY <1>1, BoundsAssumption DEF BuildInv
  <1>6. KeysAfter(pass', pruned) = blocks \cap Seen(blocks, pruned)
    BY <1>1, <1>2, <1>5, KeysAfterDef
  <1>7. blocks' \ unseen' = KeysAfter(pass', pruned')
    BY <1>1, <1>4, <1>6
  <1>8. Reachable' = Reachable /\ Count' = Count
    BY <1>1 DEF Reachable, Closed, Count
  <1> QED
    BY <1>1, <1>7, <1>8 DEF OrderInv

LEMMA UnlinkSuccs ==
    ASSUME BuildInv, NEW b, NEW a \in DOMAIN blk
    PROVE  /\ blk[a].succs \in Seq(0..(Count - 1))
           /\ \/ Unlink(b, blk)[a].succs = Without(blk[a].succs, b)
              \/ Unlink(b, blk)[a].succs = blk[a].succs
  <1> DEFINE s == blk[a].succs
  <1>1. s \in Seq(0..(Count - 1)) /\ blk[a] \in BlockOf(Count)
    BY LabelFacts DEF BuildInv, BlockOf
  <1>2. Unlink(b, blk)[a].succs = IF a \in blk[b].preds THEN Without(s, b) ELSE s
    BY <1>1 DEF Unlink, BlockOf
  <1> QED
    BY <1>1, <1>2

LEMMA RemoveOrder ==
    ASSUME BuildInv, CodeInv, KeptInv, OrderInv, optimize, NEW b \in unseen, RemoveBlock(b)
    PROVE  OrderInv'
  <1>1. /\ phase = "prune" /\ phase' = "prune" /\ pass' = pass /\ blk' = Unlink(b, blk)
        /\ blocks' = blocks \ {b} /\ unseen' = unseen \ {b} /\ pruned' = pruned
    BY DEF RemoveBlock
  <1>2. /\ DOMAIN blk' = DOMAIN blk
        /\ \A a \in DOMAIN blk : blk'[a].instrs = blk[a].instrs /\ Out(blk', a) = Out(blk, a)
    BY PruneFlow
  <1>3. Reachable' = Reachable /\ Count' = Count
    BY <1>2, SameOutReachable DEF Count
  <1>4. PICK R : R = Reachable
    OBVIOUS
  <1>5. b \notin R
    BY <1>1, <1>4, ReachableStays
  <1>6. \A a \in DOMAIN blk :
           /\ blk[a].succs \in Seq(0..(Count - 1))
           /\ blk'[a].succs = Without(blk[a].succs, b) \/ blk'[a].succs = blk[a].succs
    BY <1>1, UnlinkSuccs
  <1>7. NoWayBack(blk', R)
    <2>1. \A a \in DOMAIN blk : ToSet(blk'[a].succs) \subseteq ToSet(blk[a].succs)
      BY <1>6, WithoutIn
    <2>2. NoWayBack(blk, R)
      BY <1>1, <1>4 DEF OrderInv
    <2> QED
      BY <1>2, <2>1, <2>2 DEF NoWayBack
  <1>8. LiveGraph(blk', R) = LiveGraph(blk, R)
    <2>1. \A a \in DOMAIN blk : Only(blk'[a].succs, R) = Only(blk[a].succs, R)
      BY <1>5, <1>6, OnlyWithout
    <2> QED
      BY <1>2, <2>1 DEF LiveGraph
  <1>9. blocks' \ unseen' = blocks \ unseen
    BY <1>1
  <1> QED
    BY <1>1, <1>2, <1>3, <1>4, <1>7, <1>8, <1>9 DEF OrderInv

LEMMA OrderStep ==
    ASSUME BuildInv, BuildInv', CodeInv, KeptInv, RootInv, LiveInv, OrderInv, [Next]_vars
    PROVE  OrderInv'
  <1>1. CASE Statement \/ Return \/ Else \/ EndIf \/ EndLoop \/ OpenIf \/ OpenLoop \/ Reject
    <2>1. phase' \in {"build", "rejected"}
      BY <1>1 DEF Statement, Return, Else, EndIf, EndLoop, OpenIf, OpenLoop, Read, Reject
    <2> QED
      BY <2>1 DEF OrderInv
  <1>2. CASE FinishOptimized
    BY <1>2, FinishOrder
  <1>3. CASE FinishPlain
    BY <1>3 DEF OrderInv, FinishPlain, source
  <1>4. CASE StartPass
    <2>1. optimize
      BY <1>4 DEF RootInv, StartPass
    <2> QED
      BY <1>4, <2>1, StartOrder
  <1>5. CASE FinishPrune
    <2>1. /\ phase = "prune" /\ unseen = {} /\ pass = Passes /\ blk' = blk /\ blocks' = blocks
          /\ unseen' = unseen /\ pass' = pass /\ pruned' = pruned /\ optimize' = optimize
      BY <1>5 DEF FinishPrune, prune, source
    <2>2. Reachable' = Reachable /\ Count' = Count
      BY <2>1 DEF Reachable, Closed, Count
    <2> QED
      BY <2>1, <2>2 DEF OrderInv
  <1>6. CASE \E b \in unseen : RemoveBlock(b)
    <2>1. PICK b \in unseen : RemoveBlock(b)
      BY <1>6
    <2>2. optimize
      BY <2>1 DEF RootInv, RemoveBlock
    <2> QED
      BY <2>1, <2>2, RemoveOrder
  <1>7. CASE UNCHANGED vars
    <2>1. /\ phase' = phase /\ blk' = blk /\ blocks' = blocks /\ optimize' = optimize
          /\ unseen' = unseen /\ pass' = pass /\ pruned' = pruned
      BY <1>7 DEF vars, prune, source
    <2>2. Reachable' = Reachable /\ Count' = Count
      BY <2>1 DEF Reachable, Closed, Count
    <2> QED
      BY <2>1, <2>2 DEF OrderInv
  <1> QED
    BY <1>1, <1>2, <1>3, <1>4, <1>5, <1>6, <1>7 DEF Next

(* The order in which Go hands out the keys of a map decides neither which *)
(* blocks a function keeps nor where the blocks that can run are printed:  *)
(* the queue of InOrderBlocks, its dead blocks left out, is the one of the *)
(* blocks that can run alone, since no edge leads back from a dead block   *)
(* to one of them, and RemoveBlock touches none of the edges between them. *)
THEOREM OrderNeverMatters == Spec => []OrderIrrelevant
  <1>1. /\ BuildInv /\ BuildInv' /\ FlowInv /\ KeptInv /\ RootInv /\ LiveInv /\ OrderInv
        /\ [Next]_vars
        => OrderInv'
    BY OrderStep DEF FlowInv
  <1>2. Init => OrderInv
    BY DEF Init, OrderInv
  <1>3. Spec => []OrderInv
    BY <1>1, <1>2, InvTyped, FlowAlways, KeptAlways, RootAlways, LiveAlways, PTL DEF Spec
  <1>4. BuildInv /\ OrderInv => OrderIrrelevant
    <2> SUFFICES ASSUME BuildInv, OrderInv, phase = "done", optimize
                 PROVE  /\ blocks = KeysAfter(Passes, pruned)
                        /\ \A b, c \in Live : Before(blk, b, c) <=> Before(pruned, b, c)
      BY DEF OrderIrrelevant
    <2>1. blocks = KeysAfter(Passes, pruned)
      BY DEF OrderInv
    <2> DEFINE R == Reachable
               n == Count
    <2>2. /\ NoWayBack(blk, R) /\ NoWayBack(pruned, R) /\ Graph(pruned, n) /\ Graph(blk, n)
          /\ LiveGraph(blk, R) = LiveGraph(pruned, R)
      BY BlocksGraph DEF OrderInv
    <2>3. Entry \in R /\ Live \subseteq R
      BY ReachableClosed, LiveIsReachable DEF Closed
    <2> HIDE DEF R, n
    <2>4. \A b, c \in R : Before(blk, b, c) <=> Before(pruned, b, c)
      BY <2>2, <2>3, SameLivePrint
    <2> QED
      BY <2>1, <2>3, <2>4
  <1> QED
    BY <1>3, <1>4, InvTyped, PTL
=============================================================================
