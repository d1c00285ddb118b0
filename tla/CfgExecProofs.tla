---------------------------- MODULE CfgExecProofs ---------------------------
(***************************************************************************)
(* However long a function is and however deep it nests: the ARM code of   *)
(* its blocks, plain or pruned and with the branches dropped that the      *)
(* peephole drops, does what the statements say when it is executed, and   *)
(* stops only where they stop.                                             *)
(***************************************************************************)
EXTENDS CfgExec, CfgBuilderProofs

-----------------------------------------------------------------------------
(* Running the code: how statements nest.                                  *)

Openers == {"if", "for"}
Closers == {"fi", "rof"}

(* How deep a list of statements is nested after its first k.              *)
HowMany(s, k, C) == Cardinality({i \in 1..k : s[i] \in C})
Deep(s, k) == HowMany(s, k, Openers) - HowMany(s, k, Closers)
Turn(t) == IF t \in Openers THEN 1 ELSE IF t \in Closers THEN -1 ELSE 0

LEMMA DepthIsDeep ==
    \A k : Depth(k) = Deep(prog, k)
  BY DEF Depth, Deep, HowMany, Openers, Closers

LEMMA CountOneMore ==
    ASSUME NEW s, NEW k \in Nat, NEW C
    PROVE  /\ HowMany(s, k, C) \in Nat
           /\ HowMany(s, k + 1, C) = HowMany(s, k, C) + IF s[k + 1] \in C THEN 1 ELSE 0
  <1> DEFINE S == {i \in 1..k : s[i] \in C}
             T == {i \in 1..(k + 1) : s[i] \in C}
  <1>1. IsFiniteSet(1..k) /\ S \subseteq 1..k
    BY FS_Interval
  <1>2. IsFiniteSet(S)
    BY <1>1, FS_Subset
  <1>3. k + 1 \notin S
    OBVIOUS
  <1>4. T = IF s[k + 1] \in C THEN S \cup {k + 1} ELSE S
    OBVIOUS
  <1> HIDE DEF S, T
  <1>5. Cardinality(S) \in Nat
    BY <1>2, FS_CardinalityType
  <1>6. Cardinality(S \cup {k + 1}) = Cardinality(S) + 1
    BY <1>2, <1>3, FS_AddElement
  <1>7. Cardinality(T) = Cardinality(S) + IF s[k + 1] \in C THEN 1 ELSE 0
    BY <1>4, <1>5, <1>6
  <1> QED
    BY <1>5, <1>7 DEF S, T, HowMany

LEMMA DeepStep ==
    ASSUME NEW s
    PROVE  /\ Deep(s, 0) = 0
           /\ \A k \in Nat : Deep(s, k) \in Int /\ Deep(s, k + 1) = Deep(s, k) + Turn(s[k + 1])
  <1>1. \A C : HowMany(s, 0, C) = 0
    <2> TAKE C
    <2>1. {i \in 1..0 : s[i] \in C} = {}
      OBVIOUS
    <2> QED
      BY <2>1, FS_EmptySet DEF HowMany
  <1>2. Deep(s, 0) = 0
    BY <1>1 DEF Deep
  <1>3. ASSUME NEW k \in Nat
        PROVE  Deep(s, k) \in Int /\ Deep(s, k + 1) = Deep(s, k) + Turn(s[k + 1])
    <2> DEFINE o == HowMany(s, k, Openers)
               c == HowMany(s, k, Closers)
               p == HowMany(s, k + 1, Openers)
               d == HowMany(s, k + 1, Closers)
    <2>1. o \in Nat /\ p = o + IF s[k + 1] \in Openers THEN 1 ELSE 0
      BY CountOneMore
    <2>2. c \in Nat /\ d = c + IF s[k + 1] \in Closers THEN 1 ELSE 0
      BY CountOneMore
    <2>3. Deep(s, k) = o - c /\ Deep(s, k + 1) = p - d
      BY DEF Deep
    <2>4. ~(s[k + 1] \in Openers /\ s[k + 1] \in Closers)
      BY DEF Openers, Closers
    <2> HIDE DEF o, c, p, d
    <2> QED
      BY <2>1, <2>2, <2>3, <2>4 DEF Turn
  <1> QED
    BY <1>2, <1>3

LEMMA DeepSame ==
    ASSUME NEW s, NEW r, NEW n \in Nat, \A i \in 1..n : s[i] = r[i]
    PROVE  \A k \in 0..n : Deep(s, k) = Deep(r, k)
  <1> SUFFICES ASSUME NEW k \in 0..n PROVE Deep(s, k) = Deep(r, k)
    OBVIOUS
  <1>1. \A i \in 1..k : s[i] = r[i]
    OBVIOUS
  <1>2. \A C : HowMany(s, k, C) = HowMany(r, k, C)
    <2> TAKE C
    <2>1. {i \in 1..k : s[i] \in C} = {i \in 1..k : r[i] \in C}
      BY <1>1
    <2> QED
      BY <2>1 DEF HowMany
  <1> QED
    BY <1>2 DEF Deep

(* Statement e closes what k opened, or ends what the else at k began.     *)
Matches(s, k, e) ==
    /\ k \in 1..Len(s) /\ e \in (k + 1)..Len(s)
    /\ Deep(s, e) = Deep(s, k) - 1
    /\ \A j \in k..(e - 1) : Deep(s, j) >= Deep(s, k)

(* One more statement.                                                     *)
LEMMA OneMore ==
    ASSUME NEW S, NEW s \in Seq(S), NEW t
    PROVE  /\ Len(s) \in Nat /\ Len(Append(s, t)) = Len(s) + 1
           /\ Append(s, t)[Len(s) + 1] = t
           /\ \A k \in 1..Len(s) : Append(s, t)[k] = s[k]
           /\ \A k \in 0..Len(s) : Deep(Append(s, t), k) = Deep(s, k) /\ Deep(s, k) \in Int
           /\ Deep(Append(s, t), Len(s) + 1) = Deep(s, Len(s)) + Turn(t)
           /\ \A k, e : Matches(s, k, e) => Matches(Append(s, t), k, e)
  <1> DEFINE X == S \cup {t}
  <1>1. s \in Seq(X) /\ t \in X
    BY SeqMonotonic
  <1> HIDE DEF X
  <1>2. /\ Len(s) \in Nat /\ Len(Append(s, t)) = Len(s) + 1 /\ Append(s, t)[Len(s) + 1] = t
        /\ \A k \in 1..Len(s) : Append(s, t)[k] = s[k]
    BY <1>1, AppendProperties, LenProperties
  <1> DEFINE r == Append(s, t)
  <1> HIDE DEF r
  <1>3. \A k \in 0..Len(s) : Deep(r, k) = Deep(s, k) /\ Deep(s, k) \in Int
    <2>1. \A k \in 1..Len(s) : r[k] = s[k]
      BY <1>2 DEF r
    <2>2. \A k \in 0..Len(s) : Deep(r, k) = Deep(s, k)
      BY <1>2, <2>1, DeepSame
    <2>3. \A k \in Nat : Deep(s, k) \in Int
      BY DeepStep
    <2> QED
      BY <1>2, <2>2, <2>3
  <1>4. Deep(r, Len(s) + 1) = Deep(r, Len(s)) + Turn(r[Len(s) + 1])
    BY <1>2, DeepStep
  <1>5. Deep(r, Len(s) + 1) = Deep(s, Len(s)) + Turn(t)
    BY <1>2, <1>3, <1>4 DEF r
  <1>6. ASSUME NEW k, NEW e, Matches(s, k, e) PROVE Matches(r, k, e)
    <2>1. k \in 1..Len(s) /\ e \in (k + 1)..Len(s) /\ Len(r) = Len(s) + 1
      BY <1>2, <1>6 DEF Matches, r
    <2>2. k \in 1..Len(r) /\ e \in (k + 1)..Len(r)
      BY <1>2, <2>1
    <2>3. k \in 0..Len(s) /\ e \in 0..Len(s) /\ \A j \in k..(e - 1) : j \in 0..Len(s)
      BY <1>2, <2>1
    <2>4. Deep(r, e) = Deep(r, k) - 1 /\ \A j \in k..(e - 1) : Deep(r, j) >= Deep(r, k)
      BY <1>3, <1>6, <2>3 DEF Matches
    <2> QED
      BY <2>2, <2>4 DEF Matches
  <1> QED
    BY <1>2, <1>3, <1>5, <1>6 DEF r

(* It closes one statement, and one statement closes that.                 *)
LEMMA OneMatch ==
    ASSUME NEW S, NEW s \in Seq(S), NEW k, NEW e, NEW j, NEW d, Matches(s, k, e), Matches(s, j, d)
    PROVE  /\ k = j => e = d
           /\ e = d /\ s[k] \in Openers /\ s[j] \in Openers => k = j
  <1>1. /\ Len(s) \in Nat /\ k \in 1..Len(s) /\ j \in 1..Len(s)
        /\ e \in (k + 1)..Len(s) /\ d \in (j + 1)..Len(s)
    BY LenProperties DEF Matches
  <1>2. \A i \in Nat : Deep(s, i) \in Int /\ Deep(s, i + 1) = Deep(s, i) + Turn(s[i + 1])
    BY DeepStep
  <1>3. Deep(s, e) \in Int /\ Deep(s, d) \in Int /\ Deep(s, k) \in Int /\ Deep(s, j) \in Int
    BY <1>1, <1>2
  <1>4. ASSUME k = j PROVE e = d
    <2>1. ~(e < d)
      <3>1. e < d => e \in k..(d - 1)
        BY <1>1
      <3> QED
        BY <1>3, <1>4, <3>1 DEF Matches
    <2>2. ~(d < e)
      <3>1. d < e => d \in k..(e - 1)
        BY <1>1, <1>4
      <3> QED
        BY <1>3, <1>4, <3>1 DEF Matches
    <2> QED
      BY <1>1, <2>1, <2>2
  <1>5. ASSUME NEW a, NEW b, Matches(s, a, e), Matches(s, b, e), a < b, s[b] \in Openers PROVE FALSE
    <2>1. a \in 1..Len(s) /\ b \in 1..Len(s) /\ b - 1 \in Nat /\ b - 1 + 1 = b
      BY <1>1, <1>5 DEF Matches
    <2>2. Deep(s, b) = Deep(s, b - 1) + 1 /\ Deep(s, b - 1) \in Int
      BY <1>2, <1>5, <2>1 DEF Turn
    <2>3. b - 1 \in a..(e - 1)
      BY <1>1, <1>5, <2>1 DEF Matches
    <2>4. Deep(s, b - 1) >= Deep(s, a) /\ Deep(s, a) = Deep(s, b)
      <3>1. Deep(s, e) = Deep(s, a) - 1 /\ Deep(s, e) = Deep(s, b) - 1
            /\ Deep(s, a) \in Int /\ Deep(s, b) \in Int
        BY <1>2, <1>5, <2>1 DEF Matches
      <3> QED
        BY <1>5, <2>1, <2>3, <3>1 DEF Matches
    <2> QED
      BY <2>2, <2>4
  <1>6. e = d /\ s[k] \in Openers /\ s[j] \in Openers => k = j
    <2>1. e = d /\ s[k] \in Openers /\ s[j] \in Openers => ~(k < j) /\ ~(j < k)
      BY <1>5
    <2> QED
      BY <1>1, <2>1
  <1> QED
    BY <1>4, <1>6

-----------------------------------------------------------------------------
(* Which statement a block begins with.  A chart w gives for every label    *)
(* the statement its code begins at (0 while that is not known), and for    *)
(* every open statement where it began and where its else stands.           *)

Elses(s, k, e) == {l \in (k + 1)..(e - 1) : s[l] = "else" /\ Deep(s, l) = Deep(s, k)}

(* Where the branch behind a then body, that of a loop's end and the false *)
(* one of a conditional or loop must lead, once that can be said.          *)
ElseDone(w, k, d) == \E e : Matches(w.prog, k, e) /\ w.prog[e] = "fi" /\ w.at[d] = e + 1
RofDone(w, k, d) == \E o : w.prog[o] = "for" /\ Matches(w.prog, o, k) /\ w.at[d] = o
IfDone(w, k, d) ==
    \E e : /\ Matches(w.prog, k, e) /\ w.prog[e] = "fi"
           /\ \/ Elses(w.prog, k, e) = {} /\ w.at[d] = e
              \/ \E l : Elses(w.prog, k, e) = {l} /\ w.at[d] = l + 1
ForDone(w, k, d) == \E e : Matches(w.prog, k, e) /\ w.at[d] = e + 1

(* Until then an open statement knows the block.                           *)
ElseBy(w, i, k, d) == w.open[i].kind = "else" /\ w.turned[i] = k /\ d = w.open[i].exit
IfBy(w, i, k, d) ==
    /\ w.began[i] = k
    /\ \/ w.open[i].kind = "then" /\ d = w.open[i].other
       \/ w.open[i].kind = "else" /\ w.at[d] = w.turned[i] + 1
ForBy(w, i, k, d) == w.began[i] = k /\ w.open[i].kind = "loop" /\ d = w.open[i].exit

ElseTo(w, k, d) == ElseDone(w, k, d) \/ \E i \in DOMAIN w.open : ElseBy(w, i, k, d)
IfTo(w, k, d) == IfDone(w, k, d) \/ \E i \in DOMAIN w.open : IfBy(w, i, k, d)
ForTo(w, k, d) == ForDone(w, k, d) \/ \E i \in DOMAIN w.open : ForBy(w, i, k, d)

Framed(w, i) ==
    /\ w.began[i] \in 1..Len(w.prog) /\ Deep(w.prog, w.began[i]) = i
    /\ \A j \in w.began[i]..Len(w.prog) : Deep(w.prog, j) >= i
    /\ w.at[w.open[i].exit] = 0
    /\ \/ /\ w.open[i].kind = "then" /\ w.prog[w.began[i]] = "if"
          /\ Elses(w.prog, w.began[i], Len(w.prog) + 1) = {}
          /\ w.at[w.open[i].other] = 0
       \/ /\ w.open[i].kind = "else" /\ w.prog[w.began[i]] = "if"
          /\ Elses(w.prog, w.began[i], Len(w.prog) + 1) = {w.turned[i]}
       \/ /\ w.open[i].kind = "loop" /\ w.prog[w.began[i]] = "for"
          /\ w.at[w.open[i].other] = w.began[i]

Begun(w, k) == \E i \in DOMAIN w.open : w.began[i] = k
Turned(w, k) == \E i \in DOMAIN w.open : w.open[i].kind = "else" /\ w.turned[i] = k
Charted(w) ==
    /\ w.prog \in Seq(Tokens)
    /\ w.at \in [Nat -> Nat] /\ w.began \in [Nat -> Nat] /\ w.turned \in [Nat -> Nat]
    /\ Deep(w.prog, Len(w.prog)) \in Nat /\ DOMAIN w.open = 1..Deep(w.prog, Len(w.prog))
    /\ \A i \in DOMAIN w.open : Framed(w, i)
    /\ \A k \in 1..Len(w.prog) :
          /\ w.prog[k] \in Openers => (\E e : Matches(w.prog, k, e)) \/ Begun(w, k)
          /\ w.prog[k] = "else" =>
                (\E e : Matches(w.prog, k, e) /\ w.prog[e] = "fi") \/ Turned(w, k)

(* One statement later, in x, nothing known has changed.                   *)
Later(w, x, t) ==
    /\ Charted(w)
    /\ t \in Tokens /\ x.prog = Append(w.prog, t)
    /\ x.at \in [Nat -> Nat] /\ x.began \in [Nat -> Nat] /\ x.turned \in [Nat -> Nat]
    /\ \A d \in Nat : w.at[d] # 0 => x.at[d] = w.at[d]
    /\ Deep(x.prog, Len(x.prog)) \in Nat /\ DOMAIN x.open = 1..Deep(x.prog, Len(x.prog))
Keeps(w, x) ==
    /\ \A k : \A d \in Nat : ElseTo(w, k, d) => ElseTo(x, k, d)
    /\ \A k : \A d \in Nat : RofDone(w, k, d) => RofDone(x, k, d)
    /\ \A k : \A d \in Nat : IfTo(w, k, d) => IfTo(x, k, d)
    /\ \A k : \A d \in Nat : ForTo(w, k, d) => ForTo(x, k, d)
Untouched(w, x, i) ==
    /\ i \in DOMAIN x.open
    /\ x.open[i] = w.open[i] /\ x.began[i] = w.began[i] /\ x.turned[i] = w.turned[i]
    /\ x.at[w.open[i].exit] = w.at[w.open[i].exit]
    /\ x.at[w.open[i].other] = w.at[w.open[i].other]

LEMMA LaterFacts ==
    ASSUME NEW w, NEW x, NEW t, Later(w, x, t), NEW n, n = Len(w.prog)
    PROVE  /\ n \in Nat /\ Len(x.prog) = n + 1 /\ x.prog[n + 1] = t /\ x.prog \in Seq(Tokens)
           /\ \A k \in 1..n : x.prog[k] = w.prog[k] /\ w.prog[k] \in Tokens
           /\ \A k \in 0..n : Deep(x.prog, k) = Deep(w.prog, k) /\ Deep(w.prog, k) \in Int
           /\ Deep(x.prog, n + 1) = Deep(w.prog, n) + Turn(t)
           /\ \A k \in 1..n : \A e \in (k + 1)..(n + 1) : Elses(x.prog, k, e) = Elses(w.prog, k, e)
  <1>1. w.prog \in Seq(Tokens) /\ x.prog = Append(w.prog, t) /\ t \in Tokens
    BY DEF Later, Charted
  <1>2. /\ n \in Nat /\ Len(x.prog) = n + 1 /\ x.prog[n + 1] = t
        /\ \A k \in 1..n : x.prog[k] = w.prog[k]
        /\ \A k \in 0..n : Deep(x.prog, k) = Deep(w.prog, k) /\ Deep(w.prog, k) \in Int
        /\ Deep(x.prog, n + 1) = Deep(w.prog, n) + Turn(t)
        /\ \A k, e : Matches(w.prog, k, e) => Matches(x.prog, k, e)
    <2> DEFINE s == w.prog
    <2>1. s \in Seq(Tokens)
      BY <1>1
    <2> HIDE DEF s
    <2>2. /\ Len(s) \in Nat /\ Len(Append(s, t)) = Len(s) + 1
          /\ Append(s, t)[Len(s) + 1] = t
          /\ \A k \in 1..Len(s) : Append(s, t)[k] = s[k]
          /\ \A k \in 0..Len(s) : Deep(Append(s, t), k) = Deep(s, k) /\ Deep(s, k) \in Int
          /\ Deep(Append(s, t), Len(s) + 1) = Deep(s, Len(s)) + Turn(t)
          /\ \A k, e : Matches(s, k, e) => Matches(Append(s, t), k, e)
      BY <2>1, OneMore
    <2>3. n = Len(s) /\ x.prog = Append(s, t) /\ s = w.prog
      BY <1>1 DEF s
    <2> QED
      BY <2>2, <2>3
  <1>3. x.prog \in Seq(Tokens) /\ \A k \in 1..n : w.prog[k] \in Tokens
    BY <1>1, AppendProperties, ElementOfSeq
  <1>5. ASSUME NEW k \in 1..n, NEW e \in (k + 1)..(n + 1)
        PROVE  Elses(x.prog, k, e) = Elses(w.prog, k, e)
    <2>1. \A l \in (k + 1)..(e - 1) :
             x.prog[l] = w.prog[l] /\ Deep(x.prog, l) = Deep(w.prog, l)
      <3> TAKE l \in (k + 1)..(e - 1)
      <3>1. l \in 1..n /\ l \in 0..n
        BY <1>2
      <3> QED
        BY <1>2, <3>1
    <2>2. k \in 0..n
      BY <1>2
    <2>3. Deep(x.prog, k) = Deep(w.prog, k)
      BY <1>2, <2>2
    <2> QED
      BY <2>1, <2>3 DEF Elses
  <1> QED
    BY <1>2, <1>3, <1>5

LEMMA LaterMatches ==
    ASSUME NEW w, NEW x, NEW t, Later(w, x, t), NEW k, NEW e, Matches(w.prog, k, e)
    PROVE  Matches(x.prog, k, e) /\ x.prog[e] = w.prog[e]
  <1>1. w.prog \in Seq(Tokens) /\ x.prog = Append(w.prog, t)
    BY DEF Later, Charted
  <1> DEFINE s == w.prog
  <1> HIDE DEF s
  <1>2. /\ Len(s) \in Nat
        /\ \A j \in 1..Len(s) : Append(s, t)[j] = s[j]
        /\ Matches(s, k, e) => Matches(Append(s, t), k, e)
    BY <1>1, OneMore DEF s
  <1>3. e \in 1..Len(s)
    BY <1>2 DEF Matches, s
  <1> QED
    BY <1>1, <1>2, <1>3 DEF s

(* What was settled stays settled.                                         *)
LEMMA DoneKept ==
    ASSUME NEW w, NEW x, NEW t, Later(w, x, t)
    PROVE  /\ \A k : \A d \in Nat : ElseDone(w, k, d) => ElseDone(x, k, d)
           /\ \A k : \A d \in Nat : RofDone(w, k, d) => RofDone(x, k, d)
           /\ \A k : \A d \in Nat : IfDone(w, k, d) => IfDone(x, k, d)
           /\ \A k : \A d \in Nat : ForDone(w, k, d) => ForDone(x, k, d)
  <1>0. PICK n : n = Len(w.prog)
    OBVIOUS
  <1>1. /\ n \in Nat /\ Len(x.prog) = n + 1
        /\ \A k \in 1..n : x.prog[k] = w.prog[k]
        /\ \A k \in 1..n : \A e \in (k + 1)..(n + 1) : Elses(x.prog, k, e) = Elses(w.prog, k, e)
    <2>1. n \in Nat /\ Len(x.prog) = n + 1
      BY <1>0, LaterFacts
    <2>2. \A k \in 1..n : x.prog[k] = w.prog[k]
      BY <1>0, LaterFacts
    <2>3. \A k \in 1..n : \A e \in (k + 1)..(n + 1) :
             Elses(x.prog, k, e) = Elses(w.prog, k, e)
      BY <1>0, LaterFacts
    <2> QED
      BY <2>1, <2>2, <2>3
  <1>1a. \A k, e : Matches(w.prog, k, e) => Matches(x.prog, k, e) /\ x.prog[e] = w.prog[e]
    BY LaterMatches
  <1>2. \A d \in Nat : w.at[d] # 0 => x.at[d] = w.at[d]
    BY DEF Later
  <1>3. \A k, e : Matches(w.prog, k, e) => k \in 1..n /\ e \in (k + 1)..n /\ e \in 2..n
    BY <1>0, <1>1 DEF Matches
  <1>4. ASSUME NEW k, NEW d \in Nat, ElseDone(w, k, d) PROVE ElseDone(x, k, d)
    <2>1. PICK e : Matches(w.prog, k, e) /\ w.prog[e] = "fi" /\ w.at[d] = e + 1
      BY <1>4 DEF ElseDone
    <2>2. e + 1 # 0
      BY <1>1, <1>3, <2>1
    <2> QED
      BY <1>1, <1>1a, <1>2, <2>1, <2>2 DEF ElseDone
  <1>5. ASSUME NEW k, NEW d \in Nat, RofDone(w, k, d) PROVE RofDone(x, k, d)
    <2>1. PICK o : w.prog[o] = "for" /\ Matches(w.prog, o, k) /\ w.at[d] = o
      BY <1>5 DEF RofDone
    <2>2. o # 0 /\ o \in 1..n
      BY <1>1, <1>3, <2>1
    <2> QED
      BY <1>1, <1>1a, <1>2, <2>1, <2>2 DEF RofDone
  <1>6. ASSUME NEW k, NEW d \in Nat, IfDone(w, k, d) PROVE IfDone(x, k, d)
    <2>1. PICK e : /\ Matches(w.prog, k, e) /\ w.prog[e] = "fi"
                   /\ \/ Elses(w.prog, k, e) = {} /\ w.at[d] = e
                      \/ \E l : Elses(w.prog, k, e) = {l} /\ w.at[d] = l + 1
      BY <1>6 DEF IfDone
    <2>2. k \in 1..n /\ e \in (k + 1)..(n + 1) /\ e # 0
      BY <1>1, <1>3, <2>1
    <2>3. Elses(x.prog, k, e) = Elses(w.prog, k, e)
      BY <1>1, <2>2
    <2>4. \A l : Elses(w.prog, k, e) = {l} => l + 1 # 0
      <3>1. \A l : Elses(w.prog, k, e) = {l} => l \in (k + 1)..(e - 1)
        BY DEF Elses
      <3>2. \A l \in (k + 1)..(e - 1) : l + 1 # 0
        BY <1>1, <2>2
      <3> QED
        BY <3>1, <3>2
    <2>5. \/ Elses(x.prog, k, e) = {} /\ x.at[d] = e
          \/ \E l : Elses(x.prog, k, e) = {l} /\ x.at[d] = l + 1
      BY <1>2, <2>1, <2>2, <2>3, <2>4
    <2> QED
      BY <1>1a, <2>1, <2>5 DEF IfDone
  <1>7. ASSUME NEW k, NEW d \in Nat, ForDone(w, k, d) PROVE ForDone(x, k, d)
    <2>1. PICK e : Matches(w.prog, k, e) /\ w.at[d] = e + 1
      BY <1>7 DEF ForDone
    <2>2. e + 1 # 0
      BY <1>1, <1>3, <2>1
    <2> QED
      BY <1>1, <1>1a, <1>2, <2>1, <2>2 DEF ForDone
  <1> QED
    BY <1>4, <1>5, <1>6, <1>7

(* An open statement stays as it is.                                       *)
LEMMA FrameKept ==
    ASSUME NEW w, NEW x, NEW t, Later(w, x, t), NEW i \in DOMAIN w.open, Untouched(w, x, i),
           t = "else" => Deep(x.prog, Len(x.prog)) # i
    PROVE  Framed(x, i)
  <1>0. PICK n, k : n = Len(w.prog) /\ k = w.began[i]
    OBVIOUS
  <1>1. /\ n \in Nat /\ Len(x.prog) = n + 1 /\ x.prog[n + 1] = t
        /\ \A j \in 1..n : x.prog[j] = w.prog[j]
        /\ \A j \in 0..n : Deep(x.prog, j) = Deep(w.prog, j) /\ Deep(w.prog, j) \in Int
        /\ \A j \in 1..n : \A e \in (j + 1)..(n + 1) : Elses(x.prog, j, e) = Elses(w.prog, j, e)
    BY <1>0, LaterFacts
  <1>2. Framed(w, i) /\ i \in 1..Deep(x.prog, Len(x.prog)) /\ Deep(x.prog, Len(x.prog)) \in Nat
    BY DEF Later, Charted, Untouched
  <1>3. /\ k \in 1..n /\ Deep(w.prog, k) = i
        /\ \A j \in k..n : Deep(w.prog, j) >= i
    BY <1>0, <1>2 DEF Framed
  <1> DEFINE s == w.prog
             r == x.prog
  <1>4. k \in 1..Len(r) /\ Deep(r, k) = i /\ r[k] = s[k]
    <2>1. k \in 0..n
      BY <1>1, <1>3
    <2> QED
      BY <1>1, <1>3, <2>1
  <1>5. \A j \in k..Len(r) : Deep(r, j) >= i
    <2> TAKE j \in k..Len(r)
    <2>1. CASE j \in k..n
      <3>1. j \in 0..n
        BY <1>1, <1>3, <2>1
      <3> QED
        BY <1>1, <1>3, <2>1, <3>1
    <2>2. CASE j = n + 1
      BY <1>1, <1>2, <2>2
    <2> QED
      BY <1>1, <1>3, <2>1, <2>2
  <1>6. Elses(r, k, Len(r) + 1) = Elses(s, k, n + 1)
    <2>1. n + 1 \in (k + 1)..(n + 1)
      BY <1>1, <1>3
    <2>2. Elses(r, k, n + 1) = Elses(s, k, n + 1)
      BY <1>1, <1>3, <2>1
    <2>3. ~(r[n + 1] = "else" /\ Deep(r, n + 1) = Deep(r, k))
      BY <1>1, <1>4
    <2>4. Elses(r, k, (n + 1) + 1) = Elses(r, k, n + 1)
      <3>1. \A l : l \in (k + 1)..((n + 1) + 1 - 1) <=> l \in (k + 1)..(n + 1 - 1) \/ l = n + 1
        BY <1>1, <1>3
      <3>2. \A l : l \in Elses(r, k, (n + 1) + 1) <=> l \in Elses(r, k, n + 1)
        <4> HIDE DEF r
        <4> QED
          BY <2>3, <3>1 DEF Elses
      <3> QED
        BY <3>2
    <2> QED
      BY <1>1, <2>2, <2>4
  <1>7. /\ x.open[i] = w.open[i] /\ x.began[i] = k /\ x.turned[i] = w.turned[i]
        /\ x.at[w.open[i].exit] = w.at[w.open[i].exit]
        /\ x.at[w.open[i].other] = w.at[w.open[i].other]
    BY <1>0 DEF Untouched
  <1>8. /\ w.at[w.open[i].exit] = 0
        /\ \/ /\ w.open[i].kind = "then" /\ w.prog[k] = "if"
              /\ Elses(w.prog, k, n + 1) = {} /\ w.at[w.open[i].other] = 0
           \/ /\ w.open[i].kind = "else" /\ w.prog[k] = "if"
              /\ Elses(w.prog, k, n + 1) = {w.turned[i]}
           \/ /\ w.open[i].kind = "loop" /\ w.prog[k] = "for" /\ w.at[w.open[i].other] = k
    BY <1>0, <1>2 DEF Framed
  <1> QED
    BY <1>4, <1>5, <1>6, <1>7, <1>8 DEF Framed

LEMMA ByKept ==
    ASSUME NEW w, NEW x, NEW t, Later(w, x, t), NEW i \in DOMAIN w.open, Untouched(w, x, i),
           NEW k, NEW d \in Nat
    PROVE  /\ ElseBy(w, i, k, d) => ElseTo(x, k, d)
           /\ IfBy(w, i, k, d) => IfTo(x, k, d)
           /\ ForBy(w, i, k, d) => ForTo(x, k, d)
  <1>1. /\ i \in DOMAIN x.open /\ x.open[i] = w.open[i]
        /\ x.began[i] = w.began[i] /\ x.turned[i] = w.turned[i]
    BY DEF Untouched
  <1>2. w.turned[i] + 1 # 0
    <2>1. PICK D : D = Deep(w.prog, Len(w.prog))
      OBVIOUS
    <2>2. D \in Nat /\ DOMAIN w.open = 1..D /\ w.turned \in [Nat -> Nat]
      BY <2>1 DEF Later, Charted
    <2>3. w.turned[i] \in Nat
      BY <2>2
    <2> QED
      BY <2>3
  <1>3. w.at[d] # 0 => x.at[d] = w.at[d]
    BY DEF Later
  <1> QED
    BY <1>1, <1>2, <1>3 DEF ElseBy, IfBy, ForBy, ElseTo, IfTo, ForTo

(* A closer closes the innermost open statement, and its else.             *)
LEMMA ClosesInnermost ==
    ASSUME NEW w, NEW x, NEW t, Later(w, x, t), t \in Closers,
           NEW n, n = Len(w.prog), NEW m, m = Deep(w.prog, n), m \in DOMAIN w.open
    PROVE  /\ n \in Nat /\ x.prog[n + 1] = t
           /\ Matches(x.prog, w.began[m], n + 1)
           /\ w.open[m].kind = "else" => Matches(x.prog, w.turned[m], n + 1)
           /\ Elses(x.prog, w.began[m], n + 1) = Elses(w.prog, w.began[m], n + 1)
  <1>1. /\ n \in Nat /\ Len(x.prog) = n + 1 /\ x.prog[n + 1] = t
        /\ \A j \in 0..n : Deep(x.prog, j) = Deep(w.prog, j) /\ Deep(w.prog, j) \in Int
        /\ Deep(x.prog, n + 1) = Deep(w.prog, n) + Turn(t)
        /\ \A j \in 1..n : \A e \in (j + 1)..(n + 1) : Elses(x.prog, j, e) = Elses(w.prog, j, e)
    BY LaterFacts
  <1>2. Turn(t) = -1
    BY DEF Turn, Openers, Closers
  <1>3. Framed(w, m) /\ m \in Nat
    BY DEF Later, Charted
  <1>4. PICK k : k = w.began[m]
    OBVIOUS
  <1>5. /\ k \in 1..n /\ Deep(w.prog, k) = m
        /\ \A j \in k..n : Deep(w.prog, j) >= m
    BY <1>3, <1>4 DEF Framed
  <1>6. ASSUME NEW l, l \in k..n, Deep(w.prog, l) = m PROVE Matches(x.prog, l, n + 1)
    <2>1. l \in 1..(n + 1) /\ n + 1 \in (l + 1)..(n + 1)
      BY <1>1, <1>5, <1>6
    <2>2. \A j \in l..(n + 1 - 1) : j \in k..n /\ j \in 0..n
      BY <1>1, <1>5, <1>6
    <2>3. \A j \in l..(n + 1 - 1) : Deep(x.prog, j) = Deep(w.prog, j) /\ Deep(w.prog, j) >= m
      BY <1>1, <1>5, <2>2
    <2>4. l \in l..(n + 1 - 1)
      BY <1>1, <1>5, <1>6
    <2>5. Deep(x.prog, l) = m
      BY <1>6, <2>3, <2>4
    <2>6. Deep(x.prog, n + 1) = m - 1
      BY <1>1, <1>2, <1>3
    <2> QED
      BY <1>1, <2>1, <2>3, <2>5, <2>6 DEF Matches
  <1>7. Matches(x.prog, k, n + 1)
    BY <1>1, <1>5, <1>6
  <1>8. ASSUME w.open[m].kind = "else" PROVE Matches(x.prog, w.turned[m], n + 1)
    <2>1. Elses(w.prog, k, n + 1) = {w.turned[m]}
      BY <1>3, <1>4, <1>8 DEF Framed
    <2>2. w.turned[m] \in (k + 1)..(n + 1 - 1) /\ Deep(w.prog, w.turned[m]) = m
      BY <1>5, <2>1 DEF Elses
    <2>3. w.turned[m] \in k..n
      BY <1>1, <1>5, <2>2
    <2> QED
      BY <1>6, <2>2, <2>3
  <1>9. n + 1 \in (k + 1)..(n + 1)
    BY <1>1, <1>5
  <1>10. Elses(x.prog, k, n + 1) = Elses(w.prog, k, n + 1)
    BY <1>1, <1>5, <1>9
  <1> QED
    BY <1>1, <1>4, <1>7, <1>8, <1>10

(* What is begun was begun, closed or is the new statement.                *)
LEMMA ChartFrom ==
    ASSUME NEW w, NEW x, NEW t, Later(w, x, t),
           \A i \in DOMAIN x.open : Framed(x, i),
           \A k : Begun(w, k) => (\E e : Matches(x.prog, k, e)) \/ Begun(x, k),
           \A k : Turned(w, k) => (\E e : Matches(x.prog, k, e) /\ x.prog[e] = "fi") \/ Turned(x, k),
           t \in Openers => Begun(x, Len(w.prog) + 1),
           t = "else" => Turned(x, Len(w.prog) + 1)
    PROVE  Charted(x)
  <1>1. PICK n : n = Len(w.prog)
    OBVIOUS
  <1>2. /\ n \in Nat /\ Len(x.prog) = n + 1 /\ x.prog[n + 1] = t /\ x.prog \in Seq(Tokens)
        /\ \A k \in 1..n : x.prog[k] = w.prog[k]
    BY <1>1, LaterFacts
  <1>3. ASSUME NEW k \in 1..Len(x.prog)
        PROVE  /\ x.prog[k] \in Openers => (\E e : Matches(x.prog, k, e)) \/ Begun(x, k)
               /\ x.prog[k] = "else" =>
                     (\E e : Matches(x.prog, k, e) /\ x.prog[e] = "fi") \/ Turned(x, k)
    <2>1. CASE k = n + 1
      BY <1>1, <1>2, <2>1
    <2>2. CASE k # n + 1
      <3>1. k \in 1..n /\ x.prog[k] = w.prog[k]
        BY <1>2, <2>2
      <3>2. /\ w.prog[k] \in Openers => (\E e : Matches(w.prog, k, e)) \/ Begun(w, k)
            /\ w.prog[k] = "else" =>
                  (\E e : Matches(w.prog, k, e) /\ w.prog[e] = "fi") \/ Turned(w, k)
        BY <1>1, <3>1 DEF Later, Charted
      <3>3. \A e : Matches(w.prog, k, e) => Matches(x.prog, k, e) /\ x.prog[e] = w.prog[e]
        BY LaterMatches
      <3> QED
        BY <3>1, <3>2, <3>3
    <2> QED
      BY <2>1, <2>2
  <1> QED
    BY <1>2, <1>3 DEF Charted, Later

LEMMA SameCharted ==
    ASSUME NEW w, NEW x, NEW t, Later(w, x, t), t \in {"stm", "ret"},
           x.open = w.open, x.at = w.at, x.began = w.began, x.turned = w.turned
    PROVE  Charted(x) /\ Keeps(w, x)
  <1>1. \A i \in DOMAIN w.open : Untouched(w, x, i)
    BY DEF Untouched
  <1>2. \A i \in DOMAIN x.open : Framed(x, i)
    BY <1>1, FrameKept
  <1>3. \A k : (Begun(w, k) => Begun(x, k)) /\ (Turned(w, k) => Turned(x, k))
    BY DEF Begun, Turned
  <1>4. Charted(x)
    BY <1>2, <1>3, ChartFrom DEF Openers
  <1>5. Keeps(w, x)
    <2>1. \A i \in DOMAIN w.open : \A k : \A d \in Nat :
             /\ ElseBy(w, i, k, d) => ElseTo(x, k, d)
             /\ IfBy(w, i, k, d) => IfTo(x, k, d)
             /\ ForBy(w, i, k, d) => ForTo(x, k, d)
      BY <1>1, ByKept
    <2> QED
      BY <2>1, DoneKept DEF Keeps, ElseTo, IfTo, ForTo
  <1> QED
    BY <1>4, <1>5

LEMMA PushCharted ==
    ASSUME NEW w, NEW x, NEW t, Later(w, x, t), t \in Openers,
           NEW n, n = Len(w.prog), NEW m, m = Deep(w.prog, n) + 1,
           \A i \in DOMAIN w.open : x.open[i] = w.open[i] /\ x.began[i] = w.began[i],
           x.turned = w.turned, x.began[m] = n + 1,
           \A i \in DOMAIN w.open : /\ x.at[w.open[i].exit] = w.at[w.open[i].exit]
                                    /\ x.at[w.open[i].other] = w.at[w.open[i].other],
           x.at[x.open[m].exit] = 0,
           \/ t = "if" /\ x.open[m].kind = "then" /\ x.at[x.open[m].other] = 0
           \/ t = "for" /\ x.open[m].kind = "loop" /\ x.at[x.open[m].other] = n + 1
    PROVE  Charted(x) /\ Keeps(w, x)
  <1>1. /\ n \in Nat /\ Len(x.prog) = n + 1 /\ x.prog[n + 1] = t
        /\ Deep(x.prog, n + 1) = Deep(w.prog, n) + Turn(t)
    BY LaterFacts
  <1>2. Turn(t) = 1 /\ t # "else"
    BY DEF Turn, Openers
  <1>3. /\ m \in Nat /\ DOMAIN w.open = 1..(m - 1) /\ Deep(x.prog, n + 1) = m
        /\ DOMAIN x.open = 1..m
    BY <1>1, <1>2 DEF Later, Charted
  <1>4. \A i \in DOMAIN w.open : Untouched(w, x, i)
    BY <1>3 DEF Untouched
  <1>5. m \in DOMAIN x.open /\ \A i \in DOMAIN x.open : i = m \/ i \in DOMAIN w.open
    <2>1. m # 0
      BY <1>3 DEF Later, Charted
    <2> QED
      BY <1>3, <2>1
  <1>6. Framed(x, m)
    <2>1. n + 1 \in 1..Len(x.prog) /\ \A j \in (n + 1)..Len(x.prog) : j = n + 1
      BY <1>1
    <2>2. Elses(x.prog, n + 1, Len(x.prog) + 1) = {}
      <3>1. (n + 1 + 1)..(Len(x.prog) + 1 - 1) = {}
        BY <1>1
      <3> QED
        BY <3>1 DEF Elses
    <2> QED
      BY <1>1, <1>3, <2>1, <2>2 DEF Framed
  <1>7. \A i \in DOMAIN x.open : Framed(x, i)
    BY <1>2, <1>4, <1>5, <1>6, FrameKept
  <1>8. \A k : (Begun(w, k) => Begun(x, k)) /\ (Turned(w, k) => Turned(x, k))
    BY <1>4 DEF Begun, Turned, Untouched
  <1>9. Begun(x, n + 1)
    BY <1>5 DEF Begun
  <1>10. Charted(x)
    BY <1>2, <1>7, <1>8, <1>9, ChartFrom
  <1>11. Keeps(w, x)
    <2>1. \A i \in DOMAIN w.open : \A k : \A d \in Nat :
             /\ ElseBy(w, i, k, d) => ElseTo(x, k, d)
             /\ IfBy(w, i, k, d) => IfTo(x, k, d)
             /\ ForBy(w, i, k, d) => ForTo(x, k, d)
      BY <1>4, ByKept
    <2> QED
      BY <2>1, DoneKept DEF Keeps, ElseTo, IfTo, ForTo
  <1> QED
    BY <1>10, <1>11

LEMMA ElseCharted ==
    ASSUME NEW w, NEW x, Later(w, x, "else"),
           NEW n, n = Len(w.prog), NEW m, m = Deep(w.prog, n), m \in DOMAIN w.open,
           \A i \in DOMAIN w.open : i # m => Untouched(w, x, i),
           w.open[m].kind = "then", x.open[m].kind = "else", x.open[m].exit = w.open[m].exit,
           x.began[m] = w.began[m], x.turned[m] = n + 1,
           x.at[w.open[m].exit] = 0, x.at[w.open[m].other] = n + 2
    PROVE  Charted(x) /\ Keeps(w, x)
  <1>1. /\ n \in Nat /\ Len(x.prog) = n + 1 /\ x.prog[n + 1] = "else"
        /\ Deep(x.prog, n + 1) = Deep(w.prog, n) + Turn("else")
        /\ \A j \in 1..n : x.prog[j] = w.prog[j]
        /\ \A j \in 0..n : Deep(x.prog, j) = Deep(w.prog, j) /\ Deep(w.prog, j) \in Int
        /\ \A j \in 1..n : \A e \in (j + 1)..(n + 1) : Elses(x.prog, j, e) = Elses(w.prog, j, e)
    BY LaterFacts
  <1>2. Turn("else") = 0 /\ "else" \notin Openers
    BY DEF Turn, Openers, Closers
  <1>3. /\ m \in Nat /\ DOMAIN w.open = 1..m /\ Deep(x.prog, n + 1) = m /\ DOMAIN x.open = 1..m
    BY <1>1, <1>2 DEF Later, Charted
  <1>4. PICK k : k = w.began[m]
    OBVIOUS
  <1>5. /\ k \in 1..n /\ Deep(w.prog, k) = m /\ w.prog[k] = "if"
        /\ \A j \in k..n : Deep(w.prog, j) >= m
        /\ Elses(w.prog, k, n + 1) = {}
    <2>1. Framed(w, m)
      BY DEF Later, Charted
    <2> QED
      BY <1>4, <2>1 DEF Framed
  <1>6. Framed(x, m)
    <2>1. k \in 1..Len(x.prog) /\ Deep(x.prog, k) = m /\ x.prog[k] = "if"
      <3>1. k \in 0..n
        BY <1>1, <1>5
      <3> QED
        BY <1>1, <1>5, <3>1
    <2>2. \A j \in k..Len(x.prog) : Deep(x.prog, j) >= m
      <3> TAKE j \in k..Len(x.prog)
      <3>1. CASE j \in k..n
        <4>1. j \in 0..n
          BY <1>1, <1>5, <3>1
        <4> QED
          BY <1>1, <1>5, <3>1, <4>1
      <3>2. CASE j = n + 1
        BY <1>3, <3>2
      <3> QED
        BY <1>1, <1>5, <3>1, <3>2
    <2>3. Elses(x.prog, k, Len(x.prog) + 1) = {n + 1}
      <3>1. n + 1 \in (k + 1)..(n + 1)
        BY <1>1, <1>5
      <3>2. Elses(x.prog, k, n + 1) = {}
        BY <1>1, <1>5, <3>1
      <3>3. \A l : l \in (k + 1)..((n + 1) + 1 - 1) <=> l \in (k + 1)..(n + 1 - 1) \/ l = n + 1
        BY <1>1, <1>5
      <3>4. \A l : l \in Elses(x.prog, k, (n + 1) + 1) <=> l \in Elses(x.prog, k, n + 1) \/ l = n + 1
        BY <1>1, <1>3, <2>1, <3>3 DEF Elses
      <3> QED
        BY <1>1, <3>2, <3>4
    <2> QED
      BY <1>4, <2>1, <2>2, <2>3 DEF Framed
  <1>7. \A i \in DOMAIN x.open : Framed(x, i)
    <2>1. \A i \in DOMAIN x.open : i # m => Framed(x, i)
      BY <1>1, <1>3, FrameKept
    <2> QED
      BY <1>6, <2>1
  <1>8. \A i \in DOMAIN w.open : i # m =>
           x.open[i] = w.open[i] /\ x.began[i] = w.began[i] /\ x.turned[i] = w.turned[i]
    BY DEF Untouched
  <1>9. \A j : (Begun(w, j) => Begun(x, j)) /\ (Turned(w, j) => Turned(x, j))
    BY <1>3, <1>8 DEF Begun, Turned
  <1>10. Turned(x, n + 1)
    BY <1>3 DEF Turned
  <1>11. Charted(x)
    BY <1>2, <1>7, <1>9, <1>10, ChartFrom
  <1>12. Keeps(w, x)
    <2>1. ASSUME NEW i \in DOMAIN w.open, NEW j, NEW d \in Nat
          PROVE  /\ ElseBy(w, i, j, d) => ElseTo(x, j, d)
                 /\ IfBy(w, i, j, d) => IfTo(x, j, d)
                 /\ ForBy(w, i, j, d) => ForTo(x, j, d)
      <3>1. CASE i # m
        BY <3>1, ByKept
      <3>2. CASE i = m
        <4>1. ~ElseBy(w, i, j, d) /\ ~ForBy(w, i, j, d)
          BY <3>2 DEF ElseBy, ForBy
        <4>2. ASSUME IfBy(w, i, j, d) PROVE IfTo(x, j, d)
          <5>1. j = w.began[m] /\ d = w.open[m].other
            BY <3>2, <4>2 DEF IfBy
          <5>2. x.at[d] = x.turned[m] + 1 /\ m \in DOMAIN x.open
            BY <1>1, <1>3, <5>1
          <5> QED
            BY <5>1, <5>2 DEF IfBy, IfTo
        <4> QED
          BY <4>1, <4>2
      <3> QED
        BY <3>1, <3>2
    <2> QED
      BY <2>1, DoneKept DEF Keeps, ElseTo, IfTo, ForTo
  <1> QED
    BY <1>11, <1>12

LEMMA PopCharted ==
    ASSUME NEW w, NEW x, NEW t, Later(w, x, t), t \in Closers,
           NEW n, n = Len(w.prog), NEW m, m = Deep(w.prog, n), m \in DOMAIN w.open,
           \A i \in DOMAIN w.open : i # m => Untouched(w, x, i),
           x.at[w.open[m].exit] = n + 2,
           \/ t = "fi" /\ w.open[m].kind = "then" /\ x.at[w.open[m].other] = n + 1
           \/ t = "fi" /\ w.open[m].kind = "else"
           \/ t = "rof" /\ w.open[m].kind = "loop"
    PROVE  Charted(x) /\ Keeps(w, x)
  <1>1. /\ n \in Nat /\ Len(x.prog) = n + 1 /\ x.prog[n + 1] = t
        /\ Deep(x.prog, n + 1) = Deep(w.prog, n) + Turn(t)
    BY LaterFacts
  <1>2. Turn(t) = -1 /\ t # "else" /\ t \notin Openers
    BY DEF Turn, Openers, Closers
  <1>3. /\ m \in Nat /\ DOMAIN w.open = 1..m /\ Deep(x.prog, n + 1) = m - 1
        /\ DOMAIN x.open = 1..(m - 1)
    BY <1>1, <1>2 DEF Later, Charted
  <1>4. /\ Matches(x.prog, w.began[m], n + 1)
        /\ w.open[m].kind = "else" => Matches(x.prog, w.turned[m], n + 1)
        /\ Elses(x.prog, w.began[m], n + 1) = Elses(w.prog, w.began[m], n + 1)
    BY ClosesInnermost
  <1>5. \A i \in DOMAIN w.open : i = m \/ i \in DOMAIN x.open
    BY <1>3
  <1>6. \A i \in DOMAIN x.open : i \in DOMAIN w.open /\ i # m
    BY <1>3
  <1>7. \A i \in DOMAIN x.open : Framed(x, i)
    BY <1>2, <1>6, FrameKept
  <1>8. \A i \in DOMAIN x.open :
           x.open[i] = w.open[i] /\ x.began[i] = w.began[i] /\ x.turned[i] = w.turned[i]
    BY <1>6 DEF Untouched
  <1>9. \A k : Begun(w, k) => (\E e : Matches(x.prog, k, e)) \/ Begun(x, k)
    BY <1>4, <1>5, <1>8 DEF Begun
  <1>10. \A k : Turned(w, k) => (\E e : Matches(x.prog, k, e) /\ x.prog[e] = "fi") \/ Turned(x, k)
    BY <1>1, <1>4, <1>5, <1>8 DEF Turned
  <1>11. Charted(x)
    BY <1>2, <1>7, <1>9, <1>10, ChartFrom
  <1>12. Framed(w, m)
    BY DEF Later, Charted
  <1>13. ASSUME NEW j, NEW d \in Nat
         PROVE  /\ ElseBy(w, m, j, d) => ElseDone(x, j, d)
                /\ IfBy(w, m, j, d) => IfDone(x, j, d)
                /\ ForBy(w, m, j, d) => ForDone(x, j, d)
    <2>0. PICK e : e = n + 1
      OBVIOUS
    <2>1. /\ x.prog[e] = t /\ x.at[w.open[m].exit] = e + 1
          /\ Matches(x.prog, w.began[m], e)
          /\ w.open[m].kind = "else" => Matches(x.prog, w.turned[m], e)
      BY <1>1, <1>4, <2>0
    <2>2. ASSUME ElseBy(w, m, j, d) PROVE ElseDone(x, j, d)
      BY <2>1, <2>2 DEF ElseBy, ElseDone
    <2>3. ASSUME IfBy(w, m, j, d) PROVE IfDone(x, j, d)
      <3>1. j = w.began[m] /\ x.prog[e] = "fi"
        BY <2>1, <2>3 DEF IfBy
      <3>2. CASE w.open[m].kind = "then"
        <4>1. d = w.open[m].other /\ x.at[d] = e
          BY <2>0, <2>3, <3>2 DEF IfBy
        <4>2. Elses(w.prog, w.began[m], n + 1) = {}
          BY <1>12, <3>2 DEF Framed
        <4>3. Elses(x.prog, j, e) = {}
          BY <1>4, <2>0, <3>1, <4>2
        <4> QED
          BY <2>1, <3>1, <4>1, <4>3 DEF IfDone
      <3>3. CASE w.open[m].kind = "else"
        <4>1. w.at[d] = w.turned[m] + 1
          BY <2>3, <3>3 DEF IfBy
        <4>2. x.at[d] = w.turned[m] + 1
          <5>1. w.turned[m] \in Nat
            BY <1>3 DEF Later, Charted
          <5>2. w.turned[m] + 1 # 0
            BY <5>1
          <5> QED
            BY <4>1, <5>2 DEF Later
        <4>3. Elses(w.prog, w.began[m], n + 1) = {w.turned[m]}
          BY <1>12, <3>3 DEF Framed
        <4>4. Elses(x.prog, j, e) = {w.turned[m]}
          BY <1>4, <2>0, <3>1, <4>3
        <4> QED
          BY <2>1, <3>1, <4>2, <4>4 DEF IfDone
      <3> QED
        BY <2>3, <3>2, <3>3 DEF IfBy
    <2>4. ASSUME ForBy(w, m, j, d) PROVE ForDone(x, j, d)
      BY <2>1, <2>4 DEF ForBy, ForDone
    <2> QED
      BY <2>2, <2>3, <2>4
  <1>14. Keeps(w, x)
    <2>1. \A i \in DOMAIN w.open : i # m => \A k : \A d \in Nat :
             /\ ElseBy(w, i, k, d) => ElseTo(x, k, d)
             /\ IfBy(w, i, k, d) => IfTo(x, k, d)
             /\ ForBy(w, i, k, d) => ForTo(x, k, d)
      BY ByKept
    <2>2. \A i \in DOMAIN w.open : \A k : \A d \in Nat :
             /\ ElseBy(w, i, k, d) => ElseTo(x, k, d)
             /\ IfBy(w, i, k, d) => IfTo(x, k, d)
             /\ ForBy(w, i, k, d) => ForTo(x, k, d)
      BY <1>13, <2>1 DEF ElseTo, IfTo, ForTo
    <2> QED
      BY <2>2, DoneKept DEF Keeps, ElseTo, IfTo, ForTo
  <1> QED
    BY <1>11, <1>14

-----------------------------------------------------------------------------
(* What the code of a block is made of: its instructions stand for         *)
(* consecutive statements, the test and branch of a conditional or loop    *)
(* for one.                                                                *)

BranchTo(w, k, d) ==
    \/ w.prog[k] = "for" /\ w.at[d] = k
    \/ w.prog[k] = "rof" /\ RofDone(w, k, d)
    \/ w.prog[k] = "fi" /\ w.at[d] = k + 1
    \/ w.prog[k] = "else" /\ ElseTo(w, k, d)
(* Instruction j of code c stands for statement k; the final return of a   *)
(* finished function for what is behind the last one.                      *)
FitsCode(w, c, j, k) ==
    /\ c[j] = Code(k) /\ k \in 1..Len(w.prog)
    /\ \/ w.prog[k] = "stm"
       \/ w.prog[k] \in Openers /\ j + 1 \in DOMAIN c /\ c[j + 1].op = "BrCond"
FitsRet(w, c, j, k, finished) ==
    /\ c[j] = Ret(k)
    /\ \/ k \in 1..Len(w.prog) /\ w.prog[k] = "ret"
       \/ finished /\ k = Len(w.prog) + 1
FitsBr(w, c, j, k) == \E d \in Nat : c[j] = Br(d) /\ k \in 1..Len(w.prog) /\ BranchTo(w, k, d)
FitsBrCond(w, c, j, k) ==
    \E t, f \in Nat : /\ c[j] = BrCond(k - 1, t, f) /\ k - 1 \in 1..Len(w.prog)
              /\ j > 1 /\ j = Len(c) /\ w.at[t] = k
              /\ \/ w.prog[k - 1] = "if" /\ IfTo(w, k - 1, f)
                 \/ w.prog[k - 1] = "for" /\ ForTo(w, k - 1, f)
Fits(w, c, j, k, finished) ==
    FitsCode(w, c, j, k) \/ FitsRet(w, c, j, k, finished) \/ FitsBr(w, c, j, k) \/ FitsBrCond(w, c, j, k)
FitsFrom(w, c, k, finished) == \A j \in DOMAIN c : Fits(w, c, j, k + j - 1, finished)

Straight(c) == \A j \in DOMAIN c : c[j].op \in {"Code", "Ret"}
Built(w) ==
    /\ w.prog = prog /\ w.open = open /\ Charted(w)
    /\ w.at[Entry] = 1
    /\ \A b \in DOMAIN blk : IF w.at[b] = 0 THEN blk[b].instrs = <<>>
                             ELSE FitsFrom(w, blk[b].instrs, w.at[b], FALSE)
    /\ \A b \in Nat : b \notin DOMAIN blk => w.at[b] = 0
    /\ w.at[cur] # 0 /\ w.at[cur] + Len(blk[cur].instrs) = Len(prog) + 1
    /\ Straight(blk[cur].instrs)
Finished(w) ==
    /\ w.prog = prog /\ w.open = <<>> /\ Charted(w)
    /\ w.at[Entry] = 1
    /\ \A b \in DOMAIN blk : \/ w.at[b] = 0 \/ blk[b].instrs = <<Br(b)>>
                             \/ FitsFrom(w, blk[b].instrs, w.at[b], TRUE)
ChartInv ==
    /\ phase = "build" => \E w : Built(w)
    /\ phase \in {"prune", "done"} => \E w : Finished(w)

LEMMA FitsLater ==
    ASSUME NEW w, NEW x, NEW t, Later(w, x, t), Keeps(w, x),
           NEW c, NEW j, NEW k \in Nat \ {0}, Fits(w, c, j, k, FALSE)
    PROVE  Fits(x, c, j, k, FALSE)
  <1>0. PICK n : n = Len(w.prog)
    OBVIOUS
  <1>1. /\ n \in Nat /\ Len(x.prog) = n + 1
        /\ \A i \in 1..n : x.prog[i] = w.prog[i]
    BY <1>0, LaterFacts
  <1>2. \A i \in 1..n : i \in 1..Len(x.prog)
    BY <1>1
  <1>3. \A d \in Nat : w.at[d] # 0 => x.at[d] = w.at[d]
    BY DEF Later
  <1>4. CASE FitsCode(w, c, j, k)
    <2>1. FitsCode(x, c, j, k)
      BY <1>0, <1>1, <1>2, <1>4 DEF FitsCode
    <2> QED
      BY <2>1 DEF Fits
  <1>5. CASE FitsRet(w, c, j, k, FALSE)
    <2>1. FitsRet(x, c, j, k, FALSE)
      BY <1>0, <1>1, <1>2, <1>5 DEF FitsRet
    <2> QED
      BY <2>1 DEF Fits
  <1>6. CASE FitsBr(w, c, j, k)
    <2>1. PICK d \in Nat : c[j] = Br(d) /\ k \in 1..n /\ BranchTo(w, k, d)
      BY <1>0, <1>6 DEF FitsBr
    <2>2. k # 0 /\ k + 1 # 0 /\ x.prog[k] = w.prog[k]
      BY <1>1, <2>1
    <2>3. BranchTo(x, k, d)
      BY <1>3, <2>1, <2>2 DEF BranchTo, Keeps
    <2>4. FitsBr(x, c, j, k)
      BY <1>2, <2>1, <2>3 DEF FitsBr
    <2> QED
      BY <2>4 DEF Fits
  <1>7. CASE FitsBrCond(w, c, j, k)
    <2>1. PICK d, f \in Nat : /\ c[j] = BrCond(k - 1, d, f) /\ k - 1 \in 1..n
                      /\ j > 1 /\ j = Len(c) /\ w.at[d] = k
                      /\ \/ w.prog[k - 1] = "if" /\ IfTo(w, k - 1, f)
                         \/ w.prog[k - 1] = "for" /\ ForTo(w, k - 1, f)
      BY <1>0, <1>7 DEF FitsBrCond
    <2>2. x.at[d] = k /\ x.prog[k - 1] = w.prog[k - 1]
      BY <1>1, <1>3, <2>1
    <2>3. \/ x.prog[k - 1] = "if" /\ IfTo(x, k - 1, f)
          \/ x.prog[k - 1] = "for" /\ ForTo(x, k - 1, f)
      BY <2>1, <2>2 DEF Keeps
    <2>4. FitsBrCond(x, c, j, k)
      BY <1>2, <2>1, <2>2, <2>3 DEF FitsBrCond
    <2> QED
      BY <2>4 DEF Fits
  <1> QED
    BY <1>4, <1>5, <1>6, <1>7 DEF Fits

(* Straight-line code may be extended.                                     *)
LEMMA FitsLonger ==
    ASSUME NEW w, NEW c, NEW d, NEW j, NEW k, NEW finished, Fits(w, c, j, k, finished),
           c[j].op \in {"Code", "Ret"}, d[j] = c[j],
           j + 1 \in DOMAIN c => j + 1 \in DOMAIN d /\ d[j + 1] = c[j + 1]
    PROVE  Fits(w, d, j, k, finished)
  <1>1. ~FitsBr(w, c, j, k) /\ ~FitsBrCond(w, c, j, k)
    <2>1. \A a, t, f : Br(t).op = "Br" /\ BrCond(a, t, f).op = "BrCond"
      BY DEF Br, BrCond
    <2>2. "Br" \notin {"Code", "Ret"} /\ "BrCond" \notin {"Code", "Ret"}
      OBVIOUS
    <2> QED
      BY <2>1, <2>2 DEF FitsBr, FitsBrCond
  <1>2. FitsCode(w, c, j, k) => FitsCode(w, d, j, k)
    BY DEF FitsCode
  <1>3. FitsRet(w, c, j, k, finished) => FitsRet(w, d, j, k, finished)
    BY DEF FitsRet
  <1> QED
    BY <1>1, <1>2, <1>3 DEF Fits

LEMMA AddInstrs ==
    ASSUME BuildInv, NEW c
    PROVE  /\ DOMAIN Add(cur, c) = DOMAIN blk
           /\ \A b \in DOMAIN blk : Add(cur, c)[b].instrs
                  = IF b = cur THEN blk[b].instrs \o c ELSE blk[b].instrs
           /\ \A next : /\ DOMAIN EndInto(cur, c, next) = DOMAIN blk
                        /\ \A b \in DOMAIN blk : EndInto(cur, c, next)[b].instrs
                               = IF b = cur THEN blk[b].instrs \o c ELSE blk[b].instrs
  <1>1. PICK n : n = Count
    OBVIOUS
  <1>2. n \in Nat /\ blk \in [0..(n - 1) -> BlockOf(n)] /\ cur \in 0..(n - 1)
    BY <1>1 DEF BuildInv
  <1>3. blk[cur] \in BlockOf(n)
    BY <1>2
  <1>4. \E i, p, s, f : blk[cur] = [instrs |-> i, preds |-> p, succs |-> s, forExit |-> f]
    BY <1>3 DEF BlockOf
  <1>5. [blk[cur] EXCEPT !.instrs = @ \o c].instrs = blk[cur].instrs \o c
    BY <1>4
  <1>6. \A next : [[blk[cur] EXCEPT !.succs = @ \o next] EXCEPT !.instrs = @ \o c].instrs
                     = blk[cur].instrs \o c
    BY <1>4
  <1>7. DOMAIN Add(cur, c) = DOMAIN blk
    BY <1>2 DEF Add
  <1>8. \A next : DOMAIN EndInto(cur, c, next) = DOMAIN blk
    BY <1>2 DEF EndInto
  <1>9. ASSUME NEW b \in DOMAIN blk
        PROVE  Add(cur, c)[b].instrs = IF b = cur THEN blk[b].instrs \o c ELSE blk[b].instrs
    BY <1>2, <1>5 DEF Add
  <1>10. ASSUME NEW b \in DOMAIN blk, NEW next
         PROVE  EndInto(cur, c, next)[b].instrs
                  = IF b = cur THEN blk[b].instrs \o c ELSE blk[b].instrs
    BY <1>2, <1>6 DEF EndInto
  <1> QED
    BY <1>7, <1>8, <1>9, <1>10

LEMMA BuiltStep ==
    ASSUME BuildInv, NEW w, Built(w), NEW x, NEW t, Later(w, x, t), Keeps(w, x), Charted(x),
           x.prog = prog', x.open = open', DOMAIN blk \subseteq DOMAIN blk',
           NEW S, NEW d \in Seq(S), blk[cur].instrs \in Seq(S),
           blk'[cur].instrs = blk[cur].instrs \o d,
           \A i \in DOMAIN d :
              Fits(x, blk'[cur].instrs, Len(blk[cur].instrs) + i, Len(prog) + i, FALSE),
           \A b \in DOMAIN blk' :
              \/ b = cur
              \/ b \in DOMAIN blk /\ w.at[b] # 0 /\ blk'[b].instrs = blk[b].instrs
              \/ x.at[b] = 0 /\ blk'[b].instrs = <<>>
              \/ x.at[b] # 0 /\ FitsFrom(x, blk'[b].instrs, x.at[b], FALSE),
           \A b \in Nat : b \notin DOMAIN blk' => x.at[b] = 0,
           x.at[cur'] # 0, x.at[cur'] + Len(blk'[cur'].instrs) = Len(prog') + 1,
           Straight(blk'[cur'].instrs)
    PROVE  Built(x)'
  <1>1. /\ w.prog = prog /\ w.open = open /\ Charted(w) /\ w.at[Entry] = 1
        /\ \A b \in DOMAIN blk : w.at[b] # 0 => FitsFrom(w, blk[b].instrs, w.at[b], FALSE)
        /\ w.at[cur] # 0 /\ w.at[cur] + Len(blk[cur].instrs) = Len(prog) + 1
        /\ Straight(blk[cur].instrs)
    BY DEF Built
  <1>2. cur \in DOMAIN blk /\ DOMAIN blk \subseteq Nat /\ Entry \in Nat
        /\ \A b \in DOMAIN blk : blk[b].instrs \in Seq(InstrOf(Count))
    BY LabelFacts DEF Entry
  <1>3. \A b \in Nat : w.at[b] \in Nat
    BY DEF Later, Charted
  <1>4. \A b \in Nat : w.at[b] # 0 => x.at[b] = w.at[b]
    BY DEF Later
  <1>5. ASSUME NEW b \in DOMAIN blk, w.at[b] # 0, NEW j \in DOMAIN blk[b].instrs
        PROVE  Fits(x, blk[b].instrs, j, w.at[b] + j - 1, FALSE)
    <2>1. DOMAIN blk[b].instrs = 1..Len(blk[b].instrs)
      BY <1>2, LenProperties
    <2>2. w.at[b] \in Nat /\ j \in Nat \ {0}
      BY <1>2, <1>3, <2>1, LenProperties
    <2>3. w.at[b] + j - 1 \in Nat \ {0}
      BY <1>5, <2>2
    <2>4. Fits(w, blk[b].instrs, j, w.at[b] + j - 1, FALSE)
      BY <1>1, <1>5 DEF FitsFrom
    <2> QED
      BY <2>3, <2>4, FitsLater
  <1>6. x.at[Entry] = 1
    <2>1. w.at[Entry] # 0
      BY <1>1
    <2> QED
      BY <1>1, <1>2, <1>4, <2>1, Zenon
  <1>7. FitsFrom(x, blk'[cur].instrs, x.at[cur], FALSE) /\ x.at[cur] # 0
    <2> DEFINE c == blk[cur].instrs
               e == blk'[cur].instrs
    <2>1. /\ DOMAIN e = 1..(Len(c) + Len(d)) /\ Len(c) \in Nat /\ Len(d) \in Nat
          /\ \A i \in 1..Len(c) : i \in DOMAIN e /\ e[i] = c[i]
      BY Behind
    <2>2. DOMAIN c = 1..Len(c) /\ DOMAIN d = 1..Len(d)
      BY LenProperties
    <2>3. x.at[cur] = w.at[cur] /\ x.at[cur] \in Nat /\ x.at[cur] + Len(c) = Len(prog) + 1
      BY <1>1, <1>2, <1>3, <1>4
    <2>7. Len(prog) \in Nat
      BY DEF BuildInv
    <2> SUFFICES ASSUME NEW j \in DOMAIN e PROVE Fits(x, e, j, x.at[cur] + j - 1, FALSE)
      BY <1>1, <2>3 DEF FitsFrom
    <2>4. CASE j \in 1..Len(c)
      <3>1. Fits(x, c, j, x.at[cur] + j - 1, FALSE)
        BY <1>1, <1>2, <1>5, <2>2, <2>3, <2>4
      <3>2. c[j].op \in {"Code", "Ret"}
        BY <1>1, <2>2, <2>4 DEF Straight
      <3>3. j + 1 \in DOMAIN c => j + 1 \in DOMAIN e /\ e[j + 1] = c[j + 1]
        BY <2>1, <2>2
      <3>4. e[j] = c[j]
        BY <2>1, <2>4
      <3> HIDE DEF c, e
      <3> QED
        BY <3>1, <3>2, <3>3, <3>4, FitsLonger
    <2>5. CASE j \notin 1..Len(c)
      <3> HIDE DEF c, e
      <3> DEFINE lc == Len(c)
                 ld == Len(d)
      <3>0. /\ lc \in Nat /\ ld \in Nat /\ j \in 1..(lc + ld) /\ j \notin 1..lc
            /\ DOMAIN d = 1..ld
        BY <2>1, <2>2, <2>5
      <3>1. j - Len(c) \in DOMAIN d /\ Len(c) + (j - Len(c)) = j
        <4> HIDE DEF lc, ld
        <4>1. j - lc \in 1..ld /\ lc + (j - lc) = j
          BY <3>0
        <4> QED
          BY <3>0, <4>1 DEF lc
      <3>2. Len(prog) + (j - Len(c)) = x.at[cur] + j - 1
        <4>0. lc \in Int /\ j \in Int
          BY <3>0
        <4>1. \A a, p, l, i \in Int : a + l = p + 1 => p + (i - l) = a + i - 1
          OBVIOUS
        <4>2. x.at[cur] \in Int /\ Len(prog) \in Int /\ x.at[cur] + lc = Len(prog) + 1
          BY <2>3, <2>7
        <4> HIDE DEF lc
        <4>3. PICK a \in Int, p \in Int, l \in Int, i \in Int :
                 a = x.at[cur] /\ p = Len(prog) /\ l = lc /\ i = j
          BY <4>0, <4>2
        <4>6. a + l = p + 1
          BY <4>2, <4>3
        <4>4. p + (i - l) = a + i - 1
          BY <4>1, <4>6
        <4>5. Len(prog) + (j - lc) = x.at[cur] + j - 1
          BY <4>3, <4>4
        <4> QED
          BY <4>5 DEF lc
      <3>3. \A i \in DOMAIN d : Fits(x, e, Len(c) + i, Len(prog) + i, FALSE)
        BY DEF c, e
      <3> QED
        BY <3>1, <3>2, <3>3
    <2> QED
      BY <2>4, <2>5
  <1>8. ASSUME NEW b \in DOMAIN blk'
        PROVE  IF x.at[b] = 0 THEN blk'[b].instrs = <<>>
               ELSE FitsFrom(x, blk'[b].instrs, x.at[b], FALSE)
    <2>1. CASE b = cur
      BY <1>7, <2>1
    <2>2. CASE b \in DOMAIN blk /\ w.at[b] # 0 /\ blk'[b].instrs = blk[b].instrs
      <3>1. FitsFrom(x, blk[b].instrs, w.at[b], FALSE)
        BY <1>5, <2>2 DEF FitsFrom
      <3> QED
        BY <1>2, <1>4, <2>2, <3>1
    <2> QED
      BY <2>1, <2>2
  <1> QED
    BY <1>6, <1>8 DEF Built

(* What a chart says of the state a statement is read in.                  *)
Reading(w, token) ==
    /\ Len(prog) \in Nat /\ At = Len(prog) + 1
    /\ prog' = Append(prog, token) /\ Len(prog') = At /\ prog'[At] = token
    /\ Deep(prog, Len(prog)) = Len(open) /\ Len(open) \in Nat /\ DOMAIN open = 1..Len(open)
    /\ Deep(prog', Len(prog')) = Len(open) + Turn(token)
    /\ w.prog = prog /\ w.open = open /\ Charted(w)
    /\ w.at \in [Nat -> Nat] /\ w.began \in [Nat -> Nat] /\ w.turned \in [Nat -> Nat]
    /\ phase = "build" /\ phase' = "build"
    /\ At \in 0..(MaxTokens + 1) /\ Count \in Nat \ {0}

LEMMA BuiltFacts ==
    ASSUME BuildInv, NEW w, Built(w), NEW token \in Tokens, \E closers : Read(token, closers)
    PROVE  Reading(w, token)
  <1>1. prog \in Seq(Tokens) /\ prog' = Append(prog, token) /\ phase = "build" /\ phase' = "build"
    BY DEF BuildInv, Read
  <1>2. /\ Len(prog) \in Nat /\ Len(prog') = Len(prog) + 1 /\ prog'[Len(prog) + 1] = token
        /\ Deep(prog', Len(prog) + 1) = Deep(prog, Len(prog)) + Turn(token)
    BY <1>1, OneMore
  <1>3. w.prog = prog /\ w.open = open /\ Charted(w)
    BY DEF Built
  <1>4. /\ w.at \in [Nat -> Nat] /\ w.began \in [Nat -> Nat] /\ w.turned \in [Nat -> Nat]
        /\ Deep(prog, Len(prog)) \in Nat /\ DOMAIN open = 1..Deep(prog, Len(prog))
    BY <1>3 DEF Charted
  <1>5. DOMAIN open = 1..Len(open) /\ Len(open) \in Nat
    BY LabelFacts
  <1>6. \A m, n \in Nat : 1..m = 1..n => m = n
    <2> SUFFICES ASSUME NEW m \in Nat, NEW n \in Nat, 1..m = 1..n, m < n PROVE FALSE
      <3>1. \A m, n \in Nat : 1..m = 1..n => ~(m < n) /\ ~(n < m)
        OBVIOUS
      <3> QED
        BY <3>1
    <2>1. n \in 1..n /\ n \notin 1..m
      OBVIOUS
    <2> QED
      BY <2>1
  <1>7. Deep(prog, Len(prog)) = Len(open)
    BY <1>4, <1>5, <1>6
  <1>8. At \in 0..(MaxTokens + 1) /\ Count \in Nat \ {0}
    BY <1>2, BoundsAssumption DEF BuildInv, At
  <1> QED
    BY <1>1, <1>2, <1>3, <1>4, <1>5, <1>7, <1>8 DEF At, Reading

LEMMA SimpleBuilt ==
    ASSUME BuildInv, BuildInv', NEW w, Built(w), Statement \/ Return
    PROVE  \E x : Built(x)'
  <1>1. PICK t \in {"stm", "ret"} :
           /\ Read(t, Len(open))
           /\ blk' = Add(cur, <<IF t = "stm" THEN Code(At) ELSE Ret(At)>>)
           /\ cur' = cur /\ open' = open
    BY DEF Statement, Return
  <1>2. t \in Tokens /\ Len(open) \in Nat /\ t \notin Openers /\ Turn(t) = 0
    BY LabelFacts DEF Tokens, Openers, Closers, Turn
  <1>3. /\ Len(prog) \in Nat /\ At = Len(prog) + 1
        /\ prog' = Append(prog, t) /\ Len(prog') = At /\ prog'[At] = t
        /\ Deep(prog', Len(prog')) = Len(open)
        /\ w.prog = prog /\ w.open = open /\ Charted(w)
        /\ w.at \in [Nat -> Nat] /\ w.began \in [Nat -> Nat] /\ w.turned \in [Nat -> Nat]
        /\ At \in 0..(MaxTokens + 1) /\ Count \in Nat \ {0}
    <2>1. \E closers : Read(t, closers)
      BY <1>1
    <2>2. Reading(w, t)
      BY <1>2, <2>1, BuiltFacts
    <2>3. \A n \in Nat : n + 0 = n
      OBVIOUS
    <2>4. Len(open) + Turn(t) = Len(open)
      BY <1>2, <2>3
    <2> QED
      BY <2>2, <2>4, Zenon DEF Reading
  <1>4. PICK x : x = [prog |-> prog', open |-> open', at |-> w.at,
                      began |-> w.began, turned |-> w.turned]
    OBVIOUS
  <1>5. /\ x.prog = prog' /\ x.open = open' /\ x.at = w.at
        /\ x.began = w.began /\ x.turned = w.turned
    BY <1>4
  <1>6. Later(w, x, t)
    <2>1. DOMAIN open = 1..Len(open)
      BY LabelFacts
    <2> QED
      BY <1>1, <1>2, <1>3, <1>5, <2>1 DEF Later
  <1>7. Charted(x) /\ Keeps(w, x)
    BY <1>1, <1>3, <1>5, <1>6, SameCharted
  <1> DEFINE i == IF t = "stm" THEN Code(At) ELSE Ret(At)
             d == <<i>>
             c == blk[cur].instrs
  <1>8. /\ DOMAIN blk' = DOMAIN blk
        /\ \A b \in DOMAIN blk : blk'[b].instrs = IF b = cur THEN blk[b].instrs \o d ELSE blk[b].instrs
    BY <1>1, AddInstrs
  <1>9. d \in Seq(InstrOf(Count)) /\ c \in Seq(InstrOf(Count)) /\ cur \in DOMAIN blk
    <2>1. 0 \in 0..(Count - 1)
      BY <1>3
    <2>2. <<Code(At)>> \in Seq(InstrOf(Count)) /\ <<Ret(At)>> \in Seq(InstrOf(Count))
      BY <1>3, <2>1, CodeTypes
    <2>3. d = IF t = "stm" THEN <<Code(At)>> ELSE <<Ret(At)>>
      OBVIOUS
    <2> QED
      BY <2>2, <2>3, LabelFacts
  <1>10. i.op \in {"Code", "Ret"}
    BY DEF Code, Ret
  <1>11. DOMAIN d = {1} /\ d[1] = i /\ Len(d) = 1
    OBVIOUS
  <1>12. \A j \in DOMAIN d : j = 1
    BY <1>11
  <1>13. Fits(x, blk'[cur].instrs, Len(c) + 1, At, FALSE)
    <2>1. blk'[cur].instrs[Len(c) + 1] = i
      <3> HIDE DEF i
      <3>1. 1 \in 1..Len(d) /\ d \in Seq(InstrOf(Count)) /\ c \in Seq(InstrOf(Count))
        BY <1>9, <1>11
      <3> HIDE DEF d
      <3>2. (c \o d)[Len(c) + 1] = d[1]
        BY <3>1, Behind
      <3> QED
        BY <1>8, <1>9, <1>11, <3>2
    <2>2. At \in 1..Len(x.prog) /\ x.prog[At] = t
      BY <1>3, <1>5
    <2>3. CASE t = "stm"
      <3>1. FitsCode(x, blk'[cur].instrs, Len(c) + 1, At)
        BY <2>1, <2>2, <2>3 DEF FitsCode
      <3> QED
        BY <3>1 DEF Fits
    <2>4. CASE t # "stm"
      <3>1. FitsRet(x, blk'[cur].instrs, Len(c) + 1, At, FALSE)
        BY <1>1, <2>1, <2>2, <2>4 DEF FitsRet
      <3> QED
        BY <3>1 DEF Fits
    <2> QED
      BY <2>3, <2>4
  <1> HIDE DEF i, d
  <1>14. /\ \A b \in DOMAIN blk : w.at[b] = 0 => blk[b].instrs = <<>>
         /\ \A b \in Nat : b \notin DOMAIN blk => w.at[b] = 0
         /\ w.at[cur] # 0 /\ w.at[cur] + Len(blk[cur].instrs) = Len(prog) + 1
         /\ Straight(blk[cur].instrs)
    BY DEF Built
  <1>15. /\ Len(blk'[cur].instrs) = Len(c) + 1 /\ Len(c) \in Nat
         /\ Straight(blk'[cur].instrs)
    <2>1. /\ c \o d \in Seq(InstrOf(Count)) /\ DOMAIN (c \o d) = 1..(Len(c) + Len(d)) /\ Len(c) \in Nat
          /\ \A j \in 1..Len(c) : (c \o d)[j] = c[j]
          /\ \A j \in 1..Len(d) : (c \o d)[Len(c) + j] = d[j]
      BY <1>9, Behind
    <2>2. Len(c \o d) = Len(c) + 1
      <3> HIDE DEF c
      <3>1. Len(c \o d) = Len(c) + Len(d)
        BY <1>9, ConcatProperties
      <3> QED
        BY <1>11, <3>1
    <2>3. Straight(c \o d)
      <3> SUFFICES ASSUME NEW j \in DOMAIN (c \o d) PROVE (c \o d)[j].op \in {"Code", "Ret"}
        BY DEF Straight
      <3>1. DOMAIN c = 1..Len(c)
        BY <1>9, LenProperties
      <3>2. CASE j \in 1..Len(c)
        BY <1>14, <2>1, <3>1, <3>2 DEF Straight
      <3>3. CASE j \notin 1..Len(c)
        <4>1. j = Len(c) + 1 /\ 1 \in 1..Len(d)
          BY <1>11, <2>1, <3>3
        <4> QED
          BY <1>10, <1>11, <2>1, <4>1
      <3> QED
        BY <3>2, <3>3
    <2> QED
      BY <1>8, <1>9, <2>1, <2>2, <2>3
  <1>16. \A j \in DOMAIN d : Fits(x, blk'[cur].instrs, Len(c) + j, Len(prog) + j, FALSE)
    BY <1>3, <1>12, <1>13
  <1>17. \A b \in DOMAIN blk' :
            \/ b = cur
            \/ b \in DOMAIN blk /\ w.at[b] # 0 /\ blk'[b].instrs = blk[b].instrs
            \/ x.at[b] = 0 /\ blk'[b].instrs = <<>>
    BY <1>5, <1>8, <1>14
  <1>18. blk'[cur].instrs = c \o d
    BY <1>8, <1>9
  <1>19. x.at[cur'] + Len(blk'[cur'].instrs) = Len(prog') + 1 /\ x.at[cur'] # 0
    <2>1. cur \in Nat
      BY LabelFacts
    <2>2. w.at[cur] \in Nat
      BY <1>3, <2>1
    <2>3. x.at[cur'] = w.at[cur] /\ blk'[cur'].instrs = blk'[cur].instrs
      BY <1>1, <1>5
    <2>4. w.at[cur] + Len(c) = Len(prog) + 1
      BY <1>14
    <2>5. Len(blk'[cur].instrs) = Len(c) + 1 /\ Len(c) \in Nat
      BY <1>15
    <2>6. \A a, l, p \in Nat : a + l = p + 1 => a + (l + 1) = (p + 1) + 1
      OBVIOUS
    <2>7. w.at[cur] + (Len(c) + 1) = (Len(prog) + 1) + 1
      BY <1>3, <2>2, <2>4, <2>5, <2>6
    <2> QED
      BY <1>3, <1>14, <2>3, <2>5, <2>7
  <1> HIDE DEF c
  <1>20. Built(x)'
    <2>1. blk[cur].instrs \in Seq(InstrOf(Count)) /\ DOMAIN blk \subseteq DOMAIN blk'
      BY <1>8, <1>9 DEF c
    <2>2. \A b \in Nat : b \notin DOMAIN blk' => x.at[b] = 0
      BY <1>5, <1>8, <1>14
    <2>3. Straight(blk'[cur'].instrs)
      BY <1>1, <1>15
    <2> QED
      BY <1>5, <1>6, <1>7, <1>9, <1>16, <1>17, <1>18, <1>19, <2>1, <2>2, <2>3, BuiltStep DEF c
  <1> QED
    BY <1>20

-----------------------------------------------------------------------------
(* A statement that ends a block and goes on in another one.               *)

(* The chart learns where the code of the blocks of v begins.              *)
Placed(w, x, v) ==
    /\ x.at = [b \in Nat |-> IF b \in DOMAIN v THEN v[b] ELSE w.at[b]]
    /\ \A b \in DOMAIN v : b \in Nat /\ w.at[b] = 0 /\ v[b] \in Nat \ {0}

(* What a token does to the chart besides placing blocks.                  *)
Deeper(x, token) ==
    /\ x.prog = prog' /\ x.open = open' /\ x.began \in [Nat -> Nat] /\ x.turned \in [Nat -> Nat]
    /\ Len(open) + Turn(token) \in Nat /\ DOMAIN open' = 1..(Len(open) + Turn(token))

LEMMA PlacedLater ==
    ASSUME NEW w, NEW x, NEW token \in Tokens, NEW v, Reading(w, token), Placed(w, x, v),
           Deeper(x, token)
    PROVE  Later(w, x, token)
  <1> USE DEF Deeper
  <1>1. x.at \in [Nat -> Nat] /\ w.at \in [Nat -> Nat]
        /\ \A b \in Nat : x.at[b] = IF b \in DOMAIN v THEN v[b] ELSE w.at[b]
    <2>1. w.at \in [Nat -> Nat]
      BY DEF Reading
    <2>2. /\ x.at = [b \in Nat |-> IF b \in DOMAIN v THEN v[b] ELSE w.at[b]]
          /\ \A b \in DOMAIN v : v[b] \in Nat
      BY DEF Placed
    <2>3. \A b \in Nat : w.at[b] \in Nat
      BY <2>1
    <2>4. \A b \in Nat : (IF b \in DOMAIN v THEN v[b] ELSE w.at[b]) \in Nat
      BY <2>2, <2>3
    <2> QED
      BY <2>1, <2>2, <2>4
  <1>2. ASSUME NEW b \in Nat, w.at[b] # 0 PROVE x.at[b] = w.at[b]
    BY <1>1, <1>2 DEF Placed
  <1>3. x.prog = Append(w.prog, token) /\ Deep(x.prog, Len(x.prog)) = Len(open) + Turn(token)
        /\ Charted(w)
    BY DEF Reading
  <1> QED
    BY <1>1, <1>2, <1>3 DEF Later

(* Code added behind straight-line code: a branch, or a test and branch.   *)
LEMMA JumpFits ==
    ASSUME NEW x, NEW S, NEW c \in Seq(S), NEW d \in Nat, <<Br(d)>> \in Seq(S),
           NEW k \in 1..Len(x.prog), BranchTo(x, k, d)
    PROVE  \A i \in DOMAIN <<Br(d)>> : Fits(x, c \o <<Br(d)>>, Len(c) + i, (k - 1) + i, FALSE)
  <1> DEFINE s == <<Br(d)>>
  <1>1. DOMAIN s = {1} /\ s[1] = Br(d) /\ Len(s) = 1 /\ s \in Seq(S)
    OBVIOUS
  <1> HIDE DEF s
  <1>2. (c \o s)[Len(c) + 1] = Br(d)
    <2>1. 1 \in 1..Len(s)
      BY <1>1
    <2>2. \A i \in 1..Len(s) : (c \o s)[Len(c) + i] = s[i]
      BY <1>1, Behind
    <2> QED
      BY <1>1, <2>1, <2>2
  <1>3. FitsBr(x, c \o s, Len(c) + 1, k)
    BY <1>2 DEF FitsBr
  <1>4. Fits(x, c \o s, Len(c) + 1, k, FALSE)
    BY <1>3 DEF Fits
  <1>5. k \in Int
    OBVIOUS
  <1>6. (k - 1) + 1 = k
    BY <1>5
  <1> QED
    BY <1>1, <1>4, <1>6 DEF s

LEMMA TestFits ==
    ASSUME NEW x, NEW S, NEW c \in Seq(S), NEW k \in 1..Len(x.prog), NEW t \in Nat, NEW f \in Nat,
           <<Code(k), BrCond(k, t, f)>> \in Seq(S), x.at[t] = k + 1,
           \/ x.prog[k] = "if" /\ IfTo(x, k, f)
           \/ x.prog[k] = "for" /\ ForTo(x, k, f)
    PROVE  \A i \in DOMAIN <<Code(k), BrCond(k, t, f)>> :
              Fits(x, c \o <<Code(k), BrCond(k, t, f)>>, Len(c) + i, (k - 1) + i, FALSE)
  <1> DEFINE s == <<Code(k), BrCond(k, t, f)>>
             r == c \o s
  <1>1. /\ DOMAIN s = {1, 2} /\ s[1] = Code(k) /\ s[2] = BrCond(k, t, f) /\ Len(s) = 2 /\ s \in Seq(S)
    OBVIOUS
  <1> HIDE DEF s
  <1>2. PICK m : m = Len(c)
    OBVIOUS
  <1> HIDE DEF r
  <1>3. m \in Nat /\ r \in Seq(S) /\ DOMAIN r = 1..(m + 2) /\ r[m + 1] = Code(k) /\ r[m + 2] = BrCond(k, t, f)
    <2>1. /\ c \o s \in Seq(S) /\ DOMAIN (c \o s) = 1..(Len(c) + Len(s)) /\ Len(c) \in Nat
          /\ \A i \in 1..Len(s) : (c \o s)[Len(c) + i] = s[i]
      <3>1. s \in Seq(S)
        BY <1>1
      <3>2. c \o s \in Seq(S) /\ DOMAIN (c \o s) = 1..(Len(c) + Len(s)) /\ Len(c) \in Nat
        BY <3>1, Behind
      <3>3. \A i \in 1..Len(s) : (c \o s)[Len(c) + i] = s[i]
        BY <3>1, Behind
      <3> QED
        BY <3>2, <3>3
    <2>2. 1 \in 1..Len(s) /\ 2 \in 1..Len(s)
      BY <1>1
    <2>3. r = c \o s
      BY DEF r
    <2> QED
      BY <1>1, <1>2, <2>1, <2>2, <2>3
  <1>4. Len(r) = m + 2
    <2>1. Len(c \o s) = Len(c) + Len(s)
      <3>1. s \in Seq(S)
        BY <1>1
      <3> QED
        BY <3>1, ConcatProperties
    <2> QED
      BY <1>1, <1>2, <2>1 DEF r
  <1>5. FitsCode(x, r, m + 1, k)
    <2>1. (m + 1) + 1 \in DOMAIN r /\ (m + 1) + 1 = m + 2
      BY <1>3
    <2>2. BrCond(k, t, f).op = "BrCond"
      BY DEF BrCond
    <2>3. x.prog[k] \in Openers
      BY DEF Openers
    <2> QED
      BY <1>3, <2>1, <2>2, <2>3 DEF FitsCode
  <1>6. FitsBrCond(x, r, m + 2, k + 1)
    <2>1. k \in Int
      OBVIOUS
    <2>2. (k + 1) - 1 = k /\ m + 2 > 1
      BY <1>3, <2>1
    <2> QED
      BY <1>3, <1>4, <2>2 DEF FitsBrCond
  <1>7. Fits(x, r, m + 1, k, FALSE) /\ Fits(x, r, m + 2, k + 1, FALSE)
    BY <1>5, <1>6 DEF Fits
  <1>8. k \in Int
    OBVIOUS
  <1>9. (k - 1) + 1 = k /\ (k - 1) + 2 = k + 1
    BY <1>8
  <1> QED
    BY <1>1, <1>2, <1>7, <1>9 DEF r, s

LEMMA SwitchBuilt ==
    ASSUME BuildInv, NEW w, Built(w), NEW x, NEW token \in Tokens, NEW v,
           Reading(w, token), Placed(w, x, v),
           Later(w, x, token), Keeps(w, x), Charted(x), x.prog = prog', x.open = open',
           \A b \in Nat : x.at[b] = IF b \in DOMAIN v THEN v[b] ELSE w.at[b],
           DOMAIN blk \subseteq DOMAIN blk', DOMAIN v \subseteq DOMAIN blk', DOMAIN blk' \subseteq Nat,
           NEW S, NEW d \in Seq(S), blk[cur].instrs \in Seq(S),
           blk'[cur].instrs = blk[cur].instrs \o d,
           \A i \in DOMAIN d :
              Fits(x, blk[cur].instrs \o d, Len(blk[cur].instrs) + i, (At - 1) + i, FALSE),
           \A b \in DOMAIN blk : b # cur /\ b \notin DOMAIN v => blk'[b].instrs = blk[b].instrs,
           \A b \in DOMAIN blk' : b \notin DOMAIN blk /\ b \notin DOMAIN v => blk'[b].instrs = <<>>,
           \A b \in DOMAIN v : FitsFrom(x, blk'[b].instrs, v[b], FALSE),
           cur' \in DOMAIN v, v[cur'] = At + 1, blk'[cur'].instrs = <<>>
    PROVE  Built(x)'
  <1>1. /\ Len(prog) \in Nat /\ At = Len(prog) + 1 /\ Len(prog') = At
    BY DEF Reading
  <1>2. /\ \A b \in DOMAIN blk : w.at[b] = 0 => blk[b].instrs = <<>>
        /\ \A b \in Nat : b \notin DOMAIN blk => w.at[b] = 0
    BY DEF Built
  <1>3. At - 1 = Len(prog) /\ At \in Nat
    BY <1>1
  <1>4. \A b \in DOMAIN v : b \in Nat /\ v[b] \in Nat \ {0} /\ x.at[b] = v[b]
    BY DEF Placed
  <1>5. \A i \in DOMAIN d :
            Fits(x, blk'[cur].instrs, Len(blk[cur].instrs) + i, Len(prog) + i, FALSE)
    BY <1>3
  <1>6. ASSUME NEW b \in DOMAIN blk'
        PROVE  \/ b = cur
               \/ b \in DOMAIN blk /\ w.at[b] # 0 /\ blk'[b].instrs = blk[b].instrs
               \/ x.at[b] = 0 /\ blk'[b].instrs = <<>>
               \/ x.at[b] # 0 /\ FitsFrom(x, blk'[b].instrs, x.at[b], FALSE)
    <2>0. b \in Nat
      OBVIOUS
    <2>1. CASE b \in DOMAIN v
      BY <1>4, <2>1
    <2>2. CASE b \notin DOMAIN v
      <3>1. x.at[b] = w.at[b]
        BY <2>0, <2>2
      <3> QED
        BY <1>2, <2>0, <2>2, <3>1
    <2> QED
      BY <2>1, <2>2
  <1>7. \A b \in Nat : b \notin DOMAIN blk' => x.at[b] = 0
    BY <1>2
  <1>8. x.at[cur'] = At + 1 /\ Len(blk'[cur'].instrs) = 0 /\ Straight(blk'[cur'].instrs)
    BY <1>4 DEF Straight
  <1>9. x.at[cur'] # 0 /\ x.at[cur'] + Len(blk'[cur'].instrs) = Len(prog') + 1
    BY <1>1, <1>3, <1>8
  <1> QED
    BY <1>5, <1>6, <1>7, <1>8, <1>9, BuiltStep

-----------------------------------------------------------------------------
(* What is open waits for blocks the chart does not know yet.              *)
LEMMA WaitingUnknown ==
    ASSUME BuildInv, FlowInv, phase = "build", NEW w, Built(w)
    PROVE  /\ DOMAIN blk \subseteq Nat /\ cur \in DOMAIN blk
           /\ blk[cur].instrs \in Seq(InstrOf(Count))
           /\ \A i \in DOMAIN open :
                 /\ Exit(i) \in DOMAIN blk /\ Other(i) \in DOMAIN blk
                 /\ w.at[Exit(i)] = 0 /\ Exit(i) # cur /\ blk[Exit(i)].instrs = <<>>
                 /\ Then(i) => w.at[Other(i)] = 0 /\ Other(i) # cur /\ blk[Other(i)].instrs = <<>>
                 /\ w.open[i] = open[i] /\ i \in DOMAIN w.open
           /\ \A i \in DOMAIN open : \A j \in DOMAIN open :
                 /\ i # j => Exit(i) # Exit(j)
                 /\ Other(i) # Exit(j)
                 /\ i # j /\ Then(i) => Other(i) # Other(j)
  <1>1. w.open = open /\ Charted(w)
    BY DEF Built
  <1>2. \A i \in DOMAIN open : Framed(w, i)
    BY <1>1 DEF Charted
  <1>3. /\ \A i \in DOMAIN open : Fresh(i)
        /\ \A i \in DOMAIN open : \A j \in DOMAIN open : Apart(i, j)
    BY DEF FlowInv, FreshInv
  <1>4. /\ DOMAIN blk \subseteq Nat /\ cur \in DOMAIN blk /\ blk[cur].instrs \in Seq(InstrOf(Count))
        /\ \A i \in DOMAIN open : Exit(i) \in DOMAIN blk /\ Other(i) \in DOMAIN blk
    BY LabelFacts
  <1>5. ASSUME NEW i \in DOMAIN open
        PROVE  /\ w.at[Exit(i)] = 0 /\ Exit(i) # cur /\ blk[Exit(i)].instrs = <<>>
               /\ Then(i) => w.at[Other(i)] = 0 /\ Other(i) # cur /\ blk[Other(i)].instrs = <<>>
    <2>1. Fresh(i) /\ Framed(w, i)
      BY <1>2, <1>3
    <2>2. w.at[Exit(i)] = 0
      BY <1>1, <2>1 DEF Framed, Exit
    <2>3. Then(i) => w.at[Other(i)] = 0
      BY <1>1, <2>1 DEF Framed, Then, Other
    <2>4. Then(i) => open[i].kind # "else"
      BY DEF Then
    <2> QED
      BY <2>1, <2>2, <2>3, <2>4 DEF Fresh
  <1>6. \A i \in DOMAIN open : \A j \in DOMAIN open :
                 /\ i # j => Exit(i) # Exit(j)
                 /\ Other(i) # Exit(j)
                 /\ i # j /\ Then(i) => Other(i) # Other(j)
    BY <1>3 DEF Apart
  <1> QED
    BY <1>1, <1>4, <1>5, <1>6

LEMMA ElseBuilt ==
    ASSUME BuildInv, BuildInv', FlowInv, NEW w, Built(w), Else
    PROVE  \E x : Built(x)'
  <1>0. PICK m : m = Len(open)
    OBVIOUS
  <1>1. /\ open # <<>> /\ Last(open).kind = "then" /\ Read("else", Len(open))
        /\ phase = "build" /\ phase' = "build" /\ blk' = Add(cur, <<Br(Last(open).exit)>>)
        /\ cur' = Last(open).other
        /\ open' = [open EXCEPT ![m].kind = "else", ![m].then = returns]
    BY <1>0 DEF Else, Read
  <1>2. m \in DOMAIN open /\ m \in Nat /\ Last(open) = open[m] /\ DOMAIN open = 1..m
    BY <1>0, <1>1, Innermost, LabelFacts
  <1>3. /\ Then(m) /\ cur' = Other(m) /\ blk' = Add(cur, <<Br(Exit(m))>>)
        /\ DOMAIN open' = DOMAIN open
        /\ \A i \in DOMAIN open : i # m => open'[i] = open[i]
        /\ open'[m].kind = "else" /\ open'[m].exit = Exit(m)
    <2>1. open[m] \in FrameOf(Count)
      BY <1>2, LabelFacts, ElementOfSeq
    <2>2. /\ DOMAIN open' = DOMAIN open
          /\ \A i \in DOMAIN open :
                open'[i] = IF i = m THEN [[open[m] EXCEPT !.kind = "else"] EXCEPT !.then = returns]
                           ELSE open[i]
      BY <1>1, <1>2
    <2>3. /\ \A i \in DOMAIN open : i # m => open'[i] = open[i]
          /\ open'[m].exit = open[m].exit /\ open'[m].kind = "else"
      BY <1>2, <2>1, <2>2 DEF FrameOf
    <2> QED
      BY <1>1, <1>2, <2>2, <2>3 DEF Exit, Other, Then
  <1>4. "else" \in Tokens /\ Turn("else") = 0
    BY DEF Tokens, Turn, Openers, Closers
  <1>5. Reading(w, "else")
    <2>1. \E closers : Read("else", closers)
      BY <1>1
    <2> QED
      BY <1>4, <2>1, BuiltFacts
  <1>6. /\ DOMAIN blk \subseteq Nat /\ cur \in DOMAIN blk /\ blk[cur].instrs \in Seq(InstrOf(Count))
        /\ Exit(m) \in Nat /\ Other(m) \in Nat /\ Exit(m) \in DOMAIN blk /\ Other(m) \in DOMAIN blk
        /\ w.at[Exit(m)] = 0 /\ w.at[Other(m)] = 0 /\ Other(m) # cur /\ blk[Other(m)].instrs = <<>>
        /\ Other(m) # Exit(m)
        /\ \A i \in DOMAIN open : i # m => /\ Exit(i) # Other(m) /\ Other(i) # Other(m)
                                           /\ Exit(i) \in Nat /\ Other(i) \in Nat
    BY <1>1, <1>2, <1>3, WaitingUnknown
  <1>7. PICK v : v = [b \in {Other(m)} |-> At + 1]
    OBVIOUS
  <1>8. PICK x : x = [prog |-> prog', open |-> open',
                      at |-> [b \in Nat |-> IF b \in DOMAIN v THEN v[b] ELSE w.at[b]],
                      began |-> w.began, turned |-> [w.turned EXCEPT ![m] = At]]
    OBVIOUS
  <1>9. /\ x.prog = prog' /\ x.open = open' /\ x.began = w.began
        /\ x.at = [b \in Nat |-> IF b \in DOMAIN v THEN v[b] ELSE w.at[b]]
        /\ x.turned = [w.turned EXCEPT ![m] = At]
    BY <1>8
  <1>10. /\ Len(prog) \in Nat /\ At \in Nat /\ At = Len(prog) + 1 /\ prog'[At] = "else" /\ Len(prog') = At
         /\ w.prog = prog /\ w.open = open /\ Len(open) = Deep(prog, Len(prog)) /\ Len(open) + Turn("else") = Len(open)
         /\ w.began \in [Nat -> Nat] /\ w.turned \in [Nat -> Nat] /\ Count \in Nat \ {0}
    <2>1. \A n \in Nat : n + 0 = n /\ n + 1 \in Nat
      OBVIOUS
    <2> QED
      BY <1>4, <1>5, <2>1 DEF Reading
  <1>11. x.turned \in [Nat -> Nat] /\ x.turned[m] = At /\ \A i \in Nat : i # m => x.turned[i] = w.turned[i]
    <2>1. PICK g, a : g = w.turned /\ a = At
      OBVIOUS
    <2>2. g \in [Nat -> Nat] /\ a \in Nat /\ m \in Nat
      BY <1>2, <1>10, <2>1
    <2>3. x.turned = [g EXCEPT ![m] = a]
      BY <1>9, <2>1
    <2>4. x.turned \in [Nat -> Nat] /\ x.turned[m] = a /\ \A i \in Nat : i # m => x.turned[i] = g[i]
      BY <2>2, <2>3
    <2> QED
      BY <2>1, <2>4
  <1>12. Placed(w, x, v) /\ DOMAIN v = {Other(m)} /\ v[Other(m)] = At + 1
    <2>1. DOMAIN v = {Other(m)} /\ v[Other(m)] = At + 1
      BY <1>7
    <2>2. At + 1 \in Nat \ {0}
      <3>1. \A n \in Nat : n + 1 \in Nat \ {0}
        OBVIOUS
      <3> QED
        BY <1>10, <3>1, Zenon
    <2>3. \A b \in DOMAIN v : b \in Nat /\ w.at[b] = 0 /\ v[b] \in Nat \ {0}
      BY <1>6, <2>1, <2>2
    <2> QED
      BY <1>9, <2>1, <2>3 DEF Placed
  <1>13. Later(w, x, "else") /\ \A b \in Nat : x.at[b] = IF b \in DOMAIN v THEN v[b] ELSE w.at[b]
    <2>1. /\ Len(open) + Turn("else") \in Nat /\ DOMAIN open' = 1..(Len(open) + Turn("else"))
          /\ x.began \in [Nat -> Nat]
      BY <1>0, <1>2, <1>3, <1>9, <1>10
    <2> DEFINE Is(b) == x.at[b] = IF b \in DOMAIN v THEN v[b] ELSE w.at[b]
    <2>3. Later(w, x, "else")
      <3>1. Deeper(x, "else")
        BY <1>9, <1>11, <2>1 DEF Deeper
      <3> QED
        BY <1>4, <1>5, <1>12, <3>1, PlacedLater
    <2>4. \A b \in Nat : Is(b)
      BY <1>9
    <2> QED
      BY <2>3, <2>4
  <1>14. \A b \in Nat : x.at[b] = IF b = Other(m) THEN At + 1 ELSE w.at[b]
    BY <1>12, <1>13
  <1>15. ASSUME NEW i \in DOMAIN w.open, i # m PROVE Untouched(w, x, i)
    <2>1. i \in DOMAIN open /\ i \in Nat
      BY <1>2, <1>10
    <2>2. x.open[i] = w.open[i] /\ x.began[i] = w.began[i] /\ x.turned[i] = w.turned[i]
      BY <1>3, <1>9, <1>10, <1>11, <1>15, <2>1
    <2>3. x.at[Exit(i)] = w.at[Exit(i)] /\ x.at[Other(i)] = w.at[Other(i)]
      BY <1>6, <1>14, <1>15, <2>1
    <2> QED
      BY <1>3, <1>9, <1>10, <2>1, <2>2, <2>3 DEF Untouched, Exit, Other
  <1>16. Charted(x) /\ Keeps(w, x)
    <2>1. PICK n : n = Len(w.prog)
      OBVIOUS
    <2>2. m = Deep(w.prog, n) /\ m \in DOMAIN w.open /\ n + 2 = At + 1 /\ n + 1 = At
      BY <1>0, <1>2, <1>10, <2>1
    <2>3. /\ w.open[m].kind = "then" /\ x.open[m].kind = "else" /\ x.open[m].exit = w.open[m].exit
          /\ x.began[m] = w.began[m] /\ x.turned[m] = n + 1
          /\ x.at[w.open[m].exit] = 0 /\ x.at[w.open[m].other] = n + 2
      BY <1>3, <1>6, <1>9, <1>10, <1>11, <1>14, <2>2 DEF Exit, Other, Then
    <2> QED
      BY <1>13, <1>15, <2>1, <2>2, <2>3, ElseCharted
  <1>17. BranchTo(x, At, Exit(m))
    <2>1. ElseBy(x, m, At, Exit(m)) /\ m \in DOMAIN x.open
      BY <1>2, <1>3, <1>9, <1>11 DEF ElseBy
    <2> QED
      BY <1>9, <1>10, <2>1 DEF BranchTo, ElseTo
  <1> DEFINE d == <<Br(Exit(m))>>
             c == blk[cur].instrs
  <1>18. d \in Seq(InstrOf(Count))
    <2>1. Exit(m) \in 0..(Count - 1) /\ 0 \in 0..(MaxTokens + 1)
      BY <1>2, LabelFacts, BoundsAssumption
    <2> QED
      BY <1>10, <2>1, CodeTypes
  <1>19. \A i \in DOMAIN d : Fits(x, c \o d, Len(c) + i, (At - 1) + i, FALSE)
    <2>1. At \in 1..Len(x.prog)
      BY <1>9, <1>10
    <2> QED
      BY <1>6, <1>17, <1>18, <2>1, JumpFits
  <1>20. /\ DOMAIN blk' = DOMAIN blk
         /\ \A b \in DOMAIN blk : blk'[b].instrs = IF b = cur THEN blk[b].instrs \o d ELSE blk[b].instrs
    BY <1>3, AddInstrs
  <1> HIDE DEF d
  <1>21. /\ blk'[cur].instrs = c \o d
         /\ \A b \in DOMAIN blk : b # cur => blk'[b].instrs = blk[b].instrs
         /\ blk'[Other(m)].instrs = <<>> /\ DOMAIN blk' = DOMAIN blk
    BY <1>6, <1>20
  <1>22. \A b \in DOMAIN v : FitsFrom(x, blk'[b].instrs, v[b], FALSE)
    BY <1>12, <1>21 DEF FitsFrom
  <1>23. Built(x)'
    <2>1. DOMAIN v \subseteq DOMAIN blk' /\ cur' \in DOMAIN v /\ v[cur'] = At + 1 /\ blk'[cur'].instrs = <<>>
      BY <1>3, <1>6, <1>12, <1>21
    <2> QED
      BY <1>4, <1>5, <1>6, <1>9, <1>12, <1>13, <1>16, <1>18, <1>19, <1>21, <1>22, <2>1, SwitchBuilt
  <1> QED
    BY <1>23

(* The chart behind a statement that closes another.                       *)
Popped(w, x, v, token, m) ==
    /\ x.prog = prog' /\ x.open = open' /\ x.began = w.began /\ x.turned = w.turned
    /\ Reading(w, token) /\ Placed(w, x, v) /\ Later(w, x, token)
    /\ \A b \in Nat : x.at[b] = IF b \in DOMAIN v THEN v[b] ELSE w.at[b]
    /\ m = Deep(w.prog, Len(w.prog)) /\ m \in DOMAIN w.open /\ m \in DOMAIN open
    /\ \A i \in DOMAIN w.open : i # m => Untouched(w, x, i)
    /\ Len(w.prog) + 1 = At /\ Len(w.prog) + 2 = At + 1 /\ At \in Nat /\ At \in 1..Len(x.prog)
    /\ x.prog[At] = token

LEMMA PopLater ==
    ASSUME BuildInv, FlowInv, NEW w, Built(w), NEW token \in Closers, \E closers : Read(token, closers),
           open # <<>>, open' = Front(open), NEW m, m = Len(open), NEW v,
           DOMAIN v \subseteq {Exit(m)} \cup (IF Then(m) THEN {Other(m)} ELSE {}),
           \A b \in DOMAIN v : v[b] \in Nat \ {0}
    PROVE  \E x : Popped(w, x, v, token, m)
  <1>1. token \in Tokens /\ Turn(token) = -1
    BY DEF Tokens, Turn, Openers, Closers
  <1>2. Reading(w, token)
    BY <1>1, BuiltFacts
  <1>3. /\ m \in DOMAIN open /\ m \in Nat /\ DOMAIN open = 1..m
        /\ DOMAIN open' = 1..(m - 1)
        /\ \A i \in 1..(m - 1) : i \in DOMAIN open /\ i # m /\ open'[i] = open[i]
        /\ \A i \in DOMAIN open : i = m \/ i \in 1..(m - 1)
    BY Innermost, LabelFacts
  <1>4. phase = "build"
    BY <1>2 DEF Reading
  <1>5. /\ DOMAIN blk \subseteq Nat
        /\ Exit(m) \in Nat /\ Other(m) \in Nat
        /\ w.at[Exit(m)] = 0 /\ (Then(m) => w.at[Other(m)] = 0)
        /\ \A i \in DOMAIN open : i # m =>
              /\ Exit(i) # Exit(m) /\ Other(i) # Exit(m) /\ Exit(i) \in Nat /\ Other(i) \in Nat
              /\ Then(m) => Exit(i) # Other(m) /\ Other(i) # Other(m)
    BY <1>3, <1>4, WaitingUnknown
  <1>6. PICK x : x = [prog |-> prog', open |-> open',
                      at |-> [b \in Nat |-> IF b \in DOMAIN v THEN v[b] ELSE w.at[b]],
                      began |-> w.began, turned |-> w.turned]
    OBVIOUS
  <1>7. /\ x.prog = prog' /\ x.open = open' /\ x.began = w.began /\ x.turned = w.turned
        /\ x.at = [b \in Nat |-> IF b \in DOMAIN v THEN v[b] ELSE w.at[b]]
    BY <1>6
  <1>8. /\ Len(prog) \in Nat /\ At = Len(prog) + 1 /\ prog'[At] = token /\ Len(prog') = At
        /\ w.prog = prog /\ w.open = open /\ Len(open) = Deep(prog, Len(prog))
        /\ w.began \in [Nat -> Nat] /\ w.turned \in [Nat -> Nat]
    BY <1>2 DEF Reading
  <1>9. \A b \in DOMAIN v : b = Exit(m) \/ (Then(m) /\ b = Other(m))
    OBVIOUS
  <1>10. Placed(w, x, v)
    BY <1>5, <1>7, <1>9 DEF Placed
  <1>11. Later(w, x, token) /\ \A b \in Nat : x.at[b] = IF b \in DOMAIN v THEN v[b] ELSE w.at[b]
    <2>1. m + Turn(token) = m - 1 /\ m - 1 \in Nat
      BY <1>1, <1>3
    <2>2. /\ Len(open) + Turn(token) \in Nat /\ DOMAIN open' = 1..(Len(open) + Turn(token))
          /\ x.began \in [Nat -> Nat] /\ x.turned \in [Nat -> Nat]
      BY <1>3, <1>7, <1>8, <2>1
    <2> DEFINE Is(b) == x.at[b] = IF b \in DOMAIN v THEN v[b] ELSE w.at[b]
    <2>3. Later(w, x, token)
      <3>1. Deeper(x, token)
        BY <1>7, <2>2 DEF Deeper
      <3> QED
        BY <1>1, <1>2, <1>10, <3>1, PlacedLater
    <2>4. \A b \in Nat : Is(b)
      BY <1>7
    <2> QED
      BY <2>3, <2>4
  <1>12. ASSUME NEW i \in DOMAIN w.open, i # m PROVE Untouched(w, x, i)
    <2>1. i \in DOMAIN open /\ i \in 1..(m - 1)
      BY <1>3, <1>8, <1>12
    <2>2. x.open[i] = w.open[i] /\ x.began[i] = w.began[i] /\ x.turned[i] = w.turned[i] /\ i \in DOMAIN x.open
      BY <1>3, <1>7, <1>8, <2>1
    <2>3. Exit(i) \notin DOMAIN v /\ Other(i) \notin DOMAIN v /\ Exit(i) \in Nat /\ Other(i) \in Nat
      BY <1>5, <1>9, <1>12, <2>1
    <2>4. x.at[Exit(i)] = w.at[Exit(i)] /\ x.at[Other(i)] = w.at[Other(i)]
      BY <1>11, <2>3
    <2> QED
      BY <1>8, <2>2, <2>4 DEF Untouched, Exit, Other
  <1>13. /\ Len(w.prog) + 1 = At /\ Len(w.prog) + 2 = At + 1 /\ At \in Nat /\ At \in 1..Len(x.prog)
         /\ x.prog[At] = token
    <2>1. \A n \in Nat : n + 2 = (n + 1) + 1 /\ n + 1 \in Nat /\ n + 1 \in 1..(n + 1)
      OBVIOUS
    <2> QED
      BY <1>7, <1>8, <2>1
  <1> QED
    BY <1>2, <1>3, <1>7, <1>8, <1>10, <1>11, <1>12, <1>13 DEF Popped

LEMMA EndLoopBuilt ==
    ASSUME BuildInv, BuildInv', FlowInv, NEW w, Built(w), EndLoop
    PROVE  \E x : Built(x)'
  <1>0. PICK m : m = Len(open)
    OBVIOUS
  <1>1. /\ open # <<>> /\ Last(open).kind = "loop" /\ Read("rof", Len(open) - 1)
        /\ phase = "build" /\ blk' = Add(cur, <<Br(Last(open).other)>>)
        /\ cur' = Last(open).exit /\ open' = Front(open)
    BY DEF EndLoop, Read
  <1>2. m \in DOMAIN open /\ Last(open) = open[m]
    BY <1>0, <1>1, Innermost
  <1>3. open[m].kind = "loop" /\ ~Then(m) /\ cur' = Exit(m) /\ blk' = Add(cur, <<Br(Other(m))>>)
    BY <1>1, <1>2 DEF Exit, Other, Then
  <1>4. PICK v : v = [b \in {Exit(m)} |-> At + 1]
    OBVIOUS
  <1>5. "rof" \in Closers /\ "rof" \in Tokens /\ \E closers : Read("rof", closers)
    BY <1>1 DEF Closers, Tokens
  <1>6. At \in Nat /\ Reading(w, "rof")
    <2>1. Reading(w, "rof")
      BY <1>5, BuiltFacts
    <2>2. \A n \in Nat : n + 1 \in Nat
      OBVIOUS
    <2> QED
      BY <2>1, <2>2 DEF Reading
  <1>7. DOMAIN v = {Exit(m)} /\ v[Exit(m)] = At + 1 /\ \A b \in DOMAIN v : v[b] \in Nat \ {0}
    <2>1. \A n \in Nat : n + 1 \in Nat \ {0}
      OBVIOUS
    <2>2. At + 1 \in Nat \ {0}
      BY <1>6, <2>1, Zenon
    <2> QED
      BY <1>4, <2>2
  <1>8. PICK x : Popped(w, x, v, "rof", m)
    BY <1>0, <1>1, <1>5, <1>7, PopLater
  <1>9. /\ DOMAIN blk \subseteq Nat /\ cur \in DOMAIN blk /\ blk[cur].instrs \in Seq(InstrOf(Count))
        /\ Exit(m) \in Nat /\ Other(m) \in Nat /\ Exit(m) \in DOMAIN blk /\ Other(m) \in DOMAIN blk
        /\ Exit(m) # cur /\ blk[Exit(m)].instrs = <<>> /\ Other(m) # Exit(m)
        /\ w.open[m] = open[m]
    BY <1>1, <1>2, WaitingUnknown
  <1>10. PICK n : n = Len(w.prog)
    OBVIOUS
  <1>11. /\ x.at[Exit(m)] = n + 2 /\ x.at[Other(m)] = w.at[Other(m)] /\ n + 1 = At
         /\ Later(w, x, "rof") /\ m = Deep(w.prog, n) /\ m \in DOMAIN w.open
         /\ \A i \in DOMAIN w.open : i # m => Untouched(w, x, i)
    BY <1>7, <1>8, <1>9, <1>10 DEF Popped
  <1>12. Charted(x) /\ Keeps(w, x)
    <2>1. x.at[w.open[m].exit] = n + 2 /\ w.open[m].kind = "loop"
      BY <1>3, <1>9, <1>11 DEF Exit
    <2> QED
      BY <1>5, <1>10, <1>11, <2>1, PopCharted
  <1>13. BranchTo(x, At, Other(m))
    <2>1. Matches(x.prog, w.began[m], n + 1)
      BY <1>5, <1>10, <1>11, ClosesInnermost
    <2>2. Framed(w, m)
      BY <1>11 DEF Later, Charted
    <2>3. /\ w.began[m] \in 1..n /\ w.prog[w.began[m]] = "for" /\ w.at[Other(m)] = w.began[m]
      BY <1>3, <1>9, <1>10, <2>2 DEF Framed, Other
    <2>4. x.prog[w.began[m]] = "for"
      BY <1>10, <1>11, <2>3, LaterFacts
    <2>5. RofDone(x, At, Other(m))
      BY <1>11, <2>1, <2>3, <2>4 DEF RofDone
    <2> QED
      BY <1>8, <2>5 DEF BranchTo, Popped
  <1> DEFINE d == <<Br(Other(m))>>
             c == blk[cur].instrs
  <1>18. d \in Seq(InstrOf(Count))
    <2>1. Other(m) \in 0..(Count - 1) /\ 0 \in 0..(MaxTokens + 1) /\ Count \in Nat
      BY <1>2, LabelFacts, BoundsAssumption
    <2> QED
      BY <2>1, CodeTypes
  <1>19. \A i \in DOMAIN d : Fits(x, c \o d, Len(c) + i, (At - 1) + i, FALSE)
    <2>1. At \in 1..Len(x.prog)
      BY <1>8 DEF Popped
    <2> QED
      BY <1>9, <1>13, <1>18, <2>1, JumpFits
  <1>20. /\ DOMAIN blk' = DOMAIN blk
         /\ \A b \in DOMAIN blk : blk'[b].instrs = IF b = cur THEN blk[b].instrs \o d ELSE blk[b].instrs
    BY <1>3, AddInstrs
  <1> HIDE DEF d
  <1>21. /\ blk'[cur].instrs = c \o d
         /\ \A b \in DOMAIN blk : b # cur => blk'[b].instrs = blk[b].instrs
         /\ blk'[Exit(m)].instrs = <<>> /\ DOMAIN blk' = DOMAIN blk
    BY <1>9, <1>20
  <1>22. \A b \in DOMAIN v : FitsFrom(x, blk'[b].instrs, v[b], FALSE)
    BY <1>7, <1>21 DEF FitsFrom
  <1>23. Built(x)'
    <2>1. DOMAIN v \subseteq DOMAIN blk' /\ cur' \in DOMAIN v /\ v[cur'] = At + 1 /\ blk'[cur'].instrs = <<>>
      BY <1>3, <1>7, <1>9, <1>21
    <2>2. /\ x.prog = prog' /\ x.open = open' /\ Placed(w, x, v) /\ Later(w, x, "rof")
          /\ \A b \in Nat : x.at[b] = IF b \in DOMAIN v THEN v[b] ELSE w.at[b]
      BY <1>8 DEF Popped
    <2> QED
      BY <1>5, <1>6, <1>9, <1>12, <1>18, <1>19, <1>21, <1>22, <2>1, <2>2, SwitchBuilt
  <1> QED
    BY <1>23

LEMMA EndIfBuilt ==
    ASSUME BuildInv, BuildInv', FlowInv, NEW w, Built(w), EndIf
    PROVE  \E x : Built(x)'
  <1>0. PICK m : m = Len(open)
    OBVIOUS
  <1>1. /\ open # <<>> /\ Last(open).kind \in {"then", "else"} /\ Read("fi", Len(open) - 1)
        /\ phase = "build" /\ cur' = Last(open).exit /\ open' = Front(open)
    BY DEF EndIf, Read
  <1>2. m \in DOMAIN open /\ Last(open) = open[m]
    BY <1>0, <1>1, Innermost
  <1> DEFINE d == <<Br(Exit(m))>>
             c == blk[cur].instrs
  <1>3. /\ open[m].kind \in {"then", "else"} /\ cur' = Exit(m)
        /\ Then(m) <=> open[m].kind = "then"
    BY <1>1, <1>2 DEF Exit, Then
  <1>4. PICK v : v = [b \in {Exit(m)} \cup (IF Then(m) THEN {Other(m)} ELSE {}) |->
                         IF b = Exit(m) THEN At + 1 ELSE At]
    OBVIOUS
  <1>5. "fi" \in Closers /\ "fi" \in Tokens /\ \E closers : Read("fi", closers)
    BY <1>1 DEF Closers, Tokens
  <1>6. At \in Nat \ {0} /\ Reading(w, "fi") /\ Count \in Nat
    <2>1. Reading(w, "fi")
      BY <1>5, BuiltFacts
    <2>2. \A n \in Nat : n + 1 \in Nat \ {0}
      OBVIOUS
    <2> QED
      BY <2>1, <2>2 DEF Reading
  <1>7. /\ DOMAIN v = {Exit(m)} \cup (IF Then(m) THEN {Other(m)} ELSE {})
        /\ v[Exit(m)] = At + 1 /\ \A b \in DOMAIN v : v[b] \in Nat \ {0}
        /\ \A b \in DOMAIN v : b # Exit(m) => v[b] = At
    <2>1. \A n \in Nat : n + 1 \in Nat \ {0}
      OBVIOUS
    <2>2. At + 1 \in Nat \ {0}
      BY <1>6, <2>1, Zenon
    <2> QED
      BY <1>4, <1>6, <2>2
  <1>8. PICK x : Popped(w, x, v, "fi", m)
    BY <1>0, <1>1, <1>5, <1>7, PopLater
  <1>9. /\ DOMAIN blk \subseteq Nat /\ cur \in DOMAIN blk /\ blk[cur].instrs \in Seq(InstrOf(Count))
        /\ Exit(m) \in Nat /\ Other(m) \in Nat /\ Exit(m) \in DOMAIN blk /\ Other(m) \in DOMAIN blk
        /\ Exit(m) # cur /\ blk[Exit(m)].instrs = <<>> /\ Other(m) # Exit(m)
        /\ Then(m) => Other(m) # cur
        /\ w.open[m] = open[m]
    BY <1>1, <1>2, WaitingUnknown
  <1>10. PICK n : n = Len(w.prog)
    OBVIOUS
  <1>11. /\ x.at[Exit(m)] = n + 2 /\ (Then(m) => x.at[Other(m)] = n + 1) /\ n + 1 = At /\ n + 2 = At + 1
         /\ Later(w, x, "fi") /\ m = Deep(w.prog, n) /\ m \in DOMAIN w.open
         /\ \A i \in DOMAIN w.open : i # m => Untouched(w, x, i)
    BY <1>7, <1>8, <1>9, <1>10 DEF Popped
  <1>12. Charted(x) /\ Keeps(w, x)
    <2>1. /\ x.at[w.open[m].exit] = n + 2
          /\ \/ w.open[m].kind = "then" /\ x.at[w.open[m].other] = n + 1
             \/ w.open[m].kind = "else"
      BY <1>3, <1>9, <1>11 DEF Exit, Other
    <2> QED
      BY <1>5, <1>10, <1>11, <2>1, PopCharted
  <1>13. BranchTo(x, At, Exit(m)) /\ At \in 1..Len(x.prog)
    BY <1>8, <1>11 DEF BranchTo, Popped
  <1>18. d \in Seq(InstrOf(Count))
    <2>1. Exit(m) \in 0..(Count - 1) /\ 0 \in 0..(MaxTokens + 1)
      BY <1>2, LabelFacts, BoundsAssumption
    <2> QED
      BY <1>6, <2>1, CodeTypes
  <1>19. \A i \in DOMAIN d : Fits(x, c \o d, Len(c) + i, (At - 1) + i, FALSE)
    BY <1>9, <1>13, <1>18, JumpFits
  <1>14. FitsFrom(x, d, At, FALSE)
    <2>1. /\ <<>> \in Seq(InstrOf(Count)) /\ <<>> \o d = d /\ Len(<<>>) = 0
      <3> HIDE DEF d
      <3> QED
        BY <1>18
    <2>2. \A i \in DOMAIN d : Fits(x, <<>> \o d, Len(<<>>) + i, (At - 1) + i, FALSE)
      BY <1>9, <1>13, <1>18, <2>1, JumpFits
    <2>3. DOMAIN d = {1}
      OBVIOUS
    <2> HIDE DEF d
    <2>4. Fits(x, d, 0 + 1, (At - 1) + 1, FALSE)
      BY <2>1, <2>2, <2>3
    <2>5. 0 + 1 = 1 /\ \A k \in Nat : (k - 1) + 1 = k + 1 - 1
      OBVIOUS
    <2>6. (At - 1) + 1 = At + 1 - 1
      BY <1>6, <2>5
    <2>7. Fits(x, d, 1, At + 1 - 1, FALSE)
      BY <2>4, <2>5, <2>6
    <2> QED
      BY <2>3, <2>7 DEF FitsFrom
  <1>20. /\ DOMAIN blk' = DOMAIN blk
         /\ \A b \in DOMAIN blk : ~(Then(m) /\ b = Other(m)) =>
               blk'[b].instrs = IF b = cur THEN blk[b].instrs \o d ELSE blk[b].instrs
         /\ Then(m) => blk'[Other(m)].instrs = d
    <2> DEFINE joined == Add(cur, d)
    <2>1. blk' = IF Then(m) THEN [joined EXCEPT ![Other(m)].instrs = d] ELSE joined
      BY <1>2, <1>3 DEF EndIf, Exit, Other, Then
    <2>2. /\ DOMAIN joined = DOMAIN blk
          /\ \A b \in DOMAIN blk : joined[b].instrs = IF b = cur THEN blk[b].instrs \o d ELSE blk[b].instrs
      BY AddInstrs
    <2>3. joined \in [0..(Count - 1) -> BlockOf(Count)]
      <3>1. <<>> \in Seq(0..(Count - 1)) /\ Count \in Nat \ {0} /\ cur \in 0..(Count - 1)
        BY LabelFacts
      <3>2. blk \in [0..(Count - 1) -> BlockOf(Count)]
        BY DEF BuildInv
      <3> HIDE DEF d
      <3> QED
        BY <1>18, <3>1, <3>2, EndTypes
    <2> HIDE DEF joined, d
    <2>4. joined[Other(m)] \in BlockOf(Count)
      BY <1>9, <2>2, <2>3
    <2>5. LET b == [joined[Other(m)] EXCEPT !.instrs = d] IN b.instrs = d
      BY <2>4 DEF BlockOf
    <2> QED
      BY <1>9, <2>1, <2>2, <2>5
  <1> HIDE DEF d
  <1>21. /\ blk'[cur].instrs = c \o d
         /\ \A b \in DOMAIN blk : b # cur /\ b \notin DOMAIN v => blk'[b].instrs = blk[b].instrs
         /\ blk'[Exit(m)].instrs = <<>> /\ DOMAIN blk' = DOMAIN blk
    BY <1>7, <1>9, <1>20
  <1>22. \A b \in DOMAIN v : FitsFrom(x, blk'[b].instrs, v[b], FALSE)
    <2> TAKE b \in DOMAIN v
    <2>1. CASE b = Exit(m)
      BY <1>21, <2>1 DEF FitsFrom
    <2>2. CASE b # Exit(m)
      <3>1. Then(m) /\ b = Other(m) /\ v[b] = At
        BY <1>7, <2>2
      <3> QED
        BY <1>14, <1>20, <3>1
    <2> QED
      BY <2>1, <2>2
  <1>23. Built(x)'
    <2>1. DOMAIN v \subseteq DOMAIN blk' /\ cur' \in DOMAIN v /\ v[cur'] = At + 1 /\ blk'[cur'].instrs = <<>>
      BY <1>3, <1>7, <1>9, <1>21
    <2>2. /\ x.prog = prog' /\ x.open = open' /\ Placed(w, x, v) /\ Later(w, x, "fi")
          /\ \A b \in Nat : x.at[b] = IF b \in DOMAIN v THEN v[b] ELSE w.at[b]
      BY <1>8 DEF Popped
    <2> QED
      BY <1>5, <1>6, <1>9, <1>12, <1>18, <1>19, <1>21, <1>22, <2>1, <2>2, SwitchBuilt
  <1> QED
    BY <1>23

(* The chart behind the head of a conditional or loop.                     *)
Pushed(w, x, v, token, m, frame) ==
    /\ x.prog = prog' /\ x.open = open' /\ x.turned = w.turned /\ x.began[m] = At
    /\ Reading(w, token) /\ Placed(w, x, v) /\ Later(w, x, token)
    /\ \A b \in Nat : x.at[b] = IF b \in DOMAIN v THEN v[b] ELSE w.at[b]
    /\ m = Deep(w.prog, Len(w.prog)) + 1 /\ m \in DOMAIN x.open /\ x.open[m] = frame
    /\ \A i \in DOMAIN w.open : /\ x.open[i] = w.open[i] /\ x.began[i] = w.began[i]
                                /\ x.at[w.open[i].exit] = w.at[w.open[i].exit]
                                /\ x.at[w.open[i].other] = w.at[w.open[i].other]
    /\ Len(w.prog) + 1 = At /\ At \in Nat \ {0} /\ At \in 1..Len(x.prog) /\ x.prog[At] = token
    /\ \A b \in Nat : b \notin DOMAIN blk => w.at[b] = 0

LEMMA PushLater ==
    ASSUME BuildInv, FlowInv, NEW w, Built(w), NEW token \in Openers, \E closers : Read(token, closers),
           NEW frame, open' = Append(open, frame), NEW m, m = Len(open) + 1, NEW v,
           DOMAIN v \subseteq Nat, \A b \in DOMAIN v : b \notin DOMAIN blk,
           \A b \in DOMAIN v : v[b] \in Nat \ {0}
    PROVE  \E x : Pushed(w, x, v, token, m, frame)
  <1>1. token \in Tokens /\ Turn(token) = 1
    BY DEF Tokens, Turn, Openers, Closers
  <1>2. Reading(w, token)
    BY <1>1, BuiltFacts
  <1>3. /\ Len(open) \in Nat /\ DOMAIN open = 1..Len(open)
        /\ DOMAIN open' = DOMAIN open \cup {m} /\ m \notin DOMAIN open
        /\ open'[m] = frame /\ \A i \in DOMAIN open : open'[i] = open[i]
    BY Opened, LabelFacts
  <1>4. phase = "build"
    BY <1>2 DEF Reading
  <1>5. /\ DOMAIN blk \subseteq Nat
        /\ \A i \in DOMAIN open : Exit(i) \in DOMAIN blk /\ Other(i) \in DOMAIN blk
    BY <1>4, WaitingUnknown
  <1>6. PICK x : x = [prog |-> prog', open |-> open',
                      at |-> [b \in Nat |-> IF b \in DOMAIN v THEN v[b] ELSE w.at[b]],
                      began |-> [w.began EXCEPT ![m] = At], turned |-> w.turned]
    OBVIOUS
  <1>7. /\ x.prog = prog' /\ x.open = open' /\ x.began = [w.began EXCEPT ![m] = At]
        /\ x.turned = w.turned
        /\ x.at = [b \in Nat |-> IF b \in DOMAIN v THEN v[b] ELSE w.at[b]]
    BY <1>6
  <1>8. /\ Len(prog) \in Nat /\ At = Len(prog) + 1 /\ prog'[At] = token /\ Len(prog') = At
        /\ w.prog = prog /\ w.open = open /\ Len(open) = Deep(prog, Len(prog))
        /\ w.began \in [Nat -> Nat] /\ w.turned \in [Nat -> Nat]
    BY <1>2 DEF Reading
  <1>9. \A b \in Nat : b \notin DOMAIN blk => w.at[b] = 0
    BY DEF Built
  <1>10. Placed(w, x, v)
    BY <1>7, <1>9 DEF Placed
  <1>11. At \in Nat \ {0} /\ At \in 1..Len(x.prog) /\ x.prog[At] = token
    <2>1. \A n \in Nat : n + 1 \in Nat \ {0} /\ n + 1 \in 1..(n + 1)
      OBVIOUS
    <2> QED
      BY <1>7, <1>8, <2>1
  <1>12. m \in Nat /\ DOMAIN open' = 1..m
    BY <1>3
  <1>13. x.began \in [Nat -> Nat] /\ x.began[m] = At /\ \A i \in DOMAIN open : x.began[i] = w.began[i]
    <2>1. \A i \in DOMAIN open : i \in Nat /\ i # m
      BY <1>3
    <2>2. PICK a \in Nat : a = At
      BY <1>11
    <2>3. x.began = [w.began EXCEPT ![m] = a]
      BY <1>7, <2>2
    <2>4. x.began \in [Nat -> Nat] /\ x.began[m] = a /\ \A i \in Nat : i # m => x.began[i] = w.began[i]
      <3>1. PICK g : g = w.began
        OBVIOUS
      <3>2. g \in [Nat -> Nat]
        BY <1>8, <3>1
      <3>3. x.began = [g EXCEPT ![m] = a]
        BY <2>3, <3>1
      <3>4. x.began \in [Nat -> Nat] /\ x.began[m] = a /\ \A i \in Nat : i # m => x.began[i] = g[i]
        BY <1>12, <3>2, <3>3
      <3> QED
        BY <3>1, <3>4
    <2> QED
      BY <2>1, <2>2, <2>4
  <1>14. Later(w, x, token) /\ \A b \in Nat : x.at[b] = IF b \in DOMAIN v THEN v[b] ELSE w.at[b]
    <2>1. /\ Len(open) + Turn(token) \in Nat /\ DOMAIN open' = 1..(Len(open) + Turn(token))
          /\ x.turned \in [Nat -> Nat]
      BY <1>1, <1>7, <1>8, <1>12
    <2>2. x.prog = prog' /\ x.open = open' /\ x.began \in [Nat -> Nat] /\ token \in Tokens
      BY <1>1, <1>7, <1>13
    <2> DEFINE Is(b) == x.at[b] = IF b \in DOMAIN v THEN v[b] ELSE w.at[b]
    <2>3. Later(w, x, token)
      <3>1. Deeper(x, token)
        BY <2>1, <2>2 DEF Deeper
      <3> QED
        BY <1>2, <1>10, <2>2, <3>1, PlacedLater
    <2>4. \A b \in Nat : Is(b)
      BY <1>7
    <2> QED
      BY <2>3, <2>4
  <1>15. ASSUME NEW i \in DOMAIN w.open
         PROVE  /\ x.open[i] = w.open[i] /\ x.began[i] = w.began[i]
                /\ x.at[w.open[i].exit] = w.at[w.open[i].exit]
                /\ x.at[w.open[i].other] = w.at[w.open[i].other]
    <2>1. i \in DOMAIN open
      BY <1>8
    <2>2. x.open[i] = w.open[i] /\ x.began[i] = w.began[i]
      BY <1>3, <1>7, <1>8, <1>13, <2>1
    <2>3. Exit(i) \notin DOMAIN v /\ Other(i) \notin DOMAIN v /\ Exit(i) \in Nat /\ Other(i) \in Nat
      BY <1>5, <2>1
    <2>4. x.at[Exit(i)] = w.at[Exit(i)] /\ x.at[Other(i)] = w.at[Other(i)]
      BY <1>14, <2>3
    <2> QED
      BY <1>8, <2>2, <2>4 DEF Exit, Other
  <1>16. m = Deep(w.prog, Len(w.prog)) + 1 /\ m \in DOMAIN x.open /\ x.open[m] = frame
    BY <1>3, <1>7, <1>8
  <1>17. Len(w.prog) + 1 = At
    BY <1>8
  <1> QED
    BY <1>2, <1>7, <1>9, <1>10, <1>11, <1>13, <1>14, <1>15, <1>16, <1>17 DEF Pushed

LEMMA FromStart ==
    ASSUME NEW x, NEW S, NEW d \in Seq(S), NEW k \in Nat,
           \A i \in DOMAIN d : Fits(x, <<>> \o d, Len(<<>>) + i, (k - 1) + i, FALSE)
    PROVE  FitsFrom(x, d, k, FALSE)
  <1>1. <<>> \o d = d /\ Len(<<>>) = 0 /\ DOMAIN d \subseteq Nat
    OBVIOUS
  <1>2. ASSUME NEW i \in DOMAIN d PROVE Fits(x, d, i, k + i - 1, FALSE)
    <2>1. i \in Nat
      BY <1>1
    <2>2. 0 + i = i /\ (k - 1) + i = k + i - 1
      BY <2>1
    <2>3. Fits(x, <<>> \o d, Len(<<>>) + i, (k - 1) + i, FALSE)
      OBVIOUS
    <2> QED
      BY <1>1, <2>2, <2>3
  <1> QED
    BY <1>2 DEF FitsFrom

LEMMA OpenIfBuilt ==
    ASSUME BuildInv, BuildInv', FlowInv, NEW w, Built(w), OpenIf
    PROVE  \E x : Built(x)'
  <1>0. PICK t : t = Count
    OBVIOUS
  <1>1. Read("if", Len(open) + 1) /\ phase = "build" /\ t \in Nat \ {0} /\ DOMAIN blk = 0..(t - 1)
        /\ cur \in DOMAIN blk /\ blk[cur].instrs \in Seq(InstrOf(t)) /\ Len(open) \in Nat
    BY <1>0, LabelFacts DEF OpenIf, Read
  <1> DEFINE f == t + 1
             exit == t + 2
             code == <<Code(At), BrCond(At, t, f)>>
             next == <<t, f>>
             inherited == blk[cur].forExit
             linked == EndInto(cur, code, next)
             new == [b \in {t, f, exit} |->
                        IF b = exit THEN NewBlock({t, f}, <<>>, inherited)
                        ELSE NewBlock({cur}, <<exit>>, inherited)]
             frame == [kind |-> "then", exit |-> exit, other |-> f,
                       outer |-> returns, then |-> FALSE]
             c == blk[cur].instrs
  <1>3. /\ blk' = AddBlocks(linked, new) /\ cur' = t /\ open' = Append(open, frame)
    BY <1>0 DEF OpenIf, Count
  <1>4. /\ t \in 0..((t + 3) - 1) /\ f \in 0..((t + 3) - 1) /\ t + 3 \in Nat /\ t <= t + 3
        /\ f \in Nat /\ exit \in Nat /\ t # f /\ t # exit /\ f # exit
        /\ \A b \in {t, f, exit} : b \in Nat /\ b \notin DOMAIN blk
    BY <1>1
  <1>5. PICK v : v = [b \in {t} |-> At + 1]
    OBVIOUS
  <1>6. PICK m : m = Len(open) + 1
    OBVIOUS
  <1>7. "if" \in Openers /\ "if" \in Tokens /\ \E closers : Read("if", closers)
    BY <1>1 DEF Openers, Tokens
  <1>8. At \in 0..(MaxTokens + 1) /\ Reading(w, "if") /\ At \in Nat
    <2>1. Reading(w, "if")
      BY <1>7, BuiltFacts
    <2>2. \A n \in Nat : n + 1 \in Nat
      OBVIOUS
    <2> QED
      BY <2>1, <2>2 DEF Reading
  <1>9. DOMAIN v = {t} /\ v[t] = At + 1 /\ \A b \in DOMAIN v : v[b] \in Nat \ {0}
    <2>1. \A n \in Nat : n + 1 \in Nat \ {0}
      OBVIOUS
    <2>2. At + 1 \in Nat \ {0}
      BY <1>8, <2>1, Zenon
    <2> QED
      BY <1>5, <2>2
  <1>10. frame.exit = exit /\ frame.other = f /\ frame.kind = "then"
    OBVIOUS
  <1> HIDE DEF frame
  <1>11. PICK x : Pushed(w, x, v, "if", m, frame)
    <2>1. /\ DOMAIN v \subseteq Nat /\ \A b \in DOMAIN v : b \notin DOMAIN blk
      BY <1>1, <1>4, <1>9
    <2> QED
      BY <1>3, <1>6, <1>7, <1>9, <2>1, PushLater
  <1>12. PICK n : n = Len(w.prog)
    OBVIOUS
  <1>13. /\ x.open[m] = frame /\ m \in DOMAIN x.open /\ x.began[m] = At /\ n + 1 = At
         /\ x.at[t] = At + 1 /\ x.at[f] = 0 /\ x.at[exit] = 0
         /\ Later(w, x, "if") /\ m = Deep(w.prog, n) + 1
    BY <1>1, <1>4, <1>9, <1>11, <1>12 DEF Pushed
  <1>14. Charted(x) /\ Keeps(w, x)
    <2>1. /\ \A i \in DOMAIN w.open : x.open[i] = w.open[i] /\ x.began[i] = w.began[i]
          /\ x.turned = w.turned /\ x.began[m] = n + 1
          /\ \A i \in DOMAIN w.open : /\ x.at[w.open[i].exit] = w.at[w.open[i].exit]
                                      /\ x.at[w.open[i].other] = w.at[w.open[i].other]
      BY <1>11, <1>12, <1>13 DEF Pushed
    <2>2. x.at[x.open[m].exit] = 0 /\ x.open[m].kind = "then" /\ x.at[x.open[m].other] = 0
      BY <1>10, <1>13
    <2> QED
      BY <1>7, <1>12, <1>13, <2>1, <2>2, PushCharted
  <1>15. code \in Seq(InstrOf(t + 3)) /\ c \in Seq(InstrOf(t + 3))
    <2>1. code \in Seq(InstrOf(t + 3))
      BY <1>4, <1>8, CodeTypes
    <2>2. InstrOf(t) \subseteq InstrOf(t + 3)
      BY <1>1, <1>4, InstrGrows
    <2> HIDE DEF code
    <2> QED
      BY <1>1, <2>1, <2>2, SeqMonotonic
  <1>16. IfTo(x, At, f)
    <2>1. IfBy(x, m, At, f)
      BY <1>10, <1>13 DEF IfBy
    <2> QED
      BY <1>13, <2>1 DEF IfTo
  <1>17. \A i \in DOMAIN code : Fits(x, c \o code, Len(c) + i, (At - 1) + i, FALSE)
    <2>1. At \in 1..Len(x.prog) /\ x.prog[At] = "if"
      BY <1>11 DEF Pushed
    <2> HIDE DEF f, c
    <2> QED
      BY <1>4, <1>1, <1>13, <1>15, <1>16, <2>1, TestFits
  <1>18. /\ DOMAIN linked = DOMAIN blk
         /\ \A b \in DOMAIN blk : linked[b].instrs = IF b = cur THEN blk[b].instrs \o code ELSE blk[b].instrs
    BY AddInstrs
  <1>19. /\ DOMAIN new = {t, f, exit} /\ \A b \in {t, f, exit} : new[b].instrs = <<>>
    BY <1>4 DEF NewBlock
  <1> HIDE DEF linked, new, code, next
  <1>20. /\ DOMAIN blk' = DOMAIN blk \cup {t, f, exit}
         /\ \A b \in DOMAIN blk : blk'[b].instrs = IF b = cur THEN blk[b].instrs \o code ELSE blk[b].instrs
         /\ \A b \in {t, f, exit} : blk'[b].instrs = <<>>
    BY <1>3, <1>4, <1>18, <1>19 DEF AddBlocks
  <1>21. \A b \in DOMAIN v : FitsFrom(x, blk'[b].instrs, v[b], FALSE)
    BY <1>9, <1>20 DEF FitsFrom
  <1>22. Built(x)'
    <2>3. \A b \in DOMAIN blk : b \in Nat
      BY <1>1
    <2>4. DOMAIN blk \subseteq DOMAIN blk' /\ DOMAIN v \subseteq DOMAIN blk' /\ DOMAIN blk' \subseteq Nat
      BY <1>4, <1>9, <1>20, <2>3
    <2>5. blk'[cur].instrs = c \o code
      BY <1>1, <1>20
    <2>6. \A b \in DOMAIN blk : b # cur /\ b \notin DOMAIN v => blk'[b].instrs = blk[b].instrs
      BY <1>20
    <2>7. \A b \in DOMAIN blk' : b \notin DOMAIN blk /\ b \notin DOMAIN v => blk'[b].instrs = <<>>
      BY <1>20
    <2>8. cur' \in DOMAIN v /\ v[cur'] = At + 1 /\ blk'[cur'].instrs = <<>>
      BY <1>3, <1>9, <1>20
    <2>2. /\ x.prog = prog' /\ x.open = open' /\ Placed(w, x, v) /\ Later(w, x, "if")
          /\ \A b \in Nat : x.at[b] = IF b \in DOMAIN v THEN v[b] ELSE w.at[b]
      BY <1>11 DEF Pushed
    <2> QED
      BY <1>7, <1>8, <1>14, <1>15, <1>17, <1>21, <2>2, <2>4, <2>5, <2>6, <2>7, <2>8, SwitchBuilt
  <1> QED
    BY <1>22

LEMMA OpenLoopBuilt ==
    ASSUME BuildInv, BuildInv', FlowInv, NEW w, Built(w), OpenLoop
    PROVE  \E x : Built(x)'
  <1>0. PICK e : e = Count
    OBVIOUS
  <1>1. Read("for", Len(open) + 1) /\ phase = "build" /\ e \in Nat \ {0} /\ DOMAIN blk = 0..(e - 1)
        /\ cur \in DOMAIN blk /\ blk[cur].instrs \in Seq(InstrOf(e)) /\ Len(open) \in Nat
    BY <1>0, LabelFacts DEF OpenLoop, Read
  <1> DEFINE first == e + 1
             exit == e + 2
             code == <<Code(At), BrCond(At, first, exit)>>
             jump == <<Br(e)>>
             next == <<e>>
             entry == [NewBlock({}, <<first, exit>>, exit) EXCEPT !.instrs = code]
             linked == EndInto(cur, jump, next)
             new == [b \in {e, first, exit} |->
                        CASE b = e -> entry
                          [] b = first -> NewBlock({e}, <<e>>, exit)
                          [] b = exit -> NewBlock({e}, <<>>, NoBlock)]
             frame == [kind |-> "loop", exit |-> exit, other |-> e,
                       outer |-> returns, then |-> FALSE]
             c == blk[cur].instrs
  <1>3. blk' = AddBlocks(linked, new) /\ cur' = first /\ open' = Append(open, frame)
    BY <1>0 DEF OpenLoop, Count
  <1>4. /\ e \in 0..((e + 3) - 1) /\ first \in 0..((e + 3) - 1) /\ exit \in 0..((e + 3) - 1)
        /\ e + 3 \in Nat /\ e <= e + 3
        /\ e \in Nat /\ first \in Nat /\ exit \in Nat /\ e # first /\ e # exit /\ first # exit
        /\ \A b \in {e, first, exit} : b \in Nat /\ b \notin DOMAIN blk
    BY <1>1
  <1>5. PICK v : v = [b \in {e, first} |-> IF b = e THEN At ELSE At + 1]
    OBVIOUS
  <1>6. PICK m : m = Len(open) + 1
    OBVIOUS
  <1>7. "for" \in Openers /\ "for" \in Tokens /\ \E closers : Read("for", closers)
    BY <1>1 DEF Openers, Tokens
  <1>8. At \in 0..(MaxTokens + 1) /\ Reading(w, "for") /\ At \in Nat \ {0}
    <2>1. Reading(w, "for")
      BY <1>7, BuiltFacts
    <2>2. \A n \in Nat : n + 1 \in Nat \ {0}
      OBVIOUS
    <2> QED
      BY <2>1, <2>2 DEF Reading
  <1>9. DOMAIN v = {e, first} /\ v[e] = At /\ v[first] = At + 1 /\ \A b \in DOMAIN v : v[b] \in Nat \ {0}
    <2>1. \A n \in Nat : n + 1 \in Nat \ {0}
      OBVIOUS
    <2>2. At + 1 \in Nat \ {0}
      BY <1>8, <2>1, Zenon
    <2> QED
      BY <1>4, <1>5, <1>8, <2>2
  <1>10. frame.exit = exit /\ frame.other = e /\ frame.kind = "loop"
    OBVIOUS
  <1> HIDE DEF frame
  <1>11. PICK x : Pushed(w, x, v, "for", m, frame)
    <2>1. /\ DOMAIN v \subseteq Nat /\ \A b \in DOMAIN v : b \notin DOMAIN blk
      BY <1>1, <1>4, <1>9
    <2> QED
      BY <1>3, <1>6, <1>7, <1>9, <2>1, PushLater
  <1>12. PICK n : n = Len(w.prog)
    OBVIOUS
  <1>13. /\ x.open[m] = frame /\ m \in DOMAIN x.open /\ x.began[m] = At /\ n + 1 = At
         /\ x.at[e] = At /\ x.at[first] = At + 1 /\ x.at[exit] = 0
         /\ Later(w, x, "for") /\ m = Deep(w.prog, n) + 1
    BY <1>1, <1>4, <1>9, <1>11, <1>12 DEF Pushed
  <1>14. Charted(x) /\ Keeps(w, x)
    <2>1. /\ \A i \in DOMAIN w.open : x.open[i] = w.open[i] /\ x.began[i] = w.began[i]
          /\ x.turned = w.turned /\ x.began[m] = n + 1
          /\ \A i \in DOMAIN w.open : /\ x.at[w.open[i].exit] = w.at[w.open[i].exit]
                                      /\ x.at[w.open[i].other] = w.at[w.open[i].other]
      BY <1>11, <1>12, <1>13 DEF Pushed
    <2>2. x.at[x.open[m].exit] = 0 /\ x.open[m].kind = "loop" /\ x.at[x.open[m].other] = n + 1
      BY <1>10, <1>13
    <2> QED
      BY <1>7, <1>12, <1>13, <2>1, <2>2, PushCharted
  <1>15. /\ code \in Seq(InstrOf(e + 3)) /\ c \in Seq(InstrOf(e + 3)) /\ jump \in Seq(InstrOf(e + 3))
    <2>1. code \in Seq(InstrOf(e + 3)) /\ jump \in Seq(InstrOf(e + 3))
      BY <1>4, <1>8, CodeTypes
    <2>2. InstrOf(e) \subseteq InstrOf(e + 3)
      BY <1>1, <1>4, InstrGrows
    <2> HIDE DEF code, jump
    <2> QED
      BY <1>1, <2>1, <2>2, SeqMonotonic
  <1>16. ForTo(x, At, exit) /\ BranchTo(x, At, e) /\ At \in 1..Len(x.prog) /\ x.prog[At] = "for"
    <2>1. ForBy(x, m, At, exit)
      BY <1>10, <1>13 DEF ForBy
    <2>2. At \in 1..Len(x.prog) /\ x.prog[At] = "for"
      BY <1>11 DEF Pushed
    <2> QED
      BY <1>13, <2>1, <2>2 DEF ForTo, BranchTo
  <1>17. \A i \in DOMAIN jump : Fits(x, c \o jump, Len(c) + i, (At - 1) + i, FALSE)
    <2> HIDE DEF c
    <2> QED
      BY <1>4, <1>15, <1>16, JumpFits
  <1>171. FitsFrom(x, code, At, FALSE)
    <2>1. <<>> \in Seq(InstrOf(e + 3))
      OBVIOUS
    <2> HIDE DEF first, exit
    <2>2. \A i \in DOMAIN code : Fits(x, <<>> \o code, Len(<<>>) + i, (At - 1) + i, FALSE)
      BY <1>4, <1>13, <1>15, <1>16, <2>1, TestFits
    <2> HIDE DEF code
    <2> QED
      BY <1>8, <1>15, <2>2, FromStart
  <1>18. /\ DOMAIN linked = DOMAIN blk
         /\ \A b \in DOMAIN blk : linked[b].instrs = IF b = cur THEN blk[b].instrs \o jump ELSE blk[b].instrs
    BY AddInstrs
  <1>19. /\ DOMAIN new = {e, first, exit} /\ new[e].instrs = code
         /\ new[first].instrs = <<>> /\ new[exit].instrs = <<>>
    <2> HIDE DEF code
    <2> QED
      BY <1>4 DEF NewBlock
  <1> HIDE DEF linked, new, code, next, jump
  <1>20. /\ DOMAIN blk' = DOMAIN blk \cup {e, first, exit}
         /\ \A b \in DOMAIN blk : blk'[b].instrs = IF b = cur THEN blk[b].instrs \o jump ELSE blk[b].instrs
         /\ blk'[e].instrs = code /\ blk'[first].instrs = <<>> /\ blk'[exit].instrs = <<>>
    BY <1>3, <1>4, <1>18, <1>19 DEF AddBlocks
  <1>21. \A b \in DOMAIN v : FitsFrom(x, blk'[b].instrs, v[b], FALSE)
    <2>1. FitsFrom(x, blk'[first].instrs, v[first], FALSE)
      BY <1>20 DEF FitsFrom
    <2> QED
      BY <1>9, <1>20, <1>171, <2>1
  <1>22. Built(x)'
    <2>3. \A b \in DOMAIN blk : b \in Nat
      BY <1>1
    <2>4. DOMAIN blk \subseteq DOMAIN blk' /\ DOMAIN v \subseteq DOMAIN blk' /\ DOMAIN blk' \subseteq Nat
      BY <1>4, <1>9, <1>20, <2>3
    <2>5. blk'[cur].instrs = c \o jump
      BY <1>1, <1>20
    <2>6. \A b \in DOMAIN blk : b # cur /\ b \notin DOMAIN v => blk'[b].instrs = blk[b].instrs
      BY <1>20
    <2>7. \A b \in DOMAIN blk' : b \notin DOMAIN blk /\ b \notin DOMAIN v => blk'[b].instrs = <<>>
      BY <1>9, <1>20
    <2>8. cur' \in DOMAIN v /\ v[cur'] = At + 1 /\ blk'[cur'].instrs = <<>>
      BY <1>3, <1>9, <1>20
    <2>2. /\ x.prog = prog' /\ x.open = open' /\ Placed(w, x, v) /\ Later(w, x, "for")
          /\ \A b \in Nat : x.at[b] = IF b \in DOMAIN v THEN v[b] ELSE w.at[b]
      BY <1>11 DEF Pushed
    <2> QED
      BY <1>7, <1>8, <1>14, <1>15, <1>17, <1>21, <2>2, <2>4, <2>5, <2>6, <2>7, <2>8, SwitchBuilt
  <1> QED
    BY <1>22

-----------------------------------------------------------------------------
(* Behind the last statement.                                              *)

LEMMA FitsFinished ==
    ASSUME NEW w, NEW c, NEW k, FitsFrom(w, c, k, FALSE)
    PROVE  FitsFrom(w, c, k, TRUE)
  <1>1. ASSUME NEW j, NEW i, Fits(w, c, j, i, FALSE) PROVE Fits(w, c, j, i, TRUE)
    <2>1. FitsRet(w, c, j, i, FALSE) => FitsRet(w, c, j, i, TRUE)
      BY DEF FitsRet
    <2> QED
      BY <1>1, <2>1 DEF Fits
  <1> QED
    BY <1>1 DEF FitsFrom

LEMMA FitsTruncated ==
    ASSUME NEW w, NEW S, NEW c \in Seq(S), NEW k, FitsFrom(w, c, k, TRUE)
    PROVE  FitsFrom(w, Truncate(c), k, TRUE)
  <1>1. CASE FirstTerminator(c) = {}
    BY <1>1 DEF Truncate
  <1>2. CASE FirstTerminator(c) # {}
    <2>1. PICK i \in FirstTerminator(c) : TRUE
      BY <1>2
    <2>2. PICK d : d = Truncate(c)
      OBVIOUS
    <2>3. /\ i \in 1..Len(c) /\ d \in Seq(S) /\ Len(d) = i
          /\ \A j \in 1..i : d[j] = c[j]
      BY <2>1, <2>2, TruncateEnds
    <2>4. DOMAIN d = 1..i /\ DOMAIN c = 1..Len(c) /\ Len(c) \in Nat /\ i \in Nat
      BY <2>3, LenProperties
    <2> SUFFICES ASSUME NEW j \in DOMAIN d PROVE Fits(w, d, j, k + j - 1, TRUE)
      BY <2>2 DEF FitsFrom
    <2>5. j \in 1..i /\ j \in DOMAIN c /\ d[j] = c[j]
      BY <2>3, <2>4
    <2>6. Fits(w, c, j, k + j - 1, TRUE)
      BY <2>5 DEF FitsFrom
    <2>7. \A l \in 1..(i - 1) : ~IsTerminator(c[l])
      BY <2>1 DEF FirstTerminator
    <2>8. IsTerminator(c[i])
      BY <2>1 DEF FirstTerminator
    <2>9. CASE FitsCode(w, c, j, k + j - 1)
      <3>1. ~IsTerminator(c[j])
        BY <2>9 DEF FitsCode, Code, IsTerminator
      <3>2. j # i
        BY <2>8, <3>1
      <3>3. j + 1 \in 1..i
        BY <2>4, <2>5, <3>2
      <3>4. j + 1 \in DOMAIN d /\ d[j + 1] = c[j + 1]
        BY <2>3, <2>4, <3>3
      <3>5. FitsCode(w, d, j, k + j - 1)
        BY <2>5, <2>9, <3>4 DEF FitsCode
      <3> QED
        BY <3>5 DEF Fits
    <2>10. CASE FitsRet(w, c, j, k + j - 1, TRUE)
      <3>1. FitsRet(w, d, j, k + j - 1, TRUE)
        BY <2>5, <2>10 DEF FitsRet
      <3> QED
        BY <3>1 DEF Fits
    <2>11. CASE FitsBr(w, c, j, k + j - 1)
      <3>1. FitsBr(w, d, j, k + j - 1)
        BY <2>5, <2>11 DEF FitsBr
      <3> QED
        BY <3>1 DEF Fits
    <2>12. CASE FitsBrCond(w, c, j, k + j - 1)
      <3>1. IsTerminator(c[j]) /\ j = Len(c)
        BY <2>12 DEF FitsBrCond, BrCond, IsTerminator
      <3>2. ~(j \in 1..(i - 1))
        BY <2>7, <3>1
      <3>3. j = Len(d)
        BY <2>3, <2>4, <2>5, <3>2
      <3>4. FitsBrCond(w, d, j, k + j - 1)
        BY <2>5, <2>12, <3>3 DEF FitsBrCond
      <3> QED
        BY <3>4 DEF Fits
    <2> QED
      BY <2>6, <2>9, <2>10, <2>11, <2>12 DEF Fits
  <1> QED
    BY <1>1, <1>2

LEMMA FinalFits ==
    ASSUME BuildInv, phase = "build", NEW w, Built(w)
    PROVE  /\ DOMAIN WithFinalReturn = DOMAIN blk
           /\ \A b \in DOMAIN blk : w.at[b] = 0 \/ FitsFrom(w, WithFinalReturn[b].instrs, w.at[b], TRUE)
           /\ \A b \in DOMAIN blk : WithFinalReturn[b].instrs \in Seq(InstrOf(Count))
           /\ WithFinalReturn \in [DOMAIN blk -> BlockOf(Count)]
  <1>1. /\ WithFinalReturn \in [DOMAIN blk -> BlockOf(Count)]
        /\ \A b \in DOMAIN blk : WithFinalReturn[b].instrs \in Seq(InstrOf(Count))
    <2>1. WithFinalReturn \in [0..(Count - 1) -> BlockOf(Count)] /\ DOMAIN blk = 0..(Count - 1)
      BY FinalReturnTypes, LabelFacts
    <2> QED
      BY <2>1 DEF BlockOf
  <1>2. /\ w.prog = prog /\ w.at \in [Nat -> Nat]
        /\ \A b \in DOMAIN blk : w.at[b] # 0 => FitsFrom(w, blk[b].instrs, w.at[b], FALSE)
        /\ w.at[cur] # 0 /\ w.at[cur] + Len(blk[cur].instrs) = Len(prog) + 1
        /\ Straight(blk[cur].instrs)
    BY DEF Built, Charted
  <1>3. cur \in DOMAIN blk /\ DOMAIN blk \subseteq Nat /\ blk[cur].instrs \in Seq(InstrOf(Count))
        /\ 0 \in 0..(Count - 1) /\ Count \in Nat
    BY LabelFacts
  <1>4. CASE ~void
    <2>1. WithFinalReturn = blk
      BY <1>4 DEF WithFinalReturn
    <2> QED
      BY <1>1, <1>2, <2>1, FitsFinished
  <1>5. CASE void
    <2> DEFINE d == <<Ret(At)>>
               c == blk[cur].instrs
    <2>1. At \in 0..(MaxTokens + 1) /\ Len(prog) \in Nat /\ At = Len(prog) + 1
      BY BoundsAssumption DEF BuildInv, At
    <2>2. d \in Seq(InstrOf(Count)) /\ DOMAIN d = {1} /\ d[1] = Ret(At) /\ Len(d) = 1
      BY <1>3, <2>1, CodeTypes
    <2>3. /\ DOMAIN WithFinalReturn = DOMAIN blk
          /\ \A b \in DOMAIN blk : WithFinalReturn[b].instrs = IF b = cur THEN blk[b].instrs \o d ELSE blk[b].instrs
      BY <1>5, AddInstrs DEF WithFinalReturn
    <2> HIDE DEF d, c
    <2>4. PICK m : m = Len(c)
      OBVIOUS
    <2>5. /\ m \in Nat /\ DOMAIN (c \o d) = 1..(m + 1) /\ (c \o d)[m + 1] = Ret(At)
          /\ \A j \in 1..m : (c \o d)[j] = c[j]
          /\ DOMAIN c = 1..m
      <3>1. /\ DOMAIN (c \o d) = 1..(Len(c) + Len(d)) /\ Len(c) \in Nat
            /\ \A j \in 1..Len(c) : (c \o d)[j] = c[j]
            /\ \A j \in 1..Len(d) : (c \o d)[Len(c) + j] = d[j]
        BY <1>3, <2>2, Behind DEF c
      <3>2. 1 \in 1..Len(d) /\ DOMAIN c = 1..Len(c)
        BY <1>3, <2>2, LenProperties DEF c
      <3> QED
        BY <2>2, <2>4, <3>1, <3>2
    <2>6. PICK a \in Nat : a = w.at[cur]
      BY <1>2, <1>3
    <2>7. a + m = At
      BY <1>2, <2>1, <2>4, <2>6 DEF c
    <2>8. FitsFrom(w, c, a, TRUE) /\ Straight(c)
      BY <1>2, <1>3, <2>6, FitsFinished DEF c
    <2>9. FitsFrom(w, c \o d, a, TRUE)
      <3> SUFFICES ASSUME NEW j \in DOMAIN (c \o d) PROVE Fits(w, c \o d, j, a + j - 1, TRUE)
        BY DEF FitsFrom
      <3>1. CASE j \in 1..m
        <4>1. Fits(w, c, j, a + j - 1, TRUE) /\ c[j].op \in {"Code", "Ret"} /\ (c \o d)[j] = c[j]
          BY <2>5, <2>8, <3>1 DEF FitsFrom, Straight
        <4>2. j + 1 \in DOMAIN c => j + 1 \in DOMAIN (c \o d) /\ (c \o d)[j + 1] = c[j + 1]
          <5> SUFFICES ASSUME j + 1 \in DOMAIN c
                       PROVE  j + 1 \in DOMAIN (c \o d) /\ (c \o d)[j + 1] = c[j + 1]
            OBVIOUS
          <5>1. j + 1 \in 1..m /\ j + 1 \in 1..(m + 1)
            BY <2>5
          <5> QED
            BY <2>5, <5>1
        <4> QED
          BY <4>1, <4>2, FitsLonger
      <3>2. CASE j \notin 1..m
        <4>1. j = m + 1 /\ a + j - 1 = At
          BY <2>5, <2>7, <3>2
        <4>2. FitsRet(w, c \o d, j, At, TRUE)
          BY <1>2, <2>1, <2>5, <4>1 DEF FitsRet
        <4> QED
          BY <4>1, <4>2 DEF Fits
      <3> QED
        BY <3>1, <3>2
    <2>10. ASSUME NEW b \in DOMAIN blk, w.at[b] # 0
           PROVE  FitsFrom(w, WithFinalReturn[b].instrs, w.at[b], TRUE)
      <3>1. CASE b = cur
        BY <1>3, <2>3, <2>6, <2>9, <3>1 DEF c
      <3>2. CASE b # cur
        BY <1>2, <2>3, <2>10, <3>2, FitsFinished
      <3> QED
        BY <3>1, <3>2
    <2> QED
      BY <1>1, <2>3, <2>10
  <1> QED
    BY <1>4, <1>5

LEMMA FinishCharted ==
    ASSUME BuildInv, BuildInv', ChartInv, FinishOptimized \/ FinishPlain
    PROVE  ChartInv'
  <1>1. phase = "build" /\ phase' \in {"prune", "done"} /\ open = <<>> /\ UNCHANGED source
        /\ UNCHANGED open
    BY DEF FinishOptimized, FinishPlain
  <1>2. PICK w : Built(w)
    BY <1>1 DEF ChartInv
  <1> DEFINE final == WithFinalReturn
  <1>3. /\ final \in [DOMAIN blk -> BlockOf(Count)]
        /\ \A b \in DOMAIN blk : w.at[b] = 0 \/ FitsFrom(w, final[b].instrs, w.at[b], TRUE)
        /\ \A b \in DOMAIN blk : final[b].instrs \in Seq(InstrOf(Count))
    BY <1>1, <1>2, FinalFits
  <1> HIDE DEF final
  <1>4. /\ DOMAIN blk' = DOMAIN blk
        /\ \A b \in DOMAIN blk : \/ blk'[b].instrs = Truncate(final[b].instrs)
                                 \/ blk'[b].instrs = final[b].instrs
                                 \/ blk'[b].instrs = <<Br(b)>>
    <2>1. CASE FinishOptimized
      <3>1. blk' = [b \in DOMAIN blk |-> [final[b] EXCEPT !.instrs = Truncate(final[b].instrs)]]
        BY <1>3, <2>1 DEF FinishOptimized, BlockOf, final
      <3>2. \A b \in DOMAIN blk : blk'[b].instrs = Truncate(final[b].instrs)
        BY <1>3, <3>1 DEF BlockOf
      <3> QED
        BY <3>1, <3>2
    <2>2. CASE FinishPlain
      <3>1. blk' = [b \in DOMAIN blk |->
                      IF final[b].instrs = <<>> THEN [final[b] EXCEPT !.instrs = <<Br(b)>>]
                      ELSE final[b]]
        BY <2>2 DEF FinishPlain, final
      <3>2. ASSUME NEW b \in DOMAIN blk
            PROVE  blk'[b].instrs = final[b].instrs \/ blk'[b].instrs = <<Br(b)>>
        <4>1. final[b] \in BlockOf(Count)
          BY <1>3
        <4>2. \A c : [final[b] EXCEPT !.instrs = c].instrs = c
          BY <4>1 DEF BlockOf
        <4> QED
          BY <3>1, <4>2
      <3> QED
        BY <3>1, <3>2
    <2> QED
      BY <2>1, <2>2
  <1>5. \A b \in DOMAIN blk : \/ w.at[b] = 0 \/ blk'[b].instrs = <<Br(b)>>
                              \/ FitsFrom(w, blk'[b].instrs, w.at[b], TRUE)
    BY <1>3, <1>4, FitsTruncated
  <1>6. w.prog = prog /\ w.open = <<>> /\ Charted(w) /\ w.at[Entry] = 1
    BY <1>1, <1>2 DEF Built
  <1>7. Finished(w)'
    BY <1>1, <1>4, <1>5, <1>6 DEF Finished, source
  <1> QED
    BY <1>1, <1>7 DEF ChartInv

LEMMA InitCharted ==
    ASSUME Init
    PROVE  ChartInv
  <1>1. /\ DOMAIN blk = {Entry} /\ blk[Entry].instrs = <<>> /\ cur = Entry /\ Entry \in Nat
        /\ open = <<>> /\ DOMAIN open = {} /\ phase = "build" /\ prog = <<>> /\ Len(prog) = 0
    BY DEF Init, NewBlock, Entry
  <1>2. PICK w : w = [prog |-> prog, open |-> open, at |-> [b \in Nat |-> IF b = Entry THEN 1 ELSE 0],
                      began |-> [i \in Nat |-> 0], turned |-> [i \in Nat |-> 0]]
    OBVIOUS
  <1>3. /\ w.prog = prog /\ w.open = open /\ w.at = [b \in Nat |-> IF b = Entry THEN 1 ELSE 0]
        /\ w.began = [i \in Nat |-> 0] /\ w.turned = [i \in Nat |-> 0]
    BY <1>2
  <1>4. Deep(prog, 0) = 0
    BY DeepStep
  <1>5. /\ w.at \in [Nat -> Nat] /\ w.began \in [Nat -> Nat] /\ w.turned \in [Nat -> Nat]
        /\ w.at[Entry] = 1 /\ \A b \in Nat : b # Entry => w.at[b] = 0
    BY <1>1, <1>3
  <1>6. Charted(w)
    <2>1. w.prog \in Seq(Tokens) /\ 1..0 = {} /\ DOMAIN w.open = {} /\ Len(w.prog) = 0
      BY <1>1, <1>3
    <2> QED
      BY <1>1, <1>3, <1>4, <1>5, <2>1 DEF Charted
  <1>7. w.at[cur] + Len(blk[cur].instrs) = Len(prog) + 1 /\ Straight(blk[cur].instrs)
        /\ FitsFrom(w, blk[cur].instrs, w.at[cur], FALSE)
    <2>1. w.at[cur] = 1 /\ Len(blk[cur].instrs) = 0 /\ DOMAIN blk[cur].instrs = {}
      BY <1>1, <1>5
    <2>2. w.at[cur] + Len(blk[cur].instrs) = Len(prog) + 1
      BY <1>1, <2>1
    <2> QED
      BY <2>1, <2>2 DEF Straight, FitsFrom
  <1>8. Built(w)
    <2>1. w.at[cur] # 0 /\ w.at[Entry] # 0
      BY <1>1, <1>5
    <2>2. \A b \in DOMAIN blk : IF w.at[b] = 0 THEN blk[b].instrs = <<>>
                              ELSE FitsFrom(w, blk[b].instrs, w.at[b], FALSE)
      BY <1>1, <1>7
    <2>3. \A b \in Nat : b \notin DOMAIN blk => w.at[b] = 0
      BY <1>1, <1>5
    <2> QED
      BY <1>3, <1>5, <1>6, <1>7, <2>1, <2>2, <2>3 DEF Built
  <1> QED
    BY <1>1, <1>8 DEF ChartInv

LEMMA ChartStep ==
    ASSUME BuildInv, BuildInv', FlowInv, ChartInv, [Next]_vars
    PROVE  ChartInv'
  <1>1. CASE Statement \/ Return \/ OpenIf \/ Else \/ EndIf \/ OpenLoop \/ EndLoop
    <2>1. phase = "build" /\ phase' = "build"
      BY <1>1 DEF Statement, Return, OpenIf, Else, EndIf, OpenLoop, EndLoop, Read
    <2>2. PICK w : Built(w)
      BY <2>1 DEF ChartInv
    <2>3. \E x : Built(x)'
      BY <1>1, <2>2, SimpleBuilt, OpenIfBuilt, ElseBuilt, EndIfBuilt, OpenLoopBuilt, EndLoopBuilt
    <2> QED
      BY <2>1, <2>3 DEF ChartInv
  <1>2. CASE FinishOptimized \/ FinishPlain
    BY <1>2, FinishCharted
  <1>3. CASE Reject
    <2>1. phase' = "rejected"
      BY <1>3 DEF Reject
    <2> QED
      BY <2>1 DEF ChartInv
  <1>4. CASE StartPass \/ FinishPrune \/ \E b \in unseen : RemoveBlock(b)
    <2>1. DOMAIN blk' = DOMAIN blk /\ \A b \in DOMAIN blk : blk'[b].instrs = blk[b].instrs
      BY <1>4, PruneFlow DEF FlowInv
    <2>2. phase = "prune" /\ phase' \in {"prune", "done"} /\ prog' = prog
      BY <1>4 DEF StartPass, FinishPrune, RemoveBlock, source
    <2>3. PICK w : Finished(w)
      BY <2>2 DEF ChartInv
    <2>4. Finished(w)'
      BY <2>1, <2>2, <2>3 DEF Finished
    <2> QED
      BY <2>2, <2>4 DEF ChartInv
  <1>5. CASE UNCHANGED vars
    <2>1. phase' = phase /\ prog' = prog /\ open' = open /\ blk' = blk /\ cur' = cur
      BY <1>5 DEF vars, source
    <2>2. \A w : (Built(w)' <=> Built(w)) /\ (Finished(w)' <=> Finished(w))
      BY <2>1 DEF Built, Finished
    <2> QED
      BY <2>1, <2>2 DEF ChartInv
  <1> QED
    BY <1>1, <1>2, <1>3, <1>4, <1>5 DEF Next

-----------------------------------------------------------------------------
(* What the statements say, once all of them are closed.                   *)

Arrival(s, A) ==
    /\ A[Len(s) + 1] = Len(s) + 1
    /\ \A k \in 1..Len(s) :
          /\ s[k] \in {"stm", "ret", "if", "for"} => A[k] = k
          /\ s[k] = "fi" => A[k] = A[k + 1]
          /\ s[k] = "else" => \A e : Matches(s, k, e) => A[k] = A[e + 1]
          /\ s[k] = "rof" => \A o : s[o] = "for" /\ Matches(s, o, k) => A[k] = o

Whole(s) ==
    /\ s \in Seq(Tokens)
    /\ \A k \in 1..Len(s) :
          /\ s[k] \in Openers => \E e : Matches(s, k, e)
          /\ s[k] = "else" => \E e : Matches(s, k, e) /\ s[e] = "fi"

LEMMA FinishedWhole ==
    ASSUME NEW w, Finished(w)
    PROVE  Whole(prog)
  <1>1. w.prog = prog /\ Charted(w) /\ DOMAIN w.open = {}
    BY DEF Finished
  <1>2. \A k : ~Begun(w, k) /\ ~Turned(w, k)
    BY <1>1 DEF Begun, Turned
  <1> QED
    BY <1>1, <1>2 DEF Charted, Whole

(* The closer found by its depth is the one that matches.                  *)
LEMMA ClosesBy ==
    ASSUME NEW s, Whole(s), NEW k, NEW e, Matches(s, k, e)
    PROVE  /\ k \in 1..Len(s) /\ e \in (k + 1)..Len(s) /\ Len(s) \in Nat /\ s[e] \in Closers
           /\ \A j \in (k + 1)..Len(s) : Deep(s, j) = Deep(s, k) - 1 => e <= j
  <1>1. s \in Seq(Tokens) /\ Len(s) \in Nat /\ k \in 1..Len(s) /\ e \in (k + 1)..Len(s)
    BY LenProperties DEF Whole, Matches
  <1>2. \A i \in Nat : Deep(s, i) \in Int /\ Deep(s, i + 1) = Deep(s, i) + Turn(s[i + 1])
    BY DeepStep
  <1>3. s[e] \in Closers
    <2>1. e - 1 \in Nat /\ (e - 1) + 1 = e /\ e - 1 \in k..(e - 1) /\ k \in Nat
      BY <1>1
    <2>1a. Deep(s, k) \in Int /\ Deep(s, e - 1) \in Int /\ Deep(s, e) \in Int
      <3>1. k \in Nat /\ e \in Nat
        BY <1>1
      <3> QED
        BY <1>2, <2>1, <3>1
    <2>2. PICK a, b, c \in Int : a = Deep(s, k) /\ b = Deep(s, e - 1) /\ c = Deep(s, e)
      BY <2>1a
    <2>3. b >= a /\ c = a - 1
      BY <2>1, <2>2 DEF Matches
    <2>4. c = b + Turn(s[e])
      BY <1>2, <2>1, <2>2
    <2>5. Turn(s[e]) \in Int /\ Turn(s[e]) < 0
      <3>1. Turn(s[e]) \in {1, -1, 0}
        BY DEF Turn
      <3> QED
        BY <2>2, <2>3, <2>4, <3>1
    <2> QED
      BY <2>5 DEF Turn
  <1>4. ASSUME NEW j \in (k + 1)..Len(s), Deep(s, j) = Deep(s, k) - 1, ~(e <= j) PROVE FALSE
    <2>1. j \in k..(e - 1) /\ k \in Nat
      BY <1>1, <1>4
    <2>2. Deep(s, j) >= Deep(s, k) /\ Deep(s, k) \in Int
      BY <1>2, <2>1 DEF Matches
    <2> QED
      BY <1>4, <2>2
  <1> QED
    BY <1>1, <1>3, <1>4

LEMMA MinIs ==
    ASSUME NEW S, NEW m \in S, S \subseteq Int, \A j \in S : m <= j
    PROVE  Min(S) = m
  <1>1. \A x \in S : (\A y \in S : x =< y) => x = m
    OBVIOUS
  <1>2. \E x \in S : \A y \in S : x =< y
    OBVIOUS
  <1>3. Min(S) \in S /\ \A y \in S : Min(S) =< y
    BY <1>2 DEF Min
  <1> QED
    BY <1>1, <1>3

LEMMA MaxIsOnly ==
    ASSUME NEW m \in Int
    PROVE  Max({m}) = m
  <1>1. \E x \in {m} : \A y \in {m} : x >= y
    OBVIOUS
  <1> QED
    BY <1>1 DEF Max

(* The end and the else of a conditional or loop, and what a loop's end    *)
(* goes back to.                                                           *)
LEMMA EndIs ==
    ASSUME Whole(prog), NEW k, NEW e, Matches(prog, k, e)
    PROVE  EndOf(k) = e /\ ElseOf(k) = Elses(prog, k, e)
  <1>1. /\ k \in 1..Len(prog) /\ e \in (k + 1)..Len(prog) /\ Len(prog) \in Nat /\ prog[e] \in Closers
        /\ \A j \in (k + 1)..Len(prog) : Deep(prog, j) = Deep(prog, k) - 1 => e <= j
    BY ClosesBy
  <1>2. Deep(prog, e) = Deep(prog, k) - 1
    BY DEF Matches
  <1> DEFINE S == {j \in (k + 1)..Len(prog) : prog[j] \in {"fi", "rof"} /\ Deep(prog, j) = Deep(prog, k) - 1}
  <1>3. ClosersOf(k) = S
    BY DepthIsDeep DEF ClosersOf
  <1>4. e \in S /\ S \subseteq Int /\ \A j \in S : e <= j
    BY <1>1, <1>2 DEF Closers
  <1> HIDE DEF S
  <1>5. Min(S) = e
    BY <1>4, MinIs
  <1>6. EndOf(k) = e
    BY <1>3, <1>5 DEF EndOf
  <1>7. ElseOf(k) = Elses(prog, k, e)
    BY <1>6, DepthIsDeep DEF ElseOf, Elses
  <1> QED
    BY <1>6, <1>7

LEMMA ElseEndIs ==
    ASSUME Whole(prog), NEW k, NEW e, Matches(prog, k, e), prog[e] = "fi"
    PROVE  Min({j \in (k + 1)..Len(prog) : prog[j] = "fi" /\ Depth(j) = Depth(k) - 1}) = e
  <1>1. /\ k \in 1..Len(prog) /\ e \in (k + 1)..Len(prog) /\ Len(prog) \in Nat
        /\ \A j \in (k + 1)..Len(prog) : Deep(prog, j) = Deep(prog, k) - 1 => e <= j
    BY ClosesBy
  <1>2. Deep(prog, e) = Deep(prog, k) - 1
    BY DEF Matches
  <1> DEFINE S == {j \in (k + 1)..Len(prog) : prog[j] = "fi" /\ Depth(j) = Depth(k) - 1}
  <1>3. e \in S /\ S \subseteq Int /\ \A j \in S : e <= j
    BY <1>1, <1>2, DepthIsDeep
  <1> HIDE DEF S
  <1>4. Min(S) = e
    BY <1>3, MinIs
  <1> QED
    BY <1>4 DEF S

LEMMA OpenerIs ==
    ASSUME Whole(prog), NEW o, NEW k, Matches(prog, o, k), prog[o] \in Openers
    PROVE  OpenerOf(k) = o
  <1>1. o \in 1..Len(prog) /\ k \in (o + 1)..Len(prog) /\ Len(prog) \in Nat /\ prog \in Seq(Tokens)
    BY ClosesBy DEF Whole
  <1> DEFINE S == {i \in 1..k : prog[i] \in {"if", "for"} /\ EndOf(i) = k}
  <1>2. o \in S
    BY <1>1, EndIs DEF Openers
  <1>3. ASSUME NEW i \in S PROVE i = o
    <2>1. i \in 1..Len(prog) /\ prog[i] \in Openers /\ EndOf(i) = k
      BY <1>1 DEF Openers
    <2>2. PICK e : Matches(prog, i, e)
      BY <2>1 DEF Whole
    <2>3. e = k
      BY <2>1, <2>2, EndIs
    <2> QED
      BY <1>1, <2>1, <2>2, <2>3, OneMatch
  <1> HIDE DEF S
  <1>4. S = {o}
    BY <1>2, <1>3
  <1>5a. o \in Int
    BY <1>1
  <1>5. Max(S) = o
    BY <1>4, <1>5a, MaxIsOnly
  <1> QED
    BY <1>5 DEF S, OpenerOf

(* A function that hands on to larger arguments is defined.                *)
Forwards(N, t) == N \in Nat /\ \A k \in 1..N : t[k] = 0 \/ t[k] \in (k + 1)..N

LEMMA ForwardExists ==
    ASSUME NEW N, NEW t, NEW c, Forwards(N, t)
    PROVE  \E f : f = [k \in 1..N |-> IF t[k] = 0 THEN c[k] ELSE f[t[k]]]
  <1> DEFINE Holds(f, k) == f[k] = IF t[k] = 0 THEN c[k] ELSE f[t[k]]
             Known(n) == \E f : /\ f = [k \in 1..N |-> f[k]]
                                /\ \A k \in 1..N : N - k < n => Holds(f, k)
             S == {n \in Nat : Known(n)}
  <1>1. 0 \in S
    <2>1. PICK f : f = [k \in 1..N |-> 0]
      OBVIOUS
    <2>2. f = [k \in 1..N |-> f[k]]
      BY <2>1
    <2>3. \A k \in 1..N : ~(N - k < 0)
      BY DEF Forwards
    <2> QED
      BY <2>2, <2>3
  <1>2. ASSUME NEW n \in Nat, n \in S PROVE n + 1 \in S
    <2>1. PICK f : /\ f = [k \in 1..N |-> f[k]]
                   /\ \A k \in 1..N : N - k < n => Holds(f, k)
      BY <1>2
    <2>2. PICK g : g = [k \in 1..N |-> IF N - k = n THEN (IF t[k] = 0 THEN c[k] ELSE f[t[k]]) ELSE f[k]]
      OBVIOUS
    <2>3. g = [k \in 1..N |-> g[k]]
      BY <2>2
    <2>4. \A k \in 1..N : g[k] = IF N - k = n THEN (IF t[k] = 0 THEN c[k] ELSE f[t[k]]) ELSE f[k]
      BY <2>2
    <2>5. ASSUME NEW k \in 1..N, N - k < n + 1 PROVE Holds(g, k)
      <3>1. t[k] = 0 \/ (t[k] \in 1..N /\ N - t[k] # n)
        BY <2>5 DEF Forwards
      <3>2. t[k] = 0 \/ g[t[k]] = f[t[k]]
        BY <2>4, <3>1
      <3>3. N - k = n \/ N - k < n
        BY <2>5 DEF Forwards
      <3>4. g[k] = IF t[k] = 0 THEN c[k] ELSE f[t[k]]
        BY <2>1, <2>4, <3>3
      <3> QED
        BY <3>2, <3>4
    <2> HIDE DEF Holds
    <2>6. Known(n + 1)
      BY <2>3, <2>5
    <2>7. n + 1 \in Nat
      OBVIOUS
    <2> HIDE DEF Known
    <2> QED
      BY <2>6, <2>7
  <1> HIDE DEF S
  <1>3. \A n \in Nat : n \in S
    BY <1>1, <1>2, AllNats
  <1>4. Known(N + 1)
    <2>1. N + 1 \in Nat
      BY DEF Forwards
    <2> QED
      BY <1>3, <2>1 DEF S
  <1>5. PICK f : /\ f = [k \in 1..N |-> f[k]]
                 /\ \A k \in 1..N : N - k < N + 1 => Holds(f, k)
    BY <1>4
  <1>6. \A k \in 1..N : N - k < N + 1
    BY DEF Forwards
  <1>7. f = [k \in 1..N |-> IF t[k] = 0 THEN c[k] ELSE f[t[k]]]
    BY <1>5, <1>6
  <1> QED
    BY <1>7

FiBehind(k) == Min({j \in (k + 1)..Len(prog) : prog[j] = "fi" /\ Depth(j) = Depth(k) - 1})

LEMMA ArriveDef ==
    ASSUME Whole(prog), Len(prog) <= MaxTokens
    PROVE  \A k \in 1..(MaxTokens + 1) :
              Arrive[k] = IF k > Len(prog) THEN Len(prog) + 1
                          ELSE CASE prog[k] = "else" -> Arrive[FiBehind(k) + 1]
                                 [] prog[k] = "fi" -> Arrive[k + 1]
                                 [] prog[k] = "rof" -> OpenerOf(k)
                                 [] OTHER -> k
  <1> DEFINE N == MaxTokens + 1
             F(f) == [k \in 1..(MaxTokens + 1) |->
                        IF k > Len(prog) THEN Len(prog) + 1
                        ELSE CASE prog[k] = "else" -> f[Min({j \in (k + 1)..Len(prog) :
                                                           prog[j] = "fi" /\ Depth(j) = Depth(k) - 1}) + 1]
                               [] prog[k] = "fi" -> f[k + 1]
                               [] prog[k] = "rof" -> OpenerOf(k)
                               [] OTHER -> k]
             onto(k) == IF k > Len(prog) THEN 0
                        ELSE IF prog[k] = "else" THEN FiBehind(k) + 1
                        ELSE IF prog[k] = "fi" THEN k + 1 ELSE 0
             here(k) == IF k > Len(prog) THEN Len(prog) + 1
                        ELSE IF prog[k] = "rof" THEN OpenerOf(k) ELSE k
  <1>1. N \in Nat /\ Len(prog) \in Nat /\ Len(prog) < N /\ prog \in Seq(Tokens)
    BY BoundsAssumption, LenProperties DEF Whole
  <1>2. PICK t : t = [k \in 1..N |-> onto(k)]
    OBVIOUS
  <1>3. PICK c : c = [k \in 1..N |-> here(k)]
    OBVIOUS
  <1>4. ASSUME NEW k \in 1..N PROVE t[k] = 0 \/ t[k] \in (k + 1)..N
    <2>1. t[k] = onto(k)
      BY <1>2
    <2>2. CASE k > Len(prog)
      BY <2>1, <2>2
    <2>3. CASE ~(k > Len(prog)) /\ prog[k] = "else"
      <3>1. k \in 1..Len(prog)
        BY <1>1, <2>3
      <3>2. PICK e : Matches(prog, k, e) /\ prog[e] = "fi"
        BY <2>3, <3>1 DEF Whole
      <3>3. FiBehind(k) = e
        BY <3>2, ElseEndIs DEF FiBehind
      <3>4. e \in (k + 1)..Len(prog)
        BY <3>2 DEF Matches
      <3>5. t[k] = e + 1
        BY <2>1, <2>3, <3>3
      <3> QED
        BY <1>1, <3>4, <3>5
    <2>4. CASE ~(k > Len(prog)) /\ prog[k] # "else"
      <3>1. t[k] = 0 \/ t[k] = k + 1
        BY <2>1, <2>4
      <3> QED
        BY <1>1, <2>4, <3>1
    <2> QED
      BY <2>2, <2>3, <2>4
  <1>5. PICK f : f = [k \in 1..N |-> IF t[k] = 0 THEN c[k] ELSE f[t[k]]]
    <2>1. Forwards(N, t)
      BY <1>1, <1>4 DEF Forwards
    <2> HIDE DEF N
    <2> QED
      BY <2>1, ForwardExists
  <1>6. f = F(f)
    <2>1. ASSUME NEW k \in 1..N PROVE f[k] = F(f)[k]
      <3>0. /\ f[k] = IF t[k] = 0 THEN c[k] ELSE f[t[k]]
            /\ t[k] = onto(k) /\ c[k] = here(k)
            /\ F(f)[k] = IF k > Len(prog) THEN Len(prog) + 1
                         ELSE CASE prog[k] = "else" -> f[FiBehind(k) + 1]
                                [] prog[k] = "fi" -> f[k + 1]
                                [] prog[k] = "rof" -> OpenerOf(k)
                                [] OTHER -> k
        <4> HIDE DEF onto, here
        <4> QED
          BY <1>2, <1>3, <1>5 DEF FiBehind
      <3>1. CASE k > Len(prog)
        BY <3>0, <3>1
      <3>2. CASE ~(k > Len(prog)) /\ prog[k] = "else"
        <4>1. f[k] = f[FiBehind(k) + 1]
          <5>1. FiBehind(k) + 1 # 0
            <6>1. t[k] = FiBehind(k) + 1
              BY <3>0, <3>2
            <6>2. k \in 1..Len(prog)
              BY <1>1, <3>2
            <6>3. PICK e : Matches(prog, k, e) /\ prog[e] = "fi"
              BY <3>2, <6>2 DEF Whole
            <6>4. FiBehind(k) = e
              BY <6>3, ElseEndIs DEF FiBehind
            <6>5. e \in (k + 1)..Len(prog)
              BY <6>3 DEF Matches
            <6> QED
              BY <1>1, <6>2, <6>4, <6>5
          <5> QED
            BY <3>0, <3>2, <5>1
        <4> QED
          BY <3>0, <3>2, <4>1
      <3>3. CASE ~(k > Len(prog)) /\ prog[k] = "fi"
        BY <3>0, <3>3
      <3>4. CASE ~(k > Len(prog)) /\ prog[k] = "rof"
        BY <3>0, <3>4
      <3>5. CASE ~(k > Len(prog)) /\ prog[k] \notin {"else", "fi", "rof"}
        BY <3>0, <3>5
      <3> QED
        BY <3>1, <3>2, <3>3, <3>4, <3>5
    <2>2. f = [k \in 1..N |-> f[k]]
      BY <1>5
    <2>3. F(f) = [k \in 1..N |-> F(f)[k]]
      OBVIOUS
    <2> HIDE DEF F, N
    <2> QED
      BY <2>1, <2>2, <2>3
  <1>7. Arrive = CHOOSE h : h = F(h)
    BY DEF Arrive
  <1>8. Arrive = F(Arrive)
    <2> HIDE DEF F
    <2>1. (CHOOSE h : h = F(h)) = F(CHOOSE h : h = F(h))
      BY <1>6
    <2> QED
      BY <1>7, <2>1
  <1> DEFINE h == Arrive
  <1>9. h = F(h)
    BY <1>8
  <1> HIDE DEF h
  <1>10. \A k \in 1..(MaxTokens + 1) :
             h[k] = IF k > Len(prog) THEN Len(prog) + 1
                    ELSE CASE prog[k] = "else" -> h[FiBehind(k) + 1]
                           [] prog[k] = "fi" -> h[k + 1]
                           [] prog[k] = "rof" -> OpenerOf(k)
                           [] OTHER -> k
    BY <1>9 DEF FiBehind
  <1> QED
    BY <1>10 DEF h

(* Arrive follows the statements.                                          *)
LEMMA ArriveFacts ==
    ASSUME Whole(prog), Len(prog) <= MaxTokens
    PROVE  Arrival(prog, Arrive)
  <1>1. Len(prog) \in Nat /\ MaxTokens \in Nat
    BY BoundsAssumption, LenProperties DEF Whole
  <1>2. Len(prog) + 1 \in 1..(MaxTokens + 1) /\ Len(prog) + 1 > Len(prog)
        /\ \A k \in 1..Len(prog) : k \in 1..(MaxTokens + 1) /\ ~(k > Len(prog))
    BY <1>1
  <1>3. Arrive[Len(prog) + 1] = Len(prog) + 1
    BY <1>2, ArriveDef
  <1>4. ASSUME NEW k \in 1..Len(prog)
        PROVE  /\ prog[k] \in {"stm", "ret", "if", "for"} => Arrive[k] = k
               /\ prog[k] = "fi" => Arrive[k] = Arrive[k + 1]
               /\ prog[k] = "else" => \A e : Matches(prog, k, e) => Arrive[k] = Arrive[e + 1]
               /\ prog[k] = "rof" => \A o : prog[o] = "for" /\ Matches(prog, o, k) => Arrive[k] = o
    <2>1. Arrive[k] = CASE prog[k] = "else" -> Arrive[FiBehind(k) + 1]
                        [] prog[k] = "fi" -> Arrive[k + 1]
                        [] prog[k] = "rof" -> OpenerOf(k)
                        [] OTHER -> k
      BY <1>2, ArriveDef
    <2>2. ASSUME prog[k] = "else", NEW e, Matches(prog, k, e) PROVE Arrive[k] = Arrive[e + 1]
      <3>1. PICK d : Matches(prog, k, d) /\ prog[d] = "fi"
        BY <2>2 DEF Whole
      <3>2. prog \in Seq(Tokens)
        BY DEF Whole
      <3>3. e = d
        BY <2>2, <3>1, <3>2, OneMatch
      <3>4. FiBehind(k) = e
        BY <3>1, <3>3, ElseEndIs DEF FiBehind
      <3> QED
        BY <2>1, <2>2, <3>4
    <2>3. ASSUME prog[k] = "rof", NEW o, prog[o] = "for", Matches(prog, o, k) PROVE Arrive[k] = o
      <3>1. OpenerOf(k) = o
        BY <2>3, OpenerIs DEF Openers
      <3> QED
        BY <2>1, <2>3, <3>1
    <2> QED
      BY <2>1, <2>2, <2>3
  <1> QED
    BY <1>3, <1>4 DEF Arrival

-----------------------------------------------------------------------------
(* What may be seen after e: the statement control arrives at from q.      *)

Goes(s, e, q) ==
    \/ e = Start /\ q = 1
    \/ \E k \in 1..Len(s) : e = Event("ran", k) /\ s[k] = "stm" /\ q = k + 1
    \/ \E k \in 1..Len(s) : e = Event("true", k) /\ s[k] \in Openers /\ q = k + 1
    \/ \E k \in 1..Len(s) : \E m :
          /\ e = Event("false", k) /\ s[k] = "if" /\ Matches(s, k, m) /\ s[m] = "fi"
          /\ \/ Elses(s, k, m) = {} /\ q = m
             \/ \E l : Elses(s, k, m) = {l} /\ q = l + 1
    \/ \E k \in 1..Len(s) : \E m :
          e = Event("false", k) /\ s[k] = "for" /\ Matches(s, k, m) /\ q = m + 1
Ends(s, e) ==
    \E k \in 1..(Len(s) + 1) : e = Event("ran", k) /\ (k = Len(s) + 1 \/ s[k] = "ret")
Due(s, A, e, k) == \E q : Goes(s, e, q) /\ A[q] = A[k]

LEMMA EventFacts ==
    \A kind, at : Event(kind, at).kind = kind /\ Event(kind, at).at = at
  BY DEF Event

LEMMA GoesOn ==
    ASSUME Whole(prog), Len(prog) <= MaxTokens, NEW e, NEW q, Goes(prog, e, q)
    PROVE  SourceNext(e) = {Event("ran", Arrive[q])}
  <1>1. Len(prog) \in Nat /\ Arrival(prog, Arrive)
    BY ArriveFacts, LenProperties DEF Whole
  <1>2. CASE e = Start /\ q = 1
    <2>1. e.kind = "start" /\ e.at = 0 /\ ~(0 > Len(prog))
      BY <1>1, <1>2, EventFacts DEF Start
    <2> QED
      BY <1>2, <2>1 DEF SourceNext
  <1>3. ASSUME NEW k \in 1..Len(prog), e = Event("ran", k), prog[k] = "stm", q = k + 1
        PROVE  SourceNext(e) = {Event("ran", Arrive[q])}
    <2>1. e.kind = "ran" /\ e.at = k /\ ~(k > Len(prog))
      BY <1>1, <1>3, EventFacts
    <2> QED
      BY <1>3, <2>1 DEF SourceNext
  <1>4. ASSUME NEW k \in 1..Len(prog), e = Event("true", k), prog[k] \in Openers, q = k + 1
        PROVE  SourceNext(e) = {Event("ran", Arrive[q])}
    <2>1. e.kind = "true" /\ e.at = k /\ ~(k > Len(prog))
      BY <1>1, <1>4, EventFacts
    <2> QED
      BY <1>4, <2>1 DEF SourceNext
  <1>5. ASSUME NEW k \in 1..Len(prog), NEW m, e = Event("false", k), prog[k] = "if",
               Matches(prog, k, m), prog[m] = "fi",
               \/ Elses(prog, k, m) = {} /\ q = m
               \/ \E l : Elses(prog, k, m) = {l} /\ q = l + 1
        PROVE  SourceNext(e) = {Event("ran", Arrive[q])}
    <2>1. e.kind = "false" /\ e.at = k /\ ~(k > Len(prog))
      BY <1>1, <1>5, EventFacts
    <2>2. EndOf(k) = m /\ ElseOf(k) = Elses(prog, k, m)
      BY <1>5, EndIs
    <2>3. CASE Elses(prog, k, m) = {} /\ q = m
      <3>1. m \in 1..Len(prog)
        BY <1>1, <1>5 DEF Matches
      <3>2. Arrive[m] = Arrive[m + 1]
        BY <1>1, <1>5, <3>1 DEF Arrival
      <3> QED
        BY <1>5, <2>1, <2>2, <2>3, <3>2 DEF SourceNext
    <2>4. ASSUME NEW l, Elses(prog, k, m) = {l}, q = l + 1
          PROVE  SourceNext(e) = {Event("ran", Arrive[q])}
      <3>1. l \in Int
        <4>1. l \in (k + 1)..(m - 1)
          BY <2>4 DEF Elses
        <4> QED
          BY <1>1, <4>1
      <3>2. Min(ElseOf(k)) = l /\ ElseOf(k) # {}
        <4>1. Min({l}) = l
          BY <3>1, MinIs
        <4> QED
          BY <2>2, <2>4, <4>1
      <3> QED
        BY <1>5, <2>1, <2>4, <3>2 DEF SourceNext
    <2> QED
      BY <1>5, <2>3, <2>4
  <1>6. ASSUME NEW k \in 1..Len(prog), NEW m, e = Event("false", k), prog[k] = "for",
               Matches(prog, k, m), q = m + 1
        PROVE  SourceNext(e) = {Event("ran", Arrive[q])}
    <2>1. e.kind = "false" /\ e.at = k /\ ~(k > Len(prog))
      BY <1>1, <1>6, EventFacts
    <2>2. EndOf(k) = m
      BY <1>6, EndIs
    <2> QED
      BY <1>6, <2>1, <2>2 DEF SourceNext
  <1> QED
    BY <1>2, <1>3, <1>4, <1>5, <1>6 DEF Goes

LEMMA EndsThere ==
    ASSUME Whole(prog), NEW e, Ends(prog, e)
    PROVE  SourceNext(e) = {}
  <1>1. Len(prog) \in Nat
    BY LenProperties DEF Whole
  <1>2. PICK k \in 1..(Len(prog) + 1) : e = Event("ran", k) /\ (k = Len(prog) + 1 \/ prog[k] = "ret")
    BY DEF Ends
  <1>3. e.kind = "ran" /\ e.at = k
    BY <1>2, EventFacts
  <1>4. CASE k = Len(prog) + 1
    <2>1. k > Len(prog)
      BY <1>1, <1>4
    <2> QED
      BY <1>3, <2>1 DEF SourceNext
  <1>5. CASE k # Len(prog) + 1
    <2>1. prog[k] = "ret" /\ ~(k > Len(prog))
      BY <1>1, <1>2, <1>5
    <2> QED
      BY <1>3, <2>1 DEF SourceNext
  <1> QED
    BY <1>4, <1>5

(* A statement that is due may be seen to run, and a condition to come out *)
(* either way.                                                             *)
LEMMA DueRuns ==
    ASSUME Whole(prog), Len(prog) <= MaxTokens, NEW e, NEW k \in 1..(Len(prog) + 1),
           Due(prog, Arrive, e, k),
           k = Len(prog) + 1 \/ prog[k] \in {"stm", "ret", "if", "for"}
    PROVE  Event("ran", k) \in SourceNext(e)
  <1>1. Len(prog) \in Nat /\ Arrival(prog, Arrive)
    BY ArriveFacts, LenProperties DEF Whole
  <1>2. PICK q : Goes(prog, e, q) /\ Arrive[q] = Arrive[k]
    BY DEF Due
  <1>3. Arrive[k] = k
    <2>1. k = Len(prog) + 1 \/ k \in 1..Len(prog)
      BY <1>1
    <2> QED
      BY <1>1, <2>1 DEF Arrival
  <1>4. SourceNext(e) = {Event("ran", k)}
    BY <1>2, <1>3, GoesOn
  <1> QED
    BY <1>4

LEMMA TestDecides ==
    ASSUME Whole(prog), NEW k \in 1..Len(prog), prog[k] \in Openers, NEW kind \in {"true", "false"}
    PROVE  Event(kind, k) \in SourceNext(Event("ran", k))
  <1>1. Len(prog) \in Nat
    BY LenProperties DEF Whole
  <1> DEFINE e == Event("ran", k)
  <1>2. e.kind = "ran" /\ e.at = k /\ ~(k > Len(prog)) /\ prog[k] # "stm" /\ prog[k] # "ret"
    BY <1>1, EventFacts DEF Openers
  <1> HIDE DEF e
  <1>3. SourceNext(e) = {Event("true", k), Event("false", k)}
    BY <1>2 DEF SourceNext
  <1> QED
    BY <1>3 DEF e

-----------------------------------------------------------------------------
(* Where the branches of a finished function lead.                         *)

Settled(w) == Whole(w.prog) /\ DOMAIN w.open = {} /\ w.at \in [Nat -> Nat]

LEMMA BranchLeads ==
    ASSUME NEW w, Settled(w), NEW k \in 1..Len(w.prog), NEW d \in Nat, BranchTo(w, k, d),
           NEW A, Arrival(w.prog, A), NEW e, Due(w.prog, A, e, k)
    PROVE  w.at[d] \in 1..(Len(w.prog) + 1) /\ Due(w.prog, A, e, w.at[d])
  <1>0. PICK n, a : n = Len(w.prog) /\ a = w.at[d]
    OBVIOUS
  <1>1. n \in Nat /\ k \in 1..n
    BY <1>0, LenProperties DEF Settled, Whole
  <1>2. PICK q : Goes(w.prog, e, q) /\ A[q] = A[k]
    BY DEF Due
  <1>3. \A j : A[k] = A[j] => Due(w.prog, A, e, j)
    BY <1>2 DEF Due
  <1>4. CASE w.prog[k] = "for" /\ a = k
    <2>1. a \in 1..(n + 1)
      BY <1>1, <1>4
    <2> QED
      BY <1>0, <1>3, <1>4, <2>1
  <1>5. CASE w.prog[k] = "rof" /\ RofDone(w, k, d)
    <2>1. PICK o : w.prog[o] = "for" /\ Matches(w.prog, o, k) /\ a = o
      BY <1>0, <1>5 DEF RofDone
    <2>2. o \in 1..n
      BY <1>0, <2>1 DEF Matches
    <2>3. A[k] = o /\ A[o] = o
      BY <1>0, <1>5, <2>1, <2>2 DEF Arrival
    <2>4. o \in 1..(n + 1)
      BY <1>1, <2>2
    <2> QED
      BY <1>0, <1>3, <2>1, <2>3, <2>4
  <1>6. CASE w.prog[k] = "fi" /\ a = k + 1
    <2>1. A[k] = A[k + 1]
      BY <1>0, <1>1, <1>6 DEF Arrival
    <2>2. a \in 1..(n + 1)
      BY <1>1, <1>6
    <2> QED
      BY <1>0, <1>3, <1>6, <2>1, <2>2
  <1>7. CASE w.prog[k] = "else" /\ ElseTo(w, k, d)
    <2>1. PICK m : Matches(w.prog, k, m) /\ w.prog[m] = "fi" /\ a = m + 1
      BY <1>0, <1>7 DEF ElseTo, ElseDone, Settled
    <2>2. A[k] = A[m + 1]
      BY <1>0, <1>1, <1>7, <2>1 DEF Arrival
    <2>3. m \in (k + 1)..n
      BY <1>0, <2>1 DEF Matches
    <2>4. a \in 1..(n + 1)
      BY <1>1, <2>1, <2>3
    <2> QED
      BY <1>0, <1>3, <2>1, <2>2, <2>4
  <1> QED
    BY <1>0, <1>4, <1>5, <1>6, <1>7 DEF BranchTo

LEMMA TestLeads ==
    ASSUME NEW w, Settled(w), NEW k \in 1..Len(w.prog), NEW t \in Nat, NEW f \in Nat,
           w.at[t] = k + 1,
           \/ w.prog[k] = "if" /\ IfTo(w, k, f)
           \/ w.prog[k] = "for" /\ ForTo(w, k, f)
    PROVE  /\ w.at[t] \in 1..(Len(w.prog) + 1) /\ w.at[f] \in 1..(Len(w.prog) + 1)
           /\ Goes(w.prog, Event("true", k), w.at[t])
           /\ Goes(w.prog, Event("false", k), w.at[f])
  <1>0. PICK n, a : n = Len(w.prog) /\ a = w.at[f]
    OBVIOUS
  <1>1. n \in Nat /\ k \in 1..n
    BY <1>0, LenProperties DEF Settled, Whole
  <1>2. w.at[t] \in 1..(n + 1)
    BY <1>1
  <1>3. Goes(w.prog, Event("true", k), w.at[t])
    <2>1. w.prog[k] \in Openers
      BY DEF Openers
    <2> QED
      BY <2>1 DEF Goes
  <1>4. CASE w.prog[k] = "if" /\ IfTo(w, k, f)
    <2>1. PICK m : /\ Matches(w.prog, k, m) /\ w.prog[m] = "fi"
                   /\ \/ Elses(w.prog, k, m) = {} /\ a = m
                      \/ \E l : Elses(w.prog, k, m) = {l} /\ a = l + 1
      BY <1>0, <1>4 DEF IfTo, IfDone, Settled
    <2>2. m \in (k + 1)..n
      BY <1>0, <2>1 DEF Matches
    <2>3. a \in 1..(n + 1)
      <3>1. \A l : Elses(w.prog, k, m) = {l} => l \in (k + 1)..(m - 1)
        BY DEF Elses
      <3>2. \A l \in (k + 1)..(m - 1) : l + 1 \in 1..(n + 1)
        BY <1>1, <2>2
      <3>3. m \in 1..(n + 1)
        BY <1>1, <2>2
      <3> QED
        BY <2>1, <3>1, <3>2, <3>3
    <2>4. Goes(w.prog, Event("false", k), a)
      BY <1>4, <2>1 DEF Goes
    <2> QED
      BY <1>0, <1>2, <1>3, <2>3, <2>4
  <1>5. CASE w.prog[k] = "for" /\ ForTo(w, k, f)
    <2>1. PICK m : Matches(w.prog, k, m) /\ a = m + 1
      BY <1>0, <1>5 DEF ForTo, ForDone, Settled
    <2>2. m \in (k + 1)..n
      BY <1>0, <2>1 DEF Matches
    <2>3. a \in 1..(n + 1)
      BY <1>1, <2>1, <2>2
    <2>4. Goes(w.prog, Event("false", k), a)
      BY <1>5, <2>1 DEF Goes
    <2> QED
      BY <1>0, <1>2, <1>3, <2>3, <2>4
  <1> QED
    BY <1>4, <1>5

-----------------------------------------------------------------------------
(* How the code of the blocks lies in the body.                            *)

ArmDests(n) ==
    {ExitLabel, 0} \cup (0..(n - 1))
    \cup {i.dests[1] : i \in InstrOf(n)} \cup {i.dests[2] : i \in InstrOf(n)}
ArmOf(n) ==
    [op : {"Label", "Code", "B", "Cmp", "BEq", "BNe"}, at : 0..(MaxTokens + 1), dest : ArmDests(n)]

LEMMA AssemblyIs ==
    ASSUME NEW n, NEW i \in InstrOf(n), NEW x, x = TranslateToAssembly(i)
    PROVE  /\ i.op \in {"Code", "Ret", "Br", "BrCond"}
           /\ i.op = "Code" => x = <<ARM("Code", i.at, 0)>>
           /\ i.op = "Ret" => x = <<ARM("Code", i.at, 0), ARM("B", i.at, ExitLabel)>>
           /\ i.op = "Br" => x = <<ARM("B", i.at, i.dests[1])>>
           /\ i.op = "BrCond" => x = <<ARM("Cmp", i.at, 0), ARM("BEq", i.at, i.dests[1]),
                                       ARM("BNe", i.at, i.dests[2])>>
  BY DEF TranslateToAssembly, InstrOf, Ops

LEMMA AssemblyTypes ==
    ASSUME NEW n, NEW i \in InstrOf(n)
    PROVE  /\ TranslateToAssembly(i) \in Seq(ArmOf(n))
           /\ Len(TranslateToAssembly(i)) \in Nat \ {0}
           /\ \A o \in 1..Len(TranslateToAssembly(i)) : TranslateToAssembly(i)[o].op # "Label"
  <1>1. PICK x : x = TranslateToAssembly(i)
    OBVIOUS
  <1>2. i.at \in 0..(MaxTokens + 1)
    BY DEF InstrOf
  <1>3. \A op, at, d : ARM(op, at, d).op = op
    BY DEF ARM
  <1>4. \A op \in {"Code", "B", "Cmp", "BEq", "BNe"} : \A d \in ArmDests(n) : ARM(op, i.at, d) \in ArmOf(n)
    BY <1>2 DEF ARM, ArmOf
  <1>5. ExitLabel \in ArmDests(n) /\ 0 \in ArmDests(n) /\ i.dests[1] \in ArmDests(n) /\ i.dests[2] \in ArmDests(n)
    BY DEF ArmDests
  <1>6. /\ ARM("Code", i.at, 0) \in ArmOf(n) /\ ARM("Cmp", i.at, 0) \in ArmOf(n)
        /\ ARM("B", i.at, ExitLabel) \in ArmOf(n) /\ ARM("B", i.at, i.dests[1]) \in ArmOf(n)
        /\ ARM("BEq", i.at, i.dests[1]) \in ArmOf(n) /\ ARM("BNe", i.at, i.dests[2]) \in ArmOf(n)
    BY <1>4, <1>5
  <1>7. PICK G : G = {a \in ArmOf(n) : a.op # "Label"}
    OBVIOUS
  <1>8. /\ ARM("Code", i.at, 0) \in G /\ ARM("Cmp", i.at, 0) \in G
        /\ ARM("B", i.at, ExitLabel) \in G /\ ARM("B", i.at, i.dests[1]) \in G
        /\ ARM("BEq", i.at, i.dests[1]) \in G /\ ARM("BNe", i.at, i.dests[2]) \in G
    BY <1>3, <1>6, <1>7
  <1>9. /\ i.op \in {"Code", "Ret", "Br", "BrCond"}
        /\ i.op = "Code" => x = <<ARM("Code", i.at, 0)>>
        /\ i.op = "Ret" => x = <<ARM("Code", i.at, 0), ARM("B", i.at, ExitLabel)>>
        /\ i.op = "Br" => x = <<ARM("B", i.at, i.dests[1])>>
        /\ i.op = "BrCond" => x = <<ARM("Cmp", i.at, 0), ARM("BEq", i.at, i.dests[1]),
                                    ARM("BNe", i.at, i.dests[2])>>
    BY <1>1, AssemblyIs
  <1> HIDE DEF ARM
  <1>10. x \in Seq(G) /\ Len(x) \in {1, 2, 3}
    <2>1. \A a \in G : <<a>> \in Seq(G) /\ Len(<<a>>) = 1
      OBVIOUS
    <2>2. \A a, b \in G : <<a, b>> \in Seq(G) /\ Len(<<a, b>>) = 2
      OBVIOUS
    <2>3. \A a, b, c \in G : <<a, b, c>> \in Seq(G) /\ Len(<<a, b, c>>) = 3
      OBVIOUS
    <2>4. CASE i.op = "Code"
      BY <1>8, <1>9, <2>1, <2>4, Zenon
    <2>5. CASE i.op = "Ret"
      BY <1>8, <1>9, <2>2, <2>5, Zenon
    <2>6. CASE i.op = "Br"
      BY <1>8, <1>9, <2>1, <2>6, Zenon
    <2>7. CASE i.op = "BrCond"
      BY <1>8, <1>9, <2>3, <2>7, Zenon
    <2> QED
      BY <1>9, <2>4, <2>5, <2>6, <2>7
  <1>11. Len(x) \in Nat \ {0} /\ \A o \in 1..Len(x) : x[o] \in G
    BY <1>10, ElementOfSeq
  <1>12. G \subseteq ArmOf(n)
    BY <1>7
  <1>13. x \in Seq(ArmOf(n))
    BY <1>10, <1>12, SeqMonotonic
  <1> QED
    BY <1>1, <1>7, <1>11, <1>13

(* A place is an ARM instruction of an instruction of a block; instruction *)
(* 0 is its label.                                                         *)
Place(b, j, o) == [b |-> b, j |-> j, o |-> o]
Width(code, u) == IF u.j = 0 THEN 1 ELSE Len(TranslateToAssembly(code[u.b][u.j]))
Text(code, u) == IF u.j = 0 THEN Label(u.b) ELSE TranslateToAssembly(code[u.b][u.j])[u.o]
PlaceIn(code, u) ==
    /\ u = Place(u.b, u.j, u.o)
    /\ u.b \in DOMAIN code /\ u.j \in 0..Len(code[u.b]) /\ u.o \in 1..Width(code, u)
Onwards(code, u, v) ==
    \/ u.o < Width(code, u) /\ v = Place(u.b, u.j, u.o + 1)
    \/ u.o = Width(code, u) /\ u.j < Len(code[u.b]) /\ v = Place(u.b, u.j + 1, 1)
    \/ u.o = Width(code, u) /\ u.j = Len(code[u.b]) /\ v = Place(v.b, 0, 1)

Coded(code, n) == n \in Nat /\ \A b \in DOMAIN code : code[b] \in Seq(InstrOf(n))
Walk(W, r, code) ==
    /\ \A q \in 1..Len(W) : PlaceIn(code, r[q]) /\ W[q] = Text(code, r[q])
    /\ \A q \in 1..Len(W) : q < Len(W) => Onwards(code, r[q], r[q + 1])
(* It has come to the end of instruction j of block b.                     *)
ComeTo(W, r, code, b, j, n) ==
    /\ W \in Seq(ArmOf(n)) /\ Len(W) >= 1 /\ Walk(W, r, code) /\ r[1] = Place(Entry, 0, 1)
    /\ b \in DOMAIN code /\ j \in 0..Len(code[b])
    /\ r[Len(W)] = Place(b, j, Width(code, Place(b, j, 1)))

LEMMA PlaceFacts ==
    \A b, j, o : Place(b, j, o).b = b /\ Place(b, j, o).j = j /\ Place(b, j, o).o = o
  BY DEF Place

(* One more piece of code: what it is, and what it follows.                *)
Piece(X, code, b, j, n) ==
    /\ X \in Seq(ArmOf(n)) /\ b \in DOMAIN code /\ j \in 0..Len(code[b])
    /\ Len(X) = Width(code, Place(b, j, 1)) /\ Len(X) >= 1
    /\ \A o \in 1..Len(X) : X[o] = Text(code, Place(b, j, o))
Ahead(W, r, code, b, j, n) ==
    /\ W \in Seq(ArmOf(n)) /\ Walk(W, r, code)
    /\ Len(W) = 0 \/ Onwards(code, r[Len(W)], Place(b, j, 1))
    /\ IF Len(W) = 0 THEN Place(b, j, 1) = Place(Entry, 0, 1) ELSE r[1] = Place(Entry, 0, 1)

LEMMA WalkLonger ==
    ASSUME NEW code, NEW n, Coded(code, n), NEW W, NEW r, NEW X, NEW b, NEW j,
           Piece(X, code, b, j, n), Ahead(W, r, code, b, j, n)
    PROVE  \E s : ComeTo(W \o X, s, code, b, j, n)
  <1> USE DEF Piece, Ahead
  <1>0. PICK m, x : m = Len(W) /\ x = Len(X)
    OBVIOUS
  <1>1. m \in Nat /\ x \in Nat /\ x >= 1
    BY <1>0, LenProperties
  <1>2. PICK Y : Y = W \o X
    OBVIOUS
  <1>3. /\ Y \in Seq(ArmOf(n)) /\ Len(Y) = m + x
        /\ \A q \in 1..m : Y[q] = W[q]
        /\ \A o \in 1..x : Y[m + o] = X[o]
    <2>1. /\ W \o X \in Seq(ArmOf(n)) /\ Len(W \o X) = Len(W) + Len(X)
          /\ \A q \in 1..(Len(W) + Len(X)) : (W \o X)[q] = IF q <= Len(W) THEN W[q] ELSE X[q - Len(W)]
      BY ConcatProperties
    <2>2. \A q \in 1..m : q \in 1..(m + x) /\ q <= m
      BY <1>1
    <2>3. \A o \in 1..x : m + o \in 1..(m + x) /\ ~(m + o <= m) /\ (m + o) - m = o
      BY <1>1
    <2> QED
      BY <1>0, <1>2, <2>1, <2>2, <2>3
  <1>4. PICK s : s = [q \in 1..(m + x) |-> IF q <= m THEN r[q] ELSE Place(b, j, q - m)]
    OBVIOUS
  <1>5. /\ \A q \in 1..m : s[q] = r[q]
        /\ \A o \in 1..x : s[m + o] = Place(b, j, o)
    <2>1. \A q \in 1..m : q \in 1..(m + x) /\ q <= m
      BY <1>1
    <2>2. \A o \in 1..x : m + o \in 1..(m + x) /\ ~(m + o <= m) /\ (m + o) - m = o
      BY <1>1
    <2> QED
      BY <1>4, <2>1, <2>2
  <1>6. \A q \in 1..(m + x) : q \in 1..m \/ \E o \in 1..x : q = m + o
    <2> TAKE q \in 1..(m + x)
    <2>1. CASE q > m
      <3>1. q - m \in 1..x /\ q = m + (q - m)
        BY <1>1, <2>1
      <3> QED
        BY <3>1
    <2> QED
      BY <1>1, <2>1
  <1>7. \A o : Width(code, Place(b, j, o)) = x
    BY <1>0, PlaceFacts DEF Width
  <1>8. \A o \in 1..x : PlaceIn(code, Place(b, j, o))
    <2> TAKE o \in 1..x
    <2>1. PICK u : u = Place(b, j, o)
      OBVIOUS
    <2>2. u.b = b /\ u.j = j /\ u.o = o /\ Width(code, u) = x
      BY <1>7, <2>1, PlaceFacts
    <2> QED
      BY <2>1, <2>2 DEF PlaceIn
  <1>9. ASSUME NEW q \in 1..(m + x) PROVE PlaceIn(code, s[q]) /\ Y[q] = Text(code, s[q])
    <2>1. CASE q \in 1..m
      <3>1. PlaceIn(code, r[q]) /\ W[q] = Text(code, r[q])
        BY <1>0, <2>1 DEF Walk
      <3>2. s[q] = r[q] /\ Y[q] = W[q]
        BY <1>3, <1>5, <2>1
      <3> QED
        BY <3>1, <3>2
    <2>2. ASSUME NEW o \in 1..x, q = m + o PROVE PlaceIn(code, s[q]) /\ Y[q] = Text(code, s[q])
      <3>0. s[m + o] = Place(b, j, o)
        BY <1>5, Zenon
      <3>0a. Y[m + o] = X[o]
        BY <1>3, Zenon
      <3>1. s[q] = Place(b, j, o) /\ Y[q] = X[o]
        BY <2>2, <3>0, <3>0a
      <3>2. X[o] = Text(code, Place(b, j, o)) /\ PlaceIn(code, Place(b, j, o))
        BY <1>0, <1>8
      <3> QED
        BY <3>1, <3>2
    <2> QED
      BY <1>6, <2>1, <2>2
  <1>10. ASSUME NEW q \in 1..(m + x), q < m + x PROVE Onwards(code, s[q], s[q + 1])
    <2>1. CASE q \in 1..m /\ q + 1 \in 1..m
      <3>1. q < m
        BY <1>1, <2>1
      <3> QED
        BY <1>0, <1>5, <2>1, <3>1 DEF Walk
    <2>2. CASE q \in 1..m /\ q + 1 \notin 1..m
      <3>1. q = m /\ m # 0 /\ 1 \in 1..x
        BY <1>1, <2>2
      <3>2. s[q] = r[m] /\ s[q + 1] = Place(b, j, 1)
        BY <1>5, <2>2, <3>1
      <3> QED
        BY <1>0, <3>1, <3>2
    <2>3. ASSUME NEW o \in 1..x, q = m + o PROVE Onwards(code, s[q], s[q + 1])
      <3>1. o < x /\ o + 1 \in 1..x /\ q + 1 = m + (o + 1)
        BY <1>1, <1>10, <2>3
      <3>2. s[q] = Place(b, j, o) /\ s[q + 1] = Place(b, j, o + 1)
        BY <1>5, <2>3, <3>1
      <3> QED
        BY <1>7, <3>1, <3>2, PlaceFacts DEF Onwards
    <2> QED
      BY <1>6, <2>1, <2>2, <2>3
  <1>11. Walk(Y, s, code)
    BY <1>3, <1>9, <1>10 DEF Walk
  <1>12. s[Len(Y)] = Place(b, j, x) /\ s[1] = Place(Entry, 0, 1)
    <2>1. s[m + x] = Place(b, j, x)
      <3>1. x \in 1..x
        BY <1>1
      <3> QED
        BY <1>5, <3>1
    <2>2. m = 0 => s[1] = Place(Entry, 0, 1)
      <3>1. m = 0 => 1 = m + 1 /\ 1 \in 1..x
        BY <1>1
      <3> QED
        BY <1>0, <1>5, <3>1
    <2>3. m # 0 => s[1] = Place(Entry, 0, 1)
      <3>1. m # 0 => 1 \in 1..m
        BY <1>1
      <3> QED
        BY <1>0, <1>5, <3>1
    <2> QED
      BY <1>3, <2>1, <2>2, <2>3
  <1>13. Len(Y) >= 1
    BY <1>1, <1>3
  <1>14. ComeTo(Y, s, code, b, j, n)
    BY <1>3, <1>7, <1>11, <1>12, <1>13 DEF ComeTo
  <1> QED
    BY <1>2, <1>14

(* The recursions that define Assemble and Body have solutions.            *)
LEMMA AssembleDef ==
    ASSUME NEW n, NEW c \in Seq(InstrOf(n))
    PROVE  \E f : /\ f[0] = <<>> /\ f[Len(c)] = Assemble(c)
                  /\ \A j \in 0..Len(c) : f[j] \in Seq(ArmOf(n))
                  /\ \A j \in 1..Len(c) : f[j] = f[j - 1] \o TranslateToAssembly(c[j])
  <1> DEFINE N == Len(c)
             X == Seq(ArmOf(n))
             T(j) == TranslateToAssembly(c[j])
             g == [p \in (1..N) \X X |-> p[2] \o T(p[1])]
             F(f) == [j \in 0..N |->
                         IF j = 0 THEN <<>> ELSE f[j - 1] \o TranslateToAssembly(c[j])]
  <1>1. N \in Nat /\ \A j \in 1..N : T(j) \in X
    <2>1. N \in Nat /\ \A j \in 1..N : c[j] \in InstrOf(n)
      BY LenProperties, ElementOfSeq
    <2> QED
      BY <2>1, AssemblyTypes
  <1>2. <<>> \in X /\ \A y, z \in X : y \o z \in X
    BY ConcatProperties
  <1> HIDE DEF T
  <1>3. g \in [(1..N) \X X -> X]
    <2> HIDE DEF X, N
    <2>1. \A p \in (1..N) \X X : p[1] \in 1..N /\ p[2] \in X
      OBVIOUS
    <2> QED
      BY <1>1, <1>2, <2>1
  <1>4. PICK f \in [0..N -> X] : f[0] = <<>> /\ \A j \in 1..N : f[j] = g[<<j, f[j - 1]>>]
    <2>1. Steps(N, X, <<>>, g)
      BY <1>1, <1>2, <1>3 DEF Steps
    <2> HIDE DEF X, N, g
    <2> QED
      BY <2>1, BoundedRecursion
  <1>5. ASSUME NEW j \in 1..N PROVE f[j] = f[j - 1] \o T(j)
    <2> HIDE DEF X, N
    <2>1. j - 1 \in 0..N /\ f[j - 1] \in X
      BY <1>1, <1>4
    <2>2. <<j, f[j - 1]>> \in (1..N) \X X
      BY <2>1
    <2> QED
      BY <1>4, <2>2
  <1>6. f = F(f)
    <2>1. ASSUME NEW j \in 0..N PROVE f[j] = F(f)[j]
      <3>1. CASE j = 0
        BY <1>4, <3>1
      <3>2. CASE j # 0
        <4>1. j \in 1..N
          BY <1>1, <3>2
        <4> QED
          BY <1>5, <3>2, <4>1 DEF T
      <3> QED
        BY <3>1, <3>2
    <2>2. f = [j \in 0..N |-> f[j]]
      BY <1>4
    <2>3. F(f) = [j \in 0..N |-> F(f)[j]]
      OBVIOUS
    <2> HIDE DEF F, N, X
    <2> QED
      BY <2>1, <2>2, <2>3
  <1>7. Assemble(c) = (CHOOSE h : h = F(h))[N]
    BY DEF Assemble
  <1> DEFINE h == CHOOSE h : h = F(h)
  <1>8. h = F(h)
    <2> HIDE DEF F
    <2> QED
      BY <1>6
  <1>9. N \in 0..N /\ 0 \in 0..N /\ \A j \in 1..N : j \in 0..N /\ j # 0
    BY <1>1
  <1> HIDE DEF h, N
  <1>10. h[0] = <<>>
    BY <1>8, <1>9
  <1>11. \A j \in 1..N : h[j] = h[j - 1] \o T(j)
    BY <1>8, <1>9 DEF T
  <1> DEFINE S == {j \in Nat : j <= N => h[j] \in X}
  <1>12. 0 \in S
    BY <1>2, <1>10
  <1>13. ASSUME NEW j \in Nat, j \in S PROVE j + 1 \in S
    <2> SUFFICES ASSUME j + 1 <= N PROVE h[j + 1] \in X
      OBVIOUS
    <2>1. j + 1 \in 1..N /\ (j + 1) - 1 = j /\ j <= N
      BY <1>1
    <2>2. h[j] \in X
      BY <1>13, <2>1
    <2>3. h[j + 1] = h[j] \o T(j + 1)
      BY <1>11, <2>1
    <2> QED
      BY <1>1, <1>2, <2>1, <2>2, <2>3
  <1> HIDE DEF S
  <1>14. \A j \in Nat : j \in S
    BY <1>12, <1>13, AllNats
  <1>15. \A j \in 0..N : h[j] \in X
    BY <1>1, <1>14 DEF S
  <1> QED
    BY <1>7, <1>10, <1>11, <1>15 DEF h, N, T

Laid(y, b) == Append(y, Label(b)) \o Assemble(blk[b].instrs)

Printable(p, n) ==
    /\ p = InOrderBlocks(blk) /\ p \in Seq(DOMAIN blk)
    /\ n \in Nat
    /\ \A b \in DOMAIN blk : blk[b].instrs \in Seq(InstrOf(n)) /\ Label(b) \in ArmOf(n)
Lays(f, p, n) ==
    /\ f[0] = <<>> /\ f[Len(p)] = Body
    /\ \A j \in 0..Len(p) : f[j] \in Seq(ArmOf(n))
    /\ \A j \in 1..Len(p) : f[j] = Laid(f[j - 1], p[j])

LEMMA BodyDef ==
    ASSUME NEW n, NEW p, Printable(p, n)
    PROVE  \E f : Lays(f, p, n)
  <1>0. /\ p = InOrderBlocks(blk) /\ p \in Seq(DOMAIN blk) /\ n \in Nat
        /\ \A b \in DOMAIN blk : blk[b].instrs \in Seq(InstrOf(n)) /\ Label(b) \in ArmOf(n)
    BY DEF Printable
  <1> DEFINE N == Len(p)
             X == Seq(ArmOf(n))
             g == [a \in (1..N) \X X |-> Laid(a[2], p[a[1]])]
             F(f) == [m \in 0..N |->
                         IF m = 0 THEN <<>>
                         ELSE Append(f[m - 1], Label(p[m])) \o Assemble(blk[p[m]].instrs)]
  <1>1. N \in Nat /\ \A j \in 1..N : p[j] \in DOMAIN blk
    BY <1>0, LenProperties, ElementOfSeq
  <1>2b. \A c \in Seq(InstrOf(n)) : Assemble(c) \in X
    <2> TAKE c \in Seq(InstrOf(n))
    <2>1. PICK f : f[Len(c)] = Assemble(c) /\ \A j \in 0..Len(c) : f[j] \in Seq(ArmOf(n))
      BY AssembleDef
    <2>2. Len(c) \in 0..Len(c)
      <3>1. Len(c) \in Nat
        BY LenProperties
      <3> QED
        BY <3>1
    <2> QED
      BY <2>1, <2>2
  <1>2a. \A b \in DOMAIN blk : Assemble(blk[b].instrs) \in X
    BY <1>0, <1>2b
  <1>2c. <<>> \in X
    OBVIOUS
  <1>2. \A y \in X : \A j \in 1..N : Laid(y, p[j]) \in X
    <2> TAKE y \in X
    <2> TAKE j \in 1..N
    <2>1. Append(y, Label(p[j])) \in X /\ Assemble(blk[p[j]].instrs) \in X
      BY <1>0, <1>1, <1>2a, AppendProperties
    <2> QED
      BY <2>1, ConcatProperties DEF Laid
  <1>3. g \in [(1..N) \X X -> X]
    <2> HIDE DEF X, N
    <2>1. \A a \in (1..N) \X X : a[1] \in 1..N /\ a[2] \in X
      OBVIOUS
    <2> QED
      BY <1>1, <1>2, <2>1
  <1>4. PICK f \in [0..N -> X] : f[0] = <<>> /\ \A j \in 1..N : f[j] = g[<<j, f[j - 1]>>]
    <2>1. Steps(N, X, <<>>, g)
      BY <1>1, <1>2c, <1>3 DEF Steps
    <2> HIDE DEF X, N, g
    <2> QED
      BY <2>1, BoundedRecursion
  <1>5. ASSUME NEW j \in 1..N PROVE f[j] = Laid(f[j - 1], p[j])
    <2> HIDE DEF X, N
    <2>1. j - 1 \in 0..N /\ f[j - 1] \in X
      BY <1>1, <1>4
    <2>2. <<j, f[j - 1]>> \in (1..N) \X X
      BY <2>1
    <2> QED
      BY <1>4, <2>2
  <1>6. f = F(f)
    <2>1. ASSUME NEW j \in 0..N PROVE f[j] = F(f)[j]
      <3>1. CASE j = 0
        BY <1>4, <3>1
      <3>2. CASE j # 0
        <4>1. j \in 1..N
          BY <1>1, <3>2
        <4> QED
          BY <1>5, <3>2, <4>1 DEF Laid
      <3> QED
        BY <3>1, <3>2
    <2>2. f = [j \in 0..N |-> f[j]]
      BY <1>4
    <2>3. F(f) = [j \in 0..N |-> F(f)[j]]
      OBVIOUS
    <2> HIDE DEF F, N, X
    <2> QED
      BY <2>1, <2>2, <2>3
  <1>7. Body = (CHOOSE h : h = F(h))[N]
    BY <1>0 DEF Body
  <1> DEFINE h == CHOOSE h : h = F(h)
  <1>8. h = F(h)
    <2> HIDE DEF F
    <2> QED
      BY <1>6
  <1>9. N \in 0..N /\ 0 \in 0..N /\ \A j \in 1..N : j \in 0..N /\ j # 0
    BY <1>1
  <1> HIDE DEF h, N
  <1>10. h[0] = <<>>
    BY <1>8, <1>9
  <1>11. \A j \in 1..N : h[j] = Laid(h[j - 1], p[j])
    BY <1>8, <1>9 DEF Laid
  <1> DEFINE S == {j \in Nat : j <= N => h[j] \in X}
  <1>12. 0 \in S
    BY <1>2c, <1>10
  <1>13. ASSUME NEW j \in Nat, j \in S PROVE j + 1 \in S
    <2> SUFFICES ASSUME j + 1 <= N PROVE h[j + 1] \in X
      OBVIOUS
    <2>1. j + 1 \in 1..N /\ (j + 1) - 1 = j /\ j <= N
      BY <1>1
    <2>2. h[j] \in X
      BY <1>13, <2>1
    <2>3. h[j + 1] = Laid(h[j], p[j + 1])
      BY <1>11, <2>1
    <2> QED
      BY <1>2, <2>1, <2>2, <2>3
  <1> HIDE DEF S
  <1>14. \A j \in Nat : j \in S
    BY <1>12, <1>13, AllNats
  <1>15. \A j \in 0..N : h[j] \in X
    BY <1>1, <1>14 DEF S
  <1>16. h[N] = Body
    BY <1>7 DEF h
  <1> HIDE DEF h
  <1> QED
    BY <1>10, <1>11, <1>15, <1>16 DEF N, Lays

LEMMA LabelWalks ==
    ASSUME NEW code, NEW n, Coded(code, n), NEW W \in Seq(ArmOf(n)), NEW r,
           NEW b \in DOMAIN code, Label(b) \in ArmOf(n),
           \/ W = <<>> /\ b = Entry
           \/ \E a : ComeTo(W, r, code, a, Len(code[a]), n)
    PROVE  \E s : ComeTo(Append(W, Label(b)), s, code, b, 0, n)
  <1> DEFINE X == <<Label(b)>>
  <1>1. X \in Seq(ArmOf(n)) /\ Len(X) = 1 /\ X[1] = Label(b) /\ W \o X = Append(W, Label(b))
    BY AppendIsConcat
  <1> HIDE DEF X
  <1>2. Len(W) \in Nat /\ Len(code[b]) \in Nat
    BY LenProperties DEF Coded
  <1>3. \A o : Width(code, Place(b, 0, o)) = 1 /\ Text(code, Place(b, 0, o)) = Label(b)
    BY PlaceFacts DEF Width, Text
  <1>4. \A o \in 1..Len(X) : X[o] = Text(code, Place(b, 0, o))
    <2>1. \A o \in 1..Len(X) : o = 1
      BY <1>1
    <2> QED
      BY <1>1, <1>3, <2>1
  <1>5. Walk(W, r, code) /\ (Len(W) = 0 \/ Onwards(code, r[Len(W)], Place(b, 0, 1)))
        /\ (Len(W) = 0 => b = Entry) /\ (Len(W) # 0 => r[1] = Place(Entry, 0, 1))
    <2>1. CASE W = <<>> /\ b = Entry
      <3>1. Len(W) = 0 /\ \A q \in 1..Len(W) : FALSE
        BY <2>1
      <3> QED
        BY <2>1, <3>1 DEF Walk
    <2>2. ASSUME NEW a, ComeTo(W, r, code, a, Len(code[a]), n)
          PROVE  Walk(W, r, code) /\ Len(W) >= 1 /\ Onwards(code, r[Len(W)], Place(b, 0, 1))
                 /\ r[1] = Place(Entry, 0, 1)
      <3>1. PICK j, u, v : j = Len(code[a]) /\ u = r[Len(W)] /\ v = Place(b, 0, 1)
        OBVIOUS
      <3>2. u = Place(a, j, Width(code, Place(a, j, 1)))
        BY <2>2, <3>1 DEF ComeTo
      <3>3. u.b = a /\ u.j = j /\ u.o = Width(code, Place(a, j, 1)) /\ v.b = b
        BY <3>1, <3>2, PlaceFacts
      <3>4. Width(code, u) = Width(code, Place(a, j, 1))
        BY <3>3, PlaceFacts DEF Width
      <3>5. Onwards(code, u, v)
        BY <3>1, <3>3, <3>4 DEF Onwards
      <3> QED
        BY <2>2, <3>1, <3>5 DEF ComeTo
    <2> QED
      BY <1>2, <2>1, <2>2
  <1>6. 0 \in 0..Len(code[b]) /\ Len(X) >= 1 /\ Len(X) = Width(code, Place(b, 0, 1))
    BY <1>1, <1>2, <1>3
  <1>7. Piece(X, code, b, 0, n)
    BY <1>1, <1>4, <1>6 DEF Piece
  <1>8. Ahead(W, r, code, b, 0, n)
    BY <1>5 DEF Ahead
  <1> QED
    BY <1>1, <1>7, <1>8, WalkLonger

LEMMA InstrWalks ==
    ASSUME NEW code, NEW n, Coded(code, n), NEW W, NEW r, NEW b, NEW j \in Nat,
           ComeTo(W, r, code, b, j, n), j + 1 <= Len(code[b])
    PROVE  \E s : ComeTo(W \o TranslateToAssembly(code[b][j + 1]), s, code, b, j + 1, n)
  <1>0. PICK c, k : c = code[b] /\ k = j + 1
    OBVIOUS
  <1>1. b \in DOMAIN code /\ c \in Seq(InstrOf(n)) /\ Len(c) \in Nat /\ k \in 1..Len(c) /\ k # 0
        /\ k \in 0..Len(code[b]) /\ j < Len(code[b])
    BY <1>0, LenProperties DEF ComeTo, Coded
  <1>2. PICK X : X = TranslateToAssembly(c[k])
    OBVIOUS
  <1>3. X \in Seq(ArmOf(n)) /\ Len(X) \in Nat \ {0}
    BY <1>1, <1>2, AssemblyTypes, ElementOfSeq
  <1>4. \A o : Width(code, Place(b, k, o)) = Len(X) /\ Text(code, Place(b, k, o)) = X[o]
    BY <1>0, <1>1, <1>2, PlaceFacts DEF Width, Text
  <1>5. Onwards(code, r[Len(W)], Place(b, k, 1))
    <2>1. PICK u, v : u = r[Len(W)] /\ v = Place(b, k, 1)
      OBVIOUS
    <2>2. u = Place(b, j, Width(code, Place(b, j, 1)))
      BY <2>1 DEF ComeTo
    <2>3. u.b = b /\ u.j = j /\ u.o = Width(code, Place(b, j, 1))
      BY <2>2, PlaceFacts
    <2>4. Width(code, u) = Width(code, Place(b, j, 1))
      BY <2>3, PlaceFacts DEF Width
    <2> QED
      BY <1>0, <1>1, <2>1, <2>3, <2>4 DEF Onwards
  <1>6. W \in Seq(ArmOf(n)) /\ Len(W) >= 1 /\ Walk(W, r, code) /\ r[1] = Place(Entry, 0, 1)
        /\ Len(W) # 0
    BY LenProperties DEF ComeTo
  <1>7. Piece(X, code, b, k, n)
    BY <1>1, <1>3, <1>4 DEF Piece
  <1>8. Ahead(W, r, code, b, k, n)
    BY <1>5, <1>6 DEF Ahead
  <1>9. \E s : ComeTo(W \o X, s, code, b, k, n)
    BY <1>7, <1>8, WalkLonger
  <1> QED
    BY <1>0, <1>2, <1>9

LEMMA BlockWalks ==
    ASSUME NEW code, NEW n, Coded(code, n), NEW W, NEW r, NEW b, ComeTo(W, r, code, b, 0, n)
    PROVE  \E s : ComeTo(W \o Assemble(code[b]), s, code, b, Len(code[b]), n)
  <1>0. PICK c : c = code[b]
    OBVIOUS
  <1>1. b \in DOMAIN code /\ c \in Seq(InstrOf(n)) /\ Len(c) \in Nat /\ W \in Seq(ArmOf(n))
    BY <1>0, LenProperties DEF ComeTo, Coded
  <1>2. PICK f : /\ f[0] = <<>> /\ f[Len(c)] = Assemble(c)
                 /\ \A j \in 0..Len(c) : f[j] \in Seq(ArmOf(n))
                 /\ \A j \in 1..Len(c) : f[j] = f[j - 1] \o TranslateToAssembly(c[j])
    BY <1>1, AssembleDef
  <1> DEFINE Comes(j) == \E s : ComeTo(W \o f[j], s, code, b, j, n)
             S == {j \in Nat : j <= Len(c) => Comes(j)}
  <1>3. 0 \in S
    <2>1. W \o f[0] = W
      BY <1>1, <1>2, ConcatEmptySeq
    <2>2. Comes(0)
      BY <2>1
    <2> HIDE DEF Comes
    <2> QED
      BY <2>2
  <1>4. ASSUME NEW j \in Nat, j \in S PROVE j + 1 \in S
    <2> SUFFICES ASSUME j + 1 <= Len(c) PROVE Comes(j + 1)
      OBVIOUS
    <2>1. j \in 0..Len(c) /\ j + 1 \in 1..Len(c) /\ (j + 1) - 1 = j /\ j <= Len(c)
      BY <1>1
    <2>2. PICK s : ComeTo(W \o f[j], s, code, b, j, n)
      BY <1>4, <2>1
    <2>3. PICK t : ComeTo((W \o f[j]) \o TranslateToAssembly(c[j + 1]), t, code, b, j + 1, n)
      BY <1>0, <2>2, InstrWalks
    <2>4. (W \o f[j]) \o TranslateToAssembly(c[j + 1]) = W \o f[j + 1]
      <3>1. f[j + 1] = f[j] \o TranslateToAssembly(c[j + 1])
        BY <1>2, <2>1
      <3>2. f[j] \in Seq(ArmOf(n)) /\ TranslateToAssembly(c[j + 1]) \in Seq(ArmOf(n))
        BY <1>1, <1>2, <2>1, AssemblyTypes, ElementOfSeq
      <3>3. (W \o f[j]) \o TranslateToAssembly(c[j + 1]) = W \o (f[j] \o TranslateToAssembly(c[j + 1]))
        <4>1. PICK A : A = ArmOf(n)
          OBVIOUS
        <4>2. PICK y, z : y = f[j] /\ z = TranslateToAssembly(c[j + 1])
          OBVIOUS
        <4>3. W \in Seq(A) /\ y \in Seq(A) /\ z \in Seq(A)
          BY <1>1, <3>2, <4>1, <4>2
        <4>4. (W \o y) \o z = W \o (y \o z)
          BY <4>3, ConcatAssociative, SMTT(20)
        <4> QED
          BY <4>2, <4>4
      <3> QED
        BY <3>1, <3>3
    <2> QED
      BY <2>3, <2>4
  <1> HIDE DEF S
  <1>5. \A j \in Nat : j \in S
    BY <1>3, <1>4, AllNats
  <1>6. Comes(Len(c))
    BY <1>1, <1>5 DEF S
  <1> QED
    BY <1>0, <1>2, <1>6

(* The whole body.                                                         *)
CodeNow == [b \in DOMAIN blk |-> blk[b].instrs]

LEMMA BodyWalks ==
    ASSUME BuildInv
    PROVE  \E r, b : ComeTo(Body, r, CodeNow, b, Len(CodeNow[b]), Count)
  <1>0. PICK n, code : n = Count /\ code = CodeNow
    OBVIOUS
  <1>1. /\ n \in Nat \ {0} /\ DOMAIN blk = 0..(n - 1) /\ DOMAIN code = DOMAIN blk
        /\ \A b \in DOMAIN blk : code[b] = blk[b].instrs /\ blk[b].instrs \in Seq(InstrOf(n))
    BY <1>0, LabelFacts DEF CodeNow
  <1>2. Coded(code, n) /\ n \in Nat
    BY <1>1 DEF Coded
  <1>3. \A b \in DOMAIN blk : Label(b) \in ArmOf(n)
    <2>1. 0 \in 0..(MaxTokens + 1)
      BY BoundsAssumption
    <2>2. \A b \in DOMAIN blk : b \in ArmDests(n)
      BY <1>1 DEF ArmDests
    <2> QED
      BY <2>1, <2>2 DEF Label, ARM, ArmOf
  <1>4. PICK p : p = InOrderBlocks(blk)
    OBVIOUS
  <1>5. p \in Seq(DOMAIN blk) /\ Len(p) >= 1 /\ p[1] = Entry
    <2>1. Graph(blk, n)
      BY <1>0, BlocksGraph
    <2> QED
      BY <1>1, <1>4, <2>1, InOrderVisited DEF Visited
  <1>6a. PICK f : Lays(f, p, n)
    <2>1. \A b \in DOMAIN blk : blk[b].instrs \in Seq(InstrOf(n))
      BY <1>1
    <2>2. Printable(p, n)
      BY <1>2, <1>3, <1>4, <1>5, <2>1 DEF Printable
    <2> QED
      BY <2>2, BodyDef
  <1>6. /\ f[0] = <<>> /\ f[Len(p)] = Body
        /\ \A j \in 0..Len(p) : f[j] \in Seq(ArmOf(n))
        /\ \A j \in 1..Len(p) : f[j] = Laid(f[j - 1], p[j])
    BY <1>6a DEF Lays
  <1>7. Len(p) \in Nat /\ \A j \in 1..Len(p) : p[j] \in DOMAIN blk
    BY <1>5, LenProperties, ElementOfSeq
  <1> DEFINE Comes(j) == \E r : ComeTo(f[j], r, code, p[j], Len(code[p[j]]), n)
             S == {j \in Nat : j + 1 <= Len(p) => Comes(j + 1)}
  <1>8. ASSUME NEW j \in 1..Len(p), j = 1 \/ Comes(j - 1) PROVE Comes(j)
    <2>1. p[j] \in DOMAIN code /\ f[j - 1] \in Seq(ArmOf(n)) /\ Label(p[j]) \in ArmOf(n)
      <3>1. j - 1 \in 0..Len(p)
        BY <1>7
      <3> QED
        BY <1>1, <1>3, <1>6, <1>7, <3>1
    <2>2. PICK r : \/ f[j - 1] = <<>> /\ p[j] = Entry
                   \/ \E a : ComeTo(f[j - 1], r, code, a, Len(code[a]), n)
      <3>1. j = 1 => f[j - 1] = <<>> /\ p[j] = Entry
        BY <1>5, <1>6
      <3> QED
        BY <1>8, <3>1
    <2>3. PICK s : ComeTo(Append(f[j - 1], Label(p[j])), s, code, p[j], 0, n)
      BY <1>2, <2>1, <2>2, LabelWalks
    <2>4. PICK t : ComeTo(Append(f[j - 1], Label(p[j])) \o Assemble(code[p[j]]), t, code, p[j], Len(code[p[j]]), n)
      BY <1>2, <2>3, BlockWalks
    <2>5. f[j] = Append(f[j - 1], Label(p[j])) \o Assemble(code[p[j]])
      BY <1>1, <1>6, <1>7 DEF Laid
    <2> QED
      BY <2>4, <2>5
  <1>9. 0 \in S
    <2>1. 0 + 1 <= Len(p) => 1 \in 1..Len(p) /\ 0 + 1 = 1
      BY <1>7
    <2> HIDE DEF Comes
    <2> QED
      BY <1>8, <2>1
  <1>10. ASSUME NEW j \in Nat, j \in S PROVE j + 1 \in S
    <2> HIDE DEF Comes
    <2> SUFFICES ASSUME (j + 1) + 1 <= Len(p) PROVE Comes((j + 1) + 1)
      OBVIOUS
    <2>1. j + 1 <= Len(p) /\ (j + 1) + 1 \in 1..Len(p) /\ ((j + 1) + 1) - 1 = j + 1
      BY <1>7
    <2>2. Comes(j + 1)
      BY <1>10, <2>1
    <2> QED
      BY <1>8, <2>1, <2>2
  <1> HIDE DEF S
  <1>11. \A j \in Nat : j \in S
    BY <1>9, <1>10, AllNats
  <1>12. Comes(Len(p))
    <2>1. PICK j \in Nat : j + 1 = Len(p)
      <3>1. Len(p) - 1 \in Nat /\ (Len(p) - 1) + 1 = Len(p)
        BY <1>5, <1>7
      <3> QED
        BY <3>1
    <2>2. j + 1 <= Len(p)
      BY <2>1
    <2> HIDE DEF Comes
    <2>3. Comes(j + 1)
      BY <1>11, <2>2 DEF S
    <2> QED
      BY <2>1, <2>3
  <1> QED
    BY <1>0, <1>6, <1>12

-----------------------------------------------------------------------------
(* What peephole removal leaves: position q of the body becomes g[q], that *)
(* of a branch removed the position of what follows it.                    *)

Thins(W, B, X, g) ==
    /\ X \subseteq 1..Len(W) /\ g[1] = 1
    /\ \A q \in 1..Len(W) : g[q] \in Nat /\ g[q + 1] = IF q \in X THEN g[q] ELSE g[q] + 1
    /\ \A q \in (1..Len(W)) \ X : g[q] \in 1..Len(B) /\ B[g[q]] = W[q]
    /\ \A i \in 1..Len(B) : \E q \in (1..Len(W)) \ X : g[q] = i

LEMMA NothingRemoved ==
    ASSUME NEW S, NEW W \in Seq(S)
    PROVE  \E g : Thins(W, W, {}, g)
  <1>1. Len(W) \in Nat
    BY LenProperties
  <1>2. PICK g : g = [q \in Nat |-> q]
    OBVIOUS
  <1>3. \A q \in Nat : g[q] = q
    BY <1>2
  <1>4. \A q \in 1..Len(W) : q \in Nat /\ q + 1 \in Nat
    BY <1>1
  <1>5. Thins(W, W, {}, g)
    BY <1>3, <1>4 DEF Thins
  <1> QED
    BY <1>5

LEMMA RemoveDef ==
    ASSUME NEW S, NEW W \in Seq(S)
    PROVE  \E f : /\ f[0] = <<>> /\ f[Len(W)] = RemoveInstrs(W)
                  /\ \A i \in 1..Len(W) :
                        f[i] = IF Removable(W, i) THEN f[i - 1] ELSE Append(f[i - 1], W[i])
  <1> DEFINE N == Len(W)
             X == Seq(S)
             g == [p \in (1..N) \X X |-> IF Removable(W, p[1]) THEN p[2] ELSE Append(p[2], W[p[1]])]
             F(f) == [i \in 0..N |->
                        IF i = 0 THEN <<>>
                        ELSE IF Removable(W, i) THEN f[i - 1] ELSE Append(f[i - 1], W[i])]
  <1>1. N \in Nat /\ \A j \in 1..N : W[j] \in S
    BY LenProperties, ElementOfSeq
  <1>2. <<>> \in X
    OBVIOUS
  <1>2a. \A y \in X : \A j \in 1..N : Append(y, W[j]) \in X
    BY <1>1, AppendProperties
  <1>3. g \in [(1..N) \X X -> X]
    <2> HIDE DEF X, N
    <2>1. \A a \in (1..N) \X X : a[1] \in 1..N /\ a[2] \in X
      OBVIOUS
    <2> QED
      BY <1>1, <1>2a, <2>1
  <1>4. PICK f \in [0..N -> X] : f[0] = <<>> /\ \A j \in 1..N : f[j] = g[<<j, f[j - 1]>>]
    <2>1. Steps(N, X, <<>>, g)
      BY <1>1, <1>2, <1>3 DEF Steps
    <2> HIDE DEF X, N, g
    <2> QED
      BY <2>1, BoundedRecursion
  <1>5. ASSUME NEW j \in 1..N PROVE f[j] = IF Removable(W, j) THEN f[j - 1] ELSE Append(f[j - 1], W[j])
    <2> HIDE DEF X, N
    <2>1. j - 1 \in 0..N /\ f[j - 1] \in X
      BY <1>1, <1>4
    <2>2. <<j, f[j - 1]>> \in (1..N) \X X
      BY <2>1
    <2> QED
      BY <1>4, <2>2
  <1>6. f = F(f)
    <2>1. ASSUME NEW j \in 0..N PROVE f[j] = F(f)[j]
      <3>1. CASE j = 0
        BY <1>4, <3>1
      <3>2. CASE j # 0
        <4>1. j \in 1..N
          BY <1>1, <3>2
        <4> QED
          BY <1>5, <3>2, <4>1
      <3> QED
        BY <3>1, <3>2
    <2>2. f = [j \in 0..N |-> f[j]]
      BY <1>4
    <2>3. F(f) = [j \in 0..N |-> F(f)[j]]
      OBVIOUS
    <2> HIDE DEF F, N, X
    <2> QED
      BY <2>1, <2>2, <2>3
  <1>7. RemoveInstrs(W) = (CHOOSE h : h = F(h))[N]
    BY DEF RemoveInstrs
  <1> DEFINE h == CHOOSE h : h = F(h)
  <1>8. h = F(h)
    <2> HIDE DEF F
    <2> QED
      BY <1>6
  <1>9. N \in 0..N /\ 0 \in 0..N /\ \A j \in 1..N : j \in 0..N /\ j # 0
    BY <1>1
  <1> HIDE DEF h, N
  <1>10. h[0] = <<>>
    BY <1>8, <1>9
  <1>11. \A j \in 1..N : h[j] = IF Removable(W, j) THEN h[j - 1] ELSE Append(h[j - 1], W[j])
    BY <1>8, <1>9
  <1> QED
    BY <1>7, <1>10, <1>11 DEF h, N

LEMMA RemovedThins ==
    ASSUME NEW S, NEW W \in Seq(S)
    PROVE  /\ RemoveInstrs(W) \in Seq(S)
           /\ \E g : Thins(W, RemoveInstrs(W), {q \in 1..Len(W) : Removable(W, q)}, g)
  <1>0. PICK N : N = Len(W)
    OBVIOUS
  <1>1. N \in Nat /\ \A q \in 1..N : W[q] \in S
    BY <1>0, LenProperties, ElementOfSeq
  <1>2. PICK X : X = {q \in 1..N : Removable(W, q)}
    OBVIOUS
  <1>3. PICK f : /\ f[0] = <<>> /\ f[N] = RemoveInstrs(W)
                 /\ \A i \in 1..N : f[i] = IF i \in X THEN f[i - 1] ELSE Append(f[i - 1], W[i])
    BY <1>0, <1>2, RemoveDef
  <1>4. PICK g : g = [q \in 1..(N + 1) |-> Len(f[q - 1]) + 1]
    OBVIOUS
  <1>5. \A q \in 1..(N + 1) : g[q] = Len(f[q - 1]) + 1
    BY <1>4
  <1> DEFINE Kept(n) ==
                 /\ f[n] \in Seq(S) /\ Len(f[n]) \in Nat
                 /\ \A q \in 1..n : g[q] \in Nat
                 /\ \A q \in (1..n) \ X : g[q] \in 1..Len(f[n]) /\ f[n][g[q]] = W[q]
                 /\ \A i \in 1..Len(f[n]) : \E q \in (1..n) \ X : g[q] = i
             Z == {n \in Nat : n <= N => Kept(n)}
  <1>6. 0 \in Z
    <2>1. f[0] \in Seq(S) /\ Len(f[0]) = 0 /\ 1..0 = {}
      BY <1>3
    <2>2. Kept(0)
      BY <2>1
    <2> HIDE DEF Kept
    <2> QED
      BY <2>2
  <1>7. ASSUME NEW n \in Nat, n \in Z PROVE n + 1 \in Z
    <2> SUFFICES ASSUME n + 1 <= N PROVE Kept(n + 1)
      OBVIOUS
    <2>1. n <= N /\ n + 1 \in 1..N /\ n + 1 \in 1..(N + 1) /\ (n + 1) - 1 = n
      BY <1>1
    <2>2. Kept(n)
      BY <1>7, <2>1
    <2>3. PICK m, y, z : m = n + 1 /\ y = f[n] /\ z = f[m]
      OBVIOUS
    <2>4. y \in Seq(S) /\ Len(y) \in Nat /\ g[m] = Len(y) + 1
      BY <1>5, <2>1, <2>2, <2>3
    <2>5. 1..m = (1..n) \cup {m} /\ m \notin 1..n /\ m \in 1..N
      BY <2>1, <2>3
    <2>6. z = IF m \in X THEN y ELSE Append(y, W[m])
      BY <1>3, <2>1, <2>3
    <2>7. CASE m \in X
      <3>1. z = y /\ (1..m) \ X = (1..n) \ X
        BY <2>5, <2>6, <2>7
      <3> QED
        BY <2>2, <2>3, <2>4, <2>5, <3>1
    <2>8. CASE m \notin X
      <3>1. /\ z \in Seq(S) /\ Len(z) = Len(y) + 1 /\ z[Len(y) + 1] = W[m]
            /\ \A i \in 1..Len(y) : z[i] = y[i]
        BY <1>1, <2>4, <2>5, <2>6, <2>8, AppendProperties
      <3>2. \A q \in (1..m) \ X : g[q] \in 1..Len(z) /\ z[g[q]] = W[q]
        <4> TAKE q \in (1..m) \ X
        <4>1. CASE q = m
          <5>1. Len(y) + 1 \in 1..Len(z)
            BY <2>4, <3>1
          <5> QED
            BY <2>4, <3>1, <4>1, <5>1
        <4>2. CASE q # m
          <5>1. g[q] \in 1..Len(y) /\ y[g[q]] = W[q]
            BY <2>2, <2>3, <2>5, <4>2
          <5>2. g[q] \in 1..Len(z)
            BY <2>4, <3>1, <5>1
          <5> QED
            BY <3>1, <5>1, <5>2
        <4> QED
          BY <4>1, <4>2
      <3>3. \A i \in 1..Len(z) : \E q \in (1..m) \ X : g[q] = i
        <4> TAKE i \in 1..Len(z)
        <4>1. CASE i = Len(y) + 1
          BY <2>4, <2>5, <2>8, <4>1
        <4>2. CASE i # Len(y) + 1
          <5>1. i \in 1..Len(y)
            BY <2>4, <3>1, <4>2
          <5>2. PICK q \in (1..n) \ X : g[q] = i
            BY <2>2, <2>3, <5>1
          <5> QED
            BY <2>5, <5>2
        <4> QED
          BY <4>1, <4>2
      <3>4. \A q \in 1..m : g[q] \in Nat
        <4>1. g[m] \in Nat
          BY <2>4
        <4>2. \A q \in 1..n : g[q] \in Nat
          BY <2>2
        <4> QED
          BY <2>5, <4>1, <4>2
      <3>5. Len(z) \in Nat
        BY <2>4, <3>1
      <3> QED
        BY <2>3, <3>1, <3>2, <3>3, <3>4, <3>5
    <2> QED
      BY <2>7, <2>8
  <1> HIDE DEF Z
  <1>8. \A n \in Nat : n \in Z
    BY <1>6, <1>7, AllNats
  <1>9. \A n \in 0..N : Kept(n)
    BY <1>1, <1>8 DEF Z
  <1>10. Kept(N)
    BY <1>1, <1>9
  <1>11. g[1] = 1
    <2>1. 1 \in 1..(N + 1) /\ 1 - 1 = 0
      BY <1>1
    <2>2. Len(f[0]) = 0
      BY <1>3
    <2> QED
      BY <1>5, <2>1, <2>2
  <1>12. ASSUME NEW q \in 1..N PROVE g[q + 1] = IF q \in X THEN g[q] ELSE g[q] + 1
    <2>1. q \in 1..(N + 1) /\ q + 1 \in 1..(N + 1) /\ (q + 1) - 1 = q /\ q - 1 \in 0..N
      BY <1>1
    <2>2. g[q + 1] = Len(f[q]) + 1 /\ g[q] = Len(f[q - 1]) + 1
      BY <1>5, <2>1
    <2>3. f[q] = IF q \in X THEN f[q - 1] ELSE Append(f[q - 1], W[q])
      BY <1>3
    <2>4. f[q - 1] \in Seq(S) /\ Len(f[q - 1]) \in Nat
      BY <1>9, <2>1
    <2>5. Len(Append(f[q - 1], W[q])) = Len(f[q - 1]) + 1
      BY <1>1, <2>4, AppendProperties
    <2> QED
      BY <2>2, <2>3, <2>5
  <1>13. Thins(W, RemoveInstrs(W), X, g)
    BY <1>0, <1>2, <1>3, <1>10, <1>11, <1>12 DEF Thins
  <1> QED
    BY <1>0, <1>2, <1>3, <1>10, <1>13

-----------------------------------------------------------------------------
(* What there is to run: the chart w of the statements, the code of every  *)
(* block, the blocks that control can come to, and the body W with the     *)
(* place r[q] of each of its instructions.                                 *)

Ready(m) ==
    /\ Settled(m.w)
    /\ Coded(m.code, m.n) /\ DOMAIN m.code \subseteq Nat
    /\ m.W \in Seq(ArmOf(m.n)) /\ Len(m.W) >= 1 /\ Walk(m.W, m.r, m.code)
    /\ m.r[1] = Place(Entry, 0, 1)
    /\ \E b : m.r[Len(m.W)] = Place(b, Len(m.code[b]), Width(m.code, Place(b, Len(m.code[b]), 1)))
    /\ Entry \in m.good /\ m.w.at[Entry] = 1
    /\ \A b \in m.good :
          /\ b \in DOMAIN m.code /\ m.w.at[b] # 0
          /\ FirstTerminator(m.code[b]) # {}
          /\ FitsFrom(m.w, m.code[b], m.w.at[b], TRUE)
          /\ \A d \in Leaves(m.code[b]) : m.w.at[d] # 0 => d \in m.good

(* Control may go to block d next.                                         *)
Target(m, A, e, d) == d \in m.good /\ Due(m.w.prog, A, e, m.w.at[d])

Unended(c, j) == \A i \in 1..(j - 1) : ~IsTerminator(c[i])

AtLabel(m, A, q, e) == m.r[q].j = 0 /\ Target(m, A, e, m.r[q].b)
BeforeLabel(m, A, q, e) ==
    m.r[q].j = 0 /\ q + 1 \in 1..Len(m.W) /\ AtLabel(m, A, q + 1, e)
InBlock(m, q) ==
    m.r[q].j >= 1 /\ m.r[q].b \in m.good /\ Unended(m.code[m.r[q].b], m.r[q].j)
InstrAt(m, q) == m.code[m.r[q].b][m.r[q].j]
StmtAt(m, q) == m.w.at[m.r[q].b] + m.r[q].j - 1
AtInstrStart(m, A, q, e) ==
    /\ InBlock(m, q) /\ m.r[q].o = 1
    /\ IF InstrAt(m, q).op = "BrCond" THEN e = Event("ran", StmtAt(m, q) - 1)
       ELSE Due(m.w.prog, A, e, StmtAt(m, q))
AtReturn(m, A, q, e) ==
    InBlock(m, q) /\ m.r[q].o = 2 /\ InstrAt(m, q).op = "Ret" /\ Ends(m.w.prog, e)
AtBEq(m, A, q, f, e) ==
    /\ InBlock(m, q) /\ m.r[q].o = 2 /\ InstrAt(m, q).op = "BrCond"
    /\ Target(m, A, e, InstrAt(m, q).dests[IF f THEN 1 ELSE 2])
AtBNe(m, A, q, f, e) ==
    /\ InBlock(m, q) /\ m.r[q].o = 3 /\ InstrAt(m, q).op = "BrCond"
    /\ Target(m, A, e, InstrAt(m, q).dests[IF f THEN 1 ELSE 2])
    /\ f => q + 1 \in 1..Len(m.W) /\ m.W[q + 1] = Label(InstrAt(m, q).dests[1])
Stands(m, A, q, f, e) ==
    \/ AtLabel(m, A, q, e) \/ BeforeLabel(m, A, q, e)
    \/ AtInstrStart(m, A, q, e)
    \/ AtReturn(m, A, q, e) \/ AtBEq(m, A, q, f, e) \/ AtBNe(m, A, q, f, e)

(* What stands at a place of the body, and what follows.                   *)
LEMMA ReadAt ==
    ASSUME NEW m, Ready(m), NEW q \in 1..Len(m.W), NEW u, u = m.r[q]
    PROVE  /\ u = Place(u.b, u.j, u.o) /\ u.b \in DOMAIN m.code /\ m.code[u.b] \in Seq(InstrOf(m.n))
           /\ Len(m.code[u.b]) \in Nat /\ u.j \in 0..Len(m.code[u.b])
           /\ u.o \in 1..Width(m.code, u)
           /\ m.W[q] = Text(m.code, u)
           /\ u.j = 0 => m.W[q] = Label(u.b)
           /\ u.j # 0 => /\ m.code[u.b][u.j] \in InstrOf(m.n)
                         /\ m.W[q] = TranslateToAssembly(m.code[u.b][u.j])[u.o]
                         /\ m.W[q].op # "Label"
                         /\ u.o \in 1..Len(TranslateToAssembly(m.code[u.b][u.j]))
  <1>1. PlaceIn(m.code, u) /\ m.W[q] = Text(m.code, u)
    BY DEF Ready, Walk
  <1>2. u.b \in DOMAIN m.code /\ m.code[u.b] \in Seq(InstrOf(m.n)) /\ Len(m.code[u.b]) \in Nat
    BY <1>1, LenProperties DEF PlaceIn, Ready, Coded
  <1>3. u.j \in 0..Len(m.code[u.b]) /\ u.o \in 1..Width(m.code, u) /\ u = Place(u.b, u.j, u.o)
    BY <1>1 DEF PlaceIn
  <1>4. u.j = 0 => m.W[q] = Label(u.b)
    BY <1>1 DEF Text
  <1>5. ASSUME u.j # 0
        PROVE  /\ m.code[u.b][u.j] \in InstrOf(m.n)
               /\ m.W[q] = TranslateToAssembly(m.code[u.b][u.j])[u.o]
               /\ m.W[q].op # "Label"
               /\ u.o \in 1..Len(TranslateToAssembly(m.code[u.b][u.j]))
    <2>1. u.j \in 1..Len(m.code[u.b])
      BY <1>2, <1>3, <1>5
    <2>2. m.code[u.b][u.j] \in InstrOf(m.n)
      BY <1>2, <2>1, ElementOfSeq
    <2>3. m.W[q] = TranslateToAssembly(m.code[u.b][u.j])[u.o]
      BY <1>1, <1>5 DEF Text
    <2>4. u.o \in 1..Len(TranslateToAssembly(m.code[u.b][u.j]))
      BY <1>3, <1>5 DEF Width
    <2>5. m.W[q].op # "Label"
      BY <2>2, <2>3, <2>4, AssemblyTypes
    <2> QED
      BY <2>2, <2>3, <2>4, <2>5
  <1> QED
    BY <1>1, <1>2, <1>3, <1>4, <1>5

(* The same of an instruction that has been named.                         *)
ReadsAs(m, q, i, o) ==
    /\ i \in InstrOf(m.n) /\ m.W[q] = TranslateToAssembly(i)[o] /\ m.W[q].op # "Label"
    /\ o \in 1..Len(TranslateToAssembly(i))

LEMMA InstrReadAt ==
    ASSUME NEW m, Ready(m), NEW q \in 1..Len(m.W), m.r[q].j # 0
    PROVE  ReadsAs(m, q, m.code[m.r[q].b][m.r[q].j], m.r[q].o)
  <1>1. PICK u : u = m.r[q]
    OBVIOUS
  <1>2. ReadsAs(m, q, m.code[u.b][u.j], u.o)
    BY <1>1, ReadAt DEF ReadsAs
  <1> QED
    BY <1>1, <1>2

LEMMA LabelAt ==
    ASSUME NEW m, Ready(m), NEW q \in 1..Len(m.W), NEW d, m.W[q] = Label(d)
    PROVE  m.r[q].j = 0 /\ m.r[q].b = d /\ d \in Nat
  <1>1. PICK u : u = m.r[q]
    OBVIOUS
  <1>2. m.W[q].op = "Label"
    BY DEF Label, ARM
  <1>3. u.j = 0 /\ m.W[q] = Label(u.b) /\ u.b \in DOMAIN m.code
    BY <1>1, <1>2, ReadAt
  <1>4. \A a, b : Label(a) = Label(b) => a = b
    <2>1. \A a : Label(a).dest = a
      BY DEF Label, ARM
    <2> QED
      BY <2>1
  <1> QED
    BY <1>1, <1>3, <1>4 DEF Ready

LEMMA NextAt ==
    ASSUME NEW m, Ready(m), NEW q \in 1..Len(m.W), NEW u, u = m.r[q],
           u.o # Width(m.code, u) \/ u.j # Len(m.code[u.b])
    PROVE  /\ q + 1 \in 1..Len(m.W)
           /\ \/ u.o < Width(m.code, u) /\ m.r[q + 1] = Place(u.b, u.j, u.o + 1)
              \/ u.o = Width(m.code, u) /\ u.j < Len(m.code[u.b]) /\ m.r[q + 1] = Place(u.b, u.j + 1, 1)
  <1>1. Len(m.W) \in Nat
    BY LenProperties DEF Ready
  <1>2. PICK b : m.r[Len(m.W)] = Place(b, Len(m.code[b]), Width(m.code, Place(b, Len(m.code[b]), 1)))
    BY DEF Ready
  <1>3. q # Len(m.W)
    <2> SUFFICES ASSUME q = Len(m.W) PROVE FALSE
      OBVIOUS
    <2>1. u.b = b /\ u.j = Len(m.code[b]) /\ u.o = Width(m.code, Place(b, Len(m.code[b]), 1))
      BY <1>2, PlaceFacts
    <2>2. Width(m.code, u) = Width(m.code, Place(b, Len(m.code[b]), 1))
      BY <2>1, PlaceFacts DEF Width
    <2> QED
      BY <2>1, <2>2
  <1>4. q < Len(m.W) /\ q + 1 \in 1..Len(m.W)
    BY <1>1, <1>3
  <1>5. Onwards(m.code, u, m.r[q + 1])
    BY <1>4 DEF Ready, Walk
  <1> QED
    BY <1>4, <1>5 DEF Onwards

-----------------------------------------------------------------------------
(* What an instruction of a block stands for when control comes to it.     *)

CodeAt(m, c, j, k) ==
    /\ c[j] = Code(k) /\ k \in 1..Len(m.w.prog) /\ j + 1 \in 1..Len(c)
    /\ IF c[j + 1].op = "BrCond" THEN m.w.prog[k] \in Openers ELSE m.w.prog[k] = "stm"
RetAt(m, c, j, k) ==
    /\ c[j] = Ret(k) /\ k \in 1..(Len(m.w.prog) + 1)
    /\ k = Len(m.w.prog) + 1 \/ m.w.prog[k] = "ret"
BrAt(m, A, c, j, k) ==
    \E d \in Nat : c[j] = Br(d) /\ \A e : Due(m.w.prog, A, e, k) => Target(m, A, e, d)
BrCondAt(m, A, c, j, k) ==
    \E t, f \in Nat :
        /\ c[j] = BrCond(k - 1, t, f) /\ k - 1 \in 1..Len(m.w.prog)
        /\ m.w.prog[k - 1] \in Openers /\ j > 1 /\ j = Len(c)
        /\ Target(m, A, Event("true", k - 1), t) /\ Target(m, A, Event("false", k - 1), f)

LEMMA OpFacts ==
    /\ \A k : Code(k).op = "Code" /\ Code(k).at = k
    /\ \A k : Ret(k).op = "Ret" /\ Ret(k).at = k
    /\ \A d : Br(d).op = "Br" /\ Br(d).dests = <<d>>
    /\ \A k, t, f : BrCond(k, t, f).op = "BrCond" /\ BrCond(k, t, f).at = k
                    /\ BrCond(k, t, f).dests = <<t, f>>
  BY DEF Code, Ret, Br, BrCond

LEMMA LeadsIn ==
    ASSUME NEW m, Ready(m), NEW b \in m.good, NEW c, c = m.code[b],
           NEW j \in 1..Len(c), Unended(c, j), IsTerminator(c[j]),
           NEW i \in 1..Len(c[j].dests), m.w.at[c[j].dests[i]] # 0
    PROVE  c[j].dests[i] \in m.good
  <1>1. c \in Seq(InstrOf(m.n))
    BY DEF Ready, Coded
  <1>2. j \in FirstTerminator(c)
    BY <1>1 DEF FirstTerminator, Unended
  <1>3. Leaves(c) = ToSet(c[j].dests)
    BY <1>1, <1>2, LeavesByTerminator
  <1>4. c[j].dests \in Seq(0..(m.n - 1))
    <2>1. c[j] \in InstrOf(m.n)
      BY <1>1, ElementOfSeq
    <2> QED
      BY <2>1 DEF InstrOf
  <1>5. DOMAIN c[j].dests = 1..Len(c[j].dests)
    BY <1>4
  <1>6. c[j].dests[i] \in ToSet(c[j].dests)
    BY <1>5 DEF ToSet
  <1> QED
    BY <1>3, <1>6 DEF Ready

LEMMA InstrFacts ==
    ASSUME NEW m, Ready(m), NEW A, Arrival(m.w.prog, A), NEW b \in m.good, NEW c, c = m.code[b],
           NEW j \in 1..Len(c), Unended(c, j), NEW k, k = m.w.at[b] + j - 1
    PROVE  CodeAt(m, c, j, k) \/ RetAt(m, c, j, k) \/ BrAt(m, A, c, j, k) \/ BrCondAt(m, A, c, j, k)
  <1>0. PICK w, a : w = m.w /\ a = w.at[b]
    OBVIOUS
  <1>1. /\ c \in Seq(InstrOf(m.n)) /\ Len(c) \in Nat /\ DOMAIN c = 1..Len(c)
        /\ FitsFrom(w, c, a, TRUE) /\ FirstTerminator(c) # {}
        /\ Settled(w) /\ w.at \in [Nat -> Nat] /\ Len(w.prog) \in Nat
        /\ b \in Nat /\ a # 0
    <2>1. Ready(m)
      OBVIOUS
    <2>2. Settled(w) /\ DOMAIN m.code \subseteq Nat /\ Coded(m.code, m.n) /\ b \in DOMAIN m.code
          /\ m.w.at[b] # 0 /\ FirstTerminator(m.code[b]) # {} /\ FitsFrom(m.w, m.code[b], m.w.at[b], TRUE)
      BY <1>0 DEF Ready
    <2>3. c \in Seq(InstrOf(m.n))
      BY <2>2 DEF Coded
    <2>4. w.at \in [Nat -> Nat] /\ w.prog \in Seq(Tokens)
      BY <2>2 DEF Settled, Whole
    <2> QED
      BY <1>0, <2>2, <2>3, <2>4, LenProperties
  <1>2. a \in Nat /\ a >= 1 /\ k = a + j - 1 /\ k \in Nat
    <2>1. a \in Nat
      BY <1>0, <1>1
    <2>2. k = a + j - 1
      BY <1>0
    <2>3. j \in Nat /\ j >= 1
      BY <1>1
    <2>4. \A x \in Nat : x # 0 => \A y \in Nat : y >= 1 => x >= 1 /\ x + y - 1 \in Nat
      OBVIOUS
    <2>5. a >= 1 /\ a + j - 1 \in Nat
      BY <1>1, <2>1, <2>3, <2>4
    <2> QED
      BY <2>1, <2>2, <2>5
  <1>2a. PICK N \in Nat : N = Len(c)
    BY <1>1
  <1>2b. PICK P \in Nat : P = Len(w.prog)
    BY <1>1
  <1>3. Fits(w, c, j, k, TRUE)
    BY <1>0, <1>1, <1>2 DEF FitsFrom
  <1>4. CASE FitsCode(w, c, j, k)
    <2>1. ~IsTerminator(c[j])
      BY <1>4, OpFacts DEF FitsCode, IsTerminator
    <2>2. PICK i \in FirstTerminator(c) : TRUE
      BY <1>1
    <2>3. i \in 1..Len(c) /\ IsTerminator(c[i])
      BY <1>1, <2>2 DEF FirstTerminator
    <2>4. i > j
      <3>1. ~(i \in 1..(j - 1)) /\ i # j
        BY <2>1, <2>3 DEF Unended
      <3> QED
        BY <1>1, <2>3, <3>1
    <2>5. j + 1 \in 1..Len(c)
      <3>1. i \in 1..N /\ j \in 1..N
        BY <1>2a, <2>3
      <3> QED
        BY <1>2a, <2>4, <3>1
    <2>6. ASSUME c[j + 1].op = "BrCond" PROVE w.prog[k] \in Openers
      <3>1. a + (j + 1) - 1 = k + 1 /\ (k + 1) - 1 = k
        <4>1. \A x, y \in Int : x + (y + 1) - 1 = (x + y - 1) + 1 /\ ((x + y - 1) + 1) - 1 = x + y - 1
          OBVIOUS
        <4>2. j \in Int /\ a \in Int
          BY <1>2, <1>2a
        <4> QED
          BY <1>2, <4>1, <4>2
      <3>2. Fits(w, c, j + 1, k + 1, TRUE)
        BY <1>1, <2>5, <3>1 DEF FitsFrom
      <3>3. FitsBrCond(w, c, j + 1, k + 1)
        BY <2>6, <3>2, OpFacts DEF Fits, FitsCode, FitsRet, FitsBr
      <3> QED
        BY <3>1, <3>3 DEF FitsBrCond, Openers
    <2>7. ASSUME c[j + 1].op # "BrCond" PROVE w.prog[k] = "stm"
      BY <1>4, <2>7 DEF FitsCode
    <2> QED
      BY <1>0, <1>4, <2>5, <2>6, <2>7 DEF CodeAt, FitsCode
  <1>5. CASE FitsRet(w, c, j, k, TRUE)
    <2>1. k \in 1..(Len(w.prog) + 1)
      <3>1. k \in 1..P \/ k = P + 1
        BY <1>2b, <1>5 DEF FitsRet
      <3>2. k \in 1..(P + 1)
        BY <3>1
      <3> QED
        BY <1>2b, <3>2
    <2> QED
      BY <1>0, <1>5, <2>1 DEF RetAt, FitsRet
  <1>6. CASE FitsBr(w, c, j, k)
    <2>1. PICK d \in Nat : c[j] = Br(d) /\ k \in 1..Len(w.prog) /\ BranchTo(w, k, d)
      BY <1>6 DEF FitsBr
    <2>2. IsTerminator(c[j]) /\ c[j].dests = <<d>>
      BY <2>1, OpFacts DEF IsTerminator
    <2>3. ASSUME NEW e, Due(w.prog, A, e, k) PROVE Target(m, A, e, d)
      <3>1. w.at[d] \in 1..(Len(w.prog) + 1) /\ Due(w.prog, A, e, w.at[d])
        <4>1. Arrival(w.prog, A) /\ Settled(w) /\ BranchTo(w, k, d)
          BY <1>0, <1>1, <2>1
        <4> QED
          BY <2>1, <2>3, <4>1, BranchLeads
      <3>2. w.at[d] # 0
        BY <1>2b, <3>1
      <3>3. 1 \in 1..Len(c[j].dests) /\ c[j].dests[1] = d
        BY <2>2
      <3>4. d \in m.good
        BY <1>0, <2>2, <3>2, <3>3, LeadsIn
      <3> QED
        BY <1>0, <3>1, <3>4 DEF Target
    <2> QED
      BY <1>0, <2>1, <2>3 DEF BrAt
  <1>7. CASE FitsBrCond(w, c, j, k)
    <2>1. PICK t, f \in Nat : /\ c[j] = BrCond(k - 1, t, f) /\ k - 1 \in 1..Len(w.prog)
                              /\ j > 1 /\ j = Len(c) /\ w.at[t] = k
                              /\ \/ w.prog[k - 1] = "if" /\ IfTo(w, k - 1, f)
                                 \/ w.prog[k - 1] = "for" /\ ForTo(w, k - 1, f)
      BY <1>7 DEF FitsBrCond
    <2>2. IsTerminator(c[j]) /\ c[j].dests = <<t, f>>
      BY <2>1, OpFacts DEF IsTerminator
    <2>3. PICK l : l = k - 1
      OBVIOUS
    <2>4. l \in 1..Len(w.prog) /\ w.at[t] = l + 1
      <3>1. k = l + 1
        BY <1>2, <2>3
      <3> QED
        BY <2>1, <2>3, <3>1
    <2>5. /\ w.at[t] \in 1..(Len(w.prog) + 1) /\ w.at[f] \in 1..(Len(w.prog) + 1)
          /\ Goes(w.prog, Event("true", l), w.at[t])
          /\ Goes(w.prog, Event("false", l), w.at[f])
      BY <1>1, <2>1, <2>3, <2>4, TestLeads
    <2>6. w.at[t] # 0 /\ w.at[f] # 0
      BY <1>2b, <2>5
    <2>7. /\ 1 \in 1..Len(c[j].dests) /\ c[j].dests[1] = t
          /\ 2 \in 1..Len(c[j].dests) /\ c[j].dests[2] = f
      BY <2>2
    <2>8. t \in m.good
      BY <1>0, <2>2, <2>6, <2>7, LeadsIn
    <2>9. f \in m.good
      BY <1>0, <2>2, <2>6, <2>7, LeadsIn
    <2>10. Due(w.prog, A, Event("true", l), w.at[t]) /\ Due(w.prog, A, Event("false", l), w.at[f])
      BY <2>5 DEF Due
    <2>11. Target(m, A, Event("true", l), t) /\ Target(m, A, Event("false", l), f)
      BY <1>0, <2>8, <2>9, <2>10 DEF Target
    <2>12. w.prog[l] \in Openers
      BY <2>1, <2>3 DEF Openers
    <2> QED
      BY <1>0, <2>1, <2>3, <2>11, <2>12 DEF BrCondAt
  <1> QED
    BY <1>3, <1>4, <1>5, <1>6, <1>7 DEF Fits

-----------------------------------------------------------------------------
(* From one instruction of the body to the next.                           *)

LEMMA ArmFacts ==
    \A op, at, d : ARM(op, at, d).op = op /\ ARM(op, at, d).at = at /\ ARM(op, at, d).dest = d
  BY DEF ARM

Sorts(m, A, q) ==
    LET c == m.code[m.r[q].b]
        j == m.r[q].j
        k == StmtAt(m, q)
    IN  CodeAt(m, c, j, k) \/ RetAt(m, c, j, k) \/ BrAt(m, A, c, j, k) \/ BrCondAt(m, A, c, j, k)
Reads(m, q) ==
    LET x == TranslateToAssembly(InstrAt(m, q))
    IN  /\ m.r[q].b \in m.good /\ m.r[q].j \in 1..Len(m.code[m.r[q].b])
        /\ InstrAt(m, q) \in InstrOf(m.n)
        /\ Len(m.code[m.r[q].b]) \in Nat
        /\ m.W[q] = x[m.r[q].o] /\ m.r[q].o \in 1..Len(x) /\ Len(x) \in Nat
        /\ Width(m.code, m.r[q]) = Len(x)

LEMMA HereAt ==
    ASSUME NEW m, Ready(m), NEW q \in 1..Len(m.W), InBlock(m, q)
    PROVE  Reads(m, q) /\ \A A : Arrival(m.w.prog, A) => Sorts(m, A, q)
  <1>1. PICK u, c, x : u = m.r[q] /\ c = m.code[u.b] /\ x = TranslateToAssembly(c[u.j])
    OBVIOUS
  <1>2. u.b \in m.good /\ u.j >= 1 /\ Unended(c, u.j)
    BY <1>1 DEF InBlock
  <1>3. /\ c \in Seq(InstrOf(m.n)) /\ Len(c) \in Nat /\ u.j \in 0..Len(c) /\ u.j # 0
        /\ c[u.j] \in InstrOf(m.n) /\ m.W[q] = x[u.o] /\ u.o \in 1..Len(x)
    <2>1. u.j # 0
      BY <1>2
    <2>2. c \in Seq(InstrOf(m.n)) /\ Len(c) \in Nat /\ u.j \in 0..Len(c)
      BY <1>1, ReadAt
    <2>3. c[u.j] \in InstrOf(m.n) /\ m.W[q] = x[u.o]
      <3>1. ReadsAs(m, q, c[u.j], u.o)
        BY <1>1, <2>1, InstrReadAt
      <3> QED
        BY <1>1, <3>1 DEF ReadsAs
    <2>4. u.o \in 1..Len(x)
      <3>1. u.o \in 1..Width(m.code, u)
        BY <1>1, ReadAt
      <3> QED
        BY <1>1, <2>1, <3>1 DEF Width
    <2> QED
      BY <2>1, <2>2, <2>3, <2>4
  <1>4. u.j \in 1..Len(c)
    BY <1>3
  <1>5. Len(x) \in Nat
    BY <1>1, <1>3, AssemblyTypes
  <1>6. Width(m.code, u) = Len(x)
    BY <1>1, <1>3 DEF Width
  <1>7. Reads(m, q)
    BY <1>1, <1>2, <1>3, <1>4, <1>5, <1>6 DEF Reads, InstrAt
  <1>8. ASSUME NEW A, Arrival(m.w.prog, A) PROVE Sorts(m, A, q)
    <2>1. PICK k : k = m.w.at[u.b] + u.j - 1
      OBVIOUS
    <2>2. CodeAt(m, c, u.j, k) \/ RetAt(m, c, u.j, k) \/ BrAt(m, A, c, u.j, k)
          \/ BrCondAt(m, A, c, u.j, k)
      BY <1>1, <1>2, <1>4, <1>8, <2>1, InstrFacts
    <2> QED
      BY <1>1, <2>1, <2>2 DEF Sorts, StmtAt
  <1> QED
    BY <1>7, <1>8

SameInstr(m, q, p) ==
    /\ InBlock(m, p) /\ InstrAt(m, p) = InstrAt(m, q) /\ StmtAt(m, p) = StmtAt(m, q)
    /\ m.W[p].op # "Label"

(* The next instruction of an LLVM instruction, and that of the next one.  *)
LEMMA GoesIn ==
    ASSUME NEW m, Ready(m), NEW q \in 1..Len(m.W), InBlock(m, q),
           m.r[q].o # Len(TranslateToAssembly(InstrAt(m, q)))
    PROVE  q + 1 \in 1..Len(m.W) /\ m.r[q + 1].o = m.r[q].o + 1 /\ SameInstr(m, q, q + 1)
  <1>1. PICK u, v : u = m.r[q] /\ v = m.r[q + 1]
    OBVIOUS
  <1>2. Reads(m, q)
    BY HereAt
  <1>3. u.o # Width(m.code, u)
    BY <1>1, <1>2 DEF Reads
  <1>4. q + 1 \in 1..Len(m.W) /\ v = Place(u.b, u.j, u.o + 1)
    BY <1>1, <1>3, NextAt
  <1>5. v.b = u.b /\ v.j = u.j /\ v.o = u.o + 1
    BY <1>4, PlaceFacts
  <1>6. InBlock(m, q + 1) /\ InstrAt(m, q + 1) = InstrAt(m, q) /\ StmtAt(m, q + 1) = StmtAt(m, q)
    BY <1>1, <1>5 DEF InBlock, InstrAt, StmtAt
  <1>7. v.j # 0
    BY <1>1, <1>5 DEF InBlock
  <1>8. m.W[q + 1].op # "Label"
    <2>1. PICK p : p = q + 1
      OBVIOUS
    <2>2. p \in 1..Len(m.W) /\ v = m.r[p]
      BY <1>1, <1>4, <2>1
    <2>3. ReadsAs(m, p, m.code[m.r[p].b][m.r[p].j], m.r[p].o)
      BY <1>7, <2>2, InstrReadAt
    <2> QED
      BY <2>1, <2>3 DEF ReadsAs
  <1> QED
    BY <1>1, <1>4, <1>5, <1>6, <1>8 DEF SameInstr

LEMMA GoesToNext ==
    ASSUME NEW m, Ready(m), NEW q \in 1..Len(m.W), InBlock(m, q),
           m.r[q].o = Len(TranslateToAssembly(InstrAt(m, q))),
           m.r[q].j + 1 \in 1..Len(m.code[m.r[q].b]), ~IsTerminator(InstrAt(m, q))
    PROVE  /\ q + 1 \in 1..Len(m.W) /\ m.r[q + 1] = Place(m.r[q].b, m.r[q].j + 1, 1)
           /\ InBlock(m, q + 1) /\ StmtAt(m, q + 1) = StmtAt(m, q) + 1
  <1>1. PICK u, v, c : u = m.r[q] /\ v = m.r[q + 1] /\ c = m.code[u.b]
    OBVIOUS
  <1>2. Reads(m, q)
    BY HereAt
  <1>3. u.o = Width(m.code, u) /\ Len(c) \in Nat /\ u.j \in 1..Len(c) /\ u.b \in m.good
    BY <1>1, <1>2 DEF Reads
  <1>4. u.j # Len(c)
    <2>1. \A N \in Nat : N + 1 \notin 1..N
      OBVIOUS
    <2>2. u.j + 1 \in 1..Len(c)
      BY <1>1
    <2>3. PICK N, y : N = Len(c) /\ y = u.j
      OBVIOUS
    <2>4. N \in Nat /\ y + 1 \in 1..N
      BY <1>3, <2>2, <2>3
    <2>5. y # N
      BY <2>1, <2>4
    <2> QED
      BY <2>3, <2>5
  <1>5. q + 1 \in 1..Len(m.W) /\ v = Place(u.b, u.j + 1, 1)
    <2>1. Width(m.code, u) \in Nat
      BY <1>1, <1>2 DEF Reads
    <2>2. \A y \in Nat : ~(y < y)
      OBVIOUS
    <2>3. ~(u.o < Width(m.code, u))
      BY <1>3, <2>1, <2>2
    <2>4. /\ q + 1 \in 1..Len(m.W)
          /\ \/ u.o < Width(m.code, u) /\ v = Place(u.b, u.j, u.o + 1)
             \/ u.o = Width(m.code, u) /\ u.j < Len(m.code[u.b]) /\ v = Place(u.b, u.j + 1, 1)
      BY <1>1, <1>4, NextAt
    <2> QED
      BY <2>3, <2>4
  <1>6. v.b = u.b /\ v.j = u.j + 1
    BY <1>5, PlaceFacts
  <1>7. Unended(c, u.j + 1)
    <2>1. Unended(c, u.j) /\ ~IsTerminator(c[u.j])
      BY <1>1 DEF InBlock, InstrAt
    <2>2. \A i \in 1..((u.j + 1) - 1) : i \in 1..(u.j - 1) \/ i = u.j
      BY <1>3
    <2> QED
      BY <2>1, <2>2 DEF Unended
  <1>8. InBlock(m, q + 1)
    <2>1. v.j >= 1
      BY <1>3, <1>6
    <2> QED
      BY <1>1, <1>3, <1>6, <1>7, <2>1 DEF InBlock
  <1>9. StmtAt(m, q + 1) = StmtAt(m, q) + 1
    <2>1. m.w.at[u.b] \in Nat
      <3>1. m.w.at \in [Nat -> Nat] /\ u.b \in Nat
        BY <1>3 DEF Ready, Settled
      <3> QED
        BY <3>1
    <2>2. \A x, y \in Int : x + (y + 1) - 1 = (x + y - 1) + 1
      OBVIOUS
    <2>3. u.j \in Int
      BY <1>3
    <2>4. m.w.at[u.b] + (u.j + 1) - 1 = (m.w.at[u.b] + u.j - 1) + 1
      <3>1. PICK x, y : x = m.w.at[u.b] /\ y = u.j
        OBVIOUS
      <3>2. x \in Int /\ y \in Int
        BY <2>1, <2>3, <3>1
      <3>3. x + (y + 1) - 1 = (x + y - 1) + 1
        BY <2>2, <3>2
      <3> QED
        BY <3>1, <3>3
    <2>5. StmtAt(m, q) = m.w.at[u.b] + u.j - 1
      BY <1>1 DEF StmtAt
    <2>6. StmtAt(m, q + 1) = m.w.at[u.b] + (u.j + 1) - 1
      BY <1>1, <1>6 DEF StmtAt
    <2> QED
      BY <2>4, <2>5, <2>6
  <1> QED
    BY <1>1, <1>5, <1>8, <1>9

LEMMA ToLabel ==
    ASSUME NEW m, Ready(m), NEW q \in 1..Len(m.W), NEW d, m.W[q] = Label(d),
           NEW A, NEW e, Target(m, A, e, d)
    PROVE  AtLabel(m, A, q, e)
  <1>1. m.r[q].j = 0 /\ m.r[q].b = d
    BY LabelAt
  <1> QED
    BY <1>1 DEF AtLabel

LEMMA LabelText ==
    ASSUME NEW m, Ready(m), NEW q \in 1..Len(m.W), m.r[q].j = 0
    PROVE  m.W[q] = Label(m.r[q].b) /\ m.W[q].op = "Label"
  <1>1. m.W[q] = Label(m.r[q].b)
    BY ReadAt
  <1> QED
    BY <1>1, ArmFacts DEF Label

(* What the ARM code of an LLVM instruction reads.                         *)
CodeText(x, k) == Len(x) = 1 /\ x[1] = ARM("Code", k, 0)
RetText(x, k) == Len(x) = 2 /\ x[1] = ARM("Code", k, 0) /\ x[2] = ARM("B", k, ExitLabel)
BrText(x, d) == \E k : Len(x) = 1 /\ x[1] = ARM("B", k, d)
BrCondText(x, k, t, f) ==
    Len(x) = 3 /\ x[1] = ARM("Cmp", k, 0) /\ x[2] = ARM("BEq", k, t) /\ x[3] = ARM("BNe", k, f)
LEMMA TextIs ==
    ASSUME NEW n, NEW i \in InstrOf(n), NEW x, x = TranslateToAssembly(i)
    PROVE  /\ \A k : i = Code(k) => CodeText(x, k)
           /\ \A k : i = Ret(k) => RetText(x, k)
           /\ \A d : i = Br(d) => BrText(x, d)
           /\ \A k, t, f : i = BrCond(k, t, f) => BrCondText(x, k, t, f)
  <1>1. /\ i.op = "Code" => x = <<ARM("Code", i.at, 0)>>
        /\ i.op = "Ret" => x = <<ARM("Code", i.at, 0), ARM("B", i.at, ExitLabel)>>
        /\ i.op = "Br" => x = <<ARM("B", i.at, i.dests[1])>>
        /\ i.op = "BrCond" => x = <<ARM("Cmp", i.at, 0), ARM("BEq", i.at, i.dests[1]),
                                    ARM("BNe", i.at, i.dests[2])>>
    BY AssemblyIs
  <1> HIDE DEF ARM
  <1>2. ASSUME NEW k, i = Code(k) PROVE CodeText(x, k)
    <2>1. x = <<ARM("Code", k, 0)>>
      BY <1>1, <1>2, OpFacts
    <2> QED
      BY <2>1 DEF CodeText
  <1>3. ASSUME NEW k, i = Ret(k) PROVE RetText(x, k)
    <2>1. x = <<ARM("Code", k, 0), ARM("B", k, ExitLabel)>>
      BY <1>1, <1>3, OpFacts
    <2> QED
      BY <2>1 DEF RetText
  <1>4. ASSUME NEW d, i = Br(d) PROVE BrText(x, d)
    <2>1. i.dests[1] = d
      BY <1>4, OpFacts
    <2>2. x = <<ARM("B", i.at, d)>>
      BY <1>1, <1>4, <2>1, OpFacts
    <2> QED
      BY <2>2 DEF BrText
  <1>5. ASSUME NEW k, NEW t, NEW f, i = BrCond(k, t, f) PROVE BrCondText(x, k, t, f)
    <2>1. i.dests[1] = t /\ i.dests[2] = f /\ i.at = k /\ i.op = "BrCond"
      BY <1>5, OpFacts
    <2>2. x = <<ARM("Cmp", k, 0), ARM("BEq", k, t), ARM("BNe", k, f)>>
      BY <1>1, <2>1
    <2> QED
      BY <2>2 DEF BrCondText
  <1> QED
    BY <1>2, <1>3, <1>4, <1>5

-----------------------------------------------------------------------------
(* The four things an LLVM instruction can be, with its ARM code.          *)

IsCode(m, q) ==
    LET j == m.r[q].j
        c == m.code[m.r[q].b]
    IN  /\ CodeText(TranslateToAssembly(InstrAt(m, q)), StmtAt(m, q))
        /\ ~IsTerminator(InstrAt(m, q)) /\ InstrAt(m, q).op = "Code"
        /\ CodeAt(m, c, j, StmtAt(m, q))
IsRet(m, q) ==
    LET k == StmtAt(m, q)
    IN  /\ RetText(TranslateToAssembly(InstrAt(m, q)), k) /\ InstrAt(m, q).op = "Ret"
        /\ k \in 1..(Len(m.w.prog) + 1) /\ (k = Len(m.w.prog) + 1 \/ m.w.prog[k] = "ret")
IsBr(m, A, q) ==
    /\ InstrAt(m, q).op = "Br"
    /\ \E d \in Nat : /\ BrText(TranslateToAssembly(InstrAt(m, q)), d)
                      /\ \A e : Due(m.w.prog, A, e, StmtAt(m, q)) => Target(m, A, e, d)
IsBrCond(m, A, q) ==
    LET k == StmtAt(m, q) - 1
        t == InstrAt(m, q).dests[1]
        f == InstrAt(m, q).dests[2]
    IN  /\ InstrAt(m, q).op = "BrCond" /\ BrCondText(TranslateToAssembly(InstrAt(m, q)), k, t, f)
        /\ t \in Nat /\ f \in Nat
        /\ k \in 1..Len(m.w.prog) /\ m.w.prog[k] \in Openers
        /\ m.r[q].j > 1 /\ m.r[q].j = Len(m.code[m.r[q].b])
        /\ Target(m, A, Event("true", k), t) /\ Target(m, A, Event("false", k), f)

LEMMA SortOf ==
    ASSUME NEW m, Ready(m), NEW A, Arrival(m.w.prog, A), NEW q \in 1..Len(m.W), InBlock(m, q)
    PROVE  IsCode(m, q) \/ IsRet(m, q) \/ IsBr(m, A, q) \/ IsBrCond(m, A, q)
  <1>1. PICK c, j, k, i, x : /\ c = m.code[m.r[q].b] /\ j = m.r[q].j /\ k = StmtAt(m, q)
                             /\ i = c[j] /\ x = TranslateToAssembly(i)
    OBVIOUS
  <1>2. InstrAt(m, q) = i
    BY <1>1 DEF InstrAt
  <1>3. i \in InstrOf(m.n)
    <2>1. Reads(m, q)
      BY HereAt
    <2> QED
      BY <1>2, <2>1 DEF Reads
  <1>4. CodeAt(m, c, j, k) \/ RetAt(m, c, j, k) \/ BrAt(m, A, c, j, k) \/ BrCondAt(m, A, c, j, k)
    <2>1. Sorts(m, A, q)
      BY HereAt
    <2> QED
      BY <1>1, <2>1 DEF Sorts
  <1>5. /\ \A l : i = Code(l) => CodeText(x, l)
        /\ \A l : i = Ret(l) => RetText(x, l)
        /\ \A d : i = Br(d) => BrText(x, d)
        /\ \A l, t, f : i = BrCond(l, t, f) => BrCondText(x, l, t, f)
    BY <1>1, <1>3, TextIs
  <1>6. CASE CodeAt(m, c, j, k)
    <2>1. i = Code(k)
      BY <1>1, <1>6 DEF CodeAt
    <2>2. CodeText(x, k) /\ i.op = "Code" /\ ~IsTerminator(i)
      BY <1>5, <2>1, OpFacts DEF IsTerminator
    <2> QED
      BY <1>1, <1>2, <1>6, <2>2 DEF IsCode
  <1>7. CASE RetAt(m, c, j, k)
    <2>1. i = Ret(k) /\ k \in 1..(Len(m.w.prog) + 1) /\ (k = Len(m.w.prog) + 1 \/ m.w.prog[k] = "ret")
      BY <1>1, <1>7 DEF RetAt
    <2>2. RetText(x, k) /\ i.op = "Ret"
      BY <1>5, <2>1, OpFacts
    <2> QED
      BY <1>1, <1>2, <2>1, <2>2 DEF IsRet
  <1>8. CASE BrAt(m, A, c, j, k)
    <2>1. PICK d \in Nat : i = Br(d) /\ \A e : Due(m.w.prog, A, e, k) => Target(m, A, e, d)
      BY <1>1, <1>8 DEF BrAt
    <2>2. BrText(x, d) /\ i.op = "Br"
      BY <1>5, <2>1, OpFacts
    <2> QED
      BY <1>1, <1>2, <2>1, <2>2 DEF IsBr
  <1>9. CASE BrCondAt(m, A, c, j, k)
    <2>1. PICK t, f \in Nat :
              /\ i = BrCond(k - 1, t, f) /\ k - 1 \in 1..Len(m.w.prog)
              /\ m.w.prog[k - 1] \in Openers /\ j > 1 /\ j = Len(c)
              /\ Target(m, A, Event("true", k - 1), t) /\ Target(m, A, Event("false", k - 1), f)
      BY <1>1, <1>9 DEF BrCondAt
    <2>2. i.dests = <<t, f>> /\ i.op = "BrCond" /\ BrCondText(x, k - 1, t, f)
      BY <1>5, <2>1, OpFacts
    <2>3. i.dests[1] = t /\ i.dests[2] = f
      BY <2>2
    <2> QED
      BY <1>1, <1>2, <2>1, <2>2, <2>3 DEF IsBrCond
  <1> QED
    BY <1>4, <1>6, <1>7, <1>8, <1>9

(* What is removed led nowhere else.                                       *)
LEMMA SkipOne ==
    ASSUME NEW m, Ready(m), NEW A, Arrival(m.w.prog, A), NEW q \in 1..Len(m.W), NEW f \in BOOLEAN, NEW e,
           Stands(m, A, q, f, e), Removable(m.W, q)
    PROVE  q + 1 \in 1..Len(m.W) /\ Stands(m, A, q + 1, f, e)
  <1>1. Len(m.W) \in Nat /\ DOMAIN m.W = 1..Len(m.W)
    BY LenProperties DEF Ready
  <1>2. PICK a : a = m.W[q]
    OBVIOUS
  <1>3. /\ a.op \in {"B", "BEq", "BNe"}
        /\ \/ q + 1 \in 1..Len(m.W) /\ m.W[q + 1] = Label(a.dest)
           \/ a.op # "B" /\ q + 2 \in 1..Len(m.W) /\ m.W[q + 2] = Label(a.dest)
    BY <1>1, <1>2 DEF Removable
  <1>4. \A d : Label(d).op = "Label"
    BY ArmFacts DEF Label
  <1>5. m.r[q].j # 0
    BY <1>2, <1>3, LabelText
  <1>6. PICK x : x = TranslateToAssembly(InstrAt(m, q))
    OBVIOUS
  <1>7. ~AtLabel(m, A, q, e) /\ ~BeforeLabel(m, A, q, e)
    BY <1>5 DEF AtLabel, BeforeLabel
  <1>8. InBlock(m, q)
    BY <1>7 DEF Stands, AtInstrStart, AtReturn, AtBEq, AtBNe
  <1>9. a = x[m.r[q].o]
    BY <1>2, <1>6, <1>8, HereAt DEF Reads
  <1>10. CASE AtInstrStart(m, A, q, e)
    <2>1. a = x[1]
      BY <1>9, <1>10 DEF AtInstrStart
    <2>2. ~IsCode(m, q)
      BY <1>3, <1>6, <2>1, ArmFacts DEF IsCode, CodeText
    <2>3. ~IsRet(m, q)
      BY <1>3, <1>6, <2>1, ArmFacts DEF IsRet, RetText
    <2>4. ~IsBrCond(m, A, q)
      BY <1>3, <1>6, <2>1, ArmFacts DEF IsBrCond, BrCondText
    <2>5. IsBr(m, A, q)
      BY <1>8, <2>2, <2>3, <2>4, SortOf
    <2>6. Due(m.w.prog, A, e, StmtAt(m, q))
      BY <1>10, <2>5 DEF IsBr, AtInstrStart
    <2>7. PICK d : BrText(x, d) /\ Target(m, A, e, d)
      BY <1>6, <2>5, <2>6 DEF IsBr
    <2>8. a.op = "B" /\ a.dest = d
      BY <2>1, <2>7, ArmFacts DEF BrText
    <2>9. q + 1 \in 1..Len(m.W) /\ m.W[q + 1] = Label(d)
      BY <1>3, <2>8
    <2>10. AtLabel(m, A, q + 1, e)
      BY <2>7, <2>9, ToLabel
    <2> QED
      BY <2>9, <2>10 DEF Stands
  <1>11. CASE AtReturn(m, A, q, e)
    <2>1. a = x[2] /\ InstrAt(m, q).op = "Ret"
      BY <1>9, <1>11 DEF AtReturn
    <2>2. IsRet(m, q)
      BY <1>8, <2>1, SortOf DEF IsCode, IsBr, IsBrCond
    <2>3. a.op = "B" /\ a.dest = ExitLabel
      BY <1>6, <2>1, <2>2, ArmFacts DEF IsRet, RetText
    <2>4. q + 1 \in 1..Len(m.W) /\ m.W[q + 1] = Label(ExitLabel)
      BY <1>3, <2>3
    <2>5. ExitLabel \in Nat
      BY <2>4, LabelAt
    <2> QED
      BY <2>5 DEF ExitLabel
  <1>12. CASE AtBEq(m, A, q, f, e)
    <2>1. a = x[2] /\ InstrAt(m, q).op = "BrCond" /\ m.r[q].o = 2
      BY <1>9, <1>12 DEF AtBEq
    <2>2. IsBrCond(m, A, q)
      BY <1>8, <2>1, SortOf DEF IsCode, IsBr, IsRet
    <2>3. a.dest = InstrAt(m, q).dests[1] /\ Len(x) = 3
      BY <1>6, <2>1, <2>2, ArmFacts DEF IsBrCond, BrCondText
    <2>4. q + 1 \in 1..Len(m.W) /\ m.r[q + 1].o = 3 /\ SameInstr(m, q, q + 1)
      <3>1. m.r[q].o # Len(TranslateToAssembly(InstrAt(m, q)))
        BY <1>6, <2>1, <2>3
      <3>2. q + 1 \in 1..Len(m.W) /\ m.r[q + 1].o = m.r[q].o + 1 /\ SameInstr(m, q, q + 1)
        BY <1>8, <3>1, GoesIn
      <3> QED
        BY <2>1, <3>2
    <2>5. m.W[q + 1].op # "Label"
      BY <2>4 DEF SameInstr
    <2>6. q + 2 \in 1..Len(m.W) /\ m.W[q + 2] = Label(a.dest)
      BY <1>3, <1>4, <2>5
    <2>7. (q + 1) + 1 = q + 2
      OBVIOUS
    <2>8. AtBNe(m, A, q + 1, f, e)
      BY <1>12, <2>1, <2>3, <2>4, <2>6, <2>7 DEF AtBEq, AtBNe, SameInstr
    <2> QED
      BY <2>4, <2>8 DEF Stands
  <1>13. CASE AtBNe(m, A, q, f, e)
    <2>1. a = x[3] /\ InstrAt(m, q).op = "BrCond" /\ m.r[q].o = 3
      BY <1>9, <1>13 DEF AtBNe
    <2>2. IsBrCond(m, A, q)
      BY <1>8, <2>1, SortOf DEF IsCode, IsBr, IsRet
    <2>3. a.dest = InstrAt(m, q).dests[2] /\ Len(x) = 3
      BY <1>6, <2>1, <2>2, ArmFacts DEF IsBrCond, BrCondText
    <2>4. Target(m, A, e, InstrAt(m, q).dests[IF f THEN 1 ELSE 2])
      BY <1>13 DEF AtBNe
    <2>5. CASE f
      <3>1. q + 1 \in 1..Len(m.W) /\ m.W[q + 1] = Label(InstrAt(m, q).dests[1])
        BY <1>13, <2>5 DEF AtBNe
      <3>2. AtLabel(m, A, q + 1, e)
        BY <2>4, <2>5, <3>1, ToLabel
      <3> QED
        BY <3>1, <3>2 DEF Stands
    <2>6. CASE ~f /\ q + 1 \in 1..Len(m.W) /\ m.W[q + 1] = Label(a.dest)
      <3>1. AtLabel(m, A, q + 1, e)
        BY <2>3, <2>4, <2>6, ToLabel
      <3> QED
        BY <2>6, <3>1 DEF Stands
    <2>7. CASE ~f /\ q + 2 \in 1..Len(m.W) /\ m.W[q + 2] = Label(a.dest)
      <3>1. AtLabel(m, A, q + 2, e)
        BY <2>3, <2>4, <2>7, ToLabel
      <3>2. q < Len(m.W) /\ q + 1 \in 1..Len(m.W) /\ (q + 1) + 1 = q + 2
        BY <1>1, <2>7
      <3>3. m.r[q + 1].j = 0
        <4>1. PICK u, v : u = m.r[q] /\ v = m.r[q + 1]
          OBVIOUS
        <4>2. Onwards(m.code, u, v)
          BY <3>2, <4>1 DEF Ready, Walk
        <4>3. Width(m.code, u) = 3
          BY <1>6, <1>8, <2>3, <4>1, HereAt DEF Reads
        <4>4. u.j = Len(m.code[u.b]) /\ Len(m.code[u.b]) \in Nat
          BY <1>8, <2>2, <4>1, HereAt DEF IsBrCond, Reads
        <4>5. v = Place(v.b, 0, 1)
          <5>1. ~(u.o < Width(m.code, u))
            BY <2>1, <4>1, <4>3
          <5>2. ~(u.j < Len(m.code[u.b]))
            <6>1. \A y \in Nat : ~(y < y)
              OBVIOUS
            <6> QED
              BY <4>4, <6>1
          <5> QED
            BY <4>2, <5>1, <5>2 DEF Onwards
        <4> QED
          BY <4>1, <4>5, PlaceFacts
      <3>4. BeforeLabel(m, A, q + 1, e)
        BY <2>7, <3>1, <3>2, <3>3 DEF BeforeLabel
      <3> QED
        BY <3>2, <3>4 DEF Stands
    <2> QED
      BY <1>3, <2>5, <2>6, <2>7
  <1> QED
    BY <1>7, <1>10, <1>11, <1>12, <1>13 DEF Stands

(* Control comes to an instruction that is kept.                           *)
Removed(W, B, X, g) == Thins(W, B, X, g) /\ \A p \in X : Removable(W, p)
Settles(m, A, X, g, q, f, e) ==
    \E p \in (1..Len(m.W)) \ X : g[p] = g[q] /\ Stands(m, A, p, f, e)
LEMMA Settle ==
    ASSUME NEW m, Ready(m), NEW A, Arrival(m.w.prog, A), NEW f \in BOOLEAN, NEW e,
           NEW B, NEW X, NEW g, Removed(m.W, B, X, g),
           NEW q \in 1..Len(m.W), Stands(m, A, q, f, e)
    PROVE  Settles(m, A, X, g, q, f, e)
  <1>0. Thins(m.W, B, X, g) /\ \A p \in X : Removable(m.W, p)
    BY DEF Removed
  <1>1. PICK N : N = Len(m.W)
    OBVIOUS
  <1>2. N \in Nat
    BY <1>1, LenProperties DEF Ready
  <1> DEFINE Comes(s) == \E p \in (1..N) \ X : g[p] = g[s] /\ Stands(m, A, p, f, e)
             Z == {i \in Nat : \A s \in 1..N : N - s = i /\ Stands(m, A, s, f, e) => Comes(s)}
  <1>3. ASSUME NEW s \in 1..N, Stands(m, A, s, f, e),
               s \in X => (s + 1 \in 1..N /\ Stands(m, A, s + 1, f, e) => Comes(s + 1))
        PROVE  Comes(s)
    <2>1. CASE s \notin X
      BY <1>3, <2>1
    <2>2. CASE s \in X
      <3>1. s + 1 \in 1..N /\ Stands(m, A, s + 1, f, e)
        <4>1. Removable(m.W, s)
          BY <1>0, <2>2
        <4> QED
          BY <1>1, <1>3, <4>1, SkipOne
      <3>2. g[s + 1] = g[s]
        BY <1>0, <1>1, <2>2 DEF Thins
      <3> QED
        BY <1>3, <2>2, <3>1, <3>2
    <2> QED
      BY <2>1, <2>2
  <1> HIDE DEF Comes
  <1>4. 0 \in Z
    <2> SUFFICES ASSUME NEW s \in 1..N, N - s = 0, Stands(m, A, s, f, e) PROVE Comes(s)
      OBVIOUS
    <2>1. s + 1 \notin 1..N
      BY <1>2
    <2> QED
      BY <1>3, <2>1
  <1>5. ASSUME NEW i \in Nat, i \in Z PROVE i + 1 \in Z
    <2> SUFFICES ASSUME NEW s \in 1..N, N - s = i + 1, Stands(m, A, s, f, e) PROVE Comes(s)
      OBVIOUS
    <2>1. N - (s + 1) = i
      BY <1>2
    <2> QED
      BY <1>3, <1>5, <2>1
  <1>6. \A i \in Nat : i \in Z
    <2> HIDE DEF Z
    <2> QED
      BY <1>4, <1>5, AllNats
  <1>7. N - q \in Nat /\ q \in 1..N
    BY <1>1, <1>2
  <1>8. Comes(q)
    BY <1>6, <1>7
  <1> QED
    BY <1>1, <1>8 DEF Comes, Settles

-----------------------------------------------------------------------------
(* One step of execution.                                                  *)

Here(m, A, X, g, q) ==
    /\ Ready(m) /\ Arrival(m.w.prog, A)
    /\ body \in Seq(ArmOf(m.n)) /\ Thins(m.W, body, X, g)
    /\ halted = "no" /\ flag \in BOOLEAN
    /\ q \in (1..Len(m.W)) \ X /\ pc = g[q] /\ Stands(m, A, q, flag, shown)
Moves(m, A, g) ==
    halted' = "no" /\ \E p \in 1..Len(m.W) : pc' = g[p] /\ Stands(m, A, p, flag', shown')
Stops(m) == halted' = "returned" /\ Ends(m.w.prog, shown')
Shows(m, A, e, now) ==
    \/ \E k \in 1..(Len(m.w.prog) + 1) :
          /\ Due(m.w.prog, A, e, k) /\ now = Event("ran", k)
          /\ k = Len(m.w.prog) + 1 \/ m.w.prog[k] \in {"stm", "ret", "if", "for"}
    \/ \E k \in 1..Len(m.w.prog) : \E kind \in {"true", "false"} :
          e = Event("ran", k) /\ m.w.prog[k] \in Openers /\ now = Event(kind, k)

LEMMA HereFacts ==
    ASSUME NEW m, NEW A, NEW X, NEW g, NEW q, Here(m, A, X, g, q)
    PROVE  /\ q \in 1..Len(m.W) /\ Len(m.W) \in Nat /\ DOMAIN body = 1..Len(body)
           /\ pc <= Len(body) /\ ~(pc > Len(body)) /\ Current = m.W[q] /\ pc + 1 = g[q + 1]
  <1>1. q \in 1..Len(m.W) /\ Len(m.W) \in Nat /\ DOMAIN body = 1..Len(body) /\ Len(body) \in Nat
    BY LenProperties DEF Here, Ready
  <1>2. pc \in 1..Len(body) /\ body[pc] = m.W[q] /\ g[q + 1] = g[q] + 1 /\ g[q] = pc
    BY DEF Here, Thins
  <1>3. pc <= Len(body) /\ ~(pc > Len(body))
    BY <1>1, <1>2
  <1> QED
    BY <1>1, <1>2, <1>3 DEF Current

LEMMA ThroughMoves ==
    ASSUME NEW m, NEW A, NEW X, NEW g, NEW q, Here(m, A, X, g, q), Through,
           q + 1 \in 1..Len(m.W), Stands(m, A, q + 1, flag', shown')
    PROVE  Moves(m, A, g)
  <1>1. pc' = g[q + 1]
    BY HereFacts DEF Through
  <1>2. halted' = "no"
    BY DEF Through, Here
  <1> QED
    BY <1>1, <1>2 DEF Moves

LEMMA JumpMoves ==
    ASSUME NEW m, NEW A, NEW X, NEW g, NEW q, Here(m, A, X, g, q), NEW d \in Nat, Jump(d),
           Target(m, A, shown, d), UNCHANGED <<flag, shown>>
    PROVE  Moves(m, A, g)
  <1>1. d # ExitLabel
    BY DEF ExitLabel
  <1>2. PICK i \in 1..Len(body) : body[i] = Label(d) /\ pc' = i /\ halted' = halted
    BY <1>1, HereFacts DEF Jump
  <1>3. PICK p \in (1..Len(m.W)) \ X : g[p] = i
    BY DEF Here, Thins
  <1>4. m.W[p] = Label(d)
    <2>1. body[g[p]] = m.W[p]
      BY DEF Here, Thins
    <2> QED
      BY <1>2, <1>3, <2>1
  <1>5. AtLabel(m, A, p, shown)
    BY <1>4, ToLabel DEF Here
  <1>6. Stands(m, A, p, flag', shown')
    BY <1>5 DEF Stands
  <1>7. halted' = "no"
    BY <1>2 DEF Here
  <1> QED
    BY <1>2, <1>3, <1>6, <1>7 DEF Moves

LEMMA RunsLabel ==
    ASSUME NEW m, NEW A, NEW X, NEW g, NEW q, Here(m, A, X, g, q), RunLabel
    PROVE  Moves(m, A, g)
  <1>0. Ready(m) /\ Arrival(m.w.prog, A) /\ Stands(m, A, q, flag, shown) /\ q \in 1..Len(m.W)
    BY HereFacts DEF Here
  <1>1. m.W[q].op = "Label" /\ Through /\ UNCHANGED <<flag, shown>>
    BY HereFacts DEF RunLabel, AtInstr
  <1>2. PICK u : u = m.r[q]
    OBVIOUS
  <1>3. u.j = 0
    BY <1>0, <1>1, <1>2, ReadAt
  <1>4. AtLabel(m, A, q, shown) \/ BeforeLabel(m, A, q, shown)
    <2>1. ~InBlock(m, q)
      BY <1>2, <1>3 DEF InBlock
    <2> QED
      BY <1>0, <2>1 DEF Stands, AtInstrStart, AtReturn, AtBEq, AtBNe
  <1>5. CASE AtLabel(m, A, q, shown)
    <2>1. PICK c, b : c = m.code[u.b] /\ b = u.b
      OBVIOUS
    <2>2. b \in m.good /\ Due(m.w.prog, A, shown, m.w.at[b])
      BY <1>2, <1>5, <2>1 DEF AtLabel, Target
    <2>3. c \in Seq(InstrOf(m.n)) /\ Len(c) \in Nat /\ FirstTerminator(c) # {}
      BY <1>0, <2>1, <2>2, LenProperties DEF Ready, Coded
    <2>4. Len(c) # 0
      <3>1. PICK i \in FirstTerminator(c) : TRUE
        BY <2>3
      <3>2. i \in 1..Len(c)
        BY <2>3, <3>1 DEF FirstTerminator
      <3> QED
        BY <2>3, <3>2
    <2>5. q + 1 \in 1..Len(m.W) /\ m.r[q + 1] = Place(b, 1, 1)
      <3>1. Width(m.code, u) = 1
        BY <1>3 DEF Width
      <3>2. u.o = 1
        <4>1. u.o \in 1..1
          BY <1>0, <1>2, <3>1, ReadAt
        <4> QED
          BY <4>1
      <3>3. u.j # Len(m.code[u.b])
        BY <1>3, <2>1, <2>4
      <3>4. /\ q + 1 \in 1..Len(m.W)
            /\ \/ u.o < Width(m.code, u) /\ m.r[q + 1] = Place(u.b, u.j, u.o + 1)
               \/ u.o = Width(m.code, u) /\ u.j < Len(m.code[u.b])
                  /\ m.r[q + 1] = Place(u.b, u.j + 1, 1)
        BY <1>0, <1>2, <3>3, NextAt
      <3>5. ~(1 < 1) /\ 0 + 1 = 1
        OBVIOUS
      <3> QED
        BY <1>3, <2>1, <3>1, <3>2, <3>4, <3>5
    <2>6. m.r[q + 1].b = b /\ m.r[q + 1].j = 1 /\ m.r[q + 1].o = 1
      BY <2>5, PlaceFacts
    <2>7. InBlock(m, q + 1)
      <3>1. Unended(c, 1)
        BY DEF Unended
      <3> QED
        BY <2>1, <2>2, <2>6, <3>1 DEF InBlock
    <2>8. InstrAt(m, q + 1).op # "BrCond"
      <3>1. ASSUME InstrAt(m, q + 1).op = "BrCond" PROVE FALSE
        <4>1. IsBrCond(m, A, q + 1)
          BY <1>0, <2>5, <2>7, <3>1, SortOf DEF IsCode, IsRet, IsBr
        <4>2. 1 > 1
          BY <2>6, <4>1 DEF IsBrCond
        <4> QED
          BY <4>2
      <3> QED
        BY <3>1
    <2>9. StmtAt(m, q + 1) = m.w.at[b]
      <3>1. m.w.at[b] \in Nat
        <4>1. m.w.at \in [Nat -> Nat] /\ b \in Nat
          BY <1>0, <2>2 DEF Ready, Settled
        <4> QED
          BY <4>1
      <3>2. \A y \in Nat : y + 1 - 1 = y
        OBVIOUS
      <3>3. StmtAt(m, q + 1) = m.w.at[b] + 1 - 1
        BY <2>6 DEF StmtAt
      <3> QED
        BY <3>1, <3>2, <3>3
    <2>10. AtInstrStart(m, A, q + 1, shown)
      BY <2>2, <2>6, <2>7, <2>8, <2>9 DEF AtInstrStart
    <2>11. Stands(m, A, q + 1, flag', shown')
      BY <1>1, <2>10 DEF Stands
    <2> QED
      BY <1>1, <2>5, <2>11, ThroughMoves
  <1>6. CASE BeforeLabel(m, A, q, shown)
    <2>1. q + 1 \in 1..Len(m.W) /\ AtLabel(m, A, q + 1, shown)
      BY <1>6 DEF BeforeLabel
    <2>2. Stands(m, A, q + 1, flag', shown')
      BY <1>1, <2>1 DEF Stands
    <2> QED
      BY <1>1, <2>1, <2>2, ThroughMoves
  <1> QED
    BY <1>4, <1>5, <1>6


(* What ARM code of which LLVM instruction runs.                           *)
LEMMA HereRuns ==
    ASSUME NEW m, NEW A, NEW X, NEW g, NEW q, Here(m, A, X, g, q), Current.op # "Label",
           NEW x, x = TranslateToAssembly(InstrAt(m, q))
    PROVE  /\ InBlock(m, q) /\ Current = x[m.r[q].o] /\ Len(x) \in Nat
           /\ IsCode(m, q) \/ IsRet(m, q) \/ IsBr(m, A, q) \/ IsBrCond(m, A, q)
           /\ \/ AtInstrStart(m, A, q, shown) \/ AtReturn(m, A, q, shown)
              \/ AtBEq(m, A, q, flag, shown) \/ AtBNe(m, A, q, flag, shown)
  <1>1. Ready(m) /\ Arrival(m.w.prog, A) /\ Stands(m, A, q, flag, shown)
        /\ q \in 1..Len(m.W) /\ Current = m.W[q]
    <2>1. q \in 1..Len(m.W) /\ Current = m.W[q]
      BY HereFacts
    <2> QED
      BY <2>1 DEF Here
  <1>2. m.r[q].j # 0
    BY <1>1, LabelText
  <1>3. \/ AtInstrStart(m, A, q, shown) \/ AtReturn(m, A, q, shown)
        \/ AtBEq(m, A, q, flag, shown) \/ AtBNe(m, A, q, flag, shown)
    BY <1>1, <1>2 DEF Stands, AtLabel, BeforeLabel
  <1>4. InBlock(m, q)
    BY <1>3 DEF AtInstrStart, AtReturn, AtBEq, AtBNe
  <1>5. Reads(m, q)
    BY <1>1, <1>4, HereAt
  <1>6. IsCode(m, q) \/ IsRet(m, q) \/ IsBr(m, A, q) \/ IsBrCond(m, A, q)
    BY <1>1, <1>4, SortOf
  <1> QED
    BY <1>1, <1>3, <1>4, <1>5, <1>6 DEF Reads

LEMMA RunsCode ==
    ASSUME NEW m, NEW A, NEW X, NEW g, NEW q, Here(m, A, X, g, q), RunCode
    PROVE  Moves(m, A, g) /\ Shows(m, A, shown, shown')
  <1>0. Ready(m) /\ Arrival(m.w.prog, A) /\ q \in 1..Len(m.W)
    BY HereFacts DEF Here
  <1>1. Current.op = "Code" /\ Through /\ flag' = flag /\ shown' = Event("ran", Current.at)
    BY DEF RunCode, AtInstr
  <1>2. PICK x, k, o : x = TranslateToAssembly(InstrAt(m, q)) /\ k = StmtAt(m, q) /\ o = m.r[q].o
    OBVIOUS
  <1>3. /\ InBlock(m, q) /\ Current = x[o] /\ Len(x) \in Nat
        /\ IsCode(m, q) \/ IsRet(m, q) \/ IsBr(m, A, q) \/ IsBrCond(m, A, q)
        /\ \/ AtInstrStart(m, A, q, shown) \/ AtReturn(m, A, q, shown)
           \/ AtBEq(m, A, q, flag, shown) \/ AtBNe(m, A, q, flag, shown)
    BY <1>1, <1>2, HereRuns
  <1>4. ~IsBr(m, A, q)
    <2>1. ASSUME IsBr(m, A, q) PROVE FALSE
      <3>1. InstrAt(m, q).op = "Br" /\ \E d : BrText(x, d)
        BY <1>2, <2>1 DEF IsBr
      <3>2. o = 1
        BY <1>2, <1>3, <3>1 DEF AtInstrStart, AtReturn, AtBEq, AtBNe
      <3> QED
        BY <1>1, <1>3, <3>1, <3>2, ArmFacts DEF BrText
    <2> QED
      BY <2>1
  <1>5. ~IsBrCond(m, A, q)
    <2>1. ASSUME IsBrCond(m, A, q) PROVE FALSE
      <3>1. InstrAt(m, q).op = "BrCond" /\ \E l, t, f : BrCondText(x, l, t, f)
        BY <1>2, <2>1 DEF IsBrCond
      <3>2. o = 1 \/ o = 2 \/ o = 3
        BY <1>2, <1>3, <3>1 DEF AtInstrStart, AtReturn, AtBEq, AtBNe
      <3> QED
        BY <1>1, <1>3, <3>1, <3>2, ArmFacts DEF BrCondText
    <2> QED
      BY <2>1
  <1>6. AtInstrStart(m, A, q, shown)
    <2>1. InstrAt(m, q).op # "BrCond"
      BY <1>3, <1>4, <1>5 DEF IsCode, IsRet
    <2>2. ~AtReturn(m, A, q, shown)
      <3>1. ASSUME AtReturn(m, A, q, shown) PROVE FALSE
        <4>1. o = 2 /\ InstrAt(m, q).op = "Ret"
          BY <1>2, <3>1 DEF AtReturn
        <4>2. RetText(x, k)
          BY <1>2, <1>3, <1>4, <1>5, <4>1 DEF IsCode, IsRet
        <4> QED
          BY <1>1, <1>3, <4>1, <4>2, ArmFacts DEF RetText
      <3> QED
        BY <3>1
    <2> QED
      BY <1>3, <2>1, <2>2 DEF AtBEq, AtBNe
  <1>7. o = 1 /\ Due(m.w.prog, A, shown, k)
    <2>1. InstrAt(m, q).op # "BrCond"
      BY <1>3, <1>4, <1>5 DEF IsCode, IsRet
    <2> QED
      BY <1>2, <1>6, <2>1 DEF AtInstrStart
  <1>8. PICK e : e = Event("ran", k)
    OBVIOUS
  <1>9. CASE IsCode(m, q)
    <2>1. /\ CodeText(x, k) /\ ~IsTerminator(InstrAt(m, q))
          /\ CodeAt(m, m.code[m.r[q].b], m.r[q].j, k)
      BY <1>2, <1>9 DEF IsCode
    <2>2. shown' = e
      BY <1>1, <1>3, <1>7, <1>8, <2>1, ArmFacts DEF CodeText
    <2>3. k \in 1..Len(m.w.prog) /\ m.r[q].j + 1 \in 1..Len(m.code[m.r[q].b])
          /\ IF m.code[m.r[q].b][m.r[q].j + 1].op = "BrCond"
             THEN m.w.prog[k] \in Openers ELSE m.w.prog[k] = "stm"
      BY <2>1 DEF CodeAt
    <2>3a. m.w.prog[k] \in {"stm", "if", "for"}
      BY <2>3 DEF Openers
    <2>4. m.r[q].o = Len(TranslateToAssembly(InstrAt(m, q)))
      BY <1>2, <1>7, <2>1 DEF CodeText
    <2>5. /\ q + 1 \in 1..Len(m.W) /\ m.r[q + 1] = Place(m.r[q].b, m.r[q].j + 1, 1)
          /\ InBlock(m, q + 1) /\ StmtAt(m, q + 1) = StmtAt(m, q) + 1
      BY <1>0, <1>3, <2>1, <2>3, <2>4, GoesToNext
    <2>6. InstrAt(m, q + 1) = m.code[m.r[q].b][m.r[q].j + 1] /\ m.r[q + 1].o = 1
      BY <2>5, PlaceFacts DEF InstrAt
    <2>7. k \in Int /\ Len(m.w.prog) \in Nat
      <3>1. m.w.prog \in Seq(Tokens)
        BY <1>0 DEF Ready, Settled, Whole
      <3> QED
        BY <2>3, <3>1, LenProperties
    <2>8. StmtAt(m, q + 1) - 1 = k
      BY <1>2, <2>5, <2>7
    <2>9. AtInstrStart(m, A, q + 1, e)
      <3>1. CASE InstrAt(m, q + 1).op = "BrCond"
        BY <1>8, <2>5, <2>6, <2>8, <3>1 DEF AtInstrStart
      <3>2. CASE InstrAt(m, q + 1).op # "BrCond"
        <4>1. m.w.prog[k] = "stm"
          BY <2>3, <2>6, <3>2
        <4>2. Goes(m.w.prog, e, k + 1)
          BY <1>8, <2>3, <4>1 DEF Goes
        <4>3. Due(m.w.prog, A, e, k + 1)
          BY <4>2 DEF Due
        <4> QED
          BY <1>2, <2>5, <2>6, <3>2, <4>3 DEF AtInstrStart
      <3> QED
        BY <3>1, <3>2
    <2>10. Stands(m, A, q + 1, flag', shown')
      BY <2>2, <2>9 DEF Stands
    <2>11. Moves(m, A, g)
      BY <1>1, <2>5, <2>10, ThroughMoves
    <2>12. k \in 1..(Len(m.w.prog) + 1)
      BY <2>3, <2>7
    <2>13. Shows(m, A, shown, shown')
      BY <1>7, <1>8, <2>2, <2>3a, <2>12 DEF Shows
    <2> QED
      BY <2>11, <2>13
  <1>10. CASE IsRet(m, q)
    <2>1. RetText(x, k) /\ InstrAt(m, q).op = "Ret" /\ k \in 1..(Len(m.w.prog) + 1)
          /\ (k = Len(m.w.prog) + 1 \/ m.w.prog[k] = "ret")
      BY <1>2, <1>10 DEF IsRet
    <2>2. shown' = e
      BY <1>1, <1>3, <1>7, <1>8, <2>1, ArmFacts DEF RetText
    <2>3. m.r[q].o # Len(TranslateToAssembly(InstrAt(m, q)))
      BY <1>2, <1>7, <2>1 DEF RetText
    <2>4. q + 1 \in 1..Len(m.W) /\ m.r[q + 1].o = m.r[q].o + 1 /\ SameInstr(m, q, q + 1)
      BY <1>0, <1>3, <2>3, GoesIn
    <2>5. m.r[q + 1].o = 2
      <3>1. m.r[q + 1].o = o + 1
        BY <1>2, <2>4
      <3> QED
        BY <1>7, <3>1
    <2>6. Ends(m.w.prog, e)
      BY <1>8, <2>1 DEF Ends
    <2>7. AtReturn(m, A, q + 1, e)
      BY <2>1, <2>4, <2>5, <2>6 DEF AtReturn, SameInstr
    <2>8. Stands(m, A, q + 1, flag', shown')
      BY <2>2, <2>7 DEF Stands
    <2>9. Moves(m, A, g)
      BY <1>1, <2>4, <2>8, ThroughMoves
    <2>10. Shows(m, A, shown, shown')
      BY <1>7, <1>8, <2>1, <2>2 DEF Shows
    <2> QED
      BY <2>9, <2>10
  <1> QED
    BY <1>3, <1>4, <1>5, <1>9, <1>10

LEMMA RunsCmp ==
    ASSUME NEW m, NEW A, NEW X, NEW g, NEW q, Here(m, A, X, g, q), NEW holds \in BOOLEAN, RunCmp(holds)
    PROVE  Moves(m, A, g) /\ Shows(m, A, shown, shown')
  <1>0. Ready(m) /\ Arrival(m.w.prog, A) /\ q \in 1..Len(m.W)
    BY HereFacts DEF Here
  <1>1. Current.op = "Cmp" /\ Through /\ flag' = holds
        /\ shown' = Event(IF holds THEN "true" ELSE "false", Current.at)
    BY DEF RunCmp, AtInstr
  <1>2. PICK x, k, o : x = TranslateToAssembly(InstrAt(m, q)) /\ k = StmtAt(m, q) - 1 /\ o = m.r[q].o
    OBVIOUS
  <1>3. /\ InBlock(m, q) /\ Current = x[o] /\ Len(x) \in Nat
        /\ IsCode(m, q) \/ IsRet(m, q) \/ IsBr(m, A, q) \/ IsBrCond(m, A, q)
        /\ \/ AtInstrStart(m, A, q, shown) \/ AtReturn(m, A, q, shown)
           \/ AtBEq(m, A, q, flag, shown) \/ AtBNe(m, A, q, flag, shown)
    BY <1>1, <1>2, HereRuns
  <1>4. ASSUME InstrAt(m, q).op # "BrCond" PROVE FALSE
    <2>1. o = 1 \/ (o = 2 /\ InstrAt(m, q).op = "Ret")
      BY <1>2, <1>3, <1>4 DEF AtInstrStart, AtReturn, AtBEq, AtBNe
    <2>2. ~IsCode(m, q)
      BY <1>1, <1>2, <1>3, <2>1, ArmFacts DEF IsCode, CodeText
    <2>3. ~IsRet(m, q)
      BY <1>1, <1>2, <1>3, <2>1, ArmFacts DEF IsRet, RetText
    <2>4. ~IsBr(m, A, q)
      BY <1>1, <1>2, <1>3, <2>1, ArmFacts DEF IsBr, BrText
    <2> QED
      BY <1>3, <1>4, <2>2, <2>3, <2>4 DEF IsBrCond
  <1>5. IsBrCond(m, A, q)
    BY <1>3, <1>4 DEF IsCode, IsRet, IsBr
  <1>6. PICK t, f : t = InstrAt(m, q).dests[1] /\ f = InstrAt(m, q).dests[2]
    OBVIOUS
  <1>7. /\ InstrAt(m, q).op = "BrCond" /\ BrCondText(x, k, t, f)
        /\ k \in 1..Len(m.w.prog) /\ m.w.prog[k] \in Openers
        /\ Target(m, A, Event("true", k), t) /\ Target(m, A, Event("false", k), f)
    BY <1>2, <1>5, <1>6 DEF IsBrCond
  <1>8. AtInstrStart(m, A, q, shown)
    <2>1. o # 2 /\ o # 3
      BY <1>1, <1>3, <1>7, ArmFacts DEF BrCondText
    <2> QED
      BY <1>2, <1>3, <2>1 DEF AtReturn, AtBEq, AtBNe
  <1>9. o = 1 /\ shown = Event("ran", k)
    BY <1>2, <1>7, <1>8 DEF AtInstrStart
  <1>10. shown' = Event(IF holds THEN "true" ELSE "false", k)
    BY <1>1, <1>3, <1>7, <1>9, ArmFacts DEF BrCondText
  <1>11. Shows(m, A, shown, shown')
    BY <1>7, <1>9, <1>10 DEF Shows
  <1>12. q + 1 \in 1..Len(m.W) /\ m.r[q + 1].o = 2 /\ SameInstr(m, q, q + 1)
    <2>1. m.r[q].o # Len(TranslateToAssembly(InstrAt(m, q)))
      BY <1>2, <1>7, <1>9 DEF BrCondText
    <2>2. q + 1 \in 1..Len(m.W) /\ m.r[q + 1].o = m.r[q].o + 1 /\ SameInstr(m, q, q + 1)
      BY <1>0, <1>3, <2>1, GoesIn
    <2>3. m.r[q + 1].o = o + 1
      BY <1>2, <2>2
    <2> QED
      BY <1>9, <2>2, <2>3
  <1>13. Target(m, A, shown', InstrAt(m, q).dests[IF flag' THEN 1 ELSE 2])
    BY <1>1, <1>6, <1>7, <1>10
  <1>14. AtBEq(m, A, q + 1, flag', shown')
    BY <1>7, <1>12, <1>13 DEF AtBEq, SameInstr
  <1>15. Stands(m, A, q + 1, flag', shown')
    BY <1>14 DEF Stands
  <1>16. Moves(m, A, g)
    BY <1>1, <1>12, <1>15, ThroughMoves
  <1> QED
    BY <1>11, <1>16

LEMMA RunsB ==
    ASSUME NEW m, NEW A, NEW X, NEW g, NEW q, Here(m, A, X, g, q), RunB
    PROVE  Moves(m, A, g) \/ Stops(m)
  <1>1. Current.op = "B" /\ Jump(Current.dest) /\ UNCHANGED <<flag, shown>>
    BY DEF RunB, AtInstr
  <1>2. PICK x, k, o : x = TranslateToAssembly(InstrAt(m, q)) /\ k = StmtAt(m, q) /\ o = m.r[q].o
    OBVIOUS
  <1>3. /\ InBlock(m, q) /\ Current = x[o] /\ Len(x) \in Nat
        /\ IsCode(m, q) \/ IsRet(m, q) \/ IsBr(m, A, q) \/ IsBrCond(m, A, q)
        /\ \/ AtInstrStart(m, A, q, shown) \/ AtReturn(m, A, q, shown)
           \/ AtBEq(m, A, q, flag, shown) \/ AtBNe(m, A, q, flag, shown)
    BY <1>1, <1>2, HereRuns
  <1>4. CASE IsCode(m, q)
    <2>1. InstrAt(m, q).op = "Code" /\ CodeText(x, k)
      BY <1>2, <1>4 DEF IsCode
    <2>2. o = 1
      BY <1>2, <1>3, <2>1 DEF AtInstrStart, AtReturn, AtBEq, AtBNe
    <2> QED
      BY <1>1, <1>3, <2>1, <2>2, ArmFacts DEF CodeText
  <1>5. CASE IsBrCond(m, A, q)
    <2>1. InstrAt(m, q).op = "BrCond" /\ \E l, t, f : BrCondText(x, l, t, f)
      BY <1>2, <1>5 DEF IsBrCond
    <2>2. o = 1 \/ o = 2 \/ o = 3
      BY <1>2, <1>3, <2>1 DEF AtInstrStart, AtReturn, AtBEq, AtBNe
    <2> QED
      BY <1>1, <1>3, <2>1, <2>2, ArmFacts DEF BrCondText
  <1>6. CASE IsRet(m, q)
    <2>1. InstrAt(m, q).op = "Ret" /\ RetText(x, k)
      BY <1>2, <1>6 DEF IsRet
    <2>2. o # 1
      BY <1>1, <1>3, <2>1, ArmFacts DEF RetText
    <2>3. AtReturn(m, A, q, shown)
      BY <1>2, <1>3, <2>1, <2>2 DEF AtInstrStart, AtBEq, AtBNe
    <2>4. o = 2 /\ Ends(m.w.prog, shown)
      BY <1>2, <2>3 DEF AtReturn
    <2>5. Current.dest = ExitLabel
      BY <1>3, <2>1, <2>4, ArmFacts DEF RetText
    <2>6. halted' = "returned" /\ shown' = shown
      BY <1>1, <2>5 DEF Jump
    <2> QED
      BY <2>4, <2>6 DEF Stops
  <1>7. CASE IsBr(m, A, q)
    <2>1. PICK d \in Nat : /\ InstrAt(m, q).op = "Br" /\ BrText(x, d)
                           /\ \A e : Due(m.w.prog, A, e, k) => Target(m, A, e, d)
      BY <1>2, <1>7 DEF IsBr
    <2>2. o = 1 /\ Due(m.w.prog, A, shown, k)
      BY <1>2, <1>3, <2>1 DEF AtInstrStart, AtReturn, AtBEq, AtBNe
    <2>3. Current.dest = d
      BY <1>3, <2>1, <2>2, ArmFacts DEF BrText
    <2>4. Target(m, A, shown, d) /\ Jump(d)
      BY <1>1, <2>1, <2>2, <2>3
    <2> QED
      BY <1>1, <2>4, JumpMoves
  <1> QED
    BY <1>3, <1>4, <1>5, <1>6, <1>7

LEMMA RunsBCond ==
    ASSUME NEW m, NEW A, NEW X, NEW g, NEW q, Here(m, A, X, g, q), RunBCond
    PROVE  Moves(m, A, g)
  <1>0. Ready(m) /\ Arrival(m.w.prog, A) /\ q \in 1..Len(m.W) /\ flag \in BOOLEAN
    BY HereFacts DEF Here
  <1>1. /\ Current.op \in {"BEq", "BNe"} /\ UNCHANGED <<flag, shown>>
        /\ IF flag = (Current.op = "BEq") THEN Jump(Current.dest) ELSE Through
    BY DEF RunBCond, AtInstr
  <1>2. PICK x, o, i : x = TranslateToAssembly(i) /\ i = InstrAt(m, q) /\ o = m.r[q].o
    OBVIOUS
  <1>3. /\ InBlock(m, q) /\ Current = x[o] /\ Len(x) \in Nat
        /\ IsCode(m, q) \/ IsRet(m, q) \/ IsBr(m, A, q) \/ IsBrCond(m, A, q)
        /\ \/ AtInstrStart(m, A, q, shown) \/ AtReturn(m, A, q, shown)
           \/ AtBEq(m, A, q, flag, shown) \/ AtBNe(m, A, q, flag, shown)
    BY <1>1, <1>2, HereRuns
  <1>4. ASSUME i.op # "BrCond" PROVE FALSE
    <2>1. o = 1 \/ (o = 2 /\ i.op = "Ret")
      BY <1>2, <1>3, <1>4 DEF AtInstrStart, AtReturn, AtBEq, AtBNe
    <2>2. ~IsCode(m, q)
      BY <1>1, <1>2, <1>3, <2>1, ArmFacts DEF IsCode, CodeText
    <2>3. ~IsRet(m, q)
      BY <1>1, <1>2, <1>3, <2>1, ArmFacts DEF IsRet, RetText
    <2>4. ~IsBr(m, A, q)
      BY <1>1, <1>2, <1>3, <2>1, ArmFacts DEF IsBr, BrText
    <2> QED
      BY <1>2, <1>3, <1>4, <2>2, <2>3, <2>4 DEF IsBrCond
  <1>5. IsBrCond(m, A, q)
    BY <1>2, <1>3, <1>4 DEF IsCode, IsRet, IsBr
  <1>6. PICK t, f : t = i.dests[1] /\ f = i.dests[2]
    OBVIOUS
  <1>7. i.op = "BrCond" /\ t \in Nat /\ f \in Nat /\ \E l : BrCondText(x, l, t, f)
    BY <1>2, <1>5, <1>6 DEF IsBrCond
  <1>8. o # 1
    BY <1>1, <1>3, <1>7, ArmFacts DEF BrCondText
  <1>9. AtBEq(m, A, q, flag, shown) \/ AtBNe(m, A, q, flag, shown)
    BY <1>2, <1>3, <1>7, <1>8 DEF AtInstrStart, AtReturn
  <1>10. Target(m, A, shown, i.dests[IF flag THEN 1 ELSE 2])
    BY <1>2, <1>9 DEF AtBEq, AtBNe
  <1>11. CASE AtBEq(m, A, q, flag, shown)
    <2>1. o = 2
      BY <1>2, <1>11 DEF AtBEq
    <2>2. Current.op = "BEq" /\ Current.dest = t /\ Len(x) = 3
      BY <1>3, <1>7, <2>1, ArmFacts DEF BrCondText
    <2>3. CASE flag = TRUE
      <3>1. Jump(t) /\ Target(m, A, shown, t)
        BY <1>1, <1>6, <1>10, <2>2, <2>3
      <3> QED
        BY <1>1, <1>7, <3>1, JumpMoves
    <2>4. CASE flag = FALSE
      <3>1. Through
        BY <1>1, <2>2, <2>4
      <3>2. q + 1 \in 1..Len(m.W) /\ m.r[q + 1].o = 3 /\ SameInstr(m, q, q + 1)
        <4>1. m.r[q].o # Len(TranslateToAssembly(InstrAt(m, q)))
          BY <1>2, <2>1, <2>2
        <4>2. q + 1 \in 1..Len(m.W) /\ m.r[q + 1].o = m.r[q].o + 1 /\ SameInstr(m, q, q + 1)
          BY <1>0, <1>3, <4>1, GoesIn
        <4>3. m.r[q + 1].o = o + 1
          BY <1>2, <4>2
        <4> QED
          BY <2>1, <4>2, <4>3
      <3>3. AtBNe(m, A, q + 1, flag, shown)
        BY <1>2, <1>7, <1>10, <2>4, <3>2 DEF AtBNe, SameInstr
      <3>4. Stands(m, A, q + 1, flag', shown')
        BY <1>1, <3>3 DEF Stands
      <3> QED
        BY <3>1, <3>2, <3>4, ThroughMoves
    <2> QED
      BY <1>0, <2>3, <2>4
  <1>12. CASE AtBNe(m, A, q, flag, shown)
    <2>1. o = 3
      BY <1>2, <1>12 DEF AtBNe
    <2>2. Current.op = "BNe" /\ Current.dest = f
      BY <1>3, <1>7, <2>1, ArmFacts DEF BrCondText
    <2>3. CASE flag = FALSE
      <3>1. Jump(f) /\ Target(m, A, shown, f)
        BY <1>1, <1>6, <1>10, <2>2, <2>3
      <3> QED
        BY <1>1, <1>7, <3>1, JumpMoves
    <2>4. CASE flag = TRUE
      <3>1. Through
        BY <1>1, <2>2, <2>4
      <3>2. q + 1 \in 1..Len(m.W) /\ m.W[q + 1] = Label(t) /\ Target(m, A, shown, t)
        BY <1>2, <1>6, <1>10, <1>12, <2>4 DEF AtBNe
      <3>3. AtLabel(m, A, q + 1, shown)
        BY <1>0, <3>2, ToLabel
      <3>4. Stands(m, A, q + 1, flag', shown')
        BY <1>1, <3>3 DEF Stands
      <3> QED
        BY <3>1, <3>2, <3>4, ThroughMoves
    <2> QED
      BY <1>0, <2>3, <2>4
  <1> QED
    BY <1>9, <1>11, <1>12

-----------------------------------------------------------------------------
(* Execution follows the statements.                                       *)

(* The code is loaded, and control stands where the source says.           *)
Loaded(m) ==
    \/ halted = "reducing" /\ body = m.W /\ pc = 1 /\ shown = Start
    \/ /\ halted = "no" /\ body \in Seq(ArmOf(m.n))
       /\ \E X, g :
             /\ Removed(m.W, body, X, g)
             /\ \A A : Arrival(m.w.prog, A) =>
                   \E q \in 1..Len(m.W) : pc = g[q] /\ Stands(m, A, q, flag, shown)
    \/ halted = "returned" /\ Ends(m.w.prog, shown)
Runs(m) == Ready(m) /\ m.w.prog = prog /\ Len(prog) <= MaxTokens /\ Loaded(m)
ExecInv ==
    /\ flag \in BOOLEAN
    /\ phase # "translated" =>
          /\ halted = "untranslated" /\ shown = Start /\ pc = 1
          /\ BuildInv /\ FlowInv /\ ChartInv
    /\ phase = "translated" /\ ~trusted => \E m : Runs(m)

LEMMA StartStands ==
    ASSUME NEW m, Ready(m), NEW A, NEW f
    PROVE  1 \in 1..Len(m.W) /\ Stands(m, A, 1, f, Start)
  <1>1. Len(m.W) \in Nat /\ Len(m.W) >= 1
    BY LenProperties DEF Ready
  <1>2. m.r[1].j = 0 /\ m.r[1].b = Entry
    BY PlaceFacts DEF Ready
  <1>3. Due(m.w.prog, A, Start, 1)
    <2>1. Goes(m.w.prog, Start, 1)
      BY DEF Goes
    <2> QED
      BY <2>1 DEF Due
  <1>4. Target(m, A, Start, Entry)
    BY <1>3 DEF Target, Ready
  <1>5. AtLabel(m, A, 1, Start)
    BY <1>2, <1>4 DEF AtLabel
  <1> QED
    BY <1>1, <1>5 DEF Stands

LEMMA ReadyToRun ==
    ASSUME BuildInv, FlowInv, ChartInv, phase = "done", ~trusted
    PROVE  \E m : Ready(m) /\ m.w.prog = prog /\ Len(prog) <= MaxTokens /\ m.W = Body
  <1>1. PICK w : Finished(w)
    BY DEF ChartInv
  <1>2. PICK S \in SUBSET (DOMAIN blk) : Reaches(S) /\ \A b \in S : Term(blk, b)
    BY DEF FlowInv, LeaveInv
  <1>3. PICK r, l : ComeTo(Body, r, CodeNow, l, Len(CodeNow[l]), Count)
    BY BodyWalks
  <1>4. PICK code, W, n, good : code = CodeNow /\ W = Body /\ n = Count /\ good = {b \in S : w.at[b] # 0}
    OBVIOUS
  <1>5. PICK m : m = [w |-> w, good |-> good, code |-> code, W |-> W, r |-> r, n |-> n]
    OBVIOUS
  <1>6. m.w = w /\ m.good = good /\ m.code = code /\ m.W = W /\ m.r = r /\ m.n = n
    BY <1>5
  <1>7. /\ DOMAIN code = DOMAIN blk /\ DOMAIN blk \subseteq Nat /\ n \in Nat
        /\ \A b \in DOMAIN code : code[b] = blk[b].instrs /\ code[b] \in Seq(InstrOf(n))
    <2>1. n \in Nat \ {0} /\ blk \in [0..(n - 1) -> BlockOf(n)]
      BY <1>4 DEF BuildInv
    <2>2. DOMAIN blk = 0..(n - 1) /\ \A b \in DOMAIN blk : blk[b].instrs \in Seq(InstrOf(n))
      BY <2>1 DEF BlockOf
    <2>3. DOMAIN code = DOMAIN blk /\ \A b \in DOMAIN code : code[b] = blk[b].instrs
      BY <1>4 DEF CodeNow
    <2>4. 0..(n - 1) \subseteq Nat
      BY <2>1
    <2> QED
      BY <2>1, <2>2, <2>3, <2>4
  <1>8. Settled(w) /\ w.prog = prog
    <2>1. w.prog = prog /\ DOMAIN w.open = {} /\ Charted(w)
      BY <1>1 DEF Finished
    <2>1a. w.at \in [Nat -> Nat]
      BY <2>1 DEF Charted
    <2>2. Whole(prog)
      BY <1>1, FinishedWhole
    <2> QED
      BY <2>1, <2>1a, <2>2 DEF Settled
  <1>9. Entry \in good /\ w.at[Entry] = 1
    <2>1. Entry \in S /\ w.at[Entry] = 1
      BY <1>1, <1>2 DEF Reaches, Finished
    <2> QED
      BY <1>4, <2>1
  <1>10. ASSUME NEW b \in good
         PROVE  /\ b \in DOMAIN code /\ w.at[b] # 0
                /\ FirstTerminator(code[b]) # {}
                /\ FitsFrom(w, code[b], w.at[b], TRUE)
                /\ \A d \in Leaves(code[b]) : w.at[d] # 0 => d \in good
    <2>1. b \in S /\ w.at[b] # 0 /\ b \in DOMAIN code /\ code[b] = blk[b].instrs
      BY <1>2, <1>4, <1>7
    <2>2. FirstTerminator(code[b]) # {}
      BY <1>2, <2>1 DEF Term
    <2>3. Leaves(code[b]) \subseteq S /\ b \notin Leaves(code[b])
      BY <1>2, <2>1 DEF Reaches, Out
    <2>4. code[b] # <<Br(b)>>
      <3>1. ASSUME code[b] = <<Br(b)>> PROVE FALSE
        <4>1. PICK c : c = code[b]
          OBVIOUS
        <4>2. c \in Seq(InstrOf(n)) /\ Len(c) = 1 /\ c[1] = Br(b)
          <5>1. PICK i : i = Br(b)
            OBVIOUS
          <5>2. c = <<i>>
            BY <3>1, <4>1, <5>1
          <5>3. Len(c) = 1 /\ c[1] = i
            BY <5>2
          <5> QED
            BY <1>7, <2>1, <4>1, <5>1, <5>3
        <4>3. PICK i \in FirstTerminator(c) : TRUE
          BY <2>2, <4>1
        <4>4. i \in 1..1
          BY <4>2, <4>3, TruncateEnds
        <4>5. Leaves(c) = ToSet(<<b>>)
          BY <4>2, <4>3, <4>4, LeavesByTerminator, OpFacts
        <4>6. b \in ToSet(<<b>>)
          BY DEF ToSet
        <4> QED
          BY <2>3, <4>1, <4>5, <4>6
      <3> QED
        BY <3>1
    <2>5. FitsFrom(w, code[b], w.at[b], TRUE)
      BY <1>1, <1>7, <2>1, <2>4 DEF Finished
    <2> QED
      BY <1>4, <2>1, <2>2, <2>3, <2>5
  <1>11. /\ W \in Seq(ArmOf(n)) /\ Len(W) >= 1 /\ Walk(W, r, code) /\ r[1] = Place(Entry, 0, 1)
         /\ r[Len(W)] = Place(l, Len(code[l]), Width(code, Place(l, Len(code[l]), 1)))
    BY <1>3, <1>4 DEF ComeTo
  <1>12. Coded(code, n)
    BY <1>7 DEF Coded
  <1>13. Ready(m)
    BY <1>6, <1>7, <1>8, <1>9, <1>10, <1>11, <1>12 DEF Ready
  <1>14. Len(prog) <= MaxTokens
    BY DEF BuildInv
  <1> QED
    BY <1>4, <1>6, <1>8, <1>13, <1>14

LEMMA OneStep ==
    ASSUME NEW m, NEW A, NEW X, NEW g, NEW q, Here(m, A, X, g, q), Step
    PROVE  /\ Moves(m, A, g) \/ Stops(m)
           /\ shown' = shown \/ Shows(m, A, shown, shown')
  <1>1. CASE RunLabel
    BY <1>1, RunsLabel DEF RunLabel
  <1>2. CASE RunCode
    BY <1>2, RunsCode
  <1>3. CASE RunB
    BY <1>3, RunsB DEF RunB
  <1>4. CASE RunBCond
    BY <1>4, RunsBCond DEF RunBCond
  <1>5. CASE FallOff
    <2>1. pc > Len(body)
      BY <1>5 DEF FallOff
    <2> QED
      BY <2>1, HereFacts
  <1>6. ASSUME NEW holds \in BOOLEAN, RunCmp(holds)
        PROVE  Moves(m, A, g) /\ Shows(m, A, shown, shown')
    BY <1>6, RunsCmp
  <1> QED
    BY <1>1, <1>2, <1>3, <1>4, <1>5, <1>6 DEF Step

LEMMA FlagTyped ==
    ASSUME flag \in BOOLEAN, Step
    PROVE  flag' \in BOOLEAN /\ halted = "no" /\ UNCHANGED <<vars, body>>
  BY DEF Step, RunLabel, RunCode, RunB, RunBCond, FallOff, RunCmp, AtInstr, Running

LEMMA StepRuns ==
    ASSUME NEW m, Runs(m), flag \in BOOLEAN, Step
    PROVE  Loaded(m)' /\ (shown' = shown \/ shown' \in SourceNext(shown))
  <1>1. /\ Ready(m) /\ m.w.prog = prog /\ Len(prog) <= MaxTokens /\ Loaded(m)
        /\ Whole(prog) /\ Settled(m.w)
    BY DEF Runs, Ready, Settled
  <1>2. halted = "no" /\ body' = body
    BY FlagTyped
  <1>3. PICK X, g :
             /\ Removed(m.W, body, X, g)
             /\ \A A : Arrival(m.w.prog, A) =>
                   \E q \in 1..Len(m.W) : pc = g[q] /\ Stands(m, A, q, flag, shown)
    BY <1>1, <1>2 DEF Loaded
  <1>3a. body \in Seq(ArmOf(m.n))
    BY <1>1, <1>2 DEF Loaded
  <1>4. ASSUME NEW A, Arrival(m.w.prog, A)
        PROVE  /\ Moves(m, A, g) \/ Stops(m)
               /\ shown' = shown \/ Shows(m, A, shown, shown')
    <2>1. PICK q \in 1..Len(m.W) : pc = g[q] /\ Stands(m, A, q, flag, shown)
      BY <1>3, <1>4
    <2>2. PICK f, e, B : f = flag /\ e = shown /\ B = body
      OBVIOUS
    <2>3. f \in BOOLEAN /\ Stands(m, A, q, f, e) /\ Removed(m.W, B, X, g)
      BY <1>3, <2>1, <2>2
    <2>3a. Ready(m) /\ Arrival(m.w.prog, A)
      BY <1>1, <1>4
    <2>3b. Settles(m, A, X, g, q, f, e)
      BY <2>3, <2>3a, Settle
    <2>4. PICK p \in (1..Len(m.W)) \ X : g[p] = g[q] /\ Stands(m, A, p, f, e)
      BY <2>3b DEF Settles
    <2>5. Here(m, A, X, g, p)
      BY <1>1, <1>2, <1>3, <1>3a, <1>4, <2>1, <2>2, <2>4 DEF Here, Removed
    <2> QED
      BY <2>5, OneStep
  <1>5. PICK A0 : A0 = Arrive
    OBVIOUS
  <1>6. Arrival(m.w.prog, A0)
    BY <1>1, <1>5, ArriveFacts
  <1>7. Loaded(m)'
    <2>1. CASE halted' = "no"
      <3>1. ~Stops(m)
        BY <2>1 DEF Stops
      <3>2. \A A : Arrival(m.w.prog, A) =>
               \E q \in 1..Len(m.W) : pc' = g[q] /\ Stands(m, A, q, flag', shown')
        BY <1>4, <3>1 DEF Moves
      <3>3. Removed(m.W, body', X, g) /\ body' \in Seq(ArmOf(m.n))
        BY <1>2, <1>3, <1>3a
      <3> QED
        BY <1>3, <2>1, <3>2, <3>3 DEF Loaded
    <2>2. CASE halted' # "no"
      <3>1. Stops(m)
        BY <1>4, <1>6, <2>2 DEF Moves
      <3> QED
        BY <3>1 DEF Stops, Loaded
    <2> QED
      BY <2>1, <2>2
  <1>8. shown' = shown \/ shown' \in SourceNext(shown)
    <2> SUFFICES ASSUME shown' # shown PROVE shown' \in SourceNext(shown)
      OBVIOUS
    <2>1. Shows(m, A0, shown, shown')
      BY <1>4, <1>6
    <2>2. CASE \E k \in 1..(Len(prog) + 1) :
                  /\ Due(prog, Arrive, shown, k) /\ shown' = Event("ran", k)
                  /\ k = Len(prog) + 1 \/ prog[k] \in {"stm", "ret", "if", "for"}
      BY <1>1, <2>2, DueRuns
    <2>3. CASE \E k \in 1..Len(prog) : \E kind \in {"true", "false"} :
                  shown = Event("ran", k) /\ prog[k] \in Openers /\ shown' = Event(kind, k)
      BY <1>1, <2>3, TestDecides
    <2> QED
      BY <1>1, <1>5, <2>1, <2>2, <2>3 DEF Shows
  <1> QED
    BY <1>7, <1>8

LEMMA ReduceRuns ==
    ASSUME NEW m, Runs(m), Reduce
    PROVE  Loaded(m)'
  <1>1. Ready(m) /\ body = m.W /\ pc = 1 /\ shown = Start /\ m.W \in Seq(ArmOf(m.n))
    BY DEF Runs, Loaded, Reduce, Ready
  <1>2. PICK B, X : B = RemoveInstrs(m.W) /\ X = {q \in 1..Len(m.W) : Removable(m.W, q)}
    OBVIOUS
  <1>3. B \in Seq(ArmOf(m.n)) /\ \E g : Thins(m.W, B, X, g)
    BY <1>1, <1>2, RemovedThins
  <1>4. PICK g : Thins(m.W, B, X, g)
    BY <1>3
  <1>5. body' = B /\ pc' = 1 /\ shown' = Start /\ halted' = "no" /\ flag' = flag
    BY <1>1, <1>2 DEF Reduce
  <1>6. ASSUME NEW A
        PROVE  \E q \in 1..Len(m.W) : pc' = g[q] /\ Stands(m, A, q, flag', shown')
    <2>1. 1 \in 1..Len(m.W) /\ Stands(m, A, 1, flag', shown')
      <3>1. PICK f : f = flag'
        OBVIOUS
      <3> QED
        BY <1>1, <1>5, <3>1, StartStands
    <2>2. g[1] = 1
      BY <1>4 DEF Thins
    <2> QED
      BY <1>5, <2>1, <2>2
  <1>7. Removed(m.W, B, X, g)
    BY <1>2, <1>4 DEF Removed
  <1> QED
    BY <1>3, <1>4, <1>5, <1>6, <1>7 DEF Loaded

LEMMA TranslateRuns ==
    ASSUME BuildInv, FlowInv, ChartInv, shown = Start, pc = 1, TranslateToARM, ~trusted
    PROVE  (\E m : Runs(m))'
  <1>1. PICK m : Ready(m) /\ m.w.prog = prog /\ Len(prog) <= MaxTokens /\ m.W = Body
    BY ReadyToRun DEF TranslateToARM
  <1>2. /\ body' = m.W /\ pc' = 1 /\ shown' = Start /\ flag' = flag /\ prog' = prog
        /\ halted' = IF optimize THEN "reducing" ELSE "no"
    BY <1>1 DEF TranslateToARM, source
  <1>3. Loaded(m)'
    <2>1. CASE optimize
      BY <1>2, <2>1 DEF Loaded
    <2>2. CASE ~optimize
      <3>1. m.W \in Seq(ArmOf(m.n))
        BY <1>1 DEF Ready
      <3>2. PICK g : Thins(m.W, m.W, {}, g)
        BY <3>1, NothingRemoved
      <3>3. ASSUME NEW A
            PROVE  \E q \in 1..Len(m.W) : pc' = g[q] /\ Stands(m, A, q, flag', shown')
        <4>1. 1 \in 1..Len(m.W) /\ Stands(m, A, 1, flag', shown')
          <5>1. PICK f : f = flag'
            OBVIOUS
          <5> QED
            BY <1>1, <1>2, <5>1, StartStands
        <4>2. g[1] = 1
          BY <3>2 DEF Thins
        <4> QED
          BY <1>2, <4>1, <4>2
      <3>4. Removed(m.W, body', {}, g) /\ body' \in Seq(ArmOf(m.n))
        BY <1>2, <3>1, <3>2 DEF Removed
      <3>5. halted' = "no"
        BY <1>2, <2>2
      <3> QED
        BY <3>3, <3>4, <3>5 DEF Loaded
    <2> QED
      BY <2>1, <2>2
  <1>4. Runs(m)'
    BY <1>1, <1>2, <1>3 DEF Runs
  <1> QED
    BY <1>4


LEMMA ExecStep ==
    ASSUME ExecInv, [ExecNext]_<<vars, execVars>>
    PROVE  ExecInv' /\ (trusted \/ shown' = shown \/ shown' \in SourceNext(shown))
  <1>0. /\ flag \in BOOLEAN
        /\ phase # "translated" =>
              halted = "untranslated" /\ shown = Start /\ pc = 1 /\ BuildInv /\ FlowInv /\ ChartInv
        /\ phase = "translated" /\ ~trusted => \E m : Runs(m)
    BY DEF ExecInv
  <1>1. CASE UNCHANGED <<vars, execVars>>
    <2>1. BuildInv => BuildInv' /\ [Next]_vars
      BY <1>1, NextTyped
    <2>2. BuildInv /\ FlowInv /\ ChartInv => BuildInv' /\ FlowInv' /\ ChartInv'
      BY <2>1, FlowStep, ChartStep
    <2>3. /\ flag' = flag /\ halted' = halted /\ shown' = shown /\ pc' = pc /\ body' = body
          /\ phase' = phase /\ trusted' = trusted /\ prog' = prog
      BY <1>1 DEF execVars, vars, source, check
    <2>4. (\E m : Runs(m)) => (\E m : Runs(m))'
      <3> SUFFICES ASSUME NEW m, Runs(m) PROVE Runs(m)'
        OBVIOUS
      <3>1. Loaded(m)'
        BY <2>3 DEF Runs, Loaded
      <3> QED
        BY <2>3, <3>1 DEF Runs
    <2> QED
      BY <1>0, <2>2, <2>3, <2>4 DEF ExecInv
  <1>2. CASE Next /\ UNCHANGED execVars
    <2>1. phase # "translated"
      BY <1>2 DEF Next, Statement, Return, OpenIf, Else, EndIf, OpenLoop, EndLoop, Read, Reject,
                  FinishPlain, FinishOptimized, StartPass, FinishPrune, RemoveBlock
    <2>2. halted = "untranslated" /\ shown = Start /\ pc = 1 /\ BuildInv /\ FlowInv /\ ChartInv
      BY <1>0, <2>1
    <2>3. BuildInv'
      BY <1>2, <2>2, NextTyped
    <2>4. FlowInv' /\ ChartInv'
      BY <1>2, <2>2, <2>3, FlowStep, ChartStep
    <2>5. phase' # "translated"
      BY <2>3 DEF BuildInv
    <2>6. flag' = flag /\ halted' = halted /\ shown' = shown /\ pc' = pc
      BY <1>2 DEF execVars
    <2> QED
      BY <1>0, <2>2, <2>3, <2>4, <2>5, <2>6 DEF ExecInv
  <1>3. CASE TranslateToARM
    <2>1. phase = "done" /\ phase' = "translated" /\ shown' = shown /\ flag' = flag /\ trusted' = trusted
      BY <1>3 DEF TranslateToARM, check
    <2>2. shown = Start /\ pc = 1 /\ BuildInv /\ FlowInv /\ ChartInv
      BY <1>0, <2>1
    <2>3. ~trusted => (\E m : Runs(m))'
      BY <1>3, <2>2, TranslateRuns
    <2> QED
      BY <1>0, <2>1, <2>3 DEF ExecInv
  <1>4. CASE Reduce
    <2>1. halted = "reducing" /\ UNCHANGED <<vars, pc, flag, shown>>
      BY <1>4 DEF Reduce
    <2>2. phase = "translated" /\ phase' = phase /\ trusted' = trusted /\ prog' = prog
      BY <1>0, <2>1 DEF vars, source, check
    <2>3. ~trusted => (\E m : Runs(m))'
      <3> SUFFICES ASSUME ~trusted PROVE (\E m : Runs(m))'
        OBVIOUS
      <3>1. PICK m : Runs(m)
        BY <1>0, <2>2
      <3>2. Loaded(m)'
        BY <1>4, <3>1, ReduceRuns
      <3>3. Runs(m)'
        BY <2>2, <3>1, <3>2 DEF Runs
      <3> QED
        BY <3>3
    <2> QED
      BY <1>0, <2>1, <2>2, <2>3 DEF ExecInv
  <1>5. CASE Step
    <2>1. flag' \in BOOLEAN /\ halted = "no" /\ UNCHANGED <<vars, body>>
      BY <1>0, <1>5, FlagTyped
    <2>2. phase = "translated" /\ phase' = phase /\ trusted' = trusted /\ prog' = prog
      BY <1>0, <2>1 DEF vars, source, check
    <2>3. ~trusted => (\E m : Runs(m))' /\ (shown' = shown \/ shown' \in SourceNext(shown))
      <3> SUFFICES ASSUME ~trusted
                   PROVE  (\E m : Runs(m))' /\ (shown' = shown \/ shown' \in SourceNext(shown))
        OBVIOUS
      <3>1. PICK m : Runs(m)
        BY <1>0, <2>2
      <3>2. Loaded(m)' /\ (shown' = shown \/ shown' \in SourceNext(shown))
        BY <1>0, <1>5, <3>1, StepRuns
      <3>3. Runs(m)'
        BY <2>2, <3>1, <3>2 DEF Runs
      <3> QED
        BY <3>2, <3>3
    <2> QED
      BY <2>1, <2>2, <2>3 DEF ExecInv
  <1> QED
    BY <1>1, <1>2, <1>3, <1>4, <1>5 DEF ExecNext

LEMMA InitRuns ==
    ASSUME ExecInit
    PROVE  ExecInv
  <1>1. Init /\ flag = FALSE /\ pc = 1 /\ shown = Start /\ halted = "untranslated"
    BY DEF ExecInit
  <1>2. BuildInv /\ FlowInv /\ ChartInv
    BY <1>1, InitTyped, InitLeaves, InitCharted
  <1>3. phase # "translated"
    BY <1>1 DEF Init
  <1> QED
    BY <1>1, <1>2, <1>3 DEF ExecInv

LEMMA ExecAlways == ExecSpec => []ExecInv
  <1> QED
    BY InitRuns, ExecStep, PTL DEF ExecSpec

(* Execution never stops short, whatever the function and however often    *)
(* its loops go round: when it halts, a return has run or the end of a     *)
(* function without a result has been reached, and the statements have     *)
(* nothing more to do.  Loops that ReturnCheck took at their word are      *)
(* excepted (ast/loop.go).                                                 *)
THEOREM NeverStopsShort == ExecSpec => []StopsWhereSourceDoes
  <1>1. ExecInv => StopsWhereSourceDoes
    <2> SUFFICES ASSUME ExecInv, halted \in {"returned", "fell"}, ~trusted
                 PROVE  halted = "returned" /\ SourceNext(shown) = {}
      BY DEF StopsWhereSourceDoes
    <2>1. phase = "translated"
      BY DEF ExecInv
    <2>2. PICK m : Runs(m)
      BY <2>1 DEF ExecInv
    <2>3. halted = "returned" /\ Ends(prog, shown) /\ Whole(prog)
      BY <2>2 DEF Runs, Loaded, Ready, Settled
    <2> QED
      BY <2>3, EndsThere
  <1> QED
    BY <1>1, ExecAlways, PTL

(* Translated, laid out, pruned and with branches removed, the code does   *)
(* what the statements say, in their order.  Loops that ReturnCheck took   *)
(* at their word are excepted (ast/loop.go).                               *)
THEOREM AlwaysFollowsSource == ExecSpec => FollowsSource
  <1>1. ExecInv /\ [ExecNext]_<<vars, execVars>> => [trusted \/ shown' \in SourceNext(shown)]_shown
    BY ExecStep
  <1> QED
    BY <1>1, ExecAlways, PTL DEF ExecSpec, FollowsSource
=============================================================================
